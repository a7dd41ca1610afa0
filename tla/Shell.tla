-------------------------------- MODULE Shell --------------------------------
(***************************************************************************)
(* The shell tool (funera_builtin_tools/src/shell.rs) and the sandboxes    *)
(* its commands run in (funera_core/src/security/sandbox.rs,               *)
(* sandbox_win.rs).  A plain or Unix command, and the fallback of a        *)
(* Windows sandbox, is a child whose output a timeout awaits; the full     *)
(* Windows sandbox is one synchronous function that creates pipes, a       *)
(* restricted child and then waits and reads.  Several commands run at     *)
(* once in one process: they share the sandbox's SID, hence its grants,    *)
(* and a child inherits every inheritable handle that is open when it is   *)
(* created, those of another command's pipes included.                     *)
(***************************************************************************)
EXTENDS Naturals, FiniteSets, FiniteSetsExt

CONSTANTS Commands,
          Modes,     \* the builds and policies: a subset of {"plain", "unix", "windows"}
          MaxChunks  \* bound: what the children write to their pipes

Parent == "parent"
Streams == {"out", "err"}

VARIABLES
  mode,     \* how this process runs its commands
  pc,       \* where each command is
  fallback, \* the commands whose full sandbox could not be set up
  handles,  \* what the full sandbox has open, but for the write ends of live pipes
  guarded,  \* the commands whose PipeGuard exists and is not committed
  expired,  \* WaitForSingleObject gave up
  child,    \* each command's child
  confined, \* the commands whose child is restricted to the policy's paths
  ends,     \* who holds the write ends of the pipes the command is read from
  full,     \* the streams whose pipe is full
  verdict,  \* what the tool returned
  grant,    \* the SID of the process may write in the read_write_paths
  spawned,  \* history: the children created for the command
  chunks,   \* history: what the child has written
  got,      \* history: what of it was read
  shaken,   \* history: commands that were at work when another one's sandbox went
  unheard   \* history: commands whose icacls failed, which nobody notices

procVars   == <<child, confined, ends, full>>
winVars    == <<fallback, handles, guarded, expired>>
countVars  == <<spawned, chunks, got>>
aclVars    == <<grant, shaken, unheard>>
vars == <<mode, pc, winVars, procVars, verdict, countVars, aclVars>>

\* A command's sandbox lives from its ACLs to the end of the call.
Sandboxed == {c \in Commands : mode = "windows" /\ pc[c] \notin {"new", "over"}}

Goto(c, from, to) == pc[c] = from /\ pc' = [pc EXCEPT ![c] = to]

Init ==
  /\ mode \in Modes
  /\ pc = [c \in Commands |-> "new"]
  /\ fallback = {} /\ guarded = {} /\ expired = {} /\ confined = {}
  /\ handles = [c \in Commands |-> {}]
  /\ child = [c \in Commands |-> "none"]
  /\ ends = [c \in Commands |-> {}]
  /\ full = [c \in Commands |-> {}]
  /\ verdict = [c \in Commands |-> "none"]
  /\ grant = FALSE /\ shaken = {} /\ unheard = {}
  /\ spawned = [c \in Commands |-> 0]
  /\ chunks = [c \in Commands |-> 0]
  /\ got = [c \in Commands |-> 0]

\* icacls gives the SID of the process the sandbox's paths, or fails and
\* nobody looks.
Grant(c) ==
  \/ grant' = TRUE /\ UNCHANGED <<shaken, unheard>>
  \/ unheard' = unheard \cup {c} /\ UNCHANGED <<grant, shaken>>

\* Dropped with the sandbox, it takes the paths from all who have that SID.
Revoke(c) ==
  \/ grant' = FALSE /\ shaken' = shaken \cup (Sandboxed \ {c}) /\ UNCHANGED unheard
  \/ unheard' = unheard \cup {c} /\ UNCHANGED <<grant, shaken>>

\* ShellTool::execute.
Submit(c) ==
  /\ Goto(c, "new", IF mode = "windows" THEN "token" ELSE "spawn")
  /\ IF mode = "windows" THEN Grant(c) ELSE UNCHANGED aclVars
  /\ UNCHANGED <<mode, winVars, procVars, verdict, countVars>>

\* Fault: the sandbox of a command that timed out is not dropped.
Leave_KeepsGrant(c, v) ==
  /\ pc' = [pc EXCEPT ![c] = "over"]
  /\ verdict' = [verdict EXCEPT ![c] = v]
  /\ IF mode = "windows" /\ v # "timed_out" THEN Revoke(c) ELSE UNCHANGED aclVars

\* The call is over and its Sandbox is dropped.
Leave(c, v) ==
  /\ pc' = [pc EXCEPT ![c] = "over"]
  /\ verdict' = [verdict EXCEPT ![c] = v]
  /\ IF mode = "windows" THEN Revoke(c) ELSE UNCHANGED aclVars

\* AllocateAndInitializeSid, the capability set or a system path fails.
Refused(c) ==
  /\ pc[c] = "new"
  /\ mode # "plain"
  /\ pc' = [pc EXCEPT ![c] = "over"]
  /\ verdict' = [verdict EXCEPT ![c] = "failed"]
  /\ UNCHANGED <<mode, winVars, procVars, countVars, aclVars>>

-----------------------------------------------------------------------------
(* A child behind cmd.output(): the plain command, the Unix sandbox and    *)
(* the fallback of the Windows one.                                        *)

\* The child of a std Command gets its own pipes, and on Windows whatever
\* inheritable write end a full sandbox has open at that moment.
Heirs(c) == [d \in Commands |->
  IF d = c THEN {c}
  ELSE IF mode = "windows" /\ Parent \in ends[d] THEN ends[d] \cup {c} ELSE ends[d]]

\* A Unix sandbox that the kernel does not support restricts nothing.
Spawn(c) ==
  /\ Goto(c, "spawn", "output")
  /\ child' = [child EXCEPT ![c] = "busy"]
  /\ \/ mode = "unix" /\ confined' = confined \cup {c}
     \/ confined' = confined
  /\ ends' = Heirs(c)
  /\ full' = [full EXCEPT ![c] = {}]
  /\ spawned' = [spawned EXCEPT ![c] = @ + 1]
  /\ UNCHANGED <<mode, winVars, verdict, chunks, got, aclVars>>

\* There is no such program, or pre_exec could not apply the sandbox.
SpawnFails(c) ==
  /\ pc[c] = "spawn"
  /\ Leave(c, "failed")
  /\ UNCHANGED <<mode, winVars, procVars, countVars>>

\* Both pipes are drained at once ...
Drain(c, s) ==
  /\ pc[c] = "output" \/ pc[c] = s
  /\ s \in full[c]
  /\ full' = [full EXCEPT ![c] = @ \ {s}]
  /\ got' = [got EXCEPT ![c] = @ + 1]
  /\ UNCHANGED <<mode, pc, winVars, child, confined, ends, verdict, spawned, chunks, aclVars>>

AtEnd(c, streams) == ends[c] = {} /\ full[c] \cap streams = {}

\* ... until the child has exited and nobody holds them any more.
Output(c) ==
  /\ pc[c] = "output"
  /\ child[c] \in {"left", "gone"}
  /\ AtEnd(c, Streams)
  /\ Leave(c, "exit")
  /\ UNCHANGED <<mode, winVars, procVars, countVars>>

\* Fault: the timeout only ends the read, after the child has exited.
TimedOut_AfterExit(c) ==
  /\ pc[c] = "output"
  /\ child[c] \in {"left", "gone"}
  /\ Leave(c, "timed_out")
  /\ UNCHANGED <<mode, winVars, procVars, countVars>>

\* The timeout fires, or the call is cancelled: the future is dropped, the
\* read ends with it, and the child, which is not killed, runs on.
TimedOut(c) ==
  /\ pc[c] = "output"
  /\ Leave(c, "timed_out")
  /\ UNCHANGED <<mode, winVars, procVars, countVars>>

Cancelled(c) ==
  /\ pc[c] = "output"
  /\ Leave(c, "cancelled")
  /\ UNCHANGED <<mode, winVars, procVars, countVars>>

-----------------------------------------------------------------------------
(* try_full_sandbox and launch_restricted: one handle after the other.     *)

Open(c, from, to, opened) ==
  /\ Goto(c, from, to)
  /\ handles' = [handles EXCEPT ![c] = @ \cup opened]
  /\ UNCHANGED <<mode, fallback, expired, child, confined, full, verdict, countVars, aclVars>>

Token(c) == Open(c, "token", "pipe_out", {"token"}) /\ UNCHANGED <<guarded, ends>>

\* The write ends are inheritable from here until the child is created.
PipeOut(c) ==
  /\ Open(c, "pipe_out", "pipe_err", {"out"})
  /\ ends' = [ends EXCEPT ![c] = {Parent}]
  /\ UNCHANGED guarded

PipeErr(c) ==
  /\ Open(c, "pipe_err", "pipe_in", {"err"})
  /\ guarded' = guarded \cup {c}
  /\ UNCHANGED ends

\* SetHandleInformation comes first; the write end of stdin is closed at once.
PipeIn(c) == Open(c, "pipe_in", "console", {"in"}) /\ UNCHANGED <<guarded, ends>>

Console(c) == Open(c, "console", "create", {}) /\ UNCHANGED <<guarded, ends>>

\* The caller closes the token, and a failed creation stdin.
Closed(c) == {"token"} \cup (IF pc[c] = "create" THEN {"in"} ELSE {})

\* Fault: the guard is forgotten.
Unwound_NoGuard(c) ==
  (handles[c] \ Closed(c)) \cup (IF Parent \in ends[c] THEN {"out_write"} ELSE {})

\* What is still open after an early return: the guard, once it exists,
\* closes both pipes; before that nobody closes the ends of stdout's.
Unwound(c) ==
  IF c \in guarded THEN handles[c] \ (Closed(c) \cup Streams)
  ELSE (handles[c] \ Closed(c)) \cup (IF Parent \in ends[c] THEN {"out_write"} ELSE {})

\* Any step may fail before the child exists: network-only isolation, with
\* pipes of its own in place of those given up here.
FullFails(c) ==
  /\ pc[c] \in {"token", "pipe_out", "pipe_err", "pipe_in", "console", "create"}
  /\ pc' = [pc EXCEPT ![c] = "spawn"]
  /\ fallback' = fallback \cup {c}
  /\ handles' = [handles EXCEPT ![c] = Unwound(c)]
  /\ guarded' = guarded \ {c}
  /\ ends' = [ends EXCEPT ![c] = @ \ {Parent}]
  /\ UNCHANGED <<mode, expired, child, confined, full, verdict, countVars, aclVars>>

\* The child inherits every write end that is open, and the parent closes
\* those of this command.
Inherited(c) == [d \in Commands |->
  IF d = c THEN (ends[c] \ {Parent}) \cup {c}
  ELSE IF Parent \in ends[d] THEN ends[d] \cup {c} ELSE ends[d]]

Create(c) ==
  /\ Goto(c, "create", "wait")
  /\ child' = [child EXCEPT ![c] = "busy"]
  /\ confined' = confined \cup {c}
  /\ ends' = Inherited(c)
  /\ handles' = [handles EXCEPT ![c] = (@ \ {"in"}) \cup {"process"}]
  /\ guarded' = guarded \ {c}
  /\ spawned' = [spawned EXCEPT ![c] = @ + 1]
  /\ UNCHANGED <<mode, fallback, expired, full, verdict, chunks, got, aclVars>>

\* WaitForSingleObject: the child has exited, or the time is over.  Nobody
\* reads meanwhile.
Wait(c) ==
  /\ Goto(c, "wait", "out")
  /\ expired' = IF child[c] \in {"left", "gone"} THEN expired ELSE expired \cup {c}
  /\ UNCHANGED <<mode, fallback, handles, guarded, procVars, verdict, countVars, aclVars>>

\* read_pipe(stdout) runs to its end, then read_pipe(stderr).
ReadOut(c) ==
  /\ Goto(c, "out", "err")
  /\ AtEnd(c, {"out"})
  /\ UNCHANGED <<mode, winVars, procVars, verdict, countVars, aclVars>>

ReadErr(c) ==
  /\ Goto(c, "err", "close")
  /\ AtEnd(c, {"err"})
  /\ UNCHANGED <<mode, winVars, procVars, verdict, countVars, aclVars>>

\* Fault: a timeout is taken for a sandbox that failed.
Close_FallsBack(c) ==
  /\ Goto(c, "close", IF c \in expired THEN "spawn" ELSE "drop")
  /\ handles' = [handles EXCEPT ![c] = {}]
  /\ UNCHANGED <<mode, fallback, guarded, expired, procVars, verdict, countVars, aclVars>>

\* The read ends go, a child that did not exit in time is terminated, and
\* the process and the token are closed.
Close(c) ==
  /\ Goto(c, "close", "drop")
  /\ handles' = [handles EXCEPT ![c] = {}]
  /\ child' = IF c \in expired THEN [child EXCEPT ![c] = "gone"] ELSE child
  /\ UNCHANGED <<mode, fallback, guarded, expired, confined, ends, full, verdict,
                 countVars, aclVars>>

\* Ok either way: a timeout is exit code 1.
Done(c) ==
  /\ pc[c] = "drop"
  /\ Leave(c, IF c \in expired THEN "exit_1" ELSE "exit")
  /\ UNCHANGED <<mode, winVars, procVars, countVars>>

-----------------------------------------------------------------------------
(* The children.  "left" is one that has exited and left descendants, which *)
(* hold what it held; only the child itself writes.                        *)

\* Nobody reads the pipe any more: a write is lost.
Unread(c) == pc[c] \in {"over", "spawn"}

Writes == MapThenSumSet(LAMBDA c : chunks[c], Commands)
          + Cardinality({c \in Commands : child[c] \in Streams})

Want(c, s) ==
  /\ child[c] = "busy"
  /\ c \in ends[c]
  /\ Writes < MaxChunks
  /\ child' = [child EXCEPT ![c] = s]
  /\ UNCHANGED <<mode, pc, winVars, confined, ends, full, verdict, countVars, aclVars>>

\* A write waits for room in the pipe.
Put(c) ==
  /\ child[c] \in Streams
  /\ Unread(c) \/ child[c] \notin full[c]
  /\ child' = [child EXCEPT ![c] = "busy"]
  /\ full' = IF Unread(c) THEN full ELSE [full EXCEPT ![c] = @ \cup {child[c]}]
  /\ chunks' = [chunks EXCEPT ![c] = @ + 1]
  /\ UNCHANGED <<mode, pc, winVars, confined, ends, verdict, spawned, got, aclVars>>

Without(c) == [d \in Commands |-> ends[d] \ {c}]

\* It closes its standard handles and goes on, as a daemon does.
Hush(c) ==
  /\ child[c] = "busy"
  /\ \E d \in Commands : c \in ends[d]
  /\ ends' = Without(c)
  /\ UNCHANGED <<mode, pc, winVars, child, confined, full, verdict, countVars, aclVars>>

Exit(c) ==
  /\ child[c] = "busy"
  /\ \/ child' = [child EXCEPT ![c] = "left"] /\ UNCHANGED ends
     \/ child' = [child EXCEPT ![c] = "gone"] /\ ends' = Without(c)
  /\ UNCHANGED <<mode, pc, winVars, confined, full, verdict, countVars, aclVars>>

\* The last descendant goes.
Ebb(c) ==
  /\ child[c] = "left"
  /\ child' = [child EXCEPT ![c] = "gone"]
  /\ ends' = Without(c)
  /\ UNCHANGED <<mode, pc, winVars, confined, full, verdict, countVars, aclVars>>

-----------------------------------------------------------------------------
Start == \E c \in Commands : Submit(c) \/ Refused(c)

\* What the tool does when nothing holds it up, the timer included.
Tool(c) ==
  \/ Spawn(c) \/ SpawnFails(c) \/ Output(c) \/ TimedOut(c)
  \/ Token(c) \/ PipeOut(c) \/ PipeErr(c) \/ PipeIn(c) \/ Console(c) \/ FullFails(c) \/ Create(c)
  \/ Wait(c) \/ ReadOut(c) \/ ReadErr(c) \/ Close(c) \/ Done(c)
  \/ \E s \in Streams : Drain(c, s)

Child(c) == Put(c) \/ Exit(c) \/ Ebb(c)

Work == \E c \in Commands :
  \/ Tool(c) \/ Cancelled(c)
  \/ Child(c) \/ Hush(c) \/ \E s \in Streams : Want(c, s)

Next == Start \/ Work
Spec == Init /\ [][Next]_vars

\* The operating system and the runtime run what can run.
Fairness == \A c \in Commands : WF_vars(Tool(c))

\* A child gets on with its writes and comes to its end.
ChildrenEnd == \A c \in Commands : WF_vars(Child(c))

-----------------------------------------------------------------------------
\* A command whose end the tool reports (Ok) ran once, not again after its
\* sandbox or its time was over, has ended, and all it wrote was read.
ReportComplete ==
  \A c \in Commands :
    /\ spawned[c] <= 1
    /\ verdict[c] \in {"exit", "exit_1"} =>
         /\ spawned[c] = 1
         /\ child[c] \in {"left", "gone"}
         /\ got[c] = chunks[c]

\* Whichever step of the full sandbox fails, what was opened is closed when
\* the command is over, but for two cases: both ends of stdout's pipe, if the
\* second CreatePipe fails before there is a guard, and stdin's read end,
\* which the guard does not know, if GetStdHandle fails.  No write end of the
\* pipes it was read from is left with the process.
Released ==
  \A c \in Commands :
    /\ pc[c] \in {"new", "over"} /\ handles[c] # {} =>
         c \in fallback /\ handles[c] \in {{"out", "out_write"}, {"in"}}
    /\ pc[c] = "over" => Parent \notin ends[c]

\* The grants of the shared SID come and go with the sandboxes: if no icacls
\* failed none is left when none lives, and a sandbox whose own icacls did
\* not fail has its paths unless another command's was dropped while it was
\* there.
GrantsBalanced ==
  /\ Sandboxed = {} /\ unheard = {} => ~grant
  /\ Sandboxed \ (shaken \cup unheard) # {} => grant

\* A plain, Unix or fallback command returns whatever its child does.  In a
\* full Windows sandbox one returns if all children come to an end and none
\* is stuck: stdout is read to its end first, while the child waits for
\* room in stderr, and TerminateProcess comes only after that.
Jammed == \E c \in Commands : pc[c] = "out" /\ child[c] = "err" /\ "err" \in full[c]
CommandReturns ==
  /\ \A c \in Commands : pc[c] \in {"spawn", "output"} ~> pc[c] = "over"
  /\ ChildrenEnd => \A c \in Commands : pc[c] # "new" ~> pc[c] = "over" \/ Jammed
=============================================================================
