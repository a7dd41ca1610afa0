--------------------------- MODULE BuiltinsProofs ---------------------------
(***************************************************************************)
(* Proofs about Builtins, for any number of calls and commands at work at  *)
(* once, in every build: what a shell command leaves behind, what it       *)
(* reports, what becomes of the sandboxes' grants, the atomicity of an     *)
(* edit, and what a batch of edits means.                                  *)
(***************************************************************************)
EXTENDS Builtins, FiniteSetTheorems, SequenceTheorems, NaturalsInduction, WellFoundedInduction, TLAPS

-----------------------------------------------------------------------------
(* The shell commands.                                                     *)

Streams == {"out", "err"}
\* The steps of the full sandbox before and after its child exists.
Early == {"token", "pipe_out", "pipe_err", "pipe_in", "console", "create"}
Late  == {"wait", "out", "err", "close"}

ShellOK ==
  /\ shellPc \in [Commands -> {"new", "spawn", "output", "drop", "over"} \cup Early \cup Late]
  /\ handles \in [Commands -> SUBSET {"token", "out", "out_write", "err", "in", "process"}]
  /\ child \in [Commands -> {"none", "busy", "left", "gone"} \cup Streams]
  /\ ends \in [Commands -> SUBSET (Commands \cup {"parent"})]
  /\ full \in [Commands -> SUBSET Streams]
  /\ shellVerdict \in [Commands -> {"none", "exit", "exit_1", "failed", "timed_out", "cancelled"}]
  /\ grant \in BOOLEAN
  /\ spawned \in [Commands -> Nat]
  /\ chunks \in [Commands -> Nat]
  /\ got \in [Commands -> Nat]

\* What is open at each step, and what an early return has left open.
HandlesOK ==
  \A c \in Commands :
    /\ shellPc[c] \in {"new", "token", "drop"} => handles[c] = {}
    /\ shellPc[c] = "pipe_out" => handles[c] = {"token"}
    /\ shellPc[c] = "pipe_err" => handles[c] = {"token", "out"}
    /\ shellPc[c] = "pipe_in" => handles[c] = {"token", "out", "err"}
    /\ shellPc[c] \in {"console", "create"} => handles[c] = {"token", "out", "err", "in"}
    /\ shellPc[c] \in {"spawn", "output", "over"} /\ handles[c] # {} =>
         c \in fallback /\ handles[c] \in {{"out", "out_write"}, {"in"}}
    /\ c \in guarded <=> shellPc[c] \in {"pipe_in", "console", "create"}
    /\ "parent" \in ends[c] => shellPc[c] \in {"pipe_err", "pipe_in", "console", "create"}
    /\ shellPc[c] = "pipe_err" => "parent" \in ends[c]

\* What waits in the pipes of a command.
Held(c) == (IF "out" \in full[c] THEN 1 ELSE 0) + (IF "err" \in full[c] THEN 1 ELSE 0)

\* What was written was read or waits to be, once there is a child; a pipe that
\* was read to its end has no writer, and gets none.
Reported(c) ==
  /\ shellPc[c] \in {"new", "spawn"} \cup Early =>
       spawned[c] = 0 /\ child[c] = "none" /\ full[c] = {} /\ chunks[c] = 0 /\ got[c] = 0
  /\ spawned[c] <= 1
  /\ shellPc[c] \in {"output", "drop"} \cup Late => spawned[c] = 1 /\ chunks[c] = got[c] + Held(c)
  /\ child[c] \in Streams => c \in ends[c]
  /\ shellPc[c] = "err" => ends[c] = {} /\ "out" \notin full[c]
  /\ shellPc[c] \in {"close", "drop"} => ends[c] = {} /\ full[c] = {}
  /\ shellPc[c] \in {"out", "err", "close"} /\ c \notin expired => child[c] \in {"left", "gone"}
  /\ shellPc[c] = "drop" => child[c] \in {"left", "gone"}
  /\ shellVerdict[c] # "none" => shellPc[c] = "over"
  /\ shellVerdict[c] \in {"exit", "exit_1"} =>
       spawned[c] = 1 /\ child[c] \in {"left", "gone"} /\ got[c] = chunks[c]

ReportOK == \A c \in Commands : Reported(c)

ShellInv == ShellOK /\ HandlesOK /\ ReportOK /\ Shells!GrantsBalanced

LEMMA InitShell == Init => ShellInv
<1> SUFFICES ASSUME Shells!Init PROVE ShellInv
  BY DEF Init
<1> USE NamesAssumption DEF Shells!Init, Shells!Parent, Streams, Early, Late
<1>1. ShellOK
  BY DEF ShellOK
<1>2. HandlesOK
  BY DEF HandlesOK
<1>3. ReportOK
  BY DEF ReportOK, Reported
<1>4. Shells!GrantsBalanced
  BY DEF Shells!GrantsBalanced, Shells!Sandboxed
<1> QED
  BY <1>1, <1>2, <1>3, <1>4 DEF ShellInv

ShellStep(c) == \/ Shells!Submit(c) \/ Shells!Refused(c) \/ Shells!Tool(c) \/ Shells!Cancelled(c)
                \/ Shells!Child(c) \/ Shells!Hush(c) \/ \E s \in Streams : Shells!Want(c, s)

\* A sandbox takes the grants along, whoever else is still at work.
LEMMA GrantsKept ==
  ASSUME ShellOK, Shells!GrantsBalanced, NEW c \in Commands, ShellStep(c)
  PROVE  Shells!GrantsBalanced'
<1> USE DEF Shells!GrantsBalanced, Shells!aclVars
<1>1. ASSUME NEW v, Shells!Leave(c, v), mode' = mode PROVE Shells!GrantsBalanced'
  <2>1. Shells!Sandboxed' = Shells!Sandboxed \ {c}
    BY <1>1 DEF ShellOK, Shells!Leave, Shells!Sandboxed
  <2>2. CASE mode = "windows"
    BY <1>1, <2>1, <2>2 DEF Shells!Leave, Shells!Revoke
  <2>3. CASE mode # "windows"
    BY <1>1, <2>3 DEF Shells!Leave, Shells!Sandboxed
  <2> QED
    BY <2>2, <2>3
<1>2. CASE Shells!Submit(c)
  <2>1. CASE mode = "windows"
    <3>1. Shells!Sandboxed' = Shells!Sandboxed \cup {c}
      BY <1>2, <2>1 DEF ShellOK, Shells!Submit, Shells!Goto, Shells!Sandboxed
    <3> QED
      BY <1>2, <2>1, <3>1 DEF Shells!Submit, Shells!Grant
  <2>2. CASE mode # "windows"
    BY <1>2, <2>2 DEF Shells!Submit, Shells!Sandboxed
  <2> QED
    BY <2>1, <2>2
<1>3. CASE \/ Shells!SpawnFails(c) \/ Shells!Output(c) \/ Shells!TimedOut(c) \/ Shells!Cancelled(c)
           \/ Shells!Done(c)
  BY <1>1, <1>3 DEF Shells!SpawnFails, Shells!Output, Shells!TimedOut, Shells!Cancelled, Shells!Done
\* What else happens to a command neither ends nor begins it, but one that was
\* refused.
<1>4. CASE \/ Shells!Refused(c) \/ Shells!Spawn(c) \/ Shells!Token(c) \/ Shells!PipeOut(c) \/ Shells!PipeErr(c)
           \/ Shells!PipeIn(c) \/ Shells!Console(c) \/ Shells!FullFails(c) \/ Shells!Create(c) \/ Shells!Wait(c)
           \/ Shells!ReadOut(c) \/ Shells!ReadErr(c) \/ Shells!Close(c) \/ Shells!Child(c) \/ Shells!Hush(c)
           \/ \E s \in Streams : Shells!Want(c, s) \/ Shells!Drain(c, s)
  <2>1. UNCHANGED <<mode, grant, shaken, unheard>>
    BY <1>4 DEF Shells!Refused, Shells!Spawn, Shells!Token, Shells!PipeOut, Shells!PipeErr,
       Shells!PipeIn,
      Shells!Console, Shells!Open, Shells!FullFails, Shells!Create, Shells!Wait, Shells!ReadOut, Shells!ReadErr,
      Shells!Close, Shells!Child, Shells!Put, Shells!Exit, Shells!Ebb, Shells!Hush, Shells!Want, Shells!Drain
  <2>2. \/ UNCHANGED shellPc
        \/ /\ shellPc' = [shellPc EXCEPT ![c] = "over"] /\ shellPc[c] = "new"
        \/ \E to : /\ shellPc' = [shellPc EXCEPT ![c] = to]
                   /\ shellPc[c] \notin {"new", "over"} /\ to \notin {"new", "over"}
    BY <1>4 DEF Shells!Refused, Shells!Spawn, Shells!Token, Shells!PipeOut, Shells!PipeErr,
       Shells!PipeIn,
      Shells!Console, Shells!Open, Shells!FullFails, Shells!Create, Shells!Wait, Shells!ReadOut, Shells!ReadErr,
      Shells!Close, Shells!Child, Shells!Put, Shells!Exit, Shells!Ebb, Shells!Hush, Shells!Want, Shells!Drain,
      Shells!Goto
  <2>3. Shells!Sandboxed' = Shells!Sandboxed
    BY <2>1, <2>2 DEF ShellOK, Shells!Sandboxed
  <2> QED
    BY <2>1, <2>3
<1> QED
  BY <1>2, <1>3, <1>4 DEF ShellStep, Shells!Tool, Streams, Shells!Streams

\* Each step of a command, of its child or of its sandbox keeps the invariant.
LEMMA StepShell ==
  ASSUME ShellInv, Shells!Start \/ Shells!Work
  PROVE  ShellInv'
<1> USE NamesAssumption DEF Shells!Parent, Streams, Shells!Streams, Early, Late, Shells!procVars, Shells!winVars,
                            Shells!countVars, Shells!aclVars
<1>0. ShellOK /\ HandlesOK /\ ReportOK /\ Shells!GrantsBalanced
  BY DEF ShellInv
<1> PICK c \in Commands : ShellStep(c)
  BY DEF Shells!Start, Shells!Work, ShellStep
<1>g. Shells!GrantsBalanced'
  BY <1>0, GrantsKept
<1>1. CASE Shells!Submit(c)
  <2>1. ShellOK'
    BY <1>0, <1>1 DEF Shells!Submit, Shells!Grant, Shells!Goto, ShellOK
  <2>2. HandlesOK'
    BY <1>0, <1>1 DEF Shells!Submit, Shells!Goto, ShellOK, HandlesOK
  <2>3. ReportOK'
    BY <1>0, <1>1 DEF Shells!Submit, Shells!Goto, ShellOK, HandlesOK, ReportOK, Reported, Held
  <2> QED
    BY <1>g, <2>1, <2>2, <2>3 DEF ShellInv
<1>2. CASE Shells!Refused(c)
  <2>1. ShellOK'
    BY <1>0, <1>2 DEF Shells!Refused, ShellOK
  <2>2. HandlesOK'
    BY <1>0, <1>2 DEF Shells!Refused, ShellOK, HandlesOK
  <2>3. ReportOK'
    BY <1>0, <1>2 DEF Shells!Refused, ShellOK, HandlesOK, ReportOK, Reported, Held
  <2> QED
    BY <1>g, <2>1, <2>2, <2>3 DEF ShellInv
<1>3. CASE Shells!Spawn(c)
  <2>1. ShellOK'
    BY <1>0, <1>3 DEF Shells!Spawn, Shells!Goto, Shells!Heirs, ShellOK
  <2>2. HandlesOK'
    BY <1>0, <1>3 DEF Shells!Spawn, Shells!Goto, Shells!Heirs, ShellOK, HandlesOK
  <2>3. ReportOK'
    BY <1>0, <1>3 DEF Shells!Spawn, Shells!Goto, Shells!Heirs, ShellOK, HandlesOK, ReportOK,
       Reported, Held
  <2> QED
    BY <1>g, <2>1, <2>2, <2>3 DEF ShellInv
<1>4. CASE Shells!SpawnFails(c) \/ Shells!TimedOut(c) \/ Shells!Cancelled(c)
  <2>1. ShellOK'
    <3>1. PICK v \in {"failed", "timed_out", "cancelled"} : Shells!Leave(c, v)
      BY <1>0, <1>4 DEF Shells!SpawnFails, Shells!TimedOut, Shells!Cancelled
    <3>2. UNCHANGED <<handles, child, ends, full, spawned, chunks, got>>
      BY <1>0, <1>4 DEF Shells!SpawnFails, Shells!TimedOut, Shells!Cancelled
    <3> QED
      BY <1>0, <3>1, <3>2 DEF ShellOK, Shells!Leave, Shells!Revoke
  <2>2. HandlesOK'
    BY <1>0, <1>4 DEF Shells!SpawnFails, Shells!TimedOut, Shells!Cancelled, Shells!Leave, ShellOK,
       HandlesOK
  <2>3. ReportOK'
    BY <1>0, <1>4 DEF Shells!SpawnFails, Shells!TimedOut, Shells!Cancelled, Shells!Leave, ShellOK,
       HandlesOK, ReportOK, Reported, Held
  <2> QED
    BY <1>g, <2>1, <2>2, <2>3 DEF ShellInv
<1>5. CASE Shells!Output(c)
  <2>1. ShellOK'
    BY <1>0, <1>5 DEF Shells!Output, Shells!Leave, Shells!Revoke, Shells!AtEnd, ShellOK
  <2>2. HandlesOK'
    BY <1>0, <1>5 DEF Shells!Output, Shells!Leave, Shells!AtEnd, ShellOK, HandlesOK
  <2>3. ReportOK'
    BY <1>0, <1>5 DEF Shells!Output, Shells!Leave, Shells!AtEnd, ShellOK, HandlesOK, ReportOK,
       Reported, Held
  <2> QED
    BY <1>g, <2>1, <2>2, <2>3 DEF ShellInv
<1>6. CASE Shells!Done(c)
  <2>1. ShellOK'
    BY <1>0, <1>6 DEF Shells!Done, Shells!Leave, Shells!Revoke, ShellOK
  <2>2. HandlesOK'
    BY <1>0, <1>6 DEF Shells!Done, Shells!Leave, ShellOK, HandlesOK
  <2>3. ReportOK'
    BY <1>0, <1>6 DEF Shells!Done, Shells!Leave, ShellOK, HandlesOK, ReportOK, Reported, Held
  <2> QED
    BY <1>g, <2>1, <2>2, <2>3 DEF ShellInv
<1>7. CASE Shells!Token(c) \/ Shells!PipeOut(c) \/ Shells!PipeErr(c) \/ Shells!PipeIn(c) \/ Shells!Console(c)
  <2>1. ShellOK'
    BY <1>0, <1>7 DEF Shells!Token, Shells!PipeOut, Shells!PipeErr, Shells!PipeIn, Shells!Console,
       Shells!Open, Shells!Goto, ShellOK
  <2>2. HandlesOK'
    BY <1>0, <1>7 DEF Shells!Token, Shells!PipeOut, Shells!PipeErr, Shells!PipeIn, Shells!Console,
       Shells!Open, Shells!Goto, ShellOK, HandlesOK
  <2>3. ReportOK'
    BY <1>0, <1>7 DEF Shells!Token, Shells!PipeOut, Shells!PipeErr, Shells!PipeIn, Shells!Console,
       Shells!Open, Shells!Goto, ShellOK, HandlesOK, ReportOK, Reported, Held
  <2> QED
    BY <1>g, <2>1, <2>2, <2>3 DEF ShellInv
<1>8. CASE Shells!FullFails(c)
  <2>0. Shells!Unwound(c) \in SUBSET {"token", "out", "out_write", "err", "in", "process"}
    BY <1>0 DEF ShellOK, Shells!Unwound, Shells!Closed
  <2>1. ShellOK'
    BY <1>0, <1>8, <2>0 DEF Shells!FullFails, ShellOK
  <2>2. HandlesOK'
    <3>1. Shells!Unwound(c) \in {{}, {"out", "out_write"}, {"in"}}
      BY <1>0, <1>8 DEF Shells!FullFails, Shells!Unwound, Shells!Closed, HandlesOK
    <3>2. \A d \in Commands \ {c} : UNCHANGED <<handles[d], ends[d]>>
      BY <1>0, <1>8 DEF Shells!FullFails, ShellOK
    <3>3. /\ shellPc' = [shellPc EXCEPT ![c] = "spawn"] /\ handles'[c] = Shells!Unwound(c)
          /\ "parent" \notin ends'[c] /\ fallback' = fallback \cup {c} /\ guarded' = guarded \ {c}
      BY <1>0, <1>8 DEF Shells!FullFails, ShellOK
    <3> QED
      BY <1>0, <3>1, <3>2, <3>3 DEF ShellOK, HandlesOK
  <2>3. ReportOK'
    BY <1>0, <1>8 DEF Shells!FullFails, ShellOK, HandlesOK, ReportOK, Reported, Held
  <2> QED
    BY <1>g, <2>1, <2>2, <2>3 DEF ShellInv
<1>9. CASE Shells!Create(c)
  <2>1. ShellOK'
    BY <1>0, <1>9 DEF Shells!Create, Shells!Goto, Shells!Inherited, ShellOK
  <2>2. HandlesOK'
    BY <1>0, <1>9 DEF Shells!Create, Shells!Goto, Shells!Inherited, ShellOK, HandlesOK
  <2>3. ReportOK'
    <3>1. ends'[c] = (ends[c] \ {"parent"}) \cup {c} /\ child'[c] = "busy" /\ spawned'[c] = 1
          /\ shellPc[c] = "create" /\ shellPc'[c] = "wait" /\ UNCHANGED <<full, chunks, got, shellVerdict, expired>>
      BY <1>0, <1>9 DEF Shells!Create, Shells!Goto, Shells!Inherited, ShellOK, ReportOK, Reported
    <3>2. \A d \in Commands \ {c} :
             /\ child'[d] = child[d] /\ spawned'[d] = spawned[d] /\ shellPc'[d] = shellPc[d]
             /\ ends'[d] = IF "parent" \in ends[d] THEN ends[d] \cup {c} ELSE ends[d]
      BY <1>0, <1>9 DEF Shells!Create, Shells!Goto, Shells!Inherited, ShellOK
    <3>3. Reported(c)'
      BY <1>0, <3>1 DEF ShellOK, ReportOK, Reported, Held
    <3>4. ASSUME NEW d \in Commands \ {c} PROVE Reported(d)'
      <4>1. d \in Commands /\ Reported(d)
        BY <1>0, <3>4 DEF ReportOK
      <4>2. ends'[d] = ends[d] \/ shellPc[d] \in Early
        BY <1>0, <3>2, <3>4 DEF HandlesOK
      <4>3. d \in ends[d] => d \in ends'[d]
        BY <3>2, <3>4
      <4> QED
        BY <1>0, <3>1, <3>2, <3>4, <4>1, <4>2, <4>3 DEF Reported, Held
    <3> QED
      BY <3>3, <3>4 DEF ReportOK
  <2> QED
    BY <1>g, <2>1, <2>2, <2>3 DEF ShellInv
<1>10. CASE Shells!Wait(c) \/ Shells!ReadOut(c) \/ Shells!ReadErr(c)
  <2>1. ShellOK'
    BY <1>0, <1>10 DEF Shells!Wait, Shells!ReadOut, Shells!ReadErr, Shells!AtEnd, Shells!Goto, ShellOK
  <2>2. HandlesOK'
    BY <1>0, <1>10 DEF Shells!Wait, Shells!ReadOut, Shells!ReadErr, Shells!AtEnd, Shells!Goto,
       ShellOK, HandlesOK
  <2>3. ReportOK'
    BY <1>0, <1>10 DEF Shells!Wait, Shells!ReadOut, Shells!ReadErr, Shells!AtEnd, Shells!Goto,
       ShellOK, HandlesOK, ReportOK, Reported, Held
  <2> QED
    BY <1>g, <2>1, <2>2, <2>3 DEF ShellInv
<1>11. CASE Shells!Close(c)
  <2>1. ShellOK'
    BY <1>0, <1>11 DEF Shells!Close, Shells!Goto, ShellOK
  <2>2. HandlesOK'
    BY <1>0, <1>11 DEF Shells!Close, Shells!Goto, ShellOK, HandlesOK
  <2>3. ReportOK'
    BY <1>0, <1>11 DEF Shells!Close, Shells!Goto, ShellOK, HandlesOK, ReportOK, Reported, Held
  <2> QED
    BY <1>g, <2>1, <2>2, <2>3 DEF ShellInv
<1>12. CASE \E s \in Streams : Shells!Drain(c, s)
  <2> PICK s \in Streams : Shells!Drain(c, s)
    BY <1>12
  <2>1. ShellOK'
    BY <1>0 DEF Shells!Drain, ShellOK
  <2>2. HandlesOK'
    BY <1>0 DEF Shells!Drain, ShellOK, HandlesOK
  <2>3. ReportOK'
    BY <1>0 DEF Shells!Drain, ShellOK, HandlesOK, ReportOK, Reported, Held
  <2> QED
    BY <1>g, <2>1, <2>2, <2>3 DEF ShellInv
<1>13. CASE \E s \in Streams : Shells!Want(c, s)
  <2> PICK s \in Streams : Shells!Want(c, s)
    BY <1>13
  <2>1. ShellOK'
    BY <1>0 DEF Shells!Want, ShellOK
  <2>2. HandlesOK'
    BY <1>0 DEF Shells!Want, ShellOK, HandlesOK
  <2>3. ReportOK'
    BY <1>0 DEF Shells!Want, ShellOK, HandlesOK, ReportOK, Reported, Held
  <2> QED
    BY <1>g, <2>1, <2>2, <2>3 DEF ShellInv
<1>14. CASE Shells!Put(c)
  <2>1. ShellOK'
    BY <1>0, <1>14 DEF Shells!Put, Shells!Unread, ShellOK
  <2>2. HandlesOK'
    BY <1>0, <1>14 DEF Shells!Put, Shells!Unread, ShellOK, HandlesOK
  <2>3. ReportOK'
    BY <1>0, <1>14 DEF Shells!Put, Shells!Unread, ShellOK, HandlesOK, ReportOK, Reported, Held
  <2> QED
    BY <1>g, <2>1, <2>2, <2>3 DEF ShellInv
<1>15. CASE Shells!Hush(c) \/ Shells!Exit(c) \/ Shells!Ebb(c)
  <2>1. ShellOK'
    BY <1>0, <1>15 DEF Shells!Hush, Shells!Exit, Shells!Ebb, Shells!Without, ShellOK
  <2>2. HandlesOK'
    BY <1>0, <1>15 DEF Shells!Hush, Shells!Exit, Shells!Ebb, Shells!Without, ShellOK, HandlesOK
  <2>3. ReportOK'
    BY <1>0, <1>15 DEF Shells!Hush, Shells!Exit, Shells!Ebb, Shells!Without, ShellOK, HandlesOK,
       ReportOK, Reported, Held
  <2> QED
    BY <1>g, <2>1, <2>2, <2>3 DEF ShellInv
<1> QED
  BY <1>1, <1>2, <1>3, <1>4, <1>5, <1>6, <1>7, <1>8, <1>9, <1>10, <1>11, <1>12, <1>13, <1>14, <1>15
     DEF ShellStep, Shells!Tool, Shells!Child

LEMMA NextShell ==
  ASSUME ShellInv, [Next]_vars
  PROVE  ShellInv'
<1>1. CASE Shells!Start \/ Shells!Work
  BY <1>1, StepShell
<1>2. CASE UNCHANGED shellVars
  BY <1>2 DEF shellVars, ShellInv, ShellOK, HandlesOK, ReportOK, Reported, Held, Shells!GrantsBalanced,
              Shells!Sandboxed
<1> QED
  BY <1>1, <1>2 DEF Next, FileStart, ShellStart, Work, ChildWrites, vars

\* ShellInv is an inductive invariant of the tools.
THEOREM ShellInvariant == Spec => []ShellInv
<1>1. ShellInv /\ [Next]_vars => ShellInv'
  BY NextShell
<1> QED
  BY <1>1, InitShell, PTL DEF Spec

\* The grants of the shared SID come and go with the sandboxes.
THEOREM GrantsAlwaysBalanced == Spec => []GrantsBalanced
<1>1. ShellInv => GrantsBalanced
  BY DEF ShellInv, GrantsBalanced
<1> QED
  BY <1>1, ShellInvariant, PTL

\* A command that is over leaves no handle open, but both ends of stdout's pipe
\* or the read end of stdin's where the full sandbox failed.
THEOREM AlwaysReleased == Spec => []Released
<1>1. ShellInv => Released
  BY DEF ShellInv, HandlesOK, Released, Shells!Released, Shells!Parent
<1> QED
  BY <1>1, ShellInvariant, PTL

\* A command that is reported Ok ran once, has ended and was read to its end.
THEOREM ReportsComplete == Spec => []ReportComplete
<1>1. ShellInv => ReportComplete
  BY DEF ShellInv, ReportOK, Reported, ReportComplete, Shells!ReportComplete
<1> QED
  BY <1>1, ShellInvariant, PTL

-----------------------------------------------------------------------------
(* The calls on the file.                                                  *)

FilePCs == {"new", "load", "open", "write", "rename", "done"}

\* The two names never refer to one inode, and a call's own inode is not there
\* before the call opens it.
FileOK ==
  /\ filePc \in [Calls -> FilePCs]
  /\ inode \in [{"file", "temp"} -> Files!Inodes \cup {Nothing}]
  /\ data = [i \in Files!Inodes |-> data[i]]
  /\ request = [c \in Calls |-> request[c]]
  /\ out = [c \in Calls |-> out[c]]
  /\ fd \in [Calls -> Files!Inodes \cup {Nothing}]
  /\ fileVerdict = [c \in Calls |-> fileVerdict[c]]
  /\ inode["file"] = inode["temp"] => inode["file"] = Nothing
  /\ \A c \in Calls :
       /\ filePc[c] \in {"new", "load", "open"} => c # inode["file"] /\ c # inode["temp"]
       /\ fileVerdict[c] # "none" => filePc[c] = "done"

\* An edit that has had the file to itself is alone, writes to the inode that
\* the temporary name refers to, and renames what it wrote.
Alone(c) ==
  /\ Files!Running = {c}
  /\ Files!IsEdit(c) /\ filePc[c] \in {"write", "rename"} =>
       /\ fd[c] = inode["temp"] /\ fd[c] # Nothing
       /\ data[fd[c]] = IF filePc[c] = "write" THEN <<>> ELSE out[c]

AloneOK == \A c \in Files!Running \ met : Alone(c)

FileInv == FileOK /\ AloneOK

LEMMA InitFile == Init => FileInv
<1> SUFFICES ASSUME Files!Init PROVE FileInv
  BY DEF Init
<1>1. FileOK
  BY NamesAssumption DEF Files!Init, FileOK, FilePCs, Files!Inodes
<1>2. Files!Running = {}
  BY DEF Files!Init, Files!Running
<1> QED
  BY <1>1, <1>2 DEF FileInv, AloneOK

\* A call that starts has met all that run, and they it.
LEMMA SubmitStep ==
  ASSUME FileInv, NEW c \in Calls, NEW r, Files!Submit(c, r)
  PROVE  FileInv'
<1>0. FileOK /\ AloneOK /\ filePc[c] = "new"
  BY DEF FileInv, Files!Submit, Files!Goto
<1>1. FileOK'
  BY <1>0 DEF Files!Submit, Files!Goto, Files!fileVars, FileOK, FilePCs
<1>2. Files!Running' = Files!Running \cup {c}
  BY <1>0 DEF Files!Submit, Files!Goto, FileOK, Files!Running
<1>3. filePc'[c] \in {"load", "open"}
  BY <1>0 DEF Files!Submit, Files!Goto, FileOK
<1>4. AloneOK'
  BY <1>2, <1>3 DEF Files!Submit, AloneOK, Alone
<1> QED
  BY <1>1, <1>4 DEF FileInv

LEMMA WorkStep ==
  ASSUME FileInv, NEW c \in Calls,
         \/ Files!Load(c) \/ Files!Open(c) \/ Files!Write(c) \/ Files!Rename(c)
         \/ Files!Fail(c) \/ Files!Cancel(c) \/ Files!Drop(c)
  PROVE  FileInv'
<1>0. FileOK /\ AloneOK
  BY DEF FileInv
<1> USE NamesAssumption DEF Files!fileVars, Files!callVars, Files!Goto, Files!End
<1>1. /\ c \in Files!Running /\ Files!Running' \in {Files!Running, Files!Running \ {c}}
      /\ UNCHANGED <<request, met>>
      /\ \A d \in Calls \ {c} : filePc'[d] = filePc[d]
  BY <1>0 DEF FileOK, Files!Running, Files!Load, Files!Open, Files!Write, Files!Rename, Files!Fail,
     Files!Cancel, Files!Drop
<1>2. FileOK'
  <2>1. CASE Files!Load(c)
    BY <1>0, <2>1 DEF FileOK, FilePCs, Files!Load
  <2>2. CASE Files!Open(c)
    BY <1>0, <2>2 DEF FileOK, FilePCs, Files!Open, Files!Target, Files!Inodes
  <2>3. CASE Files!Write(c)
    BY <1>0, <2>3 DEF FileOK, FilePCs, Files!Write
  <2>4. CASE Files!Rename(c)
    <3>1. /\ inode' = [n \in {"file", "temp"} |-> IF n = "file" THEN inode["temp"] ELSE Nothing]
          /\ filePc' = [filePc EXCEPT ![c] = "done"]
          /\ UNCHANGED <<data, request, base, out, fd>>
      BY <2>4 DEF Files!Rename
    <3>2. fileVerdict' = [fileVerdict EXCEPT ![c] = fileVerdict'[c]]
      BY <1>0, <2>4 DEF FileOK, Files!Rename
    <3>3. inode["temp"] # Nothing /\ inode'["file"] = inode["temp"] /\ inode'["temp"] = Nothing
      BY <2>4, <3>1 DEF Files!Rename
    <3>4. inode' \in [{"file", "temp"} -> Files!Inodes \cup {Nothing}]
      BY <1>0, <3>1 DEF FileOK
    <3>5. fileVerdict' = [d \in Calls |-> fileVerdict'[d]]
          /\ \A d \in Calls \ {c} : fileVerdict'[d] = fileVerdict[d]
      BY <1>0, <3>2 DEF FileOK
    <3>6. filePc' \in [Calls -> FilePCs] /\ filePc'[c] = "done"
          /\ \A d \in Calls \ {c} : filePc'[d] = filePc[d]
      BY <1>0, <3>1 DEF FileOK, FilePCs
    <3>7. ASSUME NEW d \in Calls
          PROVE  /\ filePc'[d] \in {"new", "load", "open"} => d # inode'["file"] /\ d # inode'["temp"]
                 /\ fileVerdict'[d] # "none" => filePc'[d] = "done"
      <4>1. d # Nothing
        BY DEF Files!Inodes
      <4> QED
        BY <1>0, <3>3, <3>5, <3>6, <4>1 DEF FileOK
    <3> QED
      BY <1>0, <3>1, <3>3, <3>4, <3>5, <3>6, <3>7 DEF FileOK
  <2>5. CASE Files!Fail(c) \/ Files!Cancel(c) \/ Files!Drop(c)
    BY <1>0, <2>5 DEF FileOK, FilePCs, Files!Fail, Files!Cancel, Files!Drop
  <2> QED
    BY <2>1, <2>2, <2>3, <2>4, <2>5
<1>3. ASSUME NEW d \in Files!Running' \ met' PROVE Alone(d)'
  <2>1. d = c /\ Files!Running = {c} /\ Files!Running' = {c} /\ Alone(c)
    BY <1>0, <1>1 DEF AloneOK, Alone
  <2> SUFFICES ASSUME Files!IsEdit(c), filePc'[c] \in {"write", "rename"}
               PROVE  /\ fd'[c] = inode'["temp"] /\ fd'[c] # Nothing
                      /\ data'[fd'[c]] = IF filePc'[c] = "write" THEN <<>> ELSE out'[c]
    BY <1>1, <2>1 DEF Alone, Files!IsEdit
  <2>2. CASE Files!Open(c)
    BY <1>0, <2>2 DEF FileOK, Files!Open, Files!Target, Files!Inodes
  <2>3. CASE Files!Write(c)
    BY <1>0, <2>1, <2>3 DEF FileOK, Files!Write, Files!Overlay, Alone
  <2>4. CASE Files!Cancel(c)
    BY <1>0, <2>1, <2>4 DEF Files!Cancel, Alone
  <2>5. CASE Files!Load(c) \/ Files!Rename(c) \/ Files!Fail(c) \/ Files!Drop(c)
    BY <1>0, <2>5 DEF FileOK, Files!Load, Files!Rename, Files!Fail, Files!Drop
  <2> QED
    BY <2>2, <2>3, <2>4, <2>5
<1>4. AloneOK'
  BY <1>3 DEF AloneOK
<1> QED
  BY <1>2, <1>4 DEF FileInv

LEMMA NextFile ==
  ASSUME FileInv, [Next]_vars
  PROVE  FileInv'
<1>1. CASE Files!Start
  BY <1>1, SubmitStep DEF Files!Start
<1>2. CASE Files!Work
  BY <1>2, WorkStep DEF Files!Work
<1>3. CASE \E t \in Texts : Files!Outside(t)
  <2> PICK t \in Texts : Files!Outside(t)
    BY <1>3
  <2>1. FileOK'
    BY DEF FileInv, FileOK, Files!Outside, Files!callVars
  <2>2. Files!Running' \subseteq met'
    BY DEF Files!Outside, Files!callVars, Files!Running
  <2> QED
    BY <2>1, <2>2 DEF FileInv, AloneOK
<1>4. CASE UNCHANGED fileVars
  BY <1>4 DEF fileVars, FileInv, FileOK, AloneOK, Alone, Files!Running, Files!IsEdit
<1> QED
  BY <1>1, <1>2, <1>3, <1>4 DEF Next, FileStart, ShellStart, Work, ChildWrites, vars

\* What a step does to the file and to the verdict of an edit that is alone.
LEMMA EditStep ==
  ASSUME FileInv, [Next]_vars, NEW c \in Files!Running, Files!IsEdit(c), c \notin met'
  PROVE  \/ /\ Files!Contents("file")' = Files!Contents("file")
            /\ fileVerdict'[c] # "ok"
         \/ /\ Files!Contents("file")' = out[c]
            /\ fileVerdict'[c] \in {"ok", "cancelled"}
<1> USE NamesAssumption DEF Files!fileVars, Files!callVars, Files!Goto, Files!End, Files!Contents
<1>0. FileOK /\ c \in Calls /\ fileVerdict[c] = "none"
  BY DEF FileInv, FileOK, Files!Running
<1>1. CASE Files!Start \/ \E t \in Texts : Files!Outside(t)
  BY <1>1 DEF Files!Start, Files!Submit, Files!Outside
<1>2. CASE UNCHANGED fileVars
  BY <1>0, <1>2 DEF fileVars
<1>3. CASE Files!Work
  <2>1. PICK d \in Calls : \/ Files!Load(d) \/ Files!Open(d) \/ Files!Write(d) \/ Files!Rename(d)
                           \/ Files!Fail(d) \/ Files!Cancel(d) \/ Files!Drop(d)
    BY <1>3 DEF Files!Work
  <2>2. met' = met /\ d \in Files!Running
    BY <2>1 DEF Files!Running, Files!Load, Files!Open, Files!Write, Files!Rename, Files!Fail,
       Files!Cancel, Files!Drop
  <2>3. d = c /\ Alone(c)
    BY <2>2 DEF FileInv, AloneOK, Alone
  <2>4. CASE Files!Load(c)
    BY <1>0, <2>4 DEF FileOK, Files!Load
  <2>5. CASE Files!Open(c)
    BY <1>0, <2>5 DEF FileOK, Files!Open, Files!Target, Files!Inodes
  <2>6. CASE Files!Write(c)
    BY <1>0, <2>3, <2>6 DEF FileOK, Files!Write, Alone
  <2>7. CASE Files!Rename(c)
    BY <1>0, <2>3, <2>7 DEF FileOK, Files!Rename, Alone
  <2>8. CASE Files!Fail(c) \/ Files!Cancel(c) \/ Files!Drop(c)
    BY <1>0, <2>8 DEF FileOK, Files!Fail, Files!Cancel, Files!Drop
  <2> QED
    BY <2>1, <2>3, <2>4, <2>5, <2>6, <2>7, <2>8
<1> QED
  BY <1>1, <1>2, <1>3 DEF Next, FileStart, ShellStart, Work, ChildWrites, vars

\* An edit that has the file to itself takes effect at once or not at all.
THEOREM EditsAtomic == Spec => EditAtomic
<1>1. FileInv /\ [Next]_vars => FileInv'
  BY NextFile
<1>2. FileInv /\ [Next]_vars =>
        [\A c \in Files!Running : Files!IsEdit(c) /\ c \notin met' =>
           \/ /\ Files!Contents("file")' = Files!Contents("file")
              /\ fileVerdict'[c] # "ok"
           \/ /\ Files!Contents("file")' = out[c]
              /\ fileVerdict'[c] \in {"ok", "cancelled"}]_Files!vars
  BY EditStep
<1> QED
  BY <1>1, <1>2, InitFile, PTL DEF Spec, EditAtomic, Files!EditAtomic

-----------------------------------------------------------------------------
(* Numbers.                                                                *)

\* A set of natural numbers has a least one.
LEMMA Least ==
  ASSUME NEW T, T \subseteq Nat, T # {}
  PROVE  \E m \in T : \A k \in T : m <= k
<1> DEFINE R == OpToRel(<, Nat)
<1>1. R = {p \in Nat \X Nat : p[1] < p[2]}
  BY DEF OpToRel
<1>2. IsWellFoundedOn(R, Nat)
  BY NatLessThanWellFounded
<1> HIDE DEF R
<1>3. PICK m \in T : \A k \in T : <<k, m>> \notin R
  BY <1>2, WFMin, Zenon
<1>4. \A k \in T : ~(k < m)
  BY <1>1, <1>3
<1>5. \A k \in T : m <= k
  BY <1>4
<1> QED
  BY <1>5

\* Induction over the natural numbers, with a set in place of a predicate.
LEMMA Induction ==
  ASSUME NEW S, 0 \in S, \A n \in Nat : n \in S => n + 1 \in S
  PROVE  Nat \subseteq S
<1> SUFFICES ASSUME ~(Nat \subseteq S) PROVE FALSE
  OBVIOUS
<1> DEFINE T == Nat \ S
<1>1. T \subseteq Nat /\ T # {}
  OBVIOUS
<1> HIDE DEF T
<1>2. PICK m \in T : \A k \in T : m <= k
  BY <1>1, Least
<1>3. m \in Nat /\ m \notin S /\ m # 0
  BY DEF T
<1>4. m - 1 \in Nat /\ ~(m <= m - 1)
  BY <1>3
<1>5. m - 1 \in S
  BY <1>2, <1>4 DEF T
<1> QED
  BY <1>3, <1>4, <1>5

-----------------------------------------------------------------------------
(* The order of the edits. *)

\* The edits that come before one.
Ahead(batch, i) == {j \in DOMAIN batch : Files!Before(batch, j, i)}

\* The n places of order have each edit once, and those above come first.
Sorted(order, batch, n) ==
  /\ order \in [1 .. n -> 1 .. n]
  /\ \A i \in 1 .. n : \E k \in 1 .. n : order[k] = i
  /\ \A k, l \in 1 .. n : k < l => order[k] # order[l] /\ Files!Before(batch, order[k], order[l])

\* Before orders the edits of a batch.
LEMMA AheadLess ==
  ASSUME NEW n \in Nat, NEW batch, DOMAIN batch = 1 .. n, \A i \in 1 .. n : Files!Key(batch[i]) \in Nat,
         NEW i \in 1 .. n, NEW j \in 1 .. n
  PROVE  /\ i # j => Files!Before(batch, i, j) \/ Files!Before(batch, j, i)
         /\ Cardinality(Ahead(batch, i)) \in 0 .. n - 1
         /\ Files!Before(batch, i, j) => Cardinality(Ahead(batch, i)) < Cardinality(Ahead(batch, j))
<1>1. i # j => Files!Before(batch, i, j) \/ Files!Before(batch, j, i)
  <2>1. Files!Key(batch[i]) \in Nat /\ Files!Key(batch[j]) \in Nat /\ i \in Nat /\ j \in Nat
    OBVIOUS
  <2>2. /\ Files!Key(batch[i]) > Files!Key(batch[j]) \/ Files!Key(batch[i]) = Files!Key(batch[j])
           \/ Files!Key(batch[j]) > Files!Key(batch[i])
        /\ i # j => i > j \/ j > i
    BY <2>1
  <2> QED
    BY <2>1, <2>2 DEF Files!Before
<1> DEFINE D == 1 .. n
<1>2. IsFiniteSet(D) /\ Cardinality(D) = n
  <2>1. 0 \in Int /\ 1 \in Int /\ n \in Int
    OBVIOUS
  <2>2. IsFiniteSet(1 .. n) /\ Cardinality(1 .. n) = IF 1 > n THEN 0 ELSE n - 1 + 1
    BY <2>1, FS_Interval
  <2> QED
    BY <2>2
<1>3. Ahead(batch, i) \subseteq D /\ Ahead(batch, j) \subseteq D
  BY DEF Ahead
<1>4. i \notin Ahead(batch, i)
  BY DEF Ahead, Files!Before
<1>5. Files!Before(batch, i, j) => Ahead(batch, i) \subseteq Ahead(batch, j) /\ i \in Ahead(batch, j)
  BY DEF Ahead, Files!Before
<1> HIDE DEF D
<1>6. /\ IsFiniteSet(Ahead(batch, i)) /\ IsFiniteSet(Ahead(batch, j))
      /\ Cardinality(Ahead(batch, i)) <= n
      /\ Cardinality(Ahead(batch, i)) = n <=> Ahead(batch, i) = D
  BY <1>2, <1>3, FS_Subset
<1>7. Cardinality(Ahead(batch, i)) \in Nat /\ Cardinality(Ahead(batch, j)) \in Nat
  BY <1>6, FS_CardinalityType
<1>8. Cardinality(Ahead(batch, i)) # n
  BY <1>4, <1>6 DEF D
<1>9. ASSUME Files!Before(batch, i, j) PROVE Cardinality(Ahead(batch, i)) < Cardinality(Ahead(batch, j))
  <2>1. Ahead(batch, i) \subseteq Ahead(batch, j) /\ Ahead(batch, i) # Ahead(batch, j)
    BY <1>4, <1>5, <1>9
  <2>2. /\ Cardinality(Ahead(batch, i)) <= Cardinality(Ahead(batch, j))
        /\ Cardinality(Ahead(batch, i)) = Cardinality(Ahead(batch, j)) <=> Ahead(batch, i) = Ahead(batch, j)
    BY <1>6, <2>1, FS_Subset
  <2> QED
    BY <1>7, <2>1, <2>2
<1> QED
  BY <1>1, <1>6, <1>7, <1>8, <1>9

\* Order sorts the edits.
LEMMA OrderSorts ==
  ASSUME NEW n \in Nat, NEW batch, DOMAIN batch = 1 .. n, \A i \in 1 .. n : Files!Key(batch[i]) \in Nat
  PROVE  Sorted(Files!Order(batch), batch, n)
<1> DEFINE D == 1 .. n
           rank == [i \in D |-> Cardinality(Ahead(batch, i)) + 1]
           order == Files!Order(batch)
<1>1. rank \in [D -> D]
  <2>1. ASSUME NEW i \in D PROVE Cardinality(Ahead(batch, i)) \in 0 .. n - 1
    BY AheadLess
  <2> QED
    BY <2>1
<1>2. ASSUME NEW i \in D, NEW j \in D
      PROVE  /\ Files!Before(batch, i, j) => rank[i] < rank[j]
             /\ i # j => Files!Before(batch, i, j) \/ Files!Before(batch, j, i)
  <2>1. /\ i # j => Files!Before(batch, i, j) \/ Files!Before(batch, j, i)
        /\ Files!Before(batch, i, j) => Cardinality(Ahead(batch, i)) < Cardinality(Ahead(batch, j))
    BY AheadLess
  <2>2. Cardinality(Ahead(batch, i)) \in 0 .. n - 1 /\ Cardinality(Ahead(batch, j)) \in 0 .. n - 1
    BY AheadLess
  <2> QED
    BY <2>1, <2>2
<1>3. DOMAIN batch = D /\ order = [k \in DOMAIN batch |->
                                    CHOOSE i \in DOMAIN batch : Cardinality(Ahead(batch, i)) = k - 1]
  <2>1. order = [k \in DOMAIN batch |->
                   CHOOSE i \in DOMAIN batch : Cardinality(Ahead(batch, i)) = k - 1]
    BY Zenon DEF Files!Order, Ahead, Files!Cardinality, Cardinality
  <2>2. DOMAIN batch = D
    OBVIOUS
  <2> HIDE DEF order, D, rank
  <2> QED
    BY <2>1, <2>2
<1>4. \A i \in D, k \in D : rank[i] = k <=> Cardinality(Ahead(batch, i)) = k - 1
  <2>1. ASSUME NEW i \in D PROVE Cardinality(Ahead(batch, i)) \in 0 .. n - 1
    BY AheadLess
  <2> QED
    BY <2>1
<1> HIDE DEF rank, order
<1>5. \A i, j \in D : i # j => rank[i] # rank[j]
  <2>1. \A i \in D : rank[i] \in Nat
    BY <1>1
  <2> QED
    BY <1>2, <2>1
<1>6. rank \in Surjection(D, D)
  <2> HIDE DEF D
  <2>1. rank \in Injection(D, D)
    BY <1>1, <1>5 DEF Injection, IsInjective
  <2>2. IsFiniteSet(D)
    BY FS_Interval DEF D
  <2> QED
    BY <2>1, <2>2, FS_Injection
<1>7. ASSUME NEW k \in D PROVE order[k] \in D /\ rank[order[k]] = k
  <2>1. PICK m \in D : rank[m] = k
    BY <1>6 DEF Surjection
  <2>2. order[k] = CHOOSE i \in DOMAIN batch : Cardinality(Ahead(batch, i)) = k - 1
    BY <1>3
  <2>3. Cardinality(Ahead(batch, m)) = k - 1
    BY <1>4, <2>1
  <2>4. order[k] \in D /\ Cardinality(Ahead(batch, order[k])) = k - 1
    BY <1>3, <2>2, <2>3
  <2> QED
    BY <1>4, <2>4
<1>8. order \in [D -> D]
  <2>1. order = [k \in D |-> order[k]]
    BY <1>3
  <2> QED
    BY <1>7, <2>1
<1>9. ASSUME NEW i \in D PROVE \E k \in D : order[k] = i
  <2>1. rank[i] \in D
    BY <1>1
  <2>2. rank[order[rank[i]]] = rank[i] /\ order[rank[i]] \in D
    BY <1>7, <2>1
  <2>3. order[rank[i]] = i
    BY <1>5, <2>2
  <2> QED
    BY <2>1, <2>3
<1>10. ASSUME NEW k \in D, NEW l \in D, k < l
       PROVE  order[k] # order[l] /\ Files!Before(batch, order[k], order[l])
  <2>1. order[k] \in D /\ order[l] \in D /\ rank[order[k]] = k /\ rank[order[l]] = l
    BY <1>7
  <2>2. k # l /\ ~(l < k)
    BY <1>10
  <2>3. order[k] # order[l]
    BY <2>1, <2>2
  <2>4. ~Files!Before(batch, order[l], order[k])
    BY <1>2, <2>1, <2>2
  <2> QED
    BY <1>2, <2>1, <2>3, <2>4
<1> QED
  BY <1>8, <1>9, <1>10 DEF Sorted, order

-----------------------------------------------------------------------------
(* Sequences flattened.                                                    *)

\* Lists by their elements.
LEMMA Listed ==
  ASSUME NEW S, NEW n \in Nat, NEW f, f = [k \in 1 .. n |-> f[k]], \A k \in 1 .. n : f[k] \in S
  PROVE  f \in Seq(S) /\ Len(f) = n /\ DOMAIN f = 1 .. n
<1>1. f \in [1 .. n -> S]
  OBVIOUS
<1> QED
  BY <1>1

\* h flattens the n sequences one by one.
Flattens(h, seqs, n) == /\ h[0] = <<>> /\ Files!FlattenSeq(seqs) = h[n]
                        /\ \A k \in 1 .. n : h[k] = h[k - 1] \o seqs[k]

\* Flattening is joining from the left.
LEMMA FlattenSteps ==
  ASSUME NEW S, NEW n \in Nat, NEW seqs, seqs = [k \in 1 .. n |-> seqs[k]], \A k \in 1 .. n : seqs[k] \in Seq(S)
  PROVE  \E h : Flattens(h, seqs, n)
<1> DEFINE Eq(h, m) == h = [k \in 1 .. m |-> IF k = 1 THEN seqs[k] ELSE h[k - 1] \o seqs[k]]
           P == {m \in Nat : \E h : Eq(h, m)}
           d == CHOOSE h : Eq(h, n)
<1>1. seqs \in Seq(Seq(S)) /\ Len(seqs) = n /\ DOMAIN seqs = 1 .. n
  BY Listed
<1>2. 0 \in P
  <2>1. Eq([k \in 1 .. 0 |-> <<>>], 0)
    OBVIOUS
  <2> QED
    BY <2>1
<1>3. ASSUME NEW m \in Nat, m \in P PROVE m + 1 \in P
  <2>1. PICK h : Eq(h, m)
    BY <1>3
  <2> DEFINE g == [k \in 1 .. m + 1 |-> IF k = m + 1 THEN IF k = 1 THEN seqs[k] ELSE h[k - 1] \o seqs[k] ELSE h[k]]
             e == [k \in 1 .. m + 1 |-> IF k = 1 THEN seqs[k] ELSE g[k - 1] \o seqs[k]]
  <2>2. ASSUME NEW k \in 1 .. m + 1 PROVE g[k] = e[k]
    <3>1. k # 1 => k - 1 \in 1 .. m /\ k - 1 \in 1 .. m + 1 /\ k - 1 # m + 1
      BY <2>2
    <3>2. k # 1 => g[k - 1] = h[k - 1]
      BY <3>1
    <3>3. e[k] = IF k = 1 THEN seqs[k] ELSE g[k - 1] \o seqs[k]
      OBVIOUS
    <3>4. g[k] = IF k = m + 1 THEN IF k = 1 THEN seqs[k] ELSE h[k - 1] \o seqs[k] ELSE h[k]
      OBVIOUS
    <3>5. k # m + 1 => h[k] = IF k = 1 THEN seqs[k] ELSE h[k - 1] \o seqs[k]
      <4>1. k # m + 1 => k \in 1 .. m
        BY <2>2
      <4> HIDE DEF g, e
      <4> QED
        BY <2>1, <4>1
    <3> HIDE DEF g, e, Eq
    <3> QED
      BY <3>2, <3>3, <3>4, <3>5
  <2>3. g = e
    <3>1. g = [k \in 1 .. m + 1 |-> g[k]] /\ e = [k \in 1 .. m + 1 |-> e[k]]
      OBVIOUS
    <3> HIDE DEF g, e
    <3> QED
      BY <2>2, <3>1
  <2>4. Eq(g, m + 1)
    <3> HIDE DEF g
    <3> QED
      BY <2>3
  <2> HIDE DEF g, e, Eq
  <2>5. m + 1 \in Nat /\ \E f : Eq(f, m + 1)
    BY <2>4
  <2> QED
    BY <2>5
<1> HIDE DEF P
<1>4. n \in P
  BY <1>2, <1>3, Induction
<1>5. \E h : Eq(h, n)
  BY <1>4 DEF P
<1>6. Eq(d, n)
  BY <1>5
<1> DEFINE h == [k \in 0 .. n |-> IF k = 0 THEN <<>> ELSE d[k]]
<1>7. Files!FlattenSeq(seqs) = IF n = 0 THEN seqs ELSE d[n]
  BY <1>1 DEF Files!FlattenSeq
<1>8. n = 0 => seqs = <<>>
  BY <1>1
<1> HIDE DEF d
<1>9. h[0] = <<>> /\ h[n] = IF n = 0 THEN <<>> ELSE d[n]
  OBVIOUS
<1>10. ASSUME NEW k \in 1 .. n PROVE h[k] = h[k - 1] \o seqs[k]
  <2>1. k \in 0 .. n /\ k # 0 /\ k - 1 \in 0 .. n /\ (k = 1 => k - 1 = 0) /\ (k # 1 => k - 1 # 0)
    OBVIOUS
  <2>2. d[k] = IF k = 1 THEN seqs[k] ELSE d[k - 1] \o seqs[k]
    BY <1>6
  <2>3. h[k] = d[k] /\ h[k - 1] = IF k = 1 THEN <<>> ELSE d[k - 1]
    BY <2>1
  <2> HIDE DEF h
  <2>4. <<>> \o seqs[k] = seqs[k]
    OBVIOUS
  <2> QED
    BY <2>2, <2>3, <2>4
<1> HIDE DEF h
<1> QED
  BY <1>7, <1>8, <1>9, <1>10 DEF Flattens

\* What has been flattened so far is a text.
LEMMA FlattenType ==
  ASSUME NEW S, NEW n \in Nat, NEW seqs, \A k \in 1 .. n : seqs[k] \in Seq(S), NEW h, Flattens(h, seqs, n)
  PROVE  \A k \in 0 .. n : h[k] \in Seq(S)
<1> DEFINE P == {m \in Nat : m <= n => h[m] \in Seq(S)}
<1>1. 0 \in P
  <2>1. h[0] = <<>>
    BY DEF Flattens
  <2>2. h[0] \in Seq(S)
    BY <2>1
  <2> QED
    BY <2>2
<1>2. ASSUME NEW m \in Nat, m \in P PROVE m + 1 \in P
  <2> SUFFICES ASSUME m + 1 <= n PROVE h[m + 1] \in Seq(S)
    OBVIOUS
  <2>1. m + 1 \in 1 .. n /\ (m + 1) - 1 = m /\ h[m] \in Seq(S)
    BY <1>2
  <2>2. h[m + 1] = h[m] \o seqs[m + 1] /\ seqs[m + 1] \in Seq(S)
    BY <2>1 DEF Flattens
  <2> QED
    BY <2>1, <2>2
<1> HIDE DEF P
<1>3. Nat \subseteq P
  BY <1>1, <1>2, Induction
<1> QED
  BY <1>3 DEF P

-----------------------------------------------------------------------------
(* Contents and their lines.                                               *)

Line == Seq(Char)

\* c cuts the first n characters of a content into lines.
Cuts(c, content, n) ==
  /\ c[0] = [ended |-> <<>>, open |-> <<>>] /\ \A k \in 1 .. n : c[k] = Files!Grown(c[k - 1], content[k])
  /\ Files!LinesOf(content) = IF c[n].open = <<>> THEN c[n].ended ELSE Append(c[n].ended, c[n].open)

\* A content is cut one character at a time.
LEMMA CutSteps ==
  ASSUME NEW content, NEW n \in Nat, Len(content) = n
  PROVE  \E c : Cuts(c, content, n)
<1> DEFINE start == [ended |-> <<>>, open |-> <<>>]
           Eq(h, m) == h = [k \in 0 .. m |-> IF k = 0 THEN start ELSE Files!Grown(h[k - 1], content[k])]
           P == {m \in Nat : \E h : Eq(h, m)}
           d == CHOOSE h : Eq(h, n)
<1> HIDE DEF start
<1>1. 0 \in P
  <2>1. Eq([k \in 0 .. 0 |-> start], 0)
    OBVIOUS
  <2> QED
    BY <2>1
<1>2. ASSUME NEW m \in Nat, m \in P PROVE m + 1 \in P
  <2>1. PICK h : Eq(h, m)
    BY <1>2
  <2> DEFINE g == [k \in 0 .. m + 1 |-> IF k = m + 1 THEN Files!Grown(h[m], content[m + 1]) ELSE h[k]]
             e == [k \in 0 .. m + 1 |-> IF k = 0 THEN start ELSE Files!Grown(g[k - 1], content[k])]
  <2>2. ASSUME NEW k \in 0 .. m + 1 PROVE g[k] = e[k]
    <3>1. CASE k = m + 1
      <4>1. m \in 0 .. m + 1 /\ m # m + 1 /\ k # 0 /\ k - 1 = m
        BY <3>1
      <4>2. /\ g[m] = h[m] /\ g[k] = Files!Grown(h[m], content[m + 1])
            /\ e[k] = Files!Grown(g[k - 1], content[k])
        BY <3>1, <4>1
      <4> HIDE DEF g, e
      <4> QED
        BY <3>1, <4>1, <4>2
    <3>2. CASE k \in 0 .. m
      <4>1. g[k] = h[k]
        BY <3>2
      <4>2. h[k] = IF k = 0 THEN start ELSE Files!Grown(h[k - 1], content[k])
        BY <2>1, <3>2
      <4>3. k # 0 => g[k - 1] = h[k - 1]
        BY <3>2
      <4>4. e[k] = IF k = 0 THEN start ELSE Files!Grown(g[k - 1], content[k])
        OBVIOUS
      <4> HIDE DEF g, e
      <4> QED
        BY <4>1, <4>2, <4>3, <4>4
    <3> QED
      BY <3>1, <3>2
  <2>3. g = e
    <3>1. g = [k \in 0 .. m + 1 |-> g[k]] /\ e = [k \in 0 .. m + 1 |-> e[k]]
      OBVIOUS
    <3> HIDE DEF g, e
    <3> QED
      BY <2>2, <3>1
  <2>4. Eq(g, m + 1)
    <3> HIDE DEF g
    <3> QED
      BY <2>3
  <2> HIDE DEF g, e, Eq
  <2>5. m + 1 \in Nat /\ \E f : Eq(f, m + 1)
    BY <2>4
  <2> QED
    BY <2>5
<1> HIDE DEF P
<1>3. n \in P
  BY <1>1, <1>2, Induction
<1>4. \E h : Eq(h, n)
  BY <1>3 DEF P
<1>5. Eq(d, n)
  BY <1>4
<1>6. Files!LinesOf(content) = IF d[n].open = <<>> THEN d[n].ended ELSE Append(d[n].ended, d[n].open)
  BY DEF Files!LinesOf, start
<1> HIDE DEF d
<1>7. d[0] = start /\ \A k \in 1 .. n : d[k] = Files!Grown(d[k - 1], content[k])
  BY <1>5
<1> QED
  BY <1>6, <1>7 DEF Cuts, start

\* The lines of a content are lines.
LEMMA LinesType ==
  ASSUME NEW content \in Seq(Char)
  PROVE  Files!LinesOf(content) \in Seq(Line)
<1> DEFINE n == Len(content)
<1>1. PICK c : Cuts(c, content, n)
  BY CutSteps
<1> DEFINE Typed(r) == r.ended \in Seq(Line) /\ r.open \in Line
           P == {m \in Nat : m <= n => Typed(c[m])}
<1>2. 0 \in P
  <2>1. c[0].ended = <<>> /\ c[0].open = <<>>
    BY <1>1 DEF Cuts
  <2>2. <<>> \in Seq(Line) /\ <<>> \in Line
    BY DEF Line
  <2>3. Typed(c[0])
    BY <2>1, <2>2
  <2> HIDE DEF Typed
  <2> QED
    BY <2>3
<1>3. ASSUME NEW m \in Nat, m \in P PROVE m + 1 \in P
  <2> SUFFICES ASSUME m + 1 <= n PROVE Typed(c[m + 1])
    OBVIOUS
  <2> DEFINE r == c[m]
             char == content[m + 1]
  <2>1. r.ended \in Seq(Line) /\ r.open \in Seq(Char) /\ char \in Char
    BY <1>3 DEF Line
  <2>2. c[m + 1] = Files!Grown(r, char)
    <3>1. m + 1 \in 1 .. n /\ (m + 1) - 1 = m
      OBVIOUS
    <3> QED
      BY <1>1, <3>1 DEF Cuts
  <2> HIDE DEF r, char
  <2>3. Files!Chomped(r.open) \in Line
    <3>1. r.open # <<>> => Files!Front(r.open) \in Seq(Char)
      BY <2>1 DEF Files!Front
    <3> QED
      BY <2>1, <3>1 DEF Files!Chomped, Files!EndsIn, Line
  <2>4. Append(r.ended, Files!Chomped(r.open)) \in Seq(Line)
    BY <2>1, <2>3
  <2>5. Append(r.open, char) \in Line /\ <<>> \in Line
    BY <2>1 DEF Line
  <2>6. Typed(Files!Grown(r, char))
    BY <2>1, <2>4, <2>5 DEF Files!Grown
  <2> HIDE DEF Typed
  <2> QED
    BY <2>2, <2>6
<1> HIDE DEF P
<1>4. n \in P
  BY <1>2, <1>3, Induction
<1>5. Typed(c[n])
  BY <1>4 DEF P
<1>6. Files!LinesOf(content) = IF c[n].open = <<>> THEN c[n].ended ELSE Append(c[n].ended, c[n].open)
  BY <1>1 DEF Cuts
<1> QED
  BY <1>5, <1>6

\* Lines joined are a content, and so is what ends it.
LEMMA JoinedType ==
  ASSUME NEW text \in Seq(Line), NEW content \in Seq(Char)
  PROVE  Files!Joined(text) \in Seq(Char) /\ Files!Joined(text) \o Files!Ending(content) \in Seq(Char)
<1> DEFINE n == Len(text)
           seqs == [k \in 1 .. n |-> IF k = 1 THEN text[k] ELSE <<NL>> \o text[k]]
<1>1. n \in Nat /\ DOMAIN text = 1 .. n
  OBVIOUS
<1>2. Files!Joined(text) = Files!FlattenSeq(seqs)
  BY <1>1 DEF Files!Joined
<1>3. <<NL>> \in Seq(Char)
  BY TextsAssumption
<1>4. ASSUME NEW k \in 1 .. n PROVE seqs[k] \in Seq(Char)
  <2>1. text[k] \in Seq(Char)
    BY DEF Line
  <2>2. <<NL>> \o text[k] \in Seq(Char)
    BY <1>3, <2>1
  <2> QED
    BY <2>1, <2>2
<1>5. seqs = [k \in 1 .. n |-> seqs[k]]
  OBVIOUS
<1> HIDE DEF seqs, n
<1>6. PICK h : Flattens(h, seqs, n)
  BY <1>1, <1>4, <1>5, FlattenSteps
<1>7. h[n] \in Seq(Char)
  <2>1. \A k \in 0 .. n : h[k] \in Seq(Char)
    BY <1>1, <1>4, <1>6, FlattenType
  <2> QED
    BY <1>1, <2>1
<1>8. Files!Joined(text) \in Seq(Char)
  BY <1>2, <1>6, <1>7 DEF Flattens
<1>9. Files!Ending(content) \in Seq(Char)
  BY <1>3 DEF Files!Ending
<1> QED
  BY <1>8, <1>9

\* So is a part of one that others take the place of.
LEMMA SpliceType ==
  ASSUME NEW S, NEW t \in Seq(S), NEW i \in 1 .. Len(t) + 1, NEW j \in i - 1 .. Len(t), NEW l \in Seq(S)
  PROVE  Files!Splice(t, i, j, l) \in Seq(S)
<1> DEFINE top == SubSeq(t, 1, i - 1)
           rest == SubSeq(t, j + 1, Len(t))
<1>1. top \in Seq(S) /\ rest \in Seq(S)
  OBVIOUS
<1> HIDE DEF top, rest
<1>2. (top \o l) \o rest \in Seq(S)
  BY <1>1
<1> QED
  BY <1>2 DEF Files!Splice, top, rest

\* A part is found within the whole.
LEMMA SubstitutedType ==
  ASSUME NEW whole \in Seq(Char), NEW old \in Seq(Char), NEW new \in Seq(Char)
  PROVE  Files!Substituted(whole, old, new) \in Seq(Char)
<1> DEFINE F == Files!At(old, whole)
           n == Files!First(old, whole)
<1>1. CASE F = {}
  BY <1>1 DEF Files!Substituted
<1>2. CASE F # {}
  <2>1. \A m \in F : m \in 1 .. Len(whole) + 1 /\ m + Len(old) <= Len(whole) + 1
    BY DEF Files!At
  <2>2. F \subseteq Nat
    BY <2>1
  <2>3. n = CHOOSE m \in F : \A o \in F : m <= o
    BY DEF Files!First
  <2> HIDE DEF F, n
  <2>4. \E m \in F : \A o \in F : m <= o
    BY <1>2, <2>2, Least
  <2>5. n \in F
    BY <2>3, <2>4
  <2> DEFINE j == n + Len(old) - 1
  <2>6. n \in 1 .. Len(whole) + 1 /\ j \in n - 1 .. Len(whole)
    BY <2>1, <2>5
  <2> HIDE DEF j
  <2>7. Files!Splice(whole, n, j, new) \in Seq(Char)
    BY <2>6, SpliceType
  <2>8. Files!Substituted(whole, old, new) = Files!Splice(whole, n, j, new)
    BY <1>2 DEF Files!Substituted, F, n, j
  <2> QED
    BY <2>7, <2>8
<1> QED
  BY <1>1, <1>2

-----------------------------------------------------------------------------
(* What the edits from the bottom up to a line make of a text.             *)

\* Texts are put together in any grouping.
LEMMA JoinThree == \A s, t, u \in Seq(Line) : (s \o t) \o u = s \o (t \o u)
  BY ConcatAssociative

\* A text up to line c as it was, and then what is meant of the rest.
Stands(text, h, c, t) ==
  \E r \in Seq(Line) : t = SubSeq(text, 1, c - 1) \o r /\ h[c - 1] \o r = h[Len(text)]

\* A line that no edit is about stands for itself.
LEMMA StandsUp ==
  ASSUME NEW text \in Seq(Line), NEW parts, NEW h, Flattens(h, parts, Len(text)),
         \A k \in 0 .. Len(text) : h[k] \in Seq(Line),
         NEW c \in 1 .. Len(text), parts[c] = <<text[c]>>, NEW t, Stands(text, h, c + 1, t)
  PROVE  Stands(text, h, c, t)
<1>1. (c + 1) - 1 = c /\ c - 1 \in 0 .. Len(text)
  OBVIOUS
<1>2. PICK r \in Seq(Line) : t = SubSeq(text, 1, c) \o r /\ h[c] \o r = h[Len(text)]
  BY <1>1 DEF Stands
<1> DEFINE l == <<text[c]>>
           q == l \o r
           top == SubSeq(text, 1, c - 1)
           head == h[c - 1]
<1>3. l \in Seq(Line) /\ q \in Seq(Line) /\ top \in Seq(Line) /\ head \in Seq(Line)
  BY <1>1
<1>4. SubSeq(text, 1, c) = top \o l
  <2>1. 1 \in 1 .. Len(text) /\ c \in 1 .. Len(text)
    OBVIOUS
  <2> QED
    BY <2>1, SubSeqRecursiveSecond
<1>5. h[c] = head \o l
  BY DEF Flattens
<1> HIDE DEF l, top, head
<1>6. (top \o l) \o r = top \o (l \o r)
  BY <1>3, JoinThree
<1>7. (head \o l) \o r = head \o (l \o r)
  BY <1>3, JoinThree
<1>8. t = top \o q /\ head \o q = h[Len(text)]
  BY <1>2, <1>4, <1>5, <1>6, <1>7
<1> HIDE DEF q
<1> QED
  BY <1>3, <1>8 DEF Stands, top, head

\* So do lines that no edit is about.
LEMMA StandsDown ==
  ASSUME NEW text \in Seq(Line), NEW parts, NEW h, Flattens(h, parts, Len(text)),
         \A k \in 0 .. Len(text) : h[k] \in Seq(Line),
         NEW c \in 1 .. Len(text) + 1, NEW d \in 1 .. c, \A k \in d .. c - 1 : parts[k] = <<text[k]>>,
         NEW t, Stands(text, h, c, t)
  PROVE  Stands(text, h, d, t)
<1> DEFINE P == {m \in Nat : m <= c - d => Stands(text, h, c - m, t)}
<1>1. 0 \in P
  <2>1. c - 0 = c
    OBVIOUS
  <2> QED
    BY <2>1
<1>2. ASSUME NEW m \in Nat, m \in P PROVE m + 1 \in P
  <2> SUFFICES ASSUME m + 1 <= c - d PROVE Stands(text, h, c - (m + 1), t)
    OBVIOUS
  <2> DEFINE k == c - (m + 1)
  <2>1. k \in d .. c - 1 /\ k \in 1 .. Len(text) /\ k + 1 = c - m /\ m <= c - d
    OBVIOUS
  <2>2. Stands(text, h, k + 1, t) /\ parts[k] = <<text[k]>>
    BY <1>2, <2>1
  <2> HIDE DEF k
  <2>3. Stands(text, h, k, t)
    BY <2>1, <2>2, StandsUp
  <2> QED
    BY <2>3 DEF k
<1> HIDE DEF P
<1>3. Nat \subseteq P
  BY <1>1, <1>2, Induction
<1>4. c - d \in P /\ c - (c - d) = d /\ c - d <= c - d
  BY <1>3
<1> QED
  BY <1>4 DEF P

\* The whole text is as it was until the first edit; a text that stands for
\* what is meant from the first line is what is meant.
LEMMA StandsEnds ==
  ASSUME NEW text \in Seq(Line), NEW h, h[0] = <<>>, h[Len(text)] \in Seq(Line), NEW t
  PROVE  /\ Stands(text, h, Len(text) + 1, text)
         /\ Stands(text, h, 1, t) => t = h[Len(text)]
<1>1. SubSeq(text, 1, (Len(text) + 1) - 1) = text /\ (Len(text) + 1) - 1 = Len(text) /\ 1 - 1 = 0
  BY SubSeqFull
<1>2. text \o <<>> = text /\ h[Len(text)] \o <<>> = h[Len(text)] /\ <<>> \in Seq(Line)
  BY ConcatEmptySeq
<1>3. Stands(text, h, Len(text) + 1, text)
  BY <1>1, <1>2 DEF Stands
<1>4. SubSeq(text, 1, 0) = <<>>
  BY SubSeqEmpty
<1>5. ASSUME Stands(text, h, 1, t) PROVE t = h[Len(text)]
  <2>1. PICK r \in Seq(Line) : t = SubSeq(text, 1, 0) \o r /\ h[0] \o r = h[Len(text)]
    BY <1>1, <1>5 DEF Stands
  <2>2. <<>> \o r = r
    BY ConcatEmptySeq
  <2> QED
    BY <1>4, <2>1, <2>2
<1> QED
  BY <1>3, <1>5

\* t is r after the first c - 1 lines of text; l goes in before line i.
Splices(text, c, r, t, i, l) ==
  /\ t \in Seq(Line) /\ Len(t) = c - 1 + Len(r)
  /\ Files!Splice(t, i, c - 1, l) = SubSeq(text, 1, i - 1) \o (l \o r)

\* Lines spliced in before what stands for the lines from c on.
LEMMA SpliceAt ==
  ASSUME NEW text \in Seq(Line), NEW c \in 1 .. Len(text) + 1, NEW r \in Seq(Line), NEW t,
         t = SubSeq(text, 1, c - 1) \o r, NEW i \in 1 .. c, NEW l \in Seq(Line)
  PROVE  Splices(text, c, r, t, i, l)
<1> DEFINE top == SubSeq(text, 1, c - 1)
           head == SubSeq(text, 1, i - 1)
           tops == SubSeq(t, 1, i - 1)
           rest == SubSeq(t, (c - 1) + 1, Len(t))
<1>1. top \in Seq(Line) /\ Len(top) = c - 1 /\ \A k \in 1 .. c - 1 : top[k] = text[k]
  OBVIOUS
<1>2. head \in Seq(Line) /\ Len(head) = i - 1 /\ \A k \in 1 .. i - 1 : head[k] = text[k]
  OBVIOUS
<1> HIDE DEF top, head
<1>3. /\ t \in Seq(Line) /\ Len(t) = c - 1 + Len(r)
      /\ \A k \in 1 .. c - 1 + Len(r) : t[k] = IF k <= c - 1 THEN top[k] ELSE r[k - (c - 1)]
  <2>1. t = top \o r
    BY DEF top
  <2>2. /\ top \o r \in Seq(Line) /\ Len(top \o r) = Len(top) + Len(r)
        /\ \A k \in 1 .. Len(top) + Len(r) : (top \o r)[k] = IF k <= Len(top) THEN top[k] ELSE r[k - Len(top)]
    BY <1>1, ConcatProperties
  <2> QED
    BY <1>1, <2>1, <2>2
<1>4. tops \in Seq(Line) /\ Len(tops) = i - 1 /\ \A k \in 1 .. i - 1 : tops[k] = t[k]
  <2>1. i - 1 <= Len(t)
    BY <1>3
  <2> QED
    BY <1>3, <2>1
<1>5. rest \in Seq(Line) /\ Len(rest) = Len(r) /\ \A k \in 1 .. Len(r) : rest[k] = t[c - 1 + k]
  BY <1>3
<1> HIDE DEF tops, rest
<1>6. tops = head
  <2>1. \A k \in 1 .. i - 1 : tops[k] = head[k]
    BY <1>1, <1>2, <1>3, <1>4
  <2> QED
    BY <1>2, <1>4, <2>1, SeqEqual
<1>7. rest = r
  <2>1. ASSUME NEW k \in 1 .. Len(r) PROVE rest[k] = r[k]
    <3>1. c - 1 + k \in 1 .. c - 1 + Len(r) /\ ~(c - 1 + k <= c - 1) /\ (c - 1 + k) - (c - 1) = k
      OBVIOUS
    <3> QED
      BY <1>3, <1>5, <3>1
  <2> QED
    BY <1>5, <2>1, SeqEqual
<1>8. Files!Splice(t, i, c - 1, l) = (tops \o l) \o rest
  BY DEF Files!Splice, tops, rest
<1>9. (head \o l) \o r = head \o (l \o r)
  BY <1>2, JoinThree
<1> QED
  BY <1>3, <1>6, <1>7, <1>8, <1>9 DEF head, Splices

\* The line of a batch's edit, and the last one it is about.
From(e) == Files!Index(e.pos)
To(e)   == Files!Index(Files!EndOf(e))

\* An edit that was accepted for a text of n lines.
Fits(e, n) ==
  /\ e.op \in {"replace", "append", "prepend"} /\ e.lines \in Seq(Line)
  /\ e.pos.line \in Nat /\ From(e) \in 1 .. n /\ To(e) \in From(e) .. n

\* An edit makes u of a text t.
Makes(t, e, u) == Files!Applied(Files!Outcome("ok", t), e) = Files!Outcome("ok", u)

\* A replacement that fits puts its lines in the place of the lines it names.
LEMMA ReplaceMakes ==
  ASSUME NEW t \in Seq(Line), NEW n \in Nat, NEW e, Fits(e, n), e.op = "replace", To(e) <= Len(t)
  PROVE  Makes(t, e, Files!Splice(t, From(e), To(e), e.lines))
<1>1. ~Files!IsText(e) /\ From(e) <= To(e) /\ From(e) \in Nat /\ To(e) \in Nat
  BY DEF Files!IsText, Fits
<1> QED
  BY <1>1 DEF Makes, Files!Applied, Files!Outcome, From, To

\* An append that fits puts its lines below the line it names.
LEMMA AppendMakes ==
  ASSUME NEW t \in Seq(Line), NEW n \in Nat, NEW e, Fits(e, n), e.op = "append", From(e) <= Len(t)
  PROVE  Makes(t, e, Files!Splice(t, From(e) + 1, From(e), e.lines))
<1>1. ~Files!IsText(e) /\ From(e) \in Nat /\ From(e) >= 1
  BY DEF Files!IsText, Fits
<1>2. t # <<>> /\ (From(e) >= Len(t) => From(e) = Len(t))
  BY <1>1
<1> QED
  BY <1>1, <1>2 DEF Makes, Files!Applied, Files!Outcome, From

\* A prepend that fits puts its lines above the line it names.
LEMMA PrependMakes ==
  ASSUME NEW t \in Seq(Line), NEW n \in Nat, NEW e, Fits(e, n), e.op = "prepend", From(e) <= Len(t)
  PROVE  Makes(t, e, Files!Splice(t, From(e), From(e) - 1, e.lines))
<1>1. ~Files!IsText(e) /\ From(e) \in Nat /\ ~(From(e) > Len(t) + 1)
  BY DEF Files!IsText, Fits
<1> QED
  BY <1>1 DEF Makes, Files!Applied, Files!Outcome, From

\* Lines that stand for nothing add nothing.
LEMMA NothingAdded ==
  ASSUME NEW n \in Nat, NEW parts, NEW h, Flattens(h, parts, n), \A k \in 0 .. n : h[k] \in Seq(Line),
         NEW i \in 1 .. n, NEW j \in i .. n, \A k \in i + 1 .. j : parts[k] = <<>>
  PROVE  h[j] = h[i]
<1> DEFINE P == {m \in Nat : m <= j - i => h[i + m] = h[i]}
<1>1. 0 \in P
  OBVIOUS
<1>2. ASSUME NEW m \in Nat, m \in P PROVE m + 1 \in P
  <2> SUFFICES ASSUME m + 1 <= j - i PROVE h[i + (m + 1)] = h[i]
    OBVIOUS
  <2> DEFINE k == i + (m + 1)
  <2>1. k \in i + 1 .. j /\ k \in 1 .. n /\ k - 1 = i + m /\ k - 1 \in 0 .. n /\ m <= j - i
    OBVIOUS
  <2> HIDE DEF k
  <2>2. h[k] = h[k - 1] \o <<>> /\ h[k - 1] = h[i] /\ h[k - 1] \in Seq(Line)
    BY <1>2, <2>1 DEF Flattens
  <2>3. h[k] = h[k - 1]
    BY <2>2, ConcatEmptySeq
  <2> QED
    BY <2>2, <2>3 DEF k
<1> HIDE DEF P
<1>3. Nat \subseteq P
  BY <1>1, <1>2, Induction
<1>4. j - i \in P /\ i + (j - i) = j /\ j - i <= j - i
  BY <1>3
<1> QED
  BY <1>4 DEF P

\* An edit turns what stands for the lines after its own into what stands
\* for its own, too.
LEMMA EditStands ==
  ASSUME NEW text \in Seq(Line), NEW parts, NEW h, Flattens(h, parts, Len(text)),
         \A k \in 0 .. Len(text) : h[k] \in Seq(Line),
         NEW e, Fits(e, Len(text)), \A m \in From(e) .. To(e) : parts[m] = Files!Piece(text, e, m),
         NEW t, Stands(text, h, To(e) + 1, t)
  PROVE  \E u : Makes(t, e, u) /\ Stands(text, h, From(e), u)
<1> DEFINE n == Len(text)
           i == From(e)
           j == To(e)
           l == e.lines
<1>1. /\ n \in Nat /\ i \in 1 .. n /\ j \in i .. n /\ l \in Seq(Line)
      /\ e.op \in {"replace", "append", "prepend"}
  BY DEF Fits
<1>2. i - 1 \in 0 .. n /\ j + 1 \in 1 .. n + 1 /\ i + 1 \in 1 .. j + 1 /\ i + 1 \in 1 .. n + 1
      /\ (i + 1) - 1 = i /\ (j + 1) - 1 = j /\ h[i - 1] \in Seq(Line) /\ i \in 1 .. i + 1 /\ i \in 1 .. j + 1
  BY <1>1
<1>3. Files!Index(e.pos) = i
  BY DEF From
<1>4. \A m \in i .. j : parts[m] = Files!Piece(text, e, m)
  OBVIOUS
<1> HIDE DEF n, i, j, l
<1>5. CASE e.op = "replace"
  <2>1. PICK r \in Seq(Line) : t = SubSeq(text, 1, (j + 1) - 1) \o r /\ h[(j + 1) - 1] \o r = h[n]
    BY DEF Stands, j, n
  <2> DEFINE u == Files!Splice(t, i, (j + 1) - 1, l)
             q == l \o r
  <2>2. /\ t \in Seq(Line) /\ Len(t) = (j + 1) - 1 + Len(r)
        /\ u = SubSeq(text, 1, i - 1) \o q
    <3> DEFINE c == j + 1
    <3>1. c \in 1 .. Len(text) + 1 /\ i \in 1 .. c
      BY <1>2 DEF n
    <3>2. t = SubSeq(text, 1, c - 1) \o r
      BY <2>1
    <3> HIDE DEF c
    <3>3. Splices(text, c, r, t, i, l)
      BY <1>1, <3>1, <3>2, SpliceAt
    <3> QED
      BY <3>3 DEF Splices, c
  <2>3. j <= Len(t)
    BY <1>1, <1>2, <2>2
  <2>4. Makes(t, e, u)
    BY <1>1, <1>2, <1>5, <2>2, <2>3, ReplaceMakes DEF i, j, l, n
  <2>5. parts[i] = l
    BY <1>1, <1>3, <1>4, <1>5 DEF Files!Piece, l
  <2>6. \A m \in i + 1 .. j : parts[m] = <<>>
    <3> TAKE m \in i + 1 .. j
    <3>1. m \in i .. j /\ m # i
      BY <1>1
    <3> QED
      BY <1>3, <1>4, <1>5, <3>1 DEF Files!Piece
  <2>7. h[j] = h[i]
    BY <1>1, <2>6, NothingAdded DEF n
  <2>8. h[i] = h[i - 1] \o l
    BY <1>1, <2>5 DEF Flattens, n
  <2>9. h[i - 1] \o q = h[n]
    <3> DEFINE head == h[i - 1]
    <3>1. head \in Seq(Line)
      BY <1>2
    <3>2. (head \o l) \o r = h[n]
      BY <1>2, <2>1, <2>7, <2>8
    <3> HIDE DEF head
    <3>3. (head \o l) \o r = head \o (l \o r)
      BY <1>1, <3>1, JoinThree
    <3> QED
      BY <3>2, <3>3 DEF head
  <2>10. q \in Seq(Line)
    BY <1>1
  <2> HIDE DEF u, q
  <2>11. Stands(text, h, i, u)
    BY <2>2, <2>9, <2>10 DEF Stands, n
  <2> QED
    BY <2>4, <2>11 DEF i
<1>6. ASSUME e.op \in {"append", "prepend"}
      PROVE  \E r \in Seq(Line) : t = SubSeq(text, 1, (i + 1) - 1) \o r /\ h[i] \o r = h[n]
  <2>1. \A m \in i + 1 .. (j + 1) - 1 : parts[m] = <<text[m]>>
    <3> TAKE m \in i + 1 .. (j + 1) - 1
    <3>1. m \in i .. j /\ m # i
      BY <1>1, <1>2
    <3> QED
      BY <1>3, <1>4, <1>6, <3>1 DEF Files!Piece
  <2>2. Stands(text, h, j + 1, t) /\ j + 1 \in 1 .. Len(text) + 1
    BY <1>2 DEF j, n
  <2> DEFINE c == j + 1
             d == i + 1
  <2>3. c \in 1 .. Len(text) + 1 /\ d \in 1 .. c /\ Stands(text, h, c, t)
        /\ \A m \in d .. c - 1 : parts[m] = <<text[m]>>
    BY <1>2, <2>1, <2>2
  <2> HIDE DEF c, d
  <2>4. Stands(text, h, d, t)
    BY <2>3, StandsDown
  <2> QED
    BY <1>2, <2>4 DEF Stands, d, n
<1>7. CASE e.op = "append"
  <2>1. PICK r \in Seq(Line) : t = SubSeq(text, 1, (i + 1) - 1) \o r /\ h[i] \o r = h[n]
    BY <1>6, <1>7
  <2> DEFINE u == Files!Splice(t, i + 1, (i + 1) - 1, l)
             s == <<text[i]>>
             q == s \o (l \o r)
  <2>2. /\ t \in Seq(Line) /\ Len(t) = (i + 1) - 1 + Len(r)
        /\ u = SubSeq(text, 1, (i + 1) - 1) \o (l \o r)
    <3> DEFINE c == i + 1
    <3>1. c \in 1 .. Len(text) + 1 /\ c \in 1 .. c
      BY <1>2 DEF n
    <3> HIDE DEF c
    <3>2. t = SubSeq(text, 1, c - 1) \o r
      BY <2>1 DEF c
    <3>3. /\ t \in Seq(Line) /\ Len(t) = c - 1 + Len(r)
          /\ Files!Splice(t, c, c - 1, l) = SubSeq(text, 1, c - 1) \o (l \o r)
      <4>1. Splices(text, c, r, t, c, l)
        BY <1>1, <3>1, <3>2, SpliceAt
      <4> QED
        BY <4>1 DEF Splices
    <3> QED
      BY <3>3 DEF c
  <2>3. i <= Len(t)
    BY <1>1, <1>2, <2>2
  <2>4. Makes(t, e, u)
    BY <1>1, <1>2, <1>7, <2>2, <2>3, AppendMakes DEF i, l, n
  <2>5. parts[i] = s \o l
    <3>1. parts[i] = Files!Piece(text, e, i)
      BY <1>1, <1>4
    <3> QED
      BY <1>3, <1>7, <3>1, Zenon DEF Files!Piece, l
  <2>6. s \in Seq(Line)
    BY <1>1 DEF n
  <2>7. SubSeq(text, 1, i) = SubSeq(text, 1, i - 1) \o s
    <3>1. 1 \in 1 .. Len(text) /\ i \in 1 .. Len(text)
      BY <1>1 DEF n
    <3> QED
      BY <3>1, SubSeqRecursiveSecond
  <2>8. h[i] = h[i - 1] \o (s \o l)
    BY <1>1, <2>5 DEF Flattens, n
  <2> DEFINE head == h[i - 1]
             top == SubSeq(text, 1, i - 1)
  <2>9. head \in Seq(Line) /\ top \in Seq(Line)
    BY <1>1, <1>2 DEF n
  <2>10. u = (top \o s) \o (l \o r) /\ (head \o (s \o l)) \o r = h[n]
    BY <1>2, <2>1, <2>2, <2>7, <2>8
  <2> HIDE DEF head, top, s, u
  <2>11. l \o r \in Seq(Line) /\ s \o l \in Seq(Line)
    BY <1>1, <2>6
  <2>12. (top \o s) \o (l \o r) = top \o q
    <3> HIDE DEF l
    <3> DEFINE v == l \o r
    <3>1. v \in Seq(Line)
      BY <2>11
    <3> HIDE DEF v
    <3>2. (top \o s) \o v = top \o (s \o v)
      BY <2>6, <2>9, <3>1, JoinThree
    <3> QED
      BY <3>2 DEF v
  <2>13. (head \o (s \o l)) \o r = head \o q
    <3> DEFINE v == s \o l
    <3>1. v \in Seq(Line)
      BY <2>11
    <3>2. v \o r = s \o (l \o r)
      BY <1>1, <2>6, JoinThree
    <3> HIDE DEF v
    <3>3. (head \o v) \o r = head \o (v \o r)
      BY <2>9, <3>1, JoinThree
    <3> QED
      BY <3>2, <3>3 DEF v
  <2>14. q \in Seq(Line)
    BY <2>6, <2>11
  <2> HIDE DEF q
  <2>15. Stands(text, h, i, u)
    BY <2>10, <2>12, <2>13, <2>14 DEF Stands, n, head, top
  <2>16. Makes(t, e, u) /\ Stands(text, h, From(e), u)
    BY <2>4, <2>15 DEF i
  <2> QED
    BY <2>16
<1>8. CASE e.op = "prepend"
  <2>1. PICK r \in Seq(Line) : t = SubSeq(text, 1, (i + 1) - 1) \o r /\ h[i] \o r = h[n]
    BY <1>6, <1>8
  <2> DEFINE u == Files!Splice(t, i, i - 1, l)
             s == <<text[i]>>
             w == s \o r
             q == l \o w
             head == h[i - 1]
             top == SubSeq(text, 1, i - 1)
  <2>2. s \in Seq(Line)
    BY <1>1 DEF n
  <2>3. head \in Seq(Line) /\ top \in Seq(Line)
    BY <1>1, <1>2 DEF n
  <2>4. SubSeq(text, 1, i) = top \o s
    <3>1. 1 \in 1 .. Len(text) /\ i \in 1 .. Len(text)
      BY <1>1 DEF n
    <3> QED
      BY <3>1, SubSeqRecursiveSecond
  <2>5. parts[i] = l \o s
    <3>1. parts[i] = Files!Piece(text, e, i)
      BY <1>1, <1>4
    <3>2. Files!Piece(text, e, i) = e.lines \o <<text[i]>>
      BY <1>3, <1>8 DEF Files!Piece
    <3> QED
      BY <3>1, <3>2, Zenon DEF l
  <2>6. h[i] = head \o (l \o s)
    BY <1>1, <2>5 DEF Flattens, n
  <2>7. t = (top \o s) \o r /\ (head \o (l \o s)) \o r = h[n]
    BY <1>2, <2>1, <2>4, <2>6
  <2>8. w \in Seq(Line)
    BY <2>2
  <2> HIDE DEF s, head
  <2>9. t = SubSeq(text, 1, i - 1) \o w
    <3> HIDE DEF top
    <3>1. (top \o s) \o r = top \o (s \o r)
      BY <2>2, <2>3, JoinThree
    <3> QED
      BY <2>7, <3>1 DEF top
  <2>10. (head \o (l \o s)) \o r = head \o q
    <3> DEFINE v == l \o s
    <3>1. v \in Seq(Line)
      BY <1>1, <2>2
    <3>2. v \o r = l \o (s \o r)
      BY <1>1, <2>2, JoinThree
    <3> HIDE DEF v
    <3>3. (head \o v) \o r = head \o (v \o r)
      BY <2>3, <3>1, JoinThree
    <3> QED
      BY <3>2, <3>3 DEF v
  <2> HIDE DEF w
  <2>11. i \in 1 .. Len(text) + 1 /\ i \in 1 .. i
    BY <1>1 DEF n
  <2>12. /\ t \in Seq(Line) /\ Len(t) = i - 1 + Len(w)
         /\ u = SubSeq(text, 1, i - 1) \o q
    <3>1. Splices(text, i, w, t, i, l)
      BY <1>1, <2>8, <2>9, <2>11, SpliceAt
    <3> QED
      BY <3>1 DEF Splices
  <2>13. i <= Len(t)
    <3>1. Len(w) = Len(s) + Len(r) /\ Len(s) = 1
      BY <2>2 DEF w, s
    <3> QED
      BY <1>1, <2>12, <3>1
  <2>14. Makes(t, e, u)
    BY <1>1, <1>8, <2>12, <2>13, PrependMakes DEF i, l, n
  <2>15. q \in Seq(Line)
    BY <1>1, <2>8
  <2> HIDE DEF q, u
  <2>16. Stands(text, h, i, u)
    BY <2>7, <2>10, <2>12, <2>15 DEF Stands, n, head
  <2>17. Makes(t, e, u) /\ Stands(text, h, From(e), u)
    BY <2>14, <2>16 DEF i
  <2> QED
    BY <2>17
<1> QED
  BY <1>1, <1>5, <1>7, <1>8

\* The pieces of Meaning.
Parts(text, batch) ==
  [n \in DOMAIN text |->
    IF \E i \in DOMAIN batch : n \in Files!Lines(batch[i])
    THEN Files!Piece(text, batch[CHOOSE i \in DOMAIN batch : n \in Files!Lines(batch[i])], n)
    ELSE <<text[n]>>]

\* The n edits of a batch that was accepted, which are about different lines.
Apart(batch, n, text) ==
  /\ DOMAIN batch = 1 .. n /\ Len(batch) = n
  /\ \A i \in 1 .. n : Fits(batch[i], Len(text))
  /\ Files!Disjoint(batch)

\* A line that no edit is about is its own piece.
Parted(p, text, batch, n) ==
  /\ p = [m \in 1 .. Len(text) |-> p[m]]
  /\ \A m \in 1 .. Len(text) :
       /\ p[m] \in Seq(Line)
       /\ (\A i \in 1 .. n : ~(m \in From(batch[i]) .. To(batch[i]))) => p[m] = <<text[m]>>
  /\ \A i \in 1 .. n : \A m \in From(batch[i]) .. To(batch[i]) : p[m] = Files!Piece(text, batch[i], m)

\* The reference definition is one part for each line.
LEMMA PartsAre ==
  ASSUME NEW text \in Seq(Line), NEW n \in Nat, NEW batch, Apart(batch, n, text)
  PROVE  /\ Files!Meaning(text, batch) = Files!FlattenSeq(Parts(text, batch))
         /\ Parted(Parts(text, batch), text, batch, n)
<1> DEFINE p == Parts(text, batch)
<1>1. Files!Meaning(text, batch) = Files!FlattenSeq(p)
  BY Zenon DEF Files!Meaning, Parts
<1>2. DOMAIN text = 1 .. Len(text) /\ DOMAIN batch = 1 .. n /\ Len(text) \in Nat
  BY DEF Apart
<1>3. p = [m \in 1 .. Len(text) |-> p[m]]
  BY <1>2 DEF Parts
<1>4. \A m \in 1 .. Len(text) :
        p[m] = IF \E i \in 1 .. n : m \in Files!Lines(batch[i])
               THEN Files!Piece(text, batch[CHOOSE i \in 1 .. n : m \in Files!Lines(batch[i])], m)
               ELSE <<text[m]>>
  BY <1>2 DEF Parts
<1>5. \A i \in 1 .. n : Files!Lines(batch[i]) = From(batch[i]) .. To(batch[i])
  BY Zenon DEF Files!Lines, From, To
<1> HIDE DEF p
<1>6. ASSUME NEW i \in 1 .. n, NEW m \in From(batch[i]) .. To(batch[i])
      PROVE  m \in 1 .. Len(text) /\ p[m] = Files!Piece(text, batch[i], m)
  <2>1. Fits(batch[i], Len(text))
    BY DEF Apart
  <2>2. m \in 1 .. Len(text)
    BY <2>1 DEF Fits
  <2> DEFINE j == CHOOSE j \in 1 .. n : m \in Files!Lines(batch[j])
  <2>3. m \in Files!Lines(batch[i])
    BY <1>5
  <2>4. j \in 1 .. n /\ m \in Files!Lines(batch[j])
    BY <2>3
  <2>5. p[m] = Files!Piece(text, batch[j], m)
    BY <1>4, <2>2, <2>3
  <2> HIDE DEF j
  <2>6. j = i
    BY <1>2, <2>3, <2>4 DEF Apart, Files!Disjoint
  <2> QED
    BY <2>2, <2>5, <2>6
<1>7. ASSUME NEW m \in 1 .. Len(text), \A i \in 1 .. n : ~(m \in From(batch[i]) .. To(batch[i]))
      PROVE  p[m] = <<text[m]>>
  <2>1. ~\E i \in 1 .. n : m \in Files!Lines(batch[i])
    BY <1>5, <1>7
  <2> QED
    BY <1>4, <2>1
<1>8. ASSUME NEW m \in 1 .. Len(text) PROVE p[m] \in Seq(Line)
  <2>1. <<text[m]>> \in Seq(Line)
    OBVIOUS
  <2>2. ASSUME NEW i \in 1 .. n, m \in From(batch[i]) .. To(batch[i]) PROVE p[m] \in Seq(Line)
    <3>1. Fits(batch[i], Len(text)) /\ p[m] = Files!Piece(text, batch[i], m)
      BY <1>6, <2>2 DEF Apart
    <3> DEFINE s == <<text[m]>>
               e == batch[i]
    <3>2. e.op \in {"replace", "append", "prepend"} /\ e.lines \in Seq(Line)
      BY <3>1 DEF Fits
    <3>3. s \in Seq(Line) /\ e.lines \o s \in Seq(Line) /\ s \o e.lines \in Seq(Line) /\ <<>> \in Seq(Line)
      BY <3>2
    <3>4. Files!Piece(text, e, m) \in {e.lines \o s, s \o e.lines, s, e.lines, <<>>}
      <4> HIDE DEF e
      <4> QED
        BY <3>2 DEF Files!Piece
    <3> HIDE DEF s
    <3> QED
      BY <3>1, <3>2, <3>3, <3>4
  <2> QED
    BY <1>7, <2>1, <2>2
<1>9. Parted(p, text, batch, n)
  BY <1>3, <1>6, <1>7, <1>8 DEF Parted
<1> QED
  BY <1>1, <1>9 DEF p

\* d is what becomes of a text with one edit after the other.
Performs(d, text, batch, n) ==
  /\ d[0] = Files!Outcome("ok", text) /\ Files!Done(text, batch) = d[n]
  /\ \A k \in 1 .. n : d[k] = Files!Applied(d[k - 1], batch[Files!Order(batch)[k]])

\* What is done is reached one edit at a time, in the order of the batch.
LEMMA DoneSteps ==
  ASSUME NEW text, NEW n \in Nat, NEW batch, Len(batch) = n
  PROVE  \E d : Performs(d, text, batch, n)
<1> DEFINE order == Files!Order(batch)
           start == Files!Outcome("ok", text)
           Eq(h, m) == h = [k \in 0 .. m |-> IF k = 0 THEN start ELSE Files!Applied(h[k - 1], batch[order[k]])]
           P == {m \in Nat : \E h : Eq(h, m)}
           d == CHOOSE h : Eq(h, n)
<1> HIDE DEF order, start
<1>1. 0 \in P
  <2>1. Eq([k \in 0 .. 0 |-> start], 0)
    OBVIOUS
  <2> QED
    BY <2>1
<1>2. ASSUME NEW m \in Nat, m \in P PROVE m + 1 \in P
  <2>1. PICK h : Eq(h, m)
    BY <1>2
  <2> DEFINE g == [k \in 0 .. m + 1 |-> IF k = m + 1 THEN Files!Applied(h[m], batch[order[m + 1]]) ELSE h[k]]
             e == [k \in 0 .. m + 1 |-> IF k = 0 THEN start ELSE Files!Applied(g[k - 1], batch[order[k]])]
  <2>2. ASSUME NEW k \in 0 .. m + 1 PROVE g[k] = e[k]
    <3>1. CASE k = m + 1
      <4>1. m \in 0 .. m + 1 /\ m # m + 1 /\ k # 0 /\ k - 1 = m
        BY <3>1
      <4>2. /\ g[m] = h[m] /\ g[k] = Files!Applied(h[m], batch[order[m + 1]])
            /\ e[k] = Files!Applied(g[k - 1], batch[order[k]])
        BY <3>1, <4>1
      <4> HIDE DEF g, e
      <4> QED
        BY <3>1, <4>1, <4>2
    <3>2. CASE k \in 0 .. m
      <4>1. g[k] = h[k]
        BY <3>2
      <4>2. h[k] = IF k = 0 THEN start ELSE Files!Applied(h[k - 1], batch[order[k]])
        BY <2>1, <3>2
      <4>3. k # 0 => g[k - 1] = h[k - 1]
        BY <3>2
      <4>4. e[k] = IF k = 0 THEN start ELSE Files!Applied(g[k - 1], batch[order[k]])
        OBVIOUS
      <4> HIDE DEF g, e
      <4> QED
        BY <4>1, <4>2, <4>3, <4>4
    <3> QED
      BY <3>1, <3>2
  <2>3. g = e
    <3>1. g = [k \in 0 .. m + 1 |-> g[k]] /\ e = [k \in 0 .. m + 1 |-> e[k]]
      OBVIOUS
    <3> HIDE DEF g, e
    <3> QED
      BY <2>2, <3>1
  <2>4. Eq(g, m + 1)
    <3> HIDE DEF g
    <3> QED
      BY <2>3
  <2> HIDE DEF g, e, Eq
  <2>5. m + 1 \in Nat /\ \E f : Eq(f, m + 1)
    BY <2>4
  <2> QED
    BY <2>5
<1> HIDE DEF P
<1>3. n \in P
  BY <1>1, <1>2, Induction
<1>4. \E h : Eq(h, n)
  BY <1>3 DEF P
<1>5. Eq(d, n)
  BY <1>4
<1>6. Files!Done(text, batch) = d[n]
  BY DEF Files!Done, order, start
<1> HIDE DEF d
<1>7. d[0] = start /\ \A k \in 1 .. n : d[k] = Files!Applied(d[k - 1], batch[order[k]])
  BY <1>5
<1> QED
  BY <1>6, <1>7 DEF Performs, order, start

\* Of two edits the one that comes first is below the other.
LEMMA LaterAbove ==
  ASSUME NEW text, NEW n \in Nat, NEW batch, Apart(batch, n, text),
         NEW order, Sorted(order, batch, n), NEW k \in 1 .. n, NEW l \in 1 .. n, k < l
  PROVE  From(batch[order[k]]) > To(batch[order[l]])
<1> DEFINE e == batch[order[k]]
           f == batch[order[l]]
<1>1. /\ order[k] \in 1 .. n /\ order[l] \in 1 .. n /\ order[k] # order[l]
      /\ Files!Before(batch, order[k], order[l])
  BY DEF Sorted
<1>2. Fits(e, Len(text)) /\ Fits(f, Len(text))
  BY <1>1 DEF Apart
<1>3. ~Files!IsText(e) /\ ~Files!IsText(f)
  BY <1>2 DEF Fits, Files!IsText
<1>4. Files!Key(e) >= Files!Key(f) /\ Files!Key(e) = e.pos.line /\ Files!Key(f) = f.pos.line
      /\ e.pos.line \in Nat /\ f.pos.line \in Nat
  <2>1. Files!Key(e) = e.pos.line /\ Files!Key(f) = f.pos.line
    BY <1>3, Zenon DEF Files!Key
  <2>2. e.pos.line \in Nat /\ f.pos.line \in Nat
    BY <1>2 DEF Fits
  <2>3. Files!Key(e) > Files!Key(f) \/ Files!Key(e) = Files!Key(f)
    BY <1>1 DEF Files!Before
  <2> HIDE DEF e, f
  <2> QED
    BY <2>1, <2>2, <2>3
<1>5. From(e) >= From(f)
  <2> HIDE DEF e, f
  <2> QED
    BY <1>4 DEF From, Files!Index
<1>6. Files!Lines(e) \cap Files!Lines(f) = {}
  BY <1>1 DEF Apart, Files!Disjoint
<1>7. From(e) \in Nat /\ From(f) \in Nat /\ To(e) \in Nat /\ To(f) \in Nat /\ From(e) <= To(e)
  BY <1>2 DEF Fits
<1>8. Files!Lines(e) = From(e) .. To(e) /\ Files!Lines(f) = From(f) .. To(f)
  BY Zenon DEF Files!Lines, From, To
<1> HIDE DEF e, f
<1>9. From(e) > To(f)
  <2>1. From(e) \in From(e) .. To(e)
    BY <1>7
  <2>2. ~(From(e) \in From(f) .. To(f))
    BY <1>6, <1>8, <2>1
  <2> QED
    BY <1>5, <1>7, <2>2
<1> QED
  BY <1>9 DEF e, f

\* The line from which on m edits have been made.
Cut(text, batch, m) == IF m = 0 THEN Len(text) + 1 ELSE From(batch[Files!Order(batch)[m]])

\* After each edit the cut is at a line of the text, or behind the last.
LEMMA CutType ==
  ASSUME NEW text \in Seq(Line), NEW n \in Nat, NEW batch, Apart(batch, n, text), Sorted(Files!Order(batch), batch, n),
         NEW m \in 0 .. n
  PROVE  Cut(text, batch, m) \in 1 .. Len(text) + 1
<1>1. CASE m = 0
  BY <1>1 DEF Cut
<1>2. CASE m \in 1 .. n
  <2>1. Files!Order(batch)[m] \in 1 .. n
    BY <1>2 DEF Sorted
  <2>2. Fits(batch[Files!Order(batch)[m]], Len(text))
    BY <2>1 DEF Apart
  <2> QED
    BY <1>2, <2>2 DEF Cut, Fits
<1> QED
  BY <1>1, <1>2

\* No edit is about the lines between two that follow one another.
LEMMA Untouched ==
  ASSUME NEW text \in Seq(Line), NEW n \in Nat, NEW batch, Apart(batch, n, text), Sorted(Files!Order(batch), batch, n),
         NEW m \in 0 .. n, NEW k \in 1 .. Len(text), k < Cut(text, batch, m),
         m < n => k > To(batch[Files!Order(batch)[m + 1]]), NEW i \in 1 .. n
  PROVE  ~(k \in From(batch[i]) .. To(batch[i]))
<1> DEFINE order == Files!Order(batch)
           F(o) == From(batch[order[o]])
           T(o) == To(batch[order[o]])
<1>1. PICK o \in 1 .. n : order[o] = i
  BY DEF Sorted
<1>2. \A a \in 1 .. n : order[a] \in 1 .. n
  BY DEF Sorted
<1>3. \A a \in 1 .. n : F(a) \in Nat /\ T(a) \in Nat /\ F(a) <= T(a)
  <2> TAKE a \in 1 .. n
  <2>1. Fits(batch[order[a]], Len(text))
    BY <1>2 DEF Apart
  <2> QED
    BY <2>1 DEF Fits
<1>4. \A a, c \in 1 .. n : a < c => F(a) > T(c)
  <2> TAKE a, c \in 1 .. n
  <2> HAVE a < c
  <2> QED
    BY LaterAbove
<1>5. m # 0 => k < F(m) /\ m \in 1 .. n
  BY DEF Cut
<1>6. m < n => k > T(m + 1) /\ m + 1 \in 1 .. n
  OBVIOUS
<1> HIDE DEF order, F, T
<1>7. ~(k \in F(o) .. T(o))
  <2>1. CASE o <= m
    <3>1. m # 0 /\ m \in 1 .. n /\ k < F(m) /\ F(m) \in Nat
      BY <1>3, <1>5, <2>1
    <3>2. o = m \/ F(o) > T(m)
      BY <1>4, <2>1, <3>1
    <3> QED
      BY <1>3, <3>1, <3>2
  <2>2. CASE o > m
    <3>1. m < n /\ m + 1 \in 1 .. n /\ k > T(m + 1)
      BY <1>6, <2>2
    <3>2. o = m + 1 \/ m + 1 < o
      BY <2>2
    <3>3. o = m + 1 \/ F(m + 1) > T(o)
      BY <1>4, <3>1, <3>2
    <3> QED
      BY <1>3, <3>1, <3>3
  <2> QED
    BY <2>1, <2>2
<1> QED
  BY <1>1, <1>7 DEF F, T

\* A text that stands for what is meant from line c on.
Reaches(done, text, h, c) == \E t : done = Files!Outcome("ok", t) /\ Stands(text, h, c, t)

\* Edits of different lines make what the batch means.
LEMMA DoneMeans ==
  ASSUME NEW text \in Seq(Line), NEW n \in Nat, NEW batch, Apart(batch, n, text)
  PROVE  Files!Done(text, batch) = Files!Outcome("ok", Files!Meaning(text, batch))
<1> DEFINE order == Files!Order(batch)
           parts == Parts(text, batch)
           N == Len(text)
<1>1. Sorted(order, batch, n)
  <2>1. ASSUME NEW i \in 1 .. n PROVE Files!Key(batch[i]) \in Nat
    <3>1. Fits(batch[i], Len(text))
      BY DEF Apart
    <3> QED
      BY <3>1 DEF Fits, Files!Key, Files!IsText
  <2> QED
    BY <2>1, OrderSorts DEF Apart
<1>2. Parted(parts, text, batch, n) /\ Files!Meaning(text, batch) = Files!FlattenSeq(parts)
  BY PartsAre
<1> HIDE DEF parts
<1>3. N \in Nat
  OBVIOUS
<1>4. PICK h : Flattens(h, parts, N)
  <2>1. parts = [k \in 1 .. N |-> parts[k]] /\ \A k \in 1 .. N : parts[k] \in Seq(Line)
    BY <1>2 DEF Parted
  <2> QED
    BY <1>3, <2>1, FlattenSteps
<1>5. \A k \in 0 .. N : h[k] \in Seq(Line)
  <2>1. \A k \in 1 .. N : parts[k] \in Seq(Line)
    BY <1>2 DEF Parted
  <2> QED
    BY <1>3, <1>4, <2>1, FlattenType
<1>6. PICK d : Performs(d, text, batch, n)
  BY DoneSteps DEF Apart
<1>7. ASSUME NEW m \in 0 .. n, NEW t, NEW c \in 1 .. N, c <= Cut(text, batch, m),
             m < n => c > To(batch[order[m + 1]]), Stands(text, h, Cut(text, batch, m), t)
      PROVE  Stands(text, h, c, t)
  <2> DEFINE b == Cut(text, batch, m)
  <2>1. b \in 1 .. N + 1
    BY <1>1, CutType
  <2>2. ASSUME NEW k \in c .. b - 1 PROVE parts[k] = <<text[k]>>
    <3>1. k \in 1 .. Len(text) /\ k < b
      BY <2>1
    <3>2. m < n => k > To(batch[order[m + 1]])
      <4> SUFFICES ASSUME m < n PROVE k > To(batch[order[m + 1]])
        OBVIOUS
      <4>1. order[m + 1] \in 1 .. n
        BY <1>1 DEF Sorted
      <4>2. Fits(batch[order[m + 1]], Len(text))
        BY <4>1 DEF Apart
      <4>3. To(batch[order[m + 1]]) \in Nat /\ c > To(batch[order[m + 1]])
        BY <1>7, <4>2 DEF Fits
      <4> QED
        BY <4>3
    <3>3. \A i \in 1 .. n : ~(k \in From(batch[i]) .. To(batch[i]))
      BY <1>1, <3>1, <3>2, Untouched
    <3> QED
      BY <1>2, <3>1, <3>3 DEF Parted
  <2> HIDE DEF b
  <2>3. c \in 1 .. b /\ b \in 1 .. Len(text) + 1 /\ Stands(text, h, b, t)
    BY <1>7, <2>1 DEF b
  <2> QED
    BY <1>4, <1>5, <2>2, <2>3, StandsDown
<1> DEFINE P == {m \in Nat : m <= n => Reaches(d[m], text, h, Cut(text, batch, m))}
<1>8. 0 \in P
  <2>1. d[0] = Files!Outcome("ok", text) /\ Cut(text, batch, 0) = Len(text) + 1
    BY <1>6 DEF Performs, Cut
  <2>2. Stands(text, h, Len(text) + 1, text)
    BY <1>3, <1>4, <1>5, StandsEnds DEF Flattens
  <2>3. Reaches(d[0], text, h, Cut(text, batch, 0))
    BY <2>1, <2>2 DEF Reaches
  <2> QED
    BY <2>3
<1>9. ASSUME NEW m \in Nat, m \in P PROVE m + 1 \in P
  <2> SUFFICES ASSUME m + 1 <= n PROVE Reaches(d[m + 1], text, h, Cut(text, batch, m + 1))
    OBVIOUS
  <2>1. m \in 0 .. n /\ m < n /\ m + 1 \in 1 .. n /\ (m + 1) - 1 = m /\ m + 1 # 0
    OBVIOUS
  <2>2. PICK t : d[m] = Files!Outcome("ok", t) /\ Stands(text, h, Cut(text, batch, m), t)
    BY <1>9, <2>1 DEF Reaches
  <2> DEFINE e == batch[order[m + 1]]
             c == To(e) + 1
  <2>3. order[m + 1] \in 1 .. n
    BY <1>1, <2>1 DEF Sorted
  <2>4. Fits(e, Len(text))
    BY <2>3 DEF Apart
  <2>5. To(e) \in 1 .. N /\ From(e) \in 1 .. N
    BY <2>4 DEF Fits
  <2>6. c <= Cut(text, batch, m)
    <3>1. CASE m = 0
      BY <2>5, <3>1 DEF Cut
    <3>2. CASE m # 0
      <4>1. m \in 1 .. n /\ m < m + 1
        BY <2>1, <3>2
      <4>2. From(batch[order[m]]) > To(batch[order[m + 1]])
        BY <1>1, <2>1, <4>1, LaterAbove
      <4>3. Cut(text, batch, m) = From(batch[order[m]])
        BY <3>2, Zenon DEF Cut
      <4>4. Cut(text, batch, m) \in 1 .. N + 1
        BY <1>1, <2>1, CutType
      <4> HIDE DEF order
      <4> QED
        BY <2>5, <4>2, <4>3, <4>4
    <3> QED
      BY <3>1, <3>2
  <2>7. Stands(text, h, c, t)
    <3>1. CASE c \in 1 .. N
      <4>1. c > To(batch[order[m + 1]])
        BY <2>5
      <4> HIDE DEF c, e
      <4> QED
        BY <1>7, <2>1, <2>2, <2>6, <3>1, <4>1
    <3>2. CASE c = N + 1
      <4>1. Cut(text, batch, m) \in 1 .. N + 1
        BY <1>1, <2>1, CutType
      <4>2. Cut(text, batch, m) = c
        <5> HIDE DEF c
        <5> QED
          BY <1>3, <2>6, <3>2, <4>1
      <4> QED
        BY <2>2, <4>2
    <3> QED
      BY <2>5, <3>1, <3>2
  <2>8. \A k \in From(e) .. To(e) : parts[k] = Files!Piece(text, e, k)
    BY <1>2, <2>3 DEF Parted
  <2>9. d[m + 1] = Files!Applied(d[m], e)
    BY <1>6, <2>1 DEF Performs
  <2> HIDE DEF e
  <2>10. PICK u : Makes(t, e, u) /\ Stands(text, h, From(e), u)
    BY <1>4, <1>5, <2>4, <2>7, <2>8, EditStands
  <2>11. d[m + 1] = Files!Outcome("ok", u)
    BY <2>2, <2>9, <2>10 DEF Makes
  <2>12. Cut(text, batch, m + 1) = From(e)
    BY <2>1, Zenon DEF Cut, e
  <2> QED
    BY <2>10, <2>11, <2>12 DEF Reaches
<1> HIDE DEF P
<1>10. Nat \subseteq P
  BY <1>8, <1>9, Induction
<1>11. PICK t : d[n] = Files!Outcome("ok", t) /\ Stands(text, h, Cut(text, batch, n), t)
  BY <1>10 DEF P, Reaches
<1>12. Stands(text, h, 1, t)
  <2>1. CASE N = 0
    <3>1. n = 0
      <4> SUFFICES ASSUME n # 0 PROVE FALSE
        OBVIOUS
      <4>1. 1 \in 1 .. n
        OBVIOUS
      <4>2. Fits(batch[1], 0)
        BY <2>1, <4>1 DEF Apart
      <4> QED
        BY <4>2 DEF Fits
    <3>2. Cut(text, batch, n) = 1
      BY <2>1, <3>1 DEF Cut
    <3> QED
      BY <1>11, <3>2
  <2>2. CASE N # 0
    <3>1. 1 \in 1 .. N /\ n \in 0 .. n /\ ~(n < n)
      BY <1>3, <2>2
    <3>2. Cut(text, batch, n) \in 1 .. N + 1
      BY <1>1, <3>1, CutType
    <3> QED
      BY <1>7, <1>11, <3>1, <3>2
  <2> QED
    BY <2>1, <2>2
<1>13. t = h[N]
  <2>1. h[0] = <<>> /\ h[Len(text)] \in Seq(Line)
    BY <1>3, <1>4, <1>5 DEF Flattens
  <2> QED
    BY <1>12, <2>1, StandsEnds
<1>14. Files!Meaning(text, batch) = h[N]
  BY <1>2, <1>4 DEF Flattens
<1> QED
  BY <1>6, <1>11, <1>13, <1>14 DEF Performs

-----------------------------------------------------------------------------
(* Batches as they are made of a plan and a text that was seen.            *)

\* An anchor that was made of a text that was seen.
Cited(anchor, seen) ==
  anchor # NoAnchor => anchor.line \in Nat /\ anchor.hash = Files!Around(seen, Files!Index(anchor))

EditOf(e, seen) ==
  \/ e.op = "replace_text" /\ e.old \in Seq(Char) /\ e.new \in Seq(Char)
  \/ /\ e.op \in {"replace", "append", "prepend"} /\ e.lines \in Seq(Line)
     /\ Cited(e.pos, seen) /\ Cited(e.end, seen)

BatchOf(batch, seen) == /\ Len(batch) \in Nat /\ DOMAIN batch = 1 .. Len(batch)
                        /\ \A i \in 1 .. Len(batch) : EditOf(batch[i], seen)

\* An anchor is copied from a line of the text its author saw.
LEMMA CiteCites ==
  ASSUME NEW n \in {NoAnchor} \cup Nat, NEW seen
  PROVE  Cited(Files!Cite(n, seen), Files!LinesOf(seen))
<1>1. CASE n = NoAnchor
  BY <1>1 DEF Files!Cite, Cited
<1>2. CASE n # NoAnchor
  <2> DEFINE m == IF n = 0 THEN 1 ELSE n
             text == Files!LinesOf(seen)
             c == [line |-> n, hash |-> Files!Anchor(text, m).hash]
  <2>1. Files!Cite(n, seen) = c
    BY <1>2, Zenon DEF Files!Cite
  <2>2. c.line = n /\ c.hash = Files!Around(text, m) /\ Files!Index(c) = m
    BY DEF Files!Anchor, Files!Index
  <2> QED
    BY <1>2, <2>1, <2>2 DEF Cited
<1> QED
  BY <1>1, <1>2

\* A batch is its plan with anchors in place of numbers.
LEMMA BatchIs ==
  ASSUME NEW plan \in Seq(Files!Edits(Char)), NEW seen
  PROVE  BatchOf(Files!Batch(plan, seen), Files!LinesOf(seen))
<1> DEFINE text == Files!LinesOf(seen)
           batch == Files!Batch(plan, seen)
           E(e) == IF Files!IsText(e) THEN e
                   ELSE [e EXCEPT !.pos = Files!Cite(@, seen), !.end = Files!Cite(@, seen)]
<1>1. batch = [i \in DOMAIN plan |-> E(plan[i])]
  BY DEF Files!Batch
<1>2. ASSUME NEW e \in Files!Edits(Char) PROVE EditOf(E(e), text)
  <2>1. CASE Files!IsText(e)
    <3>1. E(e) = e
      BY <2>1
    <3>2. e.op = "replace_text" /\ e.old \in Seq(Char) /\ e.new \in Seq(Char)
      BY <2>1 DEF Files!Edits, Files!IsText
    <3> QED
      BY <3>1, <3>2 DEF EditOf
  <2>2. CASE ~Files!IsText(e)
    <3>1. e \in [op : {"replace", "append", "prepend"}, pos : {NoAnchor} \cup Nat, end : {NoAnchor} \cup Nat,
                 lines : Seq(Line)]
      BY <2>2 DEF Files!Edits, Files!IsText, Line
    <3> DEFINE c == Files!Cite(e.pos, seen)
               d == Files!Cite(e.end, seen)
               f == [e EXCEPT !.pos = c, !.end = d]
    <3>2. E(e) = f
      BY <2>2, <3>1
    <3>3. Cited(c, text) /\ Cited(d, text)
      BY <3>1, CiteCites
    <3> HIDE DEF c, d, E
    <3>4. f.op = e.op /\ f.lines = e.lines /\ f.pos = c /\ f.end = d
      BY <3>1
    <3> HIDE DEF f
    <3>5. EditOf(f, text)
      BY <3>1, <3>3, <3>4 DEF EditOf
    <3> QED
      BY <3>2, <3>5
  <2> QED
    BY <2>1, <2>2
<1> HIDE DEF E, batch
<1>3. Len(plan) \in Nat /\ DOMAIN plan = 1 .. Len(plan) /\ \A i \in 1 .. Len(plan) : plan[i] \in Files!Edits(Char)
  OBVIOUS
<1>4. DOMAIN batch = 1 .. Len(plan) /\ Len(batch) = Len(plan)
  <2>1. batch = [i \in 1 .. Len(plan) |-> E(plan[i])]
    BY <1>1, <1>3
  <2>2. batch \in Seq({E(plan[i]) : i \in 1 .. Len(plan)})
    BY <1>3, <2>1
  <2> QED
    BY <1>3, <2>1, <2>2
<1>5. \A i \in 1 .. Len(plan) : EditOf(batch[i], text)
  BY <1>1, <1>2, <1>3
<1> QED
  BY <1>3, <1>4, <1>5 DEF BatchOf, batch

\* An edit that was accepted fits, and names lines of the text.
LEMMA ValidFits ==
  ASSUME NEW text \in Seq(Line), NEW seen, NEW e, EditOf(e, seen), ~Files!IsText(e), Files!Valid(e, text)
  PROVE  Fits(e, Len(text))
<1>1. /\ e.op \in {"replace", "append", "prepend"} /\ e.lines \in Seq(Line)
      /\ Cited(e.pos, seen) /\ Cited(e.end, seen)
  BY DEF EditOf, Files!IsText
<1>2. e.pos # NoAnchor /\ \A a \in {e.pos, e.end} \ {NoAnchor} : Files!Verified(a, text)
  BY DEF Files!Valid, Files!Anchors
<1>3. Files!EndOf(e).line >= e.pos.line
  BY DEF Files!Valid
<1>4. e.pos.line \in Nat /\ Files!Index(e.pos) <= Len(text)
  BY <1>1, <1>2 DEF Cited, Files!Verified
<1>5. Files!EndOf(e).line \in Nat /\ Files!Index(Files!EndOf(e)) <= Len(text)
  BY <1>1, <1>2, <1>4 DEF Cited, Files!Verified, Files!EndOf
<1> DEFINE c == e.pos
           d == Files!EndOf(e)
<1>6. From(e) = Files!Index(c) /\ To(e) = Files!Index(d)
  BY Zenon DEF From, To
<1>7. Files!Index(c) \in 1 .. Len(text) /\ Files!Index(d) \in Files!Index(c) .. Len(text)
  <2>1. /\ c.line \in Nat /\ d.line \in Nat /\ d.line >= c.line
        /\ Files!Index(c) <= Len(text) /\ Files!Index(d) <= Len(text)
    BY <1>3, <1>4, <1>5
  <2> HIDE DEF c, d
  <2> QED
    BY <2>1 DEF Files!Index
<1> QED
  BY <1>1, <1>4, <1>6, <1>7 DEF Fits

\* The hash of a valid anchor is the one its author saw.
LEMMA ValidSeen ==
  ASSUME NEW text \in Seq(Line), NEW seen, NEW e, EditOf(e, seen), Files!Valid(e, text),
         NEW a \in Files!Anchors(e)
  PROVE  /\ Files!Index(a) \in DOMAIN text
         /\ Files!Around(text, Files!Index(a)) = Files!Around(seen, Files!Index(a))
<1>1. ~Files!IsText(e) /\ a \in {e.pos, e.end} /\ a # NoAnchor
  BY DEF Files!Anchors
<1>2. Cited(a, seen) /\ Files!Verified(a, text)
  BY <1>1 DEF EditOf, Files!IsText, Files!Valid
<1>3. a.line \in Nat /\ Files!Index(a) <= Len(text)
  BY <1>1, <1>2 DEF Cited, Files!Verified
<1>4. Files!Index(a) \in DOMAIN text
  BY <1>3 DEF Files!Index
<1>5. Files!Around(text, Files!Index(a)) = Files!Around(seen, Files!Index(a))
  BY <1>1, <1>2 DEF Cited, Files!Verified
<1> QED
  BY <1>4, <1>5

\* An edit that is made leaves a text.
LEMMA AppliedType ==
  ASSUME NEW done, done.text \in Seq(Line), NEW e, NEW n \in Nat,
         (Files!IsText(e) /\ e.old \in Seq(Char) /\ e.new \in Seq(Char)) \/ Fits(e, n)
  PROVE  Files!Applied(done, e).text \in Seq(Line)
<1> DEFINE t == done.text
           q == Files!Applied(done, e)
<1>1. ASSUME NEW i \in 1 .. Len(t) + 1, NEW j \in i - 1 .. Len(t), NEW l \in Seq(Line)
      PROVE  Files!Splice(t, i, j, l) \in Seq(Line)
  BY SpliceType
<1>2. \A status, text : Files!Outcome(status, text).text = text
  BY DEF Files!Outcome
<1>3. CASE done.status # "ok"
  BY <1>3 DEF Files!Applied
<1>4. CASE done.status = "ok" /\ Files!IsText(e) /\ e.old \in Seq(Char) /\ e.new \in Seq(Char)
  <2> DEFINE whole == Files!Joined(t)
             new == Files!Substituted(whole, e.old, e.new)
  <2>1. q = Files!Outcome("ok", Files!LinesOf(new))
    BY <1>4 DEF Files!Applied, Files!IsText
  <2>2. whole \in Seq(Char)
    <3>1. t \in Seq(Line)
      OBVIOUS
    <3> HIDE DEF t
    <3>2. \A content \in Seq(Char) : whole \in Seq(Char)
      BY <3>1, JoinedType
    <3>3. <<>> \in Seq(Char)
      OBVIOUS
    <3> QED
      BY <3>2, <3>3
  <2> HIDE DEF whole
  <2>3. new \in Seq(Char)
    BY <1>4, <2>2, SubstitutedType
  <2> HIDE DEF new, q
  <2>4. Files!LinesOf(new) \in Seq(Line)
    BY <2>3, LinesType
  <2> QED
    BY <1>2, <2>1, <2>4 DEF q
<1>5. CASE done.status = "ok" /\ Fits(e, n)
  <2> DEFINE i == From(e)
             j == To(e)
             l == e.lines
  <2>1. /\ i \in Nat /\ i >= 1 /\ j \in Nat /\ l \in Seq(Line)
        /\ ~Files!IsText(e) /\ e.op \in {"replace", "append", "prepend"}
    BY <1>5 DEF Fits, Files!IsText
  <2>2. CASE e.op = "replace"
    <3>1. q = IF j > Len(t) \/ i > j THEN Files!Outcome("rejected", t)
              ELSE Files!Outcome("ok", Files!Splice(t, i, j, l))
      BY <1>5, <2>1, <2>2 DEF Files!Applied, From, To
    <3>2. ~(j > Len(t) \/ i > j) => i \in 1 .. Len(t) + 1 /\ j \in i - 1 .. Len(t)
      BY <2>1
    <3> HIDE DEF i, j, l, q
    <3>3. ~(j > Len(t) \/ i > j) => Files!Splice(t, i, j, l) \in Seq(Line)
      BY <1>1, <2>1, <3>2
    <3> QED
      BY <1>2, <3>1, <3>3 DEF q
  <2>3. CASE e.op = "append"
    <3> DEFINE at == IF i >= Len(t) THEN Len(t) ELSE i
    <3>1. q = IF t = <<>> THEN Files!Outcome("panicked", t) ELSE Files!Outcome("ok", Files!Splice(t, at + 1, at, l))
      BY <1>5, <2>1, <2>3 DEF Files!Applied, From
    <3>2. at + 1 \in 1 .. Len(t) + 1 /\ at \in (at + 1) - 1 .. Len(t)
      BY <2>1
    <3> HIDE DEF i, l, q, at
    <3>3. Files!Splice(t, at + 1, at, l) \in Seq(Line)
      BY <1>1, <2>1, <3>2
    <3> QED
      BY <1>2, <3>1, <3>3 DEF q
  <2>4. CASE e.op = "prepend"
    <3>1. q = IF i > Len(t) + 1 THEN IF l = <<>> THEN done ELSE Files!Outcome("panicked", t)
              ELSE Files!Outcome("ok", Files!Splice(t, i, i - 1, l))
      BY <1>5, <2>1, <2>4 DEF Files!Applied, From
    <3>2. ~(i > Len(t) + 1) => i \in 1 .. Len(t) + 1 /\ i - 1 \in i - 1 .. Len(t)
      BY <2>1
    <3> HIDE DEF i, l, q
    <3>3. ~(i > Len(t) + 1) => Files!Splice(t, i, i - 1, l) \in Seq(Line)
      BY <1>1, <2>1, <3>2
    <3> QED
      BY <1>2, <3>1, <3>3 DEF q
  <2> QED
    BY <2>1, <2>2, <2>3, <2>4
<1> QED
  BY <1>3, <1>4, <1>5

\* What the edit tool makes of an accepted batch.
Meant(content, batch, seen) ==
  LET text == Files!LinesOf(content)
      made == Files!Edited(content, batch)
  IN  /\ made.status = "ok" =>
           /\ made.text \in Seq(Char)
           /\ \A i \in 1 .. Len(batch) : Files!Valid(batch[i], text)
           /\ Files!Disjoint(batch) => made.text = Files!Joined(Files!Meaning(text, batch)) \o Files!Ending(content)
      /\ Files!Disjoint(batch) => made.status # "panicked"

\* What the tool makes of a batch, as its author means it.
LEMMA EditedMeans ==
  ASSUME NEW content \in Seq(Char), NEW seen, NEW batch, BatchOf(batch, seen)
  PROVE  Meant(content, batch, seen)
<1> DEFINE n == Len(batch)
           text == Files!LinesOf(content)
           done == Files!Done(text, batch)
           whole == Files!Joined(done.text) \o Files!Ending(content)
           made == Files!Edited(content, batch)
<1>0. text \in Seq(Line)
  BY LinesType
<1>1. n \in Nat /\ DOMAIN batch = 1 .. n /\ \A i \in 1 .. n : EditOf(batch[i], seen)
  BY DEF BatchOf
<1>2. \A status, t : Files!Outcome(status, t).status = status /\ Files!Outcome(status, t).text = t
  BY DEF Files!Outcome
<1>3. CASE made = Files!Outcome("rejected", content)
  <2> HIDE DEF made
  <2> QED
    BY <1>2, <1>3 DEF Meant, made
<1>4. ASSUME made # Files!Outcome("rejected", content)
      PROVE  /\ \A i \in 1 .. n : Files!Valid(batch[i], text)
             /\ made = IF done.status # "ok" THEN Files!Outcome(done.status, content)
                       ELSE Files!Outcome(IF whole = content THEN "noop" ELSE "ok", whole)
  BY <1>1, <1>4 DEF Files!Edited
<1> HIDE DEF text
<1>5. ASSUME made # Files!Outcome("rejected", content) PROVE Meant(content, batch, seen)
  <2>1. \A i \in 1 .. n : ~Files!IsText(batch[i]) => Fits(batch[i], Len(text))
    BY <1>0, <1>1, <1>4, <1>5, ValidFits
  <2>2. ASSUME Files!Disjoint(batch) PROVE done = Files!Outcome("ok", Files!Meaning(text, batch))
    <3>1. \A i \in 1 .. n : ~Files!IsText(batch[i])
      BY <1>1, <2>2 DEF Files!Disjoint
    <3>2. Apart(batch, n, text)
      BY <1>1, <2>1, <2>2, <3>1 DEF Apart
    <3> QED
      BY <1>0, <1>1, <3>2, DoneMeans
  <2>3. done.text \in Seq(Line)
    <3>1. ASSUME NEW i \in 1 .. n PROVE Files!Key(batch[i]) \in Nat
      BY <2>1 DEF Files!Key, Fits
    <3>2. Sorted(Files!Order(batch), batch, n)
      BY <1>1, <3>1, OrderSorts
    <3>3. PICK d : Performs(d, text, batch, n)
      BY <1>1, DoneSteps
    <3> DEFINE P == {m \in Nat : m <= n => d[m].text \in Seq(Line)}
    <3>4. 0 \in P
      <4>1. d[0].text = text
        BY <1>2, <3>3 DEF Performs
      <4> QED
        BY <1>0, <4>1
    <3>5. ASSUME NEW m \in Nat, m \in P PROVE m + 1 \in P
      <4> SUFFICES ASSUME m + 1 <= n PROVE d[m + 1].text \in Seq(Line)
        OBVIOUS
      <4>1. m + 1 \in 1 .. n /\ (m + 1) - 1 = m /\ m <= n
        BY <1>1
      <4> DEFINE e == batch[Files!Order(batch)[m + 1]]
      <4>2. d[m + 1] = Files!Applied(d[m], e) /\ d[m].text \in Seq(Line)
        BY <3>3, <3>5, <4>1 DEF Performs
      <4>3. Files!Order(batch)[m + 1] \in 1 .. n
        BY <3>2, <4>1 DEF Sorted
      <4>4. (Files!IsText(e) /\ e.old \in Seq(Char) /\ e.new \in Seq(Char)) \/ Fits(e, Len(text))
        BY <1>1, <2>1, <4>3 DEF EditOf, Files!IsText
      <4> HIDE DEF e
      <4>5. Len(text) \in Nat
        BY <1>0
      <4> QED
        BY <4>2, <4>4, <4>5, AppliedType
    <3> HIDE DEF P
    <3>6. n \in P
      BY <1>1, <3>4, <3>5, Induction
    <3>7. d[n].text \in Seq(Line)
      BY <1>1, <3>6 DEF P
    <3> QED
      BY <3>3, <3>7 DEF Performs
  <2>4. whole \in Seq(Char)
    BY <2>3, JoinedType
  <2>5. /\ \A i \in 1 .. n : Files!Valid(batch[i], text)
        /\ made = IF done.status # "ok" THEN Files!Outcome(done.status, content)
                  ELSE Files!Outcome(IF whole = content THEN "noop" ELSE "ok", whole)
    BY <1>4, <1>5
  <2>6. Files!Disjoint(batch) => done.status = "ok" /\ done.text = Files!Meaning(text, batch)
    BY <1>2, <2>2
  <2>7. Files!Disjoint(batch) => whole = Files!Joined(Files!Meaning(text, batch)) \o Files!Ending(content)
    BY <2>6
  <2> HIDE DEF made, done, whole
  <2>8. made.status = "ok" => made.text = whole
    BY <1>2, <2>5
  <2>9. Files!Disjoint(batch) => made.status # "panicked"
    BY <1>2, <2>5, <2>6
  <2> QED
    BY <2>4, <2>5, <2>7, <2>8, <2>9 DEF Meant, made, text
<1> QED
  BY <1>3, <1>5

-----------------------------------------------------------------------------
(* What a call of edit has made.                                           *)

\* What is known of a call: an edit's text is what the tool makes of the text
\* it has read.
CallOK(c) ==
  /\ base[c] = Nothing \/ base[c] \in Seq(Char)
  /\ filePc[c] \in {"new", "load"} => base[c] = Nothing /\ out[c] = Nothing
  /\ filePc[c] \in {"open", "write", "rename"} => out[c] \in Seq(Char)
  /\ Files!IsEdit(c) =>
       LET made == Files!Edited(base[c], request[c].batch)
       IN  /\ BatchOf(request[c].batch, Files!LinesOf(request[c].seen))
           /\ out[c] # Nothing => base[c] \in Seq(Char) /\ made.status = "ok" /\ out[c] = made.text
           /\ fileVerdict[c] = "panicked" => base[c] \in Seq(Char) /\ made.status = "panicked"

TextsOK ==
  /\ \A i \in Files!Inodes : data[i] \in Seq(Char)
  /\ known \subseteq Seq(Char)
  /\ base = [c \in Calls |-> base[c]]

\* The strengthening of EditMeaning.
EditInv == FileInv /\ TextsOK /\ \A c \in Calls : CallOK(c)

\* It holds at the start.
LEMMA InitEdit == Init => EditInv
<1> SUFFICES ASSUME Init PROVE EditInv
  OBVIOUS
<1>1. Files!Init /\ FileInv
  BY InitFile DEF Init
<1>2. TextsOK
  <2>1. PICK t \in Texts \cup {Nothing} :
          /\ data = [i \in Files!Inodes |-> IF i = "first" /\ t # Nothing THEN t ELSE <<>>]
          /\ known = {t} \ {Nothing, <<>>}
    BY <1>1 DEF Files!Init
  <2>2. t = Nothing \/ t \in Seq(Char)
    BY TextsAssumption
  <2>3. <<>> \in Seq(Char) /\ base = [c \in Calls |-> Nothing]
    BY <1>1 DEF Files!Init
  <2> QED
    BY <2>1, <2>2, <2>3 DEF TextsOK
<1>3. ASSUME NEW c \in Calls PROVE CallOK(c)
  BY <1>1 DEF Files!Init, CallOK, Files!IsEdit
<1> QED
  BY <1>1, <1>2, <1>3 DEF EditInv

\* A call that does nothing stays as it is.
LEMMA SameCall ==
  ASSUME NEW d \in Calls, CallOK(d), filePc'[d] = filePc[d], request'[d] = request[d], base'[d] = base[d],
         out'[d] = out[d], fileVerdict'[d] = fileVerdict[d]
  PROVE  CallOK(d)'
  BY DEF CallOK, Files!IsEdit

\* Requests are made of texts and plans.
LEMMA SubmitEdit ==
  ASSUME EditInv, NEW c \in Calls, NEW r \in Files!Requests, Files!Submit(c, r)
  PROVE  TextsOK' /\ \A d \in Calls : CallOK(d)'
<1>0. FileOK /\ TextsOK /\ \A d \in Calls : CallOK(d)
  BY DEF EditInv, FileInv
<1>1. /\ filePc[c] = "new" /\ filePc' = [filePc EXCEPT ![c] = IF r.tool = "write" THEN "open" ELSE "load"]
      /\ request' = [request EXCEPT ![c] = r] /\ out' = [out EXCEPT ![c] = r.text]
      /\ UNCHANGED <<data, base, fileVerdict, known>>
  BY DEF Files!Submit, Files!Goto, Files!fileVars
<1>2. TextsOK'
  BY <1>0, <1>1 DEF TextsOK
<1>3. filePc'[c] = (IF r.tool = "write" THEN "open" ELSE "load") /\ request'[c] = r /\ out'[c] = r.text
      /\ base'[c] = Nothing /\ fileVerdict'[c] = fileVerdict[c] /\ fileVerdict[c] # "panicked"
  BY <1>0, <1>1 DEF FileOK, CallOK
<1>4. CASE r.tool = "read"
  <2>1. r.text = Nothing
    BY <1>4 DEF Files!Requests, Files!Request
  <2> QED
    BY <1>0, <1>1, <1>2, <1>3, <1>4, <2>1, SameCall DEF CallOK, Files!IsEdit, FileOK
<1>5. CASE r.tool = "write"
  <2>1. r.text \in Seq(Char)
    BY <1>5, TextsAssumption DEF Files!Requests, Files!Request
  <2> QED
    BY <1>0, <1>1, <1>2, <1>3, <1>5, <2>1, SameCall DEF CallOK, Files!IsEdit, FileOK
<1>6. CASE r.tool = "edit"
  <2>1. PICK p \in Plans, s \in known : r = Files!Request("edit", Nothing, s, Files!Batch(p, s))
    BY <1>6 DEF Files!Requests, Files!Request
  <2>2. r.text = Nothing /\ r.seen = s /\ r.batch = Files!Batch(p, s)
    BY <2>1 DEF Files!Request
  <2>3. p \in Seq(Files!Edits(Char))
    BY TextsAssumption
  <2>4. BatchOf(r.batch, Files!LinesOf(r.seen))
    BY <2>2, <2>3, BatchIs
  <2>5. CallOK(c)'
    BY <1>3, <1>6, <2>2, <2>4 DEF CallOK, Files!IsEdit
  <2>6. ASSUME NEW d \in Calls \ {c} PROVE CallOK(d)'
    BY <1>0, <1>1, SameCall DEF FileOK
  <2> QED
    BY <1>2, <2>5, <2>6
<1>7. r.tool \in {"read", "write", "edit"}
  BY DEF Files!Requests, Files!Request
<1> QED
  BY <1>4, <1>5, <1>6, <1>7

\* The edit is computed of what is read.
LEMMA LoadEdit ==
  ASSUME EditInv, NEW c \in Calls, Files!Load(c)
  PROVE  TextsOK' /\ CallOK(c)'
<1>0. FileOK /\ TextsOK /\ CallOK(c)
  BY DEF EditInv, FileInv
<1> DEFINE text == Files!Contents("file")
           made == Files!Edited(text, request[c].batch)
           done == IF text = Nothing THEN Files!Outcome("failed", text)
                   ELSE IF Files!IsEdit(c) THEN made ELSE Files!Outcome("read", text)
           goes == done.status = "ok" /\ c \notin cancelled
<1>1. text = Nothing \/ text \in Seq(Char)
  BY <1>0 DEF FileOK, TextsOK, Files!Contents
<1>2. /\ filePc[c] = "load" /\ UNCHANGED <<inode, data, request, fd, cancelled, met>>
      /\ base' = [base EXCEPT ![c] = text]
      /\ goes => /\ filePc' = [filePc EXCEPT ![c] = "open"]
                 /\ out' = [out EXCEPT ![c] = done.text]
                 /\ UNCHANGED fileVerdict
      /\ ~goes => /\ filePc' = [filePc EXCEPT ![c] = "done"] /\ UNCHANGED out
                  /\ fileVerdict' = [fileVerdict EXCEPT ![c] = IF c \in cancelled THEN "cancelled" ELSE done.status]
      /\ known' = IF done.status = "read" /\ c \notin cancelled THEN known \cup ({text} \ {<<>>}) ELSE known
  BY DEF Files!Load, Files!End, Files!fileVars
<1>3. text = Nothing => done.status = "failed"
  BY DEF Files!Outcome
<1>4. text # Nothing /\ ~Files!IsEdit(c) => done.status = "read"
  BY DEF Files!Outcome
<1>5. text # Nothing /\ Files!IsEdit(c) => done = made
  OBVIOUS
<1>6. Files!IsEdit(c) => BatchOf(request[c].batch, Files!LinesOf(request[c].seen))
  BY <1>0 DEF CallOK
<1>7. Files!IsEdit(c) /\ text # Nothing => (made.status = "ok" => made.text \in Seq(Char))
  BY <1>1, <1>6, EditedMeans DEF Meant
<1> HIDE DEF text, made, done
<1>8. TextsOK'
  <2>1. known' \subseteq Seq(Char)
    BY <1>0, <1>1, <1>2, <1>3 DEF TextsOK
  <2> QED
    BY <1>0, <1>2, <2>1 DEF TextsOK
<1>9. base'[c] = text /\ filePc'[c] = (IF goes THEN "open" ELSE "done") /\ request'[c] = request[c]
      /\ out'[c] = (IF goes THEN done.text ELSE Nothing)
      /\ fileVerdict'[c] \in {"none", "cancelled", done.status}
      /\ (fileVerdict'[c] = "panicked" => done.status = "panicked")
  BY <1>0, <1>2 DEF FileOK, TextsOK, CallOK
<1>10. Files!IsEdit(c)' <=> Files!IsEdit(c)
  BY <1>9 DEF Files!IsEdit
<1>11. goes => text # Nothing /\ Files!IsEdit(c) /\ done = made /\ text \in Seq(Char) /\ done.text \in Seq(Char)
  BY <1>1, <1>3, <1>4, <1>5, <1>7
<1>12. Files!IsEdit(c) /\ fileVerdict'[c] = "panicked" => text \in Seq(Char) /\ made.status = "panicked"
  BY <1>1, <1>3, <1>5, <1>9
<1>13. made = Files!Edited(base[c], request[c].batch)'
  BY <1>9 DEF made
<1>14. CallOK(c)'
  BY <1>1, <1>6, <1>9, <1>10, <1>11, <1>12, <1>13 DEF CallOK
<1> QED
  BY <1>8, <1>14

\* A text written over another is a text.
LEMMA OverlayType ==
  ASSUME NEW s \in Seq(Char), NEW t \in Seq(Char)
  PROVE  Files!Overlay(s, t) \in Seq(Char)
<1> DEFINE rest == SubSeq(t, Len(s) + 1, Len(t))
<1>1. rest \in Seq(Char)
  OBVIOUS
<1> HIDE DEF rest
<1>2. s \o rest \in Seq(Char)
  BY <1>1
<1> QED
  BY <1>2 DEF Files!Overlay, rest

\* The other steps of a call keep it.
LEMMA WorkEdit ==
  ASSUME EditInv, NEW c \in Calls,
         \/ Files!Load(c) \/ Files!Open(c) \/ Files!Write(c) \/ Files!Rename(c)
         \/ Files!Fail(c) \/ Files!Cancel(c) \/ Files!Drop(c)
  PROVE  TextsOK' /\ \A d \in Calls : CallOK(d)'
<1>0. FileOK /\ TextsOK /\ \A d \in Calls : CallOK(d)
  BY DEF EditInv, FileInv
<1> USE DEF Files!fileVars, Files!callVars, Files!Goto, Files!End
<1>1. /\ UNCHANGED request
      /\ \A d \in Calls \ {c} : /\ filePc'[d] = filePc[d] /\ base'[d] = base[d] /\ out'[d] = out[d]
                                /\ fileVerdict'[d] = fileVerdict[d]
  BY <1>0 DEF FileOK, TextsOK, Files!Load, Files!Open, Files!Write, Files!Rename, Files!Fail,
     Files!Cancel, Files!Drop
<1>2. \A d \in Calls \ {c} : CallOK(d)'
  BY <1>0, <1>1, SameCall
<1>3. CASE Files!Load(c)
  BY <1>2, <1>3, LoadEdit
<1>4. CASE ~Files!Load(c)
  <2>1. UNCHANGED <<base, out>>
    BY <1>4 DEF Files!Open, Files!Write, Files!Rename, Files!Fail, Files!Cancel, Files!Drop
  <2>2. /\ filePc'[c] \in {"open", "write", "rename"} => filePc[c] \in {"open", "write", "rename"}
        /\ filePc'[c] \in {"new", "load"} => filePc[c] \in {"new", "load"}
        /\ fileVerdict'[c] # "panicked" \/ fileVerdict'[c] = fileVerdict[c]
    BY <1>0, <1>4 DEF FileOK, FilePCs, Files!Open, Files!Write, Files!Rename, Files!Fail,
       Files!Cancel, Files!Drop
  <2>3. CallOK(c)'
    BY <1>0, <1>1, <2>1, <2>2 DEF CallOK, Files!IsEdit
  <2>4. TextsOK'
    <3>1. CASE Files!Open(c)
      <4>1. <<>> \in Seq(Char)
        OBVIOUS
      <4>2. PICK j : data' = [data EXCEPT ![j] = <<>>] /\ UNCHANGED <<known, base>>
        BY <3>1 DEF Files!Open
      <4> QED
        BY <1>0, <4>1, <4>2 DEF FileOK, TextsOK
    <3>2. CASE Files!Write(c)
      <4> DEFINE q == Files!Overlay(out[c], data[fd[c]])
      <4>1. data' = [data EXCEPT ![fd[c]] = q] /\ UNCHANGED <<known, base>> /\ filePc[c] = "write"
        BY <3>2 DEF Files!Write
      <4>2. out[c] \in Seq(Char)
        BY <1>0, <4>1 DEF CallOK
      <4>3. fd[c] \in Files!Inodes => q \in Seq(Char)
        BY <1>0, <4>2, OverlayType DEF TextsOK
      <4> HIDE DEF q
      <4>4. \A i \in Files!Inodes : data'[i] = IF i = fd[c] THEN q ELSE data[i]
        BY <1>0, <4>1 DEF FileOK
      <4> QED
        BY <1>0, <4>1, <4>3, <4>4 DEF TextsOK
    <3>3. CASE Files!Rename(c)
      <4>1. UNCHANGED <<data, base>> /\ known' \in {known, known \cup ({out[c]} \ {<<>>})} /\ filePc[c] = "rename"
        BY <3>3 DEF Files!Rename
      <4>2. out[c] \in Seq(Char)
        BY <1>0, <4>1 DEF CallOK
      <4> QED
        BY <1>0, <4>1, <4>2 DEF TextsOK
    <3>4. CASE Files!Fail(c) \/ Files!Cancel(c) \/ Files!Drop(c)
      BY <1>0, <3>4 DEF TextsOK, Files!Fail, Files!Cancel, Files!Drop
    <3> QED
      BY <1>4, <3>1, <3>2, <3>3, <3>4
  <2> QED
    BY <1>2, <2>3, <2>4
<1> QED
  BY <1>3, <1>4

\* Every step keeps it.
LEMMA NextEdit ==
  ASSUME EditInv, [Next]_vars
  PROVE  EditInv'
<1>0. FileInv' /\ FileOK /\ TextsOK /\ \A d \in Calls : CallOK(d)
  BY NextFile DEF EditInv, FileInv
<1>1. CASE Files!Start
  BY <1>0, <1>1, SubmitEdit DEF Files!Start, EditInv
<1>2. CASE Files!Work
  BY <1>0, <1>2, WorkEdit DEF Files!Work, EditInv
<1>3. CASE \E t \in Texts : Files!Outside(t)
  <2> PICK t \in Texts : Files!Outside(t)
    BY <1>3
  <2>1. data' = [data EXCEPT ![inode["file"]] = t] /\ UNCHANGED <<filePc, request, base, out, fileVerdict, known>>
    BY DEF Files!Outside, Files!callVars
  <2>2. t \in Seq(Char)
    BY TextsAssumption
  <2>3. TextsOK'
    BY <1>0, <2>1, <2>2 DEF FileOK, TextsOK
  <2>4. \A d \in Calls : CallOK(d)'
    BY <1>0, <2>1, SameCall
  <2> QED
    BY <1>0, <2>3, <2>4 DEF EditInv
<1>4. CASE UNCHANGED fileVars
  <2>1. UNCHANGED <<data, filePc, request, base, out, fileVerdict, known>>
    BY <1>4 DEF fileVars
  <2>2. TextsOK'
    BY <1>0, <2>1 DEF TextsOK
  <2>3. \A d \in Calls : CallOK(d)'
    BY <1>0, <2>1, SameCall
  <2> QED
    BY <1>0, <2>2, <2>3 DEF EditInv
<1> QED
  BY <1>1, <1>2, <1>3, <1>4 DEF Next, FileStart, ShellStart, Work, ChildWrites, vars

\* An accepted batch means what its author wrote, where it cites a line the
\* file has what its author saw as far as a hash tells, and no batch of edits
\* of different lines panics.
THEOREM EditsMean == Spec => []EditMeaning
<1>1. EditInv /\ [Next]_vars => EditInv'
  BY NextEdit
<1>2. EditInv => EditMeaning
  <2> SUFFICES ASSUME EditInv, NEW c \in Calls, Files!IsEdit(c), base[c] # Nothing
               PROVE  LET batch == request[c].batch
                          seen  == Files!LinesOf(request[c].seen)
                          text  == Files!LinesOf(base[c])
                      IN /\ out[c] # Nothing =>
                              /\ \A i \in DOMAIN batch : \A a \in Files!Anchors(batch[i]) :
                                   /\ Files!Index(a) \in DOMAIN text
                                   /\ Files!Around(text, Files!Index(a)) = Files!Around(seen, Files!Index(a))
                              /\ Files!Disjoint(batch) =>
                                   out[c] = Files!Joined(Files!Meaning(text, batch)) \o Files!Ending(base[c])
                         /\ Files!Disjoint(batch) => fileVerdict[c] # "panicked"
    BY DEF EditMeaning, Files!EditMeaning
  <2> DEFINE batch == request[c].batch
             seen == Files!LinesOf(request[c].seen)
             text == Files!LinesOf(base[c])
             made == Files!Edited(base[c], batch)
             whole == Files!Joined(Files!Meaning(text, batch)) \o Files!Ending(base[c])
  <2>1. /\ BatchOf(batch, seen)
        /\ out[c] # Nothing => base[c] \in Seq(Char) /\ made.status = "ok" /\ out[c] = made.text
        /\ fileVerdict[c] = "panicked" => base[c] \in Seq(Char) /\ made.status = "panicked"
    BY DEF EditInv, CallOK
  <2> HIDE DEF batch, seen
  <2>2. base[c] \in Seq(Char) => Meant(base[c], batch, seen)
    BY <2>1, EditedMeans
  <2>3. base[c] \in Seq(Char) => text \in Seq(Line)
    BY LinesType
  <2>4. ASSUME out[c] # Nothing
        PROVE  /\ \A i \in DOMAIN batch : \A a \in Files!Anchors(batch[i]) :
                    /\ Files!Index(a) \in DOMAIN text
                    /\ Files!Around(text, Files!Index(a)) = Files!Around(seen, Files!Index(a))
               /\ Files!Disjoint(batch) => out[c] = whole
    <3>1. /\ base[c] \in Seq(Char)
          /\ \A i \in 1 .. Len(batch) : Files!Valid(batch[i], text)
          /\ Files!Disjoint(batch) => out[c] = whole
      BY <2>1, <2>2, <2>4 DEF Meant
    <3> HIDE DEF text, whole
    <3>2. ASSUME NEW i \in DOMAIN batch, NEW a \in Files!Anchors(batch[i])
          PROVE  /\ Files!Index(a) \in DOMAIN text
                 /\ Files!Around(text, Files!Index(a)) = Files!Around(seen, Files!Index(a))
      <4>1. EditOf(batch[i], seen) /\ Files!Valid(batch[i], text)
        BY <2>1, <3>1 DEF BatchOf
      <4> QED
        BY <2>3, <3>1, <4>1, ValidSeen
    <3> QED
      BY <3>1, <3>2
  <2>5. Files!Disjoint(batch) => fileVerdict[c] # "panicked"
    BY <2>1, <2>2 DEF Meant
  <2> QED
    BY <2>4, <2>5 DEF batch, seen
<1> QED
  BY <1>1, <1>2, InitEdit, PTL DEF Spec
=============================================================================
