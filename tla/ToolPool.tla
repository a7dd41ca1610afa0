------------------------------ MODULE ToolPool ------------------------------
(***************************************************************************)
(* The tool bus and its executor: the bounded channel of ToolBus           *)
(* (event_bus/tool_bus.rs), the workers that EnvActor spawns on its shared *)
(* receiver (env_actor.rs, re_act/tool_executor.rs) and the batch each     *)
(* agent call joins on (re_act.rs, handle_turn_finish).  A worker may die  *)
(* with a tool that panics; a call may be cancelled at any moment; the     *)
(* environment actor may stop while calls are still running.               *)
(***************************************************************************)
EXTENDS Naturals, Sequences, FiniteSets

CONSTANTS Calls,     \* the agent calls (one ReActLoop each)
          Width,     \* the largest number of tool calls of one turn
          Workers,   \* max_concurrent_tools.max(1) of them
          Capacity,  \* of the bus (64 in the code)
          NoCmd      \* an idle worker's job

Cmd == Calls \X (1 .. Width)

ASSUME PoolAssumption ==
  /\ Width \in Nat
  /\ Capacity \in Nat \ {0}
  /\ Workers # {}
  /\ IsFiniteSet(Workers)
  /\ NoCmd \notin Cmd

VARIABLES
  loop,       \* where each call is: new, ready, executing (in join_all), done
  size,       \* number of commands in the call's batch
  cancelled,  \* the calls whose CancellationToken has fired
  answer,     \* the oneshot response of each command, "none" until sent
  sent,       \* commands pushed into the channel
  queue,      \* the channel's buffer
  phase,      \* what each worker is doing
  job,        \* the command it holds
  outcome,    \* the result it is about to send
  actorAlive, \* the EnvActor (which holds a ToolBus) is running
  started     \* history: the commands whose tool body was entered

callVars   == <<loop, size, cancelled>>
workerVars == <<phase, job, outcome>>
vars == <<callVars, answer, sent, queue, workerVars, actorAlive, started>>

Owner(cmd)   == cmd[1]
Issued(cmd)  == loop[Owner(cmd)] \in {"executing", "done"} /\ cmd[2] <= size[Owner(cmd)]
Pending(cmd) == Issued(cmd) /\ answer[cmd] = "none"
Unsent(cmd)  == Pending(cmd) /\ cmd \notin sent

Queued == {queue[i] : i \in 1 .. Len(queue)}
Gone   == {"panicked", "exited"}
\* The receiver lives in an Arc shared by the workers only.
Open == \E w \in Workers : phase[w] \notin Gone
\* Dropping the receiver drops the buffered commands and their resp_tx.
LastWorker(w) == \A v \in Workers \ {w} : phase[v] \in Gone

Init ==
  /\ loop = [c \in Calls |-> "new"]
  /\ size = [c \in Calls |-> 0]
  /\ cancelled = {}
  /\ answer = [cmd \in Cmd |-> "none"]
  /\ sent = {}
  /\ queue = <<>>
  /\ phase = [w \in Workers |-> "idle"]
  /\ job = [w \in Workers |-> NoCmd]
  /\ outcome = [w \in Workers |-> "none"]
  /\ actorAlive = TRUE
  /\ started = {}

-----------------------------------------------------------------------------
(* The agent calls. *)

\* GetReActConfig hands the call a clone of the actor's ToolBus.
Acquire(c) ==
  /\ loop[c] = "new"
  /\ actorAlive
  /\ loop' = [loop EXCEPT ![c] = "ready"]
  /\ UNCHANGED <<size, cancelled, answer, sent, queue, workerVars, actorAlive, started>>

\* A turn finished with ToolCalls or Length: join_all over n commands.  The
\* last check of the token was before, so a cancelled call may issue too.
Issue(c, n) ==
  /\ loop[c] = "ready"
  /\ loop' = [loop EXCEPT ![c] = "executing"]
  /\ size' = [size EXCEPT ![c] = n]
  /\ UNCHANGED <<cancelled, answer, sent, queue, workerVars, actorAlive, started>>

\* A handle is cancelled or dropped.
Cancel(c) ==
  /\ loop[c] # "new"
  /\ cancelled' = cancelled \cup {c}
  /\ UNCHANGED <<loop, size, answer, sent, queue, workerVars, actorAlive, started>>

\* exec_tx.send().await completes once there is room; it does not look at
\* the token.  Two senders that wait may push in either order.
Send(cmd) ==
  /\ Unsent(cmd)
  /\ Open
  /\ Len(queue) < Capacity
  /\ queue' = Append(queue, cmd)
  /\ sent' = sent \cup {cmd}
  /\ UNCHANGED <<callVars, answer, workerVars, actorAlive, started>>

\* "tool bus closed": every worker has gone and the receiver with them.
SendClosed(cmd) ==
  /\ Unsent(cmd)
  /\ ~Open
  /\ answer' = [answer EXCEPT ![cmd] = "closed"]
  /\ UNCHANGED <<callVars, sent, queue, workerVars, actorAlive, started>>

\* Fault: the call goes on with the first answers it has.
Join_Early(c) ==
  /\ loop[c] = "executing"
  /\ \E i \in 1 .. size[c] : answer[<<c, i>>] # "none"
  /\ loop' = [loop EXCEPT ![c] = "done"]
  /\ UNCHANGED <<size, cancelled, answer, sent, queue, workerVars, actorAlive, started>>

\* join_all returns, and the call that ends drops its ToolBus.
Join(c) ==
  /\ loop[c] = "executing"
  /\ \A i \in 1 .. size[c] : answer[<<c, i>>] # "none"
  /\ loop' = [loop EXCEPT ![c] = "done"]
  /\ UNCHANGED <<size, cancelled, answer, sent, queue, workerVars, actorAlive, started>>

\* Every EnvCmd sender is gone: the actor leaves its loop and drops its bus.
ActorStop ==
  /\ actorAlive
  /\ actorAlive' = FALSE
  /\ UNCHANGED <<callVars, answer, sent, queue, workerVars, started>>

-----------------------------------------------------------------------------
(* The workers. *)

\* Fault: the command is looked at, not taken.
Receive_Peek(w) ==
  /\ phase[w] = "idle"
  /\ queue # <<>>
  /\ phase' = [phase EXCEPT ![w] = "held"]
  /\ job' = [job EXCEPT ![w] = Head(queue)]
  /\ UNCHANGED <<callVars, answer, sent, queue, outcome, actorAlive, started>>

\* Receiving is serialised by the mutex around the receiver.
Receive(w) ==
  /\ phase[w] = "idle"
  /\ queue # <<>>
  /\ phase' = [phase EXCEPT ![w] = "held"]
  /\ job' = [job EXCEPT ![w] = Head(queue)]
  /\ queue' = Tail(queue)
  /\ UNCHANGED <<callVars, answer, sent, outcome, actorAlive, started>>

\* Fault: the token is not looked at before the tool is entered.
Start_Unbiased(w, found) ==
  /\ phase[w] = "held"
  /\ phase' = [phase EXCEPT ![w] = IF found THEN "running" ELSE "answering"]
  /\ outcome' = [outcome EXCEPT ![w] = IF found THEN "none" ELSE "not_found"]
  /\ started' = IF found THEN started \cup {job[w]} ELSE started
  /\ UNCHANGED <<callVars, answer, sent, queue, job, actorAlive>>

\* First poll of execute_command: the tool is looked up in the registry,
\* which may have lost it since the model chose it, and entered.
Start(w, found) ==
  /\ phase[w] = "held"
  /\ Owner(job[w]) \notin cancelled
  /\ phase' = [phase EXCEPT ![w] = IF found THEN "running" ELSE "answering"]
  /\ outcome' = [outcome EXCEPT ![w] = IF found THEN "none" ELSE "not_found"]
  /\ started' = IF found THEN started \cup {job[w]} ELSE started
  /\ UNCHANGED <<callVars, answer, sent, queue, job, actorAlive>>

\* Fault: cancellation is only looked at before the tool is entered.
Abandon_HeldOnly(w) ==
  /\ phase[w] = "held"
  /\ Owner(job[w]) \in cancelled
  /\ phase' = [phase EXCEPT ![w] = "answering"]
  /\ outcome' = [outcome EXCEPT ![w] = "cancelled"]
  /\ UNCHANGED <<callVars, answer, sent, queue, job, actorAlive, started>>

\* The biased select: once the token has fired the tool is not polled again.
Abandon(w) ==
  /\ phase[w] \in {"held", "running"}
  /\ Owner(job[w]) \in cancelled
  /\ phase' = [phase EXCEPT ![w] = "answering"]
  /\ outcome' = [outcome EXCEPT ![w] = "cancelled"]
  /\ UNCHANGED <<callVars, answer, sent, queue, job, actorAlive, started>>

Complete(w, r) ==
  /\ phase[w] = "running"
  /\ Owner(job[w]) \notin cancelled
  /\ phase' = [phase EXCEPT ![w] = "answering"]
  /\ outcome' = [outcome EXCEPT ![w] = r]
  /\ UNCHANGED <<callVars, answer, sent, queue, job, actorAlive, started>>

Answer(w) ==
  /\ phase[w] = "answering"
  /\ answer' = [answer EXCEPT ![job[w]] = outcome[w]]
  /\ phase' = [phase EXCEPT ![w] = "idle"]
  /\ job' = [job EXCEPT ![w] = NoCmd]
  /\ outcome' = [outcome EXCEPT ![w] = "none"]
  /\ UNCHANGED <<callVars, sent, queue, actorAlive, started>>

\* Fault: the receiver outlives its workers (say, kept by the actor too).
Panic_KeepsReceiver(w) ==
  /\ phase[w] = "running"
  /\ Owner(job[w]) \notin cancelled
  /\ answer' = [answer EXCEPT ![job[w]] = "dropped"]
  /\ phase' = [phase EXCEPT ![w] = "panicked"]
  /\ job' = [job EXCEPT ![w] = NoCmd]
  /\ UNCHANGED <<callVars, queue, sent, outcome, actorAlive, started>>

\* The tool panics: the worker's task unwinds, dropping the command it holds
\* and its share of the receiver.  Nothing restarts it.
Panic(w) ==
  /\ phase[w] = "running"
  /\ Owner(job[w]) \notin cancelled
  /\ LET lost == {job[w]} \cup (IF LastWorker(w) THEN Queued ELSE {})
     IN  answer' = [cmd \in Cmd |-> IF cmd \in lost THEN "dropped" ELSE answer[cmd]]
  /\ queue' = IF LastWorker(w) THEN <<>> ELSE queue
  /\ phase' = [phase EXCEPT ![w] = "panicked"]
  /\ job' = [job EXCEPT ![w] = NoCmd]
  /\ UNCHANGED <<callVars, sent, outcome, actorAlive, started>>

\* Fault: the workers leave when the actor does.
Exit_WithActor(w) ==
  /\ phase[w] = "idle"
  /\ queue = <<>>
  /\ ~actorAlive
  /\ phase' = [phase EXCEPT ![w] = "exited"]
  /\ UNCHANGED <<callVars, answer, sent, queue, job, outcome, actorAlive, started>>

\* recv() yields None: nothing is buffered and no ToolBus is left anywhere.
Exit(w) ==
  /\ phase[w] = "idle"
  /\ queue = <<>>
  /\ ~actorAlive
  /\ \A c \in Calls : loop[c] \in {"new", "done"}
  /\ phase' = [phase EXCEPT ![w] = "exited"]
  /\ UNCHANGED <<callVars, answer, sent, queue, job, outcome, actorAlive, started>>

-----------------------------------------------------------------------------
\* Everything has come to an end.
Terminated ==
  /\ ~Open
  /\ ~actorAlive
  /\ \A c \in Calls : loop[c] \in {"new", "done"}
  /\ UNCHANGED vars

Next ==
  \/ \E c \in Calls : Acquire(c) \/ Cancel(c) \/ Join(c)
  \/ \E c \in Calls, n \in 0 .. Width : Issue(c, n)
  \/ \E cmd \in Cmd : Send(cmd) \/ SendClosed(cmd)
  \/ ActorStop
  \/ \E w \in Workers : Receive(w) \/ Abandon(w) \/ Answer(w) \/ Panic(w) \/ Exit(w)
  \/ \E w \in Workers, found \in BOOLEAN : Start(w, found)
  \/ \E w \in Workers, r \in {"ok", "failed"} : Complete(w, r)
  \/ Terminated

Spec == Init /\ [][Next]_vars

\* The tokio scheduler runs every task that can run, and the channel's
\* semaphore is fair.  Tools are not among what the runtime schedules: one
\* that waits for its user or its network may wait for ever.
Fairness ==
  /\ \A cmd \in Cmd : WF_vars(Send(cmd) \/ SendClosed(cmd))
  /\ \A c \in Calls : WF_vars(Join(c))
  /\ \A w \in Workers : /\ WF_vars(Receive(w))
                        /\ WF_vars(\E found \in BOOLEAN : Start(w, found))
                        /\ WF_vars(Abandon(w))
                        /\ WF_vars(Answer(w))

ToolsReturn == \A w \in Workers : WF_vars(Complete(w, "ok") \/ Complete(w, "failed"))

FairSpec == Spec /\ Fairness

-----------------------------------------------------------------------------
TypeOK ==
  /\ loop \in [Calls -> {"new", "ready", "executing", "done"}]
  /\ size \in [Calls -> 0 .. Width]
  /\ cancelled \subseteq Calls
  /\ answer \in [Cmd -> {"none", "ok", "failed", "not_found", "cancelled", "dropped", "closed"}]
  /\ sent \subseteq Cmd
  /\ queue \in Seq(Cmd)
  /\ phase \in [Workers -> {"idle", "held", "running", "answering", "panicked", "exited"}]
  /\ job \in [Workers -> Cmd \cup {NoCmd}]
  /\ outcome \in [Workers -> {"none", "ok", "failed", "not_found", "cancelled"}]
  /\ actorAlive \in BOOLEAN
  /\ started \subseteq Cmd

Busy == {w \in Workers : phase[w] \in {"held", "running", "answering"}}
Held == {job[w] : w \in Busy}

(***************************************************************************)
(* No command is lost or duplicated between the channel and the workers:   *)
(* a command some call waits for is unsent, or once in the channel, or in  *)
(* the hands of one worker, and nothing else is in either place.           *)
(***************************************************************************)
Conservation ==
  /\ \A cmd \in Cmd : cmd \in sent /\ Pending(cmd) <=> cmd \in Queued \cup Held
  /\ Queued \cap Held = {}
  /\ \A i, j \in 1 .. Len(queue) : queue[i] = queue[j] => i = j
  /\ \A v, w \in Busy : job[v] = job[w] => v = w

(***************************************************************************)
(* A pool whose workers have all gone keeps nobody waiting: what was in    *)
(* the channel is answered when the receiver goes (execute: "tool executor *)
(* dropped").                                                              *)
(***************************************************************************)
DeadPoolKeepsNoOne ==
  ~Open => \A cmd \in Cmd : cmd \in sent => ~Pending(cmd)

(***************************************************************************)
(* A graceful shutdown fails no call: a command is refused by the bus, or  *)
(* dropped in it before its tool was entered, only if tools have panicked  *)
(* under every worker.                                                     *)
(***************************************************************************)
ShutdownFailsNoCall ==
  (\E cmd \in Cmd : answer[cmd] = "closed" \/ (answer[cmd] = "dropped" /\ cmd \notin started))
    => \A w \in Workers : phase[w] = "panicked"

(***************************************************************************)
(* A tool is entered at most once per command, never for a call already    *)
(* cancelled, and a call is told "ok" or "failed" only about a tool that   *)
(* was entered.                                                            *)
(***************************************************************************)
EntersOnceUncancelled ==
  [][ /\ \A w \in Workers : phase[w] = "held" /\ phase'[w] = "running"
           => job[w] \notin started /\ Owner(job[w]) \notin cancelled
      /\ \A cmd \in Cmd : answer[cmd] = "none" /\ answer'[cmd] \in {"ok", "failed"}
           => cmd \in started ]_vars

\* The pool implements the abstract service; if tools return, its fairness
\* too: every command is answered and every call leaves its join.
Service == INSTANCE ToolService
ServiceSpec == Service!Spec
ServiceFair == ToolsReturn => Service!Fairness

(***************************************************************************)
(* A worker busy for a cancelled call becomes free, whatever its tool does *)
(* (tool_executor.rs: the worker survives, it is shared across calls).     *)
(***************************************************************************)
CancelFreesWorker ==
  \A w \in Workers, c \in Calls :
    (phase[w] \in {"held", "running"} /\ Owner(job[w]) = c /\ c \in cancelled)
      ~> phase[w] = "idle"

(***************************************************************************)
(* send_handle.rs:312-317 and docs/architecture.md:43-45: every blocking   *)
(* await of the loop listens for the token, so a cancelled call leaves its *)
(* tool execution promptly, whatever other calls' tools do.                *)
(***************************************************************************)
CancelEndsJoin ==
  \A c \in Calls : (loop[c] = "executing" /\ c \in cancelled) ~> loop[c] = "done"
=============================================================================
