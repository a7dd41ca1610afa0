---------------------------- MODULE ToolService ----------------------------
(***************************************************************************)
(* What the tool bus promises to the agent calls that use it, without the  *)
(* bus, its queue or its workers: every command of a batch handed to       *)
(* ToolBus::execute is answered exactly once, "cancelled" is told only to  *)
(* a call whose token has fired, and a call leaves its join only with the  *)
(* whole batch answered.  ToolPool is shown to implement it.               *)
(***************************************************************************)
EXTENDS Naturals

CONSTANTS Calls,   \* the agent calls (one ReActLoop each)
          Width    \* the largest number of tool calls of one turn

Cmd == Calls \X (1 .. Width)

\* What execute() may return: the tool's own result, a refusal of the
\* registry, the cancellation, or one of the bus's two failures.
Outcome == {"ok", "failed", "not_found", "cancelled", "dropped", "closed"}

VARIABLES
  loop,       \* where each call is: new, ready, executing (in join_all), done
  size,       \* number of commands in the call's batch
  cancelled,  \* the calls whose CancellationToken has fired
  answer      \* what each command got, "none" until then

vars == <<loop, size, cancelled, answer>>

Issued(cmd)  == loop[cmd[1]] \in {"executing", "done"} /\ cmd[2] <= size[cmd[1]]
Pending(cmd) == Issued(cmd) /\ answer[cmd] = "none"

Init ==
  /\ loop = [c \in Calls |-> "new"]
  /\ size = [c \in Calls |-> 0]
  /\ cancelled = {}
  /\ answer = [cmd \in Cmd |-> "none"]

Acquire(c) ==
  /\ loop[c] = "new"
  /\ loop' = [loop EXCEPT ![c] = "ready"]
  /\ UNCHANGED <<size, cancelled, answer>>

Issue(c, n) ==
  /\ loop[c] = "ready"
  /\ loop' = [loop EXCEPT ![c] = "executing"]
  /\ size' = [size EXCEPT ![c] = n]
  /\ UNCHANGED <<cancelled, answer>>

Cancel(c) ==
  /\ cancelled' = cancelled \cup {c}
  /\ UNCHANGED <<loop, size, answer>>

Reply(S, r) ==
  /\ \A cmd \in S : Pending(cmd)
  /\ r = "cancelled" => \A cmd \in S : cmd[1] \in cancelled
  /\ answer' = [cmd \in Cmd |-> IF cmd \in S THEN r ELSE answer[cmd]]
  /\ UNCHANGED <<loop, size, cancelled>>

\* The death of the last worker fails its own command and the queued ones
\* in one step.
Fail(S) == Reply(S, "dropped")

Join(c) ==
  /\ loop[c] = "executing"
  /\ \A i \in 1 .. size[c] : answer[<<c, i>>] # "none"
  /\ loop' = [loop EXCEPT ![c] = "done"]
  /\ UNCHANGED <<size, cancelled, answer>>

Next ==
  \/ \E c \in Calls : Acquire(c) \/ Cancel(c) \/ Join(c)
  \/ \E c \in Calls, n \in 0 .. Width : Issue(c, n)
  \/ \E cmd \in Cmd, r \in Outcome : Reply({cmd}, r)
  \/ \E S \in SUBSET Cmd : Fail(S)

Spec == Init /\ [][Next]_vars

Fairness ==
  /\ \A cmd \in Cmd :
       WF_vars(\E r \in Outcome, S \in SUBSET Cmd : cmd \in S /\ Reply(S, r))
  /\ \A c \in Calls : WF_vars(Join(c))

FairSpec == Spec /\ Fairness
=============================================================================
