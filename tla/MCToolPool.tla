----------------------------- MODULE MCToolPool -----------------------------
(* Instances of ToolPool for TLC. *)
EXTENDS ToolPool, FiniteSetsExt, TLC

CONSTANTS c1, c2, w1, w2,
          MaxCommands  \* bound: the commands of both calls together

MCCalls     == {c1, c2}
MCWorkers   == {w1, w2}
MCOneWorker == {w1}

\* Only Issue, which is owed no fairness, is bounded.
Bounded == MapThenSumSet(LAMBDA c : size'[c], Calls) <= MaxCommands

MCSpec == Init /\ [][Next /\ Bounded]_vars /\ Fairness
=============================================================================
