---------------------------- MODULE MCMiddleware ----------------------------
(* Two loops, a client and a reset on one session. *)
EXTENDS Middleware, FiniteSets

CONSTANTS l1, l2, c1, m, d,
          MaxMailbox,  \* commands that may wait at once
          MaxLog       \* messages the conversation may hold

MCLoops    == {l1, l2}
MCClients  == {c1}
MCEvent    == {m, d}
MCStorable == {m}
MCLayers   == WithMutator(WithInspectors(WithMutators(NewChain, <<>>), <<"logger">>), "filter")

\* The session is at work; an error is.  The two share nothing, and are not
\* looked at together.
Talking == \/ <<mailbox, msgs, reply>> # <<<<>>, <<>>, [c \in Clients |-> Nothing]>>
           \/ \E l \in Loops : event[l] = m
Failing == failed # {} \/ ~held \/ Cardinality(running) > 1

Bounded ==
  /\ Len(mailbox') <= MaxMailbox
  /\ Len(Session!Drained(mailbox)') <= MaxLog
  /\ Cardinality(failed') <= 2
  /\ ~(Talking' /\ Failing')

MCSpec == Init /\ [][Next /\ Bounded]_vars /\ Fairness
=============================================================================
