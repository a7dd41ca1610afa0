------------------------------ MODULE Middleware ------------------------------
(***************************************************************************)
(* What becomes of the events of react loops (re_act.rs: filter_and_store, *)
(* middleware.rs): each goes through the agent's chain, whose mutators may *)
(* rewrite or block it and whose inspectors look at it on tasks of their   *)
(* own; what passes is pushed to the session, if it is a message, and then *)
(* handed to the subscribers.  The errors of inspectors reach a logging    *)
(* task that the builder spawned.  Composed with the session actor, which  *)
(* several loops and other holders of a session_tx share.                  *)
(***************************************************************************)
EXTENDS Naturals, Sequences, SequencesExt

CONSTANTS Loops,     \* the loops that share the chain and the session
          Event,     \* the events, of which the Storable become messages
          Storable,
          Layers,    \* the chain, as its builder methods have made it
          Clients,   \* who asks the session for its context
          Nothing,
          MaxEvents  \* bound: the events of a loop

ASSUME ChainAssumption ==
  /\ Storable \subseteq Event
  /\ Layers \in Seq([kind : {"inspector", "mutator"}, members : Seq(STRING)])
  /\ \A i \in DOMAIN Layers : Layers[i].members # <<>>

VARIABLES
  mailbox, msgs, reply,  \* the session actor
  at,       \* each loop: 0 between events, else its place in the chain
  event,    \* the event it has in hand
  taken,    \* how many it has taken
  sink,     \* history: the messages it has handed to the subscribers
  held,     \* the agent holds the chain
  running,  \* the inspections at work
  errors,   \* the unbounded error channel
  logging,  \* the logging task has not ended
  failed,   \* history: the inspections that returned an error
  heard,    \* history: those that were logged
  cleared   \* history: how many messages of a loop the last Clear was sent after

Message == [loop : Loops, event : Storable]

ASSUME NothingAssumption == Nothing \notin Clients \cup Seq(Message)

Session == INSTANCE Session

sessionVars == <<mailbox, msgs, reply>>
loopVars    == <<at, event, taken, sink>>
errorVars   == <<running, errors, logging, failed, heard>>
vars == <<sessionVars, loopVars, held, errorVars, cleared>>

-----------------------------------------------------------------------------
(* The chain and its builder.                                              *)

NewChain == <<>>

\* A tuple or an iterator is one layer, a single middleware one of its own,
\* and nothing is none.
WithLayer(layers, kind, ms) ==
  IF ms = <<>> THEN layers ELSE Append(layers, [kind |-> kind, members |-> ms])
WithInspectors(layers, is) == WithLayer(layers, "inspector", is)
WithInspector(layers, i)   == WithInspectors(layers, <<i>>)
WithMutators(layers, ms)   == WithLayer(layers, "mutator", ms)
WithMutator(layers, m)     == WithMutators(layers, <<m>>)

\* process: layer by layer, and the middlewares of a layer in their order.
\* Inspectors are not waited for, whether or not they share a layer.
Chain == FlattenSeq([i \in DOMAIN Layers |-> [k \in DOMAIN Layers[i].members |-> Layers[i].kind]])

ToStore == Len(Chain) + 1
ToEmit  == Len(Chain) + 2
Over    == Len(Chain) + 3

\* One inspector's look at one event.
Inspections == [loop : Loops, event : 1 .. MaxEvents, layer : 1 .. Len(Chain)]

-----------------------------------------------------------------------------

Init ==
  /\ Session!Init
  /\ at = [l \in Loops |-> 0]
  /\ event = [l \in Loops |-> Nothing]
  /\ taken = [l \in Loops |-> 0]
  /\ sink = [l \in Loops |-> <<>>]
  /\ held = TRUE
  /\ running = {} /\ failed = {} /\ heard = {}
  /\ errors = <<>>
  /\ logging = TRUE
  /\ cleared = [l \in Loops |-> 0]

-----------------------------------------------------------------------------
(* filter_and_store, for each event of a batch.                            *)

Take(l, e) ==
  /\ at[l] = 0
  /\ taken[l] < MaxEvents
  /\ at' = [at EXCEPT ![l] = 1]
  /\ event' = [event EXCEPT ![l] = e]
  /\ taken' = [taken EXCEPT ![l] = @ + 1]
  /\ UNCHANGED <<sessionVars, sink, held, errorVars, cleared>>

\* The loop goes on, with the event e, at place p.
Onto(l, p, e) ==
  /\ at' = [at EXCEPT ![l] = p]
  /\ event' = [event EXCEPT ![l] = e]

InLayer(l, kind) == at[l] \in DOMAIN Chain /\ Chain[at[l]] = kind

\* run_inspectors spawns a task, which holds a sender of its own.
Spawn(l) ==
  /\ InLayer(l, "inspector")
  /\ Onto(l, at[l] + 1, event[l])
  /\ running' = running \cup {[loop |-> l, event |-> taken[l], layer |-> at[l]]}
  /\ UNCHANGED <<sessionVars, taken, sink, held, errors, logging, failed, heard, cleared>>

\* Fault: a blocked event is kept from the subscribers only.
Mutate_StoresBlocked(l) ==
  /\ InLayer(l, "mutator")
  /\ \/ (\E e \in Event : Onto(l, at[l] + 1, e)) /\ UNCHANGED sessionVars
     \/ /\ Onto(l, 0, Nothing)
        /\ event[l] \in Storable
        /\ Session!PushMessages([loop |-> l, event |-> event[l]])
  /\ UNCHANGED <<taken, sink, held, errorVars, cleared>>

\* Pass, Modify, Block, or a panic that takes the loop along.
Mutate(l) ==
  /\ InLayer(l, "mutator")
  /\ \/ \E e \in Event : Onto(l, at[l] + 1, e)
     \/ Onto(l, 0, Nothing)
     \/ Onto(l, Over, Nothing)
  /\ UNCHANGED <<sessionVars, taken, sink, held, errorVars, cleared>>

Store(l) ==
  /\ at[l] = ToStore
  /\ Onto(l, ToEmit, event[l])
  /\ IF event[l] \in Storable THEN Session!PushMessages([loop |-> l, event |-> event[l]])
     ELSE UNCHANGED sessionVars
  /\ UNCHANGED <<taken, sink, held, errorVars, cleared>>

Emit(l) ==
  /\ at[l] = ToEmit
  /\ Onto(l, 0, Nothing)
  /\ sink' = [sink EXCEPT ![l] = IF event[l] \in Storable THEN Append(@, event[l]) ELSE @]
  /\ UNCHANGED <<sessionVars, taken, held, errorVars, cleared>>

\* The loop ends and drops its clone of the chain.
End(l) ==
  /\ at[l] = 0
  /\ Onto(l, Over, Nothing)
  /\ UNCHANGED <<sessionVars, taken, sink, held, errorVars, cleared>>

DropAgent ==
  /\ held
  /\ held' = FALSE
  /\ UNCHANGED <<sessionVars, loopVars, errorVars, cleared>>

-----------------------------------------------------------------------------
(* The inspections and the logging task.                                   *)

\* Fault: the tasks of inspectors borrow the chain's sender.
Senders_ChainOnly == held \/ \E l \in Loops : at[l] # Over

\* While one of them lives the error channel is open.
Senders == held \/ (\E l \in Loops : at[l] # Over) \/ running # {}

\* An inspector is done with nothing to say (or panicked).
Inspected(i) ==
  /\ i \in running
  /\ running' = running \ {i}
  /\ UNCHANGED <<sessionVars, loopVars, held, errors, logging, failed, heard, cleared>>

\* It returns an error; the send is lost if there is no receiver.
Objects(i) ==
  /\ i \in running
  /\ running' = running \ {i}
  /\ failed' = failed \cup {i}
  /\ errors' = IF logging THEN Append(errors, i) ELSE errors
  /\ UNCHANGED <<sessionVars, loopVars, held, logging, heard, cleared>>

LogError ==
  /\ logging
  /\ errors # <<>>
  /\ heard' = heard \cup {Head(errors)}
  /\ errors' = Tail(errors)
  /\ UNCHANGED <<sessionVars, loopVars, held, running, logging, failed, cleared>>

\* recv returns None.
LogEnds ==
  /\ logging
  /\ errors = <<>>
  /\ ~Senders
  /\ logging' = FALSE
  /\ UNCHANGED <<sessionVars, loopVars, held, running, errors, failed, heard, cleared>>

-----------------------------------------------------------------------------
(* The session's other users, and the actor.                               *)

\* What loop l has pushed: what it emitted, and what it is about to emit.
Pushed(l) ==
  IF at[l] = ToEmit /\ event[l] \in Storable THEN Append(sink[l], event[l]) ELSE sink[l]

Clear ==
  /\ Session!Clear
  /\ cleared' = [l \in Loops |-> Len(Pushed(l))]
  /\ UNCHANGED <<loopVars, held, errorVars>>

Ask(c) ==
  /\ Session!FetchContext(c) \/ Session!Abandon(c) \/ Session!Receive(c)
  /\ UNCHANGED <<loopVars, held, errorVars, cleared>>

Handle ==
  /\ Session!Handle
  /\ UNCHANGED <<loopVars, held, errorVars, cleared>>

Next ==
  \/ \E l \in Loops :
       (\E e \in Event : Take(l, e)) \/ Spawn(l) \/ Mutate(l) \/ Store(l) \/ Emit(l) \/ End(l)
  \/ DropAgent
  \/ \E i \in running : Inspected(i) \/ Objects(i)
  \/ LogError \/ LogEnds
  \/ Clear \/ (\E c \in Clients : Ask(c)) \/ Handle

Spec == Init /\ [][Next]_vars

\* The runtime runs the tasks it has; an inspector comes to an end.
Fairness ==
  /\ WF_vars(LogError)
  /\ \A i \in Inspections : WF_vars(Inspected(i) \/ Objects(i))
FairSpec == Spec /\ Fairness

-----------------------------------------------------------------------------
\* What loop l has said, with one more message, and in a log.
Saying(said, l, m) == IF m.loop = l THEN Append(said, m.event) ELSE said

Said(l, log) ==
  LET said[n \in 0 .. Len(log)] == IF n = 0 THEN <<>> ELSE Saying(said[n - 1], l, log[n])
  IN  said[Len(log)]

\* Session and subscribers get the same: of the messages of a loop, as its
\* mutators have left them, the conversation (with what is on its way to the
\* actor) holds exactly those that were pushed since the last Clear, in their
\* order; so a subscriber that has seen one and asks for the context finds it.
ContextFollows ==
  \A l \in Loops :
    Said(l, Session!Drained(mailbox)) = SubSeq(Pushed(l), cleared[l] + 1, Len(Pushed(l)))

\* Whatever the loops, the agent and the actor do meanwhile, the session is a
\* log; see Session.
LogSpec == Session!LogSpec

\* Every error of an inspector is logged, though nobody waits for it and the
\* loop, and the agent, may be gone when it comes.
FailureHeard == \A i \in Inspections : i \in failed ~> i \in heard
=============================================================================
