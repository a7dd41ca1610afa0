----------------------------- MODULE EnvEffects -----------------------------
(***************************************************************************)
(* The reversible effects of FuneraEnv (env.rs, effect and dispose).  The  *)
(* accumulator is shared by all clones of the environment, so effects are  *)
(* registered and disposed of from several threads: dispose drains it      *)
(* under its lock and runs what it took without.                           *)
(***************************************************************************)
EXTENDS Naturals, Sequences, SequencesExt

CONSTANTS Bodies,   \* the calls of effect()
          Callers   \* of dispose(): the environment actor, a kept clone

VARIABLES
  setup,      \* effects whose body has run but which are not yet registered
  disposers,  \* the accumulator
  batch,      \* what each caller of dispose has drained and not yet run
  registered, \* history: the effects in the order of their registration
  drained,    \* history: how many had been registered when it was drained
  undone      \* history: the effects whose disposer was run, in this order

effectVars == <<setup, disposers, batch, registered, drained, undone>>

Init ==
  /\ setup = {}
  /\ disposers = <<>>
  /\ batch = [d \in Callers |-> <<>>]
  /\ registered = <<>>
  /\ drained = [e \in Bodies |-> 0]
  /\ undone = <<>>

\* effect() runs the body before it takes the lock.
Setup(e) ==
  /\ e \notin setup
  /\ ~Contains(registered, e)
  /\ setup' = setup \cup {e}
  /\ UNCHANGED <<disposers, batch, registered, drained, undone>>

Register(e) ==
  /\ e \in setup
  /\ setup' = setup \ {e}
  /\ disposers' = Append(disposers, e)
  /\ registered' = Append(registered, e)
  /\ UNCHANGED <<batch, drained, undone>>

\* Fault: the accumulator is copied, not taken.
Drain_Copy(d) ==
  /\ batch[d] = <<>>
  /\ batch' = [batch EXCEPT ![d] = disposers]
  /\ drained' = [e \in Bodies |-> IF Contains(disposers, e) THEN Len(registered) ELSE drained[e]]
  /\ UNCHANGED <<setup, disposers, registered, undone>>

Drain(d) ==
  /\ batch[d] = <<>>
  /\ batch' = [batch EXCEPT ![d] = disposers]
  /\ disposers' = <<>>
  /\ drained' = [e \in Bodies |-> IF Contains(disposers, e) THEN Len(registered) ELSE drained[e]]
  /\ UNCHANGED <<setup, registered, undone>>

\* Fault: in the order of registration.
Undo_Fifo(d) ==
  /\ batch[d] # <<>>
  /\ undone' = Append(undone, Head(batch[d]))
  /\ batch' = [batch EXCEPT ![d] = Tail(batch[d])]
  /\ UNCHANGED <<setup, disposers, registered, drained>>

\* The disposer registered last is run.  Whether it panics makes no
\* difference: the unwinding is caught.
Undo(d) ==
  /\ batch[d] # <<>>
  /\ undone' = Append(undone, Last(batch[d]))
  /\ batch' = [batch EXCEPT ![d] = Front(batch[d])]
  /\ UNCHANGED <<setup, disposers, registered, drained>>

Next ==
  \/ \E e \in Bodies : Setup(e) \/ Register(e)
  \/ \E d \in Callers : Drain(d) \/ Undo(d)

Spec == Init /\ [][Next]_effectVars

-----------------------------------------------------------------------------
(***************************************************************************)
(* No disposer is run twice, lost, or run for an effect that was not       *)
(* registered, however calls of effect and dispose overlap.                *)
(***************************************************************************)
Waiting ==
  {e \in Bodies : Contains(disposers, e) \/ \E d \in Callers : Contains(batch[d], e)}
UndoneOnce ==
  /\ \A i, j \in DOMAIN undone : undone[i] = undone[j] => i = j
  /\ ToSet(registered) = Waiting \cup ToSet(undone)
  /\ Waiting \cap ToSet(undone) = {}

(***************************************************************************)
(* Disposers run in the reverse of the order of registration: an effect is *)
(* undone after a later one, unless the later one was registered when the  *)
(* earlier one had already been taken by a dispose.                        *)
(***************************************************************************)
Position(e) == CHOOSE i \in DOMAIN registered : registered[i] = e
UndoneInReverse ==
  \A i, j \in DOMAIN undone :
    i < j /\ Position(undone[i]) < Position(undone[j])
      => drained[undone[i]] < Position(undone[j])
=============================================================================
