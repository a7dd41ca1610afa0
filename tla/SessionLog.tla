----------------------------- MODULE SessionLog -----------------------------
(***************************************************************************)
(* What a session promises to the tasks that share its control channel: a  *)
(* log of messages on which every operation takes effect at once, in the   *)
(* order of the calls.  Session is shown to implement it.                  *)
(***************************************************************************)
EXTENDS Sequences

CONSTANTS Clients,  \* the tasks that hold a session_tx
          Message,  \* what they push
          Nothing   \* a client that has no view

VARIABLES
  log,   \* the conversation
  view   \* the context each client has asked for and not used yet

vars == <<log, view>>

Init ==
  /\ log = <<>>
  /\ view = [c \in Clients |-> Nothing]

Push(m) ==
  /\ log' = Append(log, m)
  /\ UNCHANGED view

Fetch(c) ==
  /\ view[c] = Nothing
  /\ view' = [view EXCEPT ![c] = log]
  /\ UNCHANGED log

\* The client uses its view, or stops waiting for it.
Release(c) ==
  /\ view[c] # Nothing
  /\ view' = [view EXCEPT ![c] = Nothing]
  /\ UNCHANGED log

Clear ==
  /\ log' = <<>>
  /\ UNCHANGED view

Next ==
  \/ \E m \in Message : Push(m)
  \/ \E c \in Clients : Fetch(c) \/ Release(c)
  \/ Clear

Spec == Init /\ [][Next]_vars
=============================================================================
