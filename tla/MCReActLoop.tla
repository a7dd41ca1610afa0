---------------------------- MODULE MCReActLoop ----------------------------
(* The sets of event kinds that the middleware of a run may block. *)
EXTENDS Wire

MCNone == {}
\* A text that is blocked leaves a history like that of a turn without one.
MCBlockable == {"request", "response", "cancelled"}
=============================================================================
