-------------------------- MODULE MCCallLifecycle --------------------------
(***************************************************************************)
(* A streaming call, which may emit more than the channels hold, and a     *)
(* plain one; one of them on a session of its own.  The events of two      *)
(* calls mix in the second pair, so the plain call of the first has none.  *)
(***************************************************************************)
EXTENDS CallLifecycle, TLC

CONSTANTS c1, c2

MCCalls == {c1, c2}
MCKinds == {c1 :> "fire_stream" @@ c2 :> "send", c1 :> "send_stream" @@ c2 :> "fire"}
MCMaxEvents ==
  [k \in Kind |-> CASE k = "fire_stream" -> 3 [] k = "send" -> 0 [] OTHER -> 1]

MCOneCall == {c1}
MCOneKind == {c1 :> "fire_stream"}
=============================================================================
