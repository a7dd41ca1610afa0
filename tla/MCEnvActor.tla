----------------------------- MODULE MCEnvActor -----------------------------
(***************************************************************************)
(* An instance of Assembly for TLC.  One directory holds two skills of one *)
(* name, a file that does not close its frontmatter and a file that is no  *)
(* Markdown; the other default path is not a directory.                    *)
(***************************************************************************)
EXTENDS Assembly, TLC

CONSTANTS u, t, s, e1, e2, dir, absent, plain, hidden, open, other, home, box, inner, outer, far

MCClients == {u}
MCTools   == {t}
MCSkills  == {s}
MCBodies  == {e1, e2}

Page(name) == [opens |-> TRUE, closes |-> TRUE, name |-> name, disabled |-> FALSE, body |-> TRUE]

MCListing  == dir :> {plain, hidden, open, other}
MCText     == plain :> Page(s) @@ hidden :> [Page(s) EXCEPT !.disabled = TRUE]
                @@ open :> [Page(s) EXCEPT !.closes = FALSE] @@ other :> Page(s)
MCMarkdown == {plain, hidden, open}
MCDefaultDirs == <<absent, dir>>

MCUnder == inner :> {home, box} @@ outer :> {box} @@ far :> {}

\* Bounds the overlaps that are explored: a turn shares only the channels'
\* writes with the rest, so nothing is lost when subscribers, effects and the
\* teardown are explored between turns.
Alone ==
  turn > 0 => /\ senders = Clients /\ \A c \in Clients : feed[c] = Nobody
              /\ setup = {} /\ registered = <<>>

Rules == INSTANCE Guard WITH Under <- MCUnder, Spelled <- MCUnder, Dangerous <- {},
                             MaxArgs <- 1, MaxTimeout <- 1, None <- Nobody
MCPolicies == {Rules!StrictReadWrite(home), [Rules!DefaultSandbox EXCEPT !.read = {box}],
               Rules!DefaultSandbox, [Rules!Disabled EXCEPT !.read = {box}]}
=============================================================================
