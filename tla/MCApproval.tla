----------------------------- MODULE MCApproval -----------------------------
(***************************************************************************)
(* Three tool calls of two turns that run at once.  The settings with an   *)
(* edit inside the fence, one of a file that is yet to be created and a    *)
(* third call make the calls meet; the others put one call before each     *)
(* rule of the policy.                                                     *)
(***************************************************************************)
EXTENDS Approval, TLC

CONSTANTS k1, k2, k3, t1, t2, inner, outer, new, far, edit, shell, lost, write,
          home, box, git, rm, curl

MCIds == {k1, k2, k3}
MCTurns == {t1, t2}
MCTurnOf == [k \in MCIds |-> IF k = k1 THEN t1 ELSE t2]
MCMaxAnswers == [k \in MCIds |-> IF k = k1 THEN 2 ELSE 1]

\* "new" is spelled relative to the working directory.
MCUnder == inner :> {home, box} @@ outer :> {box} @@ new :> {home, box} @@ far :> {}
MCSpelled == inner :> {home, box} @@ outer :> {box} @@ new :> {} @@ far :> {}

Plain(tool) == [tool |-> tool, size |-> 0, timeout |-> None, workdir |-> None,
                command |-> None, filePath |-> None]
Edit(file) == [Plain(edit) EXCEPT !.filePath = file]
Shell(starts, has) == [Plain(shell) EXCEPT !.command = [starts |-> starts, has |-> has]]

Policy == [DefaultToolPolicy EXCEPT !.sandbox = FALSE]
Rules == [Policy EXCEPT
            !.allowed_tools = {edit, shell, write}, !.denied_tools = {write}, !.allowed_workdirs = {home},
            !.shell_policy = [WithAllowed({git}) EXCEPT !.deny_patterns = {curl}]]

Registry(policy, first, second, third) ==
  [policy |-> policy, shells |-> {shell}, registered |-> {edit, shell, write}, zone |-> {home}, fence |-> {box},
   files |-> {inner, outer, far}, callback |-> TRUE, approval_timeout |-> TRUE,
   calls |-> k1 :> first @@ k2 :> second @@ k3 :> third]

Sandboxed == Registry(DefaultToolPolicy, Edit(outer), Edit(new), Edit(inner))

MCSettings ==
  { Registry(Policy, Edit(outer), Edit(new), Shell({}, {rm})),
    [Registry(Policy, Edit(inner), Edit(new), Edit(new)) EXCEPT !.approval_timeout = FALSE],
    [Sandboxed EXCEPT !.approval_timeout = FALSE],
    [Sandboxed EXCEPT !.callback = FALSE, !.calls[k1] = Edit(inner)],
    [Sandboxed EXCEPT !.calls[k1] = [Edit(outer) EXCEPT !.tool = lost],
                      !.calls[k3] = Edit(far), !.zone = None] }
  \cup { Registry(Rules, one, Plain(write), Plain(lost)) :
           one \in { Shell({git}, {}), Shell({git}, {rm}), Shell({git}, {curl}), Shell({}, {}),
                     [Edit(inner) EXCEPT !.size = 2], [Edit(inner) EXCEPT !.timeout = 2],
                     [Edit(inner) EXCEPT !.workdir = {}], [Edit(inner) EXCEPT !.workdir = {home}] } }
  \cup { Registry(StrictToolPolicy, Edit(inner), Plain(edit), Shell({}, {})) }
=============================================================================
