--------------------------- MODULE RuntimeBuilder ---------------------------
(***************************************************************************)
(* AgentRuntimeBuilder (runtime.rs): its methods, called in any order, and *)
(* build_with, which makes of them the tool registry with its policy, path *)
(* guard and fence (security/registry.rs), the skill registry, the         *)
(* environment, the middleware chain and the actor's configuration.        *)
(*                                                                         *)
(* A sandbox policy is the roots it names and whether it is enabled; of a  *)
(* tool policy only its own sandbox flag matters here (Guard has its       *)
(* rules).  Tools are registered in the order in which they were given, so *)
(* that of a name the last is kept; skills likewise (Skills).  Numbers and *)
(* names (buffer sizes, model, level) are passed on.                       *)
(***************************************************************************)
EXTENDS Naturals

CONSTANTS SkillNames, Listing, Text, Markdown, DefaultDirs, NoSkill,
          Policies,    \* the sandbox policies a user may give
          Shell,       \* the name of the built-in shell tool
          Under,       \* for each file, the roots it lies under
          None,
          MaxCalls     \* bound: the methods called before build

VARIABLES
  stage,    \* configuring, built, failed; then spawned
  builder,  \* AgentRuntimeBuilder
  runtime,  \* what build_with has made
  given,    \* history: the last sandbox policy given
  late,     \* history: it was given after the built-in tools
  calls     \* history: how many methods have been called

Library == INSTANCE Skills
\* The files exist while they are looked at.
Checks == INSTANCE Guard WITH Spelled <- Under, Dangerous <- {}, MaxArgs <- 1, MaxTimeout <- 1

DefaultPolicy == [sandbox |-> Checks!DefaultToolPolicy.sandbox]
Roots(s) == s.read \cup s.readWrite

Init ==
  /\ stage = "configuring"
  \* OPENAI_API_KEY may be set.
  /\ builder \in [key : BOOLEAN, client : {FALSE}, tools : {<<>>}, skills : {<<>>},
                  activate : {{}}, load : {FALSE}, sandbox : {None}, policy : {None},
                  callback : {FALSE}, timeout : {FALSE}, bundle : {FALSE}]
  /\ runtime = None
  /\ given = None
  /\ late = FALSE
  /\ calls = 0

-----------------------------------------------------------------------------
(* The methods.  *)

Set(b) == builder' = b /\ UNCHANGED <<given, late>>

ApiKey == Set([builder EXCEPT !.key = TRUE])
Client == Set([builder EXCEPT !.client = TRUE])
WithToolPolicy == \E flag \in BOOLEAN : Set([builder EXCEPT !.policy = [sandbox |-> flag]])
OnApprovalRequired == Set([builder EXCEPT !.callback = TRUE])
WithApprovalTimeout == Set([builder EXCEPT !.timeout = TRUE])
WithMiddlewareBundle == Set([builder EXCEPT !.bundle = TRUE])

\* A file that is no skill, or a path that is no directory, is a warning.
WithSkillFile ==
  \E f \in UNION {Listing[d] : d \in DOMAIN Listing} :
    LET skill == Library!FromFile(f)
    IN  Set(IF skill = NoSkill THEN builder
            ELSE [builder EXCEPT !.skills = Library!Over(Library!One(skill.name, skill.kind), @)])
WithSkillsDir ==
  \E d \in DOMAIN Listing : \E list \in Library!FromDir(d) :
    Set([builder EXCEPT !.skills = Library!Over(list, @)])
WithSkill ==
  \E n \in SkillNames, kind \in Library!Kinds :
    Set([builder EXCEPT !.skills = Library!Over(Library!One(n, kind), @)])
WithSkillActive == \E n \in SkillNames : Set([builder EXCEPT !.activate = @ \cup {n}])
WithSkillsDefaultPath == Set([builder EXCEPT !.load = TRUE])

\* A tool of the user's may take the name of the built-in one.
WithTool ==
  Set([builder EXCEPT !.tools = Library!Over(Library!One(Shell, [builtin |-> FALSE, fence |-> None]), @)])

\* Fault: the policy given first stays.
WithSandboxPolicy_KeepsFirst ==
  \E s \in Policies :
    /\ builder' = IF builder.sandbox = None THEN [builder EXCEPT !.sandbox = s] ELSE builder
    /\ given' = s
    /\ late' = \E n \in DOMAIN builder.tools : builder.tools[n].builtin

WithSandboxPolicy ==
  \E s \in Policies :
    /\ builder' = [builder EXCEPT !.sandbox = s]
    /\ given' = s
    /\ late' = \E n \in DOMAIN builder.tools : builder.tools[n].builtin

\* The shell takes the policy that there is now.  A later call brings a new
\* shell with the policy of its day.
WithBuiltinTools ==
  /\ builder' = [builder EXCEPT
       !.tools = Library!Over(Library!One(Shell, [builtin |-> TRUE, fence |-> builder.sandbox]), @)]
  /\ late' = FALSE
  /\ UNCHANGED given

Configure ==
  /\ stage = "configuring"
  /\ calls < MaxCalls
  /\ calls' = calls + 1
  /\ \/ ApiKey \/ Client
     \/ WithToolPolicy \/ WithSandboxPolicy \/ OnApprovalRequired \/ WithApprovalTimeout
     \/ WithSkillFile \/ WithSkillsDir \/ WithSkill \/ WithSkillActive \/ WithSkillsDefaultPath
     \/ WithTool \/ WithBuiltinTools
     \/ WithMiddlewareBundle
  /\ UNCHANGED <<stage, runtime>>

-----------------------------------------------------------------------------
(* build_with. *)

\* The policy of the registry: the user's, else the default one with the
\* sandbox policy of the builder in it.
Policy ==
  CASE builder.policy # None -> builder.policy
    [] builder.policy = None /\ builder.sandbox # None -> [sandbox |-> builder.sandbox.enabled]
    [] OTHER -> DefaultPolicy

\* Fault: only the paths that may be written.
Zone_WriteOnly ==
  IF builder.sandbox # None /\ builder.sandbox.enabled /\ builder.sandbox.readWrite # {}
  THEN builder.sandbox.readWrite ELSE None

\* The path guard: there is none without a path to trust.
Zone ==
  IF builder.sandbox # None /\ builder.sandbox.enabled /\ Roots(builder.sandbox) # {}
  THEN Roots(builder.sandbox) ELSE None

\* set_sandbox_paths
Fence == IF builder.sandbox = None THEN {} ELSE Roots(builder.sandbox)

Registry == [policy |-> Policy, zone |-> Zone, fence |-> Fence, tools |-> builder.tools,
             callback |-> builder.callback, approval_timeout |-> builder.timeout]

\* Skills given to the builder come after those of the default paths, whose
\* names are activated last.
SkillRegistries ==
  {Library!ActivateAll(Library!AddAll(Library!NoSkills, Library!Over(builder.skills, found)),
                       builder.activate \cup DOMAIN found) :
     found \in IF builder.load THEN Library!FromDefaultPath ELSE {<<>>}}

\* Without a client and without a key it is an error.
Build ==
  /\ stage = "configuring"
  /\ IF builder.client \/ builder.key
     THEN /\ stage' = "built"
          /\ runtime' \in
               [registry : {Registry}, library : SkillRegistries,
                sandbox : {IF builder.sandbox = None THEN Checks!DefaultSandbox ELSE builder.sandbox},
                chain : {IF builder.bundle THEN "bundle" ELSE "empty"}]
     ELSE stage' = "failed" /\ UNCHANGED runtime
  /\ UNCHANGED <<builder, given, late, calls>>

-----------------------------------------------------------------------------
(* Properties. *)

Call(f) == [filePath |-> f]

(***************************************************************************)
(* In whatever order the builder's methods are called: the registry lets a *)
(* call in without asking exactly for the files under the paths of the     *)
(* enabled sandbox policy that was given last, and turns down the others   *)
(* unless the user's own tool policy says otherwise; the actor reports     *)
(* that policy; and the built-in shell runs under it, if it was not given  *)
(* after with_builtin_tools (which then keeps the earlier one, or none).   *)
(***************************************************************************)
FenceHolds ==
  stage = "built" =>
    LET trusted(f) == given # None /\ given.enabled /\ Under[f] \cap Roots(given) # {}
    IN  /\ \A f \in DOMAIN Under :
             /\ Checks!AutoApproved(runtime.registry, Call(f), DOMAIN Under) <=> trusted(f)
             /\ ~trusted(f) /\ builder.policy = None /\ (given # None => given.enabled)
                  => Checks!Rejected(runtime.registry, Call(f), DOMAIN Under)
        /\ runtime.sandbox = IF given = None THEN Checks!DefaultSandbox ELSE given
        /\ \A n \in DOMAIN runtime.registry.tools :
             runtime.registry.tools[n].builtin /\ ~late => runtime.registry.tools[n].fence = given
=============================================================================
