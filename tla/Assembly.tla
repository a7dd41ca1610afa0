------------------------------ MODULE Assembly ------------------------------
(***************************************************************************)
(* A runtime from its builder to its end: RuntimeBuilder is called, builds *)
(* and spawns the environment actor with the registries it has made        *)
(* (spawn_env_actor), which then runs as EnvActor.                         *)
(***************************************************************************)
EXTENDS EnvActor

CONSTANTS Listing, Text, Markdown, DefaultDirs, NoSkill, Policies, Shell, Under, MaxCalls

VARIABLES stage, builder, runtime, given, late, calls

Builder == INSTANCE RuntimeBuilder WITH SkillNames <- Skills, None <- Nobody

ASSUME AssemblyAssumption ==
  /\ Nobody \notin Policies \cup DOMAIN Under \cup [sandbox : BOOLEAN]
  /\ \A p \in Policies : p.enabled \in BOOLEAN /\ Builder!Roots(p) # Nobody
  /\ \A f \in DOMAIN Text : Text[f].name \in Skills \cup {NoSkill}

buildVars == <<stage, builder, runtime, given, late, calls>>
allVars == <<vars, buildVars>>

\* There is no actor yet: nothing is registered.
AssemblyInit ==
  /\ Init
  /\ Builder!Init
  /\ tools = [t \in Tools |-> "none"]
  /\ skills = [s \in Skills |-> "none"]

\* FuneraEnv::with_tool_registry and with_skill_registry push to the watch
\* channels what the registries offer.
Spawn ==
  /\ stage = "built"
  /\ stage' = "spawned"
  /\ tools' = [t \in Tools |-> IF t \in DOMAIN runtime.registry.tools THEN "on" ELSE "none"]
  /\ skills' = [s \in Skills |-> IF s \in DOMAIN runtime.library.skills
                                 THEN runtime.library.skills[s] ELSE "none"]
  /\ active' = runtime.library.active
  /\ offered' = Available(tools')
  /\ prompt' = Joined(skills', active')
  \* What was configured is of no more use.
  /\ builder' = Nobody /\ runtime' = Nobody /\ given' = Nobody /\ late' = FALSE /\ calls' = 0
  /\ UNCHANGED <<clientVars, mailbox, actor, todo, writes, loopVars, ops, effectVars>>

AssemblyNext ==
  \/ (Builder!Configure \/ Builder!Build) /\ UNCHANGED vars
  \/ Spawn
  \/ stage = "spawned" /\ Next /\ UNCHANGED buildVars

AssemblySpec ==
  AssemblyInit /\ [][AssemblyNext]_allVars
    /\ WF_allVars(stage = "spawned" /\ Actor /\ UNCHANGED buildVars)

FenceHolds == Builder!FenceHolds
=============================================================================
