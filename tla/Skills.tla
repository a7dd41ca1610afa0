------------------------------- MODULE Skills -------------------------------
(***************************************************************************)
(* Skill files and the skill registry (re_act/skills.rs).  Of a file only  *)
(* what the parser asks is kept: whether its text opens and closes with    *)
(* "---", the YAML between, and whether a body follows.  Of a skill its    *)
(* name is kept, and whether a prompt may show it ("plain") or leaves it   *)
(* out ("hidden": disable-model-invocation, or no body).                   *)
(***************************************************************************)
EXTENDS Naturals

CONSTANTS Listing,      \* for each directory its files; nothing else is a directory
          Text,         \* for each file that can be read its text
          Markdown,     \* the files that end in .md
          DefaultDirs,  \* $SKILLS_HOME and ~/.agents/skills, if set
          NoSkill       \* what cannot be parsed

Kinds == {"plain", "hidden"}

\* Skill::from_str: an error is NoSkill; a missing flag is "false".
FromStr(text) ==
  IF text.opens /\ text.closes /\ text.name # NoSkill
  THEN [name |-> text.name, kind |-> IF text.disabled \/ ~text.body THEN "hidden" ELSE "plain"]
  ELSE NoSkill

\* Skill::from_file
FromFile(f) == IF f \in DOMAIN Text THEN FromStr(Text[f]) ELSE NoSkill

-----------------------------------------------------------------------------
(* A list of skills is only ever registered, in its order: what is kept of *)
(* it is, for each name, the kind of its last skill of that name.          *)

Names(ss) == {s.name : s \in ss}

\* The lists of these skills, in any order.
Lists(ss) ==
  {l \in [Names(ss) -> Kinds] : \A n \in Names(ss) : [name |-> n, kind |-> l[n]] \in ss}

\* A list after another one: the later skill of a name replaces the earlier.
Over(later, earlier) ==
  [n \in DOMAIN later \cup DOMAIN earlier |-> IF n \in DOMAIN later THEN later[n] ELSE earlier[n]]

One(name, what) == [n \in {name} |-> what]

\* The skills of a directory, without what cannot be parsed.
Found(d) == {FromFile(f) : f \in Listing[d] \cap Markdown} \ {NoSkill}

\* Skill::from_dir: a directory is listed in any order.
FromDir(d) == Lists(Found(d))

\* Skill::from_default_path: those of the default directories that there are,
\* one directory after the other.
FromDefaultPath ==
  LET dirs     == {i \in DOMAIN DefaultDirs : DefaultDirs[i] \in DOMAIN Listing}
      found(i) == Found(DefaultDirs[i])
      last(i)  == {s \in found(i) : \A j \in dirs : j > i => s.name \notin Names(found(j))}
  IN  Lists(UNION {last(i) : i \in dirs})

-----------------------------------------------------------------------------
(* SkillRegistry: what it holds, by name, and the active names. *)

NoSkills == [skills |-> <<>>, active |-> {}]

\* A skill replaces the one of its name, which stays active if it was.
AddAll(reg, list) == [reg EXCEPT !.skills = Over(list, @)]

\* Fault: the name need not be known.
Activate_Unknown(reg, name) == [reg EXCEPT !.active = @ \cup {name}]

Activate(reg, name) ==
  IF name \in DOMAIN reg.skills THEN [reg EXCEPT !.active = @ \cup {name}] ELSE reg

ActivateAll(reg, names) ==
  [reg EXCEPT !.active = @ \cup UNION {Activate(reg, n).active : n \in names}]
=============================================================================
