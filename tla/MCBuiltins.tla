----------------------------- MODULE MCBuiltins -----------------------------
(* Two calls of any of the tools, or a batch of two edits alone. *)
EXTENDS Builtins, TLC

CONSTANTS f1, f2, s1, s2, a, b, x

Ops == INSTANCE EditOps

MCCalls    == {f1, f2}
MCCommands == {s1, s2}
\* Three lines and one; the first ends in CR NL, the last in nothing.
MCTexts    == {<<a, CR, NL, x, b, NL, a, NL>>, <<x>>}
MCSpaces   == {CR, NL}
MCPrefixed == {<<b, b>>}

\* A hash under which lines of one length collide.
MCHash(prev, curr, end) == <<Len(prev), Len(curr), Len(end)>>

Append_(n, lines)  == Ops!Anchored("append", n, NoAnchor, lines)
Prepend_(n, lines) == Ops!Anchored("prepend", n, NoAnchor, lines)
Replace_(n, end, lines) == Ops!Anchored("replace", n, end, lines)

\* One edit each when two calls are at work ...
MCPlans == {<<Append_(1, <<<<x>>>>)>>, <<Replace_(1, NoAnchor, <<<<b>>>>)>>}

\* ... and every pair of edits of up to two lines for a call alone.
Lines == {<<>>, <<<<x>>, <<b, NL>>>>}
Edits == {Append_(n, l) : n \in 0 .. 3, l \in Lines}
         \cup {Prepend_(n, l) : n \in 0 .. 3, l \in Lines}
         \cup {Replace_(n, m, l) : n \in 1 .. 3, m \in {NoAnchor} \cup 1 .. 3, l \in Lines}
         \cup {Replace_(0, 2, <<>>)}
         \cup {Ops!Replaced(old, <<x>>) : old \in {<<a>>, <<b, NL>>}}
         \cup {Append_(1, <<l>>) : l \in MCPrefixed}
Pairs == {<<d, e>> : d, e \in Edits}

FilesAt == {f \in Calls : filePc[f] # "new"}
ShellsAt == {c \in Commands : shellPc[c] # "new"}
Paired  == \E f \in Calls : request[f] # Nothing /\ Len(request[f].batch) > 1

StartPair ==
  /\ FilesAt \cup ShellsAt = {}
  /\ mode = "plain"
  /\ \E p \in Pairs, s \in known :
       Files!Submit(f1, Files!Request("edit", Nothing, s, Files!Batch(p, s)))
  /\ UNCHANGED shellVars

\* Bounds: two calls, or one of a batch of two edits.  Two commands share
\* nothing but under Windows, and two calls on the file do not look at the
\* mode.  Next to a call on the file, which then exists, the child of a
\* command leaves its pipes alone; without one it leaves the file alone; and
\* a child in no sandbox, or under Landlock, may write the file as under
\* Windows the child of a command whose full sandbox has failed.
\* The children of two commands write once less than that of one.  Where
\* icacls fails, which it does for one command, no other step of a sandbox
\* does, and the children leave their pipes alone.
Room(next) ==
  \/ FilesAt \cup ShellsAt = {}
  \/ Cardinality(FilesAt \cup ShellsAt) = 1 /\ ~Paired /\ next

Bounded ==
  /\ FilesAt' = {} => UNCHANGED data
  /\ Cardinality(ShellsAt') = 2 => Shells!Writes' < MaxChunks
  /\ Cardinality(unheard') <= 1 /\ (unheard' # {} => fallback' = {})
  /\ FilesAt' # {} \/ unheard' # {} =>
       \A c \in Commands : chunks'[c] = 0 /\ child'[c] \notin {"out", "err"}

Exists == inode["file"] = "first"
Mixed  == Exists /\ mode = "windows"

MCNext ==
  \/ StartPair
  \/ Room(IF ShellsAt = {} THEN mode = "plain" ELSE Mixed) /\ FileStart
  \/ Room(IF ShellsAt = {} THEN Mixed ELSE (mode = "windows" /\ ~Exists)) /\ ShellStart
  \/ Work

MCSpec == Init /\ [][MCNext /\ Bounded]_vars /\ Shells!Fairness
=============================================================================
