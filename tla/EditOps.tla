------------------------------- MODULE EditOps -------------------------------
(***************************************************************************)
(* What the edit tool makes of a file (funera_builtin_tools: edit.rs,      *)
(* hashline.rs): its lines and their anchors, the verification of an       *)
(* anchor, and a batch of edits applied bottom up.  The content of a file  *)
(* is a sequence of characters, a text the sequence of its lines.          *)
(***************************************************************************)
EXTENDS Naturals, Sequences, SequencesExt, FiniteSets

CONSTANTS NL, CR,      \* the characters that end a line
          Spaces,      \* those that trim_end takes away
          Hash(_,_,_), \* the eight bits that are kept of a line and its neighbours
          Prefixed,    \* the lines that look like LINE#HASH
          NoAnchor     \* an anchor that is missing or cannot be parsed

EndsIn(line, char) == line # <<>> /\ Last(line) = char
Chomped(line) == IF EndsIn(line, CR) THEN Front(line) ELSE line

\* str::lines: a line ends at NL or at CR NL, and what follows the last NL
\* is a line of its own unless it is empty.
Grown(cut, char) ==
  IF char = NL THEN [ended |-> Append(cut.ended, Chomped(cut.open)), open |-> <<>>]
  ELSE [ended |-> cut.ended, open |-> Append(cut.open, char)]

LinesOf(content) ==
  LET cut[n \in 0 .. Len(content)] ==
        IF n = 0 THEN [ended |-> <<>>, open |-> <<>>] ELSE Grown(cut[n - 1], content[n])
      all == cut[Len(content)]
  IN  IF all.open = <<>> THEN all.ended ELSE Append(all.ended, all.open)

\* lines.join, and the newline that apply_ops puts back, also where no line
\* is left: one that ended in CR NL now ends in NL.
Joined(text) == FlattenSeq([n \in DOMAIN text |-> IF n = 1 THEN text[n] ELSE <<NL>> \o text[n]])
Ending(content) == IF EndsIn(content, NL) THEN <<NL>> ELSE <<>>

\* Lines are counted from 1; line 0 of an anchor saturates to the first.
Index(anchor) == IF anchor.line = 0 THEN 1 ELSE anchor.line

\* The first and the last line have an empty neighbour.
LineAt(text, n) == IF n \in DOMAIN text THEN text[n] ELSE <<>>

\* normalize_line
Normal(line) ==
  LET ink == {n \in DOMAIN line : line[n] \notin Spaces}
  IN  SelectSeq(SubSeq(line, 1, IF ink = {} THEN 0 ELSE Max(ink)), LAMBDA char : char # CR)

\* compute_anchor, and the anchor that a read prints for line n.
Around(text, n) ==
  Hash(Normal(LineAt(text, n - 1)), Normal(LineAt(text, n)), Normal(LineAt(text, n + 1)))
Anchor(text, n) == [line |-> n, hash |-> Around(text, n)]

\* Fault: the hash of the line is not compared.
Verified_InRange(anchor, text) == Index(anchor) <= Len(text)

Verified(anchor, text) ==
  Index(anchor) <= Len(text) /\ Around(text, Index(anchor)) = anchor.hash

\* The edits: pos, end and lines of an anchored one, old and new of a
\* replace_text.
Anchored(op, pos, end, lines) == [op |-> op, pos |-> pos, end |-> end, lines |-> lines]
Replaced(old, new) == [op |-> "replace_text", old |-> old, new |-> new, lines |-> <<>>]

\* Edits as an author plans them: in place of an anchor the number of a line.
Edits(Char) ==
  [op : {"replace", "append", "prepend"}, pos : {NoAnchor} \cup Nat, end : {NoAnchor} \cup Nat,
   lines : Seq(Seq(Char))]
    \cup [op : {"replace_text"}, old : Seq(Char), new : Seq(Char), lines : {<<>>}]

IsText(edit) == edit.op = "replace_text"
Anchors(edit) == IF IsText(edit) THEN {} ELSE {edit.pos, edit.end} \ {NoAnchor}
EndOf(edit)   == IF edit.end = NoAnchor THEN edit.pos ELSE edit.end

\* Where part occurs in the content whole, and first; str::matches counts
\* from the left and takes no character twice.
At(part, whole) ==
  {n \in 1 .. Len(whole) + 1 : n + Len(part) <= Len(whole) + 1 /\ SubSeq(whole, n, n + Len(part) - 1) = part}
First(part, whole) == CHOOSE n \in At(part, whole) : \A m \in At(part, whole) : n <= m
Unique(part, whole) ==
  /\ At(part, whole) # {}
  /\ \A n \in At(part, whole) : n = First(part, whole) \/ n < First(part, whole) + Len(part)

\* Every edit is validated on the text as it was read.
Valid(edit, text) ==
  IF IsText(edit) THEN Unique(edit.old, Joined(text))
  ELSE /\ edit.pos # NoAnchor
       /\ \A anchor \in Anchors(edit) : Verified(anchor, text)
       /\ EndOf(edit).line >= edit.pos.line

Key(edit) == IF IsText(edit) THEN 0 ELSE edit.pos.line

\* Fault: the sorted edits are not reversed.
Before_TopDown(batch, i, j) ==
  \/ Key(batch[i]) < Key(batch[j])
  \/ Key(batch[i]) = Key(batch[j]) /\ i < j

\* A stable sort by line, reversed: from the bottom up, and of two edits of
\* one line the later first.
Before(batch, i, j) ==
  \/ Key(batch[i]) > Key(batch[j])
  \/ Key(batch[i]) = Key(batch[j]) /\ i > j

\* The edit that k - 1 others come before.
Order(batch) ==
  [k \in DOMAIN batch |->
     CHOOSE i \in DOMAIN batch : Cardinality({j \in DOMAIN batch : Before(batch, j, i)}) = k - 1]

Splice(text, from, to, lines) == SubSeq(text, 1, from - 1) \o lines \o SubSeq(text, to + 1, Len(text))

Outcome(status, text) == [status |-> status, text |-> text]

\* replacen(old, new, 1)
Substituted(whole, old, new) ==
  IF At(old, whole) = {} THEN whole
  ELSE LET n == First(old, whole) IN Splice(whole, n, n + Len(old) - 1, new)

\* One edit on what the edits below it have left.  Append computes
\* lines.len() - 1, which panics where overflows are checked when no line is
\* left (and elsewhere as soon as it has a line to add); a replace_text
\* splits all lines again.
Applied(done, edit) ==
  LET text == done.text
      i == IF IsText(edit) THEN 0 ELSE Index(edit.pos)
      j == IF IsText(edit) THEN 0 ELSE Index(EndOf(edit))
  IN CASE done.status # "ok" -> done
       [] done.status = "ok" /\ edit.op = "replace" ->
            IF j > Len(text) \/ i > j THEN Outcome("rejected", text)
            ELSE Outcome("ok", Splice(text, i, j, edit.lines))
       [] done.status = "ok" /\ edit.op = "append" ->
            IF text = <<>> THEN Outcome("panicked", text)
            ELSE LET at == IF i >= Len(text) THEN Len(text) ELSE i
                 IN Outcome("ok", Splice(text, at + 1, at, edit.lines))
       [] done.status = "ok" /\ edit.op = "prepend" ->
            IF i > Len(text) + 1 THEN IF edit.lines = <<>> THEN done ELSE Outcome("panicked", text)
            ELSE Outcome("ok", Splice(text, i, i - 1, edit.lines))
       [] done.status = "ok" /\ edit.op = "replace_text" ->
            Outcome("ok", LinesOf(Substituted(Joined(text), edit.old, edit.new)))

\* The edits one after the other.
Done(text, batch) ==
  LET order == Order(batch)
      done[n \in 0 .. Len(batch)] ==
        IF n = 0 THEN Outcome("ok", text) ELSE Applied(done[n - 1], batch[order[n]])
  IN  done[Len(batch)]

\* apply_ops and the checks around it: the prefix of a copied line, and a
\* batch that changes nothing.
Edited(content, batch) ==
  LET text == LinesOf(content)
      done == Done(text, batch)
      whole == Joined(done.text) \o Ending(content)
  IN  IF \/ batch = <<>>
         \/ \E i \in DOMAIN batch : Range(batch[i].lines) \cap Prefixed # {}
         \/ \E i \in DOMAIN batch : ~Valid(batch[i], text)
      THEN Outcome("rejected", content)
      ELSE IF done.status # "ok" THEN Outcome(done.status, content)
      ELSE Outcome(IF whole = content THEN "noop" ELSE "ok", whole)

-----------------------------------------------------------------------------
(* What a batch means, said of the original lines: a reference that knows  *)
(* no order.  It covers the batches whose edits concern different lines.   *)

Lines(edit) == Index(edit.pos) .. Index(EndOf(edit))

Disjoint(batch) ==
  /\ \A i \in DOMAIN batch : ~IsText(batch[i])
  /\ \A i, j \in DOMAIN batch : i # j => Lines(batch[i]) \cap Lines(batch[j]) = {}

Piece(text, edit, n) ==
  CASE edit.op = "append"  -> IF n = Index(edit.pos) THEN <<text[n]>> \o edit.lines ELSE <<text[n]>>
    [] edit.op = "prepend" -> IF n = Index(edit.pos) THEN edit.lines \o <<text[n]>> ELSE <<text[n]>>
    [] edit.op = "replace" -> IF n = Index(edit.pos) THEN edit.lines ELSE <<>>

Meaning(text, batch) ==
  FlattenSeq([n \in DOMAIN text |->
    IF \E i \in DOMAIN batch : n \in Lines(batch[i])
    THEN Piece(text, batch[CHOOSE i \in DOMAIN batch : n \in Lines(batch[i])], n)
    ELSE <<text[n]>>])
=============================================================================
