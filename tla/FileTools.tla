------------------------------ MODULE FileTools ------------------------------
(***************************************************************************)
(* The read, write and edit tools (funera_builtin_tools: read.rs, write.rs,*)
(* edit.rs) at work on one file.  Each call runs on a worker of its own    *)
(* and nothing orders them: an edit reads the file, computes the new text, *)
(* writes it to .<name>.tmp and renames that over the file; a write        *)
(* truncates the file in place.  Every step is one blocking operation of   *)
(* tokio::fs, which a cancelled call leaves to complete.                   *)
(***************************************************************************)
EXTENDS EditOps

CONSTANTS Calls,
          Texts,   \* what a call of write may write, and the first contents
          Plans,   \* the batches an author may plan, with line numbers
          Nothing  \* no inode, no text, no request

VARIABLES
  inode,     \* what the names "file" and "temp" refer to
  data,      \* the contents of the inodes
  pc,        \* the next operation of each call
  request,   \* its arguments
  base,      \* the text an edit read
  out,       \* the text a call writes
  fd,        \* the inode it has open
  verdict,   \* what it returned
  cancelled, \* the calls whose token has fired
  known,     \* history: the texts whose anchors some call has reported
  met        \* history: the calls that did not have the file to themselves

fileVars == <<inode, data>>
callVars == <<pc, request, base, out, fd, verdict>>
vars == <<fileVars, callVars, cancelled, known, met>>

\* An inode is named after the call that created it.
Inodes == Calls \cup {"first"}
Contents(name) == IF inode[name] = Nothing THEN Nothing ELSE data[inode[name]]

Running == {c \in Calls : pc[c] \notin {"new", "done"}}
IsEdit(c) == request[c] # Nothing /\ request[c].tool = "edit"

\* An author cites the lines of a file it has seen: line 0 with the hash of 1.
Cite(n, seen) ==
  IF n = NoAnchor THEN NoAnchor
  ELSE [line |-> n, hash |-> Anchor(LinesOf(seen), IF n = 0 THEN 1 ELSE n).hash]
Batch(plan, seen) ==
  [i \in DOMAIN plan |-> IF IsText(plan[i]) THEN plan[i]
                         ELSE [plan[i] EXCEPT !.pos = Cite(@, seen), !.end = Cite(@, seen)]]

Request(tool, text, seen, batch) == [tool |-> tool, text |-> text, seen |-> seen, batch |-> batch]
Requests == {Request("read", Nothing, Nothing, <<>>)}
            \cup {Request("write", t, Nothing, <<>>) : t \in Texts}
            \cup {Request("edit", Nothing, s, Batch(p, s)) : p \in Plans, s \in known}

\* The file may not exist yet; if it does, some call has read it.
Init ==
  /\ \E t \in Texts \cup {Nothing} :
       /\ inode = [name \in {"file", "temp"} |->
                     IF name = "file" /\ t # Nothing THEN "first" ELSE Nothing]
       /\ data = [i \in Inodes |-> IF i = "first" /\ t # Nothing THEN t ELSE <<>>]
       /\ known = {t} \ {Nothing, <<>>}
  /\ pc = [c \in Calls |-> "new"]
  /\ request = [c \in Calls |-> Nothing]
  /\ base = [c \in Calls |-> Nothing]
  /\ out = [c \in Calls |-> Nothing]
  /\ fd = [c \in Calls |-> Nothing]
  /\ verdict = [c \in Calls |-> "none"]
  /\ cancelled = {}
  /\ met = {}

Goto(c, from, to) == pc[c] = from /\ pc' = [pc EXCEPT ![c] = to]

\* What a call returns; one whose future was dropped returns nothing.
End(c, v) ==
  /\ pc' = [pc EXCEPT ![c] = "done"]
  /\ verdict' = [verdict EXCEPT ![c] = IF c \in cancelled THEN "cancelled" ELSE v]

Submit(c, r) ==
  /\ Goto(c, "new", IF r.tool = "write" THEN "open" ELSE "load")
  /\ request' = [request EXCEPT ![c] = r]
  /\ out' = [out EXCEPT ![c] = r.text]
  /\ met' = IF Running = {} THEN met ELSE met \cup Running \cup {c}
  /\ UNCHANGED <<fileVars, base, fd, verdict, cancelled, known>>

\* read_to_string, and for an edit all it does before it awaits again.
Load(c) ==
  /\ pc[c] = "load"
  /\ LET text == Contents("file")
         done == IF text = Nothing THEN Outcome("failed", text)
                 ELSE IF IsEdit(c) THEN Edited(text, request[c].batch)
                 ELSE Outcome("read", text)
     IN /\ base' = [base EXCEPT ![c] = text]
        /\ IF done.status = "ok" /\ c \notin cancelled
           THEN /\ pc' = [pc EXCEPT ![c] = "open"]
                /\ out' = [out EXCEPT ![c] = done.text]
                /\ UNCHANGED verdict
           ELSE End(c, done.status) /\ UNCHANGED out
        /\ known' = IF done.status = "read" /\ c \notin cancelled
                    THEN known \cup ({text} \ {<<>>}) ELSE known
  /\ UNCHANGED <<fileVars, request, fd, cancelled, met>>

\* Fault: an edit writes the file in place, too.
Target_InPlace(c) == "file"

Target(c) == IF IsEdit(c) THEN "temp" ELSE "file"

\* tokio::fs::write opens, creating or truncating what the name refers to ...
Open(c) ==
  /\ Goto(c, "open", "write")
  /\ LET i == IF inode[Target(c)] = Nothing THEN c ELSE inode[Target(c)]
     IN /\ inode' = [inode EXCEPT ![Target(c)] = i]
        /\ data' = [data EXCEPT ![i] = <<>>]
        /\ fd' = [fd EXCEPT ![c] = i]
  /\ UNCHANGED <<request, base, out, verdict, cancelled, known, met>>

\* ... and writes over what the inode then holds, wherever it has moved.
Overlay(new, old) ==
  IF old = <<>> THEN new ELSE new \o SubSeq(old, Len(new) + 1, Len(old))

Write(c) ==
  /\ pc[c] = "write"
  /\ data' = [data EXCEPT ![fd[c]] = Overlay(out[c], @)]
  /\ IF IsEdit(c) /\ c \notin cancelled
     THEN pc' = [pc EXCEPT ![c] = "rename"] /\ UNCHANGED verdict
     ELSE End(c, "ok")
  /\ UNCHANGED <<inode, request, base, out, fd, cancelled, known, met>>

\* The rename moves whatever inode the shared name .<name>.tmp refers to.
Rename(c) ==
  /\ pc[c] = "rename"
  /\ inode["temp"] # Nothing
  /\ inode' = [file |-> inode["temp"], temp |-> Nothing]
  /\ End(c, "ok")
  /\ known' = IF c \in cancelled THEN known ELSE known \cup ({out[c]} \ {<<>>})
  /\ UNCHANGED <<data, request, base, out, fd, cancelled, met>>

\* An operation fails: the disk is full, a name cannot be opened, or the
\* temporary file is gone.  The remove_file after it is never awaited.
Fail(c) ==
  /\ pc[c] \in {"load", "open", "write", "rename"}
  /\ End(c, "failed")
  /\ UNCHANGED <<fileVars, request, base, out, fd, cancelled, known, met>>

Cancel(c) ==
  /\ c \in Running \ cancelled
  /\ cancelled' = cancelled \cup {c}
  /\ UNCHANGED <<fileVars, callVars, known, met>>

\* The future is dropped before its next operation was handed over.
Drop(c) ==
  /\ c \in cancelled
  /\ pc[c] \in {"load", "open", "rename"}
  /\ End(c, "cancelled")
  /\ UNCHANGED <<fileVars, request, base, out, fd, cancelled, known, met>>

\* Another program writes the file.
Outside(text) ==
  /\ inode["file"] # Nothing
  /\ data' = [data EXCEPT ![inode["file"]] = text]
  /\ met' = met \cup Running
  /\ UNCHANGED <<inode, callVars, cancelled, known>>

Start == \E c \in Calls : pc[c] = "new" /\ \E r \in Requests : Submit(c, r)

Work == \E c \in Calls :
  Load(c) \/ Open(c) \/ Write(c) \/ Rename(c) \/ Fail(c) \/ Cancel(c) \/ Drop(c)

-----------------------------------------------------------------------------
\* An accepted batch means what its author wrote: where it cites a line, the
\* file has what the author saw, as far as eight bits of a hash of normalised
\* lines tell, and if its edits concern different lines the new content is
\* the old text with each edit in its place, in whatever order they were
\* given, its lines and a last newline ended by NL (so that a file whose
\* every line is deleted keeps a blank one).  No such batch panics and takes
\* its worker along.
EditMeaning ==
  \A c \in Calls : IsEdit(c) /\ base[c] # Nothing =>
    LET batch == request[c].batch
        seen  == LinesOf(request[c].seen)
        text  == LinesOf(base[c])
    IN /\ out[c] # Nothing =>
            /\ \A i \in DOMAIN batch : \A anchor \in Anchors(batch[i]) :
                 Index(anchor) \in DOMAIN text /\ Around(text, Index(anchor)) = Around(seen, Index(anchor))
            /\ Disjoint(batch) => out[c] = Joined(Meaning(text, batch)) \o Ending(base[c])
       /\ Disjoint(batch) => verdict[c] # "panicked"

\* An edit that has the file to itself takes effect at once or not at all:
\* while it runs the file holds the old text, it holds the new one only if
\* the edit returns Ok (or was cancelled when it could no longer be stopped),
\* and Ok is never said of a text that is not there.
EditAtomic ==
  [][\A c \in Running : IsEdit(c) /\ c \notin met' =>
       \/ /\ Contents("file")' = Contents("file")
          /\ verdict'[c] # "ok"
       \/ /\ Contents("file")' = out[c]
          /\ verdict'[c] \in {"ok", "cancelled"}]_vars
=============================================================================
