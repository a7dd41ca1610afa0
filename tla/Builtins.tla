------------------------------ MODULE Builtins ------------------------------
(***************************************************************************)
(* The built-in tools at work in one process: calls of read, write and     *)
(* edit on one file (FileTools) and shell commands (Shell), whose children *)
(* may write that file too, also after the command they belong to has      *)
(* timed out or was cancelled.                                             *)
(***************************************************************************)
EXTENDS Naturals, Sequences, FiniteSets

CONSTANTS Calls, Char, NL, CR, Spaces, Hash(_,_,_), Texts, Plans, Prefixed, NoAnchor, Nothing,
          Commands, Modes, MaxChunks

VARIABLES
  inode, data, filePc, request, base, out, fd, fileVerdict, cancelled, known, met,
  mode, shellPc, fallback, handles, guarded, expired, child, confined, ends, full,
  shellVerdict, grant, spawned, chunks, got, shaken, unheard

Files  == INSTANCE FileTools WITH pc <- filePc, verdict <- fileVerdict
Shells == INSTANCE Shell WITH pc <- shellPc, verdict <- shellVerdict

\* An inode is named after a call, and the process itself is no command.
ASSUME NamesAssumption ==
  /\ Shells!Parent \notin Commands
  /\ "first" \notin Calls
  /\ Nothing \notin Files!Inodes

\* Files are of characters, and an author plans edits of numbered lines.
ASSUME TextsAssumption ==
  /\ NL \in Char
  /\ Texts \subseteq Seq(Char)
  /\ \A plan \in Plans : plan \in Seq(Files!Edits(Char))

fileVars  == <<inode, data, filePc, request, base, out, fd, fileVerdict, cancelled, known, met>>
shellVars == <<mode, shellPc, fallback, handles, guarded, expired, child, confined, ends, full,
               shellVerdict, grant, spawned, chunks, got, shaken, unheard>>
vars == <<fileVars, shellVars>>

Init == Files!Init /\ Shells!Init

\* Fault: a sandbox that lost its grant writes on.
MayWrite_Always(c) == child[c] = "busy"

\* The file lies in the policy's read_write_paths: Landlock lets a child
\* write there, the Windows token only while the SID is granted.
MayWrite(c) == child[c] = "busy" /\ (c \in confined /\ mode = "windows" => grant)

ChildWrites(c) ==
  /\ MayWrite(c)
  /\ \E t \in Texts : Files!Outside(t)
  /\ UNCHANGED shellVars

FileStart  == Files!Start /\ UNCHANGED shellVars
ShellStart == Shells!Start /\ UNCHANGED fileVars

Work ==
  \/ Files!Work /\ UNCHANGED shellVars
  \/ Shells!Work /\ UNCHANGED fileVars
  \/ \E c \in Commands : ChildWrites(c)

Next == FileStart \/ ShellStart \/ Work

Spec == Init /\ [][Next]_vars
FairSpec == Spec /\ Shells!Fairness

-----------------------------------------------------------------------------
(* What the tools promise, whatever the others do at the same time; the    *)
(* comments are where the properties are.                                  *)

\* An accepted batch of edits means what its author wrote.
EditMeaning == Files!EditMeaning

\* An edit that has the file to itself takes effect at once or not at all;
\* a child that its command left behind does not leave it the file.
EditAtomic == Files!EditAtomic

\* A command reported Ok ran once, has ended and was read to its end.
ReportComplete == Shells!ReportComplete

\* A command that is over leaves no handle open, but in two cases.
Released == Shells!Released

\* Grants come and go with the sandboxes.
GrantsBalanced == Shells!GrantsBalanced

\* Commands return, unless a full Windows sandbox is stuck.
CommandReturns == Shells!CommandReturns
=============================================================================
