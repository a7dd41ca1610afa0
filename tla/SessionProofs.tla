---------------------------- MODULE SessionProofs ----------------------------
(***************************************************************************)
(* Proofs about Session, for any clients and messages: each operation of   *)
(* the actor is one operation of SessionLog, or none.  The modules that    *)
(* compose the actor with its users cite them.                             *)
(*                                                                         *)
(* What an operator computes along a sequence is proved by induction on    *)
(* its length; the induction is that of well-founded sets, and the         *)
(* operators are recursive functions.                                      *)
(***************************************************************************)
EXTENDS Session, NaturalsInduction, WellFoundedInduction, TLAPS

-----------------------------------------------------------------------------
(* Induction, and functions that are defined by it.                        *)

\* Induction over the natural numbers, with a set in place of a predicate.
LEMMA Induction ==
  ASSUME NEW S, 0 \in S, \A n \in Nat : n \in S => n + 1 \in S
  PROVE  Nat \subseteq S
<1> SUFFICES ASSUME ~(Nat \subseteq S) PROVE FALSE
  OBVIOUS
<1> DEFINE T == Nat \ S
           R == OpToRel(<, Nat)
<1>1. PICK m \in T : \A k \in T : <<k, m>> \notin R
  <2>1. T \subseteq Nat /\ T # {}
    OBVIOUS
  <2> HIDE DEF T, R
  <2>2. IsWellFoundedOn(R, Nat)
    BY NatLessThanWellFounded DEF R
  <2> QED
    BY <2>1, <2>2, WFMin, Zenon
<1>2. R = {p \in Nat \X Nat : p[1] < p[2]}
  BY DEF OpToRel
<1> HIDE DEF R
<1>3. \A k \in T : ~(k < m)
  BY <1>1, <1>2
<1>4. m \in Nat /\ m \notin S /\ m # 0
  OBVIOUS
<1>5. m - 1 \in Nat /\ m - 1 < m
  BY <1>4
<1>6. m - 1 \in S
  BY <1>3, <1>5
<1> QED
  BY <1>4, <1>5, <1>6

\* f is what a start and a step define on 0 .. N, in S.
Iterates(f, N, S, start, step) ==
  f \in [0 .. N -> S] /\ f[0] = start /\ \A n \in 1 .. N : f[n] = step[<<n, f[n - 1]>>]

LEMMA Iterated ==
  ASSUME NEW N \in Nat, NEW S, NEW start \in S, NEW step \in [(1 .. N) \X S -> S]
  PROVE  \E f : Iterates(f, N, S, start, step)
<1> USE DEF Iterates
<1> DEFINE Good(f, m) == Iterates(f, m, S, start, step)
           P == {m \in Nat : m <= N => \E f : Good(f, m)}
<1>1. 0 \in P
  <2>1. Good([n \in 0 .. 0 |-> start], 0)
    OBVIOUS
  <2> QED
    BY <2>1
<1>2. ASSUME NEW m \in Nat, m \in P PROVE m + 1 \in P
  <2> SUFFICES ASSUME m + 1 <= N PROVE \E g : Good(g, m + 1)
    OBVIOUS
  <2>1. PICK f : Good(f, m)
    BY <1>2
  <2> DEFINE g == [n \in 0 .. m + 1 |-> IF n <= m THEN f[n] ELSE step[<<m + 1, f[m]>>]]
  <2>2. f[m] \in S /\ step[<<m + 1, f[m]>>] \in S
    BY <2>1
  <2>3. g \in [0 .. m + 1 -> S] /\ g[0] = start
    BY <2>1, <2>2
  <2>4. ASSUME NEW n \in 1 .. m + 1 PROVE g[n] = step[<<n, g[n - 1]>>]
    <3>1. n - 1 \in 0 .. m /\ g[n - 1] = f[n - 1]
      OBVIOUS
    <3>2. CASE n = m + 1
      <4>1. n - 1 = m /\ ~(n <= m) /\ n \in 0 .. m + 1
        BY <3>2
      <4>2. g[n] = step[<<m + 1, f[m]>>]
        BY <4>1
      <4> QED
        BY <3>1, <3>2, <4>1, <4>2
    <3>3. CASE n \in 1 .. m
      BY <2>1, <3>1, <3>3
    <3> QED
      BY <3>2, <3>3
  <2> QED
    BY <2>3, <2>4
<1> HIDE DEF P
<1>3. Nat \subseteq P
  BY <1>1, <1>2, Induction
<1>4. N \in P
  BY <1>3
<1> QED
  BY <1>4 DEF P

\* Two functions on 0 .. N that step alike are the same.
LEMMA SameSteps ==
  ASSUME NEW N \in Nat, NEW f, NEW g, f[0] = g[0], \A n \in 1 .. N : f[n - 1] = g[n - 1] => f[n] = g[n]
  PROVE  \A n \in 0 .. N : f[n] = g[n]
<1> DEFINE P == {m \in Nat : m <= N => f[m] = g[m]}
<1>1. 0 \in P
  OBVIOUS
<1>2. ASSUME NEW m \in Nat, m \in P PROVE m + 1 \in P
  <2> SUFFICES ASSUME m + 1 <= N PROVE f[m + 1] = g[m + 1]
    OBVIOUS
  <2>1. f[m] = g[m]
    BY <1>2
  <2>2. m + 1 \in 1 .. N /\ (m + 1) - 1 = m
    OBVIOUS
  <2> QED
    BY <2>1, <2>2
<1> HIDE DEF P
<1>3. Nat \subseteq P
  BY <1>1, <1>2, Induction
<1> QED
  BY <1>3 DEF P

-----------------------------------------------------------------------------
(* What a sequence of commands makes of the messages of the session.       *)

Commands == Seq(SessionCmds)
Contexts == Seq(Message)

LEMMA AppliedType ==
  ASSUME NEW ms \in Contexts, NEW cmd \in SessionCmds
  PROVE  Applied(ms, cmd) \in Contexts
BY DEF Contexts, Applied, SessionCmds

\* f is how the messages develop under cmds.
Develops(f, ms, cmds) ==
  /\ f \in [0 .. Len(cmds) -> Contexts]
  /\ f[0] = ms
  /\ \A n \in 1 .. Len(cmds) : f[n] = Applied(f[n - 1], cmds[n])

LEMMA SomeDevelopment ==
  ASSUME NEW ms \in Contexts, NEW cmds \in Commands
  PROVE  \E f : Develops(f, ms, cmds)
<1> DEFINE N == Len(cmds)
           step == [p \in (1 .. N) \X Contexts |-> Applied(p[2], cmds[p[1]])]
<1>1. N \in Nat /\ \A n \in 1 .. N : cmds[n] \in SessionCmds
  BY DEF Commands
<1>2. step \in [(1 .. N) \X Contexts -> Contexts]
  BY <1>1, AppliedType
<1>3. PICK f : Iterates(f, N, Contexts, ms, step)
  <2>1. N \in Nat /\ ms \in Contexts
    BY <1>1
  <2> HIDE DEF N, step
  <2> QED
    BY <1>2, <2>1, Iterated
<1> USE DEF Iterates
<1>4. ASSUME NEW n \in 1 .. N PROVE f[n] = Applied(f[n - 1], cmds[n])
  <2>1. n - 1 \in 0 .. N
    BY <1>1
  <2>2. f[n - 1] \in Contexts
    BY <1>3, <2>1
  <2>3. <<n, f[n - 1]>> \in (1 .. N) \X Contexts
    BY <2>2
  <2> QED
    BY <1>3, <2>3
<1> QED
  BY <1>3, <1>4 DEF Develops

LEMMA AfterIs ==
  ASSUME NEW ms \in Contexts, NEW cmds \in Commands, NEW f, Develops(f, ms, cmds)
  PROVE  After(ms, cmds) = f[Len(cmds)]
<1> DEFINE N == Len(cmds)
           Eq(h) == h = [n \in 0 .. N |-> IF n = 0 THEN ms ELSE Applied(h[n - 1], cmds[n])]
           d == CHOOSE h : Eq(h)
<1>1. N \in Nat
  BY DEF Commands
<1>2. Eq(f)
  BY <1>1 DEF Develops
<1>3. Eq(d)
  BY <1>2
<1>4. After(ms, cmds) = d[N]
  BY DEF After
<1> HIDE DEF d
<1>5. d[0] = ms /\ \A n \in 1 .. N : d[n] = Applied(d[n - 1], cmds[n])
  BY <1>1, <1>3
<1> HIDE DEF Eq
<1>6. \A n \in 1 .. N : d[n - 1] = f[n - 1] => d[n] = f[n]
  BY <1>1, <1>5 DEF Develops
<1>7. \A n \in 0 .. N : d[n] = f[n]
  <2>1. d[0] = f[0]
    BY <1>5 DEF Develops
  <2> QED
    BY <1>1, <1>6, <2>1, SameSteps
<1> QED
  BY <1>1, <1>4, <1>7

LEMMA AfterType ==
  ASSUME NEW ms \in Contexts, NEW cmds \in Commands
  PROVE  After(ms, cmds) \in Contexts
<1>1. PICK f : Develops(f, ms, cmds)
  BY SomeDevelopment
<1>2. Len(cmds) \in 0 .. Len(cmds)
  BY DEF Commands
<1> QED
  BY <1>1, <1>2, AfterIs DEF Develops

LEMMA AfterNone ==
  ASSUME NEW ms \in Contexts
  PROVE  After(ms, <<>>) = ms
<1>1. <<>> \in Commands /\ Len(<<>>) = 0
  BY DEF Commands
<1>2. PICK f : Develops(f, ms, <<>>)
  BY <1>1, SomeDevelopment
<1> QED
  BY <1>1, <1>2, AfterIs DEF Develops

\* The last command is applied last.
LEMMA AfterAppend ==
  ASSUME NEW ms \in Contexts, NEW cmds \in Commands, NEW cmd \in SessionCmds
  PROVE  After(ms, Append(cmds, cmd)) = Applied(After(ms, cmds), cmd)
<1> DEFINE N == Len(cmds)
           more == Append(cmds, cmd)
<1>1. /\ N \in Nat /\ more \in Commands /\ Len(more) = N + 1
      /\ \A n \in 1 .. N : more[n] = cmds[n]
      /\ more[N + 1] = cmd
  BY DEF Commands
<1>2. PICK f : Develops(f, ms, cmds)
  BY SomeDevelopment
<1> DEFINE g == [n \in 0 .. N + 1 |-> IF n <= N THEN f[n] ELSE Applied(f[N], cmd)]
<1>3. f[N] \in Contexts /\ Applied(f[N], cmd) \in Contexts
  BY <1>1, <1>2, AppliedType DEF Develops
<1> HIDE DEF more
<1>4. ASSUME NEW n \in 1 .. N + 1 PROVE g[n] = Applied(g[n - 1], more[n])
  <2>1. n - 1 \in 0 .. N /\ g[n - 1] = f[n - 1]
    BY <1>1
  <2>2. CASE n = N + 1
    BY <1>1, <2>1, <2>2
  <2>3. CASE n \in 1 .. N
    BY <1>1, <1>2, <2>1, <2>3 DEF Develops
  <2> QED
    BY <1>1, <2>2, <2>3
<1>5. g \in [0 .. N + 1 -> Contexts] /\ g[0] = ms /\ g[N + 1] = Applied(f[N], cmd)
  BY <1>1, <1>2, <1>3 DEF Develops
<1> HIDE DEF g
<1>6. Develops(g, ms, more)
  BY <1>1, <1>4, <1>5 DEF Develops
<1>7. After(ms, more) = g[N + 1]
  BY <1>1, <1>6, AfterIs
<1>8. After(ms, cmds) = f[N]
  BY <1>2, AfterIs
<1> QED
  BY <1>5, <1>7, <1>8 DEF more

\* The first command is applied first.
LEMMA AfterTail ==
  ASSUME NEW ms \in Contexts, NEW cmds \in Commands, cmds # <<>>
  PROVE  After(Applied(ms, Head(cmds)), Tail(cmds)) = After(ms, cmds)
<1> DEFINE N == Len(cmds)
           rest == Tail(cmds)
           next == Applied(ms, Head(cmds))
<1>1. /\ N \in Nat \ {0} /\ rest \in Commands /\ Len(rest) = N - 1
      /\ \A n \in 1 .. N - 1 : rest[n] = cmds[n + 1]
      /\ Head(cmds) = cmds[1] /\ Head(cmds) \in SessionCmds
  BY DEF Commands
<1>2. PICK f : Develops(f, ms, cmds)
  BY SomeDevelopment
<1>3. next \in Contexts /\ f[1] = next
  BY <1>1, <1>2, AppliedType DEF Develops
<1> DEFINE g == [n \in 0 .. N - 1 |-> f[n + 1]]
<1> HIDE DEF rest, next
<1>4. g \in [0 .. N - 1 -> Contexts] /\ g[0] = next /\ g[N - 1] = f[N]
  BY <1>1, <1>2, <1>3 DEF Develops
<1>5. ASSUME NEW n \in 1 .. N - 1 PROVE g[n] = Applied(g[n - 1], rest[n])
  <2>1. n + 1 \in 1 .. N /\ (n + 1) - 1 = n /\ (n - 1) + 1 = n
    BY <1>1
  <2>2. f[n + 1] = Applied(f[n], cmds[n + 1])
    BY <1>2, <2>1 DEF Develops
  <2> QED
    BY <1>1, <2>1, <2>2
<1> HIDE DEF g
<1>6. Develops(g, next, rest)
  BY <1>1, <1>4, <1>5 DEF Develops
<1> QED
  BY <1>1, <1>2, <1>3, <1>4, <1>6, AfterIs DEF rest, next

\* Who asked makes no difference.
LEMMA AfterSame ==
  ASSUME NEW ms \in Contexts, NEW cmds \in Commands, NEW cs \in Commands, Len(cs) = Len(cmds),
         \A n \in 1 .. Len(cmds) : cs[n].op = cmds[n].op /\ cs[n].body = cmds[n].body
  PROVE  After(ms, cs) = After(ms, cmds)
<1>1. PICK f : Develops(f, ms, cmds)
  BY SomeDevelopment
<1>2. Develops(f, ms, cs)
  BY <1>1 DEF Develops, Applied
<1> QED
  BY <1>1, <1>2, AfterIs
-----------------------------------------------------------------------------
(* The session's state, and the log that it implements.                    *)

SessionOK ==
  /\ mailbox \in Commands
  /\ msgs \in Contexts
  /\ reply \in [Clients -> Contexts \cup {Nothing}]

\* A client asks one thing at a time.
AskedOnce ==
  \A c \in Clients :
    /\ \A i, j \in DOMAIN mailbox : mailbox[i].client = c /\ mailbox[j].client = c => i = j
    /\ reply[c] # Nothing => ~Asked(c)

SessionInv == SessionOK /\ AskedOnce

\* What stands for nothing is neither a client nor a context.
Distinct == Nothing \notin Clients \cup Seq(Message)

\* Where the command of a client is, what it will get is settled.
LEMMA ViewAt ==
  ASSUME SessionInv, NEW c \in Clients, NEW k \in DOMAIN mailbox, mailbox[k].client = c
  PROVE  /\ reply[c] = Nothing
         /\ SubSeq(mailbox, 1, k) \in Commands
         /\ View(c) = After(msgs, SubSeq(mailbox, 1, k))
         /\ View(c) \in Contexts
<1>1. Asked(c)
  BY DEF Asked
<1>2. reply[c] = Nothing
  BY <1>1 DEF SessionInv, AskedOnce
<1>3. (CHOOSE i \in DOMAIN mailbox : mailbox[i].client = c) = k
  BY DEF SessionInv, AskedOnce
<1>4. View(c) = After(msgs, SubSeq(mailbox, 1, k))
  BY <1>1, <1>2, <1>3 DEF View, Before, Drained
<1>5. SubSeq(mailbox, 1, k) \in Commands
  BY DEF SessionInv, SessionOK, Commands
<1>6. After(msgs, SubSeq(mailbox, 1, k)) \in Contexts
  BY <1>5, AfterType DEF SessionInv, SessionOK
<1> QED
  BY <1>2, <1>4, <1>5, <1>6

LEMMA ViewElse ==
  ASSUME SessionInv, NEW c \in Clients, ~Asked(c)
  PROVE  View(c) = reply[c]
BY DEF View

\* A command that waits leaves every view alone, and takes effect in the log.
LEMMA SendStep ==
  ASSUME SessionInv, NEW cmd \in SessionCmds, Send(cmd)
  PROVE  /\ SessionOK'
         /\ Drained(mailbox)' = Applied(Drained(mailbox), cmd)
         /\ \A c \in Clients : cmd.client # c =>
              View(c)' = View(c) /\ (Asked(c)' <=> Asked(c))
<1> USE DEF SessionInv, SessionOK
<1>1. /\ mailbox' = Append(mailbox, cmd) /\ msgs' = msgs /\ reply' = reply
      /\ Len(mailbox) \in Nat /\ DOMAIN mailbox = 1 .. Len(mailbox)
      /\ mailbox' \in Commands /\ DOMAIN mailbox' = 1 .. Len(mailbox) + 1
      /\ \A i \in 1 .. Len(mailbox) : mailbox'[i] = mailbox[i]
      /\ mailbox'[Len(mailbox) + 1] = cmd
  BY DEF Send, Commands
<1>2. Drained(mailbox)' = Applied(Drained(mailbox), cmd)
  BY <1>1, AfterAppend DEF Drained
<1>3. ASSUME NEW c \in Clients, cmd.client # c
      PROVE  View(c)' = View(c) /\ (Asked(c)' <=> Asked(c))
  <2>1. \A i \in DOMAIN mailbox' : mailbox'[i].client = c <=> i \in DOMAIN mailbox /\ mailbox[i].client = c
    BY <1>1, <1>3
  <2>2. Asked(c)' <=> Asked(c)
    BY <1>1, <2>1 DEF Asked
  <2>3. CASE Asked(c)
    <3>1. PICK k \in DOMAIN mailbox : mailbox[k].client = c
      BY <2>3 DEF Asked
    <3>2. (CHOOSE i \in DOMAIN mailbox : mailbox[i].client = c) = k
          /\ (CHOOSE i \in DOMAIN mailbox' : mailbox'[i].client = c) = k
      BY <1>1, <2>1, <3>1 DEF AskedOnce
    <3>3. SubSeq(mailbox', 1, k) = SubSeq(mailbox, 1, k)
      BY <1>1, <3>1 DEF Commands
    <3>4. Before(c)' = Before(c)
      BY <3>2, <3>3 DEF Before
    <3>5. Drained(Before(c))' = Drained(Before(c))
      BY <1>1, <3>4 DEF Drained
    <3> QED
      BY <1>1, <2>2, <2>3, <3>5 DEF View
  <2>4. CASE ~Asked(c)
    BY <1>1, <2>2, <2>4 DEF View
  <2> QED
    BY <2>2, <2>3, <2>4
<1> QED
  BY <1>1, <1>2, <1>3
-----------------------------------------------------------------------------
(* Each operation of the session is one of the log, or none.               *)

LEMMA PushStep ==
  ASSUME Distinct, SessionInv, NEW m \in Message, PushMessages(m)
  PROVE  SessionInv' /\ Log!Push(m)
<1> DEFINE cmd == SessionCmd("push", Nothing, m)
<1>1. cmd \in SessionCmds /\ cmd.client = Nothing /\ cmd.op = "push" /\ cmd.body = m
  BY DEF SessionCmds, SessionCmd
<1>2. Send(cmd)
  BY DEF PushMessages
<1> HIDE DEF cmd
<1>3. /\ SessionOK'
      /\ Drained(mailbox)' = Append(Drained(mailbox), m)
  BY <1>1, <1>2, SendStep DEF Applied
<1>4. \A c \in Clients : View(c)' = View(c) /\ (Asked(c)' <=> Asked(c))
  BY <1>1, <1>2, SendStep DEF Distinct
<1>5. SessionInv'
  <2>1. /\ mailbox' = Append(mailbox, cmd) /\ reply' = reply
        /\ mailbox \in Commands
    BY <1>2 DEF Send, SessionInv, SessionOK
  <2>2. \A i \in DOMAIN mailbox' : mailbox'[i].client \in Clients => i \in DOMAIN mailbox /\ mailbox'[i] = mailbox[i]
    BY <1>1, <2>1 DEF Commands, Distinct
  <2> QED
    BY <1>3, <1>4, <2>1, <2>2 DEF SessionInv, AskedOnce
<1> QED
  BY <1>3, <1>4, <1>5 DEF Log!Push

LEMMA ClearStep ==
  ASSUME Distinct, SessionInv, Clear
  PROVE  SessionInv' /\ Log!Clear
<1> DEFINE cmd == SessionCmd("clear", Nothing, Nothing)
<1>1. cmd \in SessionCmds /\ cmd.client = Nothing /\ cmd.op = "clear"
  BY DEF SessionCmds, SessionCmd
<1>2. Send(cmd)
  BY DEF Clear
<1> HIDE DEF cmd
<1>3. /\ SessionOK'
      /\ Drained(mailbox)' = <<>>
  BY <1>1, <1>2, SendStep DEF Applied
<1>4. \A c \in Clients : View(c)' = View(c) /\ (Asked(c)' <=> Asked(c))
  BY <1>1, <1>2, SendStep DEF Distinct
<1>5. SessionInv'
  <2>1. /\ mailbox' = Append(mailbox, cmd) /\ reply' = reply
        /\ mailbox \in Commands
    BY <1>2 DEF Send, SessionInv, SessionOK
  <2>2. \A i \in DOMAIN mailbox' : mailbox'[i].client \in Clients => i \in DOMAIN mailbox /\ mailbox'[i] = mailbox[i]
    BY <1>1, <2>1 DEF Commands, Distinct
  <2> QED
    BY <1>3, <1>4, <2>1, <2>2 DEF SessionInv, AskedOnce
<1> QED
  BY <1>3, <1>4, <1>5 DEF Log!Clear

LEMMA FetchStep ==
  ASSUME SessionInv, NEW c \in Clients, FetchContext(c)
  PROVE  SessionInv' /\ Log!Fetch(c)
<1> DEFINE cmd == SessionCmd("fetch", c, Nothing)
<1>1. cmd \in SessionCmds /\ cmd.client = c /\ cmd.op = "fetch"
  BY DEF SessionCmds, SessionCmd
<1>2. Send(cmd) /\ ~Asked(c) /\ reply[c] = Nothing
  BY DEF FetchContext
<1> HIDE DEF cmd
<1>3. /\ SessionOK'
      /\ Drained(mailbox)' = Drained(mailbox)
  BY <1>1, <1>2, SendStep DEF Applied
<1>4. \A d \in Clients \ {c} : View(d)' = View(d) /\ (Asked(d)' <=> Asked(d))
  BY <1>1, <1>2, SendStep
<1> DEFINE n == Len(mailbox) + 1
<1>5. /\ mailbox' = Append(mailbox, cmd) /\ reply' = reply /\ msgs' = msgs
      /\ n \in Nat /\ DOMAIN mailbox' = 1 .. n /\ mailbox'[n] = cmd
      /\ DOMAIN mailbox = 1 .. n - 1
      /\ \A i \in 1 .. n - 1 : mailbox'[i] = mailbox[i]
      /\ mailbox' \in Commands
      /\ SubSeq(mailbox', 1, n) = mailbox'
  BY <1>1, <1>2 DEF Send, SessionInv, SessionOK, Commands
<1> HIDE DEF n
<1>6. \A i \in 1 .. n - 1 : mailbox'[i].client # c
  BY <1>2, <1>5 DEF Asked
<1>7. SessionInv'
  <2>1. ASSUME NEW d \in Clients, NEW i \in 1 .. n, NEW j \in 1 .. n, mailbox'[i].client = d, mailbox'[j].client = d
        PROVE  i = j
    <3>1. CASE d = c
      BY <1>5, <1>6, <2>1, <3>1
    <3>2. CASE d # c
      BY <1>1, <1>5, <2>1, <3>2 DEF SessionInv, AskedOnce
    <3> QED
      BY <3>1, <3>2
  <2>2. ASSUME NEW d \in Clients, reply'[d] # Nothing PROVE ~Asked(d)'
    BY <1>2, <1>4, <1>5, <2>2 DEF SessionInv, AskedOnce
  <2> QED
    BY <1>3, <1>5, <2>1, <2>2 DEF SessionInv, AskedOnce
<1>8. View(c)' = Drained(mailbox)'
  <2>1. Asked(c)'
    BY <1>1, <1>5 DEF Asked
  <2>2. (CHOOSE i \in DOMAIN mailbox' : mailbox'[i].client = c) = n
    BY <1>1, <1>5, <1>6
  <2>3. Before(c)' = mailbox'
    BY <1>5, <2>2 DEF Before
  <2>4. Drained(Before(c))' = Drained(mailbox)'
    BY <2>3 DEF Drained
  <2> QED
    BY <1>2, <1>5, <2>1, <2>4 DEF View
<1>9. View(c) = Nothing
  BY <1>2 DEF View
<1> QED
  BY <1>3, <1>4, <1>7, <1>8, <1>9 DEF Log!Fetch

LEMMA AbandonStep ==
  ASSUME Distinct, SessionInv, NEW c \in Clients, Abandon(c)
  PROVE  SessionInv' /\ Log!Release(c)
<1>1. /\ Len(mailbox) \in Nat /\ DOMAIN mailbox = 1 .. Len(mailbox)
      /\ msgs' = msgs /\ reply' = reply
      /\ DOMAIN mailbox' = 1 .. Len(mailbox)
      /\ \A i \in 1 .. Len(mailbox) : mailbox[i] \in SessionCmds
      /\ \A i \in 1 .. Len(mailbox) :
           mailbox'[i] = IF mailbox[i].client = c THEN [mailbox[i] EXCEPT !.client = Nothing] ELSE mailbox[i]
  BY DEF Abandon, SessionInv, SessionOK, Commands
<1>2. \A i \in 1 .. Len(mailbox) :
        /\ mailbox'[i] \in SessionCmds
        /\ mailbox'[i].op = mailbox[i].op /\ mailbox'[i].body = mailbox[i].body
        /\ mailbox'[i].client = IF mailbox[i].client = c THEN Nothing ELSE mailbox[i].client
  BY <1>1 DEF SessionCmds, Distinct
<1>3. mailbox' \in Commands /\ Len(mailbox') = Len(mailbox)
  <2>1. mailbox' = [i \in 1 .. Len(mailbox) |-> mailbox'[i]]
    BY <1>1 DEF Abandon
  <2> QED
    BY <1>1, <1>2, <2>1 DEF Commands
<1>4. /\ ~Asked(c)'
      /\ \A d \in Clients \ {c} : \A i \in 1 .. Len(mailbox) : mailbox'[i].client = d <=> mailbox[i].client = d
      /\ \A d \in Clients \ {c} : Asked(d)' <=> Asked(d)
  BY <1>1, <1>2 DEF Asked, Distinct
<1>5. SessionInv'
  BY <1>1, <1>3, <1>4 DEF SessionInv, SessionOK, AskedOnce, Asked
<1>6. Drained(mailbox)' = Drained(mailbox)
  BY <1>1, <1>2, <1>3, AfterSame DEF Drained, SessionInv, SessionOK
<1>7. ASSUME NEW d \in Clients \ {c} PROVE View(d)' = View(d)
  <2>1. CASE Asked(d)
    <3>1. PICK k \in 1 .. Len(mailbox) : mailbox[k].client = d
      BY <1>1, <2>1 DEF Asked
    <3>2. mailbox'[k].client = d
      BY <1>4, <3>1
    <3>3. /\ View(d) = After(msgs, SubSeq(mailbox, 1, k))
          /\ SubSeq(mailbox, 1, k) \in Commands
      BY <1>1, <3>1, ViewAt
    <3>4. /\ View(d)' = After(msgs', SubSeq(mailbox', 1, k))
          /\ SubSeq(mailbox', 1, k) \in Commands
      <4>1. (CHOOSE i \in DOMAIN mailbox' : mailbox'[i].client = d) = k
        BY <1>1, <1>4, <3>1, <3>2 DEF SessionInv, AskedOnce
      <4>2. reply'[d] = Nothing
        BY <1>1, <2>1 DEF SessionInv, AskedOnce
      <4>3. Before(d)' = SubSeq(mailbox', 1, k)
        BY <4>1 DEF Before
      <4>4. Drained(Before(d))' = After(msgs', SubSeq(mailbox', 1, k))
        BY <4>3 DEF Drained
      <4>5. SubSeq(mailbox', 1, k) \in Commands
        BY <1>3, <3>1 DEF Commands
      <4> QED
        BY <1>4, <2>1, <4>2, <4>4, <4>5 DEF View
    <3>5. After(msgs, SubSeq(mailbox', 1, k)) = After(msgs, SubSeq(mailbox, 1, k))
      <4>1. /\ Len(SubSeq(mailbox', 1, k)) = k /\ Len(SubSeq(mailbox, 1, k)) = k
            /\ \A n \in 1 .. k : SubSeq(mailbox', 1, k)[n] = mailbox'[n] /\ SubSeq(mailbox, 1, k)[n] = mailbox[n]
        BY <1>1, <1>3, <3>1 DEF Commands, SessionInv, SessionOK
      <4>2. \A n \in 1 .. k : mailbox'[n].op = mailbox[n].op /\ mailbox'[n].body = mailbox[n].body
        BY <1>2, <3>1
      <4>3. msgs \in Contexts
        BY DEF SessionInv, SessionOK
      <4> DEFINE cs == SubSeq(mailbox', 1, k)
                 cmds == SubSeq(mailbox, 1, k)
      <4>4. cs \in Commands /\ cmds \in Commands /\ Len(cs) = Len(cmds)
            /\ \A n \in 1 .. Len(cmds) : cs[n].op = cmds[n].op /\ cs[n].body = cmds[n].body
        BY <3>3, <3>4, <4>1, <4>2
      <4> HIDE DEF cs, cmds
      <4>5. After(msgs, cs) = After(msgs, cmds)
        BY <4>3, <4>4, AfterSame
      <4> QED
        BY <4>5 DEF cs, cmds
    <3> QED
      BY <1>1, <3>3, <3>4, <3>5
  <2>2. CASE ~Asked(d)
    BY <1>1, <1>4, <2>2 DEF View
  <2> QED
    BY <2>1, <2>2
<1>8. View(c) # Nothing /\ View(c)' = Nothing
  <2>1. PICK k \in DOMAIN mailbox : mailbox[k].client = c
    BY DEF Abandon, Asked
  <2>2. View(c) \in Contexts /\ reply[c] = Nothing
    BY <2>1, ViewAt
  <2> QED
    BY <1>1, <1>4, <2>2 DEF Contexts, View, Distinct
<1>9. [d \in Clients |-> View(d)][c] # Nothing
  BY <1>8
<1>10. [d \in Clients |-> View(d)'] = [[d \in Clients |-> View(d)] EXCEPT ![c] = Nothing]
  <2>1. \A d \in Clients : View(d)' = IF d = c THEN Nothing ELSE View(d)
    BY <1>7, <1>8
  <2>2. [d \in Clients |-> View(d)'] = [d \in Clients |-> IF d = c THEN Nothing ELSE View(d)]
    BY <2>1
  <2> QED
    BY <2>2
<1> QED
  BY <1>5, <1>6, <1>9, <1>10 DEF Log!Release

LEMMA ReceiveStep ==
  ASSUME SessionInv, NEW c \in Clients, Receive(c)
  PROVE  SessionInv' /\ Log!Release(c)
<1>1. /\ UNCHANGED <<mailbox, msgs>> /\ reply[c] # Nothing /\ ~Asked(c)
      /\ reply' = [reply EXCEPT ![c] = Nothing]
      /\ reply'[c] = Nothing /\ \A d \in Clients \ {c} : reply'[d] = reply[d]
  BY DEF Receive, SessionInv, SessionOK, AskedOnce
<1>2. \A d \in Clients : Asked(d)' <=> Asked(d)
  BY <1>1 DEF Asked
<1>3. SessionInv'
  BY <1>1, <1>2 DEF SessionInv, SessionOK, AskedOnce
<1>4. \A d \in Clients : Drained(Before(d))' = Drained(Before(d))
  BY <1>1 DEF Drained, Before
<1>5. \A d \in Clients \ {c} : View(d)' = View(d)
  BY <1>1, <1>2, <1>4 DEF View
<1>6. View(c)' = Nothing /\ View(c) # Nothing
  BY <1>1, <1>2 DEF View
<1>7. Drained(mailbox)' = Drained(mailbox)
  BY <1>1 DEF Drained
<1>9. [d \in Clients |-> View(d)][c] # Nothing
  BY <1>6
<1>10. [d \in Clients |-> View(d)'] = [[d \in Clients |-> View(d)] EXCEPT ![c] = Nothing]
  <2>1. \A d \in Clients : View(d)' = IF d = c THEN Nothing ELSE View(d)
    BY <1>5, <1>6
  <2>2. [d \in Clients |-> View(d)'] = [d \in Clients |-> IF d = c THEN Nothing ELSE View(d)]
    BY <2>1
  <2> QED
    BY <2>2
<1> QED
  BY <1>3, <1>7, <1>9, <1>10 DEF Log!Release

LEMMA HandleStep ==
  ASSUME Distinct, SessionInv, Handle
  PROVE  SessionInv' /\ UNCHANGED Log!vars
<1> DEFINE cmd == Head(mailbox)
           n == Len(mailbox)
<1>1. /\ n \in Nat \ {0} /\ DOMAIN mailbox = 1 .. n
      /\ mailbox \in Commands /\ mailbox # <<>> /\ msgs \in Contexts
      /\ cmd = mailbox[1] /\ cmd \in SessionCmds
      /\ mailbox' = Tail(mailbox) /\ mailbox' \in Commands
      /\ DOMAIN mailbox' = 1 .. n - 1 /\ Len(mailbox') = n - 1
      /\ \A i \in 1 .. n - 1 : mailbox'[i] = mailbox[i + 1]
      /\ msgs' = Applied(msgs, cmd)
      /\ reply' = IF cmd.client \in Clients THEN [reply EXCEPT ![cmd.client] = msgs] ELSE reply
  BY DEF Handle, SessionInv, SessionOK, Commands
<1>a. Head(mailbox) = cmd
  OBVIOUS
<1> HIDE DEF cmd, n
<1>2. cmd.client \in Clients => msgs' = msgs
  BY <1>1 DEF SessionCmds, Applied, Distinct
<1>3. msgs' \in Contexts
  BY <1>1, AppliedType
<1>4. Drained(mailbox)' = Drained(mailbox)
  BY <1>1, <1>a, AfterTail DEF Drained
<1>5. \A c \in Clients : reply'[c] = IF c = cmd.client THEN msgs ELSE reply[c]
  BY <1>1 DEF SessionInv, SessionOK
\* Who has asked, and where.
<1>6. ASSUME NEW c \in Clients, NEW k \in 1 .. n - 1, mailbox'[k].client = c
      PROVE  c # cmd.client /\ mailbox[k + 1].client = c
  BY <1>1, <1>6 DEF SessionInv, AskedOnce
<1>7. ASSUME NEW c \in Clients
      PROVE  Asked(c)' <=> Asked(c) /\ c # cmd.client
  <2>1. ASSUME Asked(c)' PROVE Asked(c) /\ c # cmd.client
    <3>1. PICK k \in 1 .. n - 1 : mailbox'[k].client = c
      BY <1>1, <2>1 DEF Asked
    <3> QED
      BY <1>1, <1>6, <3>1 DEF Asked
  <2>2. ASSUME Asked(c), c # cmd.client PROVE Asked(c)'
    <3>1. PICK k \in 1 .. n : mailbox[k].client = c
      BY <1>1, <2>2 DEF Asked
    <3>2. k - 1 \in 1 .. n - 1 /\ mailbox'[k - 1] = mailbox[k]
      BY <1>1, <2>2, <3>1
    <3> QED
      BY <1>1, <3>1, <3>2 DEF Asked
  <2> QED
    BY <2>1, <2>2
<1>8. SessionInv'
  <2>1. SessionOK'
    BY <1>1, <1>3 DEF SessionInv, SessionOK
  <2>2. ASSUME NEW c \in Clients, NEW i \in 1 .. n - 1, NEW j \in 1 .. n - 1, mailbox'[i].client = c, mailbox'[j].client = c
        PROVE  i = j
    <3>1. mailbox[i + 1].client = c /\ mailbox[j + 1].client = c /\ i + 1 \in DOMAIN mailbox /\ j + 1 \in DOMAIN mailbox
      BY <1>1, <2>2
    <3>2. i + 1 = j + 1
      BY <3>1 DEF SessionInv, AskedOnce
    <3> QED
      BY <3>2
  <2>3. ASSUME NEW c \in Clients, reply'[c] # Nothing PROVE ~Asked(c)'
    BY <1>5, <1>7, <2>3 DEF SessionInv, AskedOnce
  <2> QED
    BY <1>1, <2>1, <2>2, <2>3 DEF SessionInv, AskedOnce
<1>9. ASSUME NEW c \in Clients PROVE View(c)' = View(c)
  <2>1. CASE c = cmd.client
    <3>1. mailbox[1].client = c /\ 1 \in DOMAIN mailbox
      BY <1>1, <2>1
    <3>2. /\ SubSeq(mailbox, 1, 1) \in Commands
          /\ View(c) = After(msgs, SubSeq(mailbox, 1, 1))
      BY <3>1, ViewAt
    <3>3. /\ SubSeq(mailbox, 1, 1) # <<>> /\ Head(SubSeq(mailbox, 1, 1)) = cmd
          /\ Tail(SubSeq(mailbox, 1, 1)) = <<>>
      BY <1>1 DEF Commands
    <3>4. After(msgs, SubSeq(mailbox, 1, 1)) = After(msgs', <<>>)
      BY <1>1, <3>2, <3>3, AfterTail
    <3>5. View(c) = msgs
      BY <1>2, <1>3, <2>1, <3>2, <3>4, AfterNone
    <3>6. reply'[c] = msgs /\ msgs # Nothing
      BY <1>1, <1>5, <2>1 DEF Contexts, Distinct
    <3> QED
      BY <3>5, <3>6 DEF View
  <2>2. CASE c # cmd.client /\ Asked(c)
    <3>1. PICK k \in 1 .. n : mailbox[k].client = c
      BY <1>1, <2>2 DEF Asked
    <3>2. k - 1 \in 1 .. n - 1 /\ mailbox'[k - 1].client = c /\ k \in DOMAIN mailbox
      BY <1>1, <2>2, <3>1
    <3>3. /\ reply[c] = Nothing
          /\ SubSeq(mailbox, 1, k) \in Commands
          /\ View(c) = After(msgs, SubSeq(mailbox, 1, k))
      BY <3>1, <3>2, ViewAt
    <3>4. /\ SubSeq(mailbox, 1, k) # <<>> /\ Head(SubSeq(mailbox, 1, k)) = cmd
          /\ Tail(SubSeq(mailbox, 1, k)) = SubSeq(mailbox', 1, k - 1)
      BY <1>1, <3>2 DEF Commands
    <3>5. After(msgs, SubSeq(mailbox, 1, k)) = After(msgs', SubSeq(mailbox', 1, k - 1))
      BY <1>1, <3>3, <3>4, AfterTail
    <3>6. View(c)' = After(msgs', SubSeq(mailbox', 1, k - 1))
      <4>1. Asked(c)' /\ reply'[c] = Nothing
        BY <1>5, <1>7, <2>2, <3>3
      <4>2. (CHOOSE i \in DOMAIN mailbox' : mailbox'[i].client = c) = k - 1
        BY <1>1, <1>8, <3>2 DEF SessionInv, AskedOnce
      <4>3. Before(c)' = SubSeq(mailbox', 1, k - 1)
        BY <4>2 DEF Before
      <4>4. Drained(Before(c))' = After(msgs', SubSeq(mailbox', 1, k - 1))
        BY <4>3 DEF Drained
      <4> QED
        BY <4>1, <4>4 DEF View
    <3> QED
      BY <3>3, <3>5, <3>6
  <2>3. CASE c # cmd.client /\ ~Asked(c)
    BY <1>5, <1>7, <2>3 DEF View
  <2> QED
    BY <2>1, <2>2, <2>3
<1> QED
  BY <1>4, <1>8, <1>9 DEF Log!vars

\* The session starts with nothing.
LEMMA InitStep ==
  ASSUME Init
  PROVE  SessionInv /\ Log!Init
<1>1. mailbox = <<>> /\ msgs = <<>> /\ reply = [c \in Clients |-> Nothing]
  BY DEF Init
<1>2. SessionInv
  BY <1>1 DEF SessionInv, SessionOK, AskedOnce, Commands, Contexts
<1>3. Drained(mailbox) = <<>>
  BY <1>1, <1>2, AfterNone DEF Drained, SessionInv, SessionOK
<1>4. ASSUME NEW c \in Clients PROVE View(c) = Nothing
  <2>1. ~Asked(c) /\ reply[c] = Nothing
    BY <1>1 DEF Asked
  <2> QED
    BY <1>2, <2>1, ViewElse
<1> QED
  BY <1>2, <1>3, <1>4 DEF Log!Init

\* What leaves the session alone leaves the log alone.
LEMMA IdleStep ==
  ASSUME SessionInv, UNCHANGED vars
  PROVE  SessionInv' /\ UNCHANGED Log!vars
<1>1. mailbox' = mailbox /\ msgs' = msgs /\ reply' = reply
  BY DEF vars
<1>2. SessionInv'
  BY <1>1 DEF SessionInv, SessionOK, AskedOnce, Asked
<1>3. Drained(mailbox)' = Drained(mailbox)
  BY <1>1 DEF Drained
<1>4. \A c \in Clients : View(c)' = View(c)
  BY <1>1 DEF View, Asked, Before, Drained
<1> QED
  BY <1>2, <1>3, <1>4 DEF Log!vars

LEMMA LogType ==
  ASSUME SessionInv
  PROVE  Drained(mailbox) \in Seq(Message)
BY AfterType DEF SessionInv, SessionOK, Drained, Contexts
=============================================================================
