-------------------------- MODULE MiddlewareProofs --------------------------
(***************************************************************************)
(* Proofs about Middleware, for any chain and any number of loops and      *)
(* clients: the session actor with its mailbox implements SessionLog, and  *)
(* what it holds follows what the loops have pushed.                       *)
(***************************************************************************)
EXTENDS Middleware, SequenceTheorems, TLAPS

Facts == INSTANCE SessionProofs

-----------------------------------------------------------------------------
(* The session of Middleware is the one that SessionProofs is about.       *)

LEMMA Nothings == Facts!Distinct
BY NothingAssumption DEF Facts!Distinct

LEMMA SameActions ==
  /\ Session!Init => Facts!Init
  /\ \A m : Session!PushMessages(m) => Facts!PushMessages(m)
  /\ Session!Clear => Facts!Clear
  /\ \A c : Session!FetchContext(c) => Facts!FetchContext(c)
  /\ \A c : Session!Abandon(c) => Facts!Abandon(c)
  /\ \A c : Session!Receive(c) => Facts!Receive(c)
  /\ Session!Handle => Facts!Handle
<1>1. \A cmd : Session!Send(cmd) => Facts!Send(cmd)
  BY DEF Session!Send, Facts!Send
<1>2. \A op, client, body : Session!SessionCmd(op, client, body) = Facts!SessionCmd(op, client, body)
  BY DEF Session!SessionCmd, Facts!SessionCmd
<1>3. \A c : Session!Asked(c) <=> Facts!Asked(c)
  BY DEF Session!Asked, Facts!Asked
<1>4. \A ms, cmd : Session!Applied(ms, cmd) = Facts!Applied(ms, cmd)
  BY DEF Session!Applied, Facts!Applied
<1>5. Session!Init => Facts!Init
  BY DEF Session!Init, Facts!Init
<1>6. \A m : Session!PushMessages(m) => Facts!PushMessages(m)
  BY <1>1, <1>2 DEF Session!PushMessages, Facts!PushMessages
<1>7. Session!Clear => Facts!Clear
  BY <1>1, <1>2 DEF Session!Clear, Facts!Clear
<1>8. \A c : Session!FetchContext(c) => Facts!FetchContext(c)
  BY <1>1, <1>2, <1>3 DEF Session!FetchContext, Facts!FetchContext
<1>9. \A c : Session!Abandon(c) => Facts!Abandon(c)
  BY <1>3 DEF Session!Abandon, Facts!Abandon
<1>10. \A c : Session!Receive(c) => Facts!Receive(c)
  BY DEF Session!Receive, Facts!Receive
<1>11. Session!Handle => Facts!Handle
  BY <1>4 DEF Session!Handle, Facts!Handle
<1> QED
  BY <1>5, <1>6, <1>7, <1>8, <1>9, <1>10, <1>11

LEMMA SameLog ==
  /\ Session!Drained(mailbox) = Facts!Drained(mailbox)
  /\ Session!Drained(mailbox)' = Facts!Drained(mailbox)'
  /\ \A c : Session!View(c) = Facts!View(c)
  /\ \A c : Session!View(c)' = Facts!View(c)'
<1>1. \A ms, cmd : Session!Applied(ms, cmd) = Facts!Applied(ms, cmd)
  BY DEF Session!Applied, Facts!Applied
<1>2. \A ms, cmds : Session!After(ms, cmds) = Facts!After(ms, cmds)
  BY <1>1 DEF Session!After, Facts!After
<1>3. \A cmds : Session!Drained(cmds) = Facts!Drained(cmds)
  BY <1>2 DEF Session!Drained, Facts!Drained
<1>4. \A cmds : Session!Drained(cmds)' = Facts!Drained(cmds)'
  BY <1>2 DEF Session!Drained, Facts!Drained
<1>5. \A c : (Session!Asked(c) <=> Facts!Asked(c)) /\ (Session!Asked(c)' <=> Facts!Asked(c)')
  BY DEF Session!Asked, Facts!Asked
<1>6. \A c : Session!Before(c) = Facts!Before(c) /\ Session!Before(c)' = Facts!Before(c)'
  BY DEF Session!Before, Facts!Before
<1>7. \A c : Session!View(c) = Facts!View(c)
  BY <1>3, <1>5, <1>6 DEF Session!View, Facts!View
<1>8. \A c : Session!View(c)' = Facts!View(c)'
  BY <1>2, <1>5, <1>6 DEF Session!View, Facts!View, Session!Drained, Facts!Drained
<1> QED
  BY <1>2, <1>3, <1>7, <1>8 DEF Session!Drained, Facts!Drained

LEMMA SameViews ==
  /\ Session!Drained(mailbox) = Facts!Drained(mailbox)
  /\ Session!Drained(mailbox)' = Facts!Drained(mailbox)'
  /\ [c \in Clients |-> Session!View(c)] = [c \in Clients |-> Facts!View(c)]
  /\ [c \in Clients |-> Session!View(c)'] = [c \in Clients |-> Facts!View(c)']
BY SameLog
-----------------------------------------------------------------------------
LEMMA SessionKept ==
  ASSUME Facts!SessionInv, UNCHANGED sessionVars
  PROVE  Facts!SessionInv' /\ UNCHANGED Facts!Log!vars
BY Facts!IdleStep DEF sessionVars, Facts!vars

\* Steps of the loops and of the logging that do not push.
Quiet ==
  \/ \E l \in Loops : (\E e \in Event : Take(l, e)) \/ Spawn(l) \/ Mutate(l) \/ Emit(l) \/ End(l)
  \/ DropAgent \/ LogError \/ LogEnds
  \/ \E i \in running : Inspected(i) \/ Objects(i)

LEMMA QuietKeeps == Quiet => UNCHANGED <<sessionVars, cleared>>
BY DEF Quiet, Take, Spawn, Mutate, Emit, End, DropAgent, LogError, LogEnds, Inspected, Objects

LEMMA StoreStep ==
  ASSUME Facts!SessionInv, NEW l \in Loops, Store(l)
  PROVE  /\ Facts!SessionInv'
         /\ IF event[l] \in Storable THEN Facts!Log!Push([loop |-> l, event |-> event[l]])
            ELSE UNCHANGED Facts!Log!vars
<1>1. CASE event[l] \in Storable
  <2>1. [loop |-> l, event |-> event[l]] \in Message
    BY <1>1 DEF Message
  <2>2. Session!PushMessages([loop |-> l, event |-> event[l]])
    BY <1>1 DEF Store
  <2> QED
    BY <1>1, <2>1, <2>2, Facts!PushStep, SameActions, Nothings
<1>2. CASE event[l] \notin Storable
  BY <1>2, SessionKept DEF Store
<1> QED
  BY <1>1, <1>2

LEMMA StepSession ==
  Facts!SessionInv /\ [Next]_vars => Facts!SessionInv' /\ [Facts!Log!Next]_(Facts!Log!vars)
<1> SUFFICES ASSUME Facts!SessionInv, [Next]_vars PROVE Facts!SessionInv' /\ [Facts!Log!Next]_(Facts!Log!vars)
  OBVIOUS
<1>1. ASSUME NEW l \in Loops, Store(l) PROVE Facts!SessionInv' /\ [Facts!Log!Next]_(Facts!Log!vars)
  <2>1. event[l] \in Storable => [loop |-> l, event |-> event[l]] \in Message
    BY DEF Message
  <2> QED
    BY <1>1, <2>1, StoreStep DEF Facts!Log!Next
<1>2. CASE Clear
  BY <1>2, Facts!ClearStep, SameActions, Nothings DEF Clear, Facts!Log!Next
<1>3. ASSUME NEW c \in Clients, Ask(c) PROVE Facts!SessionInv' /\ [Facts!Log!Next]_(Facts!Log!vars)
  <2>1. Facts!SessionInv' /\ (Facts!Log!Fetch(c) \/ Facts!Log!Release(c))
    BY <1>3, Facts!FetchStep, Facts!AbandonStep, Facts!ReceiveStep, SameActions, Nothings DEF Ask
  <2> QED
    BY <2>1 DEF Facts!Log!Next
<1>4. CASE Handle
  BY <1>4, Facts!HandleStep, SameActions, Nothings DEF Handle
<1>5. CASE Quiet
  BY <1>5, QuietKeeps, SessionKept
<1>6. CASE UNCHANGED vars
  BY <1>6, SessionKept DEF vars
<1> QED
  BY <1>1, <1>2, <1>3, <1>4, <1>5, <1>6 DEF Next, Quiet

(***************************************************************************)
(* For any number of loops, clients and messages, and however long the     *)
(* mailbox grows: every command of the session takes effect when it is     *)
(* sent.  A context holds exactly what was pushed before it was asked for  *)
(* and after the last Clear, although the actor gets to it later and its   *)
(* client may have given up.                                               *)
(***************************************************************************)
THEOREM SessionImplementsLog == Spec => LogSpec
<1>1. Init => Facts!SessionInv /\ Facts!Log!Init
  BY Facts!InitStep, SameActions DEF Init
<1>2. Facts!SessionInv /\ [Next]_vars => Facts!SessionInv' /\ [Facts!Log!Next]_(Facts!Log!vars)
  BY StepSession
<1>3. Facts!Log!Init => Session!Log!Init
  BY SameLog DEF Facts!Log!Init, Session!Log!Init
<1>4. [Facts!Log!Next]_(Facts!Log!vars) => [Session!Log!Next]_(Session!Log!vars)
  BY SameViews DEF Facts!Log!Next, Session!Log!Next, Facts!Log!vars, Session!Log!vars,
       Facts!Log!Push, Facts!Log!Fetch, Facts!Log!Release, Facts!Log!Clear,
       Session!Log!Push, Session!Log!Fetch, Session!Log!Release, Session!Log!Clear
<1> QED
  BY <1>1, <1>2, <1>3, <1>4, PTL DEF Spec, LogSpec, Session!LogSpec, Session!Log!Spec

-----------------------------------------------------------------------------
(* What a loop has said.                                                   *)

\* f is how the sayings of loop l develop along a log.
Speaks(f, l, log) ==
  /\ f \in [0 .. Len(log) -> Seq(Storable)]
  /\ f[0] = <<>>
  /\ \A n \in 1 .. Len(log) : f[n] = Saying(f[n - 1], l, log[n])

LEMMA SayingType ==
  ASSUME NEW said \in Seq(Storable), NEW l, NEW m \in Message
  PROVE  Saying(said, l, m) \in Seq(Storable)
BY DEF Saying, Message

LEMMA SomeSpeech ==
  ASSUME NEW l, NEW log \in Seq(Message)
  PROVE  \E f : Speaks(f, l, log)
<1> DEFINE N == Len(log)
           S == Seq(Storable)
           step == [p \in (1 .. N) \X S |-> Saying(p[2], l, log[p[1]])]
<1>1. N \in Nat /\ <<>> \in S /\ \A n \in 1 .. N : log[n] \in Message
  OBVIOUS
<1>2. step \in [(1 .. N) \X S -> S]
  BY <1>1, SayingType
<1>3. PICK f : Facts!Iterates(f, N, S, <<>>, step)
  <2> HIDE DEF N, S, step
  <2> QED
    BY <1>1, <1>2, Facts!Iterated
<1> USE DEF Facts!Iterates
<1>4. ASSUME NEW n \in 1 .. N PROVE f[n] = Saying(f[n - 1], l, log[n])
  <2>1. n - 1 \in 0 .. N
    BY <1>1
  <2>2. f[n - 1] \in S
    BY <1>3, <2>1
  <2>3. <<n, f[n - 1]>> \in (1 .. N) \X S
    BY <2>2
  <2> QED
    BY <1>3, <2>3
<1> QED
  BY <1>3, <1>4 DEF Speaks

LEMMA SaidIs ==
  ASSUME NEW l, NEW log \in Seq(Message), NEW f, Speaks(f, l, log)
  PROVE  Said(l, log) = f[Len(log)]
<1> DEFINE N == Len(log)
           Eq(h) == h = [n \in 0 .. N |-> IF n = 0 THEN <<>> ELSE Saying(h[n - 1], l, log[n])]
           d == CHOOSE h : Eq(h)
<1>1. N \in Nat
  OBVIOUS
<1>2. Eq(f)
  BY <1>1 DEF Speaks
<1>3. Eq(d)
  BY <1>2
<1>4. Said(l, log) = d[N]
  BY DEF Said
<1> HIDE DEF d
<1>5. /\ d[0] = <<>>
      /\ \A n \in 1 .. N : d[n] = Saying(d[n - 1], l, log[n])
  BY <1>1, <1>3
<1> HIDE DEF Eq
<1>6. \A n \in 1 .. N : d[n - 1] = f[n - 1] => d[n] = f[n]
  BY <1>1, <1>5 DEF Speaks
<1>7. \A n \in 0 .. N : d[n] = f[n]
  <2>1. d[0] = f[0]
    BY <1>5 DEF Speaks
  <2> QED
    BY <1>1, <1>6, <2>1, Facts!SameSteps
<1> QED
  BY <1>1, <1>4, <1>7

LEMMA SaidNothing == \A l : Said(l, <<>>) = <<>>
<1> TAKE l
<1>1. <<>> \in Seq(Message) /\ Len(<<>>) = 0
  OBVIOUS
<1>2. PICK f : Speaks(f, l, <<>>)
  BY <1>1, SomeSpeech
<1>3. f[0] = <<>>
  BY <1>2 DEF Speaks
<1>4. Said(l, <<>>) = f[Len(<<>>)]
  BY <1>1, <1>2, SaidIs
<1> QED
  BY <1>1, <1>3, <1>4

LEMMA SaidAppend ==
  ASSUME NEW l, NEW log \in Seq(Message), NEW m \in Message
  PROVE  Said(l, Append(log, m)) = Saying(Said(l, log), l, m)
<1> DEFINE N == Len(log)
           more == Append(log, m)
<1>1. /\ N \in Nat /\ more \in Seq(Message) /\ Len(more) = N + 1
      /\ \A n \in 1 .. N : more[n] = log[n]
      /\ more[N + 1] = m
  OBVIOUS
<1>2. PICK f : Speaks(f, l, log)
  BY SomeSpeech
<1> DEFINE last == Saying(f[N], l, m)
           g == [n \in 0 .. N + 1 |-> IF n <= N THEN f[n] ELSE last]
<1>3. f[N] \in Seq(Storable) /\ last \in Seq(Storable)
  BY <1>1, <1>2, SayingType DEF Speaks
<1> HIDE DEF more
<1>4. ASSUME NEW n \in 1 .. N + 1
      PROVE  g[n] = Saying(g[n - 1], l, more[n])
  <2>1. n - 1 \in 0 .. N /\ g[n - 1] = f[n - 1]
    BY <1>1
  <2>2. CASE n = N + 1
    BY <1>1, <2>1, <2>2
  <2>3. CASE n \in 1 .. N
    BY <1>1, <1>2, <2>1, <2>3 DEF Speaks
  <2> QED
    BY <1>1, <2>2, <2>3
<1>5. g \in [0 .. N + 1 -> Seq(Storable)] /\ g[0] = <<>> /\ g[N + 1] = last
  BY <1>1, <1>2, <1>3 DEF Speaks
<1> HIDE DEF g
<1>6. Speaks(g, l, more)
  BY <1>1, <1>4, <1>5 DEF Speaks
<1>7. Said(l, more) = g[N + 1]
  BY <1>1, <1>6, SaidIs
<1>8. Said(l, log) = f[N]
  BY <1>2, SaidIs
<1> QED
  BY <1>5, <1>7, <1>8 DEF more
-----------------------------------------------------------------------------
(* The chain is a sequence, so that its places are numbers.                *)

LEMMA Flattened ==
  ASSUME NEW T, NEW seqs \in Seq(Seq(T))
  PROVE  FlattenSeq(seqs) \in Seq(T)
<1> DEFINE N == Len(seqs)
           S == Seq(T)
           step == [p \in (1 .. N) \X S |-> p[2] \o seqs[p[1]]]
           Eq(h) == h = [i \in 1 .. N |-> IF i = 1 THEN seqs[i] ELSE h[i - 1] \o seqs[i]]
           d == CHOOSE h : Eq(h)
<1>1. N \in Nat /\ <<>> \in S /\ \A n \in 1 .. N : seqs[n] \in S
  OBVIOUS
<1>2. CASE N = 0
  <2>1. seqs = <<>>
    BY <1>2
  <2> QED
    BY <1>2, <2>1 DEF FlattenSeq
<1>3. CASE N # 0
  <2>1. step \in [(1 .. N) \X S -> S]
    BY <1>1
  <2>2. PICK f : Facts!Iterates(f, N, S, <<>>, step)
    <3> HIDE DEF N, S, step
    <3> QED
      BY <1>1, <2>1, Facts!Iterated
  <2>3. f \in [0 .. N -> S] /\ f[0] = <<>>
    BY <2>2 DEF Facts!Iterates
  <2>4. \A n \in 1 .. N : f[n - 1] \in S /\ f[n] = f[n - 1] \o seqs[n]
    <3> TAKE n \in 1 .. N
    <3>1. n - 1 \in 0 .. N
      BY <1>1
    <3>2. f[n - 1] \in S
      BY <2>3, <3>1
    <3>3. <<n, f[n - 1]>> \in (1 .. N) \X S
      BY <3>2
    <3>4. f[n] = step[<<n, f[n - 1]>>]
      BY <2>2 DEF Facts!Iterates
    <3> QED
      BY <3>2, <3>3, <3>4
  <2> DEFINE h == [i \in 1 .. N |-> f[i]]
  <2>5. Eq(h)
    <3>1. ASSUME NEW i \in 1 .. N PROVE h[i] = IF i = 1 THEN seqs[i] ELSE h[i - 1] \o seqs[i]
      <4>1. CASE i = 1
        <5>1. f[1] = f[0] \o seqs[1] /\ seqs[1] \in Seq(T)
          <6>1. 1 \in 1 .. N /\ 1 - 1 = 0
            BY <1>1, <1>3
          <6> QED
            BY <1>1, <2>4, <6>1
        <5>2. <<>> \o seqs[1] = seqs[1]
          BY <5>1
        <5> QED
          BY <2>3, <4>1, <5>1, <5>2
      <4>2. CASE i # 1
        <5>1. i - 1 \in 1 .. N
          BY <1>1, <4>2
        <5> QED
          BY <2>4, <4>2, <5>1
      <4> QED
        BY <4>1, <4>2
    <3> HIDE DEF h
    <3>2. h = [i \in 1 .. N |-> h[i]]
      BY DEF h
    <3> QED
      BY <3>1, <3>2
  <2>6. Eq(d)
    <3> HIDE DEF h, Eq
    <3> QED
      BY <2>5
  <2>7. FlattenSeq(seqs) = d[N]
    BY <1>3 DEF FlattenSeq
  <2> HIDE DEF d
  <2>8. \A i \in 1 .. N : d[i] = IF i = 1 THEN seqs[i] ELSE d[i - 1] \o seqs[i]
    BY <2>6
  <2> DEFINE P == {m \in Nat : m + 1 <= N => d[m + 1] \in S}
  <2>9. 0 \in P
    BY <1>1, <1>3, <2>8
  <2>10. ASSUME NEW m \in Nat, m \in P PROVE m + 1 \in P
    <3> SUFFICES ASSUME m + 2 <= N PROVE d[m + 2] \in S
      OBVIOUS
    <3>1. d[m + 1] \in S /\ m + 2 \in 1 .. N /\ (m + 2) - 1 = m + 1 /\ m + 2 # 1
      BY <1>1, <2>10
    <3>2. d[m + 2] = d[m + 1] \o seqs[m + 2]
      BY <2>8, <3>1
    <3> QED
      BY <1>1, <3>1, <3>2
  <2> HIDE DEF P
  <2>11. Nat \subseteq P
    BY <2>9, <2>10, Facts!Induction
  <2>12. N - 1 \in P /\ (N - 1) + 1 = N
    BY <1>1, <1>3, <2>11
  <2>13. d[N] \in S
    BY <1>1, <2>12 DEF P
  <2> QED
    BY <2>7, <2>13
<1> QED
  BY <1>2, <1>3

LEMMA Places ==
  /\ Len(Chain) \in Nat /\ DOMAIN Chain = 1 .. Len(Chain)
  /\ ToEmit # 0 /\ ToEmit # Over
  /\ \A p \in DOMAIN Chain : p \in Nat /\ p # ToEmit /\ p + 1 # ToEmit
<1> DEFINE kinds == [i \in DOMAIN Layers |-> [k \in DOMAIN Layers[i].members |-> Layers[i].kind]]
           K == Seq({"inspector", "mutator"})
           L == [kind : {"inspector", "mutator"}, members : Seq(STRING)]
<1>0. Layers \in Seq(L)
  BY ChainAssumption
<1>1. \A i \in DOMAIN Layers : kinds[i] \in K
  <2> TAKE i \in DOMAIN Layers
  <2>1. Layers[i] \in L
    <3> HIDE DEF L
    <3> QED
      BY <1>0
  <2>2. DOMAIN Layers[i].members = 1 .. Len(Layers[i].members) /\ Len(Layers[i].members) \in Nat
    BY <2>1
  <2> QED
    BY <2>1, <2>2
<1>2. kinds \in Seq(K)
  <2>1. DOMAIN Layers = 1 .. Len(Layers) /\ Len(Layers) \in Nat
    <3> HIDE DEF L
    <3> QED
      BY <1>0
  <2> HIDE DEF K
  <2> QED
    BY <1>1, <2>1
<1> HIDE DEF kinds
<1>3. FlattenSeq(kinds) \in Seq({"inspector", "mutator"})
  BY <1>2, Flattened
<1>4. Chain \in Seq({"inspector", "mutator"})
  BY <1>3 DEF Chain, kinds
<1>5. Len(Chain) \in Nat /\ DOMAIN Chain = 1 .. Len(Chain)
  BY <1>4
<1> QED
  BY <1>5 DEF ToEmit, Over

-----------------------------------------------------------------------------
(* The conversation follows the loops.                                     *)

\* What a sequence holds past its first n, and what it holds when it has grown.
Past(s, n) == SubSeq(s, n + 1, Len(s))

LEMMA PastGrown ==
  ASSUME NEW S, NEW s \in Seq(S), NEW n \in Nat, n <= Len(s), NEW e \in S
  PROVE  Past(Append(s, e), n) = Append(Past(s, n), e)
<1> DEFINE a == Append(s, e)
           r == Past(s, n)
           t == Past(a, n)
<1>1. Len(s) \in Nat /\ \A i \in 1 .. Len(s) : s[i] \in S
  OBVIOUS
<1>2. r \in Seq(S) /\ Len(r) = Len(s) - n /\ \A i \in 1 .. Len(s) - n : r[i] = s[n + i]
  BY <1>1, SubSeqProperties DEF Past
<1>3. /\ Len(a) = Len(s) + 1
      /\ \A i \in 1 .. Len(s) : a[i] = s[i]
      /\ a[Len(s) + 1] = e
      /\ \A i \in 1 .. Len(s) + 1 : a[i] \in S
  BY <1>1
<1>4. t \in Seq(S) /\ Len(t) = Len(s) + 1 - n /\ \A i \in 1 .. Len(s) + 1 - n : t[i] = a[n + i]
  <2> HIDE DEF a
  <2> QED
    BY <1>1, <1>3, SubSeqProperties DEF Past
<1> HIDE DEF a, t, r
<1>5. /\ Append(r, e) \in Seq(S) /\ Len(Append(r, e)) = Len(s) + 1 - n
      /\ \A i \in 1 .. Len(s) - n : Append(r, e)[i] = s[n + i]
      /\ Append(r, e)[Len(s) - n + 1] = e
  BY <1>1, <1>2
<1>6. ASSUME NEW i \in 1 .. Len(t) PROVE t[i] = Append(r, e)[i]
  <2>1. CASE i = Len(s) - n + 1
    <3>1. n + i = Len(s) + 1
      BY <1>1, <2>1
    <3> QED
      BY <1>3, <1>4, <1>5, <2>1, <3>1
  <2>2. CASE i \in 1 .. Len(s) - n
    <3>1. n + i \in 1 .. Len(s)
      BY <1>1, <2>2
    <3> QED
      BY <1>3, <1>4, <1>5, <2>2, <3>1
  <2>3. i = Len(s) - n + 1 \/ i \in 1 .. Len(s) - n
    BY <1>1, <1>4
  <2> QED
    BY <2>1, <2>2, <2>3
<1>7. t = Append(r, e)
  BY <1>4, <1>5, <1>6, SeqEqual
<1> QED
  BY <1>7 DEF a, t, r

LEMMA PastAll ==
  ASSUME NEW S, NEW s \in Seq(S)
  PROVE  Past(s, Len(s)) = <<>>
BY SubSeqEmpty DEF Past

LoopsOK ==
  /\ event \in [Loops -> Event \cup {Nothing}]
  /\ DOMAIN at = Loops
  /\ sink \in [Loops -> Seq(Storable)]
  /\ cleared \in [Loops -> Nat]
  /\ \A l \in Loops : cleared[l] <= Len(Pushed(l))

FollowInv == Facts!SessionInv /\ LoopsOK /\ ContextFollows

LEMMA PushedType ==
  ASSUME LoopsOK, NEW l \in Loops
  PROVE  Pushed(l) \in Seq(Storable)
BY DEF LoopsOK, Pushed

LEMMA InitFollows == Init => FollowInv
<1> SUFFICES ASSUME Init PROVE FollowInv
  OBVIOUS
<1>1. Facts!SessionInv
  BY Facts!InitStep, SameActions DEF Init
<1>2. \A l \in Loops : Pushed(l) = <<>>
  BY Places DEF Init, Pushed
<1>3. LoopsOK
  BY <1>2 DEF Init, LoopsOK
<1>4. Facts!Drained(mailbox) = <<>>
  BY Facts!InitStep, SameActions DEF Init, Facts!Log!Init
<1>5. SubSeq(<<>>, 0 + 1, Len(<<>>)) = <<>>
  BY SubSeqEmpty
<1>6. ContextFollows
  BY <1>2, <1>4, <1>5, SaidNothing, SameLog DEF ContextFollows, Init
<1> QED
  BY <1>1, <1>3, <1>6 DEF FollowInv

\* Steps that neither push nor clear.
LEMMA FollowKept ==
  ASSUME FollowInv, Facts!SessionInv', Facts!Drained(mailbox)' = Facts!Drained(mailbox), UNCHANGED cleared,
         event' \in [Loops -> Event \cup {Nothing}], DOMAIN at' = Loops, sink' \in [Loops -> Seq(Storable)],
         \A l \in Loops : Pushed(l)' = Pushed(l)
  PROVE  FollowInv'
<1>1. LoopsOK'
  BY DEF FollowInv, LoopsOK
<1>2. ContextFollows'
  BY SameLog DEF FollowInv, ContextFollows
<1> QED
  BY <1>1, <1>2 DEF FollowInv

LEMMA QuietFollows ==
  ASSUME FollowInv, Quiet
  PROVE  FollowInv'
<1>1. Facts!SessionInv' /\ Facts!Drained(mailbox)' = Facts!Drained(mailbox) /\ UNCHANGED cleared
  BY QuietKeeps, SessionKept DEF FollowInv, Facts!Log!vars
<1> DEFINE shape == /\ event' \in [Loops -> Event \cup {Nothing}] /\ DOMAIN at' = Loops
                    /\ sink' \in [Loops -> Seq(Storable)]
                    /\ \A l \in Loops : Pushed(l)' = Pushed(l)
<1>2. event \in [Loops -> Event \cup {Nothing}] /\ DOMAIN at = Loops /\ sink \in [Loops -> Seq(Storable)]
  BY DEF FollowInv, LoopsOK
<1>3. ASSUME NEW l \in Loops, NEW p, NEW e \in Event \cup {Nothing},
             at[l] # ToEmit, p # ToEmit, Onto(l, p, e), sink' = sink
      PROVE  shape
  <2>1. /\ at'[l] # ToEmit /\ DOMAIN at' = Loops
        /\ \A k \in Loops \ {l} : at'[k] = at[k] /\ event'[k] = event[k]
        /\ event' \in [Loops -> Event \cup {Nothing}]
    BY <1>2, <1>3 DEF Onto
  <2> QED
    BY <1>2, <1>3, <2>1 DEF Pushed
<1>4. ASSUME NEW l \in Loops, Emit(l) PROVE shape
  <2>1. /\ at[l] = ToEmit /\ at'[l] = 0 /\ at'[l] # ToEmit
        /\ DOMAIN at' = Loops /\ event' \in [Loops -> Event \cup {Nothing}]
        /\ \A k \in Loops \ {l} : at'[k] = at[k] /\ event'[k] = event[k] /\ sink'[k] = sink[k]
    BY <1>2, <1>4, Places DEF Emit, Onto
  <2>2. /\ sink'[l] = Pushed(l)
        /\ sink' \in [Loops -> Seq(Storable)]
    BY <1>2, <1>4, <2>1 DEF Emit, Pushed
  <2> QED
    BY <2>1, <2>2 DEF Pushed
<1>5. ASSUME UNCHANGED loopVars PROVE shape
  BY <1>2, <1>5 DEF loopVars, Pushed
<1>6. shape
  <2> HIDE DEF shape
  <2>1. ASSUME NEW l \in Loops, NEW e \in Event, Take(l, e) PROVE shape
    <3>1. at[l] # ToEmit /\ 1 # ToEmit
      BY <2>1, Places DEF Take, ToEmit
    <3> QED
      BY <1>3, <2>1, <3>1 DEF Take, Onto
  <2>2. ASSUME NEW l \in Loops, Spawn(l) PROVE shape
    <3>1. at[l] # ToEmit /\ at[l] + 1 # ToEmit /\ Onto(l, at[l] + 1, event[l]) /\ sink' = sink
      BY <2>2, Places DEF Spawn, InLayer
    <3> QED
      BY <1>2, <1>3, <3>1
  <2>3. ASSUME NEW l \in Loops, Mutate(l) PROVE shape
    <3>1. at[l] # ToEmit /\ at[l] + 1 # ToEmit /\ 0 # ToEmit /\ Over # ToEmit /\ sink' = sink
      BY <2>3, Places DEF Mutate, InLayer
    <3> QED
      BY <1>3, <2>3, <3>1 DEF Mutate
  <2>4. ASSUME NEW l \in Loops, End(l) PROVE shape
    <3>1. at[l] # ToEmit /\ Over # ToEmit /\ Onto(l, Over, Nothing) /\ sink' = sink
      BY <2>4, Places DEF End
    <3> QED
      BY <1>3, <3>1
  <2>5. (\E l \in Loops : (\E e \in Event : Take(l, e)) \/ Spawn(l) \/ Mutate(l) \/ Emit(l) \/ End(l))
        \/ UNCHANGED loopVars
    BY DEF Quiet, DropAgent, LogError, LogEnds, Inspected, Objects
  <2> QED
    BY <1>4, <1>5, <2>1, <2>2, <2>3, <2>4, <2>5
<1> QED
  BY <1>1, <1>6, FollowKept

LEMMA StoreFollows ==
  ASSUME FollowInv, NEW l \in Loops, Store(l)
  PROVE  FollowInv'
<1>1. /\ event \in [Loops -> Event \cup {Nothing}] /\ DOMAIN at = Loops
      /\ sink \in [Loops -> Seq(Storable)] /\ cleared \in [Loops -> Nat]
      /\ at[l] = ToStore /\ at[l] # ToEmit /\ at'[l] = ToEmit /\ event' = event /\ sink' = sink /\ cleared' = cleared
      /\ DOMAIN at' = Loops /\ \A k \in Loops \ {l} : at'[k] = at[k]
  BY Places DEF Store, Onto, FollowInv, LoopsOK, ToStore, ToEmit
<1>2. \A k \in Loops \ {l} : Pushed(k)' = Pushed(k)
  BY <1>1 DEF Pushed
<1>3. Pushed(l) = sink[l] /\ Pushed(l)' = IF event[l] \in Storable THEN Append(sink[l], event[l]) ELSE sink[l]
  BY <1>1 DEF Pushed
<1>4. Facts!SessionInv'
  BY StoreStep DEF FollowInv
<1>5. CASE event[l] \notin Storable
  <2>1. Facts!Drained(mailbox)' = Facts!Drained(mailbox)
    BY <1>5, StoreStep DEF FollowInv, Facts!Log!vars
  <2> QED
    BY <1>1, <1>2, <1>3, <1>4, <1>5, <2>1, FollowKept
<1>6. CASE event[l] \in Storable
  <2> DEFINE m == [loop |-> l, event |-> event[l]]
             log == Facts!Drained(mailbox)
  <2>1. m \in Message /\ m.loop = l /\ m.event = event[l]
    BY <1>6 DEF Message
  <2>2. log' = Append(log, m)
    BY <1>6, StoreStep DEF FollowInv, Facts!Log!Push
  <2>3. log \in Seq(Message)
    BY Facts!LogType DEF FollowInv
  <2> HIDE DEF m, log
  <2>4. \A k : Said(k, log') = Saying(Said(k, log), k, m)
    BY <2>1, <2>2, <2>3, SaidAppend
  <2>5. /\ Len(sink[l]) \in Nat /\ Len(Append(sink[l], event[l])) = Len(sink[l]) + 1
        /\ cleared[l] \in Nat /\ cleared[l] <= Len(sink[l])
    BY <1>1, <1>3, <1>6 DEF FollowInv, LoopsOK
  <2>6. LoopsOK'
    <3>1. \A k \in Loops : cleared[k] <= Len(Pushed(k)')
      <4> TAKE k \in Loops
      <4>1. CASE k = l
        BY <1>3, <1>6, <2>5, <4>1
      <4>2. CASE k # l
        BY <1>2, <4>2 DEF FollowInv, LoopsOK
      <4> QED
        BY <4>1, <4>2
    <3> QED
      BY <1>1, <3>1 DEF LoopsOK
  <2>7. ASSUME NEW k \in Loops PROVE Said(k, log') = Past(Pushed(k)', cleared[k])
    <3>1. Said(k, log) = Past(Pushed(k), cleared[k])
      BY SameLog DEF FollowInv, ContextFollows, log, Past
    <3>2. CASE k # l
      BY <1>2, <2>1, <2>4, <3>1, <3>2 DEF Saying
    <3>3. CASE k = l
      <4>1. Said(l, log') = Append(Past(sink[l], cleared[l]), event[l])
        BY <1>3, <2>1, <2>4, <3>1, <3>3 DEF Saying
      <4>2. sink[l] \in Seq(Storable) /\ event[l] \in Storable
        BY <1>1, <1>6
      <4>3. Past(Append(sink[l], event[l]), cleared[l]) = Append(Past(sink[l], cleared[l]), event[l])
        BY <2>5, <4>2, PastGrown
      <4> QED
        BY <1>3, <1>6, <3>3, <4>1, <4>3
    <3> QED
      BY <3>2, <3>3
  <2>8. ContextFollows'
    BY <1>1, <2>7, SameLog DEF ContextFollows, log, Past
  <2> QED
    BY <1>4, <2>6, <2>8 DEF FollowInv
<1> QED
  BY <1>5, <1>6

LEMMA ClearFollows ==
  ASSUME FollowInv, Clear
  PROVE  FollowInv'
<1>1. Facts!SessionInv' /\ Facts!Drained(mailbox)' = <<>>
  BY Facts!ClearStep, SameActions, Nothings DEF FollowInv, Clear, Facts!Log!Clear
<1>2. UNCHANGED loopVars /\ cleared' = [l \in Loops |-> Len(Pushed(l))]
  BY DEF Clear
<1>3. \A l \in Loops : Pushed(l)' = Pushed(l) /\ Pushed(l) \in Seq(Storable)
  BY <1>2, PushedType DEF loopVars, Pushed, FollowInv
<1>4. LoopsOK'
  BY <1>2, <1>3 DEF FollowInv, LoopsOK, loopVars
<1>5. ContextFollows'
  <2>1. \A l \in Loops : Said(l, <<>>) = Past(Pushed(l), Len(Pushed(l)))
    BY <1>3, PastAll, SaidNothing
  <2> QED
    BY <1>1, <1>2, <1>3, <2>1, SameLog DEF ContextFollows, Past
<1> QED
  BY <1>1, <1>4, <1>5 DEF FollowInv

LEMMA StepFollows == FollowInv /\ [Next]_vars => FollowInv'
<1> SUFFICES ASSUME FollowInv, [Next]_vars PROVE FollowInv'
  OBVIOUS
<1>0. /\ event \in [Loops -> Event \cup {Nothing}] /\ DOMAIN at = Loops /\ sink \in [Loops -> Seq(Storable)]
      /\ Facts!SessionInv
  BY DEF FollowInv, LoopsOK
<1>1. UNCHANGED loopVars => /\ event' \in [Loops -> Event \cup {Nothing}] /\ DOMAIN at' = Loops
                            /\ sink' \in [Loops -> Seq(Storable)]
                            /\ \A l \in Loops : Pushed(l)' = Pushed(l)
  BY <1>0 DEF loopVars, Pushed
<1>2. ASSUME NEW c \in Clients, Ask(c) PROVE FollowInv'
  <2>1. Facts!SessionInv' /\ (Facts!Log!Fetch(c) \/ Facts!Log!Release(c))
    BY <1>0, <1>2, Facts!FetchStep, Facts!AbandonStep, Facts!ReceiveStep, SameActions, Nothings DEF Ask
  <2>2. Facts!Drained(mailbox)' = Facts!Drained(mailbox)
    BY <2>1 DEF Facts!Log!Fetch, Facts!Log!Release
  <2> QED
    BY <1>1, <1>2, <2>1, <2>2, FollowKept DEF Ask
<1>3. CASE Handle
  <2>1. Facts!SessionInv' /\ Facts!Drained(mailbox)' = Facts!Drained(mailbox)
    BY <1>0, <1>3, Facts!HandleStep, SameActions, Nothings DEF Handle, Facts!Log!vars
  <2> QED
    BY <1>1, <1>3, <2>1, FollowKept DEF Handle
<1>4. CASE UNCHANGED vars
  <2>1. Facts!SessionInv' /\ Facts!Drained(mailbox)' = Facts!Drained(mailbox)
    BY <1>0, <1>4, SessionKept DEF vars, Facts!Log!vars
  <2> QED
    BY <1>1, <1>4, <2>1, FollowKept DEF vars
<1> QED
  BY <1>2, <1>3, <1>4, QuietFollows, StoreFollows, ClearFollows DEF Next, Quiet

(***************************************************************************)
(* For any chain and any number of loops: of the messages of a loop the    *)
(* conversation, with what is still in the mailbox, holds exactly those    *)
(* that it has pushed since the last Clear, in their order.                *)
(***************************************************************************)
THEOREM ContextAlwaysFollows == Spec => []ContextFollows
<1>1. Init => FollowInv
  BY InitFollows
<1>2. FollowInv /\ [Next]_vars => FollowInv'
  BY StepFollows
<1>3. FollowInv => ContextFollows
  BY DEF FollowInv
<1> QED
  BY <1>1, <1>2, <1>3, PTL DEF Spec
=============================================================================
