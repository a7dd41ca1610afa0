------------------------ MODULE CallLifecycleProofs ------------------------
(***************************************************************************)
(* Proofs about CallLifecycle, for any calls, made in any of the four ways *)
(* and emitting any number of events, and channels of any capacity: what a *)
(* call answers and streams that had the agent to itself.                  *)
(***************************************************************************)
EXTENDS CallLifecycle, TLAPS

Shape ==
  /\ kind \in [Calls -> Kind]
  /\ task \in [Calls -> {"new", "running", "ok", "failed"}]
  /\ emitted \in [Calls -> Nat]
  /\ closed \in [Calls -> BOOLEAN]
  /\ dispatcher \in [Calls -> BOOLEAN]
  /\ handle \in [Calls -> {"none"} \cup Using \cup Gone]
  /\ cancelled \subseteq Calls
  /\ inbox \in [Calls -> Seq(Event)]
  /\ got \in [Calls -> Seq(Event)]
  /\ relay \in [Calls -> BOOLEAN]
  /\ feed \in [Calls -> Seq(Event)]
  /\ stream \in [Calls -> Seq(Event)]
  /\ heard \in [Calls -> Seq(Event)]
  /\ ended \in [Calls -> BOOLEAN]
  /\ met \subseteq Calls

\* A loop that is over emits nothing more, and a call has what its kind and its
\* handle give it.
Staged(c) ==
  /\ handle[c] = "none" =>
       task[c] = "new" /\ emitted[c] = 0 /\ ~dispatcher[c] /\ ~relay[c] /\ feed[c] = <<>>
  /\ closed[c] => task[c] = "ok"
  /\ handle[c] \in Using /\ ~dispatcher[c] => task[c] = "ok"
  /\ handle[c] \in {"draining", "returned"} => task[c] = "ok"
  /\ handle[c] \in {"none", "held", "joining"} => got[c] = <<>>
  /\ handle[c] \notin Using => inbox[c] = <<>> /\ stream[c] = <<>> /\ heard[c] = <<>> /\ ~ended[c]
  /\ relay[c] => c \in Streams
  /\ c \notin Streams => heard[c] = <<>> /\ ~ended[c]

\* A call that has met no other one is at work alone.
Alone == \A c \in AtWork \ met : AtWork = {c}

\* What call c has published while its handle listens: its data, then Done.
Nth(c, n) == IF n <= emitted[c] THEN Data(c, n) ELSE Done(c)
Published(c) == IF dispatcher[c] THEN emitted[c] ELSE emitted[c] + 1

\* What was read of the channel and what waits in it are the last events, as
\* many as the channel holds; it may lose one more only while nothing was read.
First(c) == Published(c) - Len(got[c]) - Len(inbox[c])
Kept(c) ==
  /\ First(c) >= 0
  /\ Len(inbox[c]) <= Capacity
  /\ First(c) > 0 => Len(got[c]) + Len(inbox[c]) >= Capacity
  /\ dispatcher[c] => Len(got[c]) + Len(inbox[c]) <= Capacity
  /\ \A i \in 1 .. Len(got[c]) : got[c][i] = Nth(c, First(c) + i)
  /\ \A i \in 1 .. Len(inbox[c]) : inbox[c][i] = Nth(c, First(c) + Len(got[c]) + i)
  /\ Len(got[c]) > 0 => First(c) + Len(got[c]) <= emitted[c]

\* What a returned response is made of.
Answered(c) ==
  LET first == emitted[c] - Len(got[c])
  IN  /\ first >= 0
      /\ first > 0 => Len(got[c]) + 1 >= Capacity
      /\ \A i \in 1 .. Len(got[c]) : got[c][i] = Nth(c, first + i)

\* What was heard, what waits to be and what waits for the relay follow one
\* another without a gap, until the relay has lagged.
Passed(c) == Len(heard[c]) + Len(stream[c])
Read(c) ==
  /\ Passed(c) <= Published(c)
  /\ \A i \in 1 .. Len(heard[c]) : heard[c][i] = Nth(c, i)
  /\ \A i \in 1 .. Len(stream[c]) : stream[c][i] = Nth(c, Len(heard[c]) + i)
Fed(c) ==
  relay[c] =>
    \/ feed[c] # <<>> /\ ~Passes(c) /\ emitted[c] >= Capacity
    \/ /\ Passed(c) + Len(feed[c]) = Published(c)
       /\ \A i \in 1 .. Len(feed[c]) : feed[c][i] = Nth(c, Passed(c) + i)
Closing(c) ==
  /\ c \in Streams /\ ~relay[c] /\ emitted[c] < Capacity =>
       ~dispatcher[c] /\ Passed(c) = emitted[c] + 1
  /\ ended[c] /\ c \notin cancelled => stream[c] = <<>> /\ ~relay[c]
Streamed(c) == Read(c) /\ Fed(c) /\ Closing(c)

Own(c) ==
  c \notin met =>
    /\ handle[c] \in Using => Kept(c) /\ Streamed(c)
    /\ handle[c] = "returned" => Answered(c)

\* Nothing of call c changes that its handle and its relay work with, and
\* nothing of it at all.
Still(c) ==
  /\ kind'[c] = kind[c] /\ emitted'[c] = emitted[c] /\ (dispatcher'[c] <=> dispatcher[c])
  /\ handle'[c] = handle[c] /\ (c \in cancelled' <=> c \in cancelled) /\ got'[c] = got[c]
  /\ (relay'[c] <=> relay[c]) /\ stream'[c] = stream[c] /\ heard'[c] = heard[c]
  /\ (ended'[c] <=> ended[c])
Same(c) == Still(c) /\ task'[c] = task[c] /\ (closed'[c] <=> closed[c])

LifeInv ==
  /\ Shape
  /\ Alone
  /\ \A c \in Calls : Staged(c) /\ Own(c)

-----------------------------------------------------------------------------
(* What a step of one call does to another one.                            *)

\* A call that is not touched, and whose channels are not.
LEMMA Unmoved ==
  ASSUME NEW c \in Calls, Own(c), Still(c), inbox'[c] = inbox[c], feed'[c] = feed[c],
         met \subseteq met'
  PROVE  Own(c)'
<1> USE DEF Still
<1>1. /\ Published(c)' = Published(c) /\ (c \in Streams <=> (c \in Streams)')
      /\ \A n : Nth(c, n)' = Nth(c, n)
      /\ Passes(c)' = Passes(c)
  BY DEF Published, Streams, Nth, Data, Done, Passes
<1>3. Kept(c) => Kept(c)'
  BY <1>1 DEF Kept, First
<1>4. Streamed(c) => Streamed(c)'
  <2>1. Read(c) => Read(c)'
    BY <1>1 DEF Read, Passed
  <2>2. Fed(c) => Fed(c)'
    BY <1>1 DEF Fed, Passed
  <2>3. Closing(c) => Closing(c)'
    BY <1>1 DEF Closing, Passed
  <2> QED
    BY <2>1, <2>2, <2>3 DEF Streamed
<1>5. Answered(c) => Answered(c)'
  BY <1>1 DEF Answered
<1> QED
  BY <1>3, <1>4, <1>5 DEF Own

LEMMA Untouched ==
  ASSUME NEW c \in Calls, Staged(c), Own(c), Same(c), inbox'[c] = inbox[c], feed'[c] = feed[c],
         met \subseteq met'
  PROVE  Staged(c)' /\ Own(c)'
  BY Unmoved DEF Same, Still, Staged, Streams

\* What one call publishes leaves a call alone that it has never met.
LEMMA Overheard ==
  ASSUME LifeInv, NEW d \in AtWork, NEW c \in Calls \ {d}, NEW e, Publish(e), Same(c), met' = met
  PROVE  Staged(c)' /\ Own(c)'
<1>1. Staged(c) /\ Own(c)
  BY DEF LifeInv
<1>2. CASE c \in AtWork
  <2>1. c \in met'
    BY <1>2 DEF LifeInv, Alone
  <2>2. Staged(c)'
    BY <1>1 DEF Staged, Same, Still, Streams, LifeInv, Shape, Publish
  <2> QED
    BY <2>1, <2>2 DEF Own
<1>3. CASE c \notin AtWork
  <2>1. inbox'[c] = inbox[c] /\ feed'[c] = feed[c]
    BY <1>3 DEF AtWork, Publish, LifeInv, Shape
  <2> QED
    BY <1>1, <2>1, Untouched
<1> QED
  BY <1>2, <1>3

-----------------------------------------------------------------------------
(* What call c publishes itself.                                           *)

LEMMA EventTypes ==
  ASSUME NEW c \in Calls, NEW n \in Nat
  PROVE  Data(c, n) \in Event /\ Done(c) \in Event /\ Lagged(c) \in Event
  BY DEF Data, Done, Lagged, Event

LEMMA PublishTypes ==
  ASSUME Shape, LifecycleAssumption, NEW e \in Event, Publish(e)
  PROVE  inbox' \in [Calls -> Seq(Event)] /\ feed' \in [Calls -> Seq(Event)]
<1>1. \A q \in Seq(Event) : IntoInbox(q, e) \in Seq(Event)
  BY DEF IntoInbox, LifecycleAssumption
<1>2. ASSUME NEW c \in Calls PROVE IntoFeed(c, e) \in Seq(Event)
  <2>1. feed[c] \in Seq(Event) /\ Lagged(c) \in Event
    BY EventTypes DEF Shape
  <2> QED
    BY <2>1 DEF IntoFeed
<1> QED
  BY <1>1, <1>2 DEF Publish, Shape

\* The next event of a call: more data, or the end.
Utters(c, e) ==
  /\ Publish(e)
  /\ got'[c] = got[c] /\ stream'[c] = stream[c] /\ heard'[c] = heard[c]
  /\ dispatcher[c]
  /\ \/ e = Data(c, emitted[c] + 1) /\ emitted'[c] = emitted[c] + 1 /\ dispatcher'[c]
     \/ e = Done(c) /\ emitted'[c] = emitted[c] /\ ~dispatcher'[c]

LEMMA Uttered ==
  ASSUME Shape, NEW c \in Calls, NEW e, Utters(c, e)
  PROVE  /\ e \in Event
         /\ emitted[c] \in Nat /\ emitted'[c] \in Nat /\ emitted[c] <= emitted'[c]
         /\ Published(c) = emitted[c] /\ Published(c)' = emitted[c] + 1
         /\ \A n \in Int : n <= emitted[c] => Nth(c, n) = Data(c, n)
         /\ \A n \in Int :
              Nth(c, n)' = IF n <= emitted'[c] THEN Data(c, n) ELSE Done(c)
         /\ e = IF emitted[c] + 1 <= emitted'[c] THEN Data(c, emitted[c] + 1) ELSE Done(c)
<1>1. emitted[c] \in Nat
  BY DEF Shape
<1>2. Data(c, emitted[c] + 1) \in Event /\ Done(c) \in Event
  BY <1>1, EventTypes
<1> QED
  BY <1>1, <1>2 DEF Utters, Published, Nth

LEMMA AppendParts ==
  ASSUME NEW E, NEW s \in Seq(E), NEW e \in E
  PROVE  /\ Len(Append(s, e)) = Len(s) + 1 /\ Append(s, e) # <<>>
         /\ \A i \in 1 .. Len(s) : Append(s, e)[i] = s[i]
         /\ Append(s, e)[Len(s) + 1] = e
         /\ s # <<>> => Head(Append(s, e)) = Head(s)
<1>1. /\ Len(Append(s, e)) = Len(s) + 1 /\ Append(s, e) # <<>>
      /\ \A i \in 1 .. Len(s) : Append(s, e)[i] = s[i]
      /\ Append(s, e)[Len(s) + 1] = e
  OBVIOUS
<1>2. ASSUME s # <<>> PROVE Head(Append(s, e)) = Head(s)
  <2>1. 1 \in 1 .. Len(s) /\ Head(s) = s[1]
    BY <1>2
  <2>2. Append(s, e)[1] = s[1]
    BY <1>1, <2>1
  <2>3. Append(s, e) \in Seq(E) /\ Append(s, e) # <<>>
    BY <1>1
  <2>4. Head(Append(s, e)) = Append(s, e)[1]
    BY <2>3
  <2> QED
    BY <2>1, <2>2, <2>4
<1> QED
  BY <1>1, <1>2

LEMMA ShiftParts ==
  ASSUME NEW E, NEW s \in Seq(E), NEW e \in E, s # <<>>
  PROVE  /\ Len(Append(Tail(s), e)) = Len(s)
         /\ \A i \in 1 .. Len(s) - 1 : Append(Tail(s), e)[i] = s[i + 1]
         /\ Append(Tail(s), e)[Len(s)] = e
<1>1. Tail(s) \in Seq(E) /\ Len(Tail(s)) = Len(s) - 1 /\ \A i \in 1 .. Len(s) - 1 : Tail(s)[i] = s[i + 1]
  OBVIOUS
<1> QED
  BY <1>1, AppendParts

LEMMA KeptPublish ==
  ASSUME Shape, LifecycleAssumption, NEW c \in Calls, NEW e, Utters(c, e), Kept(c),
         handle[c] \in Using,
         Len(got[c]) = 0 \/ ~dispatcher'[c]
  PROVE  Kept(c)'
<1> DEFINE q == inbox[c]
<1>1. q \in Seq(Event) /\ inbox'[c] = IntoInbox(q, e)
  BY DEF Shape, Utters, Publish
<1>2. PICK n \in Nat, r \in Nat : n = Len(inbox[c]) /\ r = Len(got[c])
  BY DEF Shape
<1>3. got'[c] = got[c] /\ dispatcher[c] /\ Capacity \in Nat \ {0}
  BY DEF Utters, LifecycleAssumption
<1>4. PICK m \in Nat : m = emitted[c]
  BY DEF Shape
<1>5. /\ e \in Event
      /\ emitted'[c] \in Nat /\ m <= emitted'[c]
      /\ Published(c) = m /\ Published(c)' = m + 1
      /\ e = IF m + 1 <= emitted'[c] THEN Data(c, m + 1) ELSE Done(c)
  BY <1>4, Uttered
<1> DEFINE f == m - r - n
<1>6. First(c) = f /\ f \in Int
  BY <1>2, <1>5 DEF First
<1>7. First(c)' = m + 1 - r - Len(inbox'[c])
  BY <1>2, <1>3, <1>5 DEF First
<1>8. /\ f >= 0 /\ n <= Capacity
      /\ f > 0 => r + n >= Capacity
      /\ r + n <= Capacity
      /\ \A i \in 1 .. r : got[c][i] = Data(c, f + i)
      /\ \A i \in 1 .. n : q[i] = Data(c, f + r + i)
  <2>1. /\ f >= 0 /\ n <= Capacity
        /\ f > 0 => r + n >= Capacity
        /\ r + n <= Capacity
    BY <1>2, <1>3, <1>6 DEF Kept
  <2>2. ASSUME NEW i \in 1 .. r PROVE got[c][i] = Data(c, f + i)
    <3>1. got[c][i] = Nth(c, f + i)
      BY <1>2, <1>6 DEF Kept
    <3>2. f + i <= m /\ f + i \in Int
      OBVIOUS
    <3> QED
      BY <1>4, <3>1, <3>2 DEF Nth
  <2>3. ASSUME NEW i \in 1 .. n PROVE q[i] = Data(c, f + r + i)
    <3>1. q[i] = Nth(c, f + r + i)
      BY <1>2, <1>6 DEF Kept
    <3>2. f + r + i <= m /\ f + r + i \in Int
      OBVIOUS
    <3> QED
      BY <1>4, <3>1, <3>2 DEF Nth
  <2> QED
    BY <2>1, <2>2, <2>3
<1>9. CASE n < Capacity
  <2>1. /\ Len(inbox'[c]) = n + 1
        /\ \A i \in 1 .. n : inbox'[c][i] = q[i]
        /\ inbox'[c][n + 1] = e
    BY <1>1, <1>2, <1>5, <1>9, AppendParts DEF IntoInbox
  <2>2. First(c)' = f
    BY <1>7, <2>1
  <2>3. \A i \in 1 .. r : got'[c][i] = Nth(c, First(c) + i)'
    BY <1>3, <1>5, <1>8, <2>2 DEF Nth
  <2>4. \A i \in 1 .. n + 1 : inbox'[c][i] = Nth(c, First(c) + Len(got[c]) + i)'
    <3>1. ASSUME NEW i \in 1 .. n PROVE inbox'[c][i] = Nth(c, First(c) + Len(got[c]) + i)'
      <4>1. inbox'[c][i] = Data(c, f + r + i) /\ f + r + i <= emitted'[c]
        BY <1>5, <1>8, <2>1
      <4> QED
        BY <1>2, <1>3, <2>2, <4>1 DEF Nth
    <3>2. f + r + (n + 1) = m + 1
      OBVIOUS
    <3>3. inbox'[c][n + 1] = Nth(c, First(c) + Len(got[c]) + (n + 1))'
      BY <1>2, <1>3, <1>5, <2>1, <2>2, <3>2 DEF Nth
    <3> QED
      BY <3>1, <3>3
  <2>5. r + n + 1 <= Capacity \/ ~dispatcher'[c]
    <3>1. r = 0 \/ ~dispatcher'[c]
      BY <1>2
    <3> QED
      BY <1>3, <1>9, <3>1
  <2>6. r > 0 => f + r <= emitted'[c]
    BY <1>5
  <2>7. /\ Len(got'[c]) = r /\ Len(inbox'[c]) = n + 1 /\ n + 1 <= Capacity
        /\ f > 0 => r + (n + 1) >= Capacity
        /\ dispatcher'[c] => r + (n + 1) <= Capacity
    <3>1. Len(got'[c]) = r
      BY <1>2, <1>3
    <3>2. n + 1 <= Capacity /\ (f > 0 => r + (n + 1) >= Capacity)
      BY <1>3, <1>8, <1>9
    <3>3. dispatcher'[c] => r + (n + 1) <= Capacity
      BY <1>3, <1>9, <2>5
    <3> QED
      BY <2>1, <3>1, <3>2, <3>3
  <2> QED
    BY <1>8, <2>2, <2>3, <2>4, <2>6, <2>7 DEF Kept
<1>10. CASE n = Capacity
  <2>1. /\ Len(inbox'[c]) = n
        /\ \A i \in 1 .. n - 1 : inbox'[c][i] = q[i + 1]
        /\ inbox'[c][n] = e
    <3>1. q # <<>> /\ inbox'[c] = Append(Tail(q), e)
      <4>1. ~(Len(q) < Capacity) /\ Len(q) # 0
        BY <1>2, <1>3, <1>10
      <4> QED
        BY <1>1, <4>1 DEF IntoInbox
    <3> QED
      BY <1>1, <1>2, <1>5, <3>1, ShiftParts
  <2>2. r = 0
    BY <1>3, <1>8, <1>10
  <2>3. First(c)' = f + 1
    BY <1>7, <2>1
  <2>4. \A i \in 1 .. n : inbox'[c][i] = Nth(c, First(c) + Len(got[c]) + i)'
    <3>1. ASSUME NEW i \in 1 .. n - 1 PROVE inbox'[c][i] = Nth(c, First(c) + Len(got[c]) + i)'
      <4>1. i + 1 \in 1 .. n /\ f + r + (i + 1) = f + 1 + r + i /\ f + 1 + r + i <= m
        OBVIOUS
      <4>2. inbox'[c][i] = Data(c, f + 1 + r + i) /\ f + 1 + r + i <= emitted'[c]
        BY <1>5, <1>8, <2>1, <4>1
      <4> QED
        BY <1>2, <1>3, <2>3, <4>2 DEF Nth
    <3>2. f + 1 + r + n = m + 1
      OBVIOUS
    <3>3. inbox'[c][n] = Nth(c, First(c) + Len(got[c]) + n)'
      BY <1>2, <1>3, <1>5, <2>1, <2>3, <3>2 DEF Nth
    <3> QED
      BY <3>1, <3>3
  <2> QED
    BY <1>2, <1>3, <1>8, <1>10, <2>1, <2>2, <2>3, <2>4 DEF Kept
<1> QED
  BY <1>3, <1>8, <1>9, <1>10

LEMMA ReadPublish ==
  ASSUME Shape, NEW c \in Calls, NEW e, Utters(c, e), Read(c)
  PROVE  Read(c)' /\ Passed(c)' = Passed(c) /\ Passed(c) \in Nat
<1>1. PICK h \in Nat, s \in Nat : h = Len(heard[c]) /\ s = Len(stream[c])
  BY DEF Shape
<1>2. heard'[c] = heard[c] /\ stream'[c] = stream[c]
  BY DEF Utters
<1>3. PICK m \in Nat : m = emitted[c]
  BY DEF Shape
<1>4. emitted'[c] \in Nat /\ m <= emitted'[c] /\ Published(c) = m /\ Published(c)' = m + 1
  BY <1>3, Uttered
<1>5. Passed(c) = h + s /\ Passed(c)' = h + s
  BY <1>1, <1>2 DEF Passed
<1>6. h + s <= m
  BY <1>4, <1>5 DEF Read
<1>7. ASSUME NEW i \in 1 .. h PROVE heard'[c][i] = Nth(c, i)'
  <2>1. heard[c][i] = Nth(c, i)
    BY <1>1 DEF Read
  <2>2. i <= m
    BY <1>6
  <2> QED
    BY <1>2, <1>3, <1>4, <2>1, <2>2 DEF Nth
<1>8. ASSUME NEW i \in 1 .. s PROVE stream'[c][i] = Nth(c, Len(heard[c]) + i)'
  <2>1. stream[c][i] = Nth(c, h + i)
    BY <1>1 DEF Read
  <2>2. h + i <= m
    BY <1>6
  <2> QED
    BY <1>1, <1>2, <1>3, <1>4, <2>1, <2>2 DEF Nth
<1>9. Passed(c)' <= Published(c)' /\ h + s \in Nat
  BY <1>4, <1>5, <1>6
<1>10. Len(heard'[c]) = h /\ Len(stream'[c]) = s
  BY <1>1, <1>2
<1> QED
  BY <1>5, <1>7, <1>8, <1>9, <1>10 DEF Read

LEMMA FedPublish ==
  ASSUME Shape, LifecycleAssumption, NEW c \in Calls, NEW e, Utters(c, e), Read(c), Fed(c),
         relay'[c] <=> relay[c]
  PROVE  Fed(c)'
<1> SUFFICES ASSUME relay[c] PROVE Fed(c)'
  BY DEF Fed
<1> DEFINE q == feed[c]
<1>1. q \in Seq(Event) /\ feed'[c] = IntoFeed(c, e)
  BY DEF Shape, Utters, Publish
<1>2. PICK n \in Nat, p \in Nat : n = Len(feed[c]) /\ p = Passed(c)
  BY ReadPublish DEF Shape
<1>3. PICK m \in Nat : m = emitted[c]
  BY DEF Shape
<1>4. /\ e \in Event
      /\ emitted'[c] \in Nat /\ m <= emitted'[c] /\ Capacity \in Nat \ {0}
      /\ Published(c) = m /\ Published(c)' = m + 1
      /\ e = IF m + 1 <= emitted'[c] THEN Data(c, m + 1) ELSE Done(c)
  BY <1>3, Uttered DEF LifecycleAssumption
<1>5. Passed(c)' = p
  BY <1>2, ReadPublish
<1>6. CASE n < Capacity
  <2>1. feed'[c] = Append(q, e)
    BY <1>1, <1>2, <1>6 DEF IntoFeed
  <2>2. /\ Len(feed'[c]) = n + 1
        /\ \A i \in 1 .. n : feed'[c][i] = q[i]
        /\ feed'[c][n + 1] = e
        /\ feed'[c] # <<>>
        /\ q # <<>> => Head(feed'[c]) = Head(q)
    <3>1. Len(q) = n /\ q \in Seq(Event) /\ e \in Event
      BY <1>1, <1>2, <1>4
    <3>2. /\ Len(Append(q, e)) = Len(q) + 1 /\ Append(q, e) # <<>>
          /\ \A i \in 1 .. Len(q) : Append(q, e)[i] = q[i]
          /\ Append(q, e)[Len(q) + 1] = e
          /\ q # <<>> => Head(Append(q, e)) = Head(q)
      BY <3>1, AppendParts
    <3> QED
      BY <2>1, <3>1, <3>2
  <2>3. CASE q # <<>> /\ ~Passes(c) /\ emitted[c] >= Capacity
    BY <1>3, <1>4, <2>2, <2>3 DEF Fed, Passes
  <2>4. CASE Passed(c) + Len(q) = Published(c) /\ \A i \in 1 .. Len(q) : q[i] = Nth(c, Passed(c) + i)
    <3>0. p + n = m
      BY <1>2, <1>4, <2>4
    <3>1. \A i \in 1 .. n : q[i] = Data(c, p + i)
      BY <1>2, <1>3, <2>4, <3>0 DEF Nth
    <3>2. ASSUME NEW i \in 1 .. n PROVE feed'[c][i] = Nth(c, Passed(c) + i)'
      <4>1. feed'[c][i] = Data(c, p + i) /\ p + i <= emitted'[c]
        BY <1>4, <2>2, <3>0, <3>1
      <4> QED
        BY <1>5, <4>1 DEF Nth
    <3>3. p + (n + 1) = m + 1
      BY <3>0
    <3>4. feed'[c][n + 1] = Nth(c, Passed(c) + (n + 1))'
      BY <1>4, <1>5, <2>2, <3>3 DEF Nth
    <3>5. \A i \in 1 .. n + 1 : feed'[c][i] = Nth(c, Passed(c) + i)'
      BY <3>2, <3>4
    <3> QED
      BY <1>4, <1>5, <2>2, <3>3, <3>5 DEF Fed
  <2> QED
    BY <2>3, <2>4 DEF Fed
<1>7. CASE ~(n < Capacity)
  <2>1. feed'[c] = <<Lagged(c)>>
    BY <1>1, <1>2, <1>7 DEF IntoFeed
  <2>2. feed'[c] # <<>> /\ ~Passes(c)'
    BY <2>1 DEF Passes, Lagged
  <2>3. emitted'[c] >= Capacity
    BY <1>2, <1>3, <1>4, <1>7 DEF Fed
  <2> QED
    BY <2>2, <2>3 DEF Fed
<1> QED
  BY <1>6, <1>7

-----------------------------------------------------------------------------
(* What a step leaves alone.                                               *)

\* A step of call d, without the name of its kind.
Starts(d) ==
  /\ Begin(d)
  /\ IF d \in Streams THEN relay' = [relay EXCEPT ![d] = TRUE] ELSE UNCHANGED relay
Moves(d) ==
  \/ Starts(d)
  \/ Emit(d) \/ Finish(d) \/ Fail(d)
  \/ Cancel(d) \/ Drop(d) \/ Await(d)
  \/ Background(d)

LEMMA NextMoves == Shape /\ Next => \E d \in Calls : Moves(d)
<1> SUFFICES ASSUME Shape, Next PROVE \E d \in Calls : Moves(d)
  OBVIOUS
<1>1. PICK d \in Calls : \/ Fire(d) \/ FireStream(d) \/ Send(d) \/ SendStream(d) \/ Moves(d)
  BY DEF Next, Moves
<1>2. Fire(d) \/ FireStream(d) \/ Send(d) \/ SendStream(d) => Starts(d)
  BY DEF Fire, FireStream, Send, SendStream, Starts, Streams, Plain, Relayed
<1> QED
  BY <1>1, <1>2 DEF Moves

LEMMA OthersKeep ==
  ASSUME LifeInv, NEW d \in Calls, Moves(d), NEW c \in Calls \ {d}
  PROVE  Staged(c)' /\ Own(c)'
<1>0. Staged(c) /\ Own(c) /\ Shape
  BY DEF LifeInv
<1> USE DEF Same, Still
<1>1. CASE Emit(d)
  <2>1. Same(c) /\ met' = met /\ d \in AtWork
    BY <1>0, <1>1 DEF Emit, Shape, AtWork, handleVars, streamVars
  <2> QED
    BY <1>1, <2>1, Overheard DEF Emit
<1>2. CASE Dispatch(d)
  <2>1. Same(c) /\ met' = met /\ d \in AtWork
    BY <1>0, <1>2 DEF Dispatch, Shape, AtWork, handleVars, streamVars, taskVars
  <2> QED
    BY <1>2, <2>1, Overheard DEF Dispatch
<1> DEFINE Quiet == Same(c) /\ inbox'[c] = inbox[c] /\ feed'[c] = feed[c] /\ met \subseteq met'
<1>3. CASE Starts(d)
  <2>1. Quiet
    BY <1>0, <1>3 DEF Starts, Begin, Shape, chanVars
  <2> QED
    BY <1>0, <2>1, Untouched
<1>4. CASE Finish(d) \/ Fail(d) \/ Cancel(d) \/ Await(d) \/ DispatcherClosed(d)
  <2>1. Quiet
    BY <1>0, <1>4 DEF Finish, Fail, Cancel, Await, DispatcherClosed, Shape, chanVars, streamVars,
       handleVars, taskVars
  <2> QED
    BY <1>0, <2>1, Untouched
<1>5. CASE Drop(d) \/ JoinFailed(d) \/ JoinOk(d) \/ Collect(d)
  <2>0. ASSUME NEW as, Release(d, as)
        PROVE  /\ handle'[c] = handle[c] /\ (c \in cancelled' <=> c \in cancelled) /\ got'[c] = got[c]
               /\ inbox'[c] = inbox[c] /\ stream'[c] = stream[c] /\ heard'[c] = heard[c]
               /\ (ended'[c] <=> ended[c])
    BY <1>0, <2>0 DEF Release, Shape
  <2>1. Quiet
    <3>1. CASE Drop(d)
      BY <1>0, <2>0, <3>1 DEF Drop, Shape, taskVars
    <3>2. CASE JoinFailed(d)
      BY <1>0, <2>0, <3>2 DEF JoinFailed, Shape, taskVars
    <3>3. CASE JoinOk(d)
      BY <1>0, <2>0, <3>3 DEF JoinOk, Shape, taskVars
    <3>4. CASE Collect(d)
      BY <1>0, <2>0, <3>4 DEF Collect, Shape, taskVars
    <3> QED
      BY <1>5, <3>1, <3>2, <3>3, <3>4
  <2> QED
    BY <1>0, <2>1, Untouched
<1>6. CASE Relay(d) \/ RelayLagged(d) \/ RelayStop(d) \/ Recv(d) \/ RecvNone(d)
  <2>1. Quiet
    BY <1>0, <1>6 DEF Relay, RelayLagged, RelayStop, Recv, RecvNone, Shape, chanVars, streamVars,
       handleVars, taskVars
  <2> QED
    BY <1>0, <2>1, Untouched
<1> QED
  BY <1>1, <1>2, <1>3, <1>4, <1>5, <1>6 DEF Moves, Background

LEMMA AloneKeeps ==
  ASSUME LifeInv, NEW d \in Calls, Moves(d)
  PROVE  Alone'
<1>0. Shape /\ Alone
  BY DEF LifeInv
<1>1. CASE Starts(d)
  <2>1. AtWork' = AtWork \cup {d}
    BY <1>0, <1>1 DEF Starts, Begin, AtWork, Shape, Using
  <2>2. met' = IF AtWork = {} THEN met ELSE met \cup AtWork \cup {d}
    BY <1>1 DEF Starts, Begin
  <2> QED
    BY <1>0, <2>1, <2>2 DEF Alone
<1>2. ASSUME ~Starts(d) PROVE AtWork' \subseteq AtWork /\ met' = met
  <2>0. Shape /\ Staged(d)
    BY DEF LifeInv
  <2>1. CASE Emit(d) \/ Dispatch(d)
    BY <2>0, <2>1 DEF Emit, Dispatch, AtWork, Shape, handleVars, streamVars, taskVars
  <2>2. CASE Finish(d) \/ Fail(d) \/ Cancel(d) \/ Await(d) \/ DispatcherClosed(d)
    BY <2>0, <2>2 DEF Finish, Fail, Cancel, Await, DispatcherClosed, AtWork, Shape, chanVars,
       streamVars,
       handleVars, taskVars, Using
  <2>3. CASE Drop(d) \/ JoinFailed(d) \/ JoinOk(d) \/ Collect(d)
    BY <2>0, <2>3 DEF Drop, JoinFailed, JoinOk, Collect, Release, AtWork, Shape, taskVars, Using
  <2>4. CASE Relay(d) \/ RelayLagged(d) \/ RelayStop(d) \/ Recv(d) \/ RecvNone(d)
    BY <2>0, <2>4 DEF Relay, RelayLagged, RelayStop, Recv, RecvNone, AtWork, Shape, chanVars,
       streamVars,
       handleVars, taskVars
  <2> QED
    BY <1>2, <2>1, <2>2, <2>3, <2>4 DEF Moves, Background
<1>3. CASE ~Starts(d)
  BY <1>0, <1>2, <1>3 DEF Alone
<1> QED
  BY <1>1, <1>3

LEMMA ShapeKeeps ==
  ASSUME Shape, LifecycleAssumption, NEW d \in Calls, Moves(d)
  PROVE  Shape'
<1> USE DEF Shape, Using, Gone
<1>1. CASE Emit(d)
  <2>1. Data(d, emitted[d] + 1) \in Event
    BY EventTypes
  <2>2. inbox' \in [Calls -> Seq(Event)] /\ feed' \in [Calls -> Seq(Event)]
    BY <1>1, <2>1, PublishTypes DEF Emit
  <2>3. emitted' \in [Calls -> Nat] /\ task' = task
    BY <1>1 DEF Emit
  <2> QED
    BY <1>1, <2>2, <2>3 DEF Emit, handleVars, streamVars
<1>2. CASE Dispatch(d)
  <2>1. Done(d) \in Event
    BY EventTypes, 0 \in Nat
  <2>2. inbox' \in [Calls -> Seq(Event)] /\ feed' \in [Calls -> Seq(Event)]
    BY <1>2, <2>1, PublishTypes DEF Dispatch
  <2> QED
    BY <1>2, <2>2 DEF Dispatch, handleVars, streamVars, taskVars
<1>3. CASE Starts(d)
  <2>1. AtWork \subseteq Calls
    BY DEF AtWork
  <2> QED
    BY <1>3, <2>1 DEF Starts, Begin, chanVars
<1>4. CASE Finish(d) \/ Fail(d) \/ Cancel(d) \/ Await(d) \/ DispatcherClosed(d)
  BY <1>4 DEF Finish, Fail, Cancel, Await, DispatcherClosed, chanVars, streamVars, handleVars, taskVars
<1>r. ASSUME NEW as \in Gone, Release(d, as)
      PROVE  /\ handle' \in [Calls -> {"none"} \cup Using \cup Gone] /\ cancelled' \subseteq Calls
             /\ inbox' \in [Calls -> Seq(Event)] /\ got' \in [Calls -> Seq(Event)]
             /\ stream' \in [Calls -> Seq(Event)] /\ heard' \in [Calls -> Seq(Event)]
             /\ ended' \in [Calls -> BOOLEAN]
  <2>1. <<>> \in Seq(Event)
    OBVIOUS
  <2> QED
    BY <1>r, <2>1 DEF Release
<1>5. CASE Drop(d) \/ JoinFailed(d)
  BY <1>5, <1>r DEF Drop, JoinFailed, taskVars
<1>10. CASE JoinOk(d)
  <2>1. closed' \in [Calls -> BOOLEAN]
    BY <1>10 DEF JoinOk
  <2>2. CASE d \in cancelled
    BY <1>10, <1>r, <2>1, <2>2 DEF JoinOk, taskVars
  <2>3. CASE d \notin cancelled
    BY <1>10, <2>1, <2>3 DEF JoinOk, taskVars
  <2> QED
    BY <2>2, <2>3
<1>6. CASE Collect(d)
  <2>1. Head(inbox[d]) \in Event /\ Tail(inbox[d]) \in Seq(Event)
    BY <1>6 DEF Collect
  <2>2. Append(got[d], Head(inbox[d])) \in Seq(Event)
    BY <2>1
  <2>3. CASE Head(inbox[d]).kind = "done"
    BY <1>6, <1>r, <2>3 DEF Collect, taskVars
  <2>4. CASE Head(inbox[d]).kind # "done"
    BY <1>6, <2>1, <2>2, <2>4 DEF Collect, taskVars
  <2> QED
    BY <2>3, <2>4
<1>7. CASE Relay(d)
  <2>1. Head(feed[d]) \in Event /\ Tail(feed[d]) \in Seq(Event)
    BY <1>7 DEF Relay
  <2>2. Append(stream[d], Head(feed[d])) \in Seq(Event)
    BY <2>1
  <2> QED
    BY <1>7, <2>1, <2>2 DEF Relay, handleVars, taskVars
<1>8. CASE RelayLagged(d) \/ RelayStop(d) \/ RecvNone(d)
  <2>1. <<>> \in Seq(Event)
    OBVIOUS
  <2>2. CASE RelayLagged(d) \/ RelayStop(d)
    <3>1. relay' = [relay EXCEPT ![d] = FALSE] /\ feed' = [feed EXCEPT ![d] = <<>>]
      BY <2>2 DEF RelayLagged, RelayStop
    <3>2. relay' \in [Calls -> BOOLEAN]
      BY <3>1
    <3>3. feed' \in [Calls -> Seq(Event)]
      BY <2>1, <3>1
    <3> QED
      BY <2>2, <3>2, <3>3 DEF RelayLagged, RelayStop, handleVars, taskVars
  <2>3. CASE RecvNone(d)
    BY <2>3 DEF RecvNone, chanVars, handleVars, taskVars
  <2> QED
    BY <1>8, <2>2, <2>3
<1>9. CASE Recv(d)
  <2>1. Head(stream[d]) \in Event /\ Tail(stream[d]) \in Seq(Event)
    BY <1>9 DEF Recv
  <2>2. Append(heard[d], Head(stream[d])) \in Seq(Event)
    BY <2>1
  <2> QED
    BY <1>9, <2>1, <2>2 DEF Recv, chanVars, handleVars, taskVars
<1> QED
  BY <1>1, <1>2, <1>3, <1>4, <1>5, <1>6, <1>7, <1>8, <1>9, <1>10 DEF Moves, Background

-----------------------------------------------------------------------------
(* What a step does to its own call.                                       *)

LEMMA StagedKeeps ==
  ASSUME LifeInv, NEW c \in Calls, Moves(c)
  PROVE  Staged(c)'
<1>0. Shape /\ Staged(c)
  BY DEF LifeInv
<1> USE DEF Shape, Staged, Using, Gone, Streams
<1>1. CASE Starts(c)
  BY <1>0, <1>1 DEF Starts, Begin, chanVars
<1>2. CASE Emit(c)
  BY <1>0, <1>2 DEF Emit, Publish, handleVars, streamVars
<1>3. CASE Finish(c)
  BY <1>0, <1>3 DEF Finish, chanVars, handleVars, streamVars
<1>4. CASE Fail(c)
  BY <1>0, <1>4 DEF Fail, chanVars, handleVars, streamVars
<1>5. CASE Cancel(c) \/ Await(c)
  BY <1>0, <1>5 DEF Cancel, Await, chanVars, streamVars, taskVars
<1>6. CASE Dispatch(c)
  BY <1>0, <1>6 DEF Dispatch, Publish, taskVars, handleVars, streamVars
<1>7. CASE DispatcherClosed(c)
  BY <1>0, <1>7 DEF DispatcherClosed, taskVars, handleVars, streamVars, chanVars
<1>r. ASSUME NEW as \in Gone, Release(c, as)
      PROVE  /\ handle'[c] = as /\ inbox'[c] = <<>> /\ stream'[c] = <<>> /\ heard'[c] = <<>> /\ ~ended'[c]
  BY <1>0, <1>r DEF Release
<1>8. CASE Drop(c)
  BY <1>0, <1>8, <1>r DEF Drop, taskVars
<1>9. CASE JoinFailed(c)
  BY <1>0, <1>9, <1>r DEF JoinFailed, taskVars
<1>10. CASE JoinOk(c)
  BY <1>0, <1>10, <1>r DEF JoinOk, taskVars
<1>11. CASE Collect(c)
  BY <1>0, <1>11, <1>r DEF Collect, taskVars
<1>12. CASE Relay(c)
  BY <1>0, <1>12 DEF Relay, taskVars, handleVars
<1>13. CASE RelayLagged(c) \/ RelayStop(c)
  BY <1>0, <1>13 DEF RelayLagged, RelayStop, taskVars, handleVars
<1>14. CASE Recv(c)
  BY <1>0, <1>14 DEF Recv, taskVars, handleVars, chanVars
<1>15. CASE RecvNone(c)
  BY <1>0, <1>15 DEF RecvNone, taskVars, handleVars, chanVars
<1> QED
  BY <1>1, <1>2, <1>3, <1>4, <1>5, <1>6, <1>7, <1>8, <1>9, <1>10, <1>11, <1>12, <1>13, <1>14, <1>15
     DEF Moves, Background

\* The end of a stream of events is its last one.
LEMMA AtTheEnd ==
  ASSUME Shape, NEW c \in Calls, NEW n \in Int, n <= Published(c)
  PROVE  /\ Nth(c, n).kind # "lagged"
         /\ Nth(c, n).kind = "done" <=> ~dispatcher[c] /\ n = Published(c)
  BY DEF Nth, Published, Data, Done, Shape

LEMMA CallKeeps ==
  ASSUME LifeInv, LifecycleAssumption, NEW c \in Calls, Emit(c) \/ Dispatch(c)
  PROVE  Own(c)'
<1>0. Shape /\ Staged(c) /\ Own(c)
  BY DEF LifeInv
<1> SUFFICES ASSUME c \notin met', handle'[c] \in Using \/ handle'[c] = "returned"
             PROVE  /\ handle'[c] \in Using => Kept(c)' /\ Streamed(c)'
                    /\ handle'[c] = "returned" => Answered(c)'
  BY DEF Own
<1>1. met' = met /\ handle' = handle /\ cancelled' = cancelled /\ kind' = kind
      /\ stream' = stream /\ relay' = relay /\ ended' = ended
  BY DEF Emit, Dispatch, handleVars, streamVars
<1>2. CASE handle[c] \in Using
  <2>1. dispatcher[c]
    BY <1>0, <1>2 DEF Staged, Emit, Dispatch
  <2>2. PICK e : Utters(c, e)
    <3>1. CASE Emit(c)
      BY <1>0, <2>1, <3>1 DEF Emit, Utters, Shape, handleVars, streamVars
    <3>2. CASE Dispatch(c)
      BY <1>0, <2>1, <3>2 DEF Dispatch, Utters, Shape, handleVars, streamVars, taskVars
    <3> QED
      BY <3>1, <3>2
  <2>3. Kept(c) /\ Read(c) /\ Fed(c) /\ Closing(c)
    BY <1>1, <1>2 , <1>0 DEF Own, Streamed
  <2>4. Len(got[c]) = 0 \/ ~dispatcher'[c]
    <3>1. CASE Emit(c)
      BY <1>0, <1>2, <3>1 DEF Emit, Staged, Using
    <3>2. CASE Dispatch(c)
      BY <1>0, <3>2 DEF Dispatch, Shape
    <3> QED
      BY <3>1, <3>2
  <2>5. Kept(c)'
    BY <1>0, <1>2, <2>2, <2>3, <2>4, KeptPublish
  <2>6. Read(c)' /\ Fed(c)' /\ Passed(c)' = Passed(c)
    BY <1>0, <1>1, <2>2, <2>3, ReadPublish, FedPublish
  <2>7. Closing(c)'
    <3>1. emitted[c] \in Nat /\ emitted[c] <= emitted'[c] /\ emitted'[c] \in Nat /\ Capacity \in Nat
      BY <1>0, <2>2, Uttered DEF LifecycleAssumption
    <3> QED
      BY <1>1, <2>1, <2>3, <3>1 DEF Closing, Streams
  <2> QED
    BY <1>1, <1>2, <2>5, <2>6, <2>7 DEF Streamed, Using
<1>3. CASE handle[c] = "returned"
  <2>1. Answered(c) /\ emitted' = emitted /\ got' = got
    BY <1>0, <1>1, <1>3 DEF Own, Staged, Emit, Dispatch, handleVars, taskVars
  <2> QED
    BY <1>1, <1>3, <2>1 DEF Answered, Nth, Using
<1> QED
  BY <1>1, <1>2, <1>3

\* The wait reads the next event, or the Done that ends the response.
LEMMA CollectKeeps ==
  ASSUME LifeInv, LifecycleAssumption, NEW c \in Calls, Collect(c)
  PROVE  Own(c)'
<1>0. Shape /\ Own(c) /\ handle[c] = "draining" /\ met' = met /\ inbox[c] # <<>>
  BY DEF LifeInv, Collect
<1> SUFFICES ASSUME c \notin met
             PROVE  /\ handle'[c] \in Using => Kept(c)' /\ Streamed(c)'
                    /\ handle'[c] = "returned" => Answered(c)'
  BY <1>0 DEF Own
<1>1. Kept(c) /\ Streamed(c)
  BY <1>0 DEF Own, Using
<1> DEFINE q == inbox[c]
<1>2. PICK n \in Nat, r \in Nat, m \in Nat, p \in Int :
        n = Len(inbox[c]) /\ r = Len(got[c]) /\ m = emitted[c] /\ p = Published(c)
  BY <1>0 DEF Shape, Published
<1>3. q \in Seq(Event) /\ got[c] \in Seq(Event) /\ Head(q) \in Event /\ Head(q) = q[1] /\ n > 0
  BY <1>0, <1>2 DEF Shape
<1> DEFINE f == p - r - n
<1>4. First(c) = f /\ f \in Int /\ f >= 0 /\ n <= Capacity /\ (f > 0 => r + n >= Capacity)
      /\ (dispatcher[c] => r + n <= Capacity) /\ Capacity \in Nat
  <2>1. First(c) = f /\ f \in Int
    BY <1>2 DEF First
  <2> QED
    BY <1>1, <1>2, <2>1 DEF Kept, LifecycleAssumption
<1>5. q[1] = Nth(c, f + r + 1)
  BY <1>1, <1>2, <1>3, <1>4 DEF Kept
<1>e. f + r + 1 \in Int /\ f + r + 1 <= Published(c)
  BY <1>2, <1>3, <1>4
<1>6. emitted' = emitted /\ dispatcher' = dispatcher /\ relay' = relay /\ feed' = feed /\ kind' = kind
  BY DEF Collect, taskVars
<1>7. p = IF dispatcher[c] THEN m ELSE m + 1
  BY <1>2 DEF Published
<1>8. CASE Head(q).kind = "done"
  <2>1. handle'[c] = "returned" /\ got'[c] = got[c]
    BY <1>0, <1>8 DEF Collect, Release, Shape
  <2>2. f + r + 1 = p /\ ~dispatcher[c]
    BY <1>0, <1>2, <1>3, <1>5, <1>8, <1>e, AtTheEnd
  <2>3. n = 1 /\ p = m + 1 /\ f = m - r
    BY <1>3, <1>7, <2>2
  <2>4. \A i \in 1 .. r : got'[c][i] = Nth(c, f + i)'
    BY <1>1, <1>2, <1>4, <1>6, <2>1 DEF Kept, Nth
  <2>5. m - Len(got'[c]) = f /\ Len(got'[c]) = r
    BY <1>2, <2>1, <2>3
  <2>6. f > 0 => r + 1 >= Capacity
    BY <1>4, <2>3
  <2>7. Answered(c)'
    BY <1>2, <1>4, <1>6, <2>4, <2>5, <2>6 DEF Answered
  <2> QED
    BY <2>1, <2>7 DEF Using
<1>9. CASE Head(q).kind # "done"
  <2>1. /\ handle' = handle /\ cancelled' = cancelled /\ stream' = stream /\ heard' = heard /\ ended' = ended
        /\ inbox'[c] = Tail(q) /\ got'[c] = Append(got[c], Head(q))
    BY <1>0, <1>9 DEF Collect, Shape
  <2>2. /\ Len(inbox'[c]) = n - 1 /\ Len(got'[c]) = r + 1
        /\ \A i \in 1 .. n - 1 : inbox'[c][i] = q[i + 1]
        /\ \A i \in 1 .. r : got'[c][i] = got[c][i]
        /\ got'[c][r + 1] = q[1]
    BY <1>2, <1>3, <2>1
  <2>3. Published(c)' = p
    BY <1>2, <1>6 DEF Published
  <2>4. First(c)' = f
    BY <2>2, <2>3 DEF First
  <2>5. f + r + 1 <= m
    <3>1. f + r + 1 # p \/ dispatcher[c]
      BY <1>0, <1>2, <1>3, <1>5, <1>9, <1>e, AtTheEnd
    <3> QED
      BY <1>3, <1>7, <3>1
  <2>6. \A k \in Int : Nth(c, k)' = Nth(c, k)
    BY <1>6 DEF Nth
  <2>7. ASSUME NEW i \in 1 .. r + 1 PROVE got'[c][i] = Nth(c, f + i)
    <3>1. CASE i \in 1 .. r
      BY <1>1, <1>2, <1>4, <2>2, <3>1 DEF Kept
    <3>2. CASE i = r + 1
      BY <1>5, <2>2, <3>2
    <3> QED
      BY <3>1, <3>2
  <2>8. ASSUME NEW i \in 1 .. n - 1 PROVE inbox'[c][i] = Nth(c, f + (r + 1) + i)
    <3>1. i + 1 \in 1 .. n /\ f + r + (i + 1) = f + (r + 1) + i
      OBVIOUS
    <3>2. q[i + 1] = Nth(c, f + r + (i + 1))
      BY <1>1, <1>2, <1>4, <3>1 DEF Kept
    <3> QED
      BY <2>2, <3>1, <3>2
  <2>9. Kept(c)'
    <3>1. \A i \in 1 .. Len(got'[c]) : got'[c][i] = Nth(c, First(c) + i)'
      BY <1>6, <2>2, <2>4, <2>7 DEF Nth
    <3>2. \A i \in 1 .. Len(inbox'[c]) : inbox'[c][i] = Nth(c, First(c) + Len(got[c]) + i)'
      BY <1>6, <2>2, <2>4, <2>8 DEF Nth
    <3>3. /\ n - 1 <= Capacity /\ (f > 0 => (r + 1) + (n - 1) >= Capacity)
          /\ (dispatcher[c] => (r + 1) + (n - 1) <= Capacity)
          /\ f + (r + 1) <= m
      BY <1>4, <2>5
    <3> QED
      BY <1>2, <1>4, <1>6, <2>2, <2>4, <3>1, <3>2, <3>3 DEF Kept
  <2>10. Streamed(c)'
    BY <1>1, <1>6, <2>1 DEF Streamed, Read, Fed, Closing, Passed, Published, Nth, Passes, Streams
  <2>11. handle'[c] # "returned"
    BY <1>0, <2>1
  <2> QED
    BY <2>9, <2>10, <2>11
<1> QED
  BY <1>8, <1>9

\* The relay passes on the next event, or the Done that ends the stream.
LEMMA RelayKeeps ==
  ASSUME LifeInv, LifecycleAssumption, NEW c \in Calls, Relay(c)
  PROVE  Own(c)'
<1>0. Shape /\ Staged(c) /\ Own(c) /\ handle[c] \in Using /\ met' = met /\ handle' = handle
  BY DEF LifeInv, Relay, handleVars
<1> SUFFICES ASSUME c \notin met PROVE Kept(c)' /\ Streamed(c)'
  BY <1>0 DEF Own, Using
<1>1. /\ Kept(c) /\ Read(c) /\ Fed(c) /\ Closing(c)
      /\ relay[c] /\ feed[c] # <<>> /\ Passes(c)
  BY <1>0 DEF Own, Streamed, Relay
<1>2. /\ emitted' = emitted /\ dispatcher' = dispatcher /\ kind' = kind /\ cancelled' = cancelled
      /\ got' = got /\ inbox' = inbox /\ heard' = heard /\ ended' = ended
  BY DEF Relay, taskVars, handleVars
<1>3. Kept(c)'
  BY <1>1, <1>2 DEF Kept, First, Published, Nth
<1> DEFINE q == feed[c]
<1>4. PICK n \in Nat, h \in Nat, s \in Nat, p \in Int :
        n = Len(feed[c]) /\ h = Len(heard[c]) /\ s = Len(stream[c]) /\ p = Published(c)
  BY <1>0 DEF Shape, Published
<1>5. q \in Seq(Event) /\ stream[c] \in Seq(Event) /\ Head(q) \in Event /\ Head(q) = q[1] /\ n > 0
  BY <1>0, <1>1, <1>4 DEF Shape
<1>6. Passed(c) = h + s
  BY <1>4 DEF Passed
<1>7. h + s + n = p /\ \A i \in 1 .. n : q[i] = Nth(c, h + s + i)
  BY <1>1, <1>4, <1>6 DEF Fed
<1>8. /\ stream'[c] = Append(stream[c], Head(q)) /\ feed'[c] = Tail(q)
      /\ relay'[c] <=> Head(q).kind # "done"
  BY <1>0 DEF Relay, Shape
<1>9. /\ Len(stream'[c]) = s + 1 /\ Len(feed'[c]) = n - 1
      /\ \A i \in 1 .. s : stream'[c][i] = stream[c][i]
      /\ stream'[c][s + 1] = q[1]
      /\ \A i \in 1 .. n - 1 : feed'[c][i] = q[i + 1]
  BY <1>4, <1>5, <1>8
<1>10. Passed(c)' = h + (s + 1)
  BY <1>2, <1>4, <1>9 DEF Passed
<1>11. Published(c)' = p
  BY <1>2, <1>4 DEF Published
<1>12. q[1] = Nth(c, h + s + 1)
  BY <1>5, <1>7
<1>13. Read(c)'
  <2>1. \A i \in 1 .. h : heard'[c][i] = Nth(c, i)'
    BY <1>1, <1>2, <1>4 DEF Read, Nth
  <2>2. ASSUME NEW i \in 1 .. s + 1 PROVE stream'[c][i] = Nth(c, h + i)
    <3>1. CASE i \in 1 .. s
      BY <1>1, <1>4, <1>9, <3>1 DEF Read
    <3>2. CASE i = s + 1
      <4>1. h + i = h + s + 1
        BY <3>2
      <4> QED
        BY <1>9, <1>12, <3>2, <4>1
    <3> QED
      BY <3>1, <3>2
  <2>3. \A i \in 1 .. s + 1 : stream'[c][i] = Nth(c, Len(heard[c]) + i)'
    BY <1>2, <1>4, <2>2 DEF Nth
  <2>4. h + (s + 1) <= p
    BY <1>5, <1>7
  <2> QED
    BY <1>2, <1>4, <1>9, <1>10, <1>11, <2>1, <2>3, <2>4 DEF Read
<1>14. Fed(c)'
  <2>1. ASSUME NEW i \in 1 .. n - 1 PROVE feed'[c][i] = Nth(c, h + (s + 1) + i)
    <3>1. i + 1 \in 1 .. n /\ h + s + (i + 1) = h + (s + 1) + i
      OBVIOUS
    <3> QED
      BY <1>7, <1>9, <3>1
  <2>2. \A i \in 1 .. n - 1 : feed'[c][i] = Nth(c, Passed(c) + i)'
    BY <1>2, <1>10, <2>1 DEF Nth
  <2>3. h + (s + 1) + (n - 1) = p
    BY <1>7
  <2> QED
    BY <1>9, <1>10, <1>11, <2>2, <2>3 DEF Fed
<1>15. Closing(c)'
  <2>1. ASSUME ~relay'[c] PROVE ~dispatcher[c] /\ h + (s + 1) = emitted[c] + 1
    <3>1. q[1].kind = "done" /\ h + s + 1 \in Int /\ h + s + 1 <= p
      BY <1>5, <1>7, <1>8, <2>1
    <3>2. ~dispatcher[c] /\ h + s + 1 = p
      BY <1>0, <1>4, <1>12, <3>1, AtTheEnd
    <3>3. Published(c) = emitted[c] + 1
      BY <3>2 DEF Published
    <3>4. p = emitted[c] + 1
      BY <1>4, <3>3
    <3>5. h + (s + 1) = p
      BY <3>2
    <3> QED
      BY <3>2, <3>4, <3>5
  <2>2. ~(ended[c] /\ c \notin cancelled)
    BY <1>1 DEF Closing
  <2> QED
    BY <1>2, <1>10, <2>1, <2>2 DEF Closing
<1> QED
  BY <1>3, <1>13, <1>14, <1>15 DEF Streamed

LEMMA RecvKeeps ==
  ASSUME LifeInv, NEW c \in Calls, Recv(c)
  PROVE  Own(c)'
<1>0. Shape /\ Own(c) /\ handle[c] = "held" /\ met' = met /\ handle' = handle /\ stream[c] # <<>>
      /\ c \notin cancelled
  BY DEF LifeInv, Recv, handleVars
<1> SUFFICES ASSUME c \notin met PROVE Kept(c)' /\ Streamed(c)'
  BY <1>0 DEF Own, Using
<1>1. Kept(c) /\ Read(c) /\ Fed(c) /\ Closing(c)
  BY <1>0 DEF Own, Streamed, Using
<1>2. /\ emitted' = emitted /\ dispatcher' = dispatcher /\ kind' = kind /\ cancelled' = cancelled
      /\ got' = got /\ inbox' = inbox /\ feed' = feed /\ relay' = relay /\ ended' = ended
  BY DEF Recv, taskVars, handleVars, chanVars
<1>3. Kept(c)'
  BY <1>1, <1>2 DEF Kept, First, Published, Nth
<1> DEFINE q == stream[c]
<1>4. PICK h \in Nat, s \in Nat, p \in Int : h = Len(heard[c]) /\ s = Len(stream[c]) /\ p = Published(c)
  BY <1>0 DEF Shape, Published
<1>5. q \in Seq(Event) /\ heard[c] \in Seq(Event) /\ Head(q) \in Event /\ Head(q) = q[1] /\ s > 0
  BY <1>0, <1>4 DEF Shape
<1>6. Passed(c) = h + s /\ h + s <= p
  BY <1>1, <1>4 DEF Passed, Read
<1>7. heard'[c] = Append(heard[c], Head(q)) /\ stream'[c] = Tail(q)
  BY <1>0 DEF Recv, Shape
<1>8. /\ Len(heard'[c]) = h + 1 /\ Len(stream'[c]) = s - 1
      /\ \A i \in 1 .. h : heard'[c][i] = heard[c][i]
      /\ heard'[c][h + 1] = q[1]
      /\ \A i \in 1 .. s - 1 : stream'[c][i] = q[i + 1]
  BY <1>4, <1>5, <1>7
<1>9. Passed(c)' = Passed(c) /\ Published(c)' = p
  <2>1. h + 1 + (s - 1) = h + s
    OBVIOUS
  <2> QED
    BY <1>2, <1>4, <1>6, <1>8, <2>1 DEF Passed, Published
<1>10. Read(c)'
  <2>1. ASSUME NEW i \in 1 .. h + 1 PROVE heard'[c][i] = Nth(c, i)
    <3>1. CASE i \in 1 .. h
      BY <1>1, <1>4, <1>8, <3>1 DEF Read
    <3>2. CASE i = h + 1
      BY <1>1, <1>4, <1>5, <1>8, <3>2 DEF Read
    <3> QED
      BY <3>1, <3>2
  <2>2. ASSUME NEW i \in 1 .. s - 1 PROVE stream'[c][i] = Nth(c, h + 1 + i)
    <3>1. i + 1 \in 1 .. s /\ h + (i + 1) = h + 1 + i
      OBVIOUS
    <3>2. q[i + 1] = Nth(c, h + (i + 1))
      BY <1>1, <1>4, <3>1 DEF Read
    <3> QED
      BY <1>8, <3>1, <3>2
  <2>3. /\ \A i \in 1 .. h + 1 : heard'[c][i] = Nth(c, i)'
        /\ \A i \in 1 .. s - 1 : stream'[c][i] = Nth(c, Len(heard[c]) + i)'
    BY <1>2, <1>8, <2>1, <2>2 DEF Nth
  <2> QED
    BY <1>6, <1>8, <1>9, <2>3 DEF Read
<1>11. Fed(c)'
  BY <1>1, <1>2, <1>9 DEF Fed, Passes, Published, Nth
<1>12. Closing(c)'
  BY <1>0, <1>1, <1>2, <1>9 DEF Closing, Streams
<1> QED
  BY <1>3, <1>10, <1>11, <1>12 DEF Streamed

LEMMA StartKeeps ==
  ASSUME LifeInv, LifecycleAssumption, NEW c \in Calls, Starts(c)
  PROVE  Own(c)'
<1>0. Shape /\ Staged(c)
  BY DEF LifeInv
<1>1. /\ handle'[c] = "held" /\ dispatcher'[c] /\ emitted'[c] = 0 /\ kind' = kind
      /\ inbox'[c] = <<>> /\ got'[c] = <<>> /\ stream'[c] = <<>> /\ heard'[c] = <<>> /\ ~ended'[c]
      /\ feed'[c] = <<>> /\ (c \in Streams => relay'[c])
  BY <1>0 DEF Starts, Begin, Staged, Shape, chanVars, Using
<1>2. Published(c)' = 0 /\ Passed(c)' = 0 /\ First(c)' = 0 /\ Len(<<>>) = 0
  BY <1>1 DEF Published, Passed, First
<1>3. Kept(c)'
  BY <1>1, <1>2 DEF Kept, LifecycleAssumption
<1>4. Streamed(c)'
  BY <1>1, <1>2 DEF Streamed, Read, Fed, Closing, Streams
<1> QED
  BY <1>1, <1>3, <1>4 DEF Own

\* Steps that do not touch what a call has published and read.
LEMMA HandleKeeps ==
  ASSUME LifeInv, NEW c \in Calls,
         \/ Finish(c) \/ Fail(c) \/ DispatcherClosed(c) \/ Cancel(c) \/ Await(c)
         \/ Drop(c) \/ JoinFailed(c) \/ JoinOk(c) \/ RelayStop(c)
  PROVE  Own(c)'
<1>0. Shape /\ Staged(c) /\ Own(c)
  BY DEF LifeInv
<1>1. CASE Finish(c) \/ Fail(c)
  <2>1. Still(c) /\ inbox'[c] = inbox[c] /\ feed'[c] = feed[c] /\ met \subseteq met'
    BY <1>1 DEF Finish, Fail, Still, chanVars, handleVars, streamVars
  <2> QED
    BY <1>0, <2>1, Unmoved
<1>2. CASE DispatcherClosed(c) \/ RelayStop(c)
  <2>1. handle[c] \in Gone /\ handle' = handle /\ got' = got /\ emitted' = emitted /\ met' = met
    BY <1>2 DEF DispatcherClosed, RelayStop, taskVars, handleVars
  <2> QED
    BY <1>0, <2>1 DEF Own, Answered, Nth, Gone, Using
<1>3. CASE Cancel(c) \/ Await(c)
  <2>1. /\ handle[c] = "held" /\ handle'[c] \in {"held", "joining"} /\ cancelled \subseteq cancelled'
        /\ emitted' = emitted /\ dispatcher' = dispatcher /\ kind' = kind /\ got' = got /\ inbox' = inbox
        /\ feed' = feed /\ relay' = relay /\ stream' = stream /\ heard' = heard /\ ended' = ended
        /\ met' = met
    BY <1>0, <1>3 DEF Cancel, Await, Shape, taskVars, chanVars, streamVars
  <2>2. Kept(c) => Kept(c)'
    BY <2>1 DEF Kept, First, Published, Nth
  <2>3. Streamed(c) => Streamed(c)'
    BY <2>1 DEF Streamed, Read, Fed, Closing, Passed, Published, Nth, Passes, Streams
  <2> QED
    BY <1>0, <2>1, <2>2, <2>3 DEF Own, Using
<1>4. ASSUME NEW as \in Gone \ {"returned"}, Release(c, as) PROVE Own(c)'
  <2>1. handle'[c] = as
    BY <1>0, <1>4 DEF Release, Shape
  <2> QED
    BY <2>1 DEF Own, Gone, Using
<1>5. CASE Drop(c) \/ JoinFailed(c)
  BY <1>4, <1>5 DEF Drop, JoinFailed, Gone
<1>6. CASE JoinOk(c)
  <2>1. CASE c \in cancelled
    BY <1>4, <1>6, <2>1 DEF JoinOk, Gone
  <2>2. CASE c \notin cancelled
    <3>1. /\ handle[c] = "joining" /\ handle'[c] = "draining" /\ cancelled' = cancelled
          /\ emitted' = emitted /\ dispatcher' = dispatcher /\ kind' = kind /\ got' = got /\ inbox' = inbox
          /\ feed' = feed /\ relay' = relay /\ stream' = stream /\ heard' = heard /\ ended' = ended
          /\ met' = met
      BY <1>0, <1>6, <2>2 DEF JoinOk, Shape, taskVars
    <3>2. Kept(c) => Kept(c)'
      BY <3>1 DEF Kept, First, Published, Nth
    <3>3. Streamed(c) => Streamed(c)'
      BY <3>1 DEF Streamed, Read, Fed, Closing, Passed, Published, Nth, Passes, Streams
    <3> QED
      BY <1>0, <3>1, <3>2, <3>3 DEF Own, Using
  <2> QED
    BY <2>1, <2>2
<1> QED
  BY <1>1, <1>2, <1>3, <1>5, <1>6

\* A relay that lagged ends a stream that has not given all there was.
LEMMA LaggedKeeps ==
  ASSUME LifeInv, LifecycleAssumption, NEW c \in Calls, RelayLagged(c) \/ RecvNone(c)
  PROVE  Own(c)'
<1>0. Shape /\ Staged(c) /\ Own(c)
  BY DEF LifeInv
<1>1. /\ handle' = handle /\ cancelled' = cancelled /\ emitted' = emitted /\ dispatcher' = dispatcher
      /\ kind' = kind /\ got' = got /\ inbox' = inbox /\ stream' = stream /\ heard' = heard /\ met' = met
  BY DEF RelayLagged, RecvNone, taskVars, handleVars, chanVars
<1> SUFFICES ASSUME c \notin met
             PROVE  /\ handle[c] \in Using => Kept(c)' /\ Streamed(c)'
                    /\ handle[c] = "returned" => Answered(c)'
  BY <1>1 DEF Own, Using
<1>2. Answered(c) => Answered(c)'
  BY <1>1 DEF Answered, Nth
<1>3. CASE handle[c] \in Using
  <2>1. Kept(c) /\ Read(c) /\ Fed(c) /\ Closing(c)
    BY <1>0, <1>3 DEF Own, Streamed
  <2>2. Kept(c)' /\ Read(c)'
    BY <1>1, <2>1 DEF Kept, First, Published, Nth, Read, Passed
  <2>3. CASE RelayLagged(c)
    <3>1. relay[c] /\ feed[c] # <<>> /\ ~Passes(c) /\ ~relay'[c] /\ ended' = ended
      BY <1>0, <2>3 DEF RelayLagged, Shape
    <3>2. emitted[c] >= Capacity
      <4>1. PICK n \in Nat, p \in Nat : n = Len(feed[c]) /\ p = Passed(c)
        BY <1>0 DEF Shape, Passed
      <4>2. n > 0 /\ Head(feed[c]) = feed[c][1]
        BY <1>0, <3>1, <4>1 DEF Shape
      <4>3. SUFFICES ASSUME p + n = Published(c), feed[c][1] = Nth(c, p + 1) PROVE FALSE
        BY <2>1, <3>1, <4>1, <4>2 DEF Fed
      <4>4. p + 1 \in Int /\ p + 1 <= Published(c)
        BY <4>2, <4>3
      <4>5. Nth(c, p + 1).kind # "lagged"
        BY <1>0, <4>4, AtTheEnd
      <4> QED
        BY <3>1, <4>2, <4>3, <4>5 DEF Passes
    <3>3. ~(emitted[c] < Capacity)
      BY <1>0, <3>2 DEF Shape, LifecycleAssumption
    <3> QED
      BY <1>1, <1>3, <2>1, <2>2, <3>1, <3>3 DEF Streamed, Fed, Closing, Using
  <2>4. CASE RecvNone(c)
    <3>1. /\ feed' = feed /\ relay' = relay
          /\ c \in cancelled \/ (stream[c] = <<>> /\ ~relay[c])
      BY <2>4 DEF RecvNone, chanVars
    <3> QED
      BY <1>1, <1>3, <2>1, <2>2, <3>1 DEF Streamed, Fed, Closing, Passed, Published, Nth, Passes,
         Streams,
         Using
  <2> QED
    BY <2>3, <2>4
<1> QED
  BY <1>0, <1>2, <1>3 DEF Own, Using

LEMMA InitLife == LifecycleAssumption /\ Init => LifeInv
<1> SUFFICES ASSUME LifecycleAssumption, Init PROVE LifeInv
  OBVIOUS
<1>1. Shape
  <2>1. <<>> \in Seq(Event)
    OBVIOUS
  <2> QED
    BY <2>1 DEF Init, Shape, LifecycleAssumption
<1>2. Alone
  BY DEF Init, Alone, AtWork, Using
<1>3. \A c \in Calls : Staged(c) /\ Own(c)
  BY DEF Init, Staged, Own, Using
<1> QED
  BY <1>1, <1>2, <1>3 DEF LifeInv

LEMMA StutterLife == LifeInv /\ UNCHANGED vars => LifeInv'
<1> SUFFICES ASSUME LifeInv, UNCHANGED vars PROVE LifeInv'
  OBVIOUS
<1>0. UNCHANGED <<kind, taskVars, closed, dispatcher, handleVars, chanVars, streamVars, met>>
  BY DEF vars
<1> USE <1>0 DEF taskVars, handleVars, chanVars, streamVars
<1>1. Shape' /\ Alone'
  BY DEF LifeInv, Shape, Alone, AtWork
<1>2. ASSUME NEW c \in Calls PROVE Staged(c)' /\ Own(c)'
  BY Untouched DEF LifeInv, Same, Still
<1> QED
  BY <1>1, <1>2 DEF LifeInv

LEMMA NextLife == LifecycleAssumption /\ LifeInv /\ [Next]_vars => LifeInv'
<1> SUFFICES ASSUME LifecycleAssumption, LifeInv, Next PROVE LifeInv'
  BY StutterLife
<1>1. PICK d \in Calls : Moves(d)
  BY NextMoves DEF LifeInv
<1>2. Shape' /\ Alone'
  BY <1>1, ShapeKeeps, AloneKeeps DEF LifeInv
<1>3. Staged(d)'
  BY <1>1, StagedKeeps
<1>4. Own(d)'
  BY <1>1, StartKeeps, CallKeeps, CollectKeeps, RelayKeeps, RecvKeeps, HandleKeeps, LaggedKeeps
     DEF Moves, Background
<1>5. ASSUME NEW c \in Calls \ {d} PROVE Staged(c)' /\ Own(c)'
  BY <1>1, OthersKeep
<1> QED
  BY <1>2, <1>3, <1>4, <1>5 DEF LifeInv

LEMMA LifeInvariant == Spec => []LifeInv
<1>1. LifecycleAssumption
  BY LifecycleAssumption
<1>2. Init => LifeInv
  BY <1>1, InitLife
<1>3. LifeInv /\ [Next]_vars => LifeInv'
  BY <1>1, NextLife
<1> QED
  BY <1>2, <1>3, PTL DEF Spec

-----------------------------------------------------------------------------
(* What it is for.                                                         *)

LEMMA LatestOne ==
  ASSUME LifeInv, LifecycleAssumption, NEW c \in Calls \ met, handle[c] = "returned"
  PROVE  LET kept == IF emitted[c] < Capacity THEN emitted[c] ELSE Capacity - 1
         IN  /\ kept <= Len(got[c]) /\ Len(got[c]) <= emitted[c]
             /\ SubSeq(got[c], Len(got[c]) - kept + 1, Len(got[c]))
                  = SubSeq(AllData(c), emitted[c] - kept + 1, emitted[c])
<1>0. Shape /\ Answered(c)
  BY DEF LifeInv, Own
<1>1. PICK m \in Nat, r \in Nat, k \in Nat :
        m = emitted[c] /\ r = Len(got[c]) /\ k = Capacity /\ k > 0
  BY <1>0 DEF Shape, LifecycleAssumption
<1>2. /\ m - r >= 0
      /\ m - r > 0 => r + 1 >= k
      /\ \A i \in 1 .. r : got[c][i] = Data(c, (m - r) + i)
  <2>1. /\ m - r >= 0
        /\ m - r > 0 => r + 1 >= k
        /\ \A i \in 1 .. r : got[c][i] = Nth(c, (m - r) + i)
    BY <1>0, <1>1 DEF Answered
  <2> QED
    BY <1>1, <2>1 DEF Nth
<1> DEFINE kept == IF m < k THEN m ELSE k - 1
<1>3. kept \in Nat /\ kept <= r /\ r <= m
  BY <1>1, <1>2
<1>4. got[c] \in Seq(Event) /\ AllData(c) = [n \in 1 .. m |-> Data(c, n)]
  BY <1>0, <1>1 DEF Shape, AllData
<1> HIDE DEF kept
<1>5. SubSeq(got[c], r - kept + 1, r) = SubSeq(AllData(c), m - kept + 1, m)
  <2>1. SubSeq(got[c], r - kept + 1, r) = [i \in 1 .. kept |-> got[c][r - kept + i]]
    <3>1. r - (r - kept + 1) + 1 = kept /\ \A i \in 1 .. kept : r - kept + 1 + i - 1 = r - kept + i
      BY <1>3
    <3> QED
      BY <1>3, <3>1
  <2>2. SubSeq(AllData(c), m - kept + 1, m) = [i \in 1 .. kept |-> AllData(c)[m - kept + i]]
    BY <1>3
  <2>3. ASSUME NEW i \in 1 .. kept PROVE got[c][r - kept + i] = AllData(c)[m - kept + i]
    <3>1. r - kept + i \in 1 .. r /\ m - kept + i \in 1 .. m /\ (m - r) + (r - kept + i) = m - kept + i
      BY <1>3
    <3> QED
      BY <1>2, <1>4, <3>1
  <2> QED
    BY <2>1, <2>2, <2>3
<1> QED
  BY <1>1, <1>3, <1>5 DEF kept

\* The response of a call that had the agent to itself has its last events, as
\* many as the channel holds, and misses none of the last ones.
THEOREM ResponseAlwaysLatest == Spec => []ResponseLatest
<1>1. LifeInv => ResponseLatest
  BY LatestOne, LifecycleAssumption DEF ResponseLatest
<1> QED
  BY <1>1, LifeInvariant, PTL

LEMMA IntactOne ==
  ASSUME LifeInv, LifecycleAssumption, NEW c \in Calls \ met
  PROVE  /\ heard[c] = SubSeq(WholeStream(c), 1, Len(heard[c]))
         /\ ended[c] /\ c \notin cancelled /\ emitted[c] < Capacity => heard[c] = WholeStream(c)
<1>0. Shape /\ Staged(c) /\ Own(c)
  BY DEF LifeInv
<1>1. PICK m \in Nat, h \in Nat, s \in Nat : m = emitted[c] /\ h = Len(heard[c]) /\ s = Len(stream[c])
  BY <1>0 DEF Shape
<1>2. /\ AllData(c) \in Seq(Event) /\ Len(AllData(c)) = m
      /\ \A n \in 1 .. m : AllData(c)[n] = Data(c, n)
  <2>1. \A n \in 1 .. m : Data(c, n) \in Event
    BY EventTypes
  <2> QED
    BY <1>1, <2>1 DEF AllData
<1>3. Done(c) \in Event
  BY EventTypes, 0 \in Nat
<1>4. /\ WholeStream(c) \in Seq(Event) /\ Len(WholeStream(c)) = m + 1
      /\ \A n \in 1 .. m + 1 : WholeStream(c)[n] = Nth(c, n)
  <2>1. WholeStream(c) \in Seq(Event)
    BY <1>2, <1>3 DEF WholeStream
  <2>2. /\ Len(WholeStream(c)) = m + 1
        /\ \A n \in 1 .. m : WholeStream(c)[n] = Data(c, n)
        /\ WholeStream(c)[m + 1] = Done(c)
    BY <1>2, <1>3, AppendParts DEF WholeStream
  <2> QED
    BY <1>1, <2>1, <2>2 DEF Nth
<1>5. heard[c] \in Seq(Event)
  BY <1>0 DEF Shape
<1>6. CASE handle[c] \notin Using
  <2>1. heard[c] = <<>> /\ ~ended[c]
    BY <1>0, <1>6 DEF Staged
  <2>2. SubSeq(WholeStream(c), 1, 0) = <<>>
    BY <1>4
  <2> QED
    BY <2>1, <2>2
<1>7. CASE handle[c] \in Using
  <2>0. Read(c) /\ Closing(c)
    BY <1>0, <1>7 DEF Own, Streamed
  <2>1. Passed(c) = h + s /\ h + s <= m + 1
    <3>1. Passed(c) = h + s
      BY <1>1 DEF Passed
    <3>2. Published(c) <= m + 1
      BY <1>1 DEF Published
    <3>3. Published(c) \in Int
      BY <1>1 DEF Published
    <3> QED
      BY <2>0, <3>1, <3>2, <3>3 DEF Read
  <2>2. \A i \in 1 .. h : heard[c][i] = WholeStream(c)[i]
    <3>1. \A i \in 1 .. h : heard[c][i] = Nth(c, i)
      BY <1>1, <2>0 DEF Read
    <3> QED
      BY <1>4, <2>1, <3>1
  <2>3. heard[c] = [i \in 1 .. h |-> heard[c][i]]
    BY <1>1, <1>5
  <2>4. SubSeq(WholeStream(c), 1, h) = [i \in 1 .. h |-> WholeStream(c)[i]]
    BY <2>1
  <2>5. heard[c] = SubSeq(WholeStream(c), 1, h)
    BY <2>2, <2>3, <2>4
  <2>6. ASSUME ended[c], c \notin cancelled, emitted[c] < Capacity PROVE heard[c] = WholeStream(c)
    <3>1. stream[c] = <<>> /\ ~relay[c] /\ c \in Streams
      BY <1>0, <2>0, <2>6 DEF Closing, Staged
    <3>2. h = m + 1
      <4>1. s = 0
        BY <1>1, <3>1
      <4> QED
        BY <1>1, <2>0, <2>1, <2>6, <3>1, <4>1 DEF Closing
    <3>3. WholeStream(c) = [i \in 1 .. m + 1 |-> WholeStream(c)[i]]
      BY <1>4
    <3> QED
      BY <2>2, <2>3, <3>2, <3>3
  <2> QED
    BY <1>1, <2>5, <2>6
<1> QED
  BY <1>6, <1>7

\* What a call's stream gives that had the agent to itself is what the call
\* emitted, from the first event and without a gap; all of it and Done, if it
\* ended without a cancel and the channel holds so much.
THEOREM StreamAlwaysIntact == Spec => []StreamIntact
<1>1. LifeInv => StreamIntact
  BY IntactOne, LifecycleAssumption DEF StreamIntact
<1> QED
  BY <1>1, LifeInvariant, PTL
=============================================================================
