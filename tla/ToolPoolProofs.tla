--------------------------- MODULE ToolPoolProofs ---------------------------
(***************************************************************************)
(* Proofs about ToolPool for every number of calls, workers and commands   *)
(* and every capacity: type correctness, the conservation of commands, the *)
(* dead pool, the graceful shutdown, and that the pool implements          *)
(* ToolService.                                                            *)
(***************************************************************************)
EXTENDS ToolPool, TLAPS

BusyPhases == {"held", "running", "answering"}

\* What a worker's three variables say of each other.
WorkerOK ==
  \A w \in Workers :
    /\ phase[w] \in BusyPhases <=> job[w] \in Cmd
    /\ phase[w] = "running" => job[w] \in started
    /\ phase[w] = "answering" => outcome[w] # "none"
    /\ phase[w] = "answering" /\ outcome[w] = "cancelled" => Owner(job[w]) \in cancelled

\* Only issued commands travel.
SentIssued == \A cmd \in sent : Issued(cmd)

\* The receiver goes with the last worker and takes the buffer along.
ClosedEmpty == ~Open => queue = <<>>

\* A worker leaves only when nobody can use the bus any more.
ExitedUnused ==
  (\E w \in Workers : phase[w] = "exited")
    => ~actorAlive /\ \A c \in Calls : loop[c] \in {"new", "done"}

\* A call that has not issued its batch, or has, in terms of its answers.
DoneAnswered == \A cmd \in Cmd : Issued(cmd) /\ loop[Owner(cmd)] = "done" => answer[cmd] # "none"

PoolInv ==
  /\ TypeOK
  /\ WorkerOK
  /\ SentIssued
  /\ Conservation
  /\ ClosedEmpty
  /\ ExitedUnused
  /\ ShutdownFailsNoCall
  /\ DoneAnswered

-----------------------------------------------------------------------------
LEMMA InitPool == Init => PoolInv
<1> SUFFICES ASSUME Init PROVE PoolInv
  OBVIOUS
<1> USE PoolAssumption
<1>1. TypeOK
  BY DEF Init, TypeOK
<1>2. WorkerOK
  BY DEF Init, WorkerOK, BusyPhases
<1>3. SentIssued
  BY DEF Init, SentIssued
<1>4. Conservation
  BY DEF Init, Conservation, Queued, Held, Busy
<1>5. ClosedEmpty /\ ExitedUnused
  BY DEF Init, ClosedEmpty, ExitedUnused
<1>6. ShutdownFailsNoCall
  BY DEF Init, ShutdownFailsNoCall
<1>7. DoneAnswered
  BY DEF Init, DoneAnswered, Issued, Owner, Cmd
<1> QED
  BY <1>1, <1>2, <1>3, <1>4, <1>5, <1>6, <1>7 DEF PoolInv


-----------------------------------------------------------------------------
(* Type correctness, action by action. *)

LEMMA TypeStep == TypeOK /\ WorkerOK /\ [Next]_vars => TypeOK'
<1> SUFFICES ASSUME TypeOK, WorkerOK, [Next]_vars PROVE TypeOK'
  OBVIOUS
<1> USE PoolAssumption DEF TypeOK, callVars, workerVars
<1>1. ASSUME NEW c \in Calls, Acquire(c) \/ Cancel(c) \/ Join(c) PROVE TypeOK'
  BY <1>1 DEF Acquire, Cancel, Join
<1>2. ASSUME NEW c \in Calls, NEW n \in 0 .. Width, Issue(c, n) PROVE TypeOK'
  BY <1>2 DEF Issue
<1>3. ASSUME NEW cmd \in Cmd, Send(cmd) PROVE TypeOK'
  BY <1>3 DEF Send
<1>4. ASSUME NEW cmd \in Cmd, SendClosed(cmd) PROVE TypeOK'
  BY <1>4 DEF SendClosed
<1>5. CASE ActorStop
  BY <1>5 DEF ActorStop
<1>6. ASSUME NEW w \in Workers, Receive(w) PROVE TypeOK'
  <2>1. Head(queue) \in Cmd /\ Tail(queue) \in Seq(Cmd)
    BY <1>6 DEF Receive
  <2> QED
    BY <1>6, <2>1 DEF Receive
<1>7. ASSUME NEW w \in Workers, Abandon(w) PROVE TypeOK'
  BY <1>7 DEF Abandon
<1>8. ASSUME NEW w \in Workers, Answer(w) PROVE TypeOK'
  BY <1>8 DEF Answer
<1>9. ASSUME NEW w \in Workers, Panic(w) PROVE TypeOK'
  <2>1. answer' \in [Cmd -> {"none", "ok", "failed", "not_found", "cancelled", "dropped", "closed"}]
    BY <1>9 DEF Panic
  <2>2. queue' \in Seq(Cmd)
    BY <1>9 DEF Panic
  <2> QED
    BY <1>9, <2>1, <2>2 DEF Panic
<1>10. ASSUME NEW w \in Workers, Exit(w) PROVE TypeOK'
  BY <1>10 DEF Exit
<1>11. ASSUME NEW w \in Workers, NEW found \in BOOLEAN, Start(w, found) PROVE TypeOK'
  <2>1. started' \subseteq Cmd
    BY <1>11 DEF Start, WorkerOK, BusyPhases
  <2> QED
    BY <1>11, <2>1 DEF Start
<1>12. ASSUME NEW w \in Workers, NEW r \in {"ok", "failed"}, Complete(w, r) PROVE TypeOK'
  BY <1>12 DEF Complete
<1>13. CASE Terminated \/ UNCHANGED vars
  BY <1>13 DEF Terminated, vars
<1> QED
  BY <1>1, <1>2, <1>3, <1>4, <1>5, <1>6, <1>7, <1>8, <1>9, <1>10, <1>11, <1>12, <1>13 DEF Next

-----------------------------------------------------------------------------
LEMMA WorkerStep == TypeOK /\ WorkerOK /\ [Next]_vars => WorkerOK'
<1> SUFFICES ASSUME TypeOK, WorkerOK, [Next]_vars PROVE WorkerOK'
  OBVIOUS
<1> USE PoolAssumption DEF TypeOK, WorkerOK, BusyPhases, callVars, workerVars, Owner
<1>1. ASSUME NEW c \in Calls, Acquire(c) \/ Cancel(c) \/ Join(c) PROVE WorkerOK'
  BY <1>1 DEF Acquire, Cancel, Join
<1>2. ASSUME NEW c \in Calls, NEW n \in 0 .. Width, Issue(c, n) PROVE WorkerOK'
  BY <1>2 DEF Issue
<1>3. ASSUME NEW cmd \in Cmd, Send(cmd) \/ SendClosed(cmd) PROVE WorkerOK'
  BY <1>3 DEF Send, SendClosed
<1>4. CASE ActorStop \/ Terminated \/ UNCHANGED vars
  BY <1>4 DEF ActorStop, Terminated, vars
<1>5. ASSUME NEW w \in Workers, Receive(w) PROVE WorkerOK'
  <2>1. Head(queue) \in Cmd
    BY <1>5 DEF Receive
  <2> QED
    BY <1>5, <2>1 DEF Receive
<1>6. ASSUME NEW w \in Workers, Abandon(w) PROVE WorkerOK'
  BY <1>6 DEF Abandon
<1>7. ASSUME NEW w \in Workers, Answer(w) PROVE WorkerOK'
  BY <1>7 DEF Answer
<1>8. ASSUME NEW w \in Workers, Panic(w) PROVE WorkerOK'
  BY <1>8 DEF Panic
<1>9. ASSUME NEW w \in Workers, Exit(w) PROVE WorkerOK'
  BY <1>9 DEF Exit
<1>10. ASSUME NEW w \in Workers, NEW found \in BOOLEAN, Start(w, found) PROVE WorkerOK'
  BY <1>10 DEF Start
<1>11. ASSUME NEW w \in Workers, NEW r \in {"ok", "failed"}, Complete(w, r) PROVE WorkerOK'
  BY <1>11 DEF Complete
<1> QED
  BY <1>1, <1>2, <1>3, <1>4, <1>5, <1>6, <1>7, <1>8, <1>9, <1>10, <1>11 DEF Next

-----------------------------------------------------------------------------
(* What the channel operations do to the set of buffered commands. *)

LEMMA QueuedAppend ==
  ASSUME NEW cmd \in Cmd, queue \in Seq(Cmd), queue' = Append(queue, cmd)
  PROVE  /\ Queued' = Queued \cup {cmd}
         /\ cmd \notin Queued /\ (\A i, j \in 1 .. Len(queue) : queue[i] = queue[j] => i = j)
              => \A i, j \in 1 .. Len(queue') : queue'[i] = queue'[j] => i = j
<1>1. /\ Len(queue') = Len(queue) + 1
      /\ Len(queue) \in Nat
      /\ \A i \in 1 .. Len(queue) : queue'[i] = queue[i]
      /\ queue'[Len(queue) + 1] = cmd
  OBVIOUS
<1>2. Queued' = Queued \cup {cmd}
  BY <1>1 DEF Queued
<1>3. ASSUME cmd \notin Queued, \A i, j \in 1 .. Len(queue) : queue[i] = queue[j] => i = j,
             NEW i \in 1 .. Len(queue'), NEW j \in 1 .. Len(queue'), queue'[i] = queue'[j]
      PROVE  i = j
  BY <1>1, <1>3 DEF Queued
<1> QED
  BY <1>2, <1>3

LEMMA QueuedTail ==
  ASSUME queue \in Seq(Cmd), queue # <<>>, queue' = Tail(queue),
         \A i, j \in 1 .. Len(queue) : queue[i] = queue[j] => i = j
  PROVE  /\ Head(queue) \in Queued
         /\ Queued' = Queued \ {Head(queue)}
         /\ \A i, j \in 1 .. Len(queue') : queue'[i] = queue'[j] => i = j
<1>1. /\ Len(queue) \in Nat \ {0}
      /\ Len(queue') = Len(queue) - 1
      /\ Head(queue) = queue[1]
      /\ \A i \in 1 .. Len(queue') : queue'[i] = queue[i + 1]
  OBVIOUS
<1>2. Head(queue) \in Queued
  BY <1>1 DEF Queued
<1>3. ASSUME NEW x \in Queued' PROVE x \in Queued /\ x # Head(queue)
  <2>1. PICK i \in 1 .. Len(queue') : x = queue'[i]
    BY DEF Queued
  <2>2. x = queue[i + 1] /\ i + 1 \in 1 .. Len(queue) /\ i + 1 # 1 /\ 1 \in 1 .. Len(queue)
    BY <1>1, <2>1
  <2> QED
    BY <1>1, <2>2 DEF Queued
<1>4. ASSUME NEW x \in Queued, x # Head(queue) PROVE x \in Queued'
  <2>1. PICK i \in 1 .. Len(queue) : x = queue[i]
    BY DEF Queued
  <2>2. i - 1 \in 1 .. Len(queue') /\ queue'[i - 1] = x
    BY <1>1, <1>4, <2>1
  <2> QED
    BY <2>2 DEF Queued
<1>5. \A i, j \in 1 .. Len(queue') : queue'[i] = queue'[j] => i = j
  BY <1>1
<1> QED
  BY <1>2, <1>3, <1>4, <1>5

-----------------------------------------------------------------------------
LEMMA ConservationCalls ==
  ASSUME PoolInv, NEW c \in Calls, NEW n \in 0 .. Width,
         Acquire(c) \/ Cancel(c) \/ Join(c) \/ Issue(c, n)
  PROVE  Conservation'
<1> USE DEF PoolInv
<1>1. UNCHANGED <<answer, sent, queue, phase, job>>
  BY DEF Acquire, Cancel, Join, Issue, callVars, workerVars
<1>2. Queued' = Queued /\ Busy' = Busy /\ Held' = Held
  BY <1>1 DEF Queued, Busy, Held
<1>3. ASSUME NEW cmd \in Cmd PROVE (cmd \in sent /\ Pending(cmd)) <=> (cmd \in sent' /\ Pending(cmd)')
  <2>1. Owner(cmd) \in Calls
    BY DEF Cmd, Owner
  <2>2. CASE Acquire(c) \/ Cancel(c) \/ Join(c)
    BY <1>1, <2>1, <2>2 DEF Acquire, Cancel, Join, Pending, Issued, TypeOK
  <2>3. CASE Issue(c, n)
    <3>1. Owner(cmd) = c => cmd \notin sent
      BY <2>3 DEF Issue, SentIssued, Issued, TypeOK
    <3> QED
      BY <1>1, <2>1, <2>3, <3>1 DEF Issue, Pending, Issued, TypeOK
  <2> QED
    BY <2>2, <2>3
<1> QED
  BY <1>1, <1>2, <1>3 DEF Conservation

LEMMA ConservationSend ==
  ASSUME PoolInv, NEW cmd \in Cmd, Send(cmd) \/ SendClosed(cmd)
  PROVE  Conservation'
<1> USE DEF PoolInv
<1>1. UNCHANGED <<loop, size, phase, job>> /\ Unsent(cmd)
  BY DEF Send, SendClosed, callVars, workerVars
<1>2. Busy' = Busy /\ Held' = Held
  BY <1>1 DEF Busy, Held
<1>3. cmd \notin Queued \cup Held
  BY <1>1 DEF Conservation, Unsent
<1>4. CASE Send(cmd)
  <2>1. /\ Queued' = Queued \cup {cmd}
        /\ \A i, j \in 1 .. Len(queue') : queue'[i] = queue'[j] => i = j
    BY <1>3, <1>4, QueuedAppend DEF Send, TypeOK, Conservation
  <2>2. ASSUME NEW d \in Cmd PROVE (d \in sent' /\ Pending(d)') <=> ((d \in sent /\ Pending(d)) \/ d = cmd)
    BY <1>1, <1>4 DEF Send, Pending, Issued, Unsent
  <2> QED
    BY <1>1, <1>2, <1>3, <2>1, <2>2 DEF Conservation
<1>5. CASE SendClosed(cmd)
  <2>1. Queued' = Queued
    BY <1>5 DEF SendClosed, Queued
  <2>2. ASSUME NEW d \in Cmd PROVE (d \in sent' /\ Pending(d)') <=> (d \in sent /\ Pending(d))
    BY <1>1, <1>5 DEF SendClosed, Pending, Issued, Unsent, TypeOK
  <2> QED
    BY <1>1, <1>2, <1>5, <2>1, <2>2 DEF Conservation, SendClosed
<1> QED
  BY <1>4, <1>5

LEMMA ConservationReceive ==
  ASSUME PoolInv, NEW w \in Workers, Receive(w)
  PROVE  Conservation'
<1> USE DEF PoolInv
<1>1. UNCHANGED <<loop, size, answer, sent>>
  BY DEF Receive, callVars
<1>2. /\ Head(queue) \in Queued
      /\ Queued' = Queued \ {Head(queue)}
      /\ \A i, j \in 1 .. Len(queue') : queue'[i] = queue'[j] => i = j
  BY QueuedTail DEF Receive, TypeOK, Conservation
<1>3. Busy' = Busy \cup {w} /\ w \notin Busy
  BY DEF Busy, Receive, TypeOK
<1>4. job'[w] = Head(queue) /\ \A v \in Workers \ {w} : job'[v] = job[v]
  BY DEF Receive, TypeOK
<1>5. Held' = Held \cup {Head(queue)}
  BY <1>3, <1>4 DEF Held, Busy
<1>6. \A v \in Busy : job[v] # Head(queue)
  BY <1>2 DEF Conservation, Held
<1>7. \A u, v \in Busy' : job'[u] = job'[v] => u = v
  BY <1>3, <1>4, <1>6 DEF Conservation, Busy
<1>8. ASSUME NEW d \in Cmd PROVE (d \in sent' /\ Pending(d)') <=> (d \in sent /\ Pending(d))
  BY <1>1 DEF Pending, Issued
<1> QED
  BY <1>2, <1>5, <1>7, <1>8 DEF Conservation

\* A worker that goes on with the command it holds.
LEMMA ConservationWork ==
  ASSUME PoolInv, NEW w \in Workers, phase[w] \in BusyPhases, phase'[w] \in BusyPhases,
         \A v \in Workers \ {w} : phase'[v] = phase[v],
         UNCHANGED <<loop, size, answer, sent, queue, job>>
  PROVE  Conservation'
<1>1. Busy' = Busy
  BY DEF Busy, BusyPhases
<1>2. Held' = Held /\ Queued' = Queued
  BY <1>1 DEF Held, Queued
<1>3. ASSUME NEW d \in Cmd PROVE (d \in sent' /\ Pending(d)') <=> (d \in sent /\ Pending(d))
  BY DEF Pending, Issued
<1> QED
  BY <1>1, <1>2, <1>3 DEF PoolInv, Conservation

\* A worker that lets go of its command, answered or dropped.
LEMMA ConservationRelease ==
  ASSUME PoolInv, NEW w \in Workers, NEW lost \in SUBSET Queued,
         phase[w] \in BusyPhases, phase'[w] \notin BusyPhases,
         \A v \in Workers \ {w} : phase'[v] = phase[v] /\ job'[v] = job[v],
         UNCHANGED <<loop, size, sent>>,
         \A d \in Cmd : IF d \in {job[w]} \cup lost THEN answer'[d] # "none"
                                                   ELSE answer'[d] = answer[d],
         \/ lost = {} /\ queue' = queue
         \/ lost = Queued /\ queue' = <<>>
  PROVE  Conservation'
<1> USE DEF PoolInv
<1>1. Busy' = Busy \ {w} /\ w \in Busy
  BY DEF Busy, BusyPhases
<1>2. job[w] \in Held /\ job[w] \in Cmd
  BY <1>1 DEF Held, WorkerOK
<1>3. \A v \in Busy : v # w => job[v] # job[w]
  BY <1>1 DEF Conservation
<1>4. Held' = Held \ {job[w]}
  BY <1>1, <1>3 DEF Held, Busy
<1>5. Queued' = Queued \ lost
  BY DEF Queued
<1>6. \A i, j \in 1 .. Len(queue') : queue'[i] = queue'[j] => i = j
  BY DEF Conservation
<1>7. ASSUME NEW d \in Cmd
      PROVE  (d \in sent' /\ Pending(d)') <=> (d \in sent /\ Pending(d) /\ d \notin {job[w]} \cup lost)
  BY DEF Pending, Issued
<1>8. \A u, v \in Busy' : job'[u] = job'[v] => u = v
  BY <1>1 DEF Conservation, Busy
<1>9. ASSUME NEW d \in Cmd
      PROVE  (d \in sent' /\ Pending(d)') <=> d \in Queued' \cup Held'
  BY <1>2, <1>4, <1>5, <1>7 DEF Conservation
<1>10. Queued' \cap Held' = {}
  BY <1>4, <1>5 DEF Conservation
<1> QED
  BY <1>6, <1>8, <1>9, <1>10 DEF Conservation

LEMMA ConservationStep == PoolInv /\ [Next]_vars => Conservation'
<1> SUFFICES ASSUME PoolInv, [Next]_vars PROVE Conservation'
  OBVIOUS
<1> USE DEF BusyPhases, callVars, workerVars
<1>1. ASSUME NEW c \in Calls, NEW n \in 0 .. Width,
             Acquire(c) \/ Cancel(c) \/ Join(c) \/ Issue(c, n)
      PROVE  Conservation'
  BY <1>1, ConservationCalls
<1>2. ASSUME NEW c \in Calls, Acquire(c) \/ Cancel(c) \/ Join(c) PROVE Conservation'
  <2>1. 0 \in 0 .. Width
    BY PoolAssumption
  <2> QED
    BY <1>1, <1>2, <2>1
<1>3. ASSUME NEW cmd \in Cmd, Send(cmd) \/ SendClosed(cmd) PROVE Conservation'
  BY <1>3, ConservationSend
<1>4. CASE ActorStop \/ Terminated \/ UNCHANGED vars
  <2>1. UNCHANGED <<loop, size, answer, sent, queue, phase, job>>
    BY <1>4 DEF ActorStop, Terminated, vars
  <2> QED
    BY <2>1 DEF PoolInv, Conservation, Pending, Issued, Queued, Held, Busy
<1>5. ASSUME NEW w \in Workers, Receive(w) PROVE Conservation'
  BY <1>5, ConservationReceive
<1>6. ASSUME NEW w \in Workers, NEW found \in BOOLEAN, NEW r \in {"ok", "failed"},
             Abandon(w) \/ Start(w, found) \/ Complete(w, r)
      PROVE  Conservation'
  <2>1. /\ phase[w] \in BusyPhases /\ phase'[w] \in BusyPhases
        /\ \A v \in Workers \ {w} : phase'[v] = phase[v]
        /\ UNCHANGED <<loop, size, answer, sent, queue, job>>
    BY <1>6 DEF Abandon, Start, Complete, PoolInv, TypeOK
  <2> QED
    BY <2>1, ConservationWork
<1>7. ASSUME NEW w \in Workers, Answer(w) PROVE Conservation'
  <2>1. /\ phase[w] \in BusyPhases /\ phase'[w] \notin BusyPhases
        /\ \A v \in Workers \ {w} : phase'[v] = phase[v] /\ job'[v] = job[v]
        /\ UNCHANGED <<loop, size, sent, queue>>
    BY <1>7 DEF Answer, PoolInv, TypeOK
  <2> DEFINE lost == {}
  <2>2. ASSUME NEW d \in Cmd
        PROVE  IF d \in {job[w]} \cup lost THEN answer'[d] # "none" ELSE answer'[d] = answer[d]
    BY <1>7 DEF Answer, PoolInv, TypeOK, WorkerOK
  <2>3. lost \in SUBSET Queued /\ lost = {}
    OBVIOUS
  <2> HIDE DEF lost
  <2> QED
    BY <2>1, <2>2, <2>3, ConservationRelease
<1>8. ASSUME NEW w \in Workers, Panic(w) PROVE Conservation'
  <2> DEFINE lost == IF LastWorker(w) THEN Queued ELSE {}
  <2>1. /\ phase[w] \in BusyPhases /\ phase'[w] \notin BusyPhases
        /\ \A v \in Workers \ {w} : phase'[v] = phase[v] /\ job'[v] = job[v]
        /\ UNCHANGED <<loop, size, sent>>
    BY <1>8 DEF Panic, PoolInv, TypeOK
  <2>2. ASSUME NEW d \in Cmd
        PROVE  IF d \in {job[w]} \cup lost THEN answer'[d] # "none" ELSE answer'[d] = answer[d]
    BY <1>8 DEF Panic, PoolInv, TypeOK
  <2>3. (lost = {} /\ queue' = queue) \/ (lost = Queued /\ queue' = <<>>)
    BY <1>8 DEF Panic
  <2>4. lost \in SUBSET Queued
    OBVIOUS
  <2> HIDE DEF lost
  <2> QED
    BY <2>1, <2>2, <2>3, <2>4, ConservationRelease
<1>9. ASSUME NEW w \in Workers, Exit(w) PROVE Conservation'
  <2>1. Busy' = Busy /\ UNCHANGED <<loop, size, answer, sent, queue, job>>
    BY <1>9 DEF Exit, Busy, PoolInv, TypeOK
  <2> QED
    BY <2>1 DEF PoolInv, Conservation, Pending, Issued, Queued, Held
<1> QED
  BY <1>1, <1>2, <1>3, <1>4, <1>5, <1>6, <1>7, <1>8, <1>9 DEF Next

-----------------------------------------------------------------------------
LEMMA SentIssuedStep == PoolInv /\ [Next]_vars => SentIssued'
<1> SUFFICES ASSUME PoolInv, [Next]_vars, NEW d \in sent' PROVE Issued(d)'
  BY DEF SentIssued
<1> USE DEF PoolInv, TypeOK, SentIssued, Issued, callVars, workerVars
<1>0. d \in Cmd /\ Owner(d) \in Calls
  BY TypeStep DEF Cmd, Owner
<1>1. ASSUME NEW c \in Calls, Acquire(c) \/ Cancel(c) \/ Join(c) PROVE Issued(d)'
  BY <1>0, <1>1 DEF Acquire, Cancel, Join
<1>2. ASSUME NEW c \in Calls, NEW n \in 0 .. Width, Issue(c, n) PROVE Issued(d)'
  BY <1>0, <1>2 DEF Issue
<1>3. ASSUME NEW cmd \in Cmd, Send(cmd) \/ SendClosed(cmd) PROVE Issued(d)'
  BY <1>0, <1>3 DEF Send, SendClosed, Unsent, Pending
<1>4. CASE UNCHANGED <<loop, size, sent>>
  BY <1>0, <1>4
<1> QED
  BY <1>1, <1>2, <1>3, <1>4
     DEF Next, ActorStop, Terminated, vars, Receive, Abandon, Answer, Panic, Exit, Start, Complete

LEMMA ClosedEmptyStep == PoolInv /\ [Next]_vars => ClosedEmpty'
<1> SUFFICES ASSUME PoolInv, [Next]_vars PROVE ClosedEmpty'
  OBVIOUS
<1> USE DEF PoolInv, TypeOK, ClosedEmpty, Open, Gone, callVars, workerVars
<1>1. ASSUME NEW cmd \in Cmd, Send(cmd) PROVE ClosedEmpty'
  BY <1>1 DEF Send
<1>2. ASSUME NEW w \in Workers, NEW found \in BOOLEAN, NEW r \in {"ok", "failed"},
             Receive(w) \/ Abandon(w) \/ Answer(w) \/ Start(w, found) \/ Complete(w, r)
      PROVE  ClosedEmpty'
  <2>1. phase'[w] \notin Gone
    BY <1>2 DEF Receive, Abandon, Answer, Start, Complete
  <2> QED
    BY <2>1
<1>3. ASSUME NEW w \in Workers, Panic(w) PROVE ClosedEmpty'
  BY <1>3 DEF Panic, LastWorker
<1>4. ASSUME NEW w \in Workers, Exit(w) PROVE ClosedEmpty'
  BY <1>4 DEF Exit
<1>5. CASE UNCHANGED <<queue, phase>>
  BY <1>5
<1> QED
  BY <1>1, <1>2, <1>3, <1>4, <1>5
     DEF Next, ActorStop, Terminated, vars, Acquire, Cancel, Join, Issue, SendClosed

LEMMA ExitedUnusedStep == PoolInv /\ [Next]_vars => ExitedUnused'
<1> SUFFICES ASSUME PoolInv, [Next]_vars PROVE ExitedUnused'
  OBVIOUS
<1> USE DEF PoolInv, TypeOK, ExitedUnused, callVars, workerVars
<1>1. ASSUME NEW c \in Calls, NEW n \in 0 .. Width,
             Acquire(c) \/ Cancel(c) \/ Join(c) \/ Issue(c, n)
      PROVE  ExitedUnused'
  BY <1>1 DEF Acquire, Cancel, Join, Issue
<1>2. ASSUME NEW c \in Calls, Acquire(c) \/ Cancel(c) \/ Join(c) PROVE ExitedUnused'
  BY <1>2 DEF Acquire, Cancel, Join
<1>3. ASSUME NEW w \in Workers, NEW found \in BOOLEAN, NEW r \in {"ok", "failed"},
             Receive(w) \/ Abandon(w) \/ Answer(w) \/ Panic(w) \/ Start(w, found) \/ Complete(w, r)
      PROVE  ExitedUnused'
  BY <1>3 DEF Receive, Abandon, Answer, Panic, Start, Complete
<1>4. ASSUME NEW w \in Workers, Exit(w) PROVE ExitedUnused'
  BY <1>4 DEF Exit
<1>5. CASE ActorStop
  BY <1>5 DEF ActorStop
<1>6. CASE UNCHANGED <<loop, phase, actorAlive>>
  BY <1>6
<1> QED
  BY <1>1, <1>2, <1>3, <1>4, <1>5, <1>6 DEF Next, Terminated, vars, Send, SendClosed

\* A command is refused or lost unentered.
Unserved(cmd) == answer[cmd] = "closed" \/ (answer[cmd] = "dropped" /\ cmd \notin started)

LEMMA ShutdownStep == PoolInv /\ [Next]_vars => ShutdownFailsNoCall'
<1> SUFFICES ASSUME PoolInv, [Next]_vars, NEW d \in Cmd, Unserved(d)', NEW v \in Workers
             PROVE  phase'[v] = "panicked"
  BY DEF ShutdownFailsNoCall, Unserved
<1> USE DEF PoolInv, TypeOK, callVars, workerVars
<1>0. ASSUME Unserved(d) PROVE \A w \in Workers : phase[w] = "panicked"
  BY <1>0 DEF ShutdownFailsNoCall, Unserved
<1>1. ASSUME NEW cmd \in Cmd, SendClosed(cmd) PROVE phase'[v] = "panicked"
  <2>1. loop[Owner(cmd)] = "executing" /\ Owner(cmd) \in Calls
    BY <1>1 DEF SendClosed, Unsent, Pending, Issued, DoneAnswered, Owner, Cmd
  <2> QED
    BY <1>1, <2>1 DEF SendClosed, Open, Gone, ExitedUnused
<1>2. ASSUME NEW w \in Workers, NEW found \in BOOLEAN, NEW r \in {"ok", "failed"},
             Receive(w) \/ Abandon(w) \/ Exit(w) \/ Start(w, found) \/ Complete(w, r)
      PROVE  phase'[v] = "panicked"
  <2>1. phase[w] # "panicked" /\ answer' = answer /\ started \subseteq started'
    BY <1>2 DEF Receive, Abandon, Exit, Start, Complete
  <2> QED
    BY <1>0, <2>1 DEF Unserved
<1>3. ASSUME NEW w \in Workers, Answer(w) PROVE phase'[v] = "panicked"
  <2>1. phase[w] # "panicked" /\ answer'[d] \in {answer[d], outcome[w]} /\ started' = started
    BY <1>3 DEF Answer
  <2>2. Unserved(d)
    BY <2>1 DEF Unserved
  <2> QED
    BY <1>0, <2>1, <2>2
<1>4. ASSUME NEW w \in Workers, Panic(w) PROVE phase'[v] = "panicked"
  <2>1. phase[w] = "running" /\ started' = started /\ job[w] \in Cmd /\ job[w] \in started
    BY <1>4 DEF Panic, WorkerOK, BusyPhases
  <2>2. ~Unserved(d)
    BY <1>0, <2>1
  <2>3. LastWorker(w) /\ d \in Queued
    BY <1>4, <2>1, <2>2 DEF Panic, Unserved
  <2>4. loop[Owner(job[w])] = "executing" /\ Owner(job[w]) \in Calls
    <3>1. job[w] \in Held
      BY <2>1 DEF Held, Busy
    <3> QED
      BY <2>1, <3>1 DEF Conservation, Pending, Issued, DoneAnswered, Owner, Cmd
  <2>5. \A u \in Workers \ {w} : phase[u] = "panicked"
    BY <2>3, <2>4 DEF LastWorker, Gone, ExitedUnused
  <2> QED
    BY <1>4, <2>5 DEF Panic
<1>5. CASE UNCHANGED <<answer, phase, started>>
  BY <1>0, <1>5 DEF Unserved
<1>6. ASSUME NEW cmd \in Cmd, Send(cmd) PROVE UNCHANGED <<answer, phase, started>>
  BY <1>6 DEF Send
<1> QED
  BY <1>1, <1>2, <1>3, <1>4, <1>5, <1>6
     DEF Next, ActorStop, Terminated, vars, Acquire, Cancel, Join, Issue

LEMMA DoneAnsweredStep == PoolInv /\ [Next]_vars => DoneAnswered'
<1> SUFFICES ASSUME PoolInv, [Next]_vars, NEW d \in Cmd,
                    Issued(d)', loop'[Owner(d)] = "done"
             PROVE  answer'[d] # "none"
  BY DEF DoneAnswered
<1> USE DEF PoolInv, TypeOK, DoneAnswered, Issued, callVars, workerVars
<1>0. PICK c \in Calls, i \in 1 .. Width : d = <<c, i>> /\ Owner(d) = c
  BY DEF Cmd, Owner
<1>1. ASSUME answer[d] # "none" PROVE answer'[d] # "none"
  <2>1. ASSUME NEW w \in Workers, Answer(w) PROVE answer'[d] # "none"
    BY <1>1, <2>1 DEF Answer, WorkerOK
  <2>2. ASSUME NEW w \in Workers, Panic(w) PROVE answer'[d] # "none"
    BY <1>1, <2>2 DEF Panic
  <2>3. ASSUME NEW cmd \in Cmd, SendClosed(cmd) PROVE answer'[d] # "none"
    BY <1>1, <2>3 DEF SendClosed
  <2>4. CASE answer' = answer
    BY <1>1, <2>4
  <2> QED
    BY <2>1, <2>2, <2>3, <2>4
       DEF Next, ActorStop, Terminated, vars, Acquire, Cancel, Join, Issue, Send,
           Receive, Abandon, Exit, Start, Complete
<1>2. ASSUME Issued(d), loop[c] = "done" PROVE answer'[d] # "none"
  BY <1>0, <1>1, <1>2
<1>3. ASSUME NEW e \in Calls, Join(e) PROVE answer'[d] # "none"
  <2>1. CASE e = c
    <3>1. i \in 1 .. size[c]
      BY <1>0, <1>3, <2>1 DEF Join
    <3>2. answer[d] # "none"
      BY <1>0, <1>3, <2>1, <3>1 DEF Join
    <3> QED
      BY <1>1, <3>2
  <2>2. CASE e # c
    BY <1>0, <1>2, <1>3, <2>2 DEF Join
  <2> QED
    BY <2>1, <2>2
<1>4. ASSUME NEW e \in Calls, Acquire(e) PROVE answer'[d] # "none"
  BY <1>0, <1>2, <1>4 DEF Acquire
<1>5. ASSUME NEW e \in Calls, NEW n \in 0 .. Width, Issue(e, n) PROVE answer'[d] # "none"
  BY <1>0, <1>2, <1>5 DEF Issue
<1>6. CASE UNCHANGED <<loop, size>>
  BY <1>0, <1>2, <1>6
<1> QED
  BY <1>3, <1>4, <1>5, <1>6
     DEF Next, ActorStop, Terminated, vars, Cancel, Send, SendClosed,
         Receive, Abandon, Answer, Panic, Exit, Start, Complete

-----------------------------------------------------------------------------
LEMMA PoolStep == PoolInv /\ [Next]_vars => PoolInv'
<1> SUFFICES ASSUME PoolInv, [Next]_vars PROVE PoolInv'
  OBVIOUS
<1>1. TypeOK /\ WorkerOK
  BY DEF PoolInv
<1> QED
  BY <1>1, TypeStep, WorkerStep, ConservationStep, SentIssuedStep, ClosedEmptyStep,
     ExitedUnusedStep, ShutdownStep, DoneAnsweredStep DEF PoolInv

THEOREM PoolInvariant == Spec => []PoolInv
  BY InitPool, PoolStep, PTL DEF Spec

\* Every variable stays within its type.
THEOREM TypeCorrect == Spec => []TypeOK
<1>1. PoolInv => TypeOK
  BY DEF PoolInv
<1> QED
  BY <1>1, PoolInvariant, PTL

\* A command somebody waits for is unsent, once in the channel or in the
\* hands of one worker (ToolBus::execute, ToolExecutor::run).
THEOREM CommandsConserved == Spec => []Conservation
<1>1. PoolInv => Conservation
  BY DEF PoolInv
<1> QED
  BY <1>1, PoolInvariant, PTL

\* When the last worker has gone, no sent command is left unanswered.
THEOREM DeadPool == Spec => []DeadPoolKeepsNoOne
<1>1. PoolInv => DeadPoolKeepsNoOne
  <2> SUFFICES ASSUME PoolInv, ~Open, NEW cmd \in Cmd, cmd \in sent, Pending(cmd) PROVE FALSE
    BY DEF DeadPoolKeepsNoOne
  <2>1. cmd \in Queued \cup Held
    BY DEF PoolInv, Conservation
  <2>2. Queued = {}
    BY DEF PoolInv, ClosedEmpty, Queued
  <2>3. Held = {}
    BY DEF Held, Busy, Open, Gone
  <2> QED
    BY <2>1, <2>2, <2>3
<1> QED
  BY <1>1, PoolInvariant, PTL

\* Only panics under every worker make the bus refuse a command, or lose one
\* whose tool was not entered.
THEOREM GracefulShutdown == Spec => []ShutdownFailsNoCall
<1>1. PoolInv => ShutdownFailsNoCall
  BY DEF PoolInv
<1> QED
  BY <1>1, PoolInvariant, PTL

-----------------------------------------------------------------------------
(* Which commands have been entered. *)

StartedOK ==
  /\ started \subseteq sent
  /\ started \cap Queued = {}
  /\ \A w \in Workers :
       /\ phase[w] = "held" => job[w] \notin started
       /\ phase[w] = "running" => job[w] \in started
       /\ phase[w] = "answering" /\ outcome[w] \in {"ok", "failed"} => job[w] \in started

LEMMA InitStarted == Init => StartedOK
  BY DEF Init, StartedOK

LEMMA StartedStep == PoolInv /\ StartedOK /\ [Next]_vars => StartedOK'
<1> SUFFICES ASSUME PoolInv, StartedOK, [Next]_vars PROVE StartedOK'
  OBVIOUS
<1> USE DEF StartedOK, callVars, workerVars
<1> DEFINE Quiet == UNCHANGED <<sent, queue, phase, job, outcome, started>>
<1>1. CASE Quiet
  BY <1>1 DEF Queued
<1>2. ASSUME NEW cmd \in Cmd, Send(cmd) PROVE StartedOK'
  <2>1. Queued' = Queued \cup {cmd} /\ cmd \notin started
    BY <1>2, QueuedAppend DEF Send, Unsent, PoolInv, TypeOK
  <2> QED
    BY <1>2, <2>1 DEF Send
<1>3. ASSUME NEW w \in Workers, Receive(w) PROVE StartedOK'
  <2>1. Head(queue) \in Queued /\ Queued' = Queued \ {Head(queue)}
    BY <1>3, QueuedTail DEF Receive, PoolInv, TypeOK, Conservation
  <2> QED
    BY <1>3, <2>1 DEF Receive, PoolInv, TypeOK
<1>4. ASSUME NEW w \in Workers, NEW found \in BOOLEAN, Start(w, found) PROVE StartedOK'
  <2>1. job[w] \in Held /\ w \in Busy /\ Queued' = Queued
    BY <1>4 DEF Start, Held, Busy, Queued
  <2>2. job[w] \in sent /\ job[w] \notin Queued
    BY <2>1 DEF PoolInv, Conservation, WorkerOK, BusyPhases, Busy
  <2>3. \A v \in Workers \ {w} : phase[v] = "held" => job[v] # job[w]
    BY <2>1 DEF PoolInv, Conservation, Busy
  <2>4. started' \subseteq sent' /\ started' \cap Queued' = {}
    BY <1>4, <2>1, <2>2 DEF Start
  <2>5. ASSUME NEW v \in Workers, v # w
        PROVE  /\ phase'[v] = phase[v] /\ job'[v] = job[v] /\ outcome'[v] = outcome[v]
               /\ phase[v] = "held" => job[v] \notin started'
    BY <1>4, <2>3, <2>5 DEF Start, PoolInv, TypeOK
  <2>6. /\ phase'[w] # "held"
        /\ phase'[w] = "running" => job'[w] \in started'
        /\ phase'[w] = "answering" => outcome'[w] = "not_found"
    BY <1>4 DEF Start, PoolInv, TypeOK
  <2>7. started \subseteq started'
    BY <1>4 DEF Start
  <2> QED
    BY <2>4, <2>5, <2>6, <2>7
<1>5. ASSUME NEW w \in Workers, Abandon(w) PROVE StartedOK'
  BY <1>5 DEF Abandon, PoolInv, TypeOK, Queued
<1>6. ASSUME NEW w \in Workers, NEW r \in {"ok", "failed"}, Complete(w, r) PROVE StartedOK'
  BY <1>6 DEF Complete, PoolInv, TypeOK, Queued
<1>7. ASSUME NEW w \in Workers, Answer(w) PROVE StartedOK'
  BY <1>7 DEF Answer, PoolInv, TypeOK, Queued
<1>8. ASSUME NEW w \in Workers, Panic(w) PROVE StartedOK'
  <2>1. Queued' \subseteq Queued
    BY <1>8 DEF Panic, Queued
  <2> QED
    BY <1>8, <2>1 DEF Panic, PoolInv, TypeOK
<1>9. ASSUME NEW w \in Workers, Exit(w) PROVE StartedOK'
  BY <1>9 DEF Exit, PoolInv, TypeOK, Queued
<1> QED
  BY <1>1, <1>2, <1>3, <1>4, <1>5, <1>6, <1>7, <1>8, <1>9
     DEF Next, ActorStop, Terminated, vars, Acquire, Cancel, Join, Issue, SendClosed

\* A tool body is entered at most once per command and never for a cancelled
\* call; "ok" and "failed" are only told of a tool that was entered.
THEOREM EntersOnce == Spec => EntersOnceUncancelled
<1> DEFINE Step == /\ \A w \in Workers : phase[w] = "held" /\ phase'[w] = "running"
                        => job[w] \notin started /\ Owner(job[w]) \notin cancelled
                   /\ \A cmd \in Cmd : answer[cmd] = "none" /\ answer'[cmd] \in {"ok", "failed"}
                        => cmd \in started
<1>1. ASSUME PoolInv, StartedOK, Next PROVE Step
  <2> USE <1>1 DEF callVars, workerVars
  <2>1. ASSUME NEW w \in Workers, phase[w] = "held", phase'[w] = "running"
        PROVE  job[w] \notin started /\ Owner(job[w]) \notin cancelled
    <3>1. PICK v \in Workers, found \in BOOLEAN : Start(v, found)
      BY <2>1 DEF Next, Acquire, Cancel, Join, Issue, Send, SendClosed, ActorStop, Terminated,
                  vars, Receive, Abandon, Answer, Panic, Exit, Complete, PoolInv, TypeOK
    <3>2. v = w
      BY <2>1, <3>1 DEF Start, PoolInv, TypeOK
    <3> QED
      BY <2>1, <3>1, <3>2 DEF Start, StartedOK
  <2>2. ASSUME NEW cmd \in Cmd, answer[cmd] = "none", answer'[cmd] \in {"ok", "failed"}
        PROVE  cmd \in started
    <3>1. PICK v \in Workers : Answer(v)
      BY <2>2 DEF Next, Acquire, Cancel, Join, Issue, Send, SendClosed, ActorStop, Terminated,
                  vars, Receive, Abandon, Panic, Exit, Start, Complete, PoolInv, TypeOK
    <3>2. cmd = job[v] /\ outcome[v] \in {"ok", "failed"}
      BY <2>2, <3>1 DEF Answer, PoolInv, TypeOK
    <3> QED
      BY <3>1, <3>2 DEF Answer, StartedOK
  <2> QED
    BY <2>1, <2>2
<1>2. PoolInv /\ StartedOK /\ [Next]_vars => [Step]_vars
  BY <1>1
<1>3. Spec => [][Step]_vars
  BY <1>2, InitPool, PoolStep, InitStarted, StartedStep, PTL DEF Spec
<1> QED
  BY <1>3 DEF EntersOnceUncancelled

-----------------------------------------------------------------------------
(* The pool implements the abstract service. *)

LEMMA PendingHeld ==
  ASSUME PoolInv, NEW cmd \in Cmd, cmd \in Queued \cup Held
  PROVE  Service!Pending(cmd)
  BY DEF PoolInv, Conservation, Pending, Issued, Owner, Service!Pending, Service!Issued

LEMMA ServiceStep == PoolInv /\ [Next]_vars => [Service!Next]_(Service!vars)
<1> SUFFICES ASSUME PoolInv, [Next]_vars PROVE [Service!Next]_(Service!vars)
  OBVIOUS
<1> USE DEF callVars, workerVars, Service!vars
<1>0. Service!Cmd = Cmd
  BY DEF Service!Cmd, Cmd
<1>1. ASSUME NEW c \in Calls, Acquire(c) \/ Cancel(c) \/ Join(c) PROVE Service!Next
  BY <1>1 DEF Acquire, Cancel, Join, Service!Next, Service!Acquire, Service!Cancel, Service!Join
<1>2. ASSUME NEW c \in Calls, NEW n \in 0 .. Width, Issue(c, n) PROVE Service!Next
  BY <1>2 DEF Issue, Service!Next, Service!Issue
<1>3. ASSUME NEW cmd \in Cmd, SendClosed(cmd) PROVE Service!Next
  <2>1. Service!Pending(cmd)
    BY <1>3 DEF SendClosed, Unsent, Pending, Issued, Owner, Service!Pending, Service!Issued
  <2>2. answer' = [d \in Cmd |-> IF d \in {cmd} THEN "closed" ELSE answer[d]]
    BY <1>3 DEF SendClosed, PoolInv, TypeOK
  <2>3. Service!Reply({cmd}, "closed")
    BY <1>0, <1>3, <2>1, <2>2 DEF SendClosed, Service!Reply
  <2> QED
    BY <1>0, <2>3 DEF Service!Next, Service!Outcome
<1>4. ASSUME NEW w \in Workers, Answer(w) PROVE Service!Next
  <2>1. job[w] \in Cmd /\ outcome[w] # "none"
    BY <1>4 DEF Answer, PoolInv, WorkerOK, BusyPhases
  <2>2. Service!Pending(job[w])
    BY <1>4, <2>1, PendingHeld DEF Answer, Held, Busy
  <2>3. answer' = [d \in Cmd |-> IF d \in {job[w]} THEN outcome[w] ELSE answer[d]]
    BY <1>4, <2>1 DEF Answer, PoolInv, TypeOK
  <2>4. outcome[w] = "cancelled" => job[w][1] \in cancelled
    BY <1>4 DEF Answer, PoolInv, WorkerOK, Owner
  <2>5. Service!Reply({job[w]}, outcome[w])
    BY <1>0, <1>4, <2>2, <2>3, <2>4 DEF Answer, Service!Reply
  <2>6. outcome[w] \in Service!Outcome
    BY <2>1 DEF PoolInv, TypeOK, Service!Outcome
  <2> QED
    BY <1>0, <2>1, <2>5, <2>6 DEF Service!Next
<1>5. ASSUME NEW w \in Workers, Panic(w) PROVE Service!Next
  <2> DEFINE lost == {job[w]} \cup (IF LastWorker(w) THEN Queued ELSE {})
  <2>1. job[w] \in Cmd /\ job[w] \in Held
    BY <1>5 DEF Panic, PoolInv, WorkerOK, BusyPhases, Held, Busy
  <2>2. Queued \subseteq Cmd
    BY DEF PoolInv, TypeOK, Queued
  <2>3. lost \subseteq Cmd /\ \A d \in lost : Service!Pending(d)
    BY <2>1, <2>2, PendingHeld
  <2>4. answer' = [d \in Cmd |-> IF d \in lost THEN "dropped" ELSE answer[d]]
    BY <1>5 DEF Panic
  <2>5. UNCHANGED <<loop, size, cancelled>>
    BY <1>5 DEF Panic
  <2> HIDE DEF lost
  <2>6. Service!Fail(lost)
    BY <1>0, <2>3, <2>4, <2>5 DEF Service!Fail, Service!Reply
  <2> QED
    BY <1>0, <2>3, <2>6 DEF Service!Next
<1>6. CASE UNCHANGED <<loop, size, cancelled, answer>>
  BY <1>6
<1> QED
  BY <1>1, <1>2, <1>3, <1>4, <1>5, <1>6
     DEF Next, Send, ActorStop, Terminated, vars, Receive, Abandon, Exit, Start, Complete

\* Whatever the workers, the queue and the panics do, a call sees the
\* abstract service: one answer per command, none before it is issued.
THEOREM PoolImplementsService == Spec => ServiceSpec
<1>1. Init => Service!Init
  BY DEF Init, Service!Init, Cmd, Service!Cmd
<1> QED
  BY <1>1, InitPool, PoolStep, ServiceStep, PTL DEF Spec, ServiceSpec, Service!Spec
=============================================================================
