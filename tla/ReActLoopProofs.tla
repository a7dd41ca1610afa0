-------------------------- MODULE ReActLoopProofs --------------------------
(***************************************************************************)
(* Proofs about ReActLoop and Wire for every width, number of iterations,  *)
(* calls and clears, with or without a system prompt and whatever the      *)
(* middleware blocks: type correctness, no result of a cancelled tool      *)
(* stored or emitted, events that come in whole turns and say how the loop *)
(* ended, a conversation that is in order, a system prompt that opens      *)
(* every request, requests in which every tool call of the send is         *)
(* answered, and a turn that is what the provider sent, however it was     *)
(* cut.  What is said of the conversation rests on the facts about the     *)
(* session actor in SessionProofs.                                         *)
(***************************************************************************)
EXTENDS Wire, FiniteSetTheorems, TLAPS

\* The session's part of the types, and of NoCancelledResult.
SessionOK ==
  /\ mailbox \in Seq(Session!SessionCmds)
  /\ msgs \in Seq(Message)
  /\ reply \in [{"loop"} -> Seq(Message) \cup {Nothing}]
  /\ \A i \in DOMAIN msgs : msgs[i].result # "cancelled"
  /\ \A i \in DOMAIN mailbox :
       mailbox[i].op = "push" => mailbox[i].body.result # "cancelled"

PCs == {"idle", "look", "system", "init", "top", "fetch", "request", "stream",
        "streamed", "storing", "tools", "reporting", "leaving", "done", "failed", "over"}

InTurn == {"request", "stream", "streamed", "storing", "tools", "reporting"}

\* The types of the loop's own variables, and where the call can be.
LoopOK ==
  /\ pc \in PCs
  /\ call \in 0 .. MaxCalls
  /\ pc # "idle" => call > 0
  /\ iteration \in 0 .. MaxIterations
  /\ pc \in InTurn \cup {"fetch"} => iteration < MaxIterations
  /\ text \in BOOLEAN
  /\ acc \subseteq 1 .. Width
  /\ finish \in Finishes
  /\ context \in Seq(Message)
  /\ cancelled \in BOOLEAN
  /\ clears \in 0 .. MaxClears
  /\ blocked \subseteq Kinds \cup {"cancelled"}

\* Only a token that has fired makes the tool bus say so, and no call starts
\* with one.
AnswerOK ==
  /\ answer \in [1 .. Width -> Results]
  /\ ~cancelled => \A i \in 1 .. Width : answer[i] # "cancelled"
  /\ pc \in {"idle", "look", "system"} => ~cancelled

\* What filter_and_store has to process at each place.
OutboxOK ==
  /\ outbox \subseteq Event
  /\ \A e \in outbox : e.result # "cancelled"
  /\ pc \notin {"storing", "reporting", "leaving"} => outbox = {}
  /\ pc \in {"storing", "reporting"} => \A e \in outbox : e.kind \in Turned /\ e.turn = iteration
  /\ pc = "leaving" => outbox \subseteq {Simple("cancelled")}

LastEvent == emitted[Len(emitted)]
BetweenTurns == emitted = <<>> \/ (LastEvent.kind = "turn_end" /\ LastEvent.turn + 1 = iteration)
WithinTurn == /\ emitted # <<>>
              /\ LastEvent.kind \notin {"turn_end", "cancelled"}
              /\ LastEvent.turn = iteration

\* The events so far, and the last of them at each place.
EmittedOK ==
  /\ emitted \in Seq(Event)
  /\ \A i \in DOMAIN emitted : emitted[i].result # "cancelled"
  /\ EventsBracketed
  /\ pc \in {"look", "system", "init", "top", "fetch"} => BetweenTurns
  /\ pc \in InTurn => WithinTurn
  /\ pc = "leaving" /\ outbox # {} => BetweenTurns \/ WithinTurn

LoopInv == SessionOK /\ LoopOK /\ AnswerOK /\ OutboxOK /\ EmittedOK

-----------------------------------------------------------------------------
\* A record of the loop is a message or an event of its kind.
LEMMA RecordTyped ==
  ASSUME LoopOK, pc # "idle", NEW kinds, NEW kind \in kinds,
         NEW index \in 0 .. Width, NEW result \in Results
  PROVE  Record(kind, index, result) \in Records(kinds)
  BY LoopAssumption DEF LoopOK, Record, Records

LEMMA SimpleTyped ==
  ASSUME LoopOK, pc # "idle", NEW kinds, NEW kind \in kinds
  PROVE  Simple(kind) \in Records(kinds)
  BY RecordTyped, LoopAssumption DEF Simple, Results

\* The session's commands keep its types.
LEMMA PushKeeps ==
  ASSUME SessionOK, NEW m \in Message, m.result # "cancelled", Session!PushMessages(m)
  PROVE  SessionOK'
<1> DEFINE cmd == [op |-> "push", client |-> Nothing, body |-> m]
<1>1. cmd \in Session!SessionCmds /\ cmd.op = "push" /\ cmd.body = m
  BY DEF Session!SessionCmds
<1>2. mailbox' = Append(mailbox, cmd) /\ UNCHANGED <<msgs, reply>>
  BY DEF Session!PushMessages, Session!Send, Session!SessionCmd
<1> HIDE DEF cmd
<1> QED
  BY <1>1, <1>2 DEF SessionOK

LEMMA OtherCmdKeeps ==
  ASSUME SessionOK, Session!FetchContext("loop") \/ Session!Clear
  PROVE  SessionOK'
<1>1. PICK cmd \in Session!SessionCmds : /\ mailbox' = Append(mailbox, cmd)
                                         /\ cmd.op # "push"
                                         /\ UNCHANGED <<msgs, reply>>
  BY DEF Session!FetchContext, Session!Clear, Session!Send, Session!SessionCmd, Session!SessionCmds
<1> QED
  BY <1>1 DEF SessionOK

LEMMA ReceiveKeeps ==
  ASSUME SessionOK, Session!Receive("loop")
  PROVE  SessionOK' /\ reply["loop"] \in Seq(Message)
  BY DEF SessionOK, Session!Receive

LEMMA HandleKeeps ==
  ASSUME SessionOK, Session!Handle
  PROVE  SessionOK'
<1> DEFINE cmd == Head(mailbox)
<1>1. /\ mailbox # <<>> /\ mailbox' = Tail(mailbox)
      /\ msgs' = Session!Applied(msgs, cmd)
      /\ reply' = IF cmd.client \in {"loop"} THEN [reply EXCEPT ![cmd.client] = msgs] ELSE reply
  BY DEF Session!Handle
<1>2. cmd \in Session!SessionCmds /\ cmd = mailbox[1] /\ 1 \in DOMAIN mailbox
  BY <1>1 DEF SessionOK
<1>3. /\ mailbox' \in Seq(Session!SessionCmds)
      /\ \A i \in DOMAIN mailbox' : i + 1 \in DOMAIN mailbox /\ mailbox'[i] = mailbox[i + 1]
  BY <1>1 DEF SessionOK
<1>4. reply' \in [{"loop"} -> Seq(Message) \cup {Nothing}]
  BY <1>1 DEF SessionOK
<1>5. msgs' \in Seq(Message) /\ \A i \in DOMAIN msgs' : msgs'[i].result # "cancelled"
  <2>1. CASE cmd.op = "push"
    <3>1. cmd.body \in Message /\ cmd.body.result # "cancelled"
      BY <1>2, <2>1 DEF SessionOK, Session!SessionCmds
    <3>2. msgs' = Append(msgs, cmd.body)
      BY <1>1, <2>1 DEF Session!Applied
    <3> HIDE DEF cmd
    <3> QED
      BY <3>1, <3>2 DEF SessionOK
  <2>2. CASE cmd.op # "push"
    <3>1. msgs' = msgs \/ msgs' = <<>>
      BY <1>1, <2>2 DEF Session!Applied
    <3>2. CASE msgs' = msgs
      BY <3>2 DEF SessionOK
    <3>3. CASE msgs' = <<>>
      BY <3>3
    <3> QED
      BY <3>1, <3>2, <3>3
  <2> QED
    BY <2>1, <2>2
<1> HIDE DEF cmd
<1> QED
  BY <1>3, <1>4, <1>5 DEF SessionOK

-----------------------------------------------------------------------------
LEMMA InitLoop == Init => LoopInv
<1> SUFFICES ASSUME Init PROVE LoopInv
  OBVIOUS
<1> USE LoopAssumption
<1>1. SessionOK
  BY DEF Init, Session!Init, SessionOK
<1>2. LoopOK
  <2>1. context \in Seq(Message)
    BY DEF Init
  <2>2. acc \subseteq 1 .. Width /\ text \in BOOLEAN /\ cancelled \in BOOLEAN
    BY DEF Init
  <2>3. pc \in PCs /\ pc = "idle" /\ finish \in Finishes
    BY DEF Init, PCs, Finishes
  <2>4. call \in 0 .. MaxCalls /\ iteration \in 0 .. MaxIterations /\ clears \in 0 .. MaxClears
    BY DEF Init
  <2>5. blocked \subseteq Kinds \cup {"cancelled"}
    BY DEF Init
  <2> QED
    BY <2>1, <2>2, <2>3, <2>4, <2>5 DEF LoopOK, InTurn
<1>5. OutboxOK
  BY DEF Init, OutboxOK
<1>3. AnswerOK
  BY DEF Init, AnswerOK, NoAnswers, Results
<1>4. EmittedOK
  BY DEF Init, EmittedOK, EventsBracketed, InTurn
<1> QED
  BY <1>1, <1>2, <1>3, <1>4, <1>5 DEF LoopInv

\* One more event keeps the events in whole turns.
LEMMA EmitKeeps ==
  ASSUME EmittedOK, NEW e \in Event, e.result # "cancelled", emitted' = Append(emitted, e),
         \/ BetweenTurns /\ e.turn = iteration /\ e.kind \in {"turn_start", "cancelled"}
         \/ WithinTurn /\ e.turn = iteration /\ e.kind # "turn_start"
  PROVE  /\ emitted' \in Seq(Event)
         /\ \A i \in DOMAIN emitted' : emitted'[i].result # "cancelled"
         /\ EventsBracketed'
         /\ emitted' # <<>> /\ emitted'[Len(emitted')] = e
<1>1. /\ emitted' \in Seq(Event) /\ emitted' # <<>> /\ emitted'[Len(emitted')] = e
      /\ Len(emitted') = Len(emitted) + 1
      /\ \A i \in DOMAIN emitted : emitted'[i] = emitted[i]
  BY DEF EmittedOK
<1>2. \A i \in DOMAIN emitted' : emitted'[i].result # "cancelled"
  BY DEF EmittedOK
<1>3. emitted'[1].kind \in {"turn_start", "cancelled"}
  <2>1. CASE emitted = <<>>
    BY <1>1, <2>1 DEF WithinTurn
  <2>2. CASE emitted # <<>>
    BY <1>1, <2>2 DEF EmittedOK, EventsBracketed
  <2> QED
    BY <2>1, <2>2
<1>4. ASSUME NEW i \in 1 .. Len(emitted') - 1
      PROVE  /\ emitted'[i].kind # "cancelled"
             /\ IF emitted'[i].kind = "turn_end"
                THEN /\ emitted'[i + 1].turn = emitted'[i].turn + 1
                     /\ emitted'[i + 1].kind \in {"turn_start", "cancelled"}
                ELSE /\ emitted'[i + 1].turn = emitted'[i].turn
                     /\ emitted'[i + 1].kind # "turn_start"
  <2>1. CASE i = Len(emitted)
    <3>1. emitted # <<>> /\ emitted'[i] = LastEvent /\ emitted'[i + 1] = e
      BY <1>1, <2>1 DEF LastEvent, EmittedOK
    <3> QED
      BY <3>1 DEF BetweenTurns, WithinTurn
  <2>2. CASE i < Len(emitted)
    <3>1. i \in 1 .. Len(emitted) - 1 /\ emitted'[i] = emitted[i] /\ emitted'[i + 1] = emitted[i + 1]
      BY <1>1, <2>2 DEF EmittedOK
    <3> QED
      BY <3>1 DEF EmittedOK, EventsBracketed
  <2> QED
    BY <1>1, <2>1, <2>2 DEF EmittedOK
<1> QED
  BY <1>1, <1>2, <1>3, <1>4 DEF EventsBracketed

-----------------------------------------------------------------------------
LEMMA StepLoop == LoopInv /\ [Next]_vars => LoopInv'
<1> SUFFICES ASSUME LoopInv, [Next]_vars PROVE LoopInv'
  OBVIOUS
<1> USE LoopAssumption
<1>0. SessionOK /\ LoopOK /\ AnswerOK /\ OutboxOK /\ EmittedOK
  BY DEF LoopInv
<1>1. CASE Send
  <2>1. pc' \in {"look", "init"} /\ call' \in 1 .. MaxCalls /\ iteration' = 0
    BY <1>0, <1>1 DEF Send, LoopOK
  <2>2. SessionOK'
    BY <1>0, <1>1, OtherCmdKeeps DEF Send, SessionOK, sessionVars
  <2>3. LoopOK'
    <3>1. UNCHANGED <<text, acc, finish, context, clears>> /\ cancelled' = FALSE /\ blocked' = {}
      BY <1>1 DEF Send, streamVars
    <3>2. pc' \in PCs /\ pc' \notin InTurn \cup {"fetch", "idle"}
      BY <2>1 DEF PCs, InTurn
    <3>3. call' \in 0 .. MaxCalls /\ call' > 0 /\ iteration' \in 0 .. MaxIterations
      BY <2>1
    <3> QED
      BY <1>0, <3>1, <3>2, <3>3 DEF LoopOK
  <2>4. AnswerOK'
    BY <1>0, <1>1 DEF Send, AnswerOK
  <2>5. OutboxOK'
    BY <1>0, <1>1, <2>1 DEF Send, OutboxOK
  <2>6. EmittedOK'
    <3>1. emitted' = <<>>
      BY <1>1 DEF Send
    <3>2. emitted' \in Seq(Event) /\ Len(emitted') = 0 /\ DOMAIN emitted' = {}
      BY <3>1
    <3>3. EventsBracketed'
      BY <3>1, <3>2 DEF EventsBracketed
    <3>4. BetweenTurns'
      BY <3>1 DEF BetweenTurns
    <3>5. pc' \notin InTurn \cup {"leaving"}
      BY <2>1 DEF InTurn
    <3> QED
      BY <3>2, <3>3, <3>4, <3>5 DEF EmittedOK
  <2> QED
    BY <2>2, <2>3, <2>4, <2>5, <2>6 DEF LoopInv
<1>2. CASE Cancel
  <2>2. SessionOK'
    BY <1>0, <1>2 DEF Cancel, Goto, callVars, turnVars, streamVars, sessionVars, SessionOK
  <2>3. LoopOK'
    BY <1>0, <1>2 DEF Cancel, Goto, callVars, turnVars, streamVars, sessionVars, LoopOK, PCs,
       InTurn, Finishes
  <2>4. AnswerOK'
    BY <1>0, <1>2 DEF Cancel, Goto, callVars, turnVars, streamVars, sessionVars, AnswerOK
  <2>5. OutboxOK'
    BY <1>0, <1>2 DEF Cancel, Goto, callVars, turnVars, streamVars, sessionVars, OutboxOK, Simple,
       Record
  <2>6. EmittedOK'
    BY <1>0, <1>2 DEF Cancel, Goto, callVars, turnVars, streamVars, sessionVars, EmittedOK,
       EventsBracketed, InTurn, BetweenTurns, WithinTurn, LastEvent, OutboxOK
  <2> QED
    BY <2>2, <2>3, <2>4, <2>5, <2>6 DEF LoopInv
<1>3. CASE Wait
  <2>2. SessionOK'
    BY <1>0, <1>3 DEF Wait, Goto, callVars, turnVars, streamVars, sessionVars, SessionOK
  <2>3. LoopOK'
    BY <1>0, <1>3 DEF Wait, Goto, callVars, turnVars, streamVars, sessionVars, LoopOK, PCs, InTurn,
       Finishes
  <2>4. AnswerOK'
    BY <1>0, <1>3 DEF Wait, Goto, callVars, turnVars, streamVars, sessionVars, AnswerOK
  <2>5. OutboxOK'
    BY <1>0, <1>3 DEF Wait, Goto, callVars, turnVars, streamVars, sessionVars, OutboxOK, Simple, Record
  <2>6. EmittedOK'
    BY <1>0, <1>3 DEF Wait, Goto, callVars, turnVars, streamVars, sessionVars, EmittedOK,
       EventsBracketed, InTurn, BetweenTurns, WithinTurn, LastEvent, OutboxOK
  <2> QED
    BY <2>2, <2>3, <2>4, <2>5, <2>6 DEF LoopInv
<1>4. CASE Clear
  <2>2. SessionOK'
    BY <1>0, <1>4, OtherCmdKeeps DEF Clear, Goto, callVars, turnVars, streamVars, sessionVars, SessionOK
  <2>3. LoopOK'
    BY <1>0, <1>4 DEF Clear, Goto, callVars, turnVars, streamVars, sessionVars, LoopOK, PCs, InTurn,
       Finishes
  <2>4. AnswerOK'
    BY <1>0, <1>4 DEF Clear, Goto, callVars, turnVars, streamVars, sessionVars, AnswerOK
  <2>5. OutboxOK'
    BY <1>0, <1>4 DEF Clear, Goto, callVars, turnVars, streamVars, sessionVars, OutboxOK, Simple, Record
  <2>6. EmittedOK'
    BY <1>0, <1>4 DEF Clear, Goto, callVars, turnVars, streamVars, sessionVars, EmittedOK,
       EventsBracketed, InTurn, BetweenTurns, WithinTurn, LastEvent, OutboxOK
  <2> QED
    BY <2>2, <2>3, <2>4, <2>5, <2>6 DEF LoopInv
<1>5. CASE SessionActor
  <2>2. SessionOK'
    BY <1>0, <1>5, HandleKeeps DEF SessionActor, Goto, callVars, turnVars, streamVars, sessionVars,
       SessionOK
  <2>3. LoopOK'
    BY <1>0, <1>5 DEF SessionActor, Goto, callVars, turnVars, streamVars, sessionVars, LoopOK, PCs,
       InTurn, Finishes
  <2>4. AnswerOK'
    BY <1>0, <1>5 DEF SessionActor, Goto, callVars, turnVars, streamVars, sessionVars, AnswerOK
  <2>5. OutboxOK'
    BY <1>0, <1>5 DEF SessionActor, Goto, callVars, turnVars, streamVars, sessionVars, OutboxOK,
       Simple, Record
  <2>6. EmittedOK'
    BY <1>0, <1>5 DEF SessionActor, Goto, callVars, turnVars, streamVars, sessionVars, EmittedOK,
       EventsBracketed, InTurn, BetweenTurns, WithinTurn, LastEvent, OutboxOK
  <2> QED
    BY <2>2, <2>3, <2>4, <2>5, <2>6 DEF LoopInv
<1>6. CASE Looked
  <2>2. SessionOK'
    BY <1>0, <1>6, ReceiveKeeps DEF Looked, Goto, callVars, turnVars, streamVars, sessionVars, SessionOK
  <2>3. LoopOK'
    BY <1>0, <1>6 DEF Looked, Goto, callVars, turnVars, streamVars, sessionVars, LoopOK, PCs,
       InTurn, Finishes
  <2>4. AnswerOK'
    BY <1>0, <1>6 DEF Looked, Goto, callVars, turnVars, streamVars, sessionVars, AnswerOK
  <2>5. OutboxOK'
    BY <1>0, <1>6 DEF Looked, Goto, callVars, turnVars, streamVars, sessionVars, OutboxOK, Simple,
       Record
  <2>6. EmittedOK'
    BY <1>0, <1>6 DEF Looked, Goto, callVars, turnVars, streamVars, sessionVars, EmittedOK,
       EventsBracketed, InTurn, BetweenTurns, WithinTurn, LastEvent, OutboxOK
  <2> QED
    BY <2>2, <2>3, <2>4, <2>5, <2>6 DEF LoopInv
<1>7. CASE PushSystem
  <2>1. Simple("system") \in Message /\ Simple("system").result # "cancelled"
    BY <1>0, <1>7, SimpleTyped DEF PushSystem, Goto, callVars, turnVars, streamVars, sessionVars,
       Message, Kinds, Simple, Record
  <2>2. SessionOK'
    BY <1>0, <1>7, <2>1, PushKeeps DEF PushSystem, Goto, callVars, turnVars, streamVars, sessionVars
  <2>3. LoopOK'
    BY <1>0, <1>7 DEF PushSystem, Goto, callVars, turnVars, streamVars, sessionVars, LoopOK, PCs,
       InTurn, Finishes
  <2>4. AnswerOK'
    BY <1>0, <1>7 DEF PushSystem, Goto, callVars, turnVars, streamVars, sessionVars, AnswerOK
  <2>5. OutboxOK'
    BY <1>0, <1>7 DEF PushSystem, Goto, callVars, turnVars, streamVars, sessionVars, OutboxOK,
       Simple, Record
  <2>6. EmittedOK'
    BY <1>0, <1>7 DEF PushSystem, Goto, callVars, turnVars, streamVars, sessionVars, EmittedOK,
       EventsBracketed, InTurn, BetweenTurns, WithinTurn, LastEvent, OutboxOK
  <2> QED
    BY <2>2, <2>3, <2>4, <2>5, <2>6 DEF LoopInv
<1>8. CASE PushInit
  <2>1. Simple("user") \in Message /\ Simple("user").result # "cancelled"
    BY <1>0, <1>8, SimpleTyped DEF PushInit, Goto, callVars, turnVars, streamVars, sessionVars,
       Message, Kinds, Simple, Record
  <2>2. SessionOK'
    BY <1>0, <1>8, <2>1, PushKeeps DEF PushInit, Goto, callVars, turnVars, streamVars, sessionVars
  <2>3. LoopOK'
    BY <1>0, <1>8 DEF PushInit, Goto, callVars, turnVars, streamVars, sessionVars, LoopOK, PCs,
       InTurn, Finishes
  <2>4. AnswerOK'
    BY <1>0, <1>8 DEF PushInit, Goto, callVars, turnVars, streamVars, sessionVars, AnswerOK
  <2>5. OutboxOK'
    BY <1>0, <1>8 DEF PushInit, Goto, callVars, turnVars, streamVars, sessionVars, OutboxOK, Simple,
       Record
  <2>6. EmittedOK'
    BY <1>0, <1>8 DEF PushInit, Goto, callVars, turnVars, streamVars, sessionVars, EmittedOK,
       EventsBracketed, InTurn, BetweenTurns, WithinTurn, LastEvent, OutboxOK
  <2> QED
    BY <2>2, <2>3, <2>4, <2>5, <2>6 DEF LoopInv
<1>9. CASE Exhausted
  <2>2. SessionOK'
    BY <1>0, <1>9 DEF Exhausted, Goto, callVars, turnVars, streamVars, sessionVars, SessionOK
  <2>3. LoopOK'
    BY <1>0, <1>9 DEF Exhausted, Goto, callVars, turnVars, streamVars, sessionVars, LoopOK, PCs,
       InTurn, Finishes
  <2>4. AnswerOK'
    BY <1>0, <1>9 DEF Exhausted, Goto, callVars, turnVars, streamVars, sessionVars, AnswerOK
  <2>5. OutboxOK'
    BY <1>0, <1>9 DEF Exhausted, Goto, callVars, turnVars, streamVars, sessionVars, OutboxOK,
       Simple, Record
  <2>6. EmittedOK'
    BY <1>0, <1>9 DEF Exhausted, Goto, callVars, turnVars, streamVars, sessionVars, EmittedOK,
       EventsBracketed, InTurn, BetweenTurns, WithinTurn, LastEvent, OutboxOK
  <2> QED
    BY <2>2, <2>3, <2>4, <2>5, <2>6 DEF LoopInv
<1>10. CASE Fetch
  <2>2. SessionOK'
    BY <1>0, <1>10, OtherCmdKeeps DEF Fetch, Goto, callVars, turnVars, streamVars, sessionVars,
       SessionOK
  <2>3. LoopOK'
    BY <1>0, <1>10 DEF Fetch, Goto, callVars, turnVars, streamVars, sessionVars, LoopOK, PCs,
       InTurn, Finishes
  <2>4. AnswerOK'
    BY <1>0, <1>10 DEF Fetch, Goto, callVars, turnVars, streamVars, sessionVars, AnswerOK
  <2>5. OutboxOK'
    BY <1>0, <1>10 DEF Fetch, Goto, callVars, turnVars, streamVars, sessionVars, OutboxOK, Simple,
       Record
  <2>6. EmittedOK'
    BY <1>0, <1>10 DEF Fetch, Goto, callVars, turnVars, streamVars, sessionVars, EmittedOK,
       EventsBracketed, InTurn, BetweenTurns, WithinTurn, LastEvent, OutboxOK
  <2> QED
    BY <2>2, <2>3, <2>4, <2>5, <2>6 DEF LoopInv
<1>11. CASE Fetched
  <2>2. SessionOK'
    BY <1>0, <1>11, ReceiveKeeps DEF Fetched, Goto, callVars, turnVars, streamVars, sessionVars,
       SessionOK
  <2>3. LoopOK'
    BY <1>0, <1>11, ReceiveKeeps DEF Fetched, Goto, callVars, turnVars, streamVars, sessionVars,
       LoopOK, PCs, InTurn, Finishes
  <2>4. AnswerOK'
    BY <1>0, <1>11 DEF Fetched, Goto, callVars, turnVars, streamVars, sessionVars, AnswerOK
  <2>5. OutboxOK'
    BY <1>0, <1>11 DEF Fetched, Goto, callVars, turnVars, streamVars, sessionVars, OutboxOK, Simple,
       Record
  <2>6. EmittedOK'
    <3>1. Simple("turn_start") \in Event
      BY <1>0, <1>11, SimpleTyped DEF Fetched, Goto, callVars, turnVars, streamVars, sessionVars, Event
    <3>2. Simple("turn_start").kind = "turn_start" /\ Simple("turn_start").turn = iteration /\ Simple("turn_start").result = "none"
      BY DEF Simple, Record
    <3>3. emitted' = Append(emitted, Simple("turn_start"))
      BY <1>11 DEF Fetched, Goto, callVars, turnVars, streamVars, sessionVars, Emit
    <3>4. BetweenTurns
      BY <1>0, <1>11 DEF Fetched, Goto, callVars, turnVars, streamVars, sessionVars, EmittedOK, InTurn
    <3> HIDE DEF Simple
    <3> QED
      BY <1>0, <1>11, <3>1, <3>2, <3>3, <3>4, EmitKeeps DEF Fetched, Goto, callVars, turnVars,
         streamVars, sessionVars, EmittedOK, InTurn, BetweenTurns, WithinTurn, LastEvent
  <2> QED
    BY <2>2, <2>3, <2>4, <2>5, <2>6 DEF LoopInv
<1>12. CASE Store
  <2>2. SessionOK'
    BY <1>0, <1>12 DEF Store, Goto, callVars, turnVars, streamVars, sessionVars, SessionOK
  <2>3. LoopOK'
    BY <1>0, <1>12 DEF Store, Goto, callVars, turnVars, streamVars, sessionVars, LoopOK, PCs,
       InTurn, Finishes
  <2>4. AnswerOK'
    BY <1>0, <1>12 DEF Store, Goto, callVars, turnVars, streamVars, sessionVars, AnswerOK
  <2>5. OutboxOK'
    <3>1. ASSUME NEW i \in acc PROVE Record("request", i, "none") \in Event
      <4>1. i \in 0 .. Width /\ "none" \in Results /\ "request" \in Kinds \cup {"turn_start", "turn_end", "cancelled"}
        BY <1>0 DEF LoopOK, Results, Kinds
      <4> QED
        BY <1>0, RecordTyped, <1>12, <4>1 DEF Store, Goto, Event
    <3>2. Simple("text") \in Event
      BY <1>0, SimpleTyped, <1>12 DEF Store, Goto, Event, Kinds
    <3> QED
      BY <1>0, <1>12, <3>1, <3>2 DEF Store, Goto, callVars, turnVars, OutboxOK, TurnEvents, Simple,
         Record, Turned
  <2>6. EmittedOK'
    BY <1>0, <1>12 DEF Store, Goto, callVars, turnVars, streamVars, sessionVars, EmittedOK,
       EventsBracketed, InTurn, BetweenTurns, WithinTurn, LastEvent, OutboxOK
  <2> QED
    BY <2>2, <2>3, <2>4, <2>5, <2>6 DEF LoopInv
<1>13. CASE TurnFinish
  <2>2. SessionOK'
    BY <1>0, <1>13 DEF TurnFinish, Goto, callVars, turnVars, streamVars, sessionVars, SessionOK
  <2>3. LoopOK'
    BY <1>0, <1>13 DEF TurnFinish, Goto, callVars, turnVars, streamVars, sessionVars, LoopOK, PCs,
       InTurn, Finishes
  <2>4. AnswerOK'
    BY <1>0, <1>13 DEF TurnFinish, Goto, callVars, turnVars, streamVars, sessionVars, AnswerOK,
       LoopOK, NoAnswers, Results, Called
  <2>5. OutboxOK'
    BY <1>0, <1>13 DEF TurnFinish, Goto, callVars, turnVars, streamVars, sessionVars, OutboxOK,
       Simple, Record
  <2>6. EmittedOK'
    BY <1>0, <1>13 DEF TurnFinish, Goto, callVars, turnVars, streamVars, sessionVars, EmittedOK,
       EventsBracketed, InTurn, BetweenTurns, WithinTurn, LastEvent, OutboxOK
  <2> QED
    BY <2>2, <2>3, <2>4, <2>5, <2>6 DEF LoopInv
<1>14. CASE Report
  <2>2. SessionOK'
    BY <1>0, <1>14 DEF Report, Goto, callVars, turnVars, streamVars, sessionVars, SessionOK
  <2>3. LoopOK'
    BY <1>0, <1>14 DEF Report, Goto, callVars, turnVars, streamVars, sessionVars, LoopOK, PCs,
       InTurn, Finishes
  <2>4. AnswerOK'
    BY <1>0, <1>14 DEF Report, Goto, callVars, turnVars, streamVars, sessionVars, AnswerOK
  <2>5. OutboxOK'
    <3>1. ASSUME NEW i \in Called
          PROVE  Record("response", i, answer[i]) \in Event /\ answer[i] # "cancelled"
      <4>1. i \in 0 .. Width /\ answer[i] \in Results /\ "response" \in Kinds \cup {"turn_start", "turn_end", "cancelled"}
        BY <1>0 DEF LoopOK, AnswerOK, Kinds, Called
      <4>2. answer[i] # "cancelled"
        BY <1>0, <1>14 DEF Report, AnswerOK, LoopOK, Called
      <4> DEFINE a == answer[i]
      <4> HIDE DEF a
      <4>3. Record("response", i, a) \in Event
        BY <1>0, RecordTyped, <1>14, <4>1 DEF Report, Goto, Event, a
      <4> QED
        BY <4>2, <4>3 DEF a
    <3> QED
      BY <1>0, <1>14, <3>1 DEF Report, Goto, callVars, turnVars, OutboxOK, Record, Turned
  <2>6. EmittedOK'
    BY <1>0, <1>14 DEF Report, Goto, callVars, turnVars, streamVars, sessionVars, EmittedOK,
       EventsBracketed, InTurn, BetweenTurns, WithinTurn, LastEvent, OutboxOK
  <2> QED
    BY <2>2, <2>3, <2>4, <2>5, <2>6 DEF LoopInv
<1>15. CASE EndTurn
  <2>2. SessionOK'
    BY <1>0, <1>15 DEF EndTurn, Goto, callVars, turnVars, streamVars, sessionVars, SessionOK
  <2>3. LoopOK'
    BY <1>0, <1>15 DEF EndTurn, Goto, callVars, turnVars, streamVars, sessionVars, LoopOK, PCs,
       InTurn, Finishes
  <2>4. AnswerOK'
    BY <1>0, <1>15 DEF EndTurn, Goto, callVars, turnVars, streamVars, sessionVars, AnswerOK
  <2>5. OutboxOK'
    BY <1>0, <1>15 DEF EndTurn, Goto, callVars, turnVars, streamVars, sessionVars, OutboxOK, Simple,
       Record
  <2>6. EmittedOK'
    <3>1. Simple("turn_end") \in Event
      BY <1>0, <1>15, SimpleTyped DEF EndTurn, Goto, callVars, turnVars, streamVars, sessionVars, Event
    <3>2. Simple("turn_end").kind = "turn_end" /\ Simple("turn_end").turn = iteration /\ Simple("turn_end").result = "none"
      BY DEF Simple, Record
    <3>3. emitted' = Append(emitted, Simple("turn_end"))
      BY <1>15 DEF EndTurn, Goto, callVars, turnVars, streamVars, sessionVars, Emit
    <3>4. WithinTurn
      BY <1>0, <1>15 DEF EndTurn, Goto, callVars, turnVars, streamVars, sessionVars, EmittedOK, InTurn
    <3> HIDE DEF Simple
    <3> QED
      BY <1>0, <1>15, <3>1, <3>2, <3>3, <3>4, EmitKeeps DEF EndTurn, Goto, callVars, turnVars,
         streamVars, sessionVars, EmittedOK, InTurn, BetweenTurns, WithinTurn, LastEvent
  <2> QED
    BY <2>2, <2>3, <2>4, <2>5, <2>6 DEF LoopInv
<1>16. CASE CancelExit
  <2>2. SessionOK'
    BY <1>0, <1>16 DEF CancelExit, Goto, callVars, turnVars, streamVars, sessionVars, SessionOK
  <2>3. LoopOK'
    BY <1>0, <1>16 DEF CancelExit, Goto, callVars, turnVars, streamVars, sessionVars, LoopOK, PCs,
       InTurn, Finishes, Checkpoint
  <2>4. AnswerOK'
    BY <1>0, <1>16 DEF CancelExit, Goto, callVars, turnVars, streamVars, sessionVars, AnswerOK
  <2>5. OutboxOK'
    <3>1. Simple("cancelled") \in Event
      BY <1>0, <1>16, SimpleTyped DEF CancelExit, Goto, callVars, turnVars, streamVars, sessionVars,
         Event, Checkpoint
    <3> QED
      BY <1>0, <1>16, <3>1 DEF CancelExit, Goto, callVars, turnVars, streamVars, sessionVars,
         OutboxOK, Simple, Record
  <2>6. EmittedOK'
    BY <1>0, <1>16 DEF CancelExit, Goto, callVars, turnVars, streamVars, sessionVars, EmittedOK,
       EventsBracketed, InTurn, BetweenTurns, WithinTurn, LastEvent, OutboxOK, Checkpoint
  <2> QED
    BY <2>2, <2>3, <2>4, <2>5, <2>6 DEF LoopInv
<1>17. CASE Leave
  <2>2. SessionOK'
    BY <1>0, <1>17 DEF Leave, Goto, callVars, turnVars, streamVars, sessionVars, SessionOK
  <2>3. LoopOK'
    BY <1>0, <1>17 DEF Leave, Goto, callVars, turnVars, streamVars, sessionVars, LoopOK, PCs,
       InTurn, Finishes
  <2>4. AnswerOK'
    BY <1>0, <1>17 DEF Leave, Goto, callVars, turnVars, streamVars, sessionVars, AnswerOK
  <2>5. OutboxOK'
    BY <1>0, <1>17 DEF Leave, Goto, callVars, turnVars, streamVars, sessionVars, OutboxOK, Simple,
       Record
  <2>6. EmittedOK'
    BY <1>0, <1>17 DEF Leave, Goto, callVars, turnVars, streamVars, sessionVars, EmittedOK,
       EventsBracketed, InTurn, BetweenTurns, WithinTurn, LastEvent, OutboxOK
  <2> QED
    BY <2>2, <2>3, <2>4, <2>5, <2>6 DEF LoopInv
<1>18. CASE RequestOpened
  <2>2. SessionOK'
    BY <1>0, <1>18 DEF RequestOpened, Goto, callVars, turnVars, streamVars, sessionVars, SessionOK
  <2>3. LoopOK'
    BY <1>0, <1>18 DEF RequestOpened, Goto, callVars, turnVars, streamVars, sessionVars, LoopOK,
       PCs, InTurn, Finishes
  <2>4. AnswerOK'
    BY <1>0, <1>18 DEF RequestOpened, Goto, callVars, turnVars, streamVars, sessionVars, AnswerOK
  <2>5. OutboxOK'
    BY <1>0, <1>18 DEF RequestOpened, Goto, callVars, turnVars, streamVars, sessionVars, OutboxOK,
       Simple, Record
  <2>6. EmittedOK'
    BY <1>0, <1>18 DEF RequestOpened, Goto, callVars, turnVars, streamVars, sessionVars, EmittedOK,
       EventsBracketed, InTurn, BetweenTurns, WithinTurn, LastEvent, OutboxOK
  <2> QED
    BY <2>2, <2>3, <2>4, <2>5, <2>6 DEF LoopInv
<1>19. CASE Error
  <2>2. SessionOK'
    BY <1>0, <1>19 DEF Error, Goto, callVars, turnVars, streamVars, sessionVars, SessionOK
  <2>3. LoopOK'
    BY <1>0, <1>19 DEF Error, Goto, callVars, turnVars, streamVars, sessionVars, LoopOK, PCs,
       InTurn, Finishes
  <2>4. AnswerOK'
    BY <1>0, <1>19 DEF Error, Goto, callVars, turnVars, streamVars, sessionVars, AnswerOK
  <2>5. OutboxOK'
    BY <1>0, <1>19 DEF Error, Goto, callVars, turnVars, streamVars, sessionVars, OutboxOK, Simple,
       Record
  <2>6. EmittedOK'
    BY <1>0, <1>19 DEF Error, Goto, callVars, turnVars, streamVars, sessionVars, EmittedOK,
       EventsBracketed, InTurn, BetweenTurns, WithinTurn, LastEvent, OutboxOK
  <2> QED
    BY <2>2, <2>3, <2>4, <2>5, <2>6 DEF LoopInv
<1>20. CASE Chunk
  <2>2. SessionOK'
    BY <1>0, <1>20 DEF Chunk, Goto, callVars, turnVars, streamVars, sessionVars, SessionOK
  <2>3. LoopOK'
    BY <1>0, <1>20 DEF Chunk, Goto, callVars, turnVars, streamVars, sessionVars, LoopOK, PCs,
       InTurn, Finishes
  <2>4. AnswerOK'
    BY <1>0, <1>20 DEF Chunk, Goto, callVars, turnVars, streamVars, sessionVars, AnswerOK
  <2>5. OutboxOK'
    BY <1>0, <1>20 DEF Chunk, Goto, callVars, turnVars, streamVars, sessionVars, OutboxOK, Simple,
       Record
  <2>6. EmittedOK'
    BY <1>0, <1>20 DEF Chunk, Goto, callVars, turnVars, streamVars, sessionVars, EmittedOK,
       EventsBracketed, InTurn, BetweenTurns, WithinTurn, LastEvent, OutboxOK
  <2> QED
    BY <2>2, <2>3, <2>4, <2>5, <2>6 DEF LoopInv
<1>21. CASE StreamEnd
  <2>2. SessionOK'
    BY <1>0, <1>21 DEF StreamEnd, Goto, callVars, turnVars, streamVars, sessionVars, SessionOK
  <2>3. LoopOK'
    BY <1>0, <1>21 DEF StreamEnd, Goto, callVars, turnVars, streamVars, sessionVars, LoopOK, PCs,
       InTurn, Finishes
  <2>4. AnswerOK'
    BY <1>0, <1>21 DEF StreamEnd, Goto, callVars, turnVars, streamVars, sessionVars, AnswerOK
  <2>5. OutboxOK'
    BY <1>0, <1>21 DEF StreamEnd, Goto, callVars, turnVars, streamVars, sessionVars, OutboxOK,
       Simple, Record
  <2>6. EmittedOK'
    BY <1>0, <1>21 DEF StreamEnd, Goto, callVars, turnVars, streamVars, sessionVars, EmittedOK,
       EventsBracketed, InTurn, BetweenTurns, WithinTurn, LastEvent, OutboxOK
  <2> QED
    BY <2>2, <2>3, <2>4, <2>5, <2>6 DEF LoopInv
<1>22. CASE \E i \in 1 .. Width : ToolAnswer(i)
  <2> PICK i \in 1 .. Width : ToolAnswer(i)
    BY <1>22
  <2>2. SessionOK'
    BY <1>0 DEF ToolAnswer, SessionOK, sessionVars
  <2>3. LoopOK'
    BY <1>0 DEF ToolAnswer, LoopOK, callVars, streamVars
  <2>4. AnswerOK'
    BY <1>0 DEF ToolAnswer, AnswerOK, Results, callVars
  <2>5. OutboxOK'
    BY <1>0 DEF ToolAnswer, OutboxOK, Simple, Record, callVars
  <2>6. EmittedOK'
    BY <1>0 DEF ToolAnswer, EmittedOK, EventsBracketed, BetweenTurns, WithinTurn, LastEvent
  <2> QED
    BY <2>2, <2>3, <2>4, <2>5, <2>6 DEF LoopInv
<1>23. CASE Filter
  <2> PICK e \in outbox : Pass(e) \/ Block(e)
    BY <1>23 DEF Filter
  <2>1. /\ e \in Event /\ e.result # "cancelled"
        /\ pc \in {"storing", "reporting"} => e.kind \in Turned /\ e.turn = iteration
        /\ pc = "leaving" => e.kind = "cancelled" /\ e.turn = iteration /\ outbox = {e}
        /\ pc \in {"storing", "reporting", "leaving"}
    BY <1>0 DEF OutboxOK, Simple, Record
  <2>2. SessionOK'
    <3>1. CASE e.kind \in Kinds /\ Session!PushMessages(e)
      <4>1. e \in Message
        BY <2>1, <3>1 DEF Event, Message, Records
      <4> QED
        BY <1>0, <2>1, <3>1, <4>1, PushKeeps
    <3>2. CASE UNCHANGED sessionVars
      BY <1>0, <3>2 DEF sessionVars, SessionOK
    <3> QED
      BY <3>1, <3>2 DEF Pass, Block
  <2>3. LoopOK'
    <3>1. e.kind \in Kinds \cup {"cancelled"}
      BY <2>1 DEF Turned, Kinds
    <3> QED
      BY <1>0, <3>1 DEF Pass, Block, LoopOK, callVars, turnVars, streamVars
  <2>4. AnswerOK'
    BY <1>0 DEF Pass, Block, AnswerOK, callVars, turnVars
  <2>5. OutboxOK'
    BY <1>0 DEF Pass, Block, OutboxOK, Simple, Record, callVars, turnVars
  <2>6. EmittedOK'
    <3>1. CASE Block(e)
      BY <1>0, <3>1 DEF Block, EmittedOK, EventsBracketed, BetweenTurns, WithinTurn, LastEvent,
         callVars, turnVars
    <3>2. CASE Pass(e)
      <4>1. emitted' = Append(emitted, e) /\ outbox' = outbox \ {e} /\ UNCHANGED <<pc, iteration>>
        BY <3>2 DEF Pass, turnVars
      <4>2. \/ BetweenTurns /\ e.turn = iteration /\ e.kind = "cancelled"
            \/ WithinTurn /\ e.turn = iteration /\ e.kind \in Turned \cup {"cancelled"}
        BY <1>0, <2>1 DEF EmittedOK, InTurn
      <4>3. pc = "leaving" => outbox' = {}
        BY <2>1, <4>1
      <4> QED
        BY <1>0, <2>1, <4>1, <4>2, <4>3, EmitKeeps DEF EmittedOK, InTurn, WithinTurn, LastEvent, Turned
    <3> QED
      BY <3>1, <3>2
  <2> QED
    BY <2>2, <2>3, <2>4, <2>5, <2>6 DEF LoopInv
<1>24. CASE UNCHANGED vars
  <2>1. SessionOK' /\ LoopOK' /\ AnswerOK'
    BY <1>0, <1>24 DEF vars, sessionVars, streamVars, SessionOK, LoopOK, AnswerOK
  <2>2. OutboxOK' /\ EmittedOK'
    BY <1>0, <1>24 DEF vars, OutboxOK, Simple, Record, EmittedOK, EventsBracketed, BetweenTurns,
       WithinTurn, LastEvent
  <2> QED
    BY <2>1, <2>2 DEF LoopInv
<1> QED
  BY <1>1, <1>2, <1>3, <1>4, <1>5, <1>6, <1>7, <1>8, <1>9, <1>10, <1>11, <1>12, <1>13, <1>14, <1>15,
     <1>16, <1>17, <1>18, <1>19, <1>20, <1>21, <1>22, <1>23, <1>24 DEF Next, Loop, Provider

-----------------------------------------------------------------------------
\* LoopInv is an inductive invariant of the loop.
THEOREM LoopInvariant == Spec => []LoopInv
<1>1. LoopInv /\ [Next]_vars => LoopInv'
  BY StepLoop
<1> QED
  BY <1>1, InitLoop, PTL DEF Spec

\* Type correctness, for every width, number of iterations, calls and clears.
THEOREM TypeCorrect == Spec => []TypeOK
<1>1. LoopInv => TypeOK
  BY DEF LoopInv, SessionOK, LoopOK, PCs, AnswerOK, OutboxOK, EmittedOK, TypeOK
<1> QED
  BY <1>1, LoopInvariant, PTL

\* No result of a cancelled tool call ever reaches session or subscribers.
THEOREM CancelledBatchDropped == Spec => []NoCancelledResult
<1>1. LoopInv => NoCancelledResult
  BY DEF LoopInv, SessionOK, EmittedOK, NoCancelledResult
<1> QED
  BY <1>1, LoopInvariant, PTL

\* Subscribers see whole turns, and nothing after Cancelled.
THEOREM WholeTurns == Spec => []EventsBracketed
<1>1. LoopInv => EventsBracketed
  BY DEF LoopInv, EmittedOK
<1> QED
  BY <1>1, LoopInvariant, PTL

-----------------------------------------------------------------------------
(* How a loop that returns Ok has ended.                                   *)

\* A loop that is past its first iteration has emitted a TurnEnd, and one that
\* has processed its last outbox a Cancelled, unless that was blocked.
Told == "cancelled" \in blocked \/ (emitted # <<>> /\ LastEvent.kind = "cancelled")
EndInv ==
  /\ pc \in {"look", "system", "init"} => iteration = 0
  /\ pc \in {"top", "fetch"} /\ iteration > 0 => emitted # <<>>
  /\ pc = "leaving" /\ outbox = {} => Told
  /\ pc = "done" => \/ MaxIterations = 0
                    \/ Told
                    \/ emitted # <<>> /\ LastEvent.kind = "turn_end"

LEMMA StepEnd ==
  ASSUME LoopInv, EndInv, [Next]_vars
  PROVE  EndInv'
<1> USE LoopAssumption
<1>0. LoopOK /\ OutboxOK /\ EmittedOK
  BY DEF LoopInv
<1>1. CASE Send
  BY <1>1 DEF Send, EndInv
<1>2. CASE Exhausted
  <2>1. pc = "top" /\ pc' = "done" /\ iteration = MaxIterations
    BY <1>2 DEF Exhausted, Goto
  <2>2. UNCHANGED <<emitted, blocked, iteration, outbox>>
    BY <1>2 DEF Exhausted, callVars, turnVars
  <2>3. MaxIterations > 0 => emitted # <<>> /\ LastEvent.kind = "turn_end"
    BY <1>0, <2>1 DEF EndInv, EmittedOK, BetweenTurns
  <2> QED
    BY <2>1, <2>2, <2>3 DEF EndInv, LastEvent
<1>3. CASE EndTurn
  <2>1. /\ emitted' = Append(emitted, Simple("turn_end")) /\ Simple("turn_end").kind = "turn_end"
        /\ pc' \in {"top", "done"}
    BY <1>3 DEF EndTurn, Emit, Simple, Record
  <2> HIDE DEF Simple
  <2>2. emitted' # <<>> /\ emitted'[Len(emitted')] = Simple("turn_end")
    BY <1>0, <2>1 DEF EmittedOK
  <2> QED
    BY <2>1, <2>2 DEF EndInv, LastEvent
<1>4. CASE Filter
  <2>1. PICK e \in outbox : Pass(e) \/ Block(e)
    BY <1>4 DEF Filter
  <2>2. pc' = pc /\ iteration' = iteration /\ pc \in {"storing", "reporting", "leaving"}
    BY <1>0, <2>1 DEF Pass, Block, turnVars, OutboxOK
  <2>3. CASE pc = "leaving"
    <3>1. e.kind = "cancelled"
      BY <1>0, <2>1, <2>3 DEF OutboxOK, Simple, Record
    <3>2. ASSUME Pass(e) PROVE Told'
      <4>1. emitted' = Append(emitted, e)
        BY <3>2 DEF Pass
      <4>2. emitted' # <<>> /\ emitted'[Len(emitted')] = e
        BY <1>0, <4>1 DEF EmittedOK
      <4> QED
        BY <3>1, <4>2 DEF Told, LastEvent
    <3>3. ASSUME Block(e) PROVE Told'
      BY <3>1, <3>3 DEF Block, Told
    <3> QED
      BY <2>1, <2>2, <2>3, <3>2, <3>3 DEF EndInv
  <2> QED
    BY <2>2, <2>3 DEF EndInv
\* What else leads to done, from where the end was told, or back to the top.
<1>5. CASE Leave \/ Fetch
  BY <1>5 DEF Leave, Fetch, Goto, callVars, turnVars, EndInv, Told, LastEvent
<1>6. CASE PushInit \/ Looked \/ PushSystem
  BY <1>6 DEF PushInit, Looked, PushSystem, Goto, callVars, turnVars, EndInv
<1>7. CASE CancelExit
  BY <1>7 DEF CancelExit, EndInv
<1>8. CASE Fetched \/ Store \/ TurnFinish \/ Report \/ Provider \/ Wait
  BY <1>8 DEF Fetched, Store, TurnFinish, Report, Provider, RequestOpened, Error, Chunk, StreamEnd,
              Wait, Goto, EndInv
<1>9. CASE Cancel \/ Clear \/ SessionActor \/ (\E i \in 1 .. Width : ToolAnswer(i)) \/ UNCHANGED vars
  <2>1. UNCHANGED <<pc, iteration, outbox, emitted, blocked>>
    BY <1>9 DEF Cancel, Clear, SessionActor, ToolAnswer, callVars, turnVars, vars
  <2> QED
    BY <2>1 DEF EndInv, Told, LastEvent
<1> QED
  BY <1>1, <1>2, <1>3, <1>4, <1>5, <1>6, <1>7, <1>8, <1>9 DEF Next, Loop

\* A loop that returns Ok has told its subscribers how it ended.
THEOREM EndAlwaysAnnounced == Spec => []EndAnnounced
<1>1. Init => EndInv
  BY DEF Init, EndInv
<1>2. LoopInv /\ EndInv /\ [Next]_vars => EndInv'
  BY StepEnd
<1>3. EndInv => EndAnnounced
  BY LoopAssumption DEF EndInv, EndAnnounced, Told, LastEvent, Last
<1> QED
  BY <1>1, <1>2, <1>3, LoopInvariant, PTL DEF Spec

-----------------------------------------------------------------------------
(* The session of the loop is the one that SessionProofs is about.  conv   *)
(* is the conversation with the commands in flight, view the answer that   *)
(* the loop has, or will get to what it has asked.                         *)

Facts == INSTANCE SessionProofs WITH Clients <- {"loop"}
conv == Facts!Drained(mailbox)
view == Facts!View("loop")

LEMMA Nothings == Facts!Distinct
BY LoopAssumption DEF Facts!Distinct

LEMMA SameSession ==
  /\ Session!Init => Facts!Init
  /\ \A m : Session!PushMessages(m) => Facts!PushMessages(m)
  /\ Session!Clear => Facts!Clear
  /\ Session!FetchContext("loop") => Facts!FetchContext("loop")
  /\ Session!Receive("loop") => Facts!Receive("loop")
  /\ Session!Handle => Facts!Handle
<1>1. \A cmd : Session!Send(cmd) => Facts!Send(cmd)
  BY DEF Session!Send, Facts!Send
<1>2. \A op, client, body : Session!SessionCmd(op, client, body) = Facts!SessionCmd(op, client, body)
  BY DEF Session!SessionCmd, Facts!SessionCmd
<1>3. \A c : Session!Asked(c) <=> Facts!Asked(c)
  BY DEF Session!Asked, Facts!Asked
<1>4. \A ms, cmd : Session!Applied(ms, cmd) = Facts!Applied(ms, cmd)
  BY DEF Session!Applied, Facts!Applied
<1>5. Session!Init => Facts!Init
  BY DEF Session!Init, Facts!Init
<1>6. \A m : Session!PushMessages(m) => Facts!PushMessages(m)
  BY <1>1, <1>2 DEF Session!PushMessages, Facts!PushMessages
<1>7. Session!Clear => Facts!Clear
  BY <1>1, <1>2 DEF Session!Clear, Facts!Clear
<1>8. Session!FetchContext("loop") => Facts!FetchContext("loop")
  BY <1>1, <1>2, <1>3 DEF Session!FetchContext, Facts!FetchContext
<1>9. Session!Receive("loop") => Facts!Receive("loop")
  BY DEF Session!Receive, Facts!Receive
<1>10. Session!Handle => Facts!Handle
  BY <1>4 DEF Session!Handle, Facts!Handle
<1> QED
  BY <1>5, <1>6, <1>7, <1>8, <1>9, <1>10

LEMMA SameConversation == Conversation = conv
<1>1. \A ms, cmd : Session!Applied(ms, cmd) = Facts!Applied(ms, cmd)
  BY DEF Session!Applied, Facts!Applied
<1>2. \A ms, cmds : Session!After(ms, cmds) = Facts!After(ms, cmds)
  BY <1>1 DEF Session!After, Facts!After
<1> QED
  BY <1>2 DEF Conversation, conv, Session!Drained, Facts!Drained

LEMMA ConversationType == Facts!SessionInv => conv \in Seq(Message)
BY Facts!LogType DEF conv

\* What each operation of the session does to them.
LEMMA InitMoves ==
  ASSUME Session!Init
  PROVE  Facts!SessionInv /\ conv = <<>>
BY SameSession, Facts!InitStep DEF Facts!Log!Init, conv

LEMMA PushMoves ==
  ASSUME Facts!SessionInv, NEW m \in Message, Session!PushMessages(m)
  PROVE  Facts!SessionInv' /\ conv' = Append(conv, m)
BY SameSession, Nothings, Facts!PushStep DEF Facts!Log!Push, conv

LEMMA ClearMoves ==
  ASSUME Facts!SessionInv, Session!Clear
  PROVE  Facts!SessionInv' /\ conv' = <<>>
BY SameSession, Nothings, Facts!ClearStep DEF Facts!Log!Clear, conv

LEMMA FetchMoves ==
  ASSUME Facts!SessionInv, Session!FetchContext("loop")
  PROVE  Facts!SessionInv' /\ conv' = conv /\ view' = conv
<1>1. Facts!SessionInv' /\ Facts!Log!Fetch("loop")
  BY SameSession, Facts!FetchStep
<1> DEFINE v == [c \in {"loop"} |-> Facts!View(c)]
<1>2. v["loop"] = view /\ v'["loop"] = view'
  BY DEF view
<1>3. v' = [v EXCEPT !["loop"] = conv] /\ conv' = conv
  BY <1>1 DEF Facts!Log!Fetch, conv
<1>4. DOMAIN v = {"loop"}
  OBVIOUS
<1> HIDE DEF v
<1> QED
  BY <1>1, <1>2, <1>3, <1>4

LEMMA ReceiveMoves ==
  ASSUME Facts!SessionInv, Session!Receive("loop")
  PROVE  Facts!SessionInv' /\ conv' = conv /\ reply["loop"] = view
<1>1. Facts!SessionInv' /\ conv' = conv
  BY SameSession, Facts!ReceiveStep DEF Facts!Log!Release, conv
<1>2. reply["loop"] = view
  BY DEF Session!Receive, view, Facts!View
<1> QED
  BY <1>1, <1>2

LEMMA HandleMoves ==
  ASSUME Facts!SessionInv, Session!Handle
  PROVE  Facts!SessionInv' /\ conv' = conv /\ view' = view
<1>1. Facts!SessionInv' /\ UNCHANGED Facts!Log!vars
  BY SameSession, Nothings, Facts!HandleStep
<1> DEFINE v == [c \in {"loop"} |-> Facts!View(c)]
<1>2. v["loop"] = view /\ v'["loop"] = view'
  BY DEF view
<1>3. v' = v /\ conv' = conv
  BY <1>1 DEF Facts!Log!vars, conv
<1> QED
  BY <1>1, <1>2, <1>3

LEMMA IdleMoves ==
  ASSUME Facts!SessionInv, UNCHANGED sessionVars
  PROVE  Facts!SessionInv' /\ conv' = conv /\ view' = view
<1>1. Facts!SessionInv' /\ UNCHANGED Facts!Log!vars
  BY Facts!IdleStep DEF sessionVars, Facts!vars
<1> DEFINE v == [c \in {"loop"} |-> Facts!View(c)]
<1>2. v["loop"] = view /\ v'["loop"] = view'
  BY DEF view
<1>3. v' = v /\ conv' = conv
  BY <1>1 DEF Facts!Log!vars, conv
<1> QED
  BY <1>1, <1>2, <1>3

-----------------------------------------------------------------------------
(* The order of the conversation.                                          *)

\* What the loop has yet to store in its current turn, by where it is.
Shape ==
  /\ pc = "storing" => outbox \subseteq TurnEvents
  /\ pc = "reporting" => outbox \subseteq {Record("response", i, answer[i]) : i \in Called}

\* A message of the call is of a turn that is over, or comes before all that
\* is still to be stored.
Behind(m) ==
  /\ pc \notin {"look", "system", "init"}
  /\ pc \in {"top", "fetch", "request", "stream", "streamed"} => m.turn < iteration
  /\ pc \in {"storing", "tools"} =>
       m.turn < iteration \/ (m.turn = iteration /\ m.kind # "response")
  /\ pc = "reporting" => m.turn <= iteration
  /\ pc \in {"storing", "reporting"} => \A e \in outbox : Precedes(m, e)

Ordered == \A i, j \in DOMAIN conv : i < j /\ Own(conv[i]) /\ Own(conv[j]) => Precedes(conv[i], conv[j])
Stored == \A i \in DOMAIN conv : conv[i].call <= call /\ (Own(conv[i]) => Behind(conv[i]))

HistInv == Facts!SessionInv /\ Shape /\ Ordered /\ Stored

\* What is first in the outbox precedes the rest of it.
LEMMA FirstPrecedes ==
  ASSUME LoopInv, Shape, pc \in {"storing", "reporting"},
         NEW e \in outbox, First(e), NEW d \in outbox \ {e}
  PROVE  Precedes(e, d)
<1>1. acc \subseteq 1 .. Width /\ Called \subseteq 1 .. Width /\ Width \in Nat
  BY LoopAssumption DEF LoopInv, LoopOK, Called
<1>2. e.index <= d.index
  BY DEF First
<1>3. CASE pc = "storing"
  <2>1. ASSUME NEW x \in outbox
        PROVE  /\ x.turn = iteration
               /\ \/ x = Simple("text") /\ x.kind = "text" /\ x.index = 0
                  \/ \E i \in acc : x = Record("request", i, "none") /\ x.kind = "request" /\ x.index = i
    <3>1. x \in TurnEvents
      BY <1>3 DEF Shape
    <3> QED
      BY <3>1 DEF TurnEvents, Simple, Record
  <2> HIDE DEF Simple, Record
  <2>2. iteration \in Nat
    BY LoopAssumption DEF LoopInv, LoopOK
  <2>3. CASE d.kind = "text"
    <3>1. e.kind = "text"
      BY <1>1, <1>2, <2>1, <2>3
    <3> QED
      BY <2>1, <2>3, <3>1
  <2>4. CASE d.kind = "request"
    <3>1. CASE e.kind = "text"
      BY <2>1, <2>2, <2>4, <3>1 DEF Precedes, Rank
    <3>2. CASE e.kind = "request"
      <4>1. e.index # d.index
        BY <2>1, <2>4, <3>2
      <4>2. e.index \in Nat /\ d.index \in Nat
        BY <1>1, <2>1
      <4>3. e.index < d.index
        BY <1>2, <4>1, <4>2
      <4> QED
        BY <2>1, <2>4, <3>2, <4>3 DEF Precedes, Rank
    <3> QED
      BY <2>1, <3>1, <3>2
  <2> QED
    BY <2>1, <2>3, <2>4
<1>4. CASE pc = "reporting"
  <2>1. ASSUME NEW x \in outbox
        PROVE  /\ x.turn = iteration /\ x.kind = "response"
               /\ \E i \in Called : x = Record("response", i, answer[i]) /\ x.index = i
    BY <1>4 DEF Shape, Record
  <2> HIDE DEF Record
  <2>2. e.index # d.index /\ e.index \in Nat /\ d.index \in Nat
    BY <1>1, <2>1
  <2>3. e.index < d.index
    BY <1>2, <2>2
  <2> QED
    BY <2>1, <2>3 DEF Precedes, Rank
<1> QED
  BY <1>3, <1>4

\* A conversation that stays, or is cleared, stays in order if the loop's
\* progress leaves its messages behind.
LEMMA SameKeeps ==
  ASSUME Facts!SessionInv, Ordered, Stored, conv' = conv \/ conv' = <<>>, call' = call,
         \A m \in Message : Own(m) /\ Behind(m) => Behind(m)'
  PROVE  Ordered' /\ Stored'
<1>1. CASE conv' = conv
  <2>1. \A m : Own(m)' <=> Own(m)
    BY DEF Own
  <2>2. \A m, n : Precedes(m, n)' <=> Precedes(m, n)
    BY DEF Precedes, Rank
  <2>3. \A i \in DOMAIN conv : conv[i] \in Message
    BY ConversationType
  <2> HIDE DEF conv
  <2>4. ASSUME NEW i \in DOMAIN conv', Own(conv'[i])
        PROVE  \A m : m = conv'[i] => Behind(m)'
    BY <1>1, <2>1, <2>3, <2>4 DEF Stored
  <2>5. Ordered'
    BY <1>1, <2>1, <2>2 DEF Ordered
  <2>6. Stored'
    BY <1>1, <2>1, <2>4 DEF Stored
  <2> QED
    BY <2>5, <2>6
<1>2. CASE conv' = <<>>
  BY <1>2 DEF Ordered, Stored
<1> QED
  BY <1>1, <1>2

\* So does one to which a message is added that comes after the call's others.
LEMMA PushKeepsOrder ==
  ASSUME Facts!SessionInv, Ordered, Stored, NEW e \in Message, conv' = Append(conv, e), call' = call,
         e.call <= call,
         Own(e) => Behind(e)',
         \A m \in Message : Own(m) /\ Behind(m) => Behind(m)' /\ (Own(e) => Precedes(m, e))
  PROVE  Ordered' /\ Stored'
<1>1. \A m : Own(m)' <=> Own(m)
  BY DEF Own
<1>2. \A m, n : Precedes(m, n)' <=> Precedes(m, n)
  BY DEF Precedes, Rank
<1>3. conv \in Seq(Message)
  BY ConversationType
<1> DEFINE n == Len(conv)
<1> HIDE DEF conv
<1>4. /\ n \in Nat /\ DOMAIN conv = 1 .. n /\ DOMAIN conv' = 1 .. n + 1
      /\ \A i \in 1 .. n : conv'[i] = conv[i] /\ conv[i] \in Message
      /\ conv'[n + 1] = e
  BY <1>3
<1> HIDE DEF n
<1>5. ASSUME NEW i \in 1 .. n + 1, NEW j \in 1 .. n + 1, i < j, Own(conv'[i]), Own(conv'[j])
      PROVE  Precedes(conv'[i], conv'[j])
  <2>1. i \in 1 .. n
    BY <1>4, <1>5
  <2>2. Behind(conv[i]) /\ conv[i] \in Message /\ conv'[i] = conv[i]
    BY <1>4, <1>5, <2>1 DEF Stored
  <2>3. CASE j \in 1 .. n
    BY <1>4, <1>5, <2>1, <2>3 DEF Ordered
  <2>4. CASE j = n + 1
    BY <1>4, <1>5, <2>2, <2>4
  <2> QED
    BY <1>4, <2>3, <2>4
<1>6. ASSUME NEW i \in 1 .. n + 1
      PROVE  /\ conv'[i].call <= call
             /\ Own(conv'[i]) => \A m : m = conv'[i] => Behind(m)'
  <2>1. CASE i \in 1 .. n
    BY <1>4, <2>1 DEF Stored
  <2>2. CASE i = n + 1
    BY <1>4, <2>2
  <2> QED
    BY <1>4, <2>1, <2>2
<1>7. Ordered'
  BY <1>1, <1>2, <1>4, <1>5 DEF Ordered
<1>8. Stored'
  BY <1>1, <1>4, <1>6 DEF Stored
<1> QED
  BY <1>7, <1>8

LEMMA StepHist ==
  ASSUME LoopInv, HistInv, [Next]_vars
  PROVE  HistInv'
<1> USE LoopAssumption
<1>0. /\ LoopOK /\ OutboxOK /\ Facts!SessionInv /\ Shape /\ Ordered /\ Stored
      /\ iteration \in Nat /\ call \in Nat
      /\ \A m \in Message : m.turn \in Nat /\ m.call \in Nat
      /\ \A e \in outbox : pc \in {"storing", "reporting"} => e.turn = iteration /\ e.turn \in Nat
  BY DEF LoopInv, LoopOK, OutboxOK, HistInv, Message, Records
\* Nothing that was stored before belongs to the call that starts.
<1>1. CASE Send
  <2>1. Facts!SessionInv' /\ conv' = conv
    BY <1>0, <1>1, FetchMoves, IdleMoves DEF Send
  <2>2. Shape'
    BY <1>1 DEF Send, Shape
  <2>3. call' = call + 1
    BY <1>1 DEF Send
  <2>4. \A i \in DOMAIN conv : conv[i].call < call' /\ conv[i].call <= call'
    <3>1. \A i \in DOMAIN conv : conv[i] \in Message
      BY <1>0, ConversationType
    <3> QED
      BY <1>0, <2>3, <3>1 DEF Stored
  <2>5. \A m : m.call < call' => ~Own(m)'
    BY <1>0, <2>3 DEF Own
  <2> HIDE DEF conv
  <2>6. Ordered' /\ Stored'
    BY <2>1, <2>4, <2>5 DEF Ordered, Stored
  <2> QED
    BY <2>1, <2>2, <2>6 DEF HistInv
\* The system prompt and the user's message are none of the call's turns.
<1>2. CASE PushSystem \/ PushInit
  <2>1. PICK kind \in {"system", "user"} : Session!PushMessages(Simple(kind))
    BY <1>2 DEF PushSystem, PushInit
  <2> DEFINE e == Simple(kind)
  <2>2. e \in Message /\ e.call = call /\ ~Own(e)
    <3>1. pc # "idle" /\ kind \in Kinds
      BY <1>2 DEF PushSystem, PushInit, Goto, Kinds
    <3> QED
      BY <1>0, <3>1, SimpleTyped DEF Message, Own, Turned, Simple, Record
  <2>3. Facts!SessionInv' /\ conv' = Append(conv, e)
    BY <1>0, <2>1, <2>2, PushMoves
  <2> HIDE DEF e
  <2>4. call' = call /\ Shape' /\ pc \in {"system", "init"} /\ UNCHANGED <<iteration, outbox>>
    BY <1>2 DEF PushSystem, PushInit, Goto, callVars, turnVars, Shape
  <2>5. \A m \in Message : Own(m) /\ Behind(m) => Behind(m)' /\ (Own(e) => Precedes(m, e))
    BY <2>2, <2>4 DEF Behind
  <2>6. Ordered' /\ Stored'
    BY <1>0, <2>2, <2>3, <2>4, <2>5, PushKeepsOrder
  <2> QED
    BY <2>3, <2>4, <2>6 DEF HistInv
\* An event that is stored comes after the messages of the turns before, and
\* before the rest of the outbox.
<1>3. CASE Filter
  <2>1. PICK e \in outbox : Pass(e) \/ Block(e)
    BY <1>3 DEF Filter
  <2>2. /\ call' = call /\ pc' = pc /\ UNCHANGED <<iteration, text, acc, finish, answer>>
        /\ outbox' = outbox \ {e} /\ pc \in {"storing", "reporting", "leaving"}
        /\ First(e)
    BY <1>0, <2>1 DEF Pass, Block, callVars, turnVars, streamVars, OutboxOK
  <2>3. Shape'
    BY <1>0, <2>2 DEF Shape, TurnEvents, Simple, Record, Called, Continues
  <2>4. \A m, n : Precedes(m, n)' <=> Precedes(m, n)
    BY DEF Precedes, Rank
  <2>5. \A m \in Message : Own(m) /\ Behind(m) => Behind(m)'
    BY <2>2, <2>4 DEF Behind
  <2>6. CASE UNCHANGED sessionVars
    <3>1. Facts!SessionInv' /\ conv' = conv
      BY <1>0, <2>6, IdleMoves
    <3> QED
      BY <1>0, <2>2, <2>3, <2>5, <3>1, SameKeeps DEF HistInv
  <2>7. CASE e.kind \in Kinds /\ Session!PushMessages(e)
    <3>1. /\ e \in Message /\ e.call = call /\ e.turn = iteration
          /\ pc \in {"storing", "reporting"}
          /\ pc = "storing" => e.kind # "response"
      <4>1. pc \in {"storing", "reporting"}
        BY <1>0, <2>2, <2>7 DEF OutboxOK, Simple, Record, Kinds
      <4>2. e.call = call /\ (pc = "storing" => e.kind # "response")
        BY <1>0, <4>1 DEF Shape, TurnEvents, Simple, Record
      <4>3. e \in Message
        BY <1>0, <2>7 DEF OutboxOK, Event, Message, Records
      <4> QED
        BY <1>0, <4>1, <4>2, <4>3
    <3>2. Facts!SessionInv' /\ conv' = Append(conv, e)
      BY <1>0, <2>7, <3>1, PushMoves
    <3>3. \A d \in outbox' : Precedes(e, d)
      BY <1>0, <2>2, <3>1, FirstPrecedes
    <3>4. Behind(e)'
      BY <1>0, <2>2, <2>4, <3>1, <3>3 DEF Behind
    <3>5. \A m \in Message : Behind(m) => Precedes(m, e)
      BY <3>1 DEF Behind
    <3>6. Ordered' /\ Stored'
      BY <1>0, <2>2, <2>5, <3>1, <3>2, <3>4, <3>5, PushKeepsOrder
    <3> QED
      BY <2>3, <3>2, <3>6 DEF HistInv
  <2> QED
    BY <2>1, <2>6, <2>7 DEF Pass, Block
\* What else moves the loop leaves the messages behind.
<1>4. CASE \/ Wait \/ Looked \/ Exhausted \/ Fetch \/ Fetched \/ Store \/ TurnFinish \/ Report
           \/ EndTurn \/ CancelExit \/ Leave \/ Provider
           \/ Cancel \/ Clear \/ SessionActor
           \/ \E i \in 1 .. Width : ToolAnswer(i)
           \/ UNCHANGED vars
  <2>1. Facts!SessionInv' /\ (conv' = conv \/ conv' = <<>>)
    <3>1. \/ UNCHANGED sessionVars \/ Session!FetchContext("loop") \/ Session!Receive("loop")
          \/ Session!Clear \/ Session!Handle
      BY <1>4 DEF Wait, Looked, Exhausted, Fetch, Fetched, Store, TurnFinish, Report, EndTurn,
         CancelExit,
                  Leave, Provider, RequestOpened, Error, Chunk, StreamEnd, Cancel, Clear, SessionActor,
                  ToolAnswer, vars
    <3> QED
      BY <1>0, <3>1, IdleMoves, FetchMoves, ReceiveMoves, ClearMoves, HandleMoves
  <2>2. call' = call
    BY <1>4 DEF Wait, Looked, Exhausted, Fetch, Fetched, Store, TurnFinish, Report, EndTurn, CancelExit,
                Leave, Provider, RequestOpened, Error, Chunk, StreamEnd, Cancel, Clear, SessionActor,
                ToolAnswer, vars, callVars
  <2>3. Shape'
    <3>1. CASE Store \/ Report
      BY <3>1 DEF Store, Report, Goto, callVars, turnVars, streamVars, Shape, TurnEvents, Simple,
         Record,
                  Called, Continues
    <3>2. CASE \/ Wait \/ Looked \/ Exhausted \/ Fetch \/ Fetched \/ TurnFinish \/ EndTurn
               \/ CancelExit \/ Leave \/ Provider \/ \E i \in 1 .. Width : ToolAnswer(i)
      BY <3>2 DEF Wait, Looked, Exhausted, Fetch, Fetched, TurnFinish, EndTurn, CancelExit, Leave,
         Provider,
                  RequestOpened, Error, Chunk, StreamEnd, ToolAnswer, Goto, Shape
    <3>3. CASE Cancel \/ Clear \/ SessionActor \/ UNCHANGED vars
      BY <1>0, <3>3 DEF Cancel, Clear, SessionActor, vars, callVars, turnVars, streamVars, Shape,
         TurnEvents,
                        Simple, Record, Called, Continues
    <3> QED
      BY <1>4, <3>1, <3>2, <3>3
  <2>4. ASSUME NEW m \in Message, Own(m), Behind(m) PROVE Behind(m)'
    <3>1. CASE Store
      <4>1. \A e \in TurnEvents : Precedes(m, e)
        BY <1>0, <2>4, <3>1 DEF Store, Goto, Behind, TurnEvents, Simple, Record, Precedes
      <4>2. pc' = "storing" /\ outbox' = TurnEvents /\ pc = "streamed" /\ UNCHANGED iteration
        BY <3>1 DEF Store, Goto, turnVars
      <4>3. \A e \in outbox' : Precedes(m, e)'
        BY <4>1, <4>2 DEF Precedes, Rank
      <4> QED
        BY <2>4, <4>2, <4>3 DEF Behind
    <3>2. CASE Report
      <4>1. pc' = "reporting" /\ pc = "tools" /\ UNCHANGED iteration
            /\ outbox' = {Record("response", i, answer[i]) : i \in Called}
        BY <3>2 DEF Report, Goto, turnVars
      <4>2. \A e \in outbox' : e.turn = iteration /\ e.kind = "response"
        BY <4>1 DEF Record
      <4>3. m.turn < iteration \/ (m.turn = iteration /\ m.kind \in {"text", "request"})
        BY <2>4, <4>1 DEF Behind, Own, Turned
      <4>4. \A e \in outbox' : Precedes(m, e)'
        BY <4>2, <4>3 DEF Precedes, Rank
      <4> QED
        BY <1>0, <2>4, <4>1, <4>3, <4>4 DEF Behind
    <3>3. CASE EndTurn
      <4>1. pc = "reporting" /\ (pc' = "done" \/ (pc' = "top" /\ iteration' = iteration + 1))
        BY <3>3 DEF EndTurn
      <4> QED
        BY <1>0, <2>4, <4>1 DEF Behind
    <3>4. CASE \/ Wait \/ Looked \/ Exhausted \/ Fetch \/ Fetched \/ TurnFinish
               \/ CancelExit \/ Leave \/ Provider
      BY <1>0, <2>4, <3>4 DEF Wait, Looked, Exhausted, Fetch, Fetched, TurnFinish, CancelExit,
         Leave, Provider,
              RequestOpened, Error, Chunk, StreamEnd, Goto, turnVars, Behind
    <3>5. CASE \/ Cancel \/ Clear \/ SessionActor \/ UNCHANGED vars
               \/ \E i \in 1 .. Width : ToolAnswer(i)
      <4>1. UNCHANGED <<pc, iteration, outbox>>
        BY <3>5 DEF Cancel, Clear, SessionActor, ToolAnswer, turnVars, vars
      <4>2. \A e : Precedes(m, e)' <=> Precedes(m, e)
        BY DEF Precedes, Rank
      <4> QED
        BY <2>4, <4>1, <4>2 DEF Behind
    <3> QED
      BY <1>4, <3>1, <3>2, <3>3, <3>4, <3>5
  <2>5. Ordered' /\ Stored'
    BY <1>0, <2>1, <2>2, <2>4, SameKeeps
  <2> QED
    BY <2>1, <2>3, <2>5 DEF HistInv
<1> QED
  BY <1>1, <1>2, <1>3, <1>4 DEF Next, Loop

LEMMA InitHist == Init => HistInv
<1> SUFFICES ASSUME Init PROVE HistInv
  OBVIOUS
<1>1. Facts!SessionInv /\ conv = <<>>
  BY InitMoves DEF Init
<1>2. pc = "idle"
  BY DEF Init
<1> HIDE DEF conv
<1> QED
  BY <1>1, <1>2 DEF HistInv, Shape, Ordered, Stored

\* The turns of a call are in the session in order, whatever the order of the
\* stream's deltas and of the tools' answers.
THEOREM HistoryAlwaysOrdered == Spec => []HistoryOrdered
<1>1. Init => HistInv
  BY InitHist
<1>2. LoopInv /\ HistInv /\ [Next]_vars => HistInv'
  BY StepHist
<1>3. HistInv => HistoryOrdered
  BY SameConversation DEF HistInv, Ordered, HistoryOrdered
<1> QED
  BY <1>1, <1>2, <1>3, LoopInvariant, PTL DEF Spec

-----------------------------------------------------------------------------
(* The system prompt.                                                      *)

One(ms) == {i \in DOMAIN ms : ms[i].kind = "system"} = {1}
Asks(ms) == \E i \in DOMAIN ms : ms[i].kind = "user" /\ ms[i].call = call

\* Between calls the conversation is empty or opens with the one prompt; from
\* PushInit on it also holds the message of the call.  What the loop looks at
\* and sends is the whole of it.
SystemInv ==
  /\ Facts!SessionInv
  /\ HasSystem /\ ~MidCallClear =>
       /\ pc \in {"idle", "look"} => conv = <<>> \/ One(conv)
       /\ pc = "system" => conv = <<>>
       /\ pc \notin {"idle", "look", "system"} => One(conv)
       /\ pc \notin {"idle", "look", "system", "init"} => Asks(conv)
       /\ pc \in {"look", "fetch"} => view = conv
       /\ pc = "request" => One(context) /\ Asks(context)

LEMMA OneMore ==
  ASSUME NEW ms \in Seq(Message), NEW m \in Message, One(ms), m.kind # "system"
  PROVE  One(Append(ms, m)) /\ (Asks(ms) => Asks(Append(ms, m)))
<1> DEFINE more == Append(ms, m)
           n == Len(ms)
<1>1. /\ n \in Nat /\ DOMAIN ms = 1 .. n /\ DOMAIN more = 1 .. n + 1
      /\ \A i \in 1 .. n : more[i] = ms[i]
      /\ more[n + 1] = m
  OBVIOUS
<1> HIDE DEF more, n
<1>2. {i \in DOMAIN more : more[i].kind = "system"} = {i \in DOMAIN ms : ms[i].kind = "system"}
  <2>1. \A i : i \in 1 .. n + 1 <=> i \in 1 .. n \/ i = n + 1
    BY <1>1
  <2> QED
    BY <1>1, <2>1
<1>3. One(more)
  BY <1>2 DEF One
<1>4. Asks(ms) => Asks(more)
  BY <1>1 DEF Asks
<1> QED
  BY <1>3, <1>4 DEF more

LEMMA StepSystem ==
  ASSUME LoopInv, SystemInv, [Next]_vars
  PROVE  SystemInv'
<1> USE LoopAssumption
<1>0. LoopOK /\ OutboxOK /\ Facts!SessionInv /\ conv \in Seq(Message)
  BY ConversationType DEF LoopInv, SystemInv
<1> SUFFICES ASSUME HasSystem, ~MidCallClear
             PROVE  SystemInv'
  <2>1. Facts!SessionInv'
    <3>1. \/ UNCHANGED sessionVars \/ Session!FetchContext("loop") \/ Session!Receive("loop")
          \/ Session!Clear \/ Session!Handle
          \/ \E m \in Message : Session!PushMessages(m)
      <4>1. CASE PushSystem \/ PushInit
        BY <1>0, <4>1, SimpleTyped DEF PushSystem, PushInit, Goto, Message, Kinds
      <4>2. CASE Filter
        BY <1>0, <4>2 DEF Filter, Pass, Block, OutboxOK, Event, Message, Records
      <4> QED
        BY <4>1, <4>2
           DEF Next, Loop, Provider, Send, Wait, Looked, Exhausted, Fetch, Fetched, Store, TurnFinish,
               Report, EndTurn, CancelExit, Leave, RequestOpened, Error, Chunk, StreamEnd, Cancel,
               Clear, SessionActor, ToolAnswer, vars
    <3> QED
      BY <1>0, <3>1, IdleMoves, FetchMoves, ReceiveMoves, ClearMoves, HandleMoves, PushMoves
  <2> QED
    BY <2>1 DEF SystemInv
<1>1. \A ms : One(ms)' <=> One(ms)
  BY DEF One
<1>2. call' = call => \A ms : Asks(ms)' <=> Asks(ms)
  BY DEF Asks
<1>3. CASE Send
  <2>1. Facts!SessionInv' /\ conv' = conv /\ view' = conv
    BY <1>0, <1>3, FetchMoves DEF Send
  <2> QED
    BY <1>1, <1>3, <2>1 DEF Send, SystemInv
<1>4. CASE Looked
  <2>1. Facts!SessionInv' /\ conv' = conv /\ reply["loop"] = conv
    BY <1>0, <1>4, ReceiveMoves DEF Looked, SystemInv
  <2> QED
    BY <1>1, <1>4, <2>1 DEF Looked, SystemInv
\* The prompt is pushed to an empty conversation.
<1>5. CASE PushSystem
  <2>1. Simple("system") \in Message /\ Simple("system").kind = "system"
    BY <1>0, <1>5, SimpleTyped DEF PushSystem, Goto, Message, Kinds, Simple, Record
  <2>2. Facts!SessionInv' /\ conv' = Append(conv, Simple("system")) /\ conv = <<>>
    BY <1>0, <1>5, <2>1, PushMoves DEF PushSystem, Goto, SystemInv
  <2> HIDE DEF Simple, conv
  <2>3. One(Append(<<>>, Simple("system")))
    BY <2>1 DEF One
  <2> QED
    BY <1>1, <1>5, <2>2, <2>3 DEF PushSystem, Goto, SystemInv
<1>6. CASE PushInit
  <2>1. Simple("user") \in Message /\ Simple("user").kind = "user" /\ Simple("user").call = call
    BY <1>0, <1>6, SimpleTyped DEF PushInit, Goto, Message, Kinds, Simple, Record
  <2>2. Facts!SessionInv' /\ conv' = Append(conv, Simple("user")) /\ One(conv)
    BY <1>0, <1>6, <2>1, PushMoves DEF PushInit, Goto, SystemInv
  <2> HIDE DEF Simple, conv
  <2>3. One(Append(conv, Simple("user")))
    BY <1>0, <2>1, <2>2, OneMore
  <2>4. Asks(Append(conv, Simple("user")))
    <3> DEFINE more == Append(conv, Simple("user"))
               last == Len(conv) + 1
    <3>1. last \in DOMAIN more /\ more[last] = Simple("user")
      BY <1>0
    <3> HIDE DEF more, last
    <3>2. Asks(more)
      BY <2>1, <3>1 DEF Asks
    <3> QED
      BY <3>2 DEF more
  <2>5. call' = call /\ pc' = "top"
    BY <1>6 DEF PushInit, Goto, callVars
  <2> QED
    BY <1>1, <1>2, <2>2, <2>3, <2>4, <2>5 DEF SystemInv
<1>7. CASE Fetch
  <2>1. Facts!SessionInv' /\ conv' = conv /\ view' = conv
    BY <1>0, <1>7, FetchMoves DEF Fetch
  <2> QED
    BY <1>1, <1>2, <1>7, <2>1 DEF Fetch, Goto, callVars, SystemInv
<1>8. CASE Fetched
  <2>1. Facts!SessionInv' /\ conv' = conv /\ context' = conv
    BY <1>0, <1>8, ReceiveMoves DEF Fetched, Goto, SystemInv
  <2> QED
    BY <1>1, <1>2, <1>8, <2>1 DEF Fetched, Goto, callVars, SystemInv
\* The session is cleared between calls only.
<1>9. CASE Clear
  <2>1. Facts!SessionInv' /\ conv' = <<>>
    BY <1>0, <1>9, ClearMoves DEF Clear
  <2> QED
    BY <1>9, <2>1 DEF Clear, SystemInv
\* What the turns store is no prompt.
<1>10. CASE Filter
  <2>1. PICK e \in outbox : Pass(e) \/ Block(e)
    BY <1>10 DEF Filter
  <2>2. pc \in {"storing", "reporting", "leaving"} /\ pc' = pc /\ call' = call
    BY <1>0, <2>1 DEF Pass, Block, callVars, OutboxOK
  <2>3. CASE UNCHANGED sessionVars
    BY <1>0, <1>1, <1>2, <2>2, <2>3, IdleMoves DEF SystemInv
  <2>4. CASE e.kind \in Kinds /\ Session!PushMessages(e)
    <3>1. e \in Message /\ e.kind # "system"
      BY <1>0, <2>2, <2>4 DEF OutboxOK, Turned, Simple, Record, Kinds, Event, Message, Records
    <3>2. Facts!SessionInv' /\ conv' = Append(conv, e)
      BY <1>0, <2>4, <3>1, PushMoves
    <3>3. One(conv) /\ Asks(conv)
      BY <2>2 DEF SystemInv
    <3>4. One(Append(conv, e)) /\ Asks(Append(conv, e))
      BY <1>0, <3>1, <3>3, OneMore
    <3> QED
      BY <1>1, <1>2, <2>2, <3>2, <3>4 DEF SystemInv
  <2> QED
    BY <2>1, <2>3, <2>4 DEF Pass, Block
<1>11. CASE SessionActor
  <2>1. Facts!SessionInv' /\ conv' = conv /\ view' = view
    BY <1>0, <1>11, HandleMoves DEF SessionActor
  <2> QED
    BY <1>1, <1>2, <1>11, <2>1 DEF SessionActor, callVars, turnVars, SystemInv
<1>12. CASE \/ Wait \/ Exhausted \/ Store \/ TurnFinish \/ Report \/ EndTurn \/ CancelExit \/ Leave
            \/ Provider \/ Cancel \/ UNCHANGED vars
            \/ \E i \in 1 .. Width : ToolAnswer(i)
  <2>1. UNCHANGED sessionVars /\ UNCHANGED <<call, context>>
    BY <1>12 DEF Wait, Exhausted, Store, TurnFinish, Report, EndTurn, CancelExit, Leave, Provider,
                 RequestOpened, Error, Chunk, StreamEnd, Cancel, ToolAnswer, vars, callVars, turnVars
  <2>2. Facts!SessionInv' /\ conv' = conv /\ view' = view
    BY <1>0, <2>1, IdleMoves
  <2>3. \/ pc' = pc
        \/ pc \notin {"idle", "look", "system", "init"} /\ pc' \notin {"look", "system", "init", "fetch", "request"}
    BY <1>12 DEF Wait, Exhausted, Store, TurnFinish, Report, EndTurn, CancelExit, Leave, Provider,
                 RequestOpened, Error, Chunk, StreamEnd, Cancel, ToolAnswer, vars, Goto, Checkpoint
  <2> QED
    BY <1>1, <1>2, <2>1, <2>2, <2>3 DEF SystemInv
<1> QED
  BY <1>3, <1>4, <1>5, <1>6, <1>7, <1>8, <1>9, <1>10, <1>11, <1>12 DEF Next, Loop

\* The system prompt opens every request, once, and the message of the call is
\* in it.
THEOREM SystemPromptAlwaysFirst == Spec => []SystemPromptFirst
<1>1. Init => SystemInv
  BY InitMoves DEF Init, SystemInv
<1>2. LoopInv /\ SystemInv /\ [Next]_vars => SystemInv'
  BY StepSystem
<1>3. SystemInv => SystemPromptFirst
  BY DEF SystemInv, SystemPromptFirst, One, Asks
<1> QED
  BY <1>1, <1>2, <1>3, LoopInvariant, PTL DEF Spec

-----------------------------------------------------------------------------
(* What merging makes of a request.                                        *)

CallIds == [call : 1 .. MaxCalls, turn : 0 .. MaxIterations, index : 0 .. Width]
Roles == {"assistant", "tool"} \cup Kinds
Jsons == [role : Roles, content : {"absent", "text", "null"},
          tool_calls : Seq(CallIds), tool_call_id : CallIds \cup {Nothing}]

\* Before merging a message has at most one tool call.
Singles == {js \in Seq(Jsons) : \A i \in DOMAIN js : Calling(js[i]) => Len(js[i].tool_calls) = 1}

\* out is the message js[q], no tool call, or has the tool calls js[p + 1] to
\* js[q].
Made(out, js, p, q) ==
  \/ q = p + 1 /\ ~Calling(js[q]) /\ out = js[q]
  \/ /\ \A k \in p + 1 .. q : Calling(js[k])
     /\ out.role = "assistant" /\ out.content = "null"
     /\ Len(out.tool_calls) = q - p
     /\ \A k \in 1 .. q - p : out.tool_calls[k] = js[p + k].tool_calls[1]

\* Message i of out is made of what lies between ends[i - 1] and ends[i] in the
\* first n of js, and tool calls that follow one another are in one message.
Grouped(out, js, n, ends) ==
  /\ out \in Seq(Jsons)
  /\ ends \in [0 .. Len(out) -> 0 .. n]
  /\ ends[0] = 0 /\ ends[Len(out)] = n
  /\ \A i \in 1 .. Len(out) : ends[i - 1] < ends[i] /\ Made(out[i], js, ends[i - 1], ends[i])
  /\ \A i \in 1 .. Len(out) : i + 1 \in 1 .. Len(out) => ~(Calling(out[i]) /\ Calling(out[i + 1]))

LEMMA JoinBoth ==
  ASSUME NEW S, NEW s \in Seq(S), NEW t \in Seq(S)
  PROVE  /\ Len(s \o t) = Len(s) + Len(t)
         /\ \A k \in 1 .. Len(s) + Len(t) : (s \o t)[k] = IF k <= Len(s) THEN s[k] ELSE t[k - Len(s)]
  OBVIOUS

LEMMA JoinOne ==
  ASSUME NEW S, NEW s \in Seq(S), NEW t \in Seq(S), Len(t) = 1
  PROVE  /\ Len(s \o t) = Len(s) + 1
         /\ \A k \in 1 .. Len(s) : (s \o t)[k] = s[k]
         /\ (s \o t)[Len(s) + 1] = t[1]
<1>1. /\ Len(s \o t) = Len(s) + Len(t)
      /\ \A k \in 1 .. Len(s) + Len(t) : (s \o t)[k] = IF k <= Len(s) THEN s[k] ELSE t[k - Len(s)]
  BY JoinBoth
<1>2. Len(s) \in Nat
  OBVIOUS
<1>3. Len(s \o t) = Len(s) + 1
  BY <1>1
<1>4. (s \o t)[Len(s) + 1] = t[1]
  <2>1. Len(s) + 1 \in 1 .. Len(s) + Len(t) /\ ~(Len(s) + 1 <= Len(s)) /\ (Len(s) + 1) - Len(s) = 1
    BY <1>2
  <2> QED
    BY <1>1, <2>1
<1>5. \A k \in 1 .. Len(s) : (s \o t)[k] = s[k]
  BY <1>1, <1>2
<1> QED
  BY <1>3, <1>4, <1>5

LEMMA MergeType ==
  ASSUME NEW out \in Seq(Jsons), NEW j \in Jsons
  PROVE  Merge(out, j) \in Seq(Jsons)
<1>1. CASE ~Calling(j)
  BY <1>1 DEF Merge
<1>2. CASE Calling(j) /\ out # <<>> /\ Calling(Last(out))
  <2>1. Len(out) \in DOMAIN out /\ out[Len(out)] \in Jsons
    BY <1>2
  <2>2. out[Len(out)].tool_calls \o j.tool_calls \in Seq(CallIds)
    BY <2>1 DEF Jsons
  <2>3. [out[Len(out)] EXCEPT !.tool_calls = @ \o j.tool_calls] \in Jsons
    BY <2>1, <2>2 DEF Jsons
  <2> QED
    BY <1>2, <2>1, <2>3 DEF Merge
<1>3. CASE Calling(j) /\ ~(out # <<>> /\ Calling(Last(out)))
  <2>1. [j EXCEPT !.content = "null"] \in Jsons
    BY DEF Jsons
  <2> QED
    BY <1>3, <2>1 DEF Merge
<1> QED
  BY <1>1, <1>2, <1>3

\* One more message joins the last tool calls, or is put behind them.
LEMMA GroupMore ==
  ASSUME NEW js \in Singles, NEW n \in Nat, n + 1 \in DOMAIN js, NEW out, NEW ends, Grouped(out, js, n, ends)
  PROVE  \E more : Grouped(Merge(out, js[n + 1]), js, n + 1, more)
<1> DEFINE j == js[n + 1]
           new == Merge(out, j)
           m == Len(out)
<1>1. j \in Jsons /\ (Calling(j) => Len(j.tool_calls) = 1)
  BY DEF Singles
<1>2. out \in Seq(Jsons) /\ m \in Nat /\ DOMAIN out = 1 .. m /\ new \in Seq(Jsons)
  BY <1>1, MergeType DEF Grouped
<1>3. /\ ends \in [0 .. m -> 0 .. n] /\ ends[0] = 0 /\ ends[m] = n
      /\ \A i \in 1 .. m : ends[i - 1] < ends[i] /\ Made(out[i], js, ends[i - 1], ends[i])
      /\ \A i \in 1 .. m : i + 1 \in 1 .. m => ~(Calling(out[i]) /\ Calling(out[i + 1]))
  BY DEF Grouped
<1>4. out # <<>> => Last(out) = out[m] /\ m \in 1 .. m
  BY <1>2 DEF Last
<1> HIDE DEF m
<1>5. CASE Calling(j) /\ out # <<>> /\ Calling(out[m])
  <2> DEFINE big == [out[m] EXCEPT !.tool_calls = @ \o j.tool_calls]
             more == [ends EXCEPT ![m] = n + 1]
  <2>0. m \in 1 .. m /\ m - 1 \in 0 .. m - 1 /\ m \in 0 .. m /\ 0 \in 0 .. m /\ m # 0
    BY <1>2, <1>4, <1>5
  <2>1. new = [out EXCEPT ![m] = big]
    BY <1>4, <1>5 DEF Merge, m
  <2>2. Len(new) = m /\ new[m] = big /\ \A i \in 1 .. m - 1 : new[i] = out[i]
    BY <1>2, <1>4, <1>5, <2>1 DEF m
  <2>3. /\ more \in [0 .. m -> 0 .. n + 1] /\ more[0] = 0 /\ more[m] = n + 1
        /\ \A i \in 0 .. m - 1 : more[i] = ends[i] /\ i <= m
    <3>1. n + 1 \in 0 .. n + 1 /\ \A i \in 0 .. m : ends[i] \in 0 .. n + 1
      BY <1>3
    <3>2. DOMAIN ends = 0 .. m
      BY <1>3
    <3>3. more[m] = n + 1 /\ DOMAIN more = 0 .. m /\ \A i \in 0 .. m : i # m => more[i] = ends[i]
      BY <2>0, <3>2
    <3> HIDE DEF more
    <3>4. \A i \in 0 .. m - 1 : i \in 0 .. m /\ i # m /\ i <= m
      BY <1>2
    <3>5. more = [i \in 0 .. m |-> more[i]]
      <4>1. [ends EXCEPT ![m] = n + 1] = [i \in 0 .. m |-> [ends EXCEPT ![m] = n + 1][i]]
        BY <3>2
      <4> QED
        BY <4>1 DEF more
    <3>6. \A i \in 0 .. m : more[i] \in 0 .. n + 1
      BY <3>1, <3>3
    <3> QED
      BY <1>3, <2>0, <3>3, <3>4, <3>5, <3>6
  <2> DEFINE p == ends[m - 1]
  <2>4. /\ p \in 0 .. n /\ p < n
        /\ \A k \in p + 1 .. n : Calling(js[k])
        /\ out[m].role = "assistant" /\ out[m].content = "null"
        /\ Len(out[m].tool_calls) = n - p
        /\ \A k \in 1 .. n - p : out[m].tool_calls[k] = js[p + k].tool_calls[1]
    <3>1. m - 1 \in 0 .. m
      BY <1>4, <1>5
    <3>2. Made(out[m], js, p, n) /\ p < n /\ p \in 0 .. n
      BY <1>3, <1>4, <1>5, <3>1
    <3> QED
      BY <1>5, <3>2 DEF Made
  <2>5. out[m] \in Jsons /\ out[m].tool_calls \in Seq(CallIds) /\ j.tool_calls \in Seq(CallIds)
    <3>1. out[m] \in Jsons
      BY <1>2, <2>0
    <3> QED
      BY <1>1, <3>1 DEF Jsons
  <2>6. /\ big.role = "assistant" /\ big.content = "null"
        /\ big.tool_calls = out[m].tool_calls \o j.tool_calls
    BY <2>4, <2>5 DEF Jsons
  <2>7. /\ Len(big.tool_calls) = (n + 1) - p
        /\ \A k \in 1 .. (n + 1) - p : big.tool_calls[k] = js[p + k].tool_calls[1]
    <3>1. Len(j.tool_calls) = 1
      BY <1>1, <1>5
    <3> DEFINE old == out[m].tool_calls
    <3>4. old \in Seq(CallIds) /\ j.tool_calls \in Seq(CallIds) /\ big.tool_calls = old \o j.tool_calls
      BY <2>5, <2>6
    <3>5. /\ Len(old) = n - p /\ p \in Nat /\ p < n
          /\ \A k \in 1 .. n - p : old[k] = js[p + k].tool_calls[1]
      BY <2>4
    <3>6. js[n + 1] = j
      OBVIOUS
    <3> HIDE DEF old, p, big, j
    <3>7. /\ Len(old \o j.tool_calls) = Len(old) + 1
          /\ \A k \in 1 .. Len(old) : (old \o j.tool_calls)[k] = old[k]
          /\ (old \o j.tool_calls)[Len(old) + 1] = j.tool_calls[1]
      BY <3>1, <3>4, JoinOne
    <3>2. Len(old \o j.tool_calls) = (n + 1) - p
      BY <3>5, <3>7
    <3>3. ASSUME NEW k \in 1 .. (n + 1) - p PROVE (old \o j.tool_calls)[k] = js[p + k].tool_calls[1]
      <4>1. CASE k \in 1 .. n - p
        BY <3>5, <3>7, <4>1
      <4>2. CASE k = (n - p) + 1
        <5>1. p + k = n + 1 /\ k = Len(old) + 1
          BY <3>5, <4>2
        <5> QED
          BY <3>6, <3>7, <5>1
      <4>3. k \in 1 .. n - p \/ k = (n - p) + 1
        BY <3>5
      <4> QED
        BY <4>1, <4>2, <4>3
    <3> QED
      BY <3>2, <3>3, <3>4
  <2>8. Made(new[m], js, p, n + 1)
    <3>1. \A k \in p + 1 .. n + 1 : Calling(js[k])
      BY <1>5, <2>4
    <3> HIDE DEF big, new, p
    <3> QED
      BY <2>2, <2>6, <2>7, <3>1 DEF Made
  <2>9. Calling(new[m])
    <3>1. big.tool_calls # <<>>
      BY <2>7, <2>4, <2>5, <2>6
    <3> QED
      BY <2>2, <2>6, <3>1 DEF Calling
  <2> HIDE DEF new, big, more
  <2>10. \A i \in 1 .. m : more[i - 1] < more[i] /\ Made(new[i], js, more[i - 1], more[i])
    <3> SUFFICES ASSUME NEW i \in 1 .. m PROVE more[i - 1] < more[i] /\ Made(new[i], js, more[i - 1], more[i])
      OBVIOUS
    <3>1. CASE i = m
      <4>1. more[i - 1] = p /\ more[i] = n + 1
        BY <2>0, <2>3, <3>1
      <4> HIDE DEF p
      <4> QED
        BY <2>4, <2>8, <3>1, <4>1
    <3>2. CASE i \in 1 .. m - 1
      <4>1. i - 1 \in 0 .. m - 1 /\ i \in 0 .. m - 1
        BY <1>2, <3>2
      <4> QED
        BY <1>3, <2>2, <2>3, <3>2, <4>1
    <3> QED
      BY <1>2, <3>1, <3>2
  <2>11. \A i \in 1 .. m : i + 1 \in 1 .. m => ~(Calling(new[i]) /\ Calling(new[i + 1]))
    <3> SUFFICES ASSUME NEW i \in 1 .. m, i + 1 \in 1 .. m PROVE ~(Calling(new[i]) /\ Calling(new[i + 1]))
      OBVIOUS
    <3>1. i \in 1 .. m - 1 /\ new[i] = out[i]
      BY <1>2, <2>2
    <3>2. CASE i + 1 = m
      BY <1>3, <1>5, <3>1, <3>2
    <3>3. CASE i + 1 \in 1 .. m - 1
      BY <1>3, <2>2, <3>1, <3>3
    <3> QED
      BY <1>2, <3>2, <3>3
  <2> QED
    BY <1>2, <2>2, <2>3, <2>10, <2>11 DEF Grouped, new, j
<1>6. CASE ~(Calling(j) /\ out # <<>> /\ Calling(out[m]))
  <2> DEFINE last == IF Calling(j) THEN [j EXCEPT !.content = "null"] ELSE j
             more == [i \in 0 .. m + 1 |-> IF i <= m THEN ends[i] ELSE n + 1]
  <2>1. new = Append(out, last)
    BY <1>4, <1>6 DEF Merge, m
  <2>2. Len(new) = m + 1 /\ new[m + 1] = last /\ \A i \in 1 .. m : new[i] = out[i]
    BY <1>2, <2>1 DEF m
  <2>3. /\ more \in [0 .. m + 1 -> 0 .. n + 1] /\ more[0] = 0 /\ more[m + 1] = n + 1
        /\ \A i \in 0 .. m : more[i] = ends[i]
    BY <1>2, <1>3
  <2>4. Calling(last) <=> Calling(j)
    BY <1>1 DEF Calling, Jsons
  <2>5. Made(last, js, n, n + 1)
    <3>1. CASE Calling(j)
      <4>1. /\ last.role = "assistant" /\ last.content = "null" /\ last.tool_calls = j.tool_calls
        BY <1>1, <3>1 DEF Jsons, Calling
      <4>2. Len(last.tool_calls) = (n + 1) - n
        <5>1. Len(j.tool_calls) = 1 /\ (n + 1) - n = 1
          BY <1>1, <3>1
        <5> HIDE DEF last, j
        <5> QED
          BY <4>1, <5>1
      <4>3. \A k \in n + 1 .. n + 1 : Calling(js[k])
        BY <3>1
      <4>4. \A k \in 1 .. (n + 1) - n : last.tool_calls[k] = js[n + k].tool_calls[1]
        BY <4>1
      <4> HIDE DEF last
      <4> QED
        BY <4>1, <4>2, <4>3, <4>4 DEF Made
    <3>2. CASE ~Calling(j)
      BY <3>2 DEF Made
    <3> QED
      BY <3>1, <3>2
  <2> HIDE DEF new, last, more
  <2>6. \A i \in 1 .. m + 1 : more[i - 1] < more[i] /\ Made(new[i], js, more[i - 1], more[i])
    <3> SUFFICES ASSUME NEW i \in 1 .. m + 1 PROVE more[i - 1] < more[i] /\ Made(new[i], js, more[i - 1], more[i])
      OBVIOUS
    <3>1. CASE i = m + 1
      BY <1>2, <1>3, <2>2, <2>3, <2>5, <3>1
    <3>2. CASE i \in 1 .. m
      <4>1. i - 1 \in 0 .. m /\ i \in 0 .. m
        BY <1>2, <3>2
      <4> QED
        BY <1>3, <2>2, <2>3, <3>2, <4>1
    <3> QED
      BY <1>2, <3>1, <3>2
  <2>7. \A i \in 1 .. m + 1 : i + 1 \in 1 .. m + 1 => ~(Calling(new[i]) /\ Calling(new[i + 1]))
    <3> SUFFICES ASSUME NEW i \in 1 .. m + 1, i + 1 \in 1 .. m + 1 PROVE ~(Calling(new[i]) /\ Calling(new[i + 1]))
      OBVIOUS
    <3>1. CASE i = m
      BY <1>2, <1>6, <2>2, <2>4, <3>1
    <3>2. CASE i # m
      <4>1. i \in 1 .. m /\ i + 1 \in 1 .. m
        BY <1>2, <3>2
      <4>2. new[i] = out[i] /\ new[i + 1] = out[i + 1]
        BY <2>2, <4>1
      <4> QED
        BY <1>3, <4>1, <4>2
    <3> QED
      BY <3>1, <3>2
  <2> QED
    BY <1>2, <2>2, <2>3, <2>6, <2>7 DEF Grouped, new, j
<1> QED
  BY <1>5, <1>6

\* Merging groups a whole request so.
LEMMA MergedGroups ==
  ASSUME NEW js \in Singles
  PROVE  \E ends : Grouped(Merged(js), js, Len(js), ends)
<1> DEFINE N == Len(js)
           step == [p \in (1 .. N) \X Seq(Jsons) |-> Merge(p[2], js[p[1]])]
           Eq(h) == h = [n \in 0 .. N |-> IF n = 0 THEN <<>> ELSE Merge(h[n - 1], js[n])]
           d == CHOOSE h : Eq(h)
<1>1. N \in Nat /\ DOMAIN js = 1 .. N /\ \A n \in 1 .. N : js[n] \in Jsons
  BY DEF Singles
<1>2. step \in [(1 .. N) \X Seq(Jsons) -> Seq(Jsons)]
  BY <1>1, MergeType
<1>3. PICK f : Facts!Iterates(f, N, Seq(Jsons), <<>>, step)
  <2>1. N \in Nat /\ <<>> \in Seq(Jsons)
    BY <1>1
  <2> HIDE DEF N, step
  <2> QED
    BY <1>2, <2>1, Facts!Iterated
<1>4. /\ f \in [0 .. N -> Seq(Jsons)] /\ f[0] = <<>>
      /\ \A n \in 1 .. N : f[n] = Merge(f[n - 1], js[n])
  <2>1. f \in [0 .. N -> Seq(Jsons)] /\ f[0] = <<>> /\ \A n \in 1 .. N : f[n] = step[<<n, f[n - 1]>>]
    BY <1>3 DEF Facts!Iterates
  <2>2. ASSUME NEW n \in 1 .. N PROVE f[n] = Merge(f[n - 1], js[n])
    <3>1. n - 1 \in 0 .. N
      BY <1>1
    <3>2. f[n - 1] \in Seq(Jsons)
      BY <2>1, <3>1
    <3>3. <<n, f[n - 1]>> \in (1 .. N) \X Seq(Jsons)
      BY <3>2
    <3> QED
      BY <2>1, <3>3
  <2> QED
    BY <2>1, <2>2
<1>5. Eq(f)
  BY <1>1, <1>4
<1>6. Eq(d)
  BY <1>5
<1>7. Merged(js) = d[N]
  BY DEF Merged
<1> HIDE DEF d
<1>8. d[0] = <<>> /\ \A n \in 1 .. N : d[n] = Merge(d[n - 1], js[n])
  BY <1>1, <1>6
<1> HIDE DEF Eq, step, N
<1> DEFINE P == {n \in Nat : n <= N => \E ends : Grouped(d[n], js, n, ends)}
<1>9. 0 \in P
  <2>1. Grouped(<<>>, js, 0, [i \in 0 .. 0 |-> 0])
    BY DEF Grouped
  <2> QED
    BY <1>8, <2>1
<1>10. ASSUME NEW n \in Nat, n \in P PROVE n + 1 \in P
  <2> SUFFICES ASSUME n + 1 <= N PROVE \E ends : Grouped(d[n + 1], js, n + 1, ends)
    OBVIOUS
  <2>1. PICK ends : Grouped(d[n], js, n, ends)
    BY <1>1, <1>10
  <2>2. n + 1 \in 1 .. N /\ (n + 1) - 1 = n
    BY <1>1
  <2>3. d[n + 1] = Merge(d[n], js[n + 1])
    BY <1>8, <2>2
  <2> QED
    BY <1>1, <2>1, <2>2, <2>3, GroupMore
<1> HIDE DEF P
<1>11. Nat \subseteq P
  BY <1>9, <1>10, Facts!Induction
<1>12. N \in P
  BY <1>1, <1>11
<1>13. \E ends : Grouped(d[N], js, N, ends)
  BY <1>1, <1>12 DEF P
<1> QED
  BY <1>7, <1>13 DEF N

-----------------------------------------------------------------------------
(* A history in which every tool call has its result.                      *)

Asking(m, c)    == m.call = c /\ m.kind = "request"
Answering(m, c) == m.call = c /\ m.kind = "response"

\* Behind position a there are k tool calls, and then their results in order.
Exchange(ms, c, a, k) ==
  /\ a > 0 => ms[a].kind # "request"
  /\ \A j \in 1 .. k : /\ Asking(ms[a + j], c) /\ Answering(ms[a + k + j], c)
                       /\ ms[a + j].turn = ms[a + k + j].turn
                       /\ ms[a + j].index = ms[a + k + j].index

\* Call c has every tool call and every result in the first n messages in an
\* exchange.
Whole(ms, c, n) ==
  \A p \in 1 .. n : Asking(ms[p], c) \/ Answering(ms[p], c) =>
    \E a, k \in 0 .. n : a + 2 * k <= n /\ Exchange(ms, c, a, k) /\ p \in a + 1 .. a + 2 * k

LEMMA Formatted ==
  ASSUME NEW m \in Message
  PROVE  /\ FormatJson(m) \in Jsons
         /\ Calling(FormatJson(m)) <=> m.kind = "request"
         /\ m.kind = "request" => /\ Len(FormatJson(m).tool_calls) = 1
                                 /\ FormatJson(m).tool_calls[1] = CallId(m)
         /\ FormatJson(m).role = "tool" <=> m.kind = "response"
         /\ m.kind = "response" => FormatJson(m).tool_call_id = CallId(m)
         /\ CallId(m).call = m.call
<1>1. CallId(m) \in CallIds /\ CallId(m).call = m.call /\ m.kind \in Kinds
  BY DEF CallId, CallIds, Message, Records
<1> HIDE DEF CallId
<1>2. <<CallId(m)>> \in Seq(CallIds) /\ <<CallId(m)>> # <<>> /\ <<CallId(m)>>[1] = CallId(m)
      /\ Len(<<CallId(m)>>) = 1 /\ <<>> \in Seq(CallIds)
  BY <1>1
<1>3. CASE m.kind = "request"
  <2>1. FormatJson(m) = Json("assistant", "absent", <<CallId(m)>>, Nothing)
    BY <1>3 DEF FormatJson
  <2> QED
    BY <1>1, <1>2, <1>3, <2>1 DEF Json, Jsons, Roles, Calling
<1>4. CASE m.kind = "response"
  <2>1. FormatJson(m) = Json("tool", "text", <<>>, CallId(m))
    BY <1>4 DEF FormatJson
  <2> QED
    BY <1>1, <1>2, <1>4, <2>1 DEF Json, Jsons, Roles, Calling
<1>5. CASE m.kind \notin {"request", "response"}
  <2>1. PICK role \in {"assistant"} \cup Kinds : FormatJson(m) = Json(role, "text", <<>>, Nothing) /\ role # "tool"
    BY <1>1, <1>5 DEF FormatJson, Kinds
  <2> QED
    BY <1>1, <1>2, <1>5, <2>1 DEF Json, Jsons, Roles, Calling
<1> QED
  BY <1>3, <1>4, <1>5

\* The request before merging: the tool calls are where they are in the
\* history, and so are the results.
LEMMA Standard ==
  ASSUME NEW ms \in Seq(Message), NEW skilled \in BOOLEAN
  PROVE  LET js == StandardMessages(ms, skilled)
             N  == Len(ms)
         IN  /\ js \in Singles
             /\ N \in Nat /\ Len(js) \in Nat /\ N <= Len(js)
             /\ \A p \in 1 .. N : js[p] = FormatJson(ms[p])
             /\ \A p \in 1 .. Len(js) : Calling(js[p]) => p <= N /\ ms[p].kind = "request"
             /\ \A p \in 1 .. Len(js) : js[p].role = "tool" => p <= N /\ ms[p].kind = "response"
<1> DEFINE js == StandardMessages(ms, skilled)
           N  == Len(ms)
           body == [i \in DOMAIN ms |-> FormatJson(ms[i])]
           skill == Json("system", "text", <<>>, Nothing)
<1>1. N \in Nat /\ DOMAIN ms = 1 .. N /\ \A p \in 1 .. N : ms[p] \in Message
  OBVIOUS
<1>2. skill \in Jsons /\ ~Calling(skill) /\ skill.role # "tool"
  BY DEF Json, Jsons, Roles, Kinds, Calling
<1>3. body \in Seq(Jsons) /\ Len(body) = N /\ \A p \in 1 .. N : body[p] = FormatJson(ms[p])
  BY <1>1, Formatted
<1>4. js = IF skilled THEN body \o <<skill>> ELSE body \o <<>>
  BY DEF StandardMessages
<1> HIDE DEF js, body, skill, N
<1>5. CASE skilled
  <2>1. js = Append(body, skill)
    BY <1>2, <1>3, <1>4, <1>5
  <2>2. /\ js \in Seq(Jsons) /\ Len(js) = N + 1 /\ js[N + 1] = skill /\ DOMAIN js = 1 .. N + 1
        /\ \A p \in 1 .. N : js[p] = FormatJson(ms[p])
    BY <1>1, <1>2, <1>3, <2>1
  <2>3. ASSUME NEW p \in 1 .. N + 1
        PROVE  /\ Calling(js[p]) => Len(js[p].tool_calls) = 1 /\ p <= N /\ ms[p].kind = "request"
               /\ js[p].role = "tool" => p <= N /\ ms[p].kind = "response"
    <3>1. CASE p = N + 1
      BY <1>2, <2>2, <3>1
    <3>2. CASE p \in 1 .. N
      BY <1>1, <2>2, <3>2, Formatted
    <3> QED
      BY <1>1, <3>1, <3>2
  <2> QED
    BY <1>1, <2>2, <2>3 DEF js, N, Singles
<1>6. CASE ~skilled
  <2>1. js = body
    BY <1>3, <1>4, <1>6
  <2>2. /\ js \in Seq(Jsons) /\ Len(js) = N /\ DOMAIN js = 1 .. N
        /\ \A p \in 1 .. N : js[p] = FormatJson(ms[p])
    BY <1>1, <1>3, <2>1
  <2>3. ASSUME NEW p \in 1 .. N
        PROVE  /\ Calling(js[p]) => Len(js[p].tool_calls) = 1 /\ p <= N /\ ms[p].kind = "request"
               /\ js[p].role = "tool" => p <= N /\ ms[p].kind = "response"
    BY <1>1, <2>2, Formatted
  <2> QED
    BY <1>1, <2>2, <2>3 DEF js, N, Singles
<1> QED
  BY <1>5, <1>6

\* A run of tool calls is one message, and the message before it is none; what
\* is no tool call is a message of its own.
GroupShape(js, out, ends, i) ==
  LET p == ends[i - 1]
      q == ends[i]
  IN  /\ p \in Nat /\ q \in 1 .. Len(js) /\ p < q
      /\ \/ q = p + 1 /\ ~Calling(js[q]) /\ out[i] = js[q]
         \/ /\ Calling(out[i]) /\ out[i].role = "assistant" /\ out[i].content = "null"
            /\ \A n \in p + 1 .. q : Calling(js[n])
            /\ DOMAIN out[i].tool_calls = 1 .. q - p
            /\ \A j \in 1 .. q - p : out[i].tool_calls[j] = js[p + j].tool_calls[1]
            /\ i > 1 => ~Calling(js[p])
            /\ q < Len(js) => ~Calling(js[q + 1])

LEMMA GroupIs ==
  ASSUME NEW js \in Singles, NEW out, NEW ends, Grouped(out, js, Len(js), ends), NEW i \in 1 .. Len(out)
  PROVE  GroupShape(js, out, ends, i)
<1> DEFINE m == Len(out)
           p == ends[i - 1]
           q == ends[i]
<1>1. out \in Seq(Jsons) /\ m \in Nat /\ Len(js) \in Nat
  BY DEF Grouped, Singles
<1>2. /\ ends \in [0 .. m -> 0 .. Len(js)] /\ ends[0] = 0 /\ ends[m] = Len(js)
      /\ \A h \in 1 .. m : ends[h - 1] < ends[h] /\ Made(out[h], js, ends[h - 1], ends[h])
      /\ \A h \in 1 .. m : h + 1 \in 1 .. m => ~(Calling(out[h]) /\ Calling(out[h + 1]))
  BY DEF Grouped
<1>3. i \in 1 .. m /\ i - 1 \in 0 .. m /\ i \in 0 .. m
  BY <1>1
<1>4. p \in 0 .. Len(js) /\ q \in 0 .. Len(js) /\ p < q /\ Made(out[i], js, p, q)
  BY <1>2, <1>3
<1>5. p \in Nat /\ q \in 1 .. Len(js)
  BY <1>1, <1>4
\* What a message is made of is a tool call where it ends, and where it begins.
<1>6. ASSUME NEW h \in 1 .. m
      PROVE  /\ Calling(js[ends[h]]) => Calling(out[h])
             /\ Calling(js[ends[h - 1] + 1]) => Calling(out[h])
             /\ Made(out[h], js, ends[h - 1], ends[h])
             /\ ends[h - 1] \in Nat /\ ends[h] \in Nat /\ ends[h - 1] < ends[h]
  <2> DEFINE a == ends[h - 1]
             b == ends[h]
  <2>1. h - 1 \in 0 .. m /\ h \in 0 .. m /\ out[h] \in Jsons
    BY <1>1
  <2> HIDE DEF m, p, q
  <2>2. a \in 0 .. Len(js) /\ b \in 0 .. Len(js) /\ a < b /\ Made(out[h], js, a, b)
    BY <1>2, <2>1
  <2>3. a \in Nat /\ b \in Nat
    BY <2>2
  <2> HIDE DEF a, b
  <2>4. CASE b = a + 1 /\ ~Calling(js[b]) /\ out[h] = js[b]
    BY <2>2, <2>3, <2>4 DEF a, b
  <2>5. CASE out[h].role = "assistant" /\ Len(out[h].tool_calls) = b - a
    <3>1. Len(out[h].tool_calls) # 0
      BY <2>2, <2>3, <2>5
    <3>2. out[h].tool_calls # <<>>
      BY <3>1
    <3>3. Calling(out[h])
      BY <2>5, <3>2 DEF Calling
    <3> QED
      BY <2>2, <2>3, <3>3 DEF a, b
  <2> QED
    BY <2>2, <2>4, <2>5 DEF Made
<1>7. CASE q = p + 1 /\ ~Calling(js[q]) /\ out[i] = js[q]
  BY <1>5, <1>4, <1>7 DEF GroupShape
<1>8. CASE /\ \A k \in p + 1 .. q : Calling(js[k])
           /\ out[i].role = "assistant" /\ out[i].content = "null"
           /\ Len(out[i].tool_calls) = q - p
           /\ \A k \in 1 .. q - p : out[i].tool_calls[k] = js[p + k].tool_calls[1]
  <2>1. Calling(out[i])
    <3>1. q \in p + 1 .. q
      BY <1>4, <1>5
    <3> QED
      BY <1>3, <1>6, <1>8, <3>1
  <2>2. ASSUME i > 1 PROVE ~Calling(js[p])
    <3>1. i - 1 \in 1 .. m /\ (i - 1) + 1 = i
      BY <1>1, <1>3, <2>2
    <3>2. ~Calling(out[i - 1])
      BY <1>2, <1>3, <2>1, <3>1
    <3> QED
      BY <1>6, <3>1, <3>2
  <2>3. ASSUME q < Len(js) PROVE ~Calling(js[q + 1])
    <3>1. i # m
      BY <1>2, <2>3, <1>1
    <3>2. i + 1 \in 1 .. m /\ (i + 1) - 1 = i
      BY <1>1, <1>3, <3>1
    <3>3. ~Calling(out[i + 1])
      BY <1>2, <1>3, <2>1, <3>2
    <3>4. ends[(i + 1) - 1] = q
      BY <3>2
    <3> QED
      BY <1>6, <3>2, <3>3, <3>4
  <2>4. DOMAIN out[i].tool_calls = 1 .. q - p
    <3>1. out[i] \in Jsons
      BY <1>1, <1>3
    <3>2. out[i].tool_calls \in Seq(CallIds)
      BY <3>1 DEF Jsons
    <3> QED
      BY <1>8, <3>2
  <2> HIDE DEF p, q
  <2> QED
    BY <1>4, <1>5, <1>8, <2>1, <2>2, <2>3, <2>4 DEF p, q, GroupShape
<1> QED
  BY <1>4, <1>7, <1>8 DEF Made

\* Forwards and backwards, results are messages of their own.
LEMMA SinglesFollow ==
  ASSUME NEW js \in Singles, NEW out, NEW ends, Grouped(out, js, Len(js), ends),
         NEW i \in 0 .. Len(out), NEW l \in Nat, ends[i] + l <= Len(js),
         \A j \in 1 .. l : ~Calling(js[ends[i] + j])
  PROVE  \A j \in 1 .. l : i + j \in 1 .. Len(out) /\ ends[i + j] = ends[i] + j /\ out[i + j] = js[ends[i] + j]
<1> DEFINE m == Len(out)
           e == ends[i]
           P == {j \in Nat : j <= l => i + j \in 0 .. m /\ ends[i + j] = e + j}
<1>1. m \in Nat /\ Len(js) \in Nat /\ ends \in [0 .. m -> 0 .. Len(js)] /\ ends[m] = Len(js)
  BY DEF Grouped, Singles
<1>2. /\ i \in 0 .. m /\ e \in Nat /\ e + l <= Len(js) /\ ends[i] = e
      /\ \A j \in 1 .. l : ~Calling(js[e + j])
  BY <1>1
\* The message that begins behind position n, which is no tool call, is that one.
<1>3. ASSUME NEW h \in 1 .. m, NEW n \in Nat, ends[h - 1] = n, ~Calling(js[n + 1])
      PROVE  ends[h] = n + 1 /\ out[h] = js[n + 1]
  <2>1. h \in 1 .. Len(out)
    OBVIOUS
  <2> HIDE DEF m, e, P
  <2>2. /\ ends[h] \in 1 .. Len(js) /\ ends[h - 1] < ends[h]
        /\ \/ ends[h] = ends[h - 1] + 1 /\ out[h] = js[ends[h]]
           \/ \A q \in ends[h - 1] + 1 .. ends[h] : Calling(js[q])
    BY <2>1, GroupIs DEF GroupShape
  <2>3. n + 1 \in ends[h - 1] + 1 .. ends[h]
    BY <1>1, <1>3, <2>2
  <2> QED
    BY <1>3, <2>2, <2>3
<1> HIDE DEF e, m
<1>4. ASSUME NEW j \in Nat, j + 1 <= l, i + j \in 0 .. m, ends[i + j] = e + j
      PROVE  /\ i + (j + 1) \in 1 .. m /\ ends[i + (j + 1)] = e + (j + 1)
             /\ out[i + (j + 1)] = js[e + (j + 1)]
  <2> DEFINE h == i + (j + 1)
             n == e + j
  <2>1. i + j # m
    BY <1>1, <1>2, <1>4
  <2>2. h \in 1 .. m /\ h - 1 = i + j /\ n \in Nat /\ n + 1 = e + (j + 1) /\ j + 1 \in 1 .. l
    BY <1>1, <1>2, <1>4, <2>1
  <2>3. ends[h - 1] = n /\ ~Calling(js[n + 1])
    BY <1>2, <1>4, <2>2
  <2> HIDE DEF h, n
  <2>4. ends[h] = n + 1 /\ out[h] = js[n + 1]
    BY <1>3, <2>2, <2>3
  <2> QED
    BY <2>2, <2>4 DEF h
<1>5. 0 \in P
  BY <1>1, <1>2
<1>6. ASSUME NEW j \in Nat, j \in P PROVE j + 1 \in P
  <2> SUFFICES ASSUME j + 1 <= l PROVE i + (j + 1) \in 0 .. m /\ ends[i + (j + 1)] = e + (j + 1)
    OBVIOUS
  <2>1. i + j \in 0 .. m /\ ends[i + j] = e + j
    BY <1>6
  <2>2. i + (j + 1) \in 1 .. m /\ ends[i + (j + 1)] = e + (j + 1)
    BY <1>4, <2>1
  <2> QED
    BY <1>1, <2>2
<1> HIDE DEF P
<1>7. Nat \subseteq P
  BY <1>5, <1>6, Facts!Induction
<1>8. ASSUME NEW j \in 1 .. l PROVE i + j \in 1 .. m /\ ends[i + j] = e + j /\ out[i + j] = js[e + j]
  <2>1. j - 1 \in Nat /\ (j - 1) + 1 = j /\ j - 1 <= l
    OBVIOUS
  <2>2. i + (j - 1) \in 0 .. m /\ ends[i + (j - 1)] = e + (j - 1)
    BY <1>7, <2>1 DEF P
  <2> QED
    BY <1>4, <2>1, <2>2
<1> QED
  BY <1>8 DEF e, m

\* The tool calls of an exchange are one message, and nothing else is in it.
ExchangeShape(ms, out, ends, i, a, k) ==
  /\ ends[i - 1] = a /\ ends[i] = a + k
  /\ Calling(out[i]) /\ out[i].content = "null" /\ DOMAIN out[i].tool_calls = 1 .. k
  /\ \A j \in 1 .. k : out[i].tool_calls[j] = CallId(ms[a + j])

LEMMA ExchangeIsOne ==
  ASSUME NEW ms \in Seq(Message), NEW skilled \in BOOLEAN, NEW out, NEW ends, NEW js,
         js = StandardMessages(ms, skilled), Grouped(out, js, Len(js), ends),
         NEW c, NEW a \in Nat, NEW k \in Nat, Exchange(ms, c, a, k), a + 2 * k <= Len(ms),
         NEW i \in 1 .. Len(out), NEW r \in a + 1 .. a + k, r \in ends[i - 1] + 1 .. ends[i]
  PROVE  ExchangeShape(ms, out, ends, i, a, k)
<1> DEFINE N == Len(ms)
           L == Len(js)
           p == ends[i - 1]
           q == ends[i]
<1>1. /\ js \in Singles /\ N \in Nat /\ L \in Nat /\ N <= L
      /\ \A n \in 1 .. N : js[n] = FormatJson(ms[n])
      /\ \A n \in 1 .. L : Calling(js[n]) => n <= N /\ ms[n].kind = "request"
  BY Standard
<1>2. \A n \in 1 .. N : Calling(js[n]) <=> ms[n].kind = "request"
  <2> SUFFICES ASSUME NEW n \in 1 .. N PROVE Calling(js[n]) <=> ms[n].kind = "request"
    OBVIOUS
  <2>1. ms[n] \in Message
    OBVIOUS
  <2> QED
    BY <1>1, <2>1, Formatted
<1>3. /\ a > 0 => ms[a].kind # "request"
      /\ \A j \in 1 .. k : ms[a + j].kind = "request" /\ ms[a + k + j].kind = "response"
  BY DEF Exchange, Asking, Answering
<1>4. /\ a > 0 => a \in 1 .. N /\ ~Calling(js[a])
      /\ \A n \in a + 1 .. a + k : n \in 1 .. N /\ Calling(js[n])
      /\ a + k + 1 \in 1 .. N /\ ~Calling(js[a + k + 1])
  <2>1. a > 0 => a \in 1 .. N
    BY <1>1
  <2>2. ASSUME NEW n \in a + 1 .. a + k PROVE n \in 1 .. N /\ Calling(js[n])
    <3>1. n \in 1 .. N /\ n - a \in 1 .. k /\ a + (n - a) = n
      BY <1>1
    <3>2. ms[n].kind = "request"
      BY <1>3, <3>1
    <3> QED
      BY <1>2, <3>1, <3>2
  <2>3. a + k + 1 \in 1 .. N /\ 1 \in 1 .. k
    BY <1>1
  <2>4. ms[a + k + 1].kind = "response"
    BY <1>3, <2>3
  <2> QED
    BY <1>2, <1>3, <2>1, <2>2, <2>3, <2>4
<1>5. js \in Singles /\ Grouped(out, js, Len(js), ends) /\ i \in 1 .. Len(out) /\ ends[0] = 0
  BY <1>1 DEF Grouped
<1>6. /\ p \in Nat /\ q \in 1 .. L /\ p < q
      /\ \/ q = p + 1 /\ ~Calling(js[q])
         \/ /\ Calling(out[i]) /\ out[i].content = "null"
            /\ \A n \in p + 1 .. q : Calling(js[n])
            /\ DOMAIN out[i].tool_calls = 1 .. q - p
            /\ \A j \in 1 .. q - p : out[i].tool_calls[j] = js[p + j].tool_calls[1]
            /\ i > 1 => ~Calling(js[p])
            /\ q < L => ~Calling(js[q + 1])
  <2>1. GroupShape(js, out, ends, i)
    BY <1>5, GroupIs
  <2> QED
    BY <2>1 DEF GroupShape
<1>7. p > 0 => i > 1
  BY <1>5
<1>8. r \in a + 1 .. a + k /\ r \in p + 1 .. q /\ q \in Nat /\ p \in Nat
  BY <1>1, <1>6
<1> HIDE DEF N, L, p, q
<1>9. Calling(js[r])
  BY <1>4, <1>8
<1>10. /\ Calling(out[i]) /\ out[i].content = "null"
       /\ \A n \in p + 1 .. q : Calling(js[n])
       /\ DOMAIN out[i].tool_calls = 1 .. q - p
       /\ \A j \in 1 .. q - p : out[i].tool_calls[j] = js[p + j].tool_calls[1]
       /\ i > 1 => ~Calling(js[p])
       /\ q < L => ~Calling(js[q + 1])
  <2>1. ~(q = p + 1 /\ ~Calling(js[q]))
    BY <1>6, <1>8, <1>9
  <2> QED
    BY <1>6, <2>1
<1>11. p = a
  <2>1. ~(p < a)
    <3> SUFFICES ASSUME p < a PROVE FALSE
      OBVIOUS
    <3>1. a \in p + 1 .. q /\ a > 0
      BY <1>8
    <3> QED
      BY <1>4, <1>10, <3>1
  <2>2. ~(p > a)
    <3> SUFFICES ASSUME p > a PROVE FALSE
      OBVIOUS
    <3>1. p \in a + 1 .. a + k /\ p > 0
      BY <1>6, <1>8
    <3> QED
      BY <1>4, <1>7, <1>10, <3>1
  <2> QED
    BY <1>6, <2>1, <2>2
<1>12. q = a + k
  <2>1. ~(q > a + k)
    <3> SUFFICES ASSUME q > a + k PROVE FALSE
      OBVIOUS
    <3>1. a + k + 1 \in p + 1 .. q
      BY <1>8, <1>11
    <3> QED
      BY <1>4, <1>10, <3>1
  <2>2. ~(q < a + k)
    <3> SUFFICES ASSUME q < a + k PROVE FALSE
      OBVIOUS
    <3>1. q + 1 \in a + 1 .. a + k
      BY <1>6, <1>11
    <3>2. q + 1 \in 1 .. N /\ Calling(js[q + 1])
      BY <1>4, <3>1
    <3>3. q < L
      BY <1>1, <1>6, <3>2 DEF N, L
    <3> QED
      BY <1>10, <3>2, <3>3
  <2> QED
    BY <1>6, <2>1, <2>2
<1>13. q - p = k
  BY <1>11, <1>12
<1>14. ASSUME NEW j \in 1 .. k PROVE out[i].tool_calls[j] = CallId(ms[a + j])
  <2>1. a + j \in a + 1 .. a + k
    OBVIOUS
  <2>2. a + j \in 1 .. N /\ Calling(js[a + j])
    BY <1>4, <2>1
  <2>3. js[a + j] = FormatJson(ms[a + j]) /\ ms[a + j] \in Message
    BY <1>1, <2>2 DEF N
  <2>4. js[a + j].tool_calls[1] = CallId(ms[a + j])
    BY <2>2, <2>3, Formatted
  <2> QED
    BY <1>10, <1>11, <1>13, <2>4
<1> QED
  BY <1>10, <1>11, <1>12, <1>13, <1>14 DEF p, q, ExchangeShape

\* A message with tool calls of c is followed at once by their results.
LEMMA CallsAnswered ==
  ASSUME NEW ms \in Seq(Message), NEW skilled \in BOOLEAN, NEW out, NEW ends, NEW js,
         js = StandardMessages(ms, skilled), Grouped(out, js, Len(js), ends),
         NEW c, Whole(ms, c, Len(ms)),
         NEW i \in 1 .. Len(out), Calling(out[i]), out[i].tool_calls[1].call = c
  PROVE  /\ out[i].content = "null"
         /\ \A j \in DOMAIN out[i].tool_calls :
              i + j \in DOMAIN out /\ out[i + j].tool_call_id = out[i].tool_calls[j]
<1> DEFINE N == Len(ms)
           p == ends[i - 1]
           q == ends[i]
<1>1. /\ js \in Singles /\ N \in Nat /\ Len(js) \in Nat /\ N <= Len(js)
      /\ \A n \in 1 .. N : js[n] = FormatJson(ms[n]) /\ ms[n] \in Message
      /\ \A n \in 1 .. Len(js) : Calling(js[n]) => n <= N /\ ms[n].kind = "request"
  BY Standard
<1>2. p \in Nat /\ q \in 1 .. Len(js) /\ p < q /\ DOMAIN out = 1 .. Len(out)
  <2>1. GroupShape(js, out, ends, i) /\ out \in Seq(Jsons)
    BY <1>1, GroupIs DEF Grouped
  <2> QED
    BY <2>1 DEF GroupShape
<1>3. /\ \A n \in p + 1 .. q : Calling(js[n])
      /\ DOMAIN out[i].tool_calls = 1 .. q - p
      /\ \A j \in 1 .. q - p : out[i].tool_calls[j] = js[p + j].tool_calls[1]
  <2>1. GroupShape(js, out, ends, i)
    BY <1>1, GroupIs
  <2> QED
    BY <2>1 DEF GroupShape
<1>4. p + 1 \in 1 .. N /\ Asking(ms[p + 1], c)
  <2>1. p + 1 \in p + 1 .. q /\ p + 1 \in 1 .. Len(js) /\ 1 \in 1 .. q - p
    BY <1>1, <1>2
  <2>2. Calling(js[p + 1]) /\ out[i].tool_calls[1] = js[p + 1].tool_calls[1]
    BY <1>3, <2>1
  <2>3. p + 1 \in 1 .. N /\ ms[p + 1].kind = "request"
    BY <1>1, <1>2, <2>1, <2>2
  <2>4. js[p + 1] = FormatJson(ms[p + 1]) /\ ms[p + 1] \in Message
    BY <1>1, <2>3
  <2>5. js[p + 1].tool_calls[1] = CallId(ms[p + 1]) /\ CallId(ms[p + 1]).call = ms[p + 1].call
    BY <2>3, <2>4, Formatted
  <2> QED
    BY <2>2, <2>3, <2>5 DEF Asking
<1>5. PICK a, k \in 0 .. N : a + 2 * k <= N /\ Exchange(ms, c, a, k) /\ p + 1 \in a + 1 .. a + 2 * k
  BY <1>4 DEF Whole
<1>6. a \in Nat /\ k \in Nat
  BY <1>1
<1>7. p + 1 \in a + 1 .. a + k
  <2> SUFFICES ASSUME p + 1 > a + k PROVE FALSE
    BY <1>2, <1>5, <1>6
  <2> HIDE DEF p, q, N
  <2>1. (p + 1) - (a + k) \in 1 .. k /\ a + k + ((p + 1) - (a + k)) = p + 1
    BY <1>2, <1>5, <1>6
  <2>2. Answering(ms[p + 1], c)
    BY <1>5, <2>1 DEF Exchange
  <2> QED
    BY <1>4, <2>2 DEF Asking, Answering
<1>8. p + 1 \in p + 1 .. q
  BY <1>1, <1>2
<1>9. /\ p = a /\ q = a + k /\ out[i].content = "null" /\ DOMAIN out[i].tool_calls = 1 .. k
      /\ \A j \in 1 .. k : out[i].tool_calls[j] = CallId(ms[a + j])
  <2>1. ExchangeShape(ms, out, ends, i, a, k)
    BY <1>5, <1>6, <1>7, <1>8, ExchangeIsOne
  <2> QED
    BY <2>1 DEF ExchangeShape
<1>10. ASSUME NEW j \in 1 .. k
       PROVE  /\ a + k + j \in 1 .. N /\ ~Calling(js[a + k + j])
              /\ js[a + k + j].tool_call_id = CallId(ms[a + j])
  <2>1. a + k + j \in 1 .. N /\ a + j \in 1 .. N
    <3>1. N \in Nat /\ a \in Nat /\ k \in Nat /\ a + 2 * k <= N
      BY <1>1, <1>5, <1>6
    <3> HIDE DEF p, q, N
    <3> QED
      BY <3>1
  <2>2. /\ Asking(ms[a + j], c) /\ Answering(ms[a + k + j], c)
        /\ ms[a + j].turn = ms[a + k + j].turn /\ ms[a + j].index = ms[a + k + j].index
    BY <1>5 DEF Exchange
  <2>3. CallId(ms[a + j]) = CallId(ms[a + k + j])
    BY <2>2 DEF CallId, Asking, Answering
  <2>4. js[a + k + j] = FormatJson(ms[a + k + j]) /\ ms[a + k + j] \in Message
    BY <1>1, <2>1
  <2>5. ms[a + k + j].kind = "response"
    BY <2>2 DEF Answering
  <2> QED
    BY <2>1, <2>3, <2>4, <2>5, Formatted
<1>11. \A j \in 1 .. k : i + j \in 1 .. Len(out) /\ out[i + j] = js[q + j]
  <2>1. q + k <= Len(js) /\ i \in 0 .. Len(out)
    BY <1>1, <1>5, <1>6, <1>9
  <2>2. \A j \in 1 .. k : ~Calling(js[q + j])
    BY <1>9, <1>10
  <2>3. \A j \in 1 .. k : i + j \in 1 .. Len(out) /\ ends[i + j] = ends[i] + j /\ out[i + j] = js[ends[i] + j]
    BY <1>1, <1>6, <2>1, <2>2, SinglesFollow
  <2> QED
    BY <2>3
<1> HIDE DEF p, q, N
<1>12. ASSUME NEW j \in DOMAIN out[i].tool_calls
       PROVE  i + j \in DOMAIN out /\ out[i + j].tool_call_id = out[i].tool_calls[j]
  <2>1. j \in 1 .. k /\ out[i].tool_calls[j] = CallId(ms[a + j])
    BY <1>9
  <2>2. out[i + j] = js[a + k + j] /\ i + j \in 1 .. Len(out)
    BY <1>9, <1>11, <2>1
  <2> QED
    BY <1>2, <1>10, <2>1, <2>2
<1> QED
  BY <1>9, <1>12

\* A result of c follows the message that has its tool call.
LEMMA AnswersCalled ==
  ASSUME NEW ms \in Seq(Message), NEW skilled \in BOOLEAN, NEW out, NEW ends, NEW js,
         js = StandardMessages(ms, skilled), Grouped(out, js, Len(js), ends),
         NEW c, Whole(ms, c, Len(ms)),
         NEW i \in 1 .. Len(out), out[i].role = "tool", out[i].tool_call_id.call = c
  PROVE  \E h \in 1 .. i - 1 : /\ Calling(out[h]) /\ out[h].tool_calls[1].call = c
                               /\ i - h \in DOMAIN out[h].tool_calls
<1> DEFINE N == Len(ms)
           L == Len(js)
           M == Len(out)
           q == ends[i]
<1>1. /\ js \in Singles /\ N \in Nat /\ L \in Nat /\ N <= L
      /\ \A n \in 1 .. N : js[n] = FormatJson(ms[n]) /\ ms[n] \in Message
      /\ \A n \in 1 .. L : js[n].role = "tool" => n <= N /\ ms[n].kind = "response"
  BY Standard
<1>2. out \in Seq(Jsons) /\ M \in Nat /\ ends \in [0 .. M -> 0 .. L] /\ ends[0] = 0
  BY DEF Grouped
<1>3. ASSUME NEW h \in 1 .. M
      PROVE  /\ ends[h - 1] \in Nat /\ ends[h] \in 1 .. L /\ ends[h - 1] < ends[h]
             /\ \/ ends[h - 1] = ends[h] - 1 /\ ~Calling(js[ends[h]]) /\ out[h] = js[ends[h]]
                \/ Calling(js[ends[h]]) /\ out[h].role = "assistant"
  <2>1. GroupShape(js, out, ends, h)
    BY <1>1, GroupIs
  <2>2. ends[h - 1] \in Nat /\ ends[h] \in 1 .. L /\ ends[h - 1] < ends[h]
    BY <2>1 DEF GroupShape
  <2>3. CASE ends[h] = ends[h - 1] + 1 /\ ~Calling(js[ends[h]]) /\ out[h] = js[ends[h]]
    BY <2>2, <2>3
  <2>4. CASE out[h].role = "assistant" /\ \A n \in ends[h - 1] + 1 .. ends[h] : Calling(js[n])
    <3>1. ends[h] \in ends[h - 1] + 1 .. ends[h]
      BY <2>2
    <3> QED
      BY <2>2, <2>4, <3>1
  <2> QED
    BY <2>1, <2>3, <2>4 DEF GroupShape
<1>4. q \in 1 .. L /\ out[i] = js[q]
  BY <1>3
<1>5. q \in 1 .. N /\ Answering(ms[q], c)
  <2>1. q \in 1 .. N /\ ms[q].kind = "response"
    BY <1>1, <1>4
  <2>2. js[q] = FormatJson(ms[q]) /\ ms[q] \in Message
    BY <1>1, <2>1
  <2>3. js[q].tool_call_id = CallId(ms[q]) /\ CallId(ms[q]).call = ms[q].call
    BY <2>1, <2>2, Formatted
  <2> QED
    BY <1>4, <2>1, <2>3 DEF Answering
<1>6. PICK a, k \in 0 .. N : a + 2 * k <= N /\ Exchange(ms, c, a, k) /\ q \in a + 1 .. a + 2 * k
  BY <1>5 DEF Whole
<1> DEFINE j == q - (a + k)
           h == i - j
<1>7. a \in Nat /\ k \in Nat /\ j \in 1 .. k /\ q = a + k + j
  <2>1. a \in Nat /\ k \in Nat /\ q \in Nat
    BY <1>1, <1>4
  <2>2. ~(q <= a + k)
    <3> SUFFICES ASSUME q <= a + k PROVE FALSE
      OBVIOUS
    <3>1. q - a \in 1 .. k /\ a + (q - a) = q
      BY <1>6, <2>1
    <3> HIDE DEF q
    <3>2. Asking(ms[q], c)
      BY <1>6, <3>1 DEF Exchange
    <3> QED
      BY <1>5, <3>2 DEF Asking, Answering
  <2> QED
    BY <1>6, <2>1, <2>2
<1>8. \A n \in 1 .. k : a + k + n \in 1 .. N /\ ~Calling(js[a + k + n])
  <2> SUFFICES ASSUME NEW n \in 1 .. k PROVE a + k + n \in 1 .. N /\ ~Calling(js[a + k + n])
    OBVIOUS
  <2>1. a + k + n \in 1 .. N
    BY <1>1, <1>6, <1>7
  <2>2. ms[a + k + n].kind = "response"
    BY <1>6 DEF Exchange, Answering
  <2> QED
    BY <1>1, <2>1, <2>2, Formatted
<1>9. i \in 1 .. M
  OBVIOUS
<1>10. i \in Nat /\ ends[i] = a + k + j /\ j \in Nat
  BY <1>2, <1>7, <1>9
<1> HIDE DEF N, L, M, q, j
\* One message back is one position back, down to the last of the tool calls.
<1> DEFINE P == {n \in Nat : n <= j => i - n \in 1 .. M /\ ends[i - n] = (a + k + j) - n}
<1>11. 0 \in P
  BY <1>2, <1>9, <1>10
<1>12. ASSUME NEW n \in Nat, n \in P PROVE n + 1 \in P
  <2> SUFFICES ASSUME n + 1 <= j
               PROVE  i - (n + 1) \in 1 .. M /\ ends[i - (n + 1)] = (a + k + j) - (n + 1)
    OBVIOUS
  <2> DEFINE g == i - n
             e == (a + k + j) - n
  <2>1. g \in 1 .. M /\ ends[g] = e
    BY <1>10, <1>12
  <2>2. j - n \in 1 .. k /\ a + k + (j - n) = e /\ e \in Nat /\ g - 1 = i - (n + 1)
        /\ e - 1 = (a + k + j) - (n + 1) /\ e - 1 > 0
    BY <1>7, <1>10
  <2> HIDE DEF g, e, P
  <2>3. ~Calling(js[e])
    BY <1>8, <2>2
  <2>4. ends[g - 1] = e - 1
    BY <1>3, <2>1, <2>3
  <2>5. g - 1 # 0
    BY <1>2, <2>2, <2>4
  <2>6. g - 1 \in 1 .. M
    BY <1>2, <2>1, <2>5
  <2> QED
    BY <2>2, <2>4, <2>6
<1> HIDE DEF P
<1>13. Nat \subseteq P
  BY <1>11, <1>12, Facts!Induction
<1>14. h \in 1 .. M /\ ends[h] = a + k
  <2>1. j \in P
    BY <1>10, <1>13
  <2> QED
    BY <1>7, <1>10, <2>1 DEF P
<1>15. h \in 1 .. i - 1 /\ i - h = j
  BY <1>2, <1>7, <1>10, <1>14
<1> HIDE DEF h
<1>16. ends[h] \in a + 1 .. a + k /\ ends[h] \in ends[h - 1] + 1 .. ends[h]
  BY <1>3, <1>7, <1>14
<1>17. /\ Calling(out[h]) /\ DOMAIN out[h].tool_calls = 1 .. k
       /\ \A n \in 1 .. k : out[h].tool_calls[n] = CallId(ms[a + n])
  <2>1. ExchangeShape(ms, out, ends, h, a, k)
    BY <1>6, <1>7, <1>14, <1>16, ExchangeIsOne DEF N, M
  <2> QED
    BY <2>1 DEF ExchangeShape
<1>18. out[h].tool_calls[1].call = c
  <2>1. 1 \in 1 .. k
    BY <1>7
  <2>2. ms[a + 1].call = c
    BY <1>6, <2>1 DEF Exchange, Asking
  <2>3. out[h].tool_calls[1] = CallId(ms[a + 1])
    BY <1>17, <2>1
  <2> QED
    BY <2>2, <2>3 DEF CallId
<1> QED
  BY <1>7, <1>15, <1>17, <1>18

\* So a history in which every tool call of c has its result makes a request
\* in which they are answered at once.
LEMMA WholeSends ==
  ASSUME NEW ms \in Seq(Message), NEW skilled \in BOOLEAN, NEW c, Whole(ms, c, Len(ms)),
         NEW sent, sent = DeepSeekMessages(ms, skilled), NEW i \in DOMAIN sent
  PROVE  /\ Calling(sent[i]) /\ sent[i].tool_calls[1].call = c =>
              /\ sent[i].content = "null"
              /\ \A j \in DOMAIN sent[i].tool_calls :
                   i + j \in DOMAIN sent /\ sent[i + j].tool_call_id = sent[i].tool_calls[j]
         /\ sent[i].role = "tool" /\ sent[i].tool_call_id.call = c =>
              \E h \in 1 .. i - 1 : /\ Calling(sent[h]) /\ sent[h].tool_calls[1].call = c
                                    /\ i - h \in DOMAIN sent[h].tool_calls
<1> DEFINE js == StandardMessages(ms, skilled)
<1>1. js \in Singles
  BY Standard
<1>2. sent = Merged(js)
  BY DEF DeepSeekMessages
<1>3. PICK ends : Grouped(sent, js, Len(js), ends)
  BY <1>1, <1>2, MergedGroups
<1>4. i \in 1 .. Len(sent)
  BY <1>3 DEF Grouped
<1> HIDE DEF js
<1>5. js = StandardMessages(ms, skilled)
  BY DEF js
<1>6. CASE Calling(sent[i]) /\ sent[i].tool_calls[1].call = c
  BY <1>3, <1>4, <1>5, <1>6, CallsAnswered DEF Calling
<1>7. CASE sent[i].role = "tool" /\ sent[i].tool_call_id.call = c
  BY <1>3, <1>4, <1>5, <1>7, AnswersCalled DEF Calling
<1> QED
  BY <1>6, <1>7

-----------------------------------------------------------------------------
(* How a turn comes into the history.                                      *)

\* Behind the first a messages, in which all is answered, come k tool calls
\* of turn t and the results of the first n of them.
Open(ms, c, t, a, k, n) ==
  /\ a \in 1 .. Len(ms) /\ n <= k /\ Len(ms) = a + k + n
  /\ ms[a].kind # "request" /\ Whole(ms, c, a)
  /\ \A j \in 1 .. k : Asking(ms[a + j], c) /\ ms[a + j].turn = t
  /\ \A j \in 1 .. n : /\ Answering(ms[a + k + j], c) /\ ms[a + k + j].turn = t
                       /\ ms[a + k + j].index = ms[a + j].index

\* No tool call is open.
Closed(ms, c) ==
  Len(ms) \in 1 .. Len(ms) /\ ms[Len(ms)].kind # "request" /\ Whole(ms, c, Len(ms))

\* The tool calls of turn t that are stored, or in box, have the indices is.
Requests(box) == {e.index : e \in {d \in box : d.kind = "request"}}
Requested(ms, c, t, box, is) ==
  \E a, k \in Nat : /\ Open(ms, c, t, a, k, 0)
                    /\ {ms[a + j].index : j \in 1 .. k} \cup Requests(box) = is

\* The results that are not yet stored are those in box.
Reply(c, t, i, ans) == [kind |-> "response", call |-> c, turn |-> t, index |-> i, result |-> ans[i]]
Responding(ms, c, t, box, ans) ==
  \E a, k, n \in Nat : /\ Open(ms, c, t, a, k, n)
                       /\ box = {Reply(c, t, ms[a + j].index, ans) : j \in n + 1 .. k}

LEMMA WholeStays ==
  ASSUME NEW ms \in Seq(Message), NEW m \in Message, NEW c, NEW n \in 0 .. Len(ms), Whole(ms, c, n)
  PROVE  Whole(Append(ms, m), c, n)
<1> DEFINE more == Append(ms, m)
<1>1. \A p \in 1 .. n : more[p] = ms[p]
  OBVIOUS
<1>2. n \in Nat
  OBVIOUS
<1> HIDE DEF more
<1>3. ASSUME NEW a \in 0 .. n, NEW k \in 0 .. n, a + 2 * k <= n, Exchange(ms, c, a, k)
      PROVE  Exchange(more, c, a, k)
  <2>1. a > 0 => more[a].kind # "request"
    BY <1>1, <1>2, <1>3 DEF Exchange
  <2>2. ASSUME NEW j \in 1 .. k PROVE more[a + j] = ms[a + j] /\ more[a + k + j] = ms[a + k + j]
    <3>1. a + j \in 1 .. n /\ a + k + j \in 1 .. n
      BY <1>2, <1>3
    <3> QED
      BY <1>1, <3>1
  <2> QED
    BY <1>3, <2>1, <2>2 DEF Exchange
<1>4. ASSUME NEW p \in 1 .. n, Asking(more[p], c) \/ Answering(more[p], c)
      PROVE  \E a, k \in 0 .. n : a + 2 * k <= n /\ Exchange(more, c, a, k) /\ p \in a + 1 .. a + 2 * k
  <2>1. Asking(ms[p], c) \/ Answering(ms[p], c)
    BY <1>1, <1>4
  <2>2. PICK a, k \in 0 .. n : a + 2 * k <= n /\ Exchange(ms, c, a, k) /\ p \in a + 1 .. a + 2 * k
    BY <2>1 DEF Whole
  <2> QED
    BY <1>3, <2>2
<1> QED
  BY <1>4 DEF Whole, more

\* Messages that are no tool calls of c and no results keep all answered.
LEMMA ClosedStays ==
  ASSUME NEW ms \in Seq(Message), NEW m \in Message, NEW c, Whole(ms, c, Len(ms)),
         m.kind \notin {"request", "response"}
  PROVE  Closed(Append(ms, m), c)
<1> DEFINE more == Append(ms, m)
           n == Len(ms)
<1>1. n \in Nat /\ Len(more) = n + 1 /\ more[n + 1] = m
  OBVIOUS
<1>2. Whole(more, c, n)
  BY WholeStays
<1> HIDE DEF more, n
<1>3. ASSUME NEW p \in 1 .. n + 1, Asking(more[p], c) \/ Answering(more[p], c)
      PROVE  \E a, k \in 0 .. n + 1 : /\ a + 2 * k <= n + 1 /\ Exchange(more, c, a, k)
                                      /\ p \in a + 1 .. a + 2 * k
  <2>1. p # n + 1
    BY <1>1, <1>3 DEF Asking, Answering
  <2>2. p \in 1 .. n
    BY <1>1, <2>1
  <2>3. PICK a, k \in 0 .. n : a + 2 * k <= n /\ Exchange(more, c, a, k) /\ p \in a + 1 .. a + 2 * k
    BY <1>2, <1>3, <2>2 DEF Whole
  <2>4. a \in 0 .. n + 1 /\ k \in 0 .. n + 1 /\ a + 2 * k <= n + 1
    BY <1>1, <2>3
  <2> QED
    BY <2>3, <2>4
<1>4. Whole(more, c, n + 1)
  BY <1>3 DEF Whole
<1> QED
  BY <1>1, <1>4 DEF Closed, more

\* The message of a call comes where nothing of the call is stored.
LEMMA CallOpens ==
  ASSUME NEW ms \in Seq(Message), NEW m \in Message, NEW c, m.kind = "user",
         \A p \in DOMAIN ms : ~(ms[p].call = c /\ ms[p].kind \in Turned)
  PROVE  Closed(Append(ms, m), c)
<1>1. Whole(ms, c, Len(ms))
  BY DEF Whole, Asking, Answering, Turned
<1> QED
  BY <1>1, ClosedStays

LEMMA TurnOpens ==
  ASSUME NEW ms \in Seq(Message), NEW c, NEW t, NEW box, Closed(ms, c)
  PROVE  Requested(ms, c, t, box, Requests(box))
<1> DEFINE n == Len(ms)
<1>1. n \in Nat /\ n + 0 + 0 = n /\ 0 <= 0 /\ 0 \in Nat
  OBVIOUS
<1>2. Open(ms, c, t, n, 0, 0)
  BY <1>1 DEF Open, Closed
<1>3. {ms[n + j].index : j \in 1 .. 0} = {}
  OBVIOUS
<1> HIDE DEF n
<1> QED
  BY <1>1, <1>2, <1>3 DEF Requested

\* A text comes before the tool calls of its turn.
LEMMA TextStored ==
  ASSUME NEW ms \in Seq(Message), NEW c, NEW t, NEW box, NEW is, Requested(ms, c, t, box, is),
         NEW e \in box, e \in Message, e.kind = "text",
         \A p \in DOMAIN ms : ~(Asking(ms[p], c) /\ ms[p].turn = t)
  PROVE  Requested(Append(ms, e), c, t, box \ {e}, is)
<1>1. PICK a, k \in Nat : /\ Open(ms, c, t, a, k, 0)
                          /\ {ms[a + j].index : j \in 1 .. k} \cup Requests(box) = is
  BY DEF Requested
<1>2. k = 0
  <2> SUFFICES ASSUME k # 0 PROVE FALSE
    OBVIOUS
  <2>1. 1 \in 1 .. k /\ Len(ms) = a + k + 0
    BY <1>1 DEF Open
  <2>2. a + 1 \in DOMAIN ms
    BY <2>1
  <2> QED
    BY <1>1, <2>1, <2>2 DEF Open
<1>3. Requests(box) = is
  <2>1. {ms[a + j].index : j \in 1 .. k} = {}
    BY <1>2
  <2> QED
    BY <1>1, <2>1
<1>4. Requests(box \ {e}) = Requests(box)
  BY DEF Requests
<1>5. Whole(ms, c, Len(ms))
  BY <1>1, <1>2 DEF Open
<1>6. Closed(Append(ms, e), c)
  BY <1>5, ClosedStays
<1>7. Append(ms, e) \in Seq(Message)
  OBVIOUS
<1> QED
  BY <1>3, <1>4, <1>6, <1>7, TurnOpens

LEMMA TextBlocked ==
  ASSUME NEW ms, NEW c, NEW t, NEW box, NEW is, Requested(ms, c, t, box, is),
         NEW e \in box, e.kind # "request"
  PROVE  Requested(ms, c, t, box \ {e}, is)
<1>1. Requests(box \ {e}) = Requests(box)
  BY DEF Requests
<1> QED
  BY <1>1 DEF Requested

LEMMA RequestStored ==
  ASSUME NEW ms \in Seq(Message), NEW c, NEW t, NEW box, NEW is, Requested(ms, c, t, box, is),
         NEW e \in box, e \in Message, Asking(e, c), e.turn = t
  PROVE  Requested(Append(ms, e), c, t, box \ {e}, is)
<1> DEFINE more == Append(ms, e)
<1>1. PICK a, k \in Nat : /\ Open(ms, c, t, a, k, 0)
                          /\ {ms[a + j].index : j \in 1 .. k} \cup Requests(box) = is
  BY DEF Requested
<1>2. Len(ms) = a + k + 0 /\ a \in 1 .. Len(ms)
  BY <1>1 DEF Open
<1>3. Len(more) = a + k + 1 /\ more[a + k + 1] = e /\ \A p \in 1 .. a + k : more[p] = ms[p]
  BY <1>2
<1>4. Whole(more, c, a)
  BY <1>1, <1>2, WholeStays DEF Open
<1> HIDE DEF more
<1>5. \A j \in 1 .. k : a + j \in 1 .. a + k /\ more[a + j] = ms[a + j]
  BY <1>3
<1>6. \A j \in 1 .. k + 1 : j \in 1 .. k \/ (j = k + 1 /\ more[a + j] = e)
  BY <1>3
<1>7. Open(more, c, t, a, k + 1, 0)
  <2>1. a \in 1 .. Len(more) /\ 0 <= k + 1 /\ Len(more) = a + (k + 1) + 0
    BY <1>2, <1>3
  <2>2. more[a].kind # "request"
    BY <1>1, <1>2, <1>3 DEF Open
  <2>3. \A j \in 1 .. k + 1 : Asking(more[a + j], c) /\ more[a + j].turn = t
    BY <1>1, <1>5, <1>6 DEF Open
  <2> QED
    BY <1>4, <2>1, <2>2, <2>3 DEF Open
<1>8. {more[a + j].index : j \in 1 .. k + 1} = {ms[a + j].index : j \in 1 .. k} \cup {e.index}
  <2>1. k + 1 \in 1 .. k + 1 /\ more[a + (k + 1)] = e /\ \A j \in 1 .. k : j \in 1 .. k + 1
    BY <1>3
  <2> QED
    BY <1>5, <1>6, <2>1
<1>9. Requests(box) = Requests(box \ {e}) \cup {e.index}
  BY DEF Requests, Asking
<1>10. {more[a + j].index : j \in 1 .. k + 1} \cup Requests(box \ {e}) = is
  BY <1>1, <1>8, <1>9
<1>11. k + 1 \in Nat
  OBVIOUS
<1> QED
  BY <1>7, <1>10, <1>11 DEF Requested, more

\* When all tool calls are stored the results are what is to come.
LEMMA RepliesCome ==
  ASSUME NEW ms, NEW c, NEW t, NEW is, NEW ans, Requested(ms, c, t, {}, is)
  PROVE  Responding(ms, c, t, {Reply(c, t, i, ans) : i \in is}, ans)
<1>1. PICK a, k \in Nat : /\ Open(ms, c, t, a, k, 0)
                          /\ {ms[a + j].index : j \in 1 .. k} \cup Requests({}) = is
  BY DEF Requested
<1>2. is = {ms[a + j].index : j \in 1 .. k}
  BY <1>1 DEF Requests
<1> HIDE DEF Reply
<1>3. {Reply(c, t, i, ans) : i \in is} = {Reply(c, t, ms[a + j].index, ans) : j \in 0 + 1 .. k}
  BY <1>2
<1> QED
  BY <1>1, <1>3 DEF Responding

\* The results are stored in the order of the tool calls.
LEMMA ReplyStored ==
  ASSUME NEW ms \in Seq(Message), NEW c, NEW t, NEW box, NEW ans, Responding(ms, c, t, box, ans),
         NEW e \in box, e \in Message, \A d \in box : e.index <= d.index,
         \A p, q \in DOMAIN ms : /\ p < q /\ Asking(ms[p], c) /\ Asking(ms[q], c)
                                 /\ ms[p].turn = t /\ ms[q].turn = t
                                 => ms[p].index < ms[q].index
  PROVE  Responding(Append(ms, e), c, t, box \ {e}, ans)
<1> DEFINE more == Append(ms, e)
<1>1. PICK a, k, n \in Nat : /\ Open(ms, c, t, a, k, n)
                             /\ box = {Reply(c, t, ms[a + j].index, ans) : j \in n + 1 .. k}
  BY DEF Responding
<1>2. Len(ms) = a + k + n /\ a \in 1 .. Len(ms) /\ n <= k
  BY <1>1 DEF Open
<1>3. /\ Len(more) = a + k + n + 1 /\ more[a + k + n + 1] = e
      /\ \A p \in 1 .. a + k + n : more[p] = ms[p] /\ p \in DOMAIN ms /\ ms[p] \in Message
  <2>1. /\ Len(more) = Len(ms) + 1 /\ more[Len(ms) + 1] = e
        /\ \A p \in 1 .. Len(ms) : more[p] = ms[p] /\ p \in DOMAIN ms /\ ms[p] \in Message
    OBVIOUS
  <2> HIDE DEF more
  <2> QED
    BY <1>2, <2>1
<1>4. Whole(more, c, a)
  BY <1>1, <1>2, WholeStays DEF Open
<1> HIDE DEF more
<1>5. \A j \in 1 .. k : a + j \in 1 .. a + k + n
  BY <1>2
<1>6. \A j \in 1 .. n : a + k + j \in 1 .. a + k + n /\ j \in 1 .. k
  BY <1>2
<1>7. \A i, j \in 1 .. k : i < j => ms[a + i].index < ms[a + j].index
  <2> SUFFICES ASSUME NEW i \in 1 .. k, NEW j \in 1 .. k, i < j PROVE ms[a + i].index < ms[a + j].index
    OBVIOUS
  <2>1. a + i < a + j
    OBVIOUS
  <2>2. /\ Asking(ms[a + i], c) /\ ms[a + i].turn = t
        /\ Asking(ms[a + j], c) /\ ms[a + j].turn = t
    BY <1>1 DEF Open
  <2> QED
    BY <1>3, <1>5, <2>1, <2>2
<1>8. \A j \in 1 .. k : ms[a + j].index \in Nat
  BY <1>3, <1>5, LoopAssumption DEF Message, Records
<1>9. PICK i \in n + 1 .. k : e = Reply(c, t, ms[a + i].index, ans)
  BY <1>1
<1>10. \A j \in n + 1 .. k : ms[a + i].index <= ms[a + j].index
  <2> SUFFICES ASSUME NEW j \in n + 1 .. k PROVE ms[a + i].index <= ms[a + j].index
    OBVIOUS
  <2>1. Reply(c, t, ms[a + j].index, ans) \in box
    BY <1>1
  <2> QED
    BY <1>9, <2>1 DEF Reply
<1>11. i = n + 1
  <2> SUFFICES ASSUME i # n + 1 PROVE FALSE
    OBVIOUS
  <2>1. n + 1 \in n + 1 .. k /\ n + 1 \in 1 .. k /\ i \in 1 .. k /\ n + 1 < i
    OBVIOUS
  <2>2. ms[a + (n + 1)].index < ms[a + i].index /\ ms[a + i].index <= ms[a + (n + 1)].index
    BY <1>7, <1>10, <2>1
  <2> QED
    BY <1>8, <2>1, <2>2
<1>12. n + 1 \in 1 .. k /\ e = Reply(c, t, ms[a + (n + 1)].index, ans)
  BY <1>9, <1>11
<1>13. Open(more, c, t, a, k, n + 1)
  <2>1. a \in 1 .. Len(more) /\ n + 1 <= k /\ Len(more) = a + k + (n + 1)
    BY <1>2, <1>3, <1>12
  <2>2. more[a].kind # "request"
    BY <1>1, <1>2, <1>3 DEF Open
  <2>3. \A j \in 1 .. k : more[a + j] = ms[a + j]
    BY <1>3, <1>5
  <2>4. \A j \in 1 .. k : Asking(more[a + j], c) /\ more[a + j].turn = t
    BY <1>1, <2>3 DEF Open
  <2>5. ASSUME NEW j \in 1 .. n + 1
        PROVE  /\ Answering(more[a + k + j], c) /\ more[a + k + j].turn = t
               /\ more[a + k + j].index = more[a + j].index
    <3>1. CASE j \in 1 .. n
      BY <1>1, <1>3, <1>6, <2>3, <3>1 DEF Open
    <3>2. CASE j = n + 1
      <4>1. more[a + k + j] = e /\ more[a + j] = ms[a + (n + 1)]
        BY <1>3, <1>12, <2>3, <3>2
      <4>2. e.kind = "response" /\ e.call = c /\ e.turn = t /\ e.index = ms[a + (n + 1)].index
        BY <1>12 DEF Reply
      <4> QED
        BY <4>1, <4>2 DEF Answering
    <3> QED
      BY <3>1, <3>2
  <2> QED
    BY <1>4, <2>1, <2>2, <2>4, <2>5 DEF Open
<1>14. box \ {e} = {Reply(c, t, more[a + j].index, ans) : j \in (n + 1) + 1 .. k}
  <2>1. \A j \in n + 1 .. k : j = n + 1 \/ j \in (n + 1) + 1 .. k
    OBVIOUS
  <2>2. \A j \in (n + 1) + 1 .. k :
          /\ j \in n + 1 .. k /\ more[a + j] = ms[a + j]
          /\ Reply(c, t, ms[a + j].index, ans) # e
    <3> SUFFICES ASSUME NEW j \in (n + 1) + 1 .. k
                 PROVE  /\ j \in n + 1 .. k /\ more[a + j] = ms[a + j]
                        /\ Reply(c, t, ms[a + j].index, ans) # e
      OBVIOUS
    <3>1. j \in 1 .. k /\ j \in n + 1 .. k /\ n + 1 < j
      OBVIOUS
    <3>2. ms[a + (n + 1)].index # ms[a + j].index
      <4>1. ms[a + (n + 1)].index < ms[a + j].index
        BY <1>7, <1>12, <3>1
      <4>2. \A x, y \in Nat : x < y => x # y
        OBVIOUS
      <4>3. ms[a + (n + 1)].index \in Nat /\ ms[a + j].index \in Nat
        BY <1>8, <1>12, <3>1
      <4> QED
        BY <4>1, <4>2, <4>3
    <3> QED
      BY <1>3, <1>5, <1>12, <3>1, <3>2 DEF Reply
  <2> HIDE DEF Reply
  <2> QED
    BY <1>1, <1>12, <2>1, <2>2
<1>15. n + 1 \in Nat
  OBVIOUS
<1> QED
  BY <1>13, <1>14, <1>15 DEF Responding, more

\* When all results are stored no tool call is open.
LEMMA TurnCloses ==
  ASSUME NEW ms \in Seq(Message), NEW c, NEW t, NEW ans, Responding(ms, c, t, {}, ans)
  PROVE  Closed(ms, c)
<1>1. PICK a, k, n \in Nat : /\ Open(ms, c, t, a, k, n)
                             /\ {} = {Reply(c, t, ms[a + j].index, ans) : j \in n + 1 .. k}
  BY DEF Responding
<1>2. Len(ms) = a + k + n /\ a \in 1 .. Len(ms) /\ n <= k
  BY <1>1 DEF Open
<1>3. n = k
  <2> SUFFICES ASSUME n # k PROVE FALSE
    OBVIOUS
  <2>1. n + 1 \in n + 1 .. k
    BY <1>2
  <2> QED
    BY <1>1, <2>1
<1>4. Len(ms) = a + 2 * k
  BY <1>2, <1>3
<1>5. Exchange(ms, c, a, k)
  BY <1>1, <1>3 DEF Open, Exchange
<1>6. ms[a + 2 * k].kind # "request"
  <2>1. CASE k = 0
    BY <1>1, <2>1 DEF Open
  <2>2. CASE k # 0
    <3>1. k \in 1 .. k /\ a + k + k = a + 2 * k
      BY <2>2
    <3> QED
      BY <1>1, <1>3, <3>1 DEF Open, Answering
  <2> QED
    BY <2>1, <2>2
<1>7. ASSUME NEW p \in 1 .. a + 2 * k, Asking(ms[p], c) \/ Answering(ms[p], c)
      PROVE  \E b, l \in 0 .. a + 2 * k : /\ b + 2 * l <= a + 2 * k /\ Exchange(ms, c, b, l)
                                          /\ p \in b + 1 .. b + 2 * l
  <2>1. CASE p \in 1 .. a
    <3>1. PICK b, l \in 0 .. a : b + 2 * l <= a /\ Exchange(ms, c, b, l) /\ p \in b + 1 .. b + 2 * l
      BY <1>1, <1>7, <2>1 DEF Open, Whole
    <3>2. b \in 0 .. a + 2 * k /\ l \in 0 .. a + 2 * k /\ b + 2 * l <= a + 2 * k
      BY <3>1
    <3> QED
      BY <3>1, <3>2
  <2>2. CASE p \in a + 1 .. a + 2 * k
    <3>1. a \in 0 .. a + 2 * k /\ k \in 0 .. a + 2 * k
      OBVIOUS
    <3> QED
      BY <1>5, <2>2, <3>1
  <2> QED
    BY <2>1, <2>2
<1>8. Whole(ms, c, a + 2 * k)
  BY <1>7 DEF Whole
<1> QED
  BY <1>2, <1>4, <1>6, <1>8 DEF Closed

-----------------------------------------------------------------------------
(* The requests of the loop.                                               *)

Calm == clears = 0 /\ blocked \cap {"request", "response"} = {}

\* Before a turn's tool calls come, and behind their results, no tool call of
\* the call is open; in between the history and the outbox together have all
\* of them, and all of their results.
WireInv ==
  Calm =>
    /\ pc \in {"top", "fetch", "request", "stream", "streamed"} => Closed(conv, call)
    /\ pc = "fetch" => view = conv
    /\ pc = "request" => Whole(context, call, Len(context))
    /\ pc \in {"storing", "tools"} => Requested(conv, call, iteration, outbox, acc)
    /\ pc = "reporting" /\ Continues => Responding(conv, call, iteration, outbox, answer)

\* What is stored of the call is stored in its turns.
LEMMA NotYetAsked ==
  ASSUME HistInv, LoopInv
  PROVE  /\ pc = "init" => \A p \in DOMAIN conv : ~(conv[p].call = call /\ conv[p].kind \in Turned)
         /\ \A e \in outbox :
              pc = "storing" /\ e.kind = "text" =>
                \A p \in DOMAIN conv : ~(Asking(conv[p], call) /\ conv[p].turn = iteration)
         /\ \A p, q \in DOMAIN conv :
              /\ p < q /\ Asking(conv[p], call) /\ Asking(conv[q], call)
              /\ conv[p].turn = iteration /\ conv[q].turn = iteration
              => conv[p].index < conv[q].index
<1>1. /\ \A p \in DOMAIN conv : Own(conv[p]) => Behind(conv[p])
      /\ \A p, q \in DOMAIN conv : p < q /\ Own(conv[p]) /\ Own(conv[q]) => Precedes(conv[p], conv[q])
  BY DEF HistInv, Stored, Ordered
<1>2. \A m : Asking(m, call) => Own(m) /\ Rank(m) = 1
  BY DEF Asking, Own, Turned, Rank
<1>3. iteration \in Nat /\ (pc = "storing" => \A e \in outbox : e.turn = iteration)
  BY LoopAssumption DEF LoopInv, LoopOK, OutboxOK
<1> HIDE DEF conv
<1>4. pc = "init" => \A p \in DOMAIN conv : ~(conv[p].call = call /\ conv[p].kind \in Turned)
  BY <1>1 DEF Own, Behind
<1>5. ASSUME NEW e \in outbox, pc = "storing", e.kind = "text",
             NEW p \in DOMAIN conv, Asking(conv[p], call), conv[p].turn = iteration
      PROVE  FALSE
  <2>1. Precedes(conv[p], e) /\ Rank(conv[p]) = 1
    BY <1>1, <1>2, <1>5 DEF Behind
  <2>2. e.turn = iteration /\ Rank(e) = 0
    BY <1>3, <1>5 DEF Rank
  <2> QED
    BY <1>3, <1>5, <2>1, <2>2 DEF Precedes
<1>6. ASSUME NEW p \in DOMAIN conv, NEW q \in DOMAIN conv, p < q,
             Asking(conv[p], call), Asking(conv[q], call),
             conv[p].turn = iteration, conv[q].turn = iteration
      PROVE  conv[p].index < conv[q].index
  <2>1. Precedes(conv[p], conv[q]) /\ Rank(conv[p]) = 1 /\ Rank(conv[q]) = 1
    BY <1>1, <1>2, <1>6
  <2> QED
    BY <1>3, <1>6, <2>1 DEF Precedes
<1> QED
  BY <1>4, <1>5, <1>6

LEMMA StepWire ==
  ASSUME LoopInv, HistInv, WireInv, [Next]_vars
  PROVE  WireInv'
<1> USE LoopAssumption
<1>0. /\ LoopOK /\ OutboxOK /\ Facts!SessionInv /\ Shape /\ conv \in Seq(Message)
  BY ConversationType DEF LoopInv, HistInv
<1> SUFFICES ASSUME Calm' PROVE WireInv'
  BY DEF WireInv
<1>1. CASE Send \/ Wait \/ Looked \/ PushSystem \/ Exhausted \/ Error \/ CancelExit \/ Leave
  <2>1. pc' \notin {"top", "fetch", "request", "stream", "streamed", "storing", "tools", "reporting"}
    BY <1>1 DEF Send, Wait, Looked, PushSystem, Exhausted, Error, CancelExit, Leave, Goto
  <2> QED
    BY <2>1 DEF WireInv
\* Every other step that leaves it calm was calm before.
<1>2. CASE PushInit
  <2>1. Simple("user") \in Message /\ Simple("user").kind = "user"
    BY <1>0, <1>2, SimpleTyped DEF PushInit, Goto, Message, Kinds, Simple, Record
  <2>2. conv' = Append(conv, Simple("user")) /\ call' = call /\ pc = "init" /\ pc' = "top"
    BY <1>0, <1>2, <2>1, PushMoves DEF PushInit, Goto, callVars
  <2>3. Closed(Append(conv, Simple("user")), call)
    BY <1>0, <2>1, <2>2, NotYetAsked, CallOpens
  <2> HIDE DEF conv
  <2> QED
    BY <2>2, <2>3 DEF WireInv
<1>3. CASE Fetch
  <2>1. conv' = conv /\ view' = conv
    BY <1>0, <1>3, FetchMoves DEF Fetch
  <2>2. call' = call /\ pc = "top" /\ pc' = "fetch" /\ Calm
    BY <1>3 DEF Fetch, Goto, callVars, Calm
  <2> HIDE DEF conv, view
  <2> QED
    BY <2>1, <2>2 DEF WireInv
<1>4. CASE Fetched
  <2>1. conv' = conv /\ context' = view
    BY <1>0, <1>4, ReceiveMoves DEF Fetched
  <2>2. call' = call /\ pc = "fetch" /\ pc' = "request" /\ Calm
    BY <1>4 DEF Fetched, Goto, callVars, Calm
  <2> HIDE DEF conv, view
  <2>3. Closed(conv, call) /\ context' = conv
    BY <2>1, <2>2 DEF WireInv
  <2>4. Whole(context', call, Len(context'))
    BY <2>3 DEF Closed
  <2> QED
    BY <2>1, <2>2, <2>3, <2>4 DEF WireInv
<1>5. CASE RequestOpened \/ Chunk \/ StreamEnd
  <2>1. conv' = conv
    BY <1>0, <1>5, IdleMoves DEF RequestOpened, Chunk, StreamEnd
  <2>2. call' = call /\ pc \in {"request", "stream"} /\ pc' \in {"stream", "streamed"} /\ Calm
    BY <1>5 DEF RequestOpened, Chunk, StreamEnd, Goto, callVars, Calm
  <2> HIDE DEF conv, view
  <2> QED
    BY <2>1, <2>2 DEF WireInv
<1>6. CASE Store
  <2>1. conv' = conv
    BY <1>0, <1>6, IdleMoves DEF Store
  <2>2. /\ pc = "streamed" /\ pc' = "storing" /\ Calm
        /\ outbox' = TurnEvents /\ UNCHANGED <<call, iteration, acc>>
    BY <1>6 DEF Store, Goto, callVars, turnVars, streamVars, Calm
  <2> HIDE DEF conv, view
  <2>3. Requested(conv, call, iteration, TurnEvents, Requests(TurnEvents))
    BY <1>0, <2>2, TurnOpens DEF WireInv
  <2>4. Requests(TurnEvents) = acc
    <3>1. \A e \in TurnEvents : e.kind = "request" => e.index \in acc
      BY DEF TurnEvents, Simple, Record
    <3>2. ASSUME NEW i \in acc PROVE \E e \in TurnEvents : e.kind = "request" /\ e.index = i
      <4>1. Record("request", i, "none") \in TurnEvents
        BY DEF TurnEvents
      <4> QED
        BY <4>1 DEF Record
    <3> HIDE DEF TurnEvents
    <3> QED
      BY <3>1, <3>2 DEF Requests
  <2> QED
    BY <2>1, <2>2, <2>3, <2>4 DEF WireInv
<1>7. CASE TurnFinish
  <2>1. conv' = conv
    BY <1>0, <1>7, IdleMoves DEF TurnFinish
  <2>2. /\ pc = "storing" /\ pc' = "tools" /\ Calm /\ UNCHANGED <<call, iteration, acc, outbox>>
    BY <1>7 DEF TurnFinish, Goto, callVars, streamVars, Calm
  <2> HIDE DEF conv, view
  <2> QED
    BY <2>1, <2>2 DEF WireInv
<1>8. CASE Report
  <2>1. conv' = conv
    BY <1>0, <1>8, IdleMoves DEF Report
  <2>2. /\ pc = "tools" /\ pc' = "reporting" /\ Calm /\ outbox = {}
        /\ UNCHANGED <<call, iteration, finish, answer>>
        /\ outbox' = {Record("response", i, answer[i]) : i \in Called}
    BY <1>0, <1>8 DEF Report, Goto, callVars, turnVars, streamVars, Calm, OutboxOK
  <2> HIDE DEF conv, view
  <2>3. Requested(conv, call, iteration, {}, acc)
    BY <2>2 DEF WireInv
  <2>4. Responding(conv, call, iteration, {Reply(call, iteration, i, answer) : i \in acc}, answer)
    BY <2>3, RepliesCome
  <2>5. Continues' = Continues
    BY <2>2 DEF Continues
  <2>6. Continues => outbox' = {Reply(call, iteration, i, answer) : i \in acc}
    BY <2>2 DEF Called, Record, Reply
  <2> QED
    BY <2>1, <2>2, <2>4, <2>5, <2>6 DEF WireInv
<1>9. CASE EndTurn
  <2>1. conv' = conv
    BY <1>0, <1>9, IdleMoves DEF EndTurn
  <2>2. /\ pc = "reporting" /\ outbox = {} /\ Calm /\ call' = call
        /\ pc' = "done" \/ (pc' = "top" /\ Continues)
    BY <1>9 DEF EndTurn, callVars, Calm
  <2> HIDE DEF conv, view
  <2>3. CASE pc' = "done"
    BY <2>3 DEF WireInv
  <2>4. CASE pc' = "top" /\ Continues
    <3>1. Responding(conv, call, iteration, {}, answer)
      BY <2>2, <2>4 DEF WireInv
    <3>2. Closed(conv, call)
      BY <1>0, <3>1, TurnCloses
    <3> QED
      BY <2>1, <2>2, <2>4, <3>2 DEF WireInv
  <2> QED
    BY <2>2, <2>3, <2>4
\* A turn is stored event by event.
<1>10. CASE Filter
  <2>1. PICK e \in outbox : Pass(e) \/ Block(e)
    BY <1>10 DEF Filter
  <2>2. /\ pc' = pc /\ pc \in {"storing", "reporting", "leaving"}
        /\ UNCHANGED <<call, iteration, acc, finish, answer>>
        /\ outbox' = outbox \ {e} /\ First(e)
    BY <1>0, <2>1 DEF Pass, Block, callVars, turnVars, streamVars, OutboxOK
  <2>3. Continues' = Continues
    BY <2>2 DEF Continues
  <2>4. CASE pc = "leaving"
    BY <2>2, <2>4 DEF WireInv
  <2>5. CASE pc \in {"storing", "reporting"}
    <3>1. /\ e \in Message /\ e.kind \in Kinds /\ e.kind \in Turned /\ e.turn = iteration /\ e.call = call
          /\ pc = "storing" => e.kind \in {"text", "request"}
          /\ pc = "reporting" => e.kind = "response"
      <4>1. e \in Event /\ e.kind \in Turned /\ e.turn = iteration
        BY <1>0, <2>5 DEF OutboxOK
      <4>2. e.kind \in Kinds /\ e \in Message
        BY <4>1 DEF Event, Message, Records, Turned, Kinds
      <4>3. e.call = call /\ (pc = "storing" => e.kind \in {"text", "request"})
                          /\ (pc = "reporting" => e.kind = "response")
        BY <1>0, <2>5 DEF Shape, TurnEvents, Simple, Record
      <4> QED
        BY <4>1, <4>2, <4>3
    <3>2. CASE Pass(e)
      <4>1. conv' = Append(conv, e)
        BY <1>0, <3>1, <3>2, PushMoves DEF Pass
      <4>2. Calm
        BY <3>2 DEF Pass, callVars, Calm
      <4> HIDE DEF conv, view
      <4>3. CASE pc = "storing"
        <5>1. Requested(conv, call, iteration, outbox, acc)
          BY <4>2, <4>3 DEF WireInv
        <5>2. CASE e.kind = "text"
          <6>1. \A p \in DOMAIN conv : ~(Asking(conv[p], call) /\ conv[p].turn = iteration)
            BY <4>3, <5>2, NotYetAsked
          <6>2. Requested(Append(conv, e), call, iteration, outbox \ {e}, acc)
            BY <1>0, <3>1, <5>1, <5>2, <6>1, TextStored
          <6> QED
            BY <2>2, <4>1, <4>3, <6>2 DEF WireInv
        <5>3. CASE e.kind = "request"
          <6>1. Requested(Append(conv, e), call, iteration, outbox \ {e}, acc)
            BY <1>0, <3>1, <5>1, <5>3, RequestStored DEF Asking
          <6> QED
            BY <2>2, <4>1, <4>3, <6>1 DEF WireInv
        <5> QED
          BY <3>1, <4>3, <5>2, <5>3
      <4>4. CASE pc = "reporting"
        <5> SUFFICES ASSUME Continues PROVE Responding(Append(conv, e), call, iteration, outbox \ {e}, answer)
          BY <2>2, <2>3, <4>1, <4>4 DEF WireInv
        <5>1. Responding(conv, call, iteration, outbox, answer)
          BY <4>2, <4>4 DEF WireInv
        <5>2. \A p, q \in DOMAIN conv :
                /\ p < q /\ Asking(conv[p], call) /\ Asking(conv[q], call)
                /\ conv[p].turn = iteration /\ conv[q].turn = iteration
                => conv[p].index < conv[q].index
          BY NotYetAsked
        <5> QED
          BY <1>0, <2>2, <3>1, <5>1, <5>2, ReplyStored DEF First
      <4> QED
        BY <2>5, <4>3, <4>4
    <3>3. CASE Block(e)
      <4>1. conv' = conv
        BY <1>0, <3>3, IdleMoves DEF Block
      <4>2. Calm /\ pc = "storing" /\ e.kind = "text"
        BY <2>5, <3>1, <3>3 DEF Block, Calm
      <4> HIDE DEF conv, view
      <4>3. Requested(conv, call, iteration, outbox \ {e}, acc)
        BY <4>2, TextBlocked DEF WireInv
      <4> QED
        BY <2>2, <4>1, <4>2, <4>3 DEF WireInv
    <3> QED
      BY <2>1, <3>2, <3>3
  <2> QED
    BY <2>2, <2>4, <2>5
<1>11. CASE \E i \in 1 .. Width : ToolAnswer(i)
  <2>1. conv' = conv
    BY <1>0, <1>11, IdleMoves DEF ToolAnswer
  <2>2. /\ pc = "tools" /\ pc' = pc /\ Calm /\ UNCHANGED <<call, iteration, acc, outbox>>
    BY <1>11 DEF ToolAnswer, callVars, streamVars, Calm
  <2> HIDE DEF conv, view
  <2> QED
    BY <2>1, <2>2 DEF WireInv
<1>12. CASE Cancel \/ SessionActor \/ UNCHANGED vars
  <2>1. conv' = conv /\ view' = view
    BY <1>0, <1>12, IdleMoves, HandleMoves DEF Cancel, SessionActor, vars
  <2>2. /\ Calm /\ UNCHANGED <<pc, call, iteration, acc, finish, answer, outbox, context>>
    BY <1>12 DEF Cancel, SessionActor, vars, callVars, turnVars, streamVars, Calm
  <2>3. Continues' = Continues
    BY <2>2 DEF Continues
  <2> HIDE DEF conv, view
  <2> QED
    BY <2>1, <2>2, <2>3 DEF WireInv
<1>13. CASE Clear
  <2>1. clears' # 0
    BY <1>0, <1>13 DEF Clear, LoopOK
  <2> QED
    BY <2>1 DEF Calm
<1> QED
  BY <1>1, <1>2, <1>3, <1>4, <1>5, <1>6, <1>7, <1>8, <1>9, <1>10, <1>11, <1>12, <1>13
     DEF Next, Loop, Provider

\* No request to DeepSeek has a tool call of the send without its result, or a
\* result without its tool call, unless a middleware blocked one of them or
\* the session was cleared.
THEOREM RequestsWellFormed == Spec => []RequestWellFormed
<1>1. Init => HistInv
  BY InitHist
<1>2. Init => WireInv
  BY DEF Init, WireInv
<1>3. LoopInv /\ HistInv /\ [Next]_vars => HistInv'
  BY StepHist
<1>4. LoopInv /\ HistInv /\ WireInv /\ [Next]_vars => WireInv'
  BY StepWire
<1>5. LoopInv /\ WireInv => RequestWellFormed
  <2> SUFFICES ASSUME LoopInv, WireInv, pc = "request", Calm, NEW skilled \in BOOLEAN,
                      NEW sent, sent = DeepSeekMessages(context, skilled), NEW i \in DOMAIN sent
               PROVE  /\ Calling(sent[i]) /\ sent[i].tool_calls[1].call = call =>
                           /\ sent[i].content = "null"
                           /\ \A k \in DOMAIN sent[i].tool_calls :
                                i + k \in DOMAIN sent /\ sent[i + k].tool_call_id = sent[i].tool_calls[k]
                      /\ sent[i].role = "tool" /\ sent[i].tool_call_id.call = call =>
                           \E h \in 1 .. i - 1 : /\ Calling(sent[h]) /\ sent[h].tool_calls[1].call = call
                                                 /\ i - h \in DOMAIN sent[h].tool_calls
    BY DEF RequestWellFormed, Calm
  <2>1. context \in Seq(Message) /\ Whole(context, call, Len(context))
    BY DEF LoopInv, LoopOK, WireInv
  <2> QED
    BY <2>1, WholeSends
<1> QED
  BY <1>1, <1>2, <1>3, <1>4, <1>5, LoopInvariant, PTL DEF Spec

-----------------------------------------------------------------------------
(* What the tokens of a turn come to.                                      *)

\* What a turn becomes when tokens are added to it.
Taken(turn, tokens) ==
  LET taken[n \in 0 .. Len(tokens)] == IF n = 0 THEN turn ELSE Take(taken[n - 1], tokens[n])
  IN  taken[Len(tokens)]

Sofar(x, r, a, f, u) == [text |-> x, reasoning |-> r, accums |-> a, finish |-> f, usage |-> u]

\* h is a turn as it becomes with one token after the other.
Becomes(h, turn, tokens) ==
  /\ h[0] = turn /\ Taken(turn, tokens) = h[Len(tokens)]
  /\ \A n \in 1 .. Len(tokens) : h[n] = Take(h[n - 1], tokens[n])

LEMMA TakenSteps ==
  ASSUME NEW turn, NEW S, NEW tokens \in Seq(S)
  PROVE  \E h : Becomes(h, turn, tokens)
<1> DEFINE N == Len(tokens)
           Eq(h, m) == h = [n \in 0 .. m |-> IF n = 0 THEN turn ELSE Take(h[n - 1], tokens[n])]
           P == {m \in Nat : \E h : Eq(h, m)}
           d == CHOOSE h : Eq(h, N)
<1>1. N \in Nat
  OBVIOUS
<1>2. 0 \in P
  <2>1. Eq([n \in 0 .. 0 |-> turn], 0)
    OBVIOUS
  <2> QED
    BY <2>1
<1>3. ASSUME NEW m \in Nat, m \in P PROVE m + 1 \in P
  <2>1. PICK h : Eq(h, m)
    BY <1>3
  <2> DEFINE g == [n \in 0 .. m + 1 |-> IF n = m + 1 THEN Take(h[m], tokens[m + 1]) ELSE h[n]]
             e == [n \in 0 .. m + 1 |-> IF n = 0 THEN turn ELSE Take(g[n - 1], tokens[n])]
  <2>2. ASSUME NEW n \in 0 .. m + 1 PROVE g[n] = e[n]
    <3>1. CASE n = m + 1
      <4>1. m \in 0 .. m + 1 /\ m # m + 1 /\ n # 0 /\ n - 1 = m
        BY <3>1
      <4>2. g[m] = h[m] /\ g[n] = Take(h[m], tokens[m + 1]) /\ e[n] = Take(g[n - 1], tokens[n])
        BY <3>1, <4>1
      <4> HIDE DEF g, e
      <4> QED
        BY <3>1, <4>1, <4>2
    <3>2. CASE n \in 0 .. m
      <4>1. g[n] = h[n]
        BY <3>2
      <4>2. h[n] = IF n = 0 THEN turn ELSE Take(h[n - 1], tokens[n])
        BY <2>1, <3>2
      <4>3. n # 0 => g[n - 1] = h[n - 1]
        BY <3>2
      <4>4. e[n] = IF n = 0 THEN turn ELSE Take(g[n - 1], tokens[n])
        OBVIOUS
      <4> HIDE DEF g, e
      <4> QED
        BY <4>1, <4>2, <4>3, <4>4
    <3> QED
      BY <3>1, <3>2
  <2>3. g = e
    <3>1. g = [n \in 0 .. m + 1 |-> g[n]] /\ e = [n \in 0 .. m + 1 |-> e[n]]
      OBVIOUS
    <3> HIDE DEF g, e
    <3> QED
      BY <2>2, <3>1
  <2>4. Eq(g, m + 1)
    <3> HIDE DEF g
    <3> QED
      BY <2>3
  <2> HIDE DEF g, e, Eq
  <2>5. m + 1 \in Nat /\ \E f : Eq(f, m + 1)
    BY <2>4
  <2> QED
    BY <2>5
<1> HIDE DEF P
<1>4. N \in P
  BY <1>1, <1>2, <1>3, Facts!Induction
<1>5. \E h : Eq(h, N)
  BY <1>4 DEF P
<1>6. Eq(d, N)
  BY <1>5
<1>7. Taken(turn, tokens) = d[N]
  BY DEF Taken
<1> HIDE DEF d
<1>8. d[0] = turn /\ \A n \in 1 .. N : d[n] = Take(d[n - 1], tokens[n])
  BY <1>1, <1>6
<1> QED
  BY <1>7, <1>8 DEF Becomes

\* No tokens, no change; one token, one step; two lists, one after the other.
LEMMA TakenNone ==
  ASSUME NEW turn
  PROVE  Taken(turn, <<>>) = turn
<1> DEFINE s == <<>>
           S == {turn}
<1>1. s \in Seq(S) /\ Len(s) = 0
  OBVIOUS
<1> HIDE DEF s, S
<1>2. PICK h : Becomes(h, turn, s)
  BY <1>1, TakenSteps
<1>3. Taken(turn, s) = turn
  BY <1>1, <1>2 DEF Becomes
<1> QED
  BY <1>3 DEF s

LEMMA TakenOne ==
  ASSUME NEW turn, NEW token
  PROVE  Taken(turn, <<token>>) = Take(turn, token)
<1> DEFINE s == <<token>>
<1>1. s \in Seq({token}) /\ Len(s) = 1 /\ s[1] = token
  OBVIOUS
<1> HIDE DEF s
<1>2. PICK h : Becomes(h, turn, s)
  BY <1>1, TakenSteps
<1>3. h[0] = turn /\ Taken(turn, s) = h[1] /\ h[1] = Take(h[1 - 1], s[1]) /\ 1 - 1 = 0
  BY <1>1, <1>2 DEF Becomes
<1> QED
  BY <1>1, <1>3 DEF s

LEMMA TakenBoth ==
  ASSUME NEW turn, NEW S, NEW s \in Seq(S), NEW t \in Seq(S)
  PROVE  Taken(turn, s \o t) = Taken(Taken(turn, s), t)
<1> DEFINE L == Len(s)
           M == Len(t)
           st == s \o t
<1>1. /\ L \in Nat /\ M \in Nat /\ st \in Seq(S) /\ Len(st) = L + M
      /\ \A n \in 1 .. L + M : st[n] = IF n <= L THEN s[n] ELSE t[n - L]
  OBVIOUS
<1> HIDE DEF L, M, st
<1>a. PICK h : Becomes(h, turn, st)
  BY <1>1, TakenSteps
<1>2. h[0] = turn /\ Taken(turn, st) = h[L + M] /\ \A n \in 1 .. L + M : h[n] = Take(h[n - 1], st[n])
  BY <1>1, <1>a DEF Becomes
<1>b. PICK f : Becomes(f, turn, s)
  BY TakenSteps
<1>3. f[0] = turn /\ Taken(turn, s) = f[L] /\ \A n \in 1 .. L : f[n] = Take(f[n - 1], s[n])
  BY <1>b DEF Becomes, L
<1>c. PICK g : Becomes(g, Taken(turn, s), t)
  BY TakenSteps
<1>4. /\ g[0] = Taken(turn, s) /\ Taken(Taken(turn, s), t) = g[M]
      /\ \A n \in 1 .. M : g[n] = Take(g[n - 1], t[n])
  BY <1>c DEF Becomes, M
<1>5. \A n \in 0 .. L : h[n] = f[n]
  <2>1. ASSUME NEW n \in 1 .. L, h[n - 1] = f[n - 1] PROVE h[n] = f[n]
    <3>1. n \in 1 .. L + M /\ n <= L
      BY <1>1
    <3>2. st[n] = s[n]
      BY <1>1, <3>1
    <3> QED
      BY <1>2, <1>3, <2>1, <3>1, <3>2
  <2>2. h[0] = f[0] /\ L \in Nat
    BY <1>1, <1>2, <1>3
  <2>3. \A n \in 1 .. L : h[n - 1] = f[n - 1] => h[n] = f[n]
    BY <2>1
  <2> QED
    BY <2>2, <2>3, Facts!SameSteps
<1>6. h[L] = g[0]
  BY <1>1, <1>3, <1>4, <1>5
<1> DEFINE k == [n \in 0 .. M |-> h[L + n]]
<1>7. \A n \in 0 .. M : k[n] = g[n]
  <2>1. ASSUME NEW n \in 1 .. M, k[n - 1] = g[n - 1] PROVE k[n] = g[n]
    <3>1. L + n \in 1 .. L + M /\ ~(L + n <= L) /\ (L + n) - L = n /\ (L + n) - 1 = L + (n - 1)
          /\ n \in 0 .. M /\ n - 1 \in 0 .. M
      BY <1>1
    <3>2. k[n] = h[L + n] /\ k[n - 1] = h[L + (n - 1)]
      BY <3>1
    <3> HIDE DEF k
    <3>3. h[L + n] = Take(h[(L + n) - 1], st[L + n]) /\ st[L + n] = t[n]
      BY <1>1, <1>2, <3>1
    <3>4. h[L + n] = Take(k[n - 1], t[n])
      BY <3>1, <3>2, <3>3
    <3> QED
      BY <1>4, <2>1, <3>2, <3>4
  <2>2. k[0] = g[0] /\ M \in Nat
    BY <1>1, <1>6
  <2> HIDE DEF k
  <2> QED
    BY <2>1, <2>2, Facts!SameSteps
<1>8. k[M] = h[L + M] /\ M \in 0 .. M
  BY <1>1
<1> QED
  BY <1>2, <1>4, <1>7, <1>8 DEF st

Bodies == Seq(1 .. 2) \cup Finishes \cup {"None", 1, Nothing} \cup
            [index : 1 .. Width, call_id : 0 .. Width, name : (1 .. Width) \cup {Nothing}, args : Seq(1 .. 2)]
Tokens == Seq([type : {"text", "reasoning", "delta", "finish", "usage"}, body : Bodies])

\* What extract_events makes of a part of a chunk is a token or nothing.
LEMMA TokenType ==
  ASSUME NEW type \in {"text", "reasoning", "delta", "finish", "usage"}, NEW body \in Bodies, NEW absent
  PROVE  Token(type, body, absent) \in Tokens
<1> DEFINE S == [type : {"text", "reasoning", "delta", "finish", "usage"}, body : Bodies]
           e == [type |-> type, body |-> body]
<1>1. e \in S
  OBVIOUS
<1> HIDE DEF e, S
<1>2. <<>> \in Seq(S) /\ <<e>> \in Seq(S)
  BY <1>1
<1> QED
  BY <1>2 DEF Token, Tokens, e, S

\* A piece of text or reasoning comes behind what there is of it, even an empty one.
LEMMA TakenTexts ==
  ASSUME NEW x \in Seq(1 .. 2), NEW r \in Seq(1 .. 2), NEW a, NEW f, NEW u, NEW b \in Seq(1 .. 2)
  PROVE  /\ Taken(Sofar(x, r, a, f, u), Token("text", b, <<>>)) = Sofar(x \o b, r, a, f, u)
         /\ Taken(Sofar(x, r, a, f, u), Token("reasoning", b, <<>>)) = Sofar(x, r \o b, a, f, u)
<1>1. CASE b = <<>>
  <2>1. x \o b = x /\ r \o b = r
    BY <1>1
  <2>2. Token("text", b, <<>>) = <<>> /\ Token("reasoning", b, <<>>) = <<>>
    BY <1>1 DEF Token
  <2> QED
    BY <2>1, <2>2, TakenNone
<1>2. CASE b # <<>>
  <2>1. /\ Token("text", b, <<>>) = <<[type |-> "text", body |-> b]>>
        /\ Token("reasoning", b, <<>>) = <<[type |-> "reasoning", body |-> b]>>
    BY <1>2 DEF Token
  <2>2. /\ Take(Sofar(x, r, a, f, u), [type |-> "text", body |-> b]) = Sofar(x \o b, r, a, f, u)
        /\ Take(Sofar(x, r, a, f, u), [type |-> "reasoning", body |-> b]) = Sofar(x, r \o b, a, f, u)
    BY DEF Take, Sofar
  <2> QED
    BY <2>1, <2>2, TakenOne
<1> QED
  BY <1>1, <1>2

\* A finish reason or a usage replaces what there is, when it comes at all.
LEMMA TakenMarks ==
  ASSUME NEW x, NEW r, NEW a, NEW f, NEW u, NEW b
  PROVE  /\ Taken(Sofar(x, r, a, f, u), Token("finish", b, "None")) = Sofar(x, r, a, IF b = "None" THEN f ELSE b, u)
         /\ Taken(Sofar(x, r, a, f, u), Token("usage", b, Nothing)) = Sofar(x, r, a, f, IF b = Nothing THEN u ELSE b)
<1> DEFINE turn == Sofar(x, r, a, f, u)
           F == [type |-> "finish", body |-> b]
           U == [type |-> "usage", body |-> b]
<1>1. /\ Token("finish", b, "None") = IF b = "None" THEN <<>> ELSE <<F>>
      /\ Token("usage", b, Nothing) = IF b = Nothing THEN <<>> ELSE <<U>>
  BY DEF Token
<1>2. /\ Take(turn, F) = Sofar(x, r, a, b, u)
      /\ Take(turn, U) = Sofar(x, r, a, f, b)
  BY DEF Take, Sofar
<1> HIDE DEF F, U
<1>3. /\ Taken(turn, <<F>>) = Sofar(x, r, a, b, u)
      /\ Taken(turn, <<U>>) = Sofar(x, r, a, f, b)
      /\ Taken(turn, <<>>) = turn
  BY <1>2, TakenOne, TakenNone
<1> QED
  BY <1>1, <1>3

\* The accumulators that the pieces of g come to, and the tokens of deltas.
AccumsOf(g) == [i \in {j \in DOMAIN g : g[j] # <<>>} |-> [call_id |-> i, name |-> i, args |-> g[i]]]
Headed(ds) == [k \in DOMAIN ds |-> [type |-> "delta", body |-> ds[k]]]

\* What a piece of call i is on the wire.
Piece(i, p) == [index |-> i, call_id |-> IF p = 1 THEN i ELSE 0, name |-> IF p = 1 THEN i ELSE Nothing, args |-> <<p>>]

\* g gives the pieces of some calls.
Gathered(g) == DOMAIN g \subseteq 1 .. Width /\ g \in [DOMAIN g -> Seq(1 .. 2)]

\* g with more pieces of call i.
Grown(g, i, pieces) == [g EXCEPT ![i] = @ \o pieces]

\* A delta adds a piece to its call and leaves the others as they were: the first
\* piece of a call opens its accumulator, the second finds it.
LEMMA DeltaAdds ==
  ASSUME NEW g, Gathered(g), NEW i \in DOMAIN g, NEW p \in 1 .. 2, p = 1 <=> g[i] = <<>>
  PROVE  Delta(AccumsOf(g), Piece(i, p)) = AccumsOf(Grown(g, i, <<p>>))
<1> USE DEF Gathered
<1> DEFINE h == Grown(g, i, <<p>>)
           A == AccumsOf(g)
           D == Delta(A, Piece(i, p))
           B == AccumsOf(h)
           e == [call_id |-> i, name |-> i, args |-> g[i] \o <<p>>]
<1>1. i # 0 /\ g[i] \in Seq(1 .. 2) /\ <<p>> \in Seq(1 .. 2)
  OBVIOUS
<1>2. g[i] \o <<p>> # <<>> /\ (g[i] = <<>> => <<>> \o <<p>> = g[i] \o <<p>>)
  BY <1>1
<1>3. /\ h = [j \in DOMAIN g |-> IF j = i THEN g[i] \o <<p>> ELSE g[j]]
  BY <1>1 DEF Grown
<1> HIDE DEF h
<1>4. /\ DOMAIN A = {j \in DOMAIN g : g[j] # <<>>} /\ \A j \in DOMAIN A : A[j] = [call_id |-> j, name |-> j, args |-> g[j]]
  BY DEF AccumsOf
<1>5. /\ DOMAIN B = {j \in DOMAIN g : h[j] # <<>>} /\ \A j \in DOMAIN B : B[j] = [call_id |-> j, name |-> j, args |-> h[j]]
      /\ B = [j \in DOMAIN B |-> B[j]]
  BY <1>3 DEF AccumsOf
<1>6. DOMAIN B = DOMAIN A \cup {i} /\ B[i] = e /\ \A j \in DOMAIN A \ {i} : B[j] = A[j]
  BY <1>2, <1>3, <1>4, <1>5
<1>7. D = [j \in DOMAIN A \cup {i} |-> IF j = i THEN e ELSE A[j]]
  <2> DEFINE d == Piece(i, p)
             a == IF i \in DOMAIN A THEN A[i] ELSE [call_id |-> 0, name |-> Nothing, args |-> <<>>]
             b == [call_id |-> IF d.call_id = 0 THEN a.call_id ELSE d.call_id,
                   name    |-> IF d.name = Nothing THEN a.name ELSE d.name,
                   args    |-> a.args \o d.args]
  <2>1. d.index = i /\ d.args = <<p>> /\ d.call_id = (IF p = 1 THEN i ELSE 0) /\ d.name = IF p = 1 THEN i ELSE Nothing
    BY DEF Piece
  <2>2. D = [j \in DOMAIN A \cup {i} |-> IF j = i THEN b ELSE A[j]]
    <3> HIDE DEF A, a
    <3> QED
      BY <2>1 DEF Delta, a
  <2>3. b = e
    <3>1. CASE p = 1
      <4>1. g[i] = <<>> /\ i \notin DOMAIN A /\ a = [call_id |-> 0, name |-> Nothing, args |-> <<>>]
        BY <1>4, <3>1
      <4>2. a.args \o d.args = g[i] \o <<p>> /\ d.call_id = i /\ d.name = i /\ a.name = Nothing
        BY <2>1, <3>1, <4>1, <1>2
      <4> HIDE DEF d, a
      <4> QED
        BY <1>1, <4>2
    <3>2. CASE p # 1
      <4>1. i \in DOMAIN A /\ a = [call_id |-> i, name |-> i, args |-> g[i]]
        BY <1>4, <3>2
      <4>2. a.args \o d.args = g[i] \o <<p>> /\ d.call_id = 0 /\ d.name = Nothing /\ a.name = i /\ a.call_id = i
        BY <2>1, <3>2, <4>1
      <4> HIDE DEF d, a
      <4> QED
        BY <4>2
    <3> QED
      BY <3>1, <3>2
  <2> HIDE DEF b, e, D, A
  <2> QED
    BY <2>2, <2>3
<1> HIDE DEF A, B, D, e
<1>8. B = [j \in DOMAIN A \cup {i} |-> IF j = i THEN e ELSE A[j]]
  BY <1>5, <1>6
<1>9. D = B
  BY <1>7, <1>8
<1> QED
  BY <1>9 DEF A, B, D, h

Sent == [index : 1 .. Width, call_id : 0 .. Width, name : (1 .. Width) \cup {Nothing}, args : Seq(1 .. 2)]

\* Lists by their elements.
LEMMA Listed ==
  ASSUME NEW S, NEW n \in Nat, NEW f, f = [k \in 1 .. n |-> f[k]], \A k \in 1 .. n : f[k] \in S
  PROVE  f \in Seq(S) /\ Len(f) = n /\ DOMAIN f = 1 .. n
<1>1. f \in [1 .. n -> S]
  OBVIOUS
<1> QED
  BY <1>1

LEMMA SameList ==
  ASSUME NEW S, NEW s \in Seq(S), NEW t \in Seq(S), Len(s) = Len(t), \A k \in 1 .. Len(s) : s[k] = t[k]
  PROVE  s = t
<1>1. DOMAIN s = 1 .. Len(s) /\ DOMAIN t = 1 .. Len(s) /\ s = [k \in DOMAIN s |-> s[k]] /\ t = [k \in DOMAIN t |-> t[k]]
  OBVIOUS
<1> QED
  BY <1>1

\* The tokens of deltas, one for each, in their order.
LEMMA HeadedType ==
  ASSUME NEW S, NEW ds \in Seq(S)
  PROVE  /\ Headed(ds) \in Seq([type : {"delta"}, body : S]) /\ Len(Headed(ds)) = Len(ds)
         /\ \A k \in 1 .. Len(ds) : Headed(ds)[k] = [type |-> "delta", body |-> ds[k]]
<1> DEFINE T == [type : {"delta"}, body : S]
           h == Headed(ds)
           n == Len(ds)
<1>1. n \in Nat /\ DOMAIN ds = 1 .. n /\ \A k \in 1 .. n : ds[k] \in S
  OBVIOUS
<1>2. h = [k \in 1 .. n |-> [type |-> "delta", body |-> ds[k]]]
  BY <1>1 DEF Headed
<1>3. \A k \in 1 .. n : h[k] = [type |-> "delta", body |-> ds[k]] /\ h[k] \in T
  BY <1>1, <1>2
<1>4. h = [k \in 1 .. n |-> h[k]]
  BY <1>2
<1> HIDE DEF T, h, n
<1>5. h \in Seq(T) /\ Len(h) = n
  BY <1>1, <1>3, <1>4, Listed
<1> QED
  BY <1>3, <1>5 DEF T, h, n

LEMMA HeadedTokens ==
  ASSUME NEW ds \in Seq(Sent)
  PROVE  Headed(ds) \in Tokens
<1> DEFINE S == [type : {"text", "reasoning", "delta", "finish", "usage"}, body : Bodies]
           T == [type : {"delta"}, body : Sent]
           h == Headed(ds)
<1>1. h \in Seq(T)
  BY HeadedType
<1>2. T \subseteq S
  BY DEF Bodies, Sent
<1> HIDE DEF S, T, h
<1>3. h \in Seq(S)
  BY <1>1, <1>2
<1> QED
  BY <1>3 DEF Tokens, S, h

LEMMA HeadedBoth ==
  ASSUME NEW S, NEW a \in Seq(S), NEW b \in Seq(S)
  PROVE  Headed(a \o b) = Headed(a) \o Headed(b)
<1> DEFINE T == [type : {"delta"}, body : S]
           L == Len(a)
           M == Len(b)
           c == a \o b
           p == Headed(a)
           q == Headed(b)
           v == Headed(c)
           w == p \o q
<1>1. /\ L \in Nat /\ M \in Nat /\ c \in Seq(S) /\ Len(c) = L + M
      /\ \A k \in 1 .. L + M : c[k] = IF k <= L THEN a[k] ELSE b[k - L]
  BY JoinBoth DEF L, M
<1> HIDE DEF c
<1>2. /\ p \in Seq(T) /\ Len(p) = L /\ \A k \in 1 .. L : p[k] = [type |-> "delta", body |-> a[k]]
  BY HeadedType
<1>3. /\ q \in Seq(T) /\ Len(q) = M /\ \A k \in 1 .. M : q[k] = [type |-> "delta", body |-> b[k]]
  BY HeadedType
<1>4. /\ v \in Seq(T) /\ Len(v) = L + M /\ \A k \in 1 .. L + M : v[k] = [type |-> "delta", body |-> c[k]]
  BY <1>1, HeadedType
<1> HIDE DEF T, p, q, v, L, M
<1>5. /\ w \in Seq(T) /\ Len(w) = L + M
      /\ \A k \in 1 .. L + M : w[k] = IF k <= L THEN p[k] ELSE q[k - L]
  <2>1. w \in Seq(T)
    BY <1>2, <1>3
  <2>2. Len(w) = Len(p) + Len(q) /\ \A k \in 1 .. Len(p) + Len(q) : w[k] = IF k <= Len(p) THEN p[k] ELSE q[k - Len(p)]
    BY <1>2, <1>3, JoinBoth
  <2> QED
    BY <1>2, <1>3, <2>1, <2>2
<1> HIDE DEF w
<1>6. ASSUME NEW k \in 1 .. L + M PROVE w[k] = v[k]
  <2>1. CASE k <= L
    <3>1. k \in 1 .. L
      BY <1>1, <2>1
    <3> QED
      BY <1>1, <1>2, <1>4, <1>5, <2>1, <3>1
  <2>2. CASE ~(k <= L)
    <3>1. k - L \in 1 .. M
      BY <1>1, <2>2
    <3> QED
      BY <1>1, <1>3, <1>4, <1>5, <2>2, <3>1
  <2> QED
    BY <2>1, <2>2
<1>7. w = v
  BY <1>4, <1>5, <1>6, SameList
<1> QED
  BY <1>7 DEF p, q, v, c, w

Cutting == {<<>>, <<1>>, <<2>>, <<1, 2>>}

\* The first piece of a call is the first that comes of it.
Fits(before, pieces) == /\ pieces \in {<<1>>, <<1, 2>>} => before = <<>>
                        /\ pieces = <<2>> => before # <<>>

\* The deltas of a call, piece by piece.
LEMMA DeltasType ==
  ASSUME NEW i \in 1 .. Width, NEW pieces \in Cutting
  PROVE  /\ Deltas(i, pieces) \in Seq(Sent)
         /\ pieces = <<>> => Deltas(i, pieces) = <<>>
         /\ pieces = <<1>> => Deltas(i, pieces) = <<Piece(i, 1)>>
         /\ pieces = <<2>> => Deltas(i, pieces) = <<Piece(i, 2)>>
         /\ pieces = <<1, 2>> => Deltas(i, pieces) = <<Piece(i, 1)>> \o <<Piece(i, 2)>>
<1>1. Width \in Nat
  BY LoopAssumption
<1>2. \A p \in 1 .. 2 : Piece(i, p) \in Sent
  BY <1>1 DEF Piece, Sent
<1>3. pieces \in Seq(1 .. 2)
  <2>1. <<>> \in Seq(1 .. 2) /\ <<1>> \in Seq(1 .. 2) /\ <<2>> \in Seq(1 .. 2) /\ <<1, 2>> \in Seq(1 .. 2)
    OBVIOUS
  <2> QED
    BY <2>1 DEF Cutting
<1> DEFINE ds == Deltas(i, pieces)
           n == Len(pieces)
<1>4. n \in Nat /\ DOMAIN pieces = 1 .. n /\ \A k \in 1 .. n : pieces[k] \in 1 .. 2
  BY <1>3
<1>5. ds = [k \in 1 .. n |-> Piece(i, pieces[k])]
  BY <1>4 DEF Deltas, Piece
<1>6. ds = [k \in 1 .. n |-> ds[k]] /\ \A k \in 1 .. n : ds[k] = Piece(i, pieces[k])
  BY <1>5
<1> HIDE DEF ds, n
<1>7. ds \in Seq(Sent) /\ Len(ds) = n
  BY <1>2, <1>4, <1>6, Listed
<1>8. pieces = <<>> => ds = <<>>
  BY <1>7 DEF n
<1>9. ASSUME NEW p \in 1 .. 2, pieces = <<p>> PROVE ds = <<Piece(i, p)>>
  <2>1. n = 1 /\ pieces[1] = p
    BY <1>9 DEF n
  <2> DEFINE e == Piece(i, p)
  <2>2. ds[1] = e /\ e \in Sent
    BY <1>2, <1>6, <2>1
  <2> HIDE DEF e
  <2>3. <<e>> \in Seq(Sent) /\ Len(<<e>>) = 1 /\ <<e>>[1] = e
    BY <2>2
  <2>4. \A k \in 1 .. 1 : ds[k] = <<e>>[k]
    BY <2>2, <2>3
  <2>5. ds = <<e>>
    BY <1>7, <2>1, <2>3, <2>4, SameList
  <2> QED
    BY <2>5 DEF e
<1>10. ASSUME pieces = <<1, 2>> PROVE ds = <<Piece(i, 1)>> \o <<Piece(i, 2)>>
  <2>1. n = 2 /\ pieces[1] = 1 /\ pieces[2] = 2
    BY <1>10 DEF n
  <2> DEFINE e == Piece(i, 1)
             f == Piece(i, 2)
             c == <<e>> \o <<f>>
  <2>2. ds[1] = e /\ e \in Sent /\ ds[2] = f /\ f \in Sent
    BY <1>2, <1>6, <2>1
  <2> HIDE DEF e, f
  <2>3. c \in Seq(Sent) /\ Len(c) = 2 /\ c[1] = e /\ c[2] = f
    BY <2>2
  <2> HIDE DEF c
  <2>4. \A k \in 1 .. 2 : ds[k] = c[k]
    BY <2>2, <2>3
  <2>5. ds = c
    BY <1>7, <2>1, <2>3, <2>4, SameList
  <2> QED
    BY <2>5 DEF e, f, c
<1> QED
  BY <1>7, <1>8, <1>9, <1>10 DEF ds

\* The tokens turn the accumulators a into b, and touch nothing else.
Accrues(a, tokens, b) == \A x, r, f, u : Taken(Sofar(x, r, a, f, u), tokens) = Sofar(x, r, b, f, u)

LEMMA AccruesNone ==
  ASSUME NEW a
  PROVE  Accrues(a, <<>>, a)
BY TakenNone DEF Accrues

LEMMA AccruesBoth ==
  ASSUME NEW a, NEW b, NEW c, NEW first \in Tokens, NEW second \in Tokens, Accrues(a, first, b), Accrues(b, second, c)
  PROVE  Accrues(a, first \o second, c)
<1> SUFFICES ASSUME NEW x, NEW r, NEW f, NEW u
             PROVE  Taken(Sofar(x, r, a, f, u), first \o second) = Sofar(x, r, c, f, u)
  BY DEF Accrues
<1> DEFINE turn == Sofar(x, r, a, f, u)
<1>1. Taken(turn, first) = Sofar(x, r, b, f, u) /\ Taken(Sofar(x, r, b, f, u), second) = Sofar(x, r, c, f, u)
  BY DEF Accrues
<1> HIDE DEF turn
<1>2. Taken(turn, first \o second) = Taken(Taken(turn, first), second)
  BY TakenBoth DEF Tokens
<1> QED
  BY <1>1, <1>2 DEF turn

LEMMA PieceTaken ==
  ASSUME NEW g, Gathered(g), NEW i \in DOMAIN g, NEW p \in 1 .. 2, p = 1 <=> g[i] = <<>>
  PROVE  Accrues(AccumsOf(g), Headed(<<Piece(i, p)>>), AccumsOf(Grown(g, i, <<p>>)))
<1> SUFFICES ASSUME NEW x, NEW r, NEW f, NEW u
             PROVE  Taken(Sofar(x, r, AccumsOf(g), f, u), Headed(<<Piece(i, p)>>))
                      = Sofar(x, r, AccumsOf(Grown(g, i, <<p>>)), f, u)
  BY DEF Accrues
<1> DEFINE turn == Sofar(x, r, AccumsOf(g), f, u)
           d == Piece(i, p)
           e == [type |-> "delta", body |-> d]
           h == Grown(g, i, <<p>>)
<1>1. Headed(<<d>>) = <<e>>
  <2> HIDE DEF d
  <2> QED
    BY DEF Headed
<1>2. Take(turn, e) = Sofar(x, r, Delta(AccumsOf(g), d), f, u)
  BY DEF Take, Sofar
<1>3. Delta(AccumsOf(g), d) = AccumsOf(h)
  BY DeltaAdds
<1> HIDE DEF e, turn
<1>4. Taken(turn, <<e>>) = Take(turn, e)
  BY TakenOne
<1> HIDE DEF d, h
<1> QED
  BY <1>1, <1>2, <1>3, <1>4 DEF turn, d, h

\* The deltas of one call add the pieces they bring.
LEMMA PiecesTaken ==
  ASSUME NEW g, Gathered(g), NEW i \in DOMAIN g, NEW pieces \in Cutting, Fits(g[i], pieces)
  PROVE  Accrues(AccumsOf(g), Headed(Deltas(i, pieces)), AccumsOf(Grown(g, i, pieces)))
<1>0. i \in 1 .. Width /\ g[i] \in Seq(1 .. 2) /\ g = [j \in DOMAIN g |-> g[j]]
  BY DEF Gathered
<1>1. CASE pieces = <<>>
  <2>1. Headed(<<>>) = <<>>
    BY DEF Headed
  <2>2. Grown(g, i, <<>>) = g
    BY <1>0 DEF Grown
  <2>3. Deltas(i, pieces) = <<>>
    BY <1>0, <1>1, DeltasType
  <2> QED
    BY <1>1, <2>1, <2>2, <2>3, AccruesNone
<1>2. CASE pieces = <<1>>
  <2>1. g[i] = <<>> /\ 1 \in 1 .. 2
    BY <1>2 DEF Fits
  <2>2. Deltas(i, pieces) = <<Piece(i, 1)>>
    BY <1>0, <1>2, DeltasType
  <2> QED
    BY <1>2, <2>1, <2>2, PieceTaken
<1>3. CASE pieces = <<2>>
  <2>1. g[i] # <<>> /\ 2 \in 1 .. 2 /\ 2 # 1
    BY <1>3 DEF Fits
  <2>2. Deltas(i, pieces) = <<Piece(i, 2)>>
    BY <1>0, <1>3, DeltasType
  <2> QED
    BY <1>3, <2>1, <2>2, PieceTaken
<1>4. CASE pieces = <<1, 2>>
  <2> DEFINE k == Grown(g, i, <<1>>)
             a == <<Piece(i, 1)>>
             b == <<Piece(i, 2)>>
  <2>1. g[i] = <<>> /\ Gathered(k) /\ i \in DOMAIN k /\ k[i] # <<>> /\ 1 \in 1 .. 2 /\ 2 \in 1 .. 2 /\ 2 # 1
    BY <1>0, <1>4 DEF Fits, Grown, Gathered
  <2>2. Deltas(i, pieces) = a \o b
    BY <1>0, <1>4, DeltasType
  <2>3. a \in Seq(Sent) /\ b \in Seq(Sent)
    <3>1. Width \in Nat
      BY LoopAssumption
    <3>2. Piece(i, 1) \in Sent /\ Piece(i, 2) \in Sent
      BY <1>0, <3>1 DEF Piece, Sent
    <3> QED
      BY <3>2
  <2>4. Accrues(AccumsOf(g), Headed(a), AccumsOf(k))
    BY <2>1, PieceTaken
  <2> HIDE DEF k
  <2>5. Accrues(AccumsOf(k), Headed(b), AccumsOf(Grown(k, i, <<2>>)))
    BY <2>1, PieceTaken
  <2>6. Grown(k, i, <<2>>) = Grown(g, i, <<1, 2>>)
    BY <1>0, <2>1 DEF k, Grown
  <2> HIDE DEF a, b
  <2>7. Headed(a \o b) = Headed(a) \o Headed(b) /\ Headed(a) \in Tokens /\ Headed(b) \in Tokens
    BY <2>3, HeadedBoth, HeadedTokens
  <2> QED
    BY <1>4, <2>2, <2>4, <2>5, <2>6, <2>7, AccruesBoth
<1> QED
  BY <1>1, <1>2, <1>3, <1>4 DEF Cutting

\* h flattens the n sequences one by one.
Flattens(h, seqs, n) == /\ h[0] = <<>> /\ FlattenSeq(seqs) = h[n]
                        /\ \A k \in 1 .. n : h[k] = h[k - 1] \o seqs[k]

\* Flattening is joining from the left.
LEMMA FlattenSteps ==
  ASSUME NEW S, NEW n \in Nat, NEW seqs, seqs = [k \in 1 .. n |-> seqs[k]], \A k \in 1 .. n : seqs[k] \in Seq(S)
  PROVE  \E h : Flattens(h, seqs, n)
<1> DEFINE Eq(h, m) == h = [k \in 1 .. m |-> IF k = 1 THEN seqs[k] ELSE h[k - 1] \o seqs[k]]
           P == {m \in Nat : \E h : Eq(h, m)}
           d == CHOOSE h : Eq(h, n)
<1>1. seqs \in Seq(Seq(S)) /\ Len(seqs) = n /\ DOMAIN seqs = 1 .. n
  BY Listed
<1>2. 0 \in P
  <2>1. Eq([k \in 1 .. 0 |-> <<>>], 0)
    OBVIOUS
  <2> QED
    BY <2>1
<1>3. ASSUME NEW m \in Nat, m \in P PROVE m + 1 \in P
  <2>1. PICK h : Eq(h, m)
    BY <1>3
  <2> DEFINE g == [k \in 1 .. m + 1 |-> IF k = m + 1 THEN IF k = 1 THEN seqs[k] ELSE h[k - 1] \o seqs[k] ELSE h[k]]
             e == [k \in 1 .. m + 1 |-> IF k = 1 THEN seqs[k] ELSE g[k - 1] \o seqs[k]]
  <2>2. ASSUME NEW k \in 1 .. m + 1 PROVE g[k] = e[k]
    <3>1. k # 1 => k - 1 \in 1 .. m /\ k - 1 \in 1 .. m + 1 /\ k - 1 # m + 1
      BY <2>2
    <3>2. k # 1 => g[k - 1] = h[k - 1]
      BY <3>1
    <3>3. e[k] = IF k = 1 THEN seqs[k] ELSE g[k - 1] \o seqs[k]
      OBVIOUS
    <3>4. g[k] = IF k = m + 1 THEN IF k = 1 THEN seqs[k] ELSE h[k - 1] \o seqs[k] ELSE h[k]
      OBVIOUS
    <3>5. k # m + 1 => h[k] = IF k = 1 THEN seqs[k] ELSE h[k - 1] \o seqs[k]
      <4>1. k # m + 1 => k \in 1 .. m
        BY <2>2
      <4> HIDE DEF g, e
      <4> QED
        BY <2>1, <4>1
    <3> HIDE DEF g, e, Eq
    <3> QED
      BY <3>2, <3>3, <3>4, <3>5
  <2>3. g = e
    <3>1. g = [k \in 1 .. m + 1 |-> g[k]] /\ e = [k \in 1 .. m + 1 |-> e[k]]
      OBVIOUS
    <3> HIDE DEF g, e
    <3> QED
      BY <2>2, <3>1
  <2>4. Eq(g, m + 1)
    <3> HIDE DEF g
    <3> QED
      BY <2>3
  <2> HIDE DEF g, e, Eq
  <2>5. m + 1 \in Nat /\ \E f : Eq(f, m + 1)
    BY <2>4
  <2> QED
    BY <2>5
<1> HIDE DEF P
<1>4. n \in P
  BY <1>2, <1>3, Facts!Induction
<1>5. \E h : Eq(h, n)
  BY <1>4 DEF P
<1>6. Eq(d, n)
  BY <1>5
<1> DEFINE h == [k \in 0 .. n |-> IF k = 0 THEN <<>> ELSE d[k]]
<1>7. FlattenSeq(seqs) = IF n = 0 THEN seqs ELSE d[n]
  BY <1>1 DEF FlattenSeq
<1>8. n = 0 => seqs = <<>>
  BY <1>1
<1> HIDE DEF d
<1>9. h[0] = <<>> /\ h[n] = IF n = 0 THEN <<>> ELSE d[n]
  OBVIOUS
<1>10. ASSUME NEW k \in 1 .. n PROVE h[k] = h[k - 1] \o seqs[k]
  <2>1. k \in 0 .. n /\ k # 0 /\ k - 1 \in 0 .. n /\ (k = 1 => k - 1 = 0) /\ (k # 1 => k - 1 # 0)
    OBVIOUS
  <2>2. d[k] = IF k = 1 THEN seqs[k] ELSE d[k - 1] \o seqs[k]
    BY <1>6
  <2>3. h[k] = d[k] /\ h[k - 1] = IF k = 1 THEN <<>> ELSE d[k - 1]
    BY <2>1
  <2> HIDE DEF h
  <2>4. <<>> \o seqs[k] = seqs[k]
    OBVIOUS
  <2> QED
    BY <2>2, <2>3, <2>4
<1> HIDE DEF h
<1> QED
  BY <1>7, <1>8, <1>9, <1>10 DEF Flattens

\* The n places of order have each member of I once.
Lists(order, I, n) == /\ order \in [1 .. n -> I]
                      /\ \A i \in I : \E k \in 1 .. n : order[k] = i
                      /\ \A j, k \in 1 .. n : order[j] = order[k] => j = k

\* An order of the calls has each of them once.
LEMMA OrderComplete ==
  ASSUME NEW I, I \subseteq 1 .. Width, NEW order \in SetToSeqs(I)
  PROVE  \E n \in Nat : Lists(order, I, n)
<1> DEFINE n == Cardinality(I)
           D == 1 .. n
<1>1. IsFiniteSet(I)
  <2>1. Width \in Nat
    BY LoopAssumption
  <2>2. IsFiniteSet(1 .. Width)
    BY <2>1, FS_Interval
  <2> QED
    BY <2>2, FS_Subset
<1>2. n \in Nat
  BY <1>1, FS_CardinalityType
<1>3. IsFiniteSet(D) /\ Cardinality(D) = n
  <2> HIDE DEF n
  <2>1. 0 \in Int /\ 1 \in Int /\ n \in Int
    BY <1>2
  <2>2. IsFiniteSet(1 .. n) /\ Cardinality(1 .. n) = IF 1 > n THEN 0 ELSE n - 1 + 1
    BY <2>1, FS_Interval
  <2> QED
    BY <1>2, <2>2
<1>4. order \in [D -> I] /\ \A j, k \in D : j # k => order[j] # order[k]
  BY DEF SetToSeqs
<1> HIDE DEF D
<1>5. order \in Injection(D, I)
  BY <1>4 DEF Injection, IsInjective
<1>6. order \in Surjection(D, I)
  BY <1>1, <1>3, <1>5, FS_Injection
<1>7. \A i \in I : \E k \in D : order[k] = i
  BY <1>6 DEF Surjection
<1> HIDE DEF n
<1> QED
  BY <1>2, <1>4, <1>7 DEF D, Lists

\* The deltas of a chunk, its calls in any order, add the pieces of each.
LEMMA OrderTaken ==
  ASSUME NEW g, Gathered(g), NEW order \in SetToSeqs(DOMAIN g), NEW P \in [DOMAIN g -> Cutting],
         \A i \in DOMAIN g : Fits(g[i], P[i])
  PROVE  LET ds == FlattenSeq([k \in DOMAIN order |-> Deltas(order[k], P[order[k]])])
         IN  /\ ds \in Seq(Sent)
             /\ Accrues(AccumsOf(g), Headed(ds), AccumsOf([i \in DOMAIN g |-> g[i] \o P[i]]))
<1> DEFINE I == DOMAIN g
<1>0. I \subseteq 1 .. Width
  BY DEF Gathered
<1>b. PICK n \in Nat : Lists(order, I, n)
  BY <1>0, OrderComplete
<1>1. /\ order \in [1 .. n -> I]
      /\ \A i \in I : \E k \in 1 .. n : order[k] = i
      /\ \A j, k \in 1 .. n : order[j] = order[k] => j = k
  BY <1>b DEF Lists
<1> DEFINE seqs == [k \in 1 .. n |-> Deltas(order[k], P[order[k]])]
<1>2. \A k \in 1 .. n : /\ order[k] \in I /\ order[k] \in 1 .. Width /\ P[order[k]] \in Cutting
                        /\ seqs[k] = Deltas(order[k], P[order[k]])
  BY <1>1 DEF Gathered
<1>3. \A k \in 1 .. n : seqs[k] \in Seq(Sent)
  BY <1>2, DeltasType
<1>4. seqs = [k \in 1 .. n |-> seqs[k]] /\ DOMAIN order = 1 .. n
  BY <1>1
<1>5. FlattenSeq([k \in DOMAIN order |-> Deltas(order[k], P[order[k]])]) = FlattenSeq(seqs)
  BY <1>4
<1> HIDE DEF seqs
<1>a. PICK h : Flattens(h, seqs, n)
  BY <1>3, <1>4, FlattenSteps
<1>6. /\ h[0] = <<>> /\ FlattenSeq(seqs) = h[n]
      /\ \A k \in 1 .. n : h[k] = h[k - 1] \o seqs[k]
  BY <1>a DEF Flattens
<1> DEFINE G(m) == [i \in I |-> IF \E k \in 1 .. m : order[k] = i THEN g[i] \o P[i] ELSE g[i]]
           Good(m) == h[m] \in Seq(Sent) /\ Accrues(AccumsOf(g), Headed(h[m]), AccumsOf(G(m)))
           Done == {m \in Nat : m <= n => Good(m)}
<1>7. \A i \in I : g[i] \in Seq(1 .. 2) /\ P[i] \in Seq(1 .. 2) /\ g[i] \o P[i] \in Seq(1 .. 2)
  <2>1. <<>> \in Seq(1 .. 2) /\ <<1>> \in Seq(1 .. 2) /\ <<2>> \in Seq(1 .. 2) /\ <<1, 2>> \in Seq(1 .. 2)
    OBVIOUS
  <2>2. Cutting \subseteq Seq(1 .. 2)
    BY <2>1 DEF Cutting
  <2>3. \A i \in I : g[i] \in Seq(1 .. 2) /\ P[i] \in Seq(1 .. 2)
    BY <2>2 DEF Gathered
  <2> QED
    BY <2>3
<1>8. 0 \in Done
  <2>1. g = [i \in I |-> g[i]]
    BY DEF Gathered
  <2>2. G(0) = g
    BY <2>1
  <2>3. Headed(<<>>) = <<>> /\ <<>> \in Seq(Sent)
    BY DEF Headed
  <2> HIDE DEF G, I
  <2>4. Good(0)
    BY <1>6, <2>2, <2>3, AccruesNone
  <2> HIDE DEF Good
  <2> QED
    BY <2>4
<1>9. ASSUME NEW m \in Nat, m \in Done PROVE m + 1 \in Done
  <2> SUFFICES ASSUME m + 1 <= n PROVE Good(m + 1)
    OBVIOUS
  <2> DEFINE i == order[m + 1]
             b == G(m)
  <2>1. m + 1 \in 1 .. n /\ (m + 1) - 1 = m /\ Good(m)
    BY <1>9
  <2>2. i \in I /\ P[i] \in Cutting /\ seqs[m + 1] = Deltas(i, P[i])
    BY <1>2, <2>1
  <2>3. ~\E k \in 1 .. m : order[k] = i
    BY <1>1, <2>1
  <2>4. DOMAIN b = I /\ b[i] = g[i] /\ Gathered(b)
    BY <1>7, <2>2, <2>3 DEF Gathered
  <2>5. Grown(b, i, P[i]) = G(m + 1)
    <3> DEFINE c == Grown(b, i, P[i])
               e == G(m + 1)
    <3>1. c = [j \in I |-> IF j = i THEN g[i] \o P[i] ELSE b[j]]
      BY <2>2, <2>4 DEF Grown
    <3>2. ASSUME NEW j \in I PROVE c[j] = e[j]
      <4>1. e[j] = IF \E k \in 1 .. m + 1 : order[k] = j THEN g[j] \o P[j] ELSE g[j]
        OBVIOUS
      <4>2. b[j] = IF \E k \in 1 .. m : order[k] = j THEN g[j] \o P[j] ELSE g[j]
        OBVIOUS
      <4>3. (\E k \in 1 .. m + 1 : order[k] = j) <=> (j = i \/ \E k \in 1 .. m : order[k] = j)
        BY <2>1
      <4>4. c[j] = IF j = i THEN g[i] \o P[i] ELSE b[j]
        BY <3>1
      <4> HIDE DEF c, e, b
      <4> QED
        BY <4>1, <4>2, <4>3, <4>4
    <3>3. c = [j \in I |-> c[j]] /\ e = [j \in I |-> e[j]]
      <4>1. e = [j \in I |-> e[j]]
        OBVIOUS
      <4> HIDE DEF e
      <4> QED
        BY <3>1, <4>1
    <3> HIDE DEF c, e
    <3>4. c = e
      BY <3>2, <3>3
    <3> QED
      BY <3>4 DEF c, e
  <2>6. Fits(b[i], P[i])
    BY <2>2, <2>4
  <2>7. Accrues(AccumsOf(g), Headed(h[m]), AccumsOf(b)) /\ h[m] \in Seq(Sent)
    BY <2>1
  <2> HIDE DEF b, G, Good
  <2>8. Accrues(AccumsOf(b), Headed(seqs[m + 1]), AccumsOf(G(m + 1)))
    <3>1. i \in DOMAIN b
      BY <2>2, <2>4
    <3> HIDE DEF i, I
    <3> QED
      BY <2>2, <2>4, <2>5, <2>6, <3>1, PiecesTaken
  <2>9. h[m + 1] = h[m] \o seqs[m + 1] /\ seqs[m + 1] \in Seq(Sent)
    BY <1>3, <1>6, <2>1
  <2>10. /\ Headed(h[m + 1]) = Headed(h[m]) \o Headed(seqs[m + 1])
         /\ Headed(h[m]) \in Tokens /\ Headed(seqs[m + 1]) \in Tokens /\ h[m + 1] \in Seq(Sent)
    BY <2>7, <2>9, HeadedBoth, HeadedTokens
  <2>11. Accrues(AccumsOf(g), Headed(h[m + 1]), AccumsOf(G(m + 1)))
    BY <2>7, <2>8, <2>10, AccruesBoth
  <2> QED
    BY <2>10, <2>11 DEF Good
<1> HIDE DEF Done
<1>10. n \in Done
  BY <1>8, <1>9, Facts!Induction
<1>11. Good(n)
  BY <1>10 DEF Done
<1>12. G(n) = [i \in I |-> g[i] \o P[i]]
  BY <1>1
<1> QED
  BY <1>5, <1>6, <1>11, <1>12

\* What a chunk brings: pieces of text and reasoning, deltas, the finish
\* reason and the usage, or not.
Chunks == [content : Seq(1 .. 2), reasoning : Seq(1 .. 2), tool_calls : Seq(Sent),
           finish : Finishes, usage : {1, Nothing}]

\* The turn that a chunk leaves, with or without its reasoning.
Onward(x, r, a, f, u, chunk, b, thought) ==
  Sofar(x \o chunk.content, IF thought THEN r \o chunk.reasoning ELSE r, b,
        IF chunk.finish = "None" THEN f ELSE chunk.finish, IF chunk.usage = Nothing THEN u ELSE chunk.usage)

\* The tokens of a provider's chunk, and what they do to every turn.
TokensOf(chunk, deepSeek) == IF deepSeek THEN DeepSeekTokens(chunk) ELSE OpenAITokens(chunk)
Brings(a, chunk, deepSeek, b) ==
  \A x, r \in Seq(1 .. 2) : \A f, u :
    Taken(Sofar(x, r, a, f, u), TokensOf(chunk, deepSeek)) = Onward(x, r, a, f, u, chunk, b, deepSeek)

LEMMA JoinTokens ==
  ASSUME NEW a \in Tokens, NEW b \in Tokens
  PROVE  a \o b \in Tokens /\ \A turn : Taken(turn, a \o b) = Taken(Taken(turn, a), b)
BY TakenBoth DEF Tokens

\* The tokens of a chunk of either provider are tokens.
LEMMA ChunkTokens ==
  ASSUME NEW chunk \in Chunks
  PROVE  /\ Token("text", chunk.content, <<>>) \in Tokens
         /\ Token("reasoning", chunk.reasoning, <<>>) \in Tokens
         /\ Token("finish", chunk.finish, "None") \in Tokens
         /\ Token("usage", chunk.usage, Nothing) \in Tokens
         /\ Headed(chunk.tool_calls) \in Tokens
         /\ Content(chunk) = Token("text", chunk.content, <<>>) \o Headed(chunk.tool_calls)
<1>1. /\ chunk.content \in Seq(1 .. 2) /\ chunk.reasoning \in Seq(1 .. 2) /\ chunk.tool_calls \in Seq(Sent)
      /\ chunk.finish \in Finishes /\ chunk.usage \in {1, Nothing}
  BY DEF Chunks
<1>2. chunk.content \in Bodies /\ chunk.reasoning \in Bodies /\ chunk.finish \in Bodies /\ chunk.usage \in Bodies
  BY <1>1 DEF Bodies
<1>3. Headed(chunk.tool_calls) \in Tokens
  BY <1>1, HeadedTokens
<1>4. Content(chunk) = Token("text", chunk.content, <<>>) \o Headed(chunk.tool_calls)
  BY DEF Content, Headed
<1> QED
  BY <1>2, <1>3, <1>4, TokenType

\* The tokens add a text, and turn the accumulators a into b.
Tells(words, a, tokens, b) ==
  \A x, r \in Seq(1 .. 2) : \A f, u : Taken(Sofar(x, r, a, f, u), tokens) = Sofar(x \o words, r, b, f, u)

LEMMA ContentTaken ==
  ASSUME NEW chunk \in Chunks, NEW a, NEW b, Accrues(a, Headed(chunk.tool_calls), b)
  PROVE  Content(chunk) \in Tokens /\ Tells(chunk.content, a, Content(chunk), b)
<1>0. Content(chunk) \in Tokens
  BY ChunkTokens, JoinTokens
<1> SUFFICES ASSUME NEW x \in Seq(1 .. 2), NEW r \in Seq(1 .. 2), NEW f, NEW u
             PROVE  Taken(Sofar(x, r, a, f, u), Content(chunk)) = Sofar(x \o chunk.content, r, b, f, u)
  BY <1>0 DEF Tells
<1> DEFINE p == Token("text", chunk.content, <<>>)
           q == Headed(chunk.tool_calls)
           y == x \o chunk.content
<1>1. p \in Tokens /\ q \in Tokens /\ Content(chunk) = p \o q
  BY ChunkTokens
<1>2. chunk.content \in Seq(1 .. 2)
  BY DEF Chunks
<1>3. Taken(Sofar(x, r, a, f, u), p) = Sofar(y, r, a, f, u)
  BY <1>2, TakenTexts
<1> HIDE DEF y, p
<1>4. Taken(Sofar(y, r, a, f, u), q) = Sofar(y, r, b, f, u)
  BY DEF Accrues
<1> HIDE DEF q
<1>5. p \o q \in Tokens /\ Taken(Sofar(x, r, a, f, u), p \o q) = Taken(Taken(Sofar(x, r, a, f, u), p), q)
  BY <1>1, JoinTokens
<1> QED
  BY <1>1, <1>3, <1>4, <1>5 DEF y

LEMMA DeepSeekTaken ==
  ASSUME NEW chunk \in Chunks, NEW a, NEW b, Accrues(a, Headed(chunk.tool_calls), b)
  PROVE  DeepSeekTokens(chunk) \in Tokens /\ Brings(a, chunk, TRUE, b)
<1>0. DeepSeekTokens(chunk) \in Tokens
  <2>1. Content(chunk) \in Tokens
    BY ContentTaken
  <2> QED
    BY <2>1, ChunkTokens, JoinTokens DEF DeepSeekTokens
<1> SUFFICES ASSUME NEW x \in Seq(1 .. 2), NEW r \in Seq(1 .. 2), NEW f, NEW u
             PROVE  Taken(Sofar(x, r, a, f, u), DeepSeekTokens(chunk)) = Onward(x, r, a, f, u, chunk, b, TRUE)
  BY <1>0 DEF Brings, TokensOf
<1> DEFINE p == Token("finish", chunk.finish, "None")
           q == Token("reasoning", chunk.reasoning, <<>>)
           c == Content(chunk)
           w == Token("usage", chunk.usage, Nothing)
           g == IF chunk.finish = "None" THEN f ELSE chunk.finish
           v == IF chunk.usage = Nothing THEN u ELSE chunk.usage
           y == x \o chunk.content
           s == r \o chunk.reasoning
           turn == Sofar(x, r, a, f, u)
<1>1. p \in Tokens /\ q \in Tokens /\ w \in Tokens /\ DeepSeekTokens(chunk) = ((p \o q) \o c) \o w
  BY ChunkTokens DEF DeepSeekTokens
<1>2. chunk.content \in Seq(1 .. 2) /\ chunk.reasoning \in Seq(1 .. 2) /\ s \in Seq(1 .. 2)
  BY DEF Chunks
<1>3. Taken(turn, p) = Sofar(x, r, a, g, u)
  BY TakenMarks
<1> HIDE DEF g
<1>4. Taken(Sofar(x, r, a, g, u), q) = Sofar(x, s, a, g, u)
  BY <1>2, TakenTexts
<1> HIDE DEF s, p, q
<1>5. c \in Tokens /\ Taken(Sofar(x, s, a, g, u), c) = Sofar(y, s, b, g, u)
  <2>1. c \in Tokens /\ Tells(chunk.content, a, c, b)
    BY ContentTaken
  <2> QED
    BY <1>2, <2>1 DEF Tells
<1> HIDE DEF c, y
<1>6. Taken(Sofar(y, s, b, g, u), w) = Sofar(y, s, b, g, v)
  BY TakenMarks
<1> HIDE DEF v, w, turn
<1>7. p \o q \in Tokens /\ Taken(turn, p \o q) = Sofar(x, s, a, g, u)
  BY <1>1, <1>3, <1>4, JoinTokens
<1> DEFINE k == p \o q
<1> HIDE DEF k
<1>8. k \o c \in Tokens /\ Taken(turn, k \o c) = Sofar(y, s, b, g, u)
  BY <1>5, <1>7, JoinTokens DEF k
<1> DEFINE m == k \o c
<1> HIDE DEF m
<1>9. m \o w \in Tokens /\ Taken(turn, m \o w) = Sofar(y, s, b, g, v)
  BY <1>1, <1>6, <1>8, JoinTokens DEF m
<1> QED
  BY <1>1, <1>9 DEF Onward, turn, y, s, g, v, m, k

LEMMA OpenAITaken ==
  ASSUME NEW chunk \in Chunks, NEW a, NEW b, Accrues(a, Headed(chunk.tool_calls), b)
  PROVE  OpenAITokens(chunk) \in Tokens /\ Brings(a, chunk, FALSE, b)
<1>0. OpenAITokens(chunk) \in Tokens
  <2>1. Content(chunk) \in Tokens
    BY ContentTaken
  <2> QED
    BY <2>1, ChunkTokens, JoinTokens DEF OpenAITokens
<1> SUFFICES ASSUME NEW x \in Seq(1 .. 2), NEW r \in Seq(1 .. 2), NEW f, NEW u
             PROVE  Taken(Sofar(x, r, a, f, u), OpenAITokens(chunk)) = Onward(x, r, a, f, u, chunk, b, FALSE)
  BY <1>0 DEF Brings, TokensOf
<1> DEFINE p == Token("usage", chunk.usage, Nothing)
           q == Token("finish", chunk.finish, "None")
           c == Content(chunk)
           g == IF chunk.finish = "None" THEN f ELSE chunk.finish
           v == IF chunk.usage = Nothing THEN u ELSE chunk.usage
           y == x \o chunk.content
           turn == Sofar(x, r, a, f, u)
<1>1. p \in Tokens /\ q \in Tokens /\ OpenAITokens(chunk) = (p \o q) \o c
  BY ChunkTokens DEF OpenAITokens
<1>2. Taken(turn, p) = Sofar(x, r, a, f, v)
  BY TakenMarks
<1> HIDE DEF v
<1>3. Taken(Sofar(x, r, a, f, v), q) = Sofar(x, r, a, g, v)
  BY TakenMarks
<1> HIDE DEF p, q, g
<1>4. c \in Tokens /\ Taken(Sofar(x, r, a, g, v), c) = Sofar(y, r, b, g, v)
  <2>1. c \in Tokens /\ Tells(chunk.content, a, c, b)
    BY ContentTaken
  <2> QED
    BY <2>1 DEF Tells
<1> HIDE DEF c, y, turn
<1>5. p \o q \in Tokens /\ Taken(turn, p \o q) = Sofar(x, r, a, g, v)
  BY <1>1, <1>2, <1>3, JoinTokens
<1> DEFINE k == p \o q
<1> HIDE DEF k
<1>6. k \o c \in Tokens /\ Taken(turn, k \o c) = Sofar(y, r, b, g, v)
  BY <1>4, <1>5, JoinTokens DEF k
<1> QED
  BY <1>1, <1>6 DEF Onward, turn, y, g, v, k

LEMMA ChunkTaken ==
  ASSUME NEW chunk \in Chunks, NEW deepSeek \in BOOLEAN, NEW a, NEW b, Accrues(a, Headed(chunk.tool_calls), b)
  PROVE  TokensOf(chunk, deepSeek) \in Tokens /\ Brings(a, chunk, deepSeek, b)
BY DeepSeekTaken, OpenAITaken DEF TokensOf

\* Two halves of a text, one of which may be empty.
LEMMA Split ==
  ASSUME NEW s \in Splits
  PROVE  /\ s[1] \in Cutting /\ s[2] \in Cutting /\ s[1] \in Seq(1 .. 2) /\ s[2] \in Seq(1 .. 2)
         /\ s[1] \o s[2] = <<1, 2>> /\ <<>> \o s[1] = s[1]
         /\ Fits(<<>>, s[1]) /\ Fits(s[1], s[2])
<1>1. /\ <<>> \in Seq(1 .. 2) /\ <<1>> \in Seq(1 .. 2) /\ <<2>> \in Seq(1 .. 2) /\ <<1, 2>> \in Seq(1 .. 2)
      /\ <<>> \o <<1, 2>> = <<1, 2>> /\ <<1, 2>> \o <<>> = <<1, 2>> /\ <<1>> \o <<2>> = <<1, 2>>
      /\ <<>> \o <<1>> = <<1>> /\ <<>> \o <<2>> = <<2>> /\ <<>> \o <<>> = <<>>
  <2>1. <<>> \in Seq(1 .. 2) /\ <<1>> \in Seq(1 .. 2) /\ <<2>> \in Seq(1 .. 2) /\ <<1, 2>> \in Seq(1 .. 2)
    OBVIOUS
  <2>2. \A e \in Seq(1 .. 2) : <<>> \o e = e /\ e \o <<>> = e
    OBVIOUS
  <2>3. <<1>> \o <<2>> = <<1, 2>>
    <3> DEFINE c == <<1>> \o <<2>>
               d == <<1, 2>>
    <3>1. c \in Seq(1 .. 2) /\ Len(c) = 2 /\ c[1] = 1 /\ c[2] = 2
      OBVIOUS
    <3>2. d \in Seq(1 .. 2) /\ Len(d) = 2 /\ d[1] = 1 /\ d[2] = 2
      OBVIOUS
    <3> HIDE DEF c, d
    <3>3. \A k \in 1 .. 2 : c[k] = d[k]
      BY <3>1, <3>2
    <3>4. c = d
      BY <3>1, <3>2, <3>3, SameList
    <3> QED
      BY <3>4 DEF c, d
  <2> QED
    BY <2>1, <2>2, <2>3
<1>a. /\ <<1>> # <<>> /\ <<2>> # <<>> /\ <<2>> # <<1>> /\ <<2>> # <<1, 2>> /\ <<>> # <<1, 2>>
  OBVIOUS
<1> DEFINE first == s[1]
           second == s[2]
<1>2. \/ first = <<1, 2>> /\ second = <<>>
      \/ first = <<1>> /\ second = <<2>>
      \/ first = <<>> /\ second = <<1, 2>>
  BY DEF Splits
<1> HIDE DEF first, second
<1>3. first \in Cutting /\ second \in Cutting
  BY <1>2 DEF Cutting
<1>4. first \in Seq(1 .. 2) /\ second \in Seq(1 .. 2)
  BY <1>1, <1>2
<1>5. first \o second = <<1, 2>> /\ <<>> \o first = first
  BY <1>1, <1>2
<1>6. Fits(<<>>, first) /\ Fits(first, second)
  BY <1>a, <1>2 DEF Fits
<1> QED
  BY <1>3, <1>4, <1>5, <1>6 DEF first, second

\* Two chunks are received one after the other.
LEMMA TwoReceived ==
  ASSUME NEW chunks, chunks = [n \in 1 .. 2 |-> chunks[n]], NEW deepSeek \in BOOLEAN,
         TokensOf(chunks[1], deepSeek) \in Tokens, TokensOf(chunks[2], deepSeek) \in Tokens
  PROVE  Received(chunks, deepSeek) = TokensOf(chunks[1], deepSeek) \o TokensOf(chunks[2], deepSeek)
<1> DEFINE seqs == [n \in 1 .. 2 |-> TokensOf(chunks[n], deepSeek)]
           S == [type : {"text", "reasoning", "delta", "finish", "usage"}, body : Bodies]
<1>1. Received(chunks, deepSeek) = FlattenSeq(seqs)
  <2>1. DOMAIN chunks = 1 .. 2
    OBVIOUS
  <2> QED
    BY <2>1 DEF Received, TokensOf
<1>2. /\ seqs = [n \in 1 .. 2 |-> seqs[n]] /\ seqs[1] = TokensOf(chunks[1], deepSeek) /\ seqs[2] = TokensOf(chunks[2], deepSeek)
      /\ 2 \in Nat /\ 1 \in 1 .. 2 /\ 2 \in 1 .. 2 /\ \A n \in 1 .. 2 : n = 1 \/ n = 2
  OBVIOUS
<1> HIDE DEF seqs, S
<1>3. \A n \in 1 .. 2 : seqs[n] \in Seq(S)
  BY <1>2 DEF Tokens, S
<1>4. PICK h : Flattens(h, seqs, 2)
  BY <1>2, <1>3, FlattenSteps
<1>5. FlattenSeq(seqs) = h[2] /\ h[0] = <<>> /\ h[1] = h[1 - 1] \o seqs[1] /\ h[2] = h[2 - 1] \o seqs[2] /\ 1 - 1 = 0 /\ 2 - 1 = 1
  BY <1>2, <1>4 DEF Flattens
<1>6. <<>> \o seqs[1] = seqs[1]
  BY <1>2, <1>3
<1> QED
  BY <1>1, <1>2, <1>5, <1>6

LEMMA AssembledTaken ==
  ASSUME NEW tokens
  PROVE  Assembled(tokens) = Taken(Sofar(<<>>, <<>>, <<>>, "None", Nothing), tokens)
BY DEF Assembled, Taken, Sofar

\* What the calls of a turn have given when a chunk of it has gone by.
Given(cut, I, n) == [i \in I |-> IF n = 0 THEN <<>> ELSE IF n = 1 THEN cut.args[i][1] ELSE <<1, 2>>]

\* Each half of a cut turn brings its calls one step further.
LEMMA CutTaken ==
  ASSUME NEW withText \in BOOLEAN, NEW I, I \subseteq 1 .. Width, NEW reason \in Finishes, NEW cut \in Cuts(I),
         NEW n \in 1 .. 2
  PROVE  LET chunk == CutChunk(Turn(withText, I, reason), cut, n)
         IN  chunk \in Chunks /\ Accrues(AccumsOf(Given(cut, I, n - 1)), Headed(chunk.tool_calls), AccumsOf(Given(cut, I, n)))
<1> DEFINE turn == Turn(withText, I, reason)
           chunk == CutChunk(turn, cut, n)
           g == Given(cut, I, n - 1)
           P == [i \in I |-> cut.args[i][n]]
           ds == FlattenSeq([k \in DOMAIN cut.order |-> Deltas(cut.order[k], P[cut.order[k]])])
<1>1. /\ cut.text \in Splits /\ cut.reasoning \in Splits /\ cut.args \in [I -> Splits]
      /\ cut.order \in SetToSeqs(I)
  BY DEF Cuts
<1>2. /\ cut.text[n] \in Seq(1 .. 2) /\ cut.reasoning[n] \in Seq(1 .. 2) /\ <<>> \in Seq(1 .. 2)
  <2>1. n = 1 \/ n = 2
    OBVIOUS
  <2>2. /\ cut.text[1] \in Seq(1 .. 2) /\ cut.text[2] \in Seq(1 .. 2)
        /\ cut.reasoning[1] \in Seq(1 .. 2) /\ cut.reasoning[2] \in Seq(1 .. 2)
    BY <1>1, Split
  <2> QED
    BY <2>1, <2>2
<1>3. \A i \in I : /\ P[i] = cut.args[i][n] /\ P[i] \in Cutting /\ g[i] \in Seq(1 .. 2)
                   /\ Fits(g[i], P[i]) /\ g[i] \o P[i] = Given(cut, I, n)[i]
  <2> SUFFICES ASSUME NEW i \in I
               PROVE  /\ P[i] = cut.args[i][n] /\ P[i] \in Cutting /\ g[i] \in Seq(1 .. 2)
                      /\ Fits(g[i], P[i]) /\ g[i] \o P[i] = Given(cut, I, n)[i]
    OBVIOUS
  <2> DEFINE first == cut.args[i][1]
             second == cut.args[i][2]
  <2>1. cut.args[i] \in Splits
    BY <1>1
  <2>2. /\ first \in Cutting /\ second \in Cutting /\ first \in Seq(1 .. 2)
        /\ first \o second = <<1, 2>> /\ <<>> \o first = first
        /\ Fits(<<>>, first) /\ Fits(first, second)
    BY <2>1, Split
  <2>3. P[i] = IF n = 1 THEN first ELSE second
    OBVIOUS
  <2>4. g[i] = (IF n = 1 THEN <<>> ELSE first) /\ Given(cut, I, n)[i] = IF n = 1 THEN first ELSE <<1, 2>>
    BY DEF Given
  <2>5. P[i] = cut.args[i][n]
    OBVIOUS
  <2> HIDE DEF first, second, g, P
  <2> QED
    BY <1>2, <2>2, <2>3, <2>4, <2>5
<1>4. g = [i \in I |-> g[i]] /\ DOMAIN g = I /\ DOMAIN P = I /\ P = [i \in I |-> P[i]]
  BY DEF Given
<1> HIDE DEF P, g
<1>5. Gathered(g) /\ P \in [DOMAIN g -> Cutting]
  BY <1>3, <1>4 DEF Gathered
<1>6. \A i \in DOMAIN g : Fits(g[i], P[i])
  BY <1>3, <1>4
<1>7. [i \in DOMAIN g |-> g[i] \o P[i]] = Given(cut, I, n)
  <2> DEFINE e == Given(cut, I, n)
             f == [i \in DOMAIN g |-> g[i] \o P[i]]
  <2>1. e = [i \in I |-> e[i]]
    BY DEF Given
  <2>2. f = [i \in I |-> f[i]] /\ \A i \in I : f[i] = g[i] \o P[i]
    BY <1>4
  <2> HIDE DEF e, f
  <2>3. \A i \in I : f[i] = e[i]
    BY <1>3, <2>2 DEF e
  <2>4. f = e
    BY <2>1, <2>2, <2>3
  <2> QED
    BY <2>4 DEF e, f
<1>8. cut.order \in SetToSeqs(DOMAIN g)
  BY <1>1, <1>4
<1>9. ds \in Seq(Sent) /\ Accrues(AccumsOf(g), Headed(ds), AccumsOf([i \in DOMAIN g |-> g[i] \o P[i]]))
  BY <1>5, <1>6, <1>8, OrderTaken
<1>10. FlattenSeq([k \in DOMAIN cut.order |-> Deltas(cut.order[k], cut.args[cut.order[k]][n])]) = ds
  <2>1. \A k \in DOMAIN cut.order : cut.order[k] \in I
    BY <1>1 DEF SetToSeqs
  <2>2. \A k \in DOMAIN cut.order : P[cut.order[k]] = cut.args[cut.order[k]][n]
    BY <1>3, <2>1
  <2>3. [k \in DOMAIN cut.order |-> Deltas(cut.order[k], cut.args[cut.order[k]][n])]
          = [k \in DOMAIN cut.order |-> Deltas(cut.order[k], P[cut.order[k]])]
    BY <2>2
  <2> QED
    BY <2>3
<1>11. turn.finish = reason /\ turn.usage = 1
  BY DEF Turn
<1>12. chunk = [content |-> IF turn.text = <<>> THEN <<>> ELSE cut.text[n], reasoning |-> cut.reasoning[n],
                tool_calls |-> ds, finish |-> IF cut.finish = n THEN turn.finish ELSE "None",
                usage |-> IF cut.usage = n THEN turn.usage ELSE Nothing]
  BY <1>10 DEF CutChunk
<1> HIDE DEF ds, turn, chunk
<1>13. chunk \in Chunks /\ chunk.tool_calls = ds
  BY <1>2, <1>9, <1>11, <1>12 DEF Chunks, Finishes
<1> QED
  BY <1>7, <1>9, <1>13 DEF g, chunk, turn

\* A turn that is cut in two and put together again.
LEMMA CutWhole ==
  ASSUME NEW withText \in BOOLEAN, NEW I, I \subseteq 1 .. Width, NEW reason \in Finishes, NEW cut \in Cuts(I),
         NEW deepSeek \in BOOLEAN
  PROVE  LET turn == Turn(withText, I, reason)
             chunks == [n \in 1 .. 2 |-> CutChunk(turn, cut, n)]
         IN  Assembled(Received(chunks, deepSeek)) = IF deepSeek THEN turn ELSE [turn EXCEPT !.reasoning = <<>>]
<1> DEFINE turn == Turn(withText, I, reason)
           chunks == [n \in 1 .. 2 |-> CutChunk(turn, cut, n)]
           c == chunks[1]
           d == chunks[2]
           a(n) == AccumsOf(Given(cut, I, n))
           s == TokensOf(c, deepSeek)
           t == TokensOf(d, deepSeek)
           none == Sofar(<<>>, <<>>, <<>>, "None", Nothing)
           x(n) == IF withText THEN cut.text[n] ELSE <<>>
           f(n) == IF cut.finish = n THEN reason ELSE "None"
           u(n) == IF cut.usage = n THEN 1 ELSE Nothing
           r(n) == cut.reasoning[n]
           f1 == IF f(1) = "None" THEN "None" ELSE f(1)
           f2 == IF f(2) = "None" THEN f1 ELSE f(2)
           u1 == IF u(1) = Nothing THEN Nothing ELSE u(1)
           u2 == IF u(2) = Nothing THEN u1 ELSE u(2)
           r1 == IF deepSeek THEN <<>> \o r(1) ELSE <<>>
           r2 == IF deepSeek THEN r1 \o r(2) ELSE r1
           x1 == <<>> \o x(1)
           x2 == x1 \o x(2)
<1>1. c = CutChunk(turn, cut, 1) /\ d = CutChunk(turn, cut, 2) /\ chunks = [n \in 1 .. 2 |-> chunks[n]]
  OBVIOUS
<1>2. turn.text = (IF withText THEN <<1, 2>> ELSE <<>>) /\ turn.finish = reason /\ turn.usage = 1
  BY DEF Turn
<1>3. /\ c \in Chunks /\ Accrues(a(0), Headed(c.tool_calls), a(1))
      /\ d \in Chunks /\ Accrues(a(1), Headed(d.tool_calls), a(2))
  <2>1. 1 \in 1 .. 2 /\ 2 \in 1 .. 2 /\ 1 - 1 = 0 /\ 2 - 1 = 1
    OBVIOUS
  <2>2. /\ CutChunk(turn, cut, 1) \in Chunks
        /\ Accrues(AccumsOf(Given(cut, I, 1 - 1)), Headed(CutChunk(turn, cut, 1).tool_calls), AccumsOf(Given(cut, I, 1)))
    BY <2>1, CutTaken
  <2>3. /\ CutChunk(turn, cut, 2) \in Chunks
        /\ Accrues(AccumsOf(Given(cut, I, 2 - 1)), Headed(CutChunk(turn, cut, 2).tool_calls), AccumsOf(Given(cut, I, 2)))
    BY <2>1, CutTaken
  <2> QED
    BY <1>1, <2>1, <2>2, <2>3
<1>4. /\ c.content = x(1) /\ c.reasoning = r(1) /\ c.finish = f(1) /\ c.usage = u(1)
      /\ d.content = x(2) /\ d.reasoning = r(2) /\ d.finish = f(2) /\ d.usage = u(2)
  <2>1. <<1, 2>> # <<>>
    OBVIOUS
  <2> HIDE DEF turn, c, d
  <2> QED
    BY <1>1, <1>2, <2>1 DEF CutChunk
<1>5. /\ x(1) \in Seq(1 .. 2) /\ x(2) \in Seq(1 .. 2) /\ r(1) \in Seq(1 .. 2) /\ r(2) \in Seq(1 .. 2)
      /\ <<>> \in Seq(1 .. 2) /\ x2 = (IF withText THEN <<1, 2>> ELSE <<>>)
      /\ r2 = IF deepSeek THEN <<1, 2>> ELSE <<>>
  <2>1. cut.text \in Splits /\ cut.reasoning \in Splits
    BY DEF Cuts
  <2>2. /\ cut.text[1] \in Seq(1 .. 2) /\ cut.text[2] \in Seq(1 .. 2)
        /\ cut.text[1] \o cut.text[2] = <<1, 2>> /\ <<>> \o cut.text[1] = cut.text[1]
    BY <2>1, Split
  <2>3. /\ cut.reasoning[1] \in Seq(1 .. 2) /\ cut.reasoning[2] \in Seq(1 .. 2)
        /\ cut.reasoning[1] \o cut.reasoning[2] = <<1, 2>> /\ <<>> \o cut.reasoning[1] = cut.reasoning[1]
    BY <2>1, Split
  <2>4. <<>> \in Seq(1 .. 2) /\ <<>> \o <<>> = <<>>
    OBVIOUS
  <2> QED
    BY <2>2, <2>3, <2>4
<1>6. f2 = reason /\ u2 = 1
  <2>1. (cut.finish = 1 \/ cut.finish = 2) /\ (cut.usage = 1 \/ cut.usage = 2)
    BY DEF Cuts
  <2> QED
    BY <2>1
<1>7. a(0) = <<>> /\ a(2) = [i \in I |-> [call_id |-> i, name |-> i, args |-> <<1, 2>>]]
  <2>1. DOMAIN Given(cut, I, 0) = I /\ \A i \in I : Given(cut, I, 0)[i] = <<>>
    BY DEF Given
  <2>2. a(0) = <<>>
    BY <2>1 DEF AccumsOf
  <2>3. DOMAIN Given(cut, I, 2) = I /\ \A i \in I : Given(cut, I, 2)[i] = <<1, 2>>
    BY DEF Given
  <2>4. <<1, 2>> # <<>>
    OBVIOUS
  <2> DEFINE g == Given(cut, I, 2)
  <2>5. {j \in DOMAIN g : g[j] # <<>>} = I
    BY <2>3, <2>4
  <2>6. a(2) = [i \in I |-> [call_id |-> i, name |-> i, args |-> g[i]]]
    BY <2>5 DEF AccumsOf
  <2>7. a(2) = [i \in I |-> [call_id |-> i, name |-> i, args |-> <<1, 2>>]]
    <3> HIDE DEF g, a
    <3> QED
      BY <2>3, <2>6 DEF g
  <2> QED
    BY <2>2, <2>7
<1>8. s \in Tokens /\ Brings(a(0), c, deepSeek, a(1)) /\ t \in Tokens /\ Brings(a(1), d, deepSeek, a(2))
  <2> HIDE DEF c, d, a
  <2> QED
    BY <1>3, ChunkTaken
<1>9. Received(chunks, deepSeek) = s \o t
  <2> HIDE DEF chunks
  <2> QED
    BY <1>1, <1>8, TwoReceived
<1> HIDE DEF chunks, c, d, x, f, u, r, a
<1>10. Taken(none, s) = Sofar(x1, r1, a(1), f1, u1)
  <2>1. Taken(Sofar(<<>>, <<>>, a(0), "None", Nothing), s) = Onward(<<>>, <<>>, a(0), "None", Nothing, c, a(1), deepSeek)
    BY <1>5, <1>8 DEF Brings
  <2>2. Onward(<<>>, <<>>, a(0), "None", Nothing, c, a(1), deepSeek) = Sofar(x1, r1, a(1), f1, u1)
    BY <1>4 DEF Onward
  <2> HIDE DEF x1, r1, f1, u1, s
  <2> QED
    BY <1>7, <2>1, <2>2
<1>11. x1 \in Seq(1 .. 2) /\ r1 \in Seq(1 .. 2)
  BY <1>5
<1> HIDE DEF x1, r1, f1, u1
<1>12. Taken(Sofar(x1, r1, a(1), f1, u1), t) = Sofar(x2, r2, a(2), f2, u2)
  BY <1>4, <1>5, <1>8, <1>11 DEF Brings, Onward
<1> HIDE DEF s, t, none
<1>13. Taken(none, s \o t) = Sofar(x2, r2, a(2), f2, u2)
  BY <1>8, <1>10, <1>12, JoinTokens
<1>14. Assembled(Received(chunks, deepSeek)) = Sofar(x2, r2, a(2), f2, u2)
  BY <1>9, <1>13, AssembledTaken DEF none
<1> HIDE DEF x2, r2, f2, u2
<1>15. Sofar(x2, r2, a(2), f2, u2) = IF deepSeek THEN turn ELSE [turn EXCEPT !.reasoning = <<>>]
  BY <1>5, <1>6, <1>7 DEF Sofar, Turn
<1> QED
  BY <1>14, <1>15 DEF chunks

\* Whatever text, tool calls and finish reason the loop has taken in, each way
\* to cut that turn into two chunks, on DeepSeek's wire or on OpenAI's, gives
\* this turn and no other.
THEOREM TurnsReassembled == Spec => []Reassembled
<1>1. LoopInv => Reassembled
  <2> SUFFICES ASSUME LoopInv PROVE <<text, acc, finish>> \in Healed
    BY DEF Reassembled
  <2> DEFINE t == <<text, acc, finish>>
             turn == Turn(text, acc, finish)
  <2>1. text \in BOOLEAN /\ acc \subseteq 1 .. Width /\ finish \in Finishes
    BY DEF LoopInv, LoopOK
  <2>2. t \in Turns /\ t[1] = text /\ t[2] = acc /\ t[3] = finish
    BY <2>1 DEF Turns
  <2>3. ASSUME NEW cut \in Cuts(acc)
        PROVE  LET chunks == [n \in 1 .. 2 |-> CutChunk(turn, cut, n)]
               IN  /\ Assembled(Received(chunks, TRUE)) = turn
                   /\ Assembled(Received(chunks, FALSE)) = [turn EXCEPT !.reasoning = <<>>]
    <3> DEFINE chunks == [n \in 1 .. 2 |-> CutChunk(turn, cut, n)]
               e == [turn EXCEPT !.reasoning = <<>>]
    <3>1. ASSUME NEW deepSeek \in BOOLEAN
          PROVE  Assembled(Received(chunks, deepSeek)) = IF deepSeek THEN turn ELSE e
      BY <2>1, CutWhole
    <3> HIDE DEF chunks, turn, e
    <3>2. Assembled(Received(chunks, TRUE)) = turn
      BY <3>1
    <3>3. Assembled(Received(chunks, FALSE)) = e
      BY <3>1
    <3> QED
      BY <3>2, <3>3 DEF chunks, turn, e
  <2> HIDE DEF t
  <2> QED
    BY <2>2, <2>3 DEF Healed, t
<1> QED
  BY <1>1, LoopInvariant, PTL
=============================================================================
