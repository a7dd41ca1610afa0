----------------------------- MODULE ReActLoop -----------------------------
(***************************************************************************)
(* The ReAct loop (re_act.rs, ReActLoop::run) of the calls that succeed    *)
(* one another on one session: a call (Agent::send) consumes the idle      *)
(* runtime and gives it back when it is awaited, so one loop at a time     *)
(* works on the session.  The loop talks to the session actor (Session),   *)
(* to the provider's stream, to the tools (what ToolService promises) and, *)
(* through the middleware, to the callbacks and subscribers of the agent.  *)
(* A call may be cancelled at any moment, and the session cleared.         *)
(***************************************************************************)
EXTENDS Naturals, Sequences, SequencesExt

CONSTANTS Width,         \* the largest number of tool calls of one turn
          MaxIterations, \* ReActConfig::max_iterations
          MaxCalls,      \* bound: the calls made on the session
          MaxClears,     \* bound: the times the session is cleared
          MidCallClear,  \* a session_tx kept by the user clears during a call
          Blockable,     \* the kinds of event a middleware may block
          HasSystem,     \* the agent has a system prompt
          Nothing

Kinds    == {"system", "user", "text", "request", "response"}
Results  == {"none", "done", "cancelled"}
Finishes == {"None", "Stop", "ToolCalls", "Length", "Other"}

\* The messages the loop and the agent store, and, with three more kinds,
\* the events they emit: which call and turn they belong to, the index of
\* the tool call and its result stand for the data.
Records(kinds) == [kind : kinds, call : 1 .. MaxCalls, turn : 0 .. MaxIterations,
                   index : 0 .. Width, result : Results]
Message == Records(Kinds)
Event   == Records(Kinds \cup {"turn_start", "turn_end", "cancelled"})

ASSUME LoopAssumption ==
  /\ Width \in Nat
  /\ MaxIterations \in Nat
  /\ MaxCalls \in Nat \ {0}
  /\ MaxClears \in Nat
  /\ MidCallClear \in BOOLEAN
  /\ HasSystem \in BOOLEAN
  /\ Nothing \notin Message \cup Seq(Message) \cup {"loop"}

VARIABLES
  mailbox, msgs, reply,  \* of the session
  pc,         \* where the call is
  call,       \* how many calls were made on the session
  iteration,  \* of the loop
  text,       \* the stream carried assistant text
  acc,        \* the indices of the tool calls accumulated from the stream
  finish,     \* the stream's finish reason
  answer,     \* what ToolBus::execute returned for each of them
  outbox,     \* the set of events filter_and_store has yet to process
  context,    \* the history sent with the last request
  cancelled,  \* the call's token
  emitted,    \* history: the events of the current call, as subscribers get them
  clears,     \* history: the times the session was cleared
  blocked     \* history: the kinds of the call's events that were blocked

sessionVars == <<mailbox, msgs, reply>>
streamVars  == <<text, acc, finish>>
vars == <<sessionVars, pc, call, iteration, streamVars, answer, outbox, context,
          cancelled, emitted, clears, blocked>>

Session == INSTANCE Session WITH Clients <- {"loop"}

Record(kind, index, result) ==
  [kind |-> kind, call |-> call, turn |-> iteration, index |-> index, result |-> result]
Simple(kind) == Record(kind, 0, "none")

NoAnswers == [i \in 1 .. Width |-> "none"]

Init ==
  /\ Session!Init
  /\ pc = "idle"
  /\ call = 0
  /\ iteration = 0
  /\ text = FALSE /\ acc = {} /\ finish = "None"
  /\ answer = NoAnswers
  /\ outbox = {}
  /\ context = <<>>
  /\ cancelled = FALSE
  /\ emitted = <<>>
  /\ clears = 0
  /\ blocked = {}

Goto(from, to) == pc = from /\ pc' = to
Emit(kind) == emitted' = Append(emitted, Simple(kind))

callVars == <<call, cancelled, clears, blocked>>
turnVars == <<iteration, streamVars, answer, context>>

-----------------------------------------------------------------------------
(* The call: Agent::send, the handle and its wait. *)

\* The runtime is consumed.  Only an agent with a system prompt looks at the
\* history first.
Send ==
  /\ pc = "idle"
  /\ call < MaxCalls
  /\ call' = call + 1
  /\ iteration' = 0
  /\ cancelled' = FALSE
  /\ emitted' = <<>>
  /\ blocked' = {}
  /\ IF HasSystem THEN pc' = "look" /\ Session!FetchContext("loop")
     ELSE pc' = "init" /\ UNCHANGED sessionVars
  /\ UNCHANGED <<streamVars, answer, outbox, context, clears>>

\* Fault: the prompt is pushed whatever the history.
Looked_Always ==
  /\ Goto("look", "system")
  /\ Session!Receive("loop")
  /\ UNCHANGED <<callVars, turnVars, outbox, emitted>>

Looked ==
  /\ pc = "look"
  /\ Session!Receive("loop")
  /\ pc' = IF reply["loop"] = <<>> THEN "system" ELSE "init"
  /\ UNCHANGED <<callVars, turnVars, outbox, emitted>>

PushSystem ==
  /\ Goto("system", "init")
  /\ Session!PushMessages(Simple("system"))
  /\ UNCHANGED <<callVars, turnVars, outbox, emitted>>

\* FuneraSession::react_loop pushes the user's message and runs the loop.
PushInit ==
  /\ Goto("init", "top")
  /\ Session!PushMessages(Simple("user"))
  /\ UNCHANGED <<callVars, turnVars, outbox, emitted>>

\* The handle is cancelled or dropped, once the task was spawned.
Cancel ==
  /\ pc \notin {"idle", "look", "system", "over"}
  /\ ~cancelled
  /\ cancelled' = TRUE
  /\ UNCHANGED <<sessionVars, pc, call, turnVars, outbox, emitted, clears, blocked>>

\* The handle is awaited: the runtime comes back only from a loop that
\* returned Ok on a token that has not fired.
Wait ==
  /\ \/ Goto("done", IF cancelled THEN "over" ELSE "idle")
     \/ Goto("failed", "over")
  /\ UNCHANGED <<sessionVars, callVars, turnVars, outbox, emitted>>

\* AgentRuntime::reset, or a SessionCmd::Clear on a kept session_tx.
Clear ==
  /\ pc = "idle" \/ MidCallClear
  /\ clears < MaxClears
  /\ clears' = clears + 1
  /\ Session!Clear
  /\ UNCHANGED <<pc, call, turnVars, outbox, cancelled, emitted, blocked>>

SessionActor ==
  /\ Session!Handle
  /\ UNCHANGED <<pc, callVars, turnVars, outbox, emitted>>

-----------------------------------------------------------------------------
(* The loop. *)

Exhausted ==
  /\ Goto("top", "done")
  /\ iteration = MaxIterations
  /\ UNCHANGED <<sessionVars, callVars, turnVars, outbox, emitted>>

Fetch ==
  /\ Goto("top", "fetch")
  /\ iteration < MaxIterations
  /\ ~cancelled
  /\ Session!FetchContext("loop")
  /\ UNCHANGED <<callVars, turnVars, outbox, emitted>>

\* build_history_from returns, the turn's buses are prepared, and TurnStart
\* is emitted past the middleware.
Fetched ==
  /\ Goto("fetch", "request")
  /\ Session!Receive("loop")
  /\ context' = reply["loop"]
  /\ Emit("turn_start")
  /\ UNCHANGED <<callVars, iteration, streamVars, answer, outbox>>

RequestOpened ==
  /\ Goto("request", "stream")
  /\ ~cancelled
  /\ text' = FALSE /\ acc' = {} /\ finish' = "None"
  /\ UNCHANGED <<sessionVars, callVars, iteration, answer, context, outbox, emitted>>

\* create_stream, or the stream, returns an error: the task ends there.
Error ==
  /\ \/ Goto("request", "failed")
     \/ Goto("stream", "failed")
  /\ ~cancelled
  /\ UNCHANGED <<sessionVars, callVars, turnVars, outbox, emitted>>

Chunk ==
  /\ Goto("stream", "stream")
  /\ ~cancelled
  /\ \/ text' = TRUE /\ UNCHANGED <<acc, finish>>
     \/ \E i \in 1 .. Width : acc' = acc \cup {i} /\ UNCHANGED <<text, finish>>
     \/ \E f \in Finishes \ {"None"} : finish' = f /\ UNCHANGED <<text, acc>>
  /\ UNCHANGED <<sessionVars, callVars, iteration, answer, context, outbox, emitted>>

StreamEnd ==
  /\ Goto("stream", "streamed")
  /\ ~cancelled
  /\ UNCHANGED <<sessionVars, callVars, turnVars, outbox, emitted>>

\* One text (index 0) and the tool calls by index.
TurnEvents == {Simple("text") : t \in {text} \cap {TRUE}}
              \cup {Record("request", i, "none") : i \in acc}

Store ==
  /\ Goto("streamed", "storing")
  /\ ~cancelled
  /\ outbox' = TurnEvents
  /\ UNCHANGED <<sessionVars, callVars, turnVars, emitted>>

\* handle_turn_finish hands every accumulated call to the tool bus, or none.
Continues == finish \in {"ToolCalls", "Length"}
Called == IF Continues THEN acc ELSE {}

TurnFinish ==
  /\ Goto("storing", "tools")
  /\ outbox = {}
  /\ answer' = NoAnswers
  /\ UNCHANGED <<sessionVars, callVars, iteration, streamVars, context, outbox, emitted>>

\* ToolBus::execute returns; only a fired token makes it say "cancelled".
ToolAnswer(i) ==
  /\ pc = "tools"
  /\ i \in Called
  /\ answer[i] = "none"
  /\ \E r \in {"done", "cancelled"} :
       /\ r = "cancelled" => cancelled
       /\ answer' = [answer EXCEPT ![i] = r]
  /\ UNCHANGED <<sessionVars, pc, callVars, iteration, streamVars, context, outbox, emitted>>

\* Fault: the batch waits for a result from every tool.
Joined_AllDone == \A i \in Called : answer[i] = "done"

\* join_all has the outcome of every command, whatever it is.
Joined == \A i \in Called : answer[i] # "none"

\* Fault: the results are stored without a look at the token.
Report_Unchecked ==
  /\ Goto("tools", "reporting")
  /\ Joined
  /\ outbox' = {Record("response", i, answer[i]) : i \in Called}
  /\ UNCHANGED <<sessionVars, callVars, turnVars, emitted>>

\* Fault: only the calls that were answered are waited for.
Report_Early ==
  /\ Goto("tools", "reporting")
  /\ ~cancelled
  /\ outbox' = {Record("response", i, answer[i]) : i \in {j \in Called : answer[j] # "none"}}
  /\ UNCHANGED <<sessionVars, callVars, turnVars, emitted>>

Report ==
  /\ Goto("tools", "reporting")
  /\ Joined
  /\ ~cancelled
  /\ outbox' = {Record("response", i, answer[i]) : i \in Called}
  /\ UNCHANGED <<sessionVars, callVars, turnVars, emitted>>

\* Fault: a turn that continues does not count.
EndTurn_Uncounted ==
  /\ pc = "reporting"
  /\ outbox = {}
  /\ Emit("turn_end")
  /\ pc' = IF Continues THEN "top" ELSE "done"
  /\ UNCHANGED <<sessionVars, callVars, turnVars, outbox>>

\* TurnEnd goes past the middleware; a turn that continues counts.
EndTurn ==
  /\ pc = "reporting"
  /\ outbox = {}
  /\ Emit("turn_end")
  /\ IF Continues THEN pc' = "top" /\ iteration' = iteration + 1
     ELSE pc' = "done" /\ UNCHANGED iteration
  /\ UNCHANGED <<sessionVars, callVars, streamVars, answer, context, outbox>>

-----------------------------------------------------------------------------
(* Cancellation. *)

\* Fault: the request in flight is waited for.
Checkpoint_NotRequest ==
  \/ pc = "top" /\ iteration < MaxIterations
  \/ pc \in {"stream", "streamed"}
  \/ pc = "tools" /\ Joined

\* Where the loop looks at the token: at the top of an iteration, in the two
\* selects, after the stream and after the tools.
Checkpoint ==
  \/ pc = "top" /\ iteration < MaxIterations
  \/ pc \in {"request", "stream", "streamed"}
  \/ pc = "tools" /\ Joined

\* Fault: the loop leaves without a word.
CancelExit_Silent ==
  /\ cancelled
  /\ Checkpoint
  /\ pc' = "leaving"
  /\ UNCHANGED <<sessionVars, callVars, turnVars, outbox, emitted>>

CancelExit ==
  /\ cancelled
  /\ Checkpoint
  /\ pc' = "leaving"
  /\ outbox' = {Simple("cancelled")}
  /\ UNCHANGED <<sessionVars, callVars, turnVars, emitted>>

Leave ==
  /\ Goto("leaving", "done")
  /\ outbox = {}
  /\ UNCHANGED <<sessionVars, callVars, turnVars, outbox, emitted>>

-----------------------------------------------------------------------------
(* filter_and_store: the events in order, each through the middleware. *)

\* Fault: in the order of a HashMap.
First_Any(e) == e \in outbox

First(e) == e \in outbox /\ \A d \in outbox : e.index <= d.index

Pass(e) ==
  /\ First(e)
  /\ outbox' = outbox \ {e}
  /\ IF e.kind \in Kinds THEN Session!PushMessages(e) ELSE UNCHANGED sessionVars
  /\ emitted' = Append(emitted, e)
  /\ UNCHANGED <<pc, callVars, turnVars>>

\* What a middleware blocks reaches neither subscribers nor session.
Block(e) ==
  /\ First(e)
  /\ e.kind \in Blockable
  /\ outbox' = outbox \ {e}
  /\ blocked' = blocked \cup {e.kind}
  /\ UNCHANGED <<sessionVars, pc, call, cancelled, clears, turnVars, emitted>>

Filter == \E e \in outbox : Pass(e) \/ Block(e)

-----------------------------------------------------------------------------
\* What the loop does when nothing outside holds it up.
Loop ==
  \/ Looked \/ PushSystem \/ PushInit
  \/ Exhausted \/ Fetch \/ Fetched \/ Store \/ TurnFinish \/ Report \/ EndTurn
  \/ CancelExit \/ Leave \/ Filter

Provider == RequestOpened \/ Error \/ Chunk \/ StreamEnd

Next ==
  \/ Send \/ Cancel \/ Wait \/ Clear
  \/ SessionActor
  \/ Loop
  \/ Provider
  \/ \E i \in 1 .. Width : ToolAnswer(i)

Spec == Init /\ [][Next]_vars

\* Tasks that can run are scheduled, and the tool bus answers (ToolPool shows
\* when it does); nothing is asked of the provider.
FairSpec ==
  /\ Spec
  /\ WF_vars(Loop)
  /\ WF_vars(SessionActor)
  /\ \A i \in 1 .. Width : WF_vars(ToolAnswer(i))

\* The provider answers the request and ends its streams.
ProviderAnswers == WF_vars(RequestOpened) /\ WF_vars(StreamEnd)

-----------------------------------------------------------------------------
(* Properties. *)

\* Every variable is of its type.
TypeOK ==
  /\ mailbox \in Seq(Session!SessionCmds)
  /\ msgs \in Seq(Message)
  /\ reply \in [{"loop"} -> Seq(Message) \cup {Nothing}]
  /\ pc \in {"idle", "look", "system", "init", "top", "fetch", "request", "stream",
             "streamed", "storing", "tools", "reporting", "leaving", "done", "failed", "over"}
  /\ call \in 0 .. MaxCalls
  /\ iteration \in 0 .. MaxIterations
  /\ text \in BOOLEAN
  /\ acc \subseteq 1 .. Width
  /\ finish \in Finishes
  /\ answer \in [1 .. Width -> Results]
  /\ outbox \subseteq Event
  /\ context \in Seq(Message)
  /\ cancelled \in BOOLEAN
  /\ emitted \in Seq(Event)
  /\ clears \in 0 .. MaxClears
  /\ blocked \subseteq Kinds \cup {"cancelled"}

Turned == {"text", "request", "response"}
\* A message of the current call's turns; and the whole conversation,
\* commands in flight included.
Own(m) == m.call = call /\ m.kind \in Turned
Conversation == Session!Drained(mailbox)

\* The session holds the turns of a call in order, and in a turn the text,
\* the requests by index, then the results by index, whatever order the
\* stream sent the deltas and the tools finished in.
Rank(m) == CASE m.kind = "text" -> 0 [] m.kind = "request" -> 1 [] m.kind = "response" -> 2
Precedes(m, n) ==
  \/ m.turn < n.turn
  \/ m.turn = n.turn /\ Rank(m) < Rank(n)
  \/ m.turn = n.turn /\ Rank(m) = Rank(n) /\ m.index < n.index
HistoryOrdered ==
  LET ms == Conversation
  IN \A i, j \in DOMAIN ms : i < j /\ Own(ms[i]) /\ Own(ms[j]) => Precedes(ms[i], ms[j])

\* The system prompt opens every request, once, also after a reset of the
\* idle runtime, and the message of the call is in it.
SystemPromptFirst ==
  pc = "request" /\ HasSystem /\ ~MidCallClear =>
    /\ {i \in DOMAIN context : context[i].kind = "system"} = {1}
    /\ \E i \in DOMAIN context : context[i].kind = "user" /\ context[i].call = call

\* A result that only says that the call was cancelled is never stored or
\* emitted: the batch of a cancelled call is dropped whole.
NoCancelledResult ==
  /\ \A i \in DOMAIN emitted : emitted[i].result # "cancelled"
  /\ \A i \in DOMAIN msgs : msgs[i].result # "cancelled"
  /\ \A i \in DOMAIN mailbox :
       mailbox[i].op = "push" => mailbox[i].body.result # "cancelled"

\* Subscribers see whole turns: TurnStart first, nothing between TurnEnd and
\* the next turn, and nothing after Cancelled.
EventsBracketed ==
  /\ emitted # <<>> => emitted[1].kind \in {"turn_start", "cancelled"}
  /\ \A i \in 1 .. Len(emitted) - 1 :
       LET e == emitted[i]
           f == emitted[i + 1]
       IN /\ e.kind # "cancelled"
          /\ IF e.kind = "turn_end" THEN f.turn = e.turn + 1 /\ f.kind \in {"turn_start", "cancelled"}
             ELSE f.turn = e.turn /\ f.kind # "turn_start"

\* A loop that returns Ok has told its subscribers how it ended, by TurnEnd
\* or by Cancelled (unless a middleware blocked that).
EndAnnounced ==
  pc = "done" /\ MaxIterations > 0 /\ "cancelled" \notin blocked =>
    emitted # <<>> /\ Last(emitted).kind \in {"turn_end", "cancelled"}

\* A call whose token fires ends, however long the provider keeps its
\* request or its stream open.
CancelEnds == cancelled ~> pc \in {"done", "failed", "over"}

\* If the provider answers every call ends, within its iterations.
Running == pc \notin {"idle", "done", "failed", "over"}
CallEnds == ProviderAnswers => (Running ~> ~Running)
=============================================================================
