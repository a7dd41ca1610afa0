--------------------------- MODULE CallLifecycle ---------------------------
(***************************************************************************)
(* The calls of one Agent seen from outside their loops (agent.rs,         *)
(* dispatcher.rs, send_handle.rs).  Every call runs its loop in a task,    *)
(* has a dispatcher that turns its SessionClosed into Done, and a handle;  *)
(* a streaming call has a relay as well.  All of them meet on the agent's  *)
(* one broadcast channel, whose events do not say which call they are of.  *)
(***************************************************************************)
EXTENDS Integers, Sequences

CONSTANTS Calls,
          Kinds,      \* how the calls may be made: functions from Calls to Kind
          MaxEvents,  \* bound: for each kind, the events the loop of a call emits
          Capacity,   \* of the agent's broadcast channel (256)
          Backlog     \* of the relay's channel (256)

Kind == {"fire", "fire_stream", "send", "send_stream"}

ASSUME LifecycleAssumption ==
  /\ Kinds \subseteq [Calls -> Kind]
  /\ MaxEvents \in [Kind -> Nat]
  /\ Capacity \in Nat \ {0}
  /\ Backlog \in Nat \ {0}

VARIABLES
  kind,        \* how each call is made
  task,        \* the spawned react_loop
  emitted,     \* how many events it has emitted
  closed,      \* a SessionClosed waits on the call's EnvStateBus
  dispatcher,  \* CallbackDispatcher is listening
  handle,      \* the handle the user has, and how far its wait is
  cancelled,   \* the tokens that have fired
  inbox,       \* event_rx of each handle
  got,         \* what aggregate_from_broadcast has read from it
  relay,       \* relay_broadcast_to_mpsc is running
  feed,        \* its receiver
  stream,      \* stream_rx
  heard,       \* history: what recv() has returned
  ended,       \* recv() has returned None
  met,         \* history: the calls that were not over when another one was
  lagged       \* history: the calls whose inbox has lagged

taskVars   == <<task, emitted>>
handleVars == <<handle, cancelled, got>>
streamVars == <<relay, stream, heard, ended>>
chanVars   == <<inbox, feed, lagged>>
vars == <<kind, taskVars, closed, dispatcher, handleVars, chanVars, streamVars, met>>

Event == [call : Calls, kind : {"data", "done", "lagged"}, n : Nat]
Data(c, n) == [call |-> c, kind |-> "data", n |-> n]
Done(c)    == [call |-> c, kind |-> "done", n |-> 0]
Lagged(c)  == [call |-> c, kind |-> "lagged", n |-> 0]

Using == {"held", "joining", "draining"}
Gone  == {"returned", "cancelled", "error", "dropped"}

Streams == {c \in Calls : kind[c] \in {"fire_stream", "send_stream"}}

Init ==
  /\ kind \in Kinds
  /\ task = [c \in Calls |-> "new"]
  /\ emitted = [c \in Calls |-> 0]
  /\ closed = [c \in Calls |-> FALSE]
  /\ dispatcher = [c \in Calls |-> FALSE]
  /\ handle = [c \in Calls |-> "none"]
  /\ cancelled = {}
  /\ inbox = [c \in Calls |-> <<>>]
  /\ got = [c \in Calls |-> <<>>]
  /\ relay = [c \in Calls |-> FALSE]
  /\ feed = [c \in Calls |-> <<>>]
  /\ stream = [c \in Calls |-> <<>>]
  /\ heard = [c \in Calls |-> <<>>]
  /\ ended = [c \in Calls |-> FALSE]
  /\ met = {}
  /\ lagged = {}

\* A receiver that lags loses the oldest event.  The aggregation goes on with
\* what is left; the relay's next read is the error and nothing after it counts.
IntoInbox(q, e) == Append(IF Len(q) < Capacity THEN q ELSE Tail(q), e)

IntoFeed(c, e) == IF Len(feed[c]) < Capacity THEN Append(feed[c], e) ELSE <<Lagged(c)>>

\* event_tx.send: to every receiver there is.
Publish(e) ==
  /\ inbox' = [c \in Calls |-> IF handle[c] \in Using THEN IntoInbox(inbox[c], e) ELSE inbox[c]]
  /\ feed' = [c \in Calls |-> IF relay[c] THEN IntoFeed(c, e) ELSE feed[c]]
  /\ lagged' = lagged \cup {c \in Calls : handle[c] \in Using /\ Len(inbox[c]) = Capacity}

-----------------------------------------------------------------------------
(* The call and its task. *)

AtWork == {c \in Calls : task[c] = "running" \/ dispatcher[c] \/ relay[c] \/ handle[c] \in Using}

\* The handle subscribes to the agent's events before the task is spawned.
Begin(c) ==
  /\ handle[c] = "none"
  /\ handle' = [handle EXCEPT ![c] = "held"]
  /\ task' = [task EXCEPT ![c] = "running"]
  /\ dispatcher' = [dispatcher EXCEPT ![c] = TRUE]
  /\ met' = IF AtWork = {} THEN met ELSE met \cup AtWork \cup {c}
  /\ UNCHANGED <<kind, emitted, closed, cancelled, chanVars, got, stream, heard, ended>>

Plain == UNCHANGED relay
Relayed(c) == relay' = [relay EXCEPT ![c] = TRUE]

\* The four calls: on a session of its own, or on the runtime's.
Fire(c)       == kind[c] = "fire" /\ Begin(c) /\ Plain
FireStream(c) == kind[c] = "fire_stream" /\ Begin(c) /\ Relayed(c)
Send(c)       == kind[c] = "send" /\ Begin(c) /\ Plain
SendStream(c) == kind[c] = "send_stream" /\ Begin(c) /\ Relayed(c)

Emit(c) ==
  /\ task[c] = "running"
  /\ emitted[c] < MaxEvents[kind[c]]
  /\ emitted' = [emitted EXCEPT ![c] = @ + 1]
  /\ Publish(Data(c, emitted[c] + 1))
  /\ UNCHANGED <<kind, task, closed, dispatcher, handleVars, streamVars, met>>

\* Fault: only the wait says that the session is closed.
Finish_NotClosed(c) ==
  /\ task[c] = "running"
  /\ task' = [task EXCEPT ![c] = "ok"]
  /\ UNCHANGED <<kind, emitted, closed, dispatcher, handleVars, chanVars, streamVars, met>>

\* The loop returned Ok, cancelled or not: react_loop sends SessionClosed.
Finish(c) ==
  /\ task[c] = "running"
  /\ task' = [task EXCEPT ![c] = "ok"]
  /\ closed' = [closed EXCEPT ![c] = TRUE]
  /\ UNCHANGED <<kind, emitted, dispatcher, handleVars, chanVars, streamVars, met>>

\* The loop returned Err: react_loop returns before it sends anything.
Fail(c) ==
  /\ task[c] = "running"
  /\ task' = [task EXCEPT ![c] = "failed"]
  /\ UNCHANGED <<kind, emitted, closed, dispatcher, handleVars, chanVars, streamVars, met>>

\* SessionClosed becomes Done, and the dispatcher stops.
Dispatch(c) ==
  /\ dispatcher[c]
  /\ closed[c]
  /\ closed' = [closed EXCEPT ![c] = FALSE]
  /\ dispatcher' = [dispatcher EXCEPT ![c] = FALSE]
  /\ Publish(Done(c))
  /\ UNCHANGED <<kind, taskVars, handleVars, streamVars, met>>

\* Fault: a loop that fails keeps its sender.
DispatcherClosed_Held(c) ==
  /\ dispatcher[c]
  /\ ~closed[c]
  /\ task[c] = "ok"
  /\ handle[c] \in Gone
  /\ dispatcher' = [dispatcher EXCEPT ![c] = FALSE]
  /\ UNCHANGED <<kind, taskVars, closed, handleVars, chanVars, streamVars, met>>

\* Loop and handle have dropped their env_state_tx: the channel is closed.
DispatcherClosed(c) ==
  /\ dispatcher[c]
  /\ ~closed[c]
  /\ task[c] \in {"ok", "failed"}
  /\ handle[c] \in Gone
  /\ dispatcher' = [dispatcher EXCEPT ![c] = FALSE]
  /\ UNCHANGED <<kind, taskVars, closed, handleVars, chanVars, streamVars, met>>

-----------------------------------------------------------------------------
(* The handle. *)

\* FireHandle::cancel and FireStreamHandle::cancel; the handles of a send can
\* only be dropped.
Cancel(c) ==
  /\ kind[c] \in {"fire", "fire_stream"}
  /\ handle[c] = "held"
  /\ cancelled' = cancelled \cup {c}
  /\ UNCHANGED <<kind, taskVars, closed, dispatcher, handle, got, chanVars, streamVars, met>>

\* The handle goes with its receivers, and its Drop fires the token.  What
\* was read from them matters only in a response.
Release(c, as) ==
  /\ handle' = [handle EXCEPT ![c] = as]
  /\ cancelled' = cancelled \cup {c}
  /\ inbox' = [inbox EXCEPT ![c] = <<>>]
  /\ stream' = [stream EXCEPT ![c] = <<>>]
  /\ got' = [got EXCEPT ![c] = IF as = "returned" THEN @ ELSE <<>>]
  /\ heard' = [heard EXCEPT ![c] = <<>>]
  /\ ended' = [ended EXCEPT ![c] = FALSE]

\* Dropped before or while it is awaited.
Drop(c) ==
  /\ handle[c] \in Using
  /\ Release(c, "dropped")
  /\ UNCHANGED <<kind, taskVars, closed, dispatcher, feed, relay, lagged, met>>

Await(c) ==
  /\ handle[c] = "held"
  /\ handle' = [handle EXCEPT ![c] = "joining"]
  /\ UNCHANGED <<kind, taskVars, closed, dispatcher, cancelled, got, chanVars, streamVars, met>>

\* wait(): an Err of the task is returned; else SessionClosed is sent again,
\* and a call whose token has not fired goes on to its events.
JoinFailed(c) ==
  /\ handle[c] = "joining"
  /\ task[c] = "failed"
  /\ Release(c, "error")
  /\ UNCHANGED <<kind, taskVars, closed, dispatcher, feed, relay, lagged, met>>

JoinOk(c) ==
  /\ handle[c] = "joining"
  /\ task[c] = "ok"
  /\ closed' = [closed EXCEPT ![c] = dispatcher[c]]
  /\ IF c \in cancelled THEN Release(c, "cancelled")
     ELSE handle' = [handle EXCEPT ![c] = "draining"] /\ UNCHANGED <<cancelled, inbox, got, stream, heard, ended>>
  /\ UNCHANGED <<kind, taskVars, dispatcher, feed, relay, lagged, met>>

\* Fault: the last event is read as the end.
Collect_LastEvent(c) ==
  /\ handle[c] = "draining"
  /\ inbox[c] # <<>>
  /\ IF Len(inbox[c]) = 1
     THEN Release(c, "returned")
     ELSE /\ inbox' = [inbox EXCEPT ![c] = Tail(@)]
          /\ got' = [got EXCEPT ![c] = Append(@, Head(inbox[c]))]
          /\ UNCHANGED <<handle, cancelled, stream, heard, ended>>
  /\ UNCHANGED <<kind, taskVars, closed, dispatcher, feed, relay, lagged, met>>

\* aggregate_from_broadcast reads up to the first Done.
Collect(c) ==
  /\ handle[c] = "draining"
  /\ inbox[c] # <<>>
  /\ IF Head(inbox[c]).kind = "done"
     THEN Release(c, "returned")
     ELSE /\ inbox' = [inbox EXCEPT ![c] = Tail(@)]
          /\ got' = [got EXCEPT ![c] = Append(@, Head(inbox[c]))]
          /\ UNCHANGED <<handle, cancelled, stream, heard, ended>>
  /\ UNCHANGED <<kind, taskVars, closed, dispatcher, feed, relay, lagged, met>>

-----------------------------------------------------------------------------
(* The relay and recv(). *)

Passes(c) == Head(feed[c]).kind # "lagged"

\* Fault: the relay drops an event that there is no room for.
Relay_DropsWhenFull(c) ==
  /\ relay[c] /\ feed[c] # <<>> /\ handle[c] \in Using /\ Passes(c)
  /\ feed' = [feed EXCEPT ![c] = Tail(@)]
  /\ stream' = [stream EXCEPT ![c] = IF Len(@) < Backlog THEN Append(@, Head(feed[c])) ELSE @]
  /\ relay' = [relay EXCEPT ![c] = Head(feed[c]).kind # "done"]
  /\ UNCHANGED <<kind, taskVars, closed, dispatcher, handleVars, inbox, heard, ended, lagged, met>>

\* It waits for room, and stops after Done.
Relay(c) ==
  /\ relay[c] /\ feed[c] # <<>> /\ handle[c] \in Using /\ Passes(c)
  /\ Len(stream[c]) < Backlog
  /\ feed' = [feed EXCEPT ![c] = Tail(@)]
  /\ stream' = [stream EXCEPT ![c] = Append(@, Head(feed[c]))]
  /\ relay' = [relay EXCEPT ![c] = Head(feed[c]).kind # "done"]
  /\ UNCHANGED <<kind, taskVars, closed, dispatcher, handleVars, inbox, heard, ended, lagged, met>>

\* Fault: a relay that lagged goes on with what comes next.
RelayLagged_GoesOn(c) ==
  /\ relay[c] /\ feed[c] # <<>> /\ ~Passes(c)
  /\ feed' = [feed EXCEPT ![c] = Tail(@)]
  /\ UNCHANGED <<kind, taskVars, closed, dispatcher, handleVars, inbox, streamVars, lagged, met>>

\* A relay that lagged is over.
RelayLagged(c) ==
  /\ relay[c] /\ feed[c] # <<>> /\ ~Passes(c)
  /\ relay' = [relay EXCEPT ![c] = FALSE]
  /\ feed' = [feed EXCEPT ![c] = <<>>]
  /\ UNCHANGED <<kind, taskVars, closed, dispatcher, handleVars, inbox, stream, heard, ended, lagged, met>>

\* stream_rx is gone: the relay notices with the next event it sends.
RelayStop(c) ==
  /\ relay[c] /\ feed[c] # <<>> /\ handle[c] \in Gone /\ Passes(c)
  /\ relay' = [relay EXCEPT ![c] = FALSE]
  /\ feed' = [feed EXCEPT ![c] = <<>>]
  /\ UNCHANGED <<kind, taskVars, closed, dispatcher, handleVars, inbox, stream, heard, ended, lagged, met>>

Recv(c) ==
  /\ c \in Streams
  /\ handle[c] = "held"
  /\ c \notin cancelled
  /\ stream[c] # <<>>
  /\ stream' = [stream EXCEPT ![c] = Tail(@)]
  /\ heard' = [heard EXCEPT ![c] = Append(@, Head(stream[c]))]
  /\ UNCHANGED <<kind, taskVars, closed, dispatcher, handleVars, chanVars, relay, ended, met>>

RecvNone(c) ==
  /\ c \in Streams
  /\ handle[c] = "held"
  /\ ~ended[c]
  /\ c \in cancelled \/ (stream[c] = <<>> /\ ~relay[c])
  /\ ended' = [ended EXCEPT ![c] = TRUE]
  /\ UNCHANGED <<kind, taskVars, closed, dispatcher, handleVars, chanVars, relay, stream, heard, met>>

Background(c) ==
  \/ Dispatch(c) \/ DispatcherClosed(c)
  \/ JoinFailed(c) \/ JoinOk(c) \/ Collect(c)
  \/ Relay(c) \/ RelayLagged(c) \/ RelayStop(c) \/ Recv(c) \/ RecvNone(c)

Next ==
  \E c \in Calls :
    \/ Fire(c) \/ FireStream(c) \/ Send(c) \/ SendStream(c)
    \/ Emit(c) \/ Finish(c) \/ Fail(c)
    \/ Cancel(c) \/ Drop(c) \/ Await(c)
    \/ Background(c)

Spec == Init /\ [][Next]_vars

\* Tasks that can run are scheduled, loops end (ReActLoop shows when), and a
\* streaming user reads its stream.
FairSpec ==
  /\ Spec
  /\ \A c \in Calls :
       /\ WF_vars(Finish(c) \/ Fail(c))
       /\ WF_vars(Dispatch(c) \/ DispatcherClosed(c))
       /\ WF_vars(JoinFailed(c) \/ JoinOk(c) \/ Collect(c))
       /\ WF_vars(Relay(c) \/ RelayLagged(c) \/ RelayStop(c))
       /\ WF_vars(Recv(c) \/ RecvNone(c))

-----------------------------------------------------------------------------
(* Properties. *)

AllData(c) == [n \in 1 .. emitted[c] |-> Data(c, n)]

\* A response is built from the events of its own call.
ResponseOwn ==
  \A c \in Calls : handle[c] = "returned" => \A i \in DOMAIN got[c] : got[c][i].call = c

\* A call that had the agent to itself: the channel is not read before the
\* loop is over, so its response may miss events; never the last ones, with
\* the final text, finish reason and usage, and none if they all fit.
ResponseLatest ==
  \A c \in Calls \ met : handle[c] = "returned" =>
    LET kept == IF emitted[c] < Capacity THEN emitted[c] ELSE Capacity - 1
    IN  /\ kept <= Len(got[c]) /\ Len(got[c]) <= emitted[c]
        /\ SubSeq(got[c], Len(got[c]) - kept + 1, Len(got[c]))
             = SubSeq(AllData(c), emitted[c] - kept + 1, emitted[c])

WholeStream(c) == Append(AllData(c), Done(c))

\* A stream that is read too slowly is cut off and never has a gap; one that
\* ends without a cancel has given all events and Done, however slowly it was
\* read, if they fit in the channel.
StreamIntact ==
  \A c \in Calls \ met :
    /\ heard[c] = SubSeq(WholeStream(c), 1, Len(heard[c]))
    /\ ended[c] /\ c \notin cancelled /\ emitted[c] < Capacity => heard[c] = WholeStream(c)

\* A call that is awaited or dropped comes to its end, also when its stream
\* was never read: its wait returns, its loop ends and its dispatcher stops.
\* (Unless other calls have pushed events out of its channel.)
CallOver ==
  \A c \in Calls :
    handle[c] \notin {"none", "held"} ~>
      \/ handle[c] \in Gone /\ task[c] # "running" /\ ~dispatcher[c]
      \/ c \in met \cap lagged

\* The stream of a loop that ended well, or was cancelled, ends.
StreamEnds ==
  \A c \in Calls :
    c \in Streams /\ handle[c] = "held" /\ task[c] = "ok" ~> ended[c] \/ handle[c] # "held"

\* The stream ends with its call, however the call ended.
StreamEndsAlways ==
  \A c \in Calls :
    c \in Streams /\ handle[c] = "held" /\ task[c] \in {"ok", "failed"} ~> ended[c] \/ handle[c] # "held"
=============================================================================
