------------------------------ MODULE Approval ------------------------------
(***************************************************************************)
(* The approval of tool calls (security/registry.rs): every worker runs a  *)
(* tool call on a clone of the guarded registry, and the clones share the  *)
(* map of pending approvals and the slot that holds "the" ReactBus.  A     *)
(* call that Guard lets through runs, one that crosses its boundary waits  *)
(* for the user, whose answers go through the environment actor; the wait  *)
(* may time out, and the agent call the tool belongs to may be cancelled.  *)
(***************************************************************************)
EXTENDS Guard, Sequences

CONSTANTS Ids,        \* the tool calls, by the uuid of their approval
          Turns,      \* the turns that issue them
          TurnOf,     \* the turn of each call
          Settings,   \* the registries and the calls made on them (Guard)
          MaxAnswers, \* bound: the answers the user gives to each call
          NoBus

ASSUME ApprovalAssumption ==
  /\ TurnOf \in [Ids -> Turns]
  /\ MaxAnswers \in [Ids -> Nat]

VARIABLES
  setting,    \* the registry and the arguments of the calls
  present,    \* the files that exist
  stage,      \* where each tool call is
  pending,    \* keys of pending_approvals: their oneshot sender is in the map
  response,   \* what was sent on each call's oneshot
  slot,       \* GuardedToolRegistry::react_bus
  known,      \* the call ids the approval callback has told the user
  asks,       \* how often the user has answered each call
  requests,   \* ApproveToolCall commands in the environment actor's channel
  cancelled,  \* the turns whose agent call was cancelled
  processed,  \* history: the answers that were given Ok
  heard,      \* history: the calls announced on each turn's bus
  entered     \* history: the calls whose tool body was entered

callVars == <<stage, entered>>
userVars == <<known, asks, requests>>
placeVars == <<setting, present>>
vars == <<placeVars, callVars, pending, response, slot, userVars, cancelled, processed, heard>>

Over == {"finished", "rejected", "abandoned"}
Stages == {"new", "bound", "outside", "filed", "asked", "waiting", "running"} \cup Over
Answers == [id : Ids, approved : BOOLEAN]

Init ==
  /\ setting \in Settings
  /\ present = setting.files
  /\ stage = [k \in Ids |-> "new"]
  /\ pending = {}
  /\ response = [k \in Ids |-> "none"]
  /\ slot = NoBus
  /\ known = {}
  /\ asks = [k \in Ids |-> 0]
  /\ requests = <<>>
  /\ cancelled = {}
  /\ processed = {}
  /\ heard = [t \in Turns |-> {}]
  /\ entered = {}

Move(k, from, to) == stage[k] = from /\ stage' = [stage EXCEPT ![k] = to]

Call(k) == setting.calls[k]
Allowed(k) == Permitted(setting, Call(k))

\* RawToolRegistry::call_tool finds the tool, or says "not found".
Enter(k, from) ==
  \/ /\ Call(k).tool \in setting.registered
     /\ Move(k, from, "running")
     /\ entered' = entered \cup {k}
  \/ /\ Call(k).tool \notin setting.registered
     /\ Move(k, from, "rejected")
     /\ UNCHANGED entered

-----------------------------------------------------------------------------
(* A worker on one tool call.  Two workers interleave between any two steps. *)

\* execute_command puts the turn's bus in the shared slot.
Bind(k) ==
  /\ Move(k, "new", "bound")
  /\ slot' = TurnOf[k]
  /\ UNCHANGED <<placeVars, pending, response, userVars, cancelled, processed, heard, entered>>

\* A call within its boundary runs at once.
AutoApprove(k) ==
  /\ Allowed(k)
  /\ AutoApproved(setting, Call(k), present)
  /\ Enter(k, "bound")
  /\ UNCHANGED <<placeVars, pending, response, slot, userVars, cancelled, processed, heard>>

\* One that leaves the zone goes on to the fence, which is another look at the
\* files: they may have changed since.
Cross(k) ==
  /\ Allowed(k)
  /\ ~AutoApproved(setting, Call(k), present)
  /\ Move(k, "bound", "outside")
  /\ UNCHANGED <<placeVars, pending, response, slot, userVars, cancelled, processed, heard, entered>>

\* What goes to the user, if a callback can tell him.
AskUser(k) == ~Rejected(setting, Call(k), present) /\ setting.callback

\* The policy or the fence refuses the call, or nobody could approve it.
Deny(k) ==
  /\ \/ Move(k, "bound", "rejected") /\ ~Allowed(k)
     \/ Move(k, "outside", "rejected") /\ ~AskUser(k)
  /\ UNCHANGED <<placeVars, pending, response, slot, userVars, cancelled, processed, heard, entered>>

\* Fault: the user is told before the sender is in the map.
File_ToldFirst(k) ==
  /\ \/ /\ stage[k] = "outside" /\ AskUser(k) /\ k \notin known
        /\ known' = known \cup {k}
        /\ UNCHANGED <<stage, pending>>
     \/ /\ k \in known
        /\ Move(k, "outside", "filed")
        /\ pending' = pending \cup {k}
        /\ UNCHANGED known
  /\ UNCHANGED <<placeVars, response, slot, asks, requests, cancelled, processed, heard, entered>>

\* The sender is in the map before anybody knows of the call.
File(k) ==
  /\ Move(k, "outside", "filed")
  /\ AskUser(k)
  /\ pending' = pending \cup {k}
  /\ UNCHANGED <<placeVars, response, slot, userVars, cancelled, processed, heard, entered>>

\* The approval callback.
Callback(k) ==
  /\ Move(k, "filed", "asked")
  /\ known' = known \cup {k}
  /\ UNCHANGED <<placeVars, pending, response, slot, asks, requests, cancelled, processed, heard, entered>>

\* ToolApprovalRequired goes to whichever bus is in the slot by now.
Broadcast(k) ==
  /\ Move(k, "asked", "waiting")
  /\ heard' = [heard EXCEPT ![slot] = @ \cup {k}]
  /\ UNCHANGED <<placeVars, pending, response, slot, userVars, cancelled, processed, entered>>

\* Fault: a "no" is read like a "yes".
Resume_AnyAnswer(k) ==
  /\ response[k] # "none"
  /\ Enter(k, "waiting")
  /\ UNCHANGED <<placeVars, pending, response, slot, userVars, cancelled, processed, heard>>

Resume(k) ==
  /\ \/ response[k] = "yes" /\ Enter(k, "waiting")
     \/ response[k] = "no" /\ Move(k, "waiting", "rejected") /\ UNCHANGED entered
  /\ UNCHANGED <<placeVars, pending, response, slot, userVars, cancelled, processed, heard>>

\* Fault: no timer.
Timeout_Never(k) == FALSE /\ UNCHANGED vars

\* The timer wins only over a response that has not come; the sender stays
\* in the map.
Timeout(k) ==
  /\ setting.approval_timeout
  /\ response[k] = "none"
  /\ Move(k, "waiting", "rejected")
  /\ UNCHANGED <<placeVars, pending, response, slot, userVars, cancelled, processed, heard, entered>>

\* The tool returns; it may have created its file, or removed it.
Finish(k) ==
  /\ Move(k, "running", "finished")
  /\ LET file == {Call(k).filePath} \ {None}
     IN  present' \in {present, present \cup file, present \ file}
  /\ UNCHANGED <<setting, pending, response, slot, userVars, cancelled, processed, heard, entered>>

\* Fault: the token is looked at only while the tool runs.
Abandon_RunningOnly(k) ==
  /\ TurnOf[k] \in cancelled
  /\ Move(k, "running", "abandoned")
  /\ UNCHANGED <<placeVars, pending, response, slot, userVars, cancelled, processed, heard, entered>>

\* The worker's select drops the call's future where it waits; the sender
\* stays in the map.
Abandon(k) ==
  /\ TurnOf[k] \in cancelled
  /\ \E from \in {"new", "waiting", "running"} : Move(k, from, "abandoned")
  /\ UNCHANGED <<placeVars, pending, response, slot, userVars, cancelled, processed, heard, entered>>

-----------------------------------------------------------------------------
(* The user and the environment actor. *)

Answer(k, approved) ==
  /\ k \in known
  /\ asks[k] < MaxAnswers[k]
  /\ asks' = [asks EXCEPT ![k] = @ + 1]
  /\ requests' = Append(requests, [id |-> k, approved |-> approved])
  /\ UNCHANGED <<placeVars, callVars, pending, response, slot, known, cancelled, processed, heard>>

\* Fault: the sender is looked up, not taken.
Approve_Kept ==
  /\ requests # <<>>
  /\ Head(requests).id \in pending
  /\ requests' = Tail(requests)
  /\ response' = [response EXCEPT ![Head(requests).id] = IF Head(requests).approved THEN "yes" ELSE "no"]
  /\ processed' = processed \cup {Head(requests)}
  /\ UNCHANGED <<placeVars, callVars, pending, slot, known, asks, cancelled, heard>>

\* approve_tool_call takes the sender out of the map; Ok even if nobody
\* receives any more.
Approve ==
  /\ requests # <<>>
  /\ Head(requests).id \in pending
  /\ requests' = Tail(requests)
  /\ pending' = pending \ {Head(requests).id}
  /\ response' = [response EXCEPT ![Head(requests).id] = IF Head(requests).approved THEN "yes" ELSE "no"]
  /\ processed' = processed \cup {Head(requests)}
  /\ UNCHANGED <<placeVars, callVars, slot, known, asks, cancelled, heard>>

\* "no pending approval for call_id".
Refuse ==
  /\ requests # <<>>
  /\ Head(requests).id \notin pending
  /\ requests' = Tail(requests)
  /\ UNCHANGED <<placeVars, callVars, pending, response, slot, known, asks, cancelled, processed, heard>>

Cancel(t) ==
  /\ t \notin cancelled
  /\ cancelled' = cancelled \cup {t}
  /\ UNCHANGED <<placeVars, callVars, pending, response, slot, userVars, processed, heard>>

Worker(k) ==
  \/ Bind(k) \/ AutoApprove(k) \/ Cross(k) \/ Deny(k) \/ File(k) \/ Callback(k)
  \/ Broadcast(k) \/ Resume(k) \/ Timeout(k) \/ Abandon(k)

EnvActor == Approve \/ Refuse

Next ==
  \/ \E k \in Ids : Worker(k) \/ Finish(k) \/ (\E approved \in BOOLEAN : Answer(k, approved))
  \/ EnvActor
  \/ \E t \in Turns : Cancel(t)

Spec == Init /\ [][Next]_vars

\* Workers and the actor are scheduled and timers fire; tools need not
\* return and the user need not answer.
FairSpec == Spec /\ (\A k \in Ids : WF_vars(Worker(k))) /\ WF_vars(EnvActor)

-----------------------------------------------------------------------------
(* Properties. *)

TypeOK ==
  /\ stage \in [Ids -> Stages]
  /\ setting \in Settings
  /\ pending \subseteq Ids
  /\ response \in [Ids -> {"none", "yes", "no"}]
  /\ slot \in Turns \cup {NoBus}
  /\ known \subseteq Ids
  /\ asks \in [Ids -> Nat] /\ \A k \in Ids : asks[k] <= MaxAnswers[k]
  /\ requests \in Seq(Answers)
  /\ cancelled \subseteq Turns
  /\ processed \subseteq Answers
  /\ heard \in [Turns -> SUBSET Ids]
  /\ entered \subseteq Ids

(***************************************************************************)
(* A tool is entered only by a call that none of the policy's rules        *)
(* forbids (the deny list wins over the allow list, a pattern over an      *)
(* allowed prefix), and then only for a file in the trusted zone or after  *)
(* the user's "yes" to that very call, whatever is created, removed, times *)
(* out, is cancelled or is answered meanwhile; with a sandbox no "yes"     *)
(* leaves its fence.                                                       *)
(***************************************************************************)
Forbidden(c) ==
  LET p     == setting.policy
      rules == p.shell_policy
  IN  \/ c.tool \in p.denied_tools
      \/ p.allowed_tools # None /\ c.tool \notin p.allowed_tools
      \/ ~(c.size <= p.max_args_size)
      \/ c.timeout # None /\ ~(c.timeout <= p.max_timeout_secs)
      \/ c.workdir # None /\ p.allowed_workdirs # {} /\ c.workdir \cap p.allowed_workdirs = {}
      \/ /\ c.tool \in setting.shells /\ rules # None /\ c.command # None
         /\ \/ rules.allow_commands # {} /\ c.command.starts \cap rules.allow_commands = {}
            \/ rules.block_builtin_dangerous /\ c.command.has \cap Dangerous # {}
            \/ c.command.has \cap rules.deny_patterns # {}
InZone(c) ==
  c.filePath # None => setting.zone # None /\ Under[c.filePath] \cap setting.zone # {}
InFence(c) ==
  setting.policy.sandbox =>
    (Under[c.filePath] \cup Spelled[c.filePath]) \cap setting.fence # {}

EnteredOnlyApproved ==
  \A k \in entered :
    /\ ~Forbidden(Call(k))
    /\ \/ InZone(Call(k))
       \/ [id |-> k, approved |-> TRUE] \in processed /\ InFence(Call(k))

\* One answer of a call is processed: a second one, even while the first is
\* on its way, cannot turn it round.
AnsweredOnce ==
  \A a, b \in processed : a.id = b.id => a = b

\* The user is not told "not found" for a call that still waits for a first
\* answer, however early the callback answers.
NoEarlyRefusal ==
  [][\A k \in Ids :
       Refuse /\ Head(requests).id = k =>
         response[k] # "none" \/ stage[k] \in Over]_vars

\* With a timeout no call waits for ever, and without one it still goes when
\* its agent call is cancelled.
WaitEnds ==
  \A k \in Ids :
    stage[k] = "waiting" /\ (setting.approval_timeout \/ TurnOf[k] \in cancelled)
      ~> stage[k] # "waiting"

\* The approval of a call is announced on the bus of its own turn.
OwnBus ==
  \A t \in Turns : \A k \in heard[t] : TurnOf[k] = t
=============================================================================
