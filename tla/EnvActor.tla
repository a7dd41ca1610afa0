------------------------------ MODULE EnvActor ------------------------------
(***************************************************************************)
(* The environment actor (env_actor.rs) with the environment it owns       *)
(* (env.rs): its mailbox, the tool and skill registries, the five watch    *)
(* channels, the broadcast of its state events, the runtime's methods that *)
(* send and await commands (runtime.rs), the turn of a ReAct loop that     *)
(* reads the channels (re_act.rs), and the teardown, which runs the        *)
(* environment's effects (EnvEffects).                                     *)
(***************************************************************************)
EXTENDS Naturals, Sequences, SequencesExt

CONSTANTS Clients,      \* holders of an env_cmd_tx
          Tools, Skills,
          Bodies,       \* the calls of FuneraEnv::effect
          Clones,       \* of the environment, kept beside the actor's
          FeedCapacity, \* of the broadcast of state events (32 in the code)
          MaxOps,       \* bound: commands sent and effects set up
          Nobody        \* no client, no reply

\* The channels in the order in which the loop reads them.
Order    == <<"client", "tools", "model", "level", "skill">>
Channels == ToSet(Order)

Ops == {"set_client", "set_model", "set_level", "add_tool", "remove_tool", "enable", "disable",
        "add_skill", "add_hidden", "remove_skill", "activate", "deactivate", "set_prompt",
        "subscribe", "names", "query"}
\* The commands with a oneshot that their sender awaits; "query" stands for
\* those that only read (model, level, prompt, sandbox policy, ReActConfig).
Awaited == {"activate", "deactivate", "subscribe", "names", "query"}

Args(op) == CASE op \in {"add_tool", "remove_tool", "enable", "disable"} -> Tools
              [] op \in {"add_skill", "add_hidden", "remove_skill", "activate", "deactivate"} -> Skills
              [] OTHER -> {Nobody}
Cmds == UNION {[op : {op}, arg : Args(op), from : Clients] : op \in Ops}

Events == UNION {[op : {op}, arg : Args(op)] : op \in Ops}

Callers == {"actor"} \cup Clones

ASSUME EnvAssumption ==
  /\ FeedCapacity \in Nat \ {0}
  /\ MaxOps \in Nat
  /\ Nobody \notin Clients \cup Tools \cup Skills
  /\ Nobody \notin Events \cup Seq(Events)
  /\ "actor" \notin Clones

VARIABLES
  senders,   \* the clients that still hold their env_cmd_tx
  awaiting,  \* the clients with an unanswered oneshot
  mailbox,   \* the unbounded channel of commands
  actor,     \* running, disposing, gone
  todo,      \* what is left of the command in hand: answer, then event
  tools,     \* the tool registry: none, on or off
  skills,    \* the skill registry: none, plain or hidden
  active,    \* its active names
  prompt,    \* in the skill channel: the skills it joins, or "custom"
  offered,   \* in the tool channel: the tools it lists
  feed,      \* each client's receiver of state events, Nobody before it has one
  lagged,    \* the clients whose receiver has lost events
  mirror,    \* the tool names a client knows
  following, \* the clients that have asked for the names since they subscribed
  turn,      \* how many channels the loop's turn has read
  snapshot,  \* what it read: for each channel, which of the writes
  writes,    \* history: the channels written, in order
  ops,       \* history: commands sent and effects set up
  setup, disposers, batch, registered, drained, undone  \* of the effects

Effects == INSTANCE EnvEffects

clientVars == <<senders, awaiting, feed, lagged, mirror, following>>
envVars    == <<tools, skills, active, prompt, offered, writes>>
loopVars   == <<turn, snapshot>>
effectVars == <<setup, disposers, batch, registered, drained, undone>>
vars == <<clientVars, mailbox, actor, todo, envVars, loopVars, ops, effectVars>>

\* The version of a channel: its last write, 0 for the initial value.
Versions(ch) == {0} \cup {k \in DOMAIN writes : writes[k] = ch}
Version(ch)  == CHOOSE k \in Versions(ch) : \A j \in Versions(ch) : j <= k

Available(ts) == {t \in Tools : ts[t] = "on"}
Known(ts)     == {t \in Tools : ts[t] # "none"}
\* get_active_skills_prompt
Joined(ss, as) == {s \in as : ss[s] = "plain"}

Nothing == [answer |-> Nobody, event |-> Nobody]
Event(cmd) == [op |-> cmd.op, arg |-> cmd.arg]

\* What a turn holds before it has read a channel.
Unread == [ch \in Channels |-> 0]

\* The builder has registered tools and activated skills.
Init ==
  /\ senders = Clients
  /\ awaiting = {}
  /\ mailbox = <<>>
  /\ actor = "running"
  /\ todo = Nothing
  /\ tools \in [Tools -> {"none", "on"}]
  /\ skills \in [Skills -> {"none", "plain", "hidden"}]
  /\ active \in SUBSET {s \in Skills : skills[s] # "none"}
  /\ prompt = Joined(skills, active)
  /\ offered = Available(tools)
  /\ feed = [c \in Clients |-> Nobody]
  /\ lagged = {}
  /\ mirror = [c \in Clients |-> {}]
  /\ following = {}
  /\ turn = 0
  /\ snapshot = Unread
  /\ writes = <<>>
  /\ ops = 0
  /\ Effects!Init

-----------------------------------------------------------------------------
(* The runtime's methods, called by its holders. *)

Send(c, op, arg) ==
  /\ c \in senders \ awaiting
  /\ ops < MaxOps
  /\ ops' = ops + 1
  /\ mailbox' = Append(mailbox, [op |-> op, arg |-> arg, from |-> c])
  /\ awaiting' = IF op \in Awaited THEN awaiting \cup {c} ELSE awaiting
  /\ UNCHANGED <<senders, feed, lagged, mirror, following, actor, todo, envVars, loopVars, effectVars>>

\* The runtime is dropped; a method that awaits borrows it.
Drop(c) ==
  /\ c \in senders \ awaiting
  /\ senders' = senders \ {c}
  /\ UNCHANGED <<awaiting, feed, lagged, mirror, following, mailbox, actor, todo, envVars,
                 loopVars, ops, effectVars>>

\* A subscriber takes the next event; one that keeps the names applies it.
Recv(c) ==
  /\ c \notin awaiting
  /\ feed[c] \notin {Nobody, <<>>}
  /\ feed' = [feed EXCEPT ![c] = Tail(@)]
  /\ LET e == Head(feed[c])
     IN  mirror' = [mirror EXCEPT ![c] = CASE e.op = "add_tool" -> @ \cup {e.arg}
                                            [] e.op = "remove_tool" -> @ \ {e.arg}
                                            [] OTHER -> @]
  /\ UNCHANGED <<senders, awaiting, lagged, following, mailbox, actor, todo, envVars,
                 loopVars, ops, effectVars>>

-----------------------------------------------------------------------------
(* The actor, one command at a time. *)

Write(ch) == writes' = Append(writes, ch)
\* What the handler still has to do once the channel is written.
Tell(cmd) == todo' = [answer |-> Nobody, event |-> Event(cmd)]
AnswerAndTell(cmd) == todo' = [answer |-> cmd.from, event |-> Event(cmd)]

PushTools(ts) == tools' = ts /\ offered' = Available(ts) /\ Write("tools")
PushSkills(ss, as) ==
  skills' = ss /\ active' = as /\ prompt' = Joined(ss, as) /\ Write("skill")

SetPlain(cmd) ==
  /\ cmd.op \in {"set_client", "set_model", "set_level"}
  /\ Write(CASE cmd.op = "set_client" -> "client"
             [] cmd.op = "set_model" -> "model"
             [] cmd.op = "set_level" -> "level")
  \* No event tells of a new client.
  /\ IF cmd.op = "set_client" THEN todo' = Nothing ELSE Tell(cmd)
  /\ UNCHANGED <<tools, skills, active, prompt, offered>>

\* A new tool is available, also one that replaces an unavailable one.
AddTool(cmd) ==
  /\ cmd.op = "add_tool"
  /\ PushTools([tools EXCEPT ![cmd.arg] = "on"])
  /\ Tell(cmd)
  /\ UNCHANGED <<skills, active, prompt>>

\* Fault: nobody is told.
RemoveTool_Untold(cmd) ==
  /\ cmd.op = "remove_tool"
  /\ PushTools([tools EXCEPT ![cmd.arg] = "none"])
  /\ todo' = Nothing
  /\ UNCHANGED <<skills, active, prompt>>

RemoveTool(cmd) ==
  /\ cmd.op = "remove_tool"
  /\ PushTools([tools EXCEPT ![cmd.arg] = "none"])
  /\ Tell(cmd)
  /\ UNCHANGED <<skills, active, prompt>>

\* An unknown tool, or one that is as it should be, is left alone; the event
\* is sent all the same.
SetAvailability(cmd) ==
  /\ cmd.op \in {"enable", "disable"}
  /\ LET new == IF cmd.op = "enable" THEN "on" ELSE "off"
     IN  IF tools[cmd.arg] \in {"none", new} THEN UNCHANGED <<tools, offered, writes>>
         ELSE PushTools([tools EXCEPT ![cmd.arg] = new])
  /\ Tell(cmd)
  /\ UNCHANGED <<skills, active, prompt>>

\* A skill that replaces an active one is active.
AddSkill(cmd) ==
  /\ cmd.op \in {"add_skill", "add_hidden"}
  /\ PushSkills([skills EXCEPT ![cmd.arg] = IF cmd.op = "add_skill" THEN "plain" ELSE "hidden"], active)
  /\ Tell(cmd)
  /\ UNCHANGED <<tools, offered>>

\* Fault: the name stays active.
RemoveSkill_KeepsActive(cmd) ==
  /\ cmd.op = "remove_skill"
  /\ PushSkills([skills EXCEPT ![cmd.arg] = "none"], active)
  /\ Tell(cmd)
  /\ UNCHANGED <<tools, offered>>

RemoveSkill(cmd) ==
  /\ cmd.op = "remove_skill"
  /\ PushSkills([skills EXCEPT ![cmd.arg] = "none"], active \ {cmd.arg})
  /\ Tell(cmd)
  /\ UNCHANGED <<tools, offered>>

Activate(cmd) ==
  /\ cmd.op = "activate"
  /\ IF skills[cmd.arg] # "none"
     THEN PushSkills(skills, active \cup {cmd.arg}) /\ AnswerAndTell(cmd)
     ELSE /\ UNCHANGED <<skills, active, prompt, writes>>
          /\ todo' = [Nothing EXCEPT !.answer = cmd.from]
  /\ UNCHANGED <<tools, offered>>

Deactivate(cmd) ==
  /\ cmd.op = "deactivate"
  /\ IF cmd.arg \in active
     THEN PushSkills(skills, active \ {cmd.arg}) /\ AnswerAndTell(cmd)
     ELSE /\ UNCHANGED <<skills, active, prompt, writes>>
          /\ todo' = [Nothing EXCEPT !.answer = cmd.from]
  /\ UNCHANGED <<tools, offered>>

\* Replaces the registry's prompt until its next push; no event.
SetPrompt(cmd) ==
  /\ cmd.op = "set_prompt"
  /\ prompt' = {"custom"}
  /\ Write("skill")
  /\ todo' = Nothing
  /\ UNCHANGED <<tools, skills, active, offered>>

Mutate(cmd) ==
  /\ \/ SetPlain(cmd) \/ SetPrompt(cmd)
     \/ AddTool(cmd) \/ RemoveTool(cmd) \/ SetAvailability(cmd)
     \/ AddSkill(cmd) \/ RemoveSkill(cmd) \/ Activate(cmd) \/ Deactivate(cmd)
  /\ UNCHANGED clientVars

\* The receiver hears what is sent from now on.
Subscribe(cmd) ==
  /\ cmd.op = "subscribe"
  /\ feed' = [feed EXCEPT ![cmd.from] = <<>>]
  /\ lagged' = lagged \ {cmd.from}
  /\ following' = following \ {cmd.from}
  /\ UNCHANGED mirror

GetToolNames(cmd) ==
  /\ cmd.op = "names"
  /\ mirror' = [mirror EXCEPT ![cmd.from] = Known(tools)]
  /\ following' = IF feed[cmd.from] = Nobody THEN following ELSE following \cup {cmd.from}
  /\ UNCHANGED <<feed, lagged>>

Read(cmd) == cmd.op = "query" /\ UNCHANGED <<feed, lagged, mirror, following>>

Query(cmd) ==
  /\ Subscribe(cmd) \/ GetToolNames(cmd) \/ Read(cmd)
  /\ awaiting' = awaiting \ {cmd.from}
  /\ UNCHANGED <<senders, envVars, todo>>

Handle ==
  /\ actor = "running"
  /\ todo = Nothing
  /\ mailbox # <<>>
  /\ mailbox' = Tail(mailbox)
  /\ Mutate(Head(mailbox)) \/ Query(Head(mailbox))
  /\ UNCHANGED <<actor, loopVars, ops, effectVars>>

\* ActivateSkill and DeactivateSkill answer before they broadcast.
Respond ==
  /\ todo.answer # Nobody
  /\ todo' = [todo EXCEPT !.answer = Nobody]
  /\ awaiting' = awaiting \ {todo.answer}
  /\ UNCHANGED <<senders, feed, lagged, mirror, following, mailbox, actor, envVars,
                 loopVars, ops, effectVars>>

\* A receiver that is full loses its oldest event.
Into(q, e) == IF Len(q) < FeedCapacity THEN Append(q, e) ELSE Append(Tail(q), e)

Announce ==
  /\ todo.answer = Nobody
  /\ todo.event # Nobody
  /\ todo' = Nothing
  /\ feed' = [c \in Clients |-> IF feed[c] = Nobody THEN Nobody ELSE Into(feed[c], todo.event)]
  /\ lagged' = lagged \cup {c \in Clients : feed[c] # Nobody /\ Len(feed[c]) = FeedCapacity}
  /\ UNCHANGED <<senders, awaiting, mirror, following, mailbox, actor, envVars,
                 loopVars, ops, effectVars>>

-----------------------------------------------------------------------------
(* A turn of the loop, which reads one channel after the other. *)

\* Fault: model before client.
ReadChannel_Swapped ==
  /\ turn < Len(Order)
  /\ LET ch == <<"model", "tools", "client", "level", "skill">>[turn + 1]
     IN  snapshot' = [snapshot EXCEPT ![ch] = Version(ch)]
  /\ turn' = turn + 1
  /\ UNCHANGED <<clientVars, mailbox, actor, todo, envVars, ops, effectVars>>

ReadChannel ==
  /\ turn < Len(Order)
  /\ LET ch == Order[turn + 1]
     IN  snapshot' = [snapshot EXCEPT ![ch] = Version(ch)]
  /\ turn' = turn + 1
  /\ UNCHANGED <<clientVars, mailbox, actor, todo, envVars, ops, effectVars>>

\* The next iteration reads anew.
NextTurn ==
  /\ turn = Len(Order)
  /\ turn' = 0
  /\ snapshot' = Unread
  /\ UNCHANGED <<clientVars, mailbox, actor, todo, envVars, ops, effectVars>>

-----------------------------------------------------------------------------
(* Effects and teardown. *)

\* Effects are named in the order in which their bodies run.
Upcoming(e) ==
  LET fresh == Bodies \ (setup \cup ToSet(registered))
  IN  e \in fresh /\ e = CHOOSE b \in fresh : TRUE

\* A kept clone of the environment registers effects and may dispose.
Clone ==
  /\ \/ \E e \in Bodies : Upcoming(e) /\ Effects!Setup(e) /\ ops < MaxOps /\ ops' = ops + 1
     \/ \E e \in Bodies : Effects!Register(e) /\ UNCHANGED ops
     \/ (\E d \in Clones : Effects!Drain(d) \/ Effects!Undo(d)) /\ UNCHANGED ops
  /\ UNCHANGED <<clientVars, mailbox, actor, todo, envVars, loopVars>>

\* Fault: the actor leaves although commands are buffered.
Teardown_Early ==
  /\ actor = "running"
  /\ todo = Nothing
  /\ senders = {}
  /\ actor' = "disposing"
  /\ Effects!Drain("actor")
  /\ UNCHANGED <<clientVars, mailbox, todo, envVars, loopVars, ops>>

\* Fault: the actor keeps a sender of its own.
Teardown_Never ==
  /\ FALSE
  /\ actor' = "disposing"
  /\ Effects!Drain("actor")
  /\ UNCHANGED <<clientVars, mailbox, todo, envVars, loopVars, ops>>

\* recv() yields None: no sender is left, and nothing is buffered.
Teardown ==
  /\ actor = "running"
  /\ todo = Nothing
  /\ senders = {}
  /\ mailbox = <<>>
  /\ actor' = "disposing"
  /\ Effects!Drain("actor")
  /\ UNCHANGED <<clientVars, mailbox, todo, envVars, loopVars, ops>>

Dispose ==
  /\ actor = "disposing"
  /\ IF batch["actor"] = <<>> THEN actor' = "gone" /\ UNCHANGED effectVars
     ELSE Effects!Undo("actor") /\ UNCHANGED actor
  /\ UNCHANGED <<clientVars, mailbox, todo, envVars, loopVars, ops>>

Actor == Handle \/ Respond \/ Announce \/ Teardown \/ Dispose

Next ==
  \/ \E c \in Clients, op \in Ops : \E arg \in Args(op) : Send(c, op, arg)
  \/ \E c \in Clients : Drop(c) \/ Recv(c)
  \/ Actor
  \/ ReadChannel \/ NextTurn
  \/ Clone

Spec == Init /\ [][Next]_vars

\* The actor's task is scheduled, and its disposers return.
FairSpec == Spec /\ WF_vars(Actor)

-----------------------------------------------------------------------------
(* Properties. *)

(***************************************************************************)
(* What the loops read follows the registries, through conditional pushes, *)
(* replacements and removals: the tool channel lists the available tools,  *)
(* and the skill channel joins the active ones unless SetSkillPrompt was   *)
(* the last to write it.  A removed skill does not come back active.       *)
(***************************************************************************)
ChannelsFollow ==
  /\ offered = Available(tools)
  /\ prompt # {"custom"} => prompt = Joined(skills, active)
  /\ \A s \in active : skills[s] # "none"

(***************************************************************************)
(* The five channels of a turn are read one after the other while the      *)
(* actor writes them, so a turn may mix old and new values (runtime.rs     *)
(* calls it a snapshot).  What holds: with a value it reads, a turn reads  *)
(* everything that was written before that value to the channels it reads  *)
(* later.  A user who sets the model and then the client of another        *)
(* provider is safe: the new client never gets the old model.              *)
(***************************************************************************)
SnapshotOrdered ==
  \A i, j \in 1 .. turn : i < j =>
    \A k \in 1 .. snapshot[Order[i]] : writes[k] = Order[j] => k <= snapshot[Order[j]]

(***************************************************************************)
(* A client that subscribes, then asks for the tool names, and applies the *)
(* events it gets (among them some that the names already include) knows   *)
(* the registered tools whenever it has caught up and lost nothing.        *)
(***************************************************************************)
MirrorConverges ==
  \A c \in following \ lagged :
    feed[c] = <<>> /\ todo.event = Nobody => mirror[c] = Known(tools)

(***************************************************************************)
(* The actor leaves its loop with every command handled and nobody waiting *)
(* for an answer (get_react_config: "env actor died"), and is gone only    *)
(* with every disposer run that it had taken.                              *)
(***************************************************************************)
TeardownComplete ==
  /\ actor # "running" => mailbox = <<>> /\ awaiting = {}
  /\ actor = "gone" => batch["actor"] = <<>>

UndoneOnce == Effects!UndoneOnce
UndoneInReverse == Effects!UndoneInReverse

\* When the last runtime is dropped, the environment is torn down.
TornDown == senders = {} ~> actor = "gone"
=============================================================================
