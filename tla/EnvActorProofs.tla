--------------------------- MODULE EnvActorProofs ---------------------------
(***************************************************************************)
(* Proofs about EnvActor for any clients, tools, skills, commands, effects *)
(* and kept clones: the channels follow the registries, the teardown is    *)
(* complete, a turn reads ordered versions, a subscriber's mirror          *)
(* converges, and the environment implements EnvEffects, under which each  *)
(* disposer runs once and in reverse order.  And about Assembly, for any   *)
(* methods of the builder in any order: its fence holds, and the actor it  *)
(* starts is one of those that EnvActor speaks of.                         *)
(***************************************************************************)
EXTENDS Assembly, NaturalsInduction, WellFoundedInduction, TLAPS

RegistriesOK ==
  /\ tools \in [Tools -> {"none", "on", "off"}]
  /\ skills \in [Skills -> {"none", "plain", "hidden"}]
  /\ active \subseteq Skills

\* A client that awaits an answer borrows the runtime; the actor leaves its
\* loop when no client is left, and no command.
LeavingAlone ==
  /\ awaiting \subseteq senders
  /\ actor # "running" => senders = {} /\ mailbox = <<>>

\* What the actor has taken to dispose of, by its state.
BatchOK ==
  /\ DOMAIN batch = Callers
  /\ actor \in {"running", "disposing", "gone"}
  /\ actor = "gone" => batch["actor"] = <<>>

MailboxOK == mailbox \in Seq(Cmds)

ActorInv == RegistriesOK /\ ChannelsFollow /\ LeavingAlone /\ BatchOK /\ MailboxOK

-----------------------------------------------------------------------------
LEMMA InitActor == Init => ActorInv
<1> SUFFICES ASSUME Init PROVE ActorInv
  OBVIOUS
<1>1. RegistriesOK
  BY DEF Init, RegistriesOK
<1>2. ChannelsFollow
  BY DEF Init, ChannelsFollow
<1>3. LeavingAlone
  BY DEF Init, LeavingAlone
<1>4. BatchOK
  BY DEF Init, Effects!Init, BatchOK
<1>5. MailboxOK
  BY DEF Init, MailboxOK
<1> QED
  BY <1>1, <1>2, <1>3, <1>4, <1>5 DEF ActorInv

\* Steps that leave the environment alone.
LEMMA EnvKept ==
  ASSUME RegistriesOK, ChannelsFollow, UNCHANGED envVars
  PROVE  RegistriesOK' /\ ChannelsFollow'
BY DEF RegistriesOK, ChannelsFollow, envVars, Available, Joined

LEMMA MutateKeeps ==
  ASSUME RegistriesOK, ChannelsFollow, NEW cmd, cmd.arg \in Args(cmd.op), Mutate(cmd)
  PROVE  RegistriesOK' /\ ChannelsFollow'
<1> USE DEF RegistriesOK, ChannelsFollow, Args
<1>1. CASE SetPlain(cmd)
  BY <1>1 DEF SetPlain, Available, Joined
<1>2. CASE SetPrompt(cmd)
  BY <1>2 DEF SetPrompt, Available
<1>3. CASE AddTool(cmd)
  BY <1>3 DEF AddTool, PushTools, Joined
<1>4. CASE RemoveTool(cmd)
  BY <1>4 DEF RemoveTool, PushTools, Joined
<1>5. CASE SetAvailability(cmd)
  BY <1>5 DEF SetAvailability, PushTools, Joined, Available
<1>6. CASE AddSkill(cmd)
  BY <1>6 DEF AddSkill, PushSkills, Available
<1>7. CASE RemoveSkill(cmd)
  BY <1>7 DEF RemoveSkill, PushSkills, Available
<1>8. CASE Activate(cmd)
  BY <1>8 DEF Activate, PushSkills, Available, Joined
<1>9. CASE Deactivate(cmd)
  BY <1>9 DEF Deactivate, PushSkills, Available, Joined
<1> QED
  BY <1>1, <1>2, <1>3, <1>4, <1>5, <1>6, <1>7, <1>8, <1>9 DEF Mutate

LEMMA SendKeeps ==
  ASSUME ActorInv, NEW c \in Clients, NEW op \in Ops, NEW arg \in Args(op), Send(c, op, arg)
  PROVE  ActorInv'
<1> USE DEF ActorInv
<1>1. RegistriesOK' /\ ChannelsFollow'
  BY EnvKept DEF Send
<1>2. LeavingAlone'
  BY DEF Send, LeavingAlone
<1>3. BatchOK'
  BY DEF Send, BatchOK, effectVars
<1>4. [op |-> op, arg |-> arg, from |-> c] \in Cmds
  BY DEF Cmds
<1>5. MailboxOK'
  BY <1>4 DEF Send, MailboxOK
<1> QED
  BY <1>1, <1>2, <1>3, <1>5

LEMMA HandleKeeps ==
  ASSUME ActorInv, Handle
  PROVE  ActorInv'
<1> USE DEF ActorInv
<1> DEFINE cmd == Head(mailbox)
<1>1. cmd \in Cmds /\ Tail(mailbox) \in Seq(Cmds)
  BY DEF Handle, MailboxOK
<1>2. cmd.arg \in Args(cmd.op)
  BY <1>1 DEF Cmds
<1> HIDE DEF cmd
<1>3. RegistriesOK' /\ ChannelsFollow'
  <2>1. CASE Mutate(cmd)
    BY <1>2, <2>1, MutateKeeps
  <2>2. CASE Query(cmd)
    BY <2>2, EnvKept DEF Query
  <2> QED
    BY <2>1, <2>2 DEF Handle, cmd
<1>4. awaiting' \subseteq awaiting /\ senders' = senders
  BY DEF Handle, Mutate, Query, clientVars
<1>5. LeavingAlone'
  BY <1>4 DEF Handle, LeavingAlone
<1>6. BatchOK'
  BY DEF Handle, BatchOK, effectVars
<1>7. MailboxOK'
  BY <1>1 DEF Handle, MailboxOK, cmd
<1> QED
  BY <1>3, <1>5, <1>6, <1>7

LEMMA StepActor == ActorInv /\ [Next]_vars => ActorInv'
<1> SUFFICES ASSUME ActorInv, [Next]_vars PROVE ActorInv'
  OBVIOUS
<1> USE DEF ActorInv
<1>1. ASSUME NEW c \in Clients, NEW op \in Ops, NEW arg \in Args(op), Send(c, op, arg) PROVE ActorInv'
  BY <1>1, SendKeeps
<1>2. ASSUME NEW c \in Clients, Drop(c) PROVE ActorInv'
  <2>1. RegistriesOK' /\ ChannelsFollow'
    BY <1>2, EnvKept DEF Drop
  <2>2. LeavingAlone'
    BY <1>2 DEF Drop, LeavingAlone
  <2> QED
    BY <1>2, <2>1, <2>2 DEF Drop, BatchOK, MailboxOK, effectVars
<1>3. ASSUME NEW c \in Clients, Recv(c) PROVE ActorInv'
  BY <1>3, EnvKept DEF Recv, LeavingAlone, BatchOK, MailboxOK, effectVars
<1>4. CASE Handle
  BY <1>4, HandleKeeps
<1>5. CASE Respond
  BY <1>5, EnvKept DEF Respond, LeavingAlone, BatchOK, MailboxOK, effectVars
<1>6. CASE Announce
  BY <1>6, EnvKept DEF Announce, LeavingAlone, BatchOK, MailboxOK, effectVars
<1>7. CASE Teardown
  <2>1. BatchOK'
    BY <1>7 DEF Teardown, BatchOK, Effects!Drain
  <2> QED
    BY <1>7, <2>1, EnvKept DEF Teardown, LeavingAlone, MailboxOK, clientVars
<1>8. CASE Dispose
  <2>1. BatchOK'
    BY <1>8 DEF Dispose, BatchOK, Effects!Undo, effectVars
  <2> QED
    BY <1>8, <2>1, EnvKept DEF Dispose, LeavingAlone, MailboxOK, clientVars
<1>9. CASE ReadChannel \/ NextTurn
  BY <1>9, EnvKept DEF ReadChannel, NextTurn, LeavingAlone, BatchOK, MailboxOK, clientVars, effectVars
<1>10. CASE Clone
  <2>1. batch'["actor"] = batch["actor"] /\ DOMAIN batch' = DOMAIN batch
    BY <1>10, EnvAssumption DEF EnvAssumption, BatchOK, Callers, Clone, Effects!Setup,
       Effects!Register, Effects!Drain, Effects!Undo
  <2> QED
    BY <1>10, <2>1, EnvKept DEF Clone, BatchOK, LeavingAlone, MailboxOK, clientVars
<1>11. CASE UNCHANGED vars
  BY <1>11, EnvKept DEF vars, LeavingAlone, BatchOK, MailboxOK, clientVars, effectVars
<1> QED
  BY <1>1, <1>2, <1>3, <1>4, <1>5, <1>6, <1>7, <1>8, <1>9, <1>10, <1>11 DEF Next, Actor

LEMMA ActorInvAlways == Spec => []ActorInv
<1>1. Init => ActorInv
  BY InitActor
<1>2. ActorInv /\ [Next]_vars => ActorInv'
  BY StepActor
<1> QED
  BY <1>1, <1>2, PTL DEF Spec

(***************************************************************************)
(* For any tools and skills and any sequence of commands the tool channel  *)
(* lists the available tools and the skill channel joins the active        *)
(* skills, or is a prompt that was set; no active name lacks its skill.    *)
(***************************************************************************)
THEOREM ChannelsAlwaysFollow == Spec => []ChannelsFollow
<1>1. ActorInv => ChannelsFollow
  BY DEF ActorInv
<1> QED
  BY <1>1, ActorInvAlways, PTL

LEMMA ActorOver == ActorInv => TeardownComplete
BY DEF ActorInv, LeavingAlone, BatchOK, TeardownComplete

(***************************************************************************)
(* For any number of clients, however they send, await and leave: the      *)
(* actor ends with every command handled, every answer given and every     *)
(* disposer that it took run.                                              *)
(***************************************************************************)
THEOREM TeardownAlwaysComplete == Spec => []TeardownComplete
<1>1. ActorInv => TeardownComplete
  BY ActorOver
<1> QED
  BY <1>1, ActorInvAlways, PTL

-----------------------------------------------------------------------------
(* The effects: no disposer is run twice or lost.                          *)

Distinct(s) == \A i, j \in DOMAIN s : s[i] = s[j] => i = j

EffectsShape ==
  /\ setup \subseteq Bodies
  /\ disposers \in Seq(Bodies)
  /\ batch \in [Callers -> Seq(Bodies)]
  /\ registered \in Seq(Bodies)
  /\ undone \in Seq(Bodies)

Unregistered == setup \cap Effects!ToSet(registered) = {}

\* An effect is in one place, and once there.
OnePlace ==
  /\ Distinct(disposers) /\ Distinct(undone)
  /\ Effects!ToSet(disposers) \cap Effects!ToSet(undone) = {}
  /\ \A d \in Callers :
       /\ Distinct(batch[d])
       /\ Effects!ToSet(batch[d]) \cap Effects!ToSet(disposers) = {}
       /\ Effects!ToSet(batch[d]) \cap Effects!ToSet(undone) = {}
       /\ \A c \in Callers \ {d} : Effects!ToSet(batch[d]) \cap Effects!ToSet(batch[c]) = {}

EverywhereRegistered ==
  \A e : e \in Effects!ToSet(registered) <=>
    \/ e \in Effects!ToSet(disposers)
    \/ e \in Effects!ToSet(undone)
    \/ \E d \in Callers : e \in Effects!ToSet(batch[d])

EffectsInv == EffectsShape /\ Unregistered /\ OnePlace /\ EverywhereRegistered

-----------------------------------------------------------------------------
LEMMA AppendOne ==
  ASSUME NEW B, NEW s \in Seq(B), NEW e \in B
  PROVE  /\ Append(s, e) \in Seq(B)
         /\ Effects!ToSet(Append(s, e)) = Effects!ToSet(s) \cup {e}
         /\ Distinct(s) /\ e \notin Effects!ToSet(s) => Distinct(Append(s, e))
<1>1. /\ Append(s, e) \in Seq(B)
      /\ DOMAIN Append(s, e) = 1 .. Len(s) + 1
      /\ DOMAIN s = 1 .. Len(s)
      /\ Len(s) \in Nat
      /\ \A i \in 1 .. Len(s) : Append(s, e)[i] = s[i]
      /\ Append(s, e)[Len(s) + 1] = e
  OBVIOUS
<1>2. Effects!ToSet(Append(s, e)) = Effects!ToSet(s) \cup {e}
  BY <1>1 DEF Effects!ToSet
<1>3. Distinct(s) /\ e \notin Effects!ToSet(s) => Distinct(Append(s, e))
  BY <1>1 DEF Effects!ToSet, Distinct
<1> QED
  BY <1>1, <1>2, <1>3

LEMMA TakeLast ==
  ASSUME NEW B, NEW s \in Seq(B), s # <<>>, Distinct(s)
  PROVE  /\ Effects!Front(s) \in Seq(B)
         /\ Effects!Last(s) \in Effects!ToSet(s)
         /\ Effects!Last(s) \in B
         /\ Effects!ToSet(Effects!Front(s)) = Effects!ToSet(s) \ {Effects!Last(s)}
         /\ Distinct(Effects!Front(s))
<1>1. /\ DOMAIN s = 1 .. Len(s)
      /\ Len(s) \in Nat \ {0}
      /\ Effects!Front(s) \in Seq(B)
      /\ DOMAIN Effects!Front(s) = 1 .. Len(s) - 1
      /\ \A i \in 1 .. Len(s) - 1 : Effects!Front(s)[i] = s[i]
  BY DEF Effects!Front
<1>2. Effects!Last(s) \in Effects!ToSet(s) /\ Effects!Last(s) \in B
  BY <1>1 DEF Effects!Last, Effects!ToSet
<1>3. Effects!ToSet(Effects!Front(s)) = Effects!ToSet(s) \ {Effects!Last(s)}
  BY <1>1 DEF Effects!Last, Effects!ToSet, Distinct
<1>4. Distinct(Effects!Front(s))
  BY <1>1 DEF Distinct
<1> QED
  BY <1>1, <1>2, <1>3, <1>4

LEMMA WaitingSets ==
  ASSUME EffectsShape
  PROVE  Effects!Waiting = {e \in Bodies : e \in Effects!ToSet(disposers) \/ \E d \in Callers : e \in Effects!ToSet(batch[d])}
<1>1. \A s \in Seq(Bodies), e \in Bodies : Effects!Contains(s, e) <=> e \in Effects!ToSet(s)
  BY DEF Effects!Contains, Effects!ToSet
<1> QED
  BY <1>1 DEF Effects!Waiting, EffectsShape

LEMMA EmptyOne ==
  /\ <<>> \in Seq(Bodies)
  /\ Effects!ToSet(<<>>) = {}
  /\ Distinct(<<>>)
  BY DEF Effects!ToSet, Distinct

-----------------------------------------------------------------------------
LEMMA InitEffects == Effects!Init => EffectsInv
  BY EmptyOne DEF Effects!Init, EffectsInv, EffectsShape, Unregistered, OnePlace, EverywhereRegistered

LEMMA SetupKeeps ==
  ASSUME EffectsInv, NEW e \in Bodies, Effects!Setup(e)
  PROVE  EffectsInv'
<1> USE DEF EffectsInv, Effects!Setup
<1>1. e \notin Effects!ToSet(registered)
  BY DEF Effects!Contains, Effects!ToSet, EffectsShape
<1>2. EffectsShape' /\ OnePlace' /\ EverywhereRegistered'
  BY DEF EffectsShape, OnePlace, EverywhereRegistered
<1> QED
  BY <1>1, <1>2 DEF Unregistered

LEMMA RegisterKeeps ==
  ASSUME EffectsInv, NEW e \in Bodies, Effects!Register(e)
  PROVE  EffectsInv'
<1> USE DEF EffectsInv, Effects!Register
<1>1. /\ disposers' \in Seq(Bodies) /\ registered' \in Seq(Bodies)
      /\ Effects!ToSet(disposers') = Effects!ToSet(disposers) \cup {e}
      /\ Effects!ToSet(registered') = Effects!ToSet(registered) \cup {e}
  BY AppendOne DEF EffectsShape
<1>2. e \notin Effects!ToSet(disposers) /\ e \notin Effects!ToSet(undone) /\ \A d \in Callers : e \notin Effects!ToSet(batch[d])
  BY DEF Unregistered, EverywhereRegistered
<1>3. Distinct(disposers')
  BY <1>2, AppendOne DEF EffectsShape, OnePlace
<1>4. EffectsShape'
  BY <1>1 DEF EffectsShape
<1>5. Unregistered'
  BY <1>1 DEF Unregistered
<1>6. OnePlace'
  BY <1>1, <1>2, <1>3 DEF OnePlace
<1>7. EverywhereRegistered'
  BY <1>1 DEF EverywhereRegistered, Effects!Waiting
<1> QED
  BY <1>4, <1>5, <1>6, <1>7

LEMMA DrainKeeps ==
  ASSUME EffectsInv, NEW d \in Callers, Effects!Drain(d)
  PROVE  EffectsInv'
<1> USE DEF EffectsInv, Effects!Drain
<1>1. /\ batch'[d] = disposers /\ disposers' = <<>> /\ batch[d] = <<>>
      /\ \A c \in Callers \ {d} : batch'[c] = batch[c]
      /\ Effects!ToSet(disposers') = {} /\ Effects!ToSet(batch[d]) = {} /\ Distinct(disposers')
  BY EmptyOne DEF EffectsShape
<1>2. EffectsShape'
  BY EmptyOne DEF EffectsShape
<1>3. Unregistered'
  BY DEF Unregistered
<1>4. OnePlace'
  BY <1>1 DEF OnePlace
<1>6. EverywhereRegistered'
  BY <1>1 DEF EverywhereRegistered
<1> QED
  BY <1>2, <1>3, <1>4, <1>6

LEMMA UndoKeeps ==
  ASSUME EffectsInv, NEW d \in Callers, Effects!Undo(d)
  PROVE  EffectsInv'
<1> USE DEF EffectsInv, Effects!Undo
<1> DEFINE e == Effects!Last(batch[d])
<1>1. batch[d] \in Seq(Bodies) /\ batch[d] # <<>> /\ Distinct(batch[d])
  BY DEF EffectsShape, OnePlace
<1>2. /\ batch'[d] = Effects!Front(batch[d])
      /\ \A c \in Callers \ {d} : batch'[c] = batch[c]
      /\ undone' = Append(undone, e)
  BY DEF EffectsShape
<1>3. /\ Effects!Front(batch[d]) \in Seq(Bodies)
      /\ e \in Effects!ToSet(batch[d]) /\ e \in Bodies
      /\ Effects!ToSet(batch'[d]) = Effects!ToSet(batch[d]) \ {e}
      /\ Distinct(batch'[d])
  BY <1>1, <1>2, TakeLast
<1>4. /\ e \notin Effects!ToSet(undone) /\ e \notin Effects!ToSet(disposers)
      /\ \A c \in Callers \ {d} : e \notin Effects!ToSet(batch[c])
  BY <1>3 DEF OnePlace
<1>5. /\ undone' \in Seq(Bodies)
      /\ Effects!ToSet(undone') = Effects!ToSet(undone) \cup {e}
      /\ Distinct(undone')
  BY <1>2, <1>3, <1>4, AppendOne DEF EffectsShape, OnePlace
<1> HIDE DEF e
<1>u. UNCHANGED <<setup, disposers, registered>>
  OBVIOUS
<1>6. EffectsShape'
  BY <1>3, <1>5 DEF EffectsShape
<1>7. Unregistered'
  BY DEF Unregistered
<1>8. OnePlace'
  <2>1. /\ Distinct(disposers)
        /\ Effects!ToSet(disposers) \cap Effects!ToSet(undone) = {}
        /\ \A c \in Callers :
             /\ Distinct(batch[c])
             /\ Effects!ToSet(batch[c]) \cap Effects!ToSet(disposers) = {}
             /\ Effects!ToSet(batch[c]) \cap Effects!ToSet(undone) = {}
             /\ \A x \in Callers \ {c} : Effects!ToSet(batch[c]) \cap Effects!ToSet(batch[x]) = {}
    BY DEF OnePlace
  <2> HIDE DEF EffectsInv, Effects!Undo
  <2>2. Distinct(disposers') /\ Distinct(undone') /\ Effects!ToSet(disposers') \cap Effects!ToSet(undone') = {}
    BY <1>4, <1>5, <1>u, <2>1
  <2>3. ASSUME NEW c \in Callers
        PROVE  /\ Distinct(batch'[c])
               /\ Effects!ToSet(batch'[c]) \cap Effects!ToSet(disposers') = {}
               /\ Effects!ToSet(batch'[c]) \cap Effects!ToSet(undone') = {}
    <3>1. CASE c = d
      BY <1>3, <1>5, <1>u, <2>1, <3>1
    <3>2. CASE c # d
      BY <1>2, <1>4, <1>5, <1>u, <2>1, <3>2
    <3> QED
      BY <3>1, <3>2
  <2>4. ASSUME NEW c \in Callers, NEW x \in Callers \ {c}
        PROVE  Effects!ToSet(batch'[c]) \cap Effects!ToSet(batch'[x]) = {}
    BY <1>2, <1>3, <2>1
  <2> QED
    BY <2>2, <2>3, <2>4 DEF OnePlace
<1>9. EverywhereRegistered'
  <2>1. ASSUME NEW x
        PROVE  (\E c \in Callers : x \in Effects!ToSet(batch[c])) <=> (x = e \/ \E c \in Callers : x \in Effects!ToSet(batch'[c]))
    BY <1>2, <1>3
  <2> QED
    BY <1>5, <1>u, <2>1 DEF EverywhereRegistered
<1> QED
  BY <1>6, <1>7, <1>8, <1>9

LEMMA StepEffects == EffectsInv /\ [Effects!Next]_effectVars => EffectsInv'
<1> SUFFICES ASSUME EffectsInv, [Effects!Next]_effectVars PROVE EffectsInv'
  OBVIOUS
<1>1. ASSUME NEW e \in Bodies, Effects!Setup(e) \/ Effects!Register(e) PROVE EffectsInv'
  BY <1>1, SetupKeeps, RegisterKeeps
<1>2. ASSUME NEW d \in Callers, Effects!Drain(d) \/ Effects!Undo(d) PROVE EffectsInv'
  BY <1>2, DrainKeeps, UndoKeeps
<1>3. CASE UNCHANGED effectVars
  BY <1>3 DEF EffectsInv, EffectsShape, Unregistered, OnePlace, EverywhereRegistered, effectVars
<1> QED
  BY <1>1, <1>2, <1>3 DEF Effects!Next

LEMMA EffectsOnce == EffectsInv => Effects!UndoneOnce
<1> SUFFICES ASSUME EffectsInv PROVE Effects!UndoneOnce
  OBVIOUS
<1> USE DEF EffectsInv
<1>1. \A i, j \in DOMAIN undone : undone[i] = undone[j] => i = j
  BY DEF OnePlace, Distinct
<1>2. /\ Effects!ToSet(disposers) \subseteq Bodies
      /\ \A d \in Callers : Effects!ToSet(batch[d]) \subseteq Bodies
  BY DEF EffectsShape, Effects!ToSet
<1>3. Effects!Waiting \cap Effects!ToSet(undone) = {}
  BY WaitingSets DEF OnePlace
<1>4. Effects!ToSet(registered) = Effects!Waiting \cup Effects!ToSet(undone)
  BY <1>2, WaitingSets DEF EverywhereRegistered
<1> QED
  BY <1>1, <1>3, <1>4 DEF Effects!UndoneOnce

-----------------------------------------------------------------------------
(* The order of the disposers. *)

Held(d) == Effects!ToSet(batch[d])

\* A sequence of effects is in the order of their registration.
Sorted(s) ==
  \A i, j \in DOMAIN registered, k, m \in DOMAIN s :
    s[k] = registered[i] /\ s[m] = registered[j] /\ k < m => i < j

DrainedOK ==
  /\ drained \in [Bodies -> 0 .. Len(registered)]
  /\ \A e \in Bodies : drained[e] # 0 => e \in Effects!ToSet(undone) \/ \E d \in Callers : e \in Held(d)

\* What waits in the accumulator was registered last.
Suffix ==
  \A i, j \in DOMAIN registered :
    i < j /\ registered[i] \in Effects!ToSet(disposers) => registered[j] \in Effects!ToSet(disposers)

\* A dispose that takes an effect takes, or finds undone, every later one that
\* was registered by then.
TakenTogether ==
  \A i, j \in DOMAIN registered :
    i < j /\ j <= drained[registered[i]] =>
      /\ registered[i] \in Effects!ToSet(undone) => registered[j] \in Effects!ToSet(undone)
      /\ \A d \in Callers : registered[i] \in Held(d) => registered[j] \in Held(d) \cup Effects!ToSet(undone)

InReverse ==
  \A i, j \in DOMAIN registered, k, m \in DOMAIN undone :
    undone[k] = registered[i] /\ undone[m] = registered[j] /\ k < m /\ i < j
      => drained[registered[i]] < j

OrderInv ==
  /\ Distinct(registered)
  /\ DrainedOK /\ Suffix /\ TakenTogether /\ InReverse
  /\ Sorted(disposers)
  /\ \A d \in Callers : Sorted(batch[d])

BothInv == EffectsInv /\ OrderInv

LEMMA InitOrder == Effects!Init => OrderInv
<1> SUFFICES ASSUME Effects!Init PROVE OrderInv
  OBVIOUS
<1> USE DEF Effects!Init
<1>1. Len(registered) = 0 /\ DOMAIN registered = {}
  OBVIOUS
<1>2. DrainedOK
  BY <1>1 DEF DrainedOK
<1>3. Distinct(registered) /\ Suffix /\ TakenTogether /\ InReverse
  BY <1>1 DEF Distinct, Suffix, TakenTogether, InReverse
<1>4. Sorted(disposers) /\ \A d \in Callers : Sorted(batch[d])
  BY <1>1 DEF Sorted
<1> QED
  BY <1>2, <1>3, <1>4 DEF OrderInv

\* Whether s is sorted depends on what is registered only.
LEMMA SetupOrder ==
  ASSUME BothInv, NEW e \in Bodies, Effects!Setup(e)
  PROVE  OrderInv'
BY DEF BothInv, Effects!Setup, OrderInv, DrainedOK, Suffix, TakenTogether, InReverse, Sorted, Held

LEMMA RegisterOrder ==
  ASSUME BothInv, NEW e \in Bodies, Effects!Register(e)
  PROVE  OrderInv'
<1> USE DEF BothInv, EffectsInv, Effects!Register
<1> DEFINE n == Len(registered)
<1>1. /\ n \in Nat /\ DOMAIN registered = 1 .. n
      /\ Len(registered') = n + 1 /\ DOMAIN registered' = 1 .. n + 1
      /\ \A i \in 1 .. n : registered'[i] = registered[i]
      /\ registered'[n + 1] = e
  BY DEF EffectsShape
<1>2. /\ Len(disposers) \in Nat /\ DOMAIN disposers = 1 .. Len(disposers)
      /\ DOMAIN disposers' = 1 .. Len(disposers) + 1
      /\ \A k \in 1 .. Len(disposers) : disposers'[k] = disposers[k]
      /\ disposers'[Len(disposers) + 1] = e
      /\ Effects!ToSet(disposers') = Effects!ToSet(disposers) \cup {e}
  BY AppendOne DEF EffectsShape
<1>3. /\ e \notin Effects!ToSet(registered) /\ e \notin Effects!ToSet(disposers) /\ e \notin Effects!ToSet(undone)
      /\ \A d \in Callers : e \notin Held(d)
  BY DEF Unregistered, EverywhereRegistered, Held
<1>4. drained[e] = 0
  BY <1>3 DEF OrderInv, DrainedOK
<1>u. UNCHANGED <<batch, drained, undone>>
  OBVIOUS
<1>5. \A i \in 1 .. n : registered[i] \in Bodies /\ registered[i] # e
  BY <1>1, <1>3 DEF EffectsShape, Effects!ToSet
<1> HIDE DEF n, BothInv, EffectsInv, Effects!Register
<1>o. Distinct(registered) /\ DrainedOK /\ Suffix /\ TakenTogether /\ InReverse
      /\ Sorted(disposers) /\ \A d \in Callers : Sorted(batch[d])
  BY DEF BothInv, OrderInv
<1>6. Distinct(registered')
  BY <1>1, <1>5, <1>o DEF Distinct
<1>7. DrainedOK'
  <2>1. drained \in [Bodies -> 0 .. n]
    BY <1>o DEF DrainedOK, n
  <2> QED
    BY <1>1, <1>u, <1>o, <2>1 DEF DrainedOK, Held
<1>8. Suffix'
  BY <1>1, <1>2, <1>5, <1>o DEF Suffix
<1>9. TakenTogether'
  <2> SUFFICES ASSUME NEW i \in 1 .. n + 1, NEW j \in 1 .. n + 1, i < j, j <= drained[registered'[i]]
               PROVE  /\ registered'[i] \in Effects!ToSet(undone) => registered'[j] \in Effects!ToSet(undone)
                      /\ \A d \in Callers : registered'[i] \in Held(d)
                           => registered'[j] \in Held(d) \cup Effects!ToSet(undone)
    BY <1>1, <1>u DEF TakenTogether, Held
  <2>1. i \in 1 .. n /\ registered'[i] = registered[i] /\ drained[registered[i]] \in 0 .. n
    BY <1>1, <1>5, <1>o DEF DrainedOK, n
  <2>2. j \in 1 .. n
    BY <1>1, <2>1
  <2> QED
    BY <1>1, <1>o, <2>1, <2>2 DEF TakenTogether
<1>10. InReverse'
  <2>1. ASSUME NEW i \in 1 .. n + 1, NEW k \in DOMAIN undone, undone[k] = registered'[i] PROVE i \in 1 .. n
    BY <1>1, <1>3, <2>1 DEF Effects!ToSet
  <2> QED
    BY <1>1, <1>o, <1>u, <2>1 DEF InReverse
<1>11. Sorted(disposers)'
  <2> SUFFICES ASSUME NEW i \in 1 .. n + 1, NEW j \in 1 .. n + 1,
                      NEW k \in DOMAIN disposers', NEW m \in DOMAIN disposers',
                      disposers'[k] = registered'[i], disposers'[m] = registered'[j], k < m
               PROVE  i < j
    BY <1>1 DEF Sorted
  <2>0. \A x \in 1 .. n + 1 : registered'[x] # e => x \in 1 .. n /\ registered'[x] = registered[x]
    BY <1>1
  <2>1. k \in 1 .. Len(disposers) /\ disposers'[k] = disposers[k] /\ disposers[k] # e
    BY <1>2, <1>3 DEF Effects!ToSet
  <2>2. i \in 1 .. n /\ registered'[i] = registered[i]
    BY <2>0, <2>1
  <2>3. CASE m = Len(disposers) + 1
    BY <1>1, <1>2, <1>5, <2>2, <2>3
  <2>4. CASE m \in 1 .. Len(disposers)
    <3>1. disposers[m] # e /\ disposers'[m] = disposers[m]
      BY <1>2, <1>3, <2>4 DEF Effects!ToSet
    <3>2. j \in 1 .. n /\ registered'[j] = registered[j]
      BY <2>0, <3>1
    <3> QED
      BY <1>1, <1>2, <1>o, <2>1, <2>2, <2>4, <3>1, <3>2 DEF Sorted
  <2> QED
    BY <1>2, <2>3, <2>4
<1>12. ASSUME NEW d \in Callers PROVE Sorted(batch[d])'
  <2>1. ASSUME NEW i \in 1 .. n + 1, NEW k \in DOMAIN batch[d], batch[d][k] = registered'[i] PROVE i \in 1 .. n
    BY <1>1, <1>3, <2>1 DEF Effects!ToSet, Held
  <2> QED
    BY <1>1, <1>o, <1>u, <2>1 DEF Sorted
<1> QED
  BY <1>6, <1>7, <1>8, <1>9, <1>10, <1>11, <1>12 DEF OrderInv

LEMMA DrainOrder ==
  ASSUME BothInv, NEW d \in Callers, Effects!Drain(d)
  PROVE  OrderInv'
<1> USE DEF BothInv, EffectsInv, Effects!Drain
<1> DEFINE n == Len(registered)
<1>1. /\ n \in Nat /\ DOMAIN registered = 1 .. n
      /\ \A i \in 1 .. n : registered[i] \in Bodies
  BY DEF EffectsShape
<1>2. /\ batch'[d] = disposers /\ disposers' = <<>> /\ Effects!ToSet(disposers') = {}
      /\ \A c \in Callers \ {d} : batch'[c] = batch[c]
  BY EmptyOne DEF EffectsShape
<1>3. \A c \in Callers : Held(c)' = IF c = d THEN Effects!ToSet(disposers) ELSE Held(c)
  BY <1>2 DEF Held
<1>4. Held(d) = {}
  BY EmptyOne DEF Held
<1>5. drained' = [e \in Bodies |-> IF e \in Effects!ToSet(disposers) THEN n ELSE drained[e]]
  BY DEF Effects!Contains, Effects!ToSet, EffectsShape
<1>u. UNCHANGED <<registered, undone>>
  OBVIOUS
<1>6. \A e \in Effects!ToSet(disposers) : e \notin Effects!ToSet(undone) /\ \A c \in Callers : e \notin Held(c)
  BY DEF OnePlace, Held
<1> HIDE DEF n, BothInv, EffectsInv, Effects!Drain
<1>o. Distinct(registered) /\ DrainedOK /\ Suffix /\ TakenTogether /\ InReverse
      /\ Sorted(disposers) /\ \A c \in Callers : Sorted(batch[c])
  BY DEF BothInv, OrderInv
<1>7. DrainedOK'
  <2>1. drained' \in [Bodies -> 0 .. n]
    BY <1>1, <1>5, <1>o DEF DrainedOK, n
  <2>2. ASSUME NEW e \in Bodies, drained'[e] # 0
        PROVE  e \in Effects!ToSet(undone) \/ \E c \in Callers : e \in Held(c)'
    BY <1>3, <1>4, <1>5, <1>o, <2>2 DEF DrainedOK
  <2> QED
    BY <1>u, <2>1, <2>2 DEF DrainedOK, n
<1>8. Suffix'
  BY <1>2, <1>u DEF Suffix
<1>9. TakenTogether'
  <2> SUFFICES ASSUME NEW i \in 1 .. n, NEW j \in 1 .. n, i < j, j <= drained'[registered[i]]
               PROVE  /\ registered[i] \in Effects!ToSet(undone) => registered[j] \in Effects!ToSet(undone)
                      /\ \A c \in Callers : registered[i] \in Held(c)'
                           => registered[j] \in Held(c)' \cup Effects!ToSet(undone)
    BY <1>1, <1>u DEF TakenTogether
  <2>1. CASE registered[i] \in Effects!ToSet(disposers)
    <3>1. registered[j] \in Effects!ToSet(disposers)
      BY <1>1, <1>o, <2>1 DEF Suffix
    <3> QED
      BY <1>3, <1>6, <2>1, <3>1
  <2>2. CASE registered[i] \notin Effects!ToSet(disposers)
    <3>1. j <= drained[registered[i]]
      BY <1>1, <1>5, <2>2
    <3>2. /\ registered[i] \in Effects!ToSet(undone) => registered[j] \in Effects!ToSet(undone)
          /\ \A c \in Callers : registered[i] \in Held(c) => registered[j] \in Held(c) \cup Effects!ToSet(undone)
      BY <1>1, <1>o, <3>1 DEF TakenTogether
    <3> QED
      BY <1>3, <2>2, <3>2
  <2> QED
    BY <2>1, <2>2
<1>10. InReverse'
  <2> SUFFICES ASSUME NEW i \in 1 .. n, NEW j \in 1 .. n, NEW k \in DOMAIN undone, NEW m \in DOMAIN undone,
                      undone[k] = registered[i], undone[m] = registered[j], k < m, i < j
               PROVE  drained'[registered[i]] < j
    BY <1>1, <1>u DEF InReverse
  <2>1. registered[i] \notin Effects!ToSet(disposers)
    BY <1>6 DEF Effects!ToSet
  <2> QED
    BY <1>1, <1>5, <1>o, <2>1 DEF InReverse
<1>11. Sorted(disposers)'
  BY <1>2 DEF Sorted
<1>12. ASSUME NEW c \in Callers PROVE Sorted(batch[c])'
  BY <1>2, <1>o, <1>u DEF Sorted
<1> QED
  BY <1>u, <1>o, <1>7, <1>8, <1>9, <1>10, <1>11, <1>12 DEF OrderInv

LEMMA UndoOrder ==
  ASSUME BothInv, NEW d \in Callers, Effects!Undo(d)
  PROVE  OrderInv'
<1> USE DEF BothInv, EffectsInv, Effects!Undo
<1> DEFINE n == Len(registered)
           s == batch[d]
           e == Effects!Last(s)
<1>1. /\ n \in Nat /\ DOMAIN registered = 1 .. n
      /\ \A i \in 1 .. n : registered[i] \in Bodies
  BY DEF EffectsShape
<1>2. s \in Seq(Bodies) /\ s # <<>> /\ Distinct(s)
  BY DEF EffectsShape, OnePlace
<1>3. /\ batch'[d] = Effects!Front(s)
      /\ \A c \in Callers \ {d} : batch'[c] = batch[c]
      /\ undone' = Append(undone, e)
  BY DEF EffectsShape
<1>4. /\ Len(s) \in Nat \ {0} /\ DOMAIN s = 1 .. Len(s)
      /\ DOMAIN Effects!Front(s) = 1 .. Len(s) - 1
      /\ \A k \in 1 .. Len(s) - 1 : Effects!Front(s)[k] = s[k]
      /\ e = s[Len(s)]
  BY <1>2 DEF Effects!Front, Effects!Last
<1>5. e \in Effects!ToSet(s) /\ e \in Bodies /\ Effects!ToSet(Effects!Front(s)) = Effects!ToSet(s) \ {e}
  BY <1>2, TakeLast
<1>7. e \in Held(d) /\ e \notin Effects!ToSet(undone) /\ \A c \in Callers \ {d} : e \notin Held(c)
  BY <1>5 DEF OnePlace, Held
<1>8. /\ Len(undone) \in Nat /\ DOMAIN undone = 1 .. Len(undone)
      /\ DOMAIN undone' = 1 .. Len(undone) + 1
      /\ \A k \in 1 .. Len(undone) : undone'[k] = undone[k]
      /\ undone'[Len(undone) + 1] = e
      /\ Effects!ToSet(undone') = Effects!ToSet(undone) \cup {e}
  BY <1>3, <1>5, AppendOne DEF EffectsShape
<1>u. UNCHANGED <<disposers, registered, drained>>
  OBVIOUS
<1> HIDE DEF n, e, s, BothInv, EffectsInv, Effects!Undo
<1>6. \A c \in Callers : Held(c)' = IF c = d THEN Held(d) \ {e} ELSE Held(c)
  BY <1>3, <1>5 DEF Held, s
<1>o. Distinct(registered) /\ DrainedOK /\ Suffix /\ TakenTogether /\ InReverse
      /\ Sorted(disposers) /\ \A c \in Callers : Sorted(batch[c])
  BY DEF BothInv, OrderInv
<1>9. DrainedOK'
  BY <1>6, <1>8, <1>u, <1>o DEF DrainedOK
\* e was the last to be registered of those that its caller holds.
<1>10. \A i, j \in 1 .. n : i < j /\ registered[i] = e => registered[j] \notin Held(d)
  <2> SUFFICES ASSUME NEW i \in 1 .. n, NEW j \in 1 .. n, i < j, registered[i] = e, registered[j] \in Held(d)
               PROVE  FALSE
    OBVIOUS
  <2> DEFINE z == Len(s)
  <2>0. /\ z \in Nat \ {0} /\ DOMAIN s = 1 .. z /\ s[z] = registered[i]
        /\ i \in DOMAIN registered /\ j \in DOMAIN registered
    BY <1>1, <1>4
  <2>1. \E k \in 1 .. z : s[k] = registered[j]
    BY <2>0 DEF Held, Effects!ToSet, s
  <2> HIDE DEF z
  <2>2. PICK k \in 1 .. z : s[k] = registered[j]
    BY <2>1
  <2>3. Sorted(s)
    BY <1>o DEF s
  <2>4. k # z
    BY <1>o, <2>0, <2>2 DEF Distinct
  <2>5. k < z /\ k \in DOMAIN s /\ z \in DOMAIN s
    BY <2>0, <2>4
  <2>6. j < i
    BY <2>0, <2>2, <2>3, <2>5 DEF Sorted
  <2> QED
    BY <1>1, <2>6
<1>11. TakenTogether'
  <2> SUFFICES ASSUME NEW i \in 1 .. n, NEW j \in 1 .. n, i < j, j <= drained[registered[i]]
               PROVE  /\ registered[i] \in Effects!ToSet(undone') => registered[j] \in Effects!ToSet(undone')
                      /\ \A c \in Callers : registered[i] \in Held(c)'
                           => registered[j] \in Held(c)' \cup Effects!ToSet(undone')
    BY <1>1, <1>u DEF TakenTogether, Held
  <2>1. /\ registered[i] \in Effects!ToSet(undone) => registered[j] \in Effects!ToSet(undone)
        /\ \A c \in Callers : registered[i] \in Held(c) => registered[j] \in Held(c) \cup Effects!ToSet(undone)
    BY <1>1, <1>o DEF TakenTogether
  <2>2. CASE registered[i] = e
    BY <1>6, <1>7, <1>8, <1>10, <2>1, <2>2
  <2>3. CASE registered[i] # e
    BY <1>6, <1>8, <2>1, <2>3
  <2> QED
    BY <2>2, <2>3
<1>12. InReverse'
  <2> SUFFICES ASSUME NEW i \in 1 .. n, NEW j \in 1 .. n, NEW k \in DOMAIN undone', NEW m \in DOMAIN undone',
                      undone'[k] = registered[i], undone'[m] = registered[j], k < m, i < j
               PROVE  drained[registered[i]] < j
    BY <1>1, <1>u DEF InReverse
  <2>1. k \in 1 .. Len(undone) /\ undone[k] = registered[i]
    BY <1>8
  <2>2. CASE m \in 1 .. Len(undone)
    BY <1>1, <1>8, <1>o, <2>1, <2>2 DEF InReverse
  <2>3. CASE m = Len(undone) + 1
    <3>1. registered[j] = e
      BY <1>8, <2>3
    <3>2. registered[i] \in Effects!ToSet(undone) /\ registered[j] \notin Effects!ToSet(undone)
      BY <1>7, <1>8, <2>1, <3>1 DEF Effects!ToSet
    <3>3. ~(j <= drained[registered[i]])
      BY <1>1, <1>o, <3>2 DEF TakenTogether
    <3>4. drained[registered[i]] \in Nat
      BY <1>1, <1>o DEF DrainedOK, n
    <3> QED
      BY <3>3, <3>4
  <2> QED
    BY <1>8, <2>2, <2>3
<1>13. ASSUME NEW c \in Callers PROVE Sorted(batch[c])'
  <2>1. CASE c = d
    <3>1. Sorted(s)
      BY <1>o DEF s
    <3>2. /\ batch'[c] = Effects!Front(s)
          /\ \A k \in DOMAIN Effects!Front(s) : k \in DOMAIN s /\ Effects!Front(s)[k] = s[k]
      BY <1>3, <1>4, <2>1
    <3> QED
      BY <1>u, <3>1, <3>2 DEF Sorted
  <2>2. CASE c # d
    BY <1>3, <1>u, <1>o, <2>2 DEF Sorted
  <2> QED
    BY <2>1, <2>2
<1>14. Suffix' /\ Sorted(disposers)'
  BY <1>u, <1>o DEF Suffix, Sorted
<1> QED
  BY <1>u, <1>o, <1>9, <1>11, <1>12, <1>13, <1>14 DEF OrderInv

LEMMA StepBoth == BothInv /\ [Effects!Next]_effectVars => BothInv'
<1> SUFFICES ASSUME BothInv, [Effects!Next]_effectVars PROVE OrderInv'
  BY StepEffects DEF BothInv
<1>1. ASSUME NEW e \in Bodies, Effects!Setup(e) \/ Effects!Register(e) PROVE OrderInv'
  BY <1>1, SetupOrder, RegisterOrder
<1>2. ASSUME NEW d \in Callers, Effects!Drain(d) \/ Effects!Undo(d) PROVE OrderInv'
  BY <1>2, DrainOrder, UndoOrder
<1>3. CASE UNCHANGED effectVars
  BY <1>3 DEF BothInv, OrderInv, DrainedOK, Suffix, TakenTogether, InReverse, Sorted, Held, effectVars
<1> QED
  BY <1>1, <1>2, <1>3 DEF Effects!Next

LEMMA OrderReverse == BothInv => Effects!UndoneInReverse
<1> SUFFICES ASSUME BothInv, NEW k \in DOMAIN undone, NEW m \in DOMAIN undone,
                    k < m, Effects!Position(undone[k]) < Effects!Position(undone[m])
             PROVE  drained[undone[k]] < Effects!Position(undone[m])
  BY DEF Effects!UndoneInReverse
<1>1. \A x \in DOMAIN undone : Effects!Position(undone[x]) \in DOMAIN registered /\ registered[Effects!Position(undone[x])] = undone[x]
  <2> TAKE x \in DOMAIN undone
  <2>1. undone[x] \in Effects!ToSet(registered)
    BY DEF BothInv, EffectsInv, EverywhereRegistered, Effects!ToSet
  <2>2. \E i \in DOMAIN registered : registered[i] = undone[x]
    BY <2>1 DEF Effects!ToSet
  <2> QED
    BY <2>2 DEF Effects!Position
<1> QED
  BY <1>1 DEF BothInv, OrderInv, InReverse

-----------------------------------------------------------------------------
LEMMA StepOfEffects == [Next]_vars => [Effects!Next]_effectVars
<1> SUFFICES ASSUME [Next]_vars, ~UNCHANGED effectVars PROVE Effects!Next
  BY DEF effectVars
<1>1. CASE Clone
  BY <1>1 DEF Clone, Callers, Effects!Next
<1>2. CASE Teardown
  BY <1>2 DEF Teardown, Callers, Effects!Next, effectVars
<1>3. CASE Dispose
  BY <1>3 DEF Dispose, Callers, Effects!Next, effectVars
<1> QED
  BY <1>1, <1>2, <1>3 DEF Next, Actor, Send, Drop, Recv, Handle, Respond, Announce, ReadChannel,
     NextTurn, vars

(***************************************************************************)
(* The environment, with its actor and any number of kept clones, uses its *)
(* effects as EnvEffects says.                                             *)
(***************************************************************************)
THEOREM ActorImplementsEffects == Spec => Effects!Spec
<1>1. Init => Effects!Init
  BY DEF Init
<1>2. [Next]_vars => [Effects!Next]_(Effects!effectVars)
  BY StepOfEffects DEF effectVars, Effects!effectVars
<1> QED
  BY <1>1, <1>2, PTL DEF Spec, Effects!Spec

(***************************************************************************)
(* However effect and dispose overlap, in however many threads, every      *)
(* disposer that was registered waits to be run or was run once.           *)
(***************************************************************************)
THEOREM EffectsUndoneOnce == Spec => []UndoneOnce
<1>1. Init => EffectsInv
  BY InitEffects DEF Init
<1>2. EffectsInv /\ [Next]_vars => EffectsInv'
  BY StepEffects, StepOfEffects
<1>3. EffectsInv => UndoneOnce
  BY EffectsOnce DEF UndoneOnce
<1> QED
  BY <1>1, <1>2, <1>3, PTL DEF Spec

(***************************************************************************)
(* However effect and dispose overlap, in however many threads, a disposer *)
(* is run after that of every later effect, unless that effect was         *)
(* registered when the earlier one had already been taken.                 *)
(***************************************************************************)
THEOREM EffectsUndoneInReverse == Spec => []UndoneInReverse
<1>1. Init => BothInv
  BY InitEffects, InitOrder DEF BothInv, Init
<1>2. BothInv /\ [Next]_vars => BothInv'
  BY StepBoth, StepOfEffects
<1>3. BothInv => UndoneInReverse
  BY OrderReverse DEF UndoneInReverse
<1> QED
  BY <1>1, <1>2, <1>3, PTL DEF Spec

-----------------------------------------------------------------------------
(* What a turn reads. *)

SnapInv ==
  /\ writes \in Seq(Channels)
  /\ turn \in 0 .. 5
  /\ snapshot \in [Channels -> 0 .. Len(writes)]
  /\ SnapshotOrdered

LEMMA OrderOnce ==
  /\ Len(Order) = 5
  /\ \A i \in 1 .. 5 : Order[i] \in Channels
  /\ \A i, j \in 1 .. 5 : Order[i] = Order[j] => i = j
<1>1. 1 .. 5 = {1, 2, 3, 4, 5}
  OBVIOUS
<1>2. Len(Order) = 5 /\ DOMAIN Order = 1 .. 5
  BY DEF Order
<1>3. \A i, j \in {1, 2, 3, 4, 5} : Order[i] = Order[j] => i = j
  BY DEF Order
<1> QED
  BY <1>1, <1>2, <1>3 DEF Channels, ToSet

\* The version of a channel is the last of the writes to it.
LEMMA LastVersion ==
  ASSUME writes \in Seq(Channels), NEW ch
  PROVE  /\ Version(ch) \in 0 .. Len(writes)
         /\ \A k \in DOMAIN writes : writes[k] = ch => k <= Version(ch)
<1> DEFINE Bounds == {n \in Nat : \A k \in Versions(ch) : k <= n}
           R == OpToRel(<, Nat)
<1>1. /\ Len(writes) \in Nat /\ DOMAIN writes = 1 .. Len(writes)
      /\ 0 \in Versions(ch) /\ Versions(ch) \subseteq 0 .. Len(writes)
  BY DEF Versions
<1>2. Bounds \subseteq Nat /\ Len(writes) \in Bounds
  BY <1>1
<1>3. PICK m \in Bounds : \A k \in Bounds : <<k, m>> \notin R
  <2> HIDE DEF Bounds, R
  <2>1. IsWellFoundedOn(R, Nat)
    BY NatLessThanWellFounded DEF R
  <2> QED
    BY <1>2, <2>1, WFMin, Zenon
<1>4. R = {p \in Nat \X Nat : p[1] < p[2]}
  BY DEF OpToRel
<1>5. \A k \in Bounds : ~(k < m)
  BY <1>3, <1>4
<1>6. m \in Versions(ch)
  <2> SUFFICES ASSUME m \notin Versions(ch) PROVE FALSE
    OBVIOUS
  <2>0. m \in Nat /\ \A k \in Versions(ch) : k \in Nat /\ k <= m /\ k # m
    <3>1. m \in Nat /\ \A k \in Versions(ch) : k <= m
      OBVIOUS
    <3> QED
      BY <1>1, <3>1
  <2> HIDE DEF Bounds
  <2>1. m # 0 /\ m \in Nat /\ \A k \in Versions(ch) : k <= m - 1
    BY <1>1, <2>0
  <2> USE DEF Bounds
  <2>2. m - 1 \in Bounds
    BY <2>1
  <2> QED
    BY <1>5, <2>1, <2>2
<1>7. \A j \in Versions(ch) : j <= m
  BY <1>3
<1>8. Version(ch) \in Versions(ch) /\ \A j \in Versions(ch) : j <= Version(ch)
  BY <1>6, <1>7 DEF Version
<1> QED
  BY <1>1, <1>8 DEF Versions

\* A step writes one channel at most, in the actor.
LEMMA OneWrite ==
  ASSUME ActorInv, [Next]_vars
  PROVE  \/ UNCHANGED writes
         \/ \E ch \in Channels : writes' = Append(writes, ch) /\ UNCHANGED loopVars
<1>1. CASE Handle
  <2> DEFINE cmd == Head(mailbox)
  <2>1. CASE Query(cmd)
    BY <2>1 DEF Query, envVars
  <2>2. CASE Mutate(cmd)
    <3> HIDE DEF cmd
    <3>1. {"client", "tools", "model", "level", "skill"} \subseteq Channels
      <4>1. /\ Order[1] = "client" /\ Order[2] = "tools" /\ Order[3] = "model"
            /\ Order[4] = "level" /\ Order[5] = "skill"
        BY DEF Order
      <4> QED
        BY <4>1, OrderOnce
    <3>2. UNCHANGED writes \/ \E ch \in Channels : writes' = Append(writes, ch)
      BY <2>2, <3>1 DEF Mutate, SetPlain, SetPrompt, AddTool, RemoveTool, SetAvailability, AddSkill,
         RemoveSkill,
         Activate, Deactivate, PushTools, PushSkills, Write
    <3> QED
      BY <1>1, <3>2 DEF Handle
  <2> QED
    BY <1>1, <2>1, <2>2 DEF Handle
<1> QED
  BY <1>1 DEF Next, Actor, Send, Drop, Recv, Respond, Announce, Teardown, Dispose, ReadChannel,
     NextTurn,
     Clone, vars, envVars

LEMMA InitSnap == Init => SnapInv
BY OrderOnce DEF Init, SnapInv, SnapshotOrdered, Unread

LEMMA StepSnap == ActorInv /\ SnapInv /\ [Next]_vars => SnapInv'
<1> SUFFICES ASSUME ActorInv, SnapInv, [Next]_vars PROVE SnapInv'
  OBVIOUS
<1> USE DEF SnapInv
<1>0. /\ Len(writes) \in Nat /\ DOMAIN writes = 1 .. Len(writes)
      /\ \A i \in 1 .. turn : Order[i] \in Channels /\ snapshot[Order[i]] \in 0 .. Len(writes)
  BY OrderOnce
<1>1. CASE ReadChannel
  <2> DEFINE ch == Order[turn + 1]
  <2>1. /\ turn \in 0 .. 4 /\ turn' = turn + 1 /\ ch \in Channels
        /\ writes' = writes
        /\ snapshot' = [snapshot EXCEPT ![ch] = Version(ch)]
    BY <1>1, OrderOnce DEF ReadChannel, envVars
  <2>2. /\ Version(ch) \in 0 .. Len(writes)
        /\ \A k \in DOMAIN writes : writes[k] = ch => k <= Version(ch)
    BY LastVersion
  <2>3. snapshot'[ch] = Version(ch) /\ \A i \in 1 .. turn : snapshot'[Order[i]] = snapshot[Order[i]]
    BY <1>0, <2>1, OrderOnce
  <2> HIDE DEF ch
  <2>4. SnapshotOrdered'
    <3> SUFFICES ASSUME NEW i \in 1 .. turn + 1, NEW j \in 1 .. turn + 1, i < j,
                        NEW k \in 1 .. snapshot'[Order[i]], writes[k] = Order[j]
                 PROVE  k <= snapshot'[Order[j]]
      BY <2>1 DEF SnapshotOrdered
    <3>1. i \in 1 .. turn /\ k \in 1 .. snapshot[Order[i]] /\ k \in DOMAIN writes
      BY <1>0, <2>1, <2>3
    <3>2. CASE j = turn + 1
      BY <2>2, <2>3, <3>1, <3>2 DEF ch
    <3>3. CASE j \in 1 .. turn
      BY <2>3, <3>1, <3>3 DEF SnapshotOrdered
    <3> QED
      BY <2>1, <3>2, <3>3
  <2> QED
    BY <2>1, <2>2, <2>4
<1>2. CASE NextTurn
  BY <1>2, OrderOnce DEF NextTurn, SnapshotOrdered, Unread, envVars
<1>3. CASE \E ch \in Channels : writes' = Append(writes, ch) /\ UNCHANGED loopVars
  <2>1. PICK ch \in Channels : writes' = Append(writes, ch)
    BY <1>3
  <2>2. /\ writes' \in Seq(Channels) /\ Len(writes') = Len(writes) + 1
        /\ \A k \in 1 .. Len(writes) : writes'[k] = writes[k]
    BY <2>1
  <2>3. turn' = turn /\ snapshot' = snapshot
    BY <1>3 DEF loopVars
  <2>4. SnapshotOrdered'
    <3> SUFFICES ASSUME NEW i \in 1 .. turn, NEW j \in 1 .. turn, i < j,
                        NEW k \in 1 .. snapshot[Order[i]], writes'[k] = Order[j]
                 PROVE  k <= snapshot[Order[j]]
      BY <2>3 DEF SnapshotOrdered
    <3>1. k \in 1 .. Len(writes)
      BY <1>0
    <3> QED
      BY <2>2, <3>1 DEF SnapshotOrdered
  <2> QED
    BY <2>2, <2>3, <2>4
<1>4. CASE UNCHANGED writes /\ UNCHANGED loopVars
  BY <1>4 DEF loopVars, SnapshotOrdered
<1>5. UNCHANGED writes => ReadChannel \/ NextTurn \/ UNCHANGED loopVars
  BY DEF Next, Actor, Send, Drop, Recv, Handle, Respond, Announce, Teardown, Dispose, Clone, vars
<1> QED
  BY <1>1, <1>2, <1>3, <1>4, <1>5, OneWrite

(***************************************************************************)
(* However the commands of any clients fall between the five reads of a    *)
(* turn: with a value, the turn reads all that was written before it to    *)
(* the channels that it reads later.                                       *)
(***************************************************************************)
THEOREM SnapshotsOrdered == Spec => []SnapshotOrdered
<1>1. Init => SnapInv
  BY InitSnap
<1>2. ActorInv /\ SnapInv /\ [Next]_vars => SnapInv'
  BY StepSnap
<1>3. SnapInv => SnapshotOrdered
  BY DEF SnapInv
<1> QED
  BY <1>1, <1>2, <1>3, ActorInvAlways, PTL DEF Spec
-----------------------------------------------------------------------------
(* What a client that follows the events knows. *)

\* An event tells of a tool that comes or goes.
About(e, t) == e.op \in {"add_tool", "remove_tool"} /\ e.arg = t

\* The last event about a tool says whether it is known.
Agrees(q, known) ==
  \A t \in Tools, k \in DOMAIN q :
    About(q[k], t) /\ (\A n \in DOMAIN q : n > k => ~About(q[n], t))
      => (t \in known <=> q[k].op = "add_tool")

\* Where no event is about a tool, the client is right.
Covers(q, has, known) ==
  \A t \in Tools : (\A k \in DOMAIN q : ~About(q[k], t)) => (t \in has <=> t \in known)

\* What a client will get, with the event that is about to be sent.
Pending(c) == IF todo.event = Nobody THEN feed[c] ELSE Append(feed[c], todo.event)

FeedsOK ==
  /\ todo \in [answer : Clients \cup {Nobody}, event : Events \cup {Nobody}]
  /\ feed \in [Clients -> Seq(Events) \cup {Nobody}]
  /\ mirror \in [Clients -> SUBSET Tools]
  /\ following \subseteq {c \in Clients : feed[c] # Nobody}
  /\ \A c \in Clients : feed[c] # Nobody => Len(feed[c]) <= FeedCapacity

Told ==
  \A c \in Clients : feed[c] # Nobody =>
    /\ Agrees(Pending(c), Known(tools))
    /\ c \in following \ lagged => Covers(Pending(c), mirror[c], Known(tools))

MirrorInv == FeedsOK /\ Told

\* known becomes after with the event e.
Tells(e, known, after) ==
  \A t \in Tools : t \in after <=> IF About(e, t) THEN e.op = "add_tool" ELSE t \in known

LEMMA AppendEvent ==
  ASSUME NEW q \in Seq(Events), NEW e \in Events, NEW known, NEW after, Agrees(q, known), Tells(e, known, after)
  PROVE  /\ Agrees(Append(q, e), after)
         /\ \A has : Covers(q, has, known) => Covers(Append(q, e), has, after)
<1>1. /\ Len(q) \in Nat /\ DOMAIN q = 1 .. Len(q)
      /\ DOMAIN Append(q, e) = 1 .. Len(q) + 1
      /\ \A k \in 1 .. Len(q) : Append(q, e)[k] = q[k]
      /\ Append(q, e)[Len(q) + 1] = e
  OBVIOUS
<1> DEFINE p == Append(q, e)
<1>2. Agrees(p, after)
  <2> SUFFICES ASSUME NEW t \in Tools, NEW k \in DOMAIN p, About(p[k], t),
                      \A n \in DOMAIN p : n > k => ~About(p[n], t)
               PROVE  t \in after <=> p[k].op = "add_tool"
    BY DEF Agrees
  <2>1. CASE k = Len(q) + 1
    BY <1>1, <2>1 DEF Tells
  <2>2. CASE k \in 1 .. Len(q)
    <3>1. ~About(e, t) /\ p[k] = q[k] /\ k \in DOMAIN q
      BY <1>1, <2>2
    <3>2. \A n \in DOMAIN q : n > k => ~About(q[n], t)
      BY <1>1
    <3>3. t \in known <=> q[k].op = "add_tool"
      BY <3>1, <3>2 DEF Agrees
    <3> QED
      BY <3>1, <3>3 DEF Tells
  <2> QED
    BY <1>1, <2>1, <2>2
<1>3. ASSUME NEW has, Covers(q, has, known) PROVE Covers(p, has, after)
  <2> SUFFICES ASSUME NEW t \in Tools, \A k \in DOMAIN p : ~About(p[k], t)
               PROVE  t \in has <=> t \in after
    BY DEF Covers
  <2>1. ~About(e, t) /\ \A k \in DOMAIN q : ~About(q[k], t)
    BY <1>1
  <2> QED
    BY <1>3, <2>1 DEF Covers, Tells
<1> QED
  BY <1>2, <1>3

LEMMA TailEvents ==
  ASSUME NEW q \in Seq(Events), q # <<>>, NEW known, Agrees(q, known)
  PROVE  Agrees(Tail(q), known)
<1>1. /\ Len(q) \in Nat \ {0} /\ DOMAIN q = 1 .. Len(q)
      /\ DOMAIN Tail(q) = 1 .. Len(q) - 1
      /\ \A k \in 1 .. Len(q) - 1 : Tail(q)[k] = q[k + 1]
  OBVIOUS
<1> DEFINE p == Tail(q)
<1> SUFFICES ASSUME NEW t \in Tools, NEW k \in DOMAIN p, About(p[k], t),
                    \A n \in DOMAIN p : n > k => ~About(p[n], t)
             PROVE  t \in known <=> p[k].op = "add_tool"
  BY DEF Agrees
<1>2. p[k] = q[k + 1] /\ k + 1 \in DOMAIN q
  BY <1>1
<1>3. ASSUME NEW n \in DOMAIN q, n > k + 1 PROVE ~About(q[n], t)
  <2>1. n - 1 \in DOMAIN p /\ n - 1 > k /\ p[n - 1] = q[n]
    BY <1>1, <1>3
  <2> QED
    BY <2>1
<1> QED
  BY <1>2, <1>3 DEF Agrees

\* A subscriber applies the next event.
LEMMA TakeEvent ==
  ASSUME NEW q \in Seq(Events), q # <<>>, NEW known, NEW has, Agrees(q, known), Covers(q, has, known),
         NEW now, Tells(Head(q), has, now)
  PROVE  Covers(Tail(q), now, known)
<1>1. /\ Len(q) \in Nat \ {0} /\ DOMAIN q = 1 .. Len(q)
      /\ DOMAIN Tail(q) = 1 .. Len(q) - 1
      /\ \A k \in 1 .. Len(q) - 1 : Tail(q)[k] = q[k + 1]
      /\ Head(q) = q[1]
  OBVIOUS
<1> SUFFICES ASSUME NEW t \in Tools, \A k \in DOMAIN Tail(q) : ~About(Tail(q)[k], t)
             PROVE  t \in now <=> t \in known
  BY DEF Covers
<1>2. \A n \in DOMAIN q : n > 1 => ~About(q[n], t)
  <2> SUFFICES ASSUME NEW n \in DOMAIN q, n > 1 PROVE ~About(q[n], t)
    OBVIOUS
  <2>1. n - 1 \in DOMAIN Tail(q) /\ Tail(q)[n - 1] = q[n]
    BY <1>1
  <2> QED
    BY <2>1
<1>3. CASE About(Head(q), t)
  <2>1. t \in known <=> q[1].op = "add_tool"
    BY <1>1, <1>2, <1>3 DEF Agrees
  <2> QED
    BY <1>1, <1>3, <2>1 DEF Tells
<1>4. CASE ~About(Head(q), t)
  <2>1. \A n \in DOMAIN q : ~About(q[n], t)
    BY <1>1, <1>2, <1>4
  <2> QED
    BY <1>4, <2>1 DEF Covers, Tells
<1> QED
  BY <1>3, <1>4

\* The queue after an event has been sent, and what it drops.
LEMMA IntoFeed ==
  ASSUME NEW q \in Seq(Events), Len(q) <= FeedCapacity, NEW e \in Events
  PROVE  /\ Into(q, e) \in Seq(Events)
         /\ Len(Into(q, e)) <= FeedCapacity
         /\ Into(q, e) = Append(q, e) \/ (Len(q) = FeedCapacity /\ Into(q, e) = Tail(Append(q, e)))
<1>1. CASE Len(q) < FeedCapacity
  BY <1>1, EnvAssumption DEF Into
<1>2. CASE ~(Len(q) < FeedCapacity)
  <2>1. q # <<>> /\ Len(q) = FeedCapacity
    BY <1>2, EnvAssumption
  <2>2. Append(Tail(q), e) = Tail(Append(q, e)) /\ Len(Append(Tail(q), e)) = Len(q)
    BY <2>1
  <2> QED
    BY <1>2, <2>1, <2>2 DEF Into
<1> QED
  BY <1>1, <1>2

-----------------------------------------------------------------------------
LEMMA InitMirror == Init => MirrorInv
<1> SUFFICES ASSUME Init PROVE MirrorInv
  OBVIOUS
<1>1. FeedsOK
  BY DEF Init, FeedsOK, Nothing
<1>2. Told
  BY DEF Init, Told
<1> QED
  BY <1>1, <1>2 DEF MirrorInv

\* Steps that leave the tools, the event to send and the feeds alone.
LEMMA MirrorKept ==
  ASSUME MirrorInv, Known(tools') = Known(tools), UNCHANGED <<feed, lagged, mirror, following>>,
         todo' \in [answer : Clients \cup {Nobody}, event : Events \cup {Nobody}], todo'.event = todo.event
  PROVE  MirrorInv'
BY DEF MirrorInv, FeedsOK, Told, Pending

\* What a command makes of the tools is what its event tells of them.
LEMMA MutateTells ==
  ASSUME RegistriesOK, NEW cmd \in Cmds, Mutate(cmd)
  PROVE  /\ todo' \in [answer : Clients \cup {Nobody}, event : Events \cup {Nobody}]
         /\ \/ todo'.event = Nobody /\ Known(tools') = Known(tools)
            \/ /\ todo'.event \in Events
               /\ Tells(todo'.event, Known(tools), Known(tools'))
<1> DEFINE e == Event(cmd)
<1>1. cmd.from \in Clients /\ cmd.op \in Ops /\ cmd.arg \in Args(cmd.op)
  BY DEF Cmds
<1>2. e \in Events /\ e.op = cmd.op /\ e.arg = cmd.arg
  BY <1>1 DEF Events, Event
<1> DEFINE silent == todo'.event = Nobody /\ Known(tools') = Known(tools)
           told == todo'.event = e /\ Tells(e, Known(tools), Known(tools'))
           record == todo' \in [answer : Clients \cup {Nobody}, event : Events \cup {Nobody}]
<1>e. Nothing \in [answer : Clients \cup {Nobody}, event : Events \cup {Nobody}]
      /\ Nothing.event = Nobody /\ [Nothing EXCEPT !.answer = cmd.from].event = Nobody
      /\ [Nothing EXCEPT !.answer = cmd.from] \in [answer : Clients \cup {Nobody}, event : Events \cup {Nobody}]
  BY <1>1 DEF Nothing
<1>t. /\ Tell(cmd) => record /\ todo'.event = e
      /\ AnswerAndTell(cmd) => record /\ todo'.event = e
  BY <1>1, <1>2 DEF Tell, AnswerAndTell
\* Where the tools stay, any other event tells of them.
<1>s. cmd.op \notin {"add_tool", "remove_tool"} => Tells(e, Known(tools), Known(tools))
  BY <1>2 DEF Tells, About, Known
<1> HIDE DEF e
<1>3. CASE SetPlain(cmd)
  BY <1>3, <1>e, <1>t, <1>s DEF SetPlain
<1>4. CASE SetPrompt(cmd)
  BY <1>4, <1>e DEF SetPrompt
<1>5. CASE AddTool(cmd)
  <2>1. cmd.arg \in Tools /\ tools' = [tools EXCEPT ![cmd.arg] = "on"] /\ Tell(cmd) /\ cmd.op = "add_tool"
    BY <1>1, <1>5 DEF AddTool, PushTools, Args
  <2>2. Tells(e, Known(tools), Known(tools'))
    BY <1>2, <2>1 DEF Tells, About, Known, RegistriesOK
  <2> QED
    BY <1>t, <1>2, <2>1, <2>2
<1>6. CASE RemoveTool(cmd)
  <2>1. cmd.arg \in Tools /\ tools' = [tools EXCEPT ![cmd.arg] = "none"] /\ Tell(cmd) /\ cmd.op = "remove_tool"
    BY <1>1, <1>6 DEF RemoveTool, PushTools, Args
  <2>2. Tells(e, Known(tools), Known(tools'))
    BY <1>2, <2>1 DEF Tells, About, Known, RegistriesOK
  <2> QED
    BY <1>t, <1>2, <2>1, <2>2
<1>7. CASE SetAvailability(cmd)
  <2>1. cmd.arg \in Tools /\ cmd.op \in {"enable", "disable"} /\ Tell(cmd)
    BY <1>1, <1>7 DEF SetAvailability, Args
  <2>2. Known(tools') = Known(tools)
    BY <1>7, <2>1 DEF SetAvailability, PushTools, Known, RegistriesOK
  <2>3. Tells(e, Known(tools), Known(tools))
    BY <1>s, <2>1
  <2> QED
    BY <1>t, <1>2, <2>1, <2>2, <2>3
<1>8. CASE AddSkill(cmd) \/ RemoveSkill(cmd)
  BY <1>8, <1>2, <1>t, <1>s DEF AddSkill, RemoveSkill
<1>9. CASE Activate(cmd) \/ Deactivate(cmd)
  BY <1>9, <1>2, <1>e, <1>t, <1>s DEF Activate, Deactivate
<1> QED
  BY <1>2, <1>3, <1>4, <1>5, <1>6, <1>7, <1>8, <1>9 DEF Mutate

LEMMA HandleMirror ==
  ASSUME ActorInv, MirrorInv, Handle
  PROVE  MirrorInv'
<1> USE DEF MirrorInv
<1> DEFINE cmd == Head(mailbox)
<1>1. cmd \in Cmds
  BY DEF Handle, ActorInv, MailboxOK
<1>2. todo.event = Nobody /\ \A c \in Clients : Pending(c) = feed[c]
  BY DEF Handle, Nothing, Pending
<1> HIDE DEF cmd
<1>3. cmd.from \in Clients
  BY <1>1 DEF Cmds
<1>4. CASE Mutate(cmd)
  <2>1. UNCHANGED <<feed, lagged, mirror, following>>
    BY <1>4 DEF Mutate, clientVars
  <2>2. /\ todo' \in [answer : Clients \cup {Nobody}, event : Events \cup {Nobody}]
        /\ \/ todo'.event = Nobody /\ Known(tools') = Known(tools)
           \/ todo'.event \in Events /\ Tells(todo'.event, Known(tools), Known(tools'))
    BY <1>1, <1>4, MutateTells DEF ActorInv
  <2>3. FeedsOK'
    BY <2>1, <2>2 DEF FeedsOK
  <2>4. CASE todo'.event = Nobody /\ Known(tools') = Known(tools)
    BY <1>2, <2>1, <2>2, <2>4, MirrorKept
  <2>5. CASE todo'.event \in Events /\ Tells(todo'.event, Known(tools), Known(tools'))
    <3> SUFFICES ASSUME NEW c \in Clients, feed[c] # Nobody
                 PROVE  /\ Agrees(Pending(c)', Known(tools'))
                        /\ c \in following \ lagged => Covers(Pending(c)', mirror[c], Known(tools'))
      BY <2>1, <2>3 DEF Told
    <3>1. feed[c] \in Seq(Events) /\ Agrees(feed[c], Known(tools))
          /\ (c \in following \ lagged => Covers(feed[c], mirror[c], Known(tools)))
      BY <1>2 DEF FeedsOK, Told
    <3>2. Pending(c)' = Append(feed[c], todo'.event)
      BY <2>1, <2>5, EnvAssumption DEF Pending
    <3> HIDE DEF MirrorInv
    <3>3. /\ Agrees(Append(feed[c], todo'.event), Known(tools'))
          /\ \A has : Covers(feed[c], has, Known(tools)) => Covers(Append(feed[c], todo'.event), has, Known(tools'))
      BY <2>5, <3>1, AppendEvent
    <3> QED
      BY <3>1, <3>2, <3>3
  <2> QED
    BY <2>2, <2>4, <2>5
<1>5. CASE Query(cmd)
  <2>0. UNCHANGED <<todo, tools>>
    BY <1>5 DEF Query, envVars
  <2>1. CASE Read(cmd)
    BY <2>0, <2>1, MirrorKept DEF Read, FeedsOK
  <2>2. CASE Subscribe(cmd)
    <3>0. <<>> \in Seq(Events) /\ Len(<<>>) = 0 /\ <<>> # Nobody /\ 0 <= FeedCapacity
      <4>1. <<>> \in Seq(Events) /\ Len(<<>>) = 0
        OBVIOUS
      <4>2. Nobody \notin Seq(Events) /\ 0 <= FeedCapacity
        BY EnvAssumption
      <4> QED
        BY <4>1, <4>2
    <3>1. FeedsOK'
      BY <1>3, <2>0, <2>2, <3>0 DEF Subscribe, FeedsOK
    <3>2. \A known : Agrees(<<>>, known)
      BY DEF Agrees
    <3>3. \A c \in Clients : Pending(c)' = feed'[c]
      BY <1>2, <2>0 DEF Pending
    <3>4. Told'
      <4> SUFFICES ASSUME NEW c \in Clients, feed'[c] # Nobody
                   PROVE  /\ Agrees(feed'[c], Known(tools))
                          /\ c \in following' \ lagged' => Covers(feed'[c], mirror'[c], Known(tools))
        BY <2>0, <3>3 DEF Told
      <4>1. CASE c = cmd.from
        BY <1>3, <2>2, <3>2, <4>1 DEF Subscribe, FeedsOK
      <4>2. CASE c # cmd.from
        BY <1>2, <2>2, <4>2 DEF Subscribe, FeedsOK, Told
      <4> QED
        BY <4>1, <4>2
    <3> QED
      BY <3>1, <3>4
  <2>3. CASE GetToolNames(cmd)
    <3>1. FeedsOK'
      BY <1>3, <2>0, <2>3 DEF GetToolNames, FeedsOK, Known
    <3>2. \A q : Covers(q, Known(tools), Known(tools))
      BY DEF Covers
    <3>3. Told'
      <4> SUFFICES ASSUME NEW c \in Clients, feed[c] # Nobody
                   PROVE  /\ Agrees(feed[c], Known(tools))
                          /\ c \in following' \ lagged => Covers(feed[c], mirror'[c], Known(tools))
        BY <1>2, <2>0, <2>3 DEF Told, GetToolNames, Pending
      <4>1. CASE c = cmd.from
        BY <1>2, <2>3, <3>2, <4>1 DEF GetToolNames, FeedsOK, Told
      <4>2. CASE c # cmd.from
        BY <1>2, <2>3, <4>2 DEF GetToolNames, FeedsOK, Told
      <4> QED
        BY <4>1, <4>2
    <3> QED
      BY <3>1, <3>3
  <2> QED
    BY <1>5, <2>1, <2>2, <2>3 DEF Query
<1> QED
  BY <1>4, <1>5 DEF Handle, cmd

LEMMA RecvMirror ==
  ASSUME MirrorInv, NEW c \in Clients, Recv(c)
  PROVE  MirrorInv'
<1> USE DEF MirrorInv
<1> DEFINE q == feed[c]
           e == Head(q)
<1>1. q \in Seq(Events) /\ q # <<>> /\ e \in Events
  BY DEF Recv, FeedsOK
<1>2. UNCHANGED <<todo, tools, lagged, following>>
  BY DEF Recv, envVars
<1>3. /\ feed'[c] = Tail(q) /\ Tail(q) \in Seq(Events) /\ Len(Tail(q)) <= FeedCapacity
      /\ feed' \in [Clients -> Seq(Events) \cup {Nobody}]
      /\ \A x \in Clients \ {c} : feed'[x] = feed[x]
  BY <1>1, EnvAssumption DEF Recv, FeedsOK
<1>4. /\ mirror' \in [Clients -> SUBSET Tools]
      /\ Tells(e, mirror[c], mirror'[c])
      /\ \A x \in Clients \ {c} : mirror'[x] = mirror[x]
  <2>1. e.op = "add_tool" => e.arg \in Tools
    BY <1>1 DEF Events, Args
  <2> DEFINE now == CASE e.op = "add_tool" -> mirror[c] \cup {e.arg}
                      [] e.op = "remove_tool" -> mirror[c] \ {e.arg}
                      [] OTHER -> mirror[c]
  <2>2. mirror' = [mirror EXCEPT ![c] = now]
    BY DEF Recv
  <2>3. now \in SUBSET Tools /\ Tells(e, mirror[c], now)
    BY <2>1 DEF FeedsOK, Tells, About
  <2> QED
    BY <2>2, <2>3 DEF FeedsOK
<1> HIDE DEF q, e
<1>5. FeedsOK'
  BY <1>1, <1>2, <1>3, <1>4, EnvAssumption DEF FeedsOK, q
<1>6. ASSUME NEW x \in Clients, feed'[x] # Nobody
      PROVE  /\ Agrees(Pending(x)', Known(tools))
             /\ x \in following \ lagged => Covers(Pending(x)', mirror'[x], Known(tools))
  <2>1. CASE x # c
    BY <1>2, <1>3, <1>4, <1>6, <2>1 DEF Told, Pending
  <2>2. CASE x = c
    <3> DEFINE p == Pending(c)
    <3>1. /\ p \in Seq(Events) /\ p # <<>> /\ Head(p) = e /\ Tail(p) = Pending(c)'
      <4>1. CASE todo.event = Nobody
        BY <1>1, <1>2, <1>3, <4>1 DEF Pending, q, e
      <4>2. CASE todo.event # Nobody
        <5>1. todo.event \in Events
          BY <4>2 DEF FeedsOK
        <5>2. Tail(Append(q, todo.event)) = Append(Tail(q), todo.event)
          BY <1>1, <5>1
        <5> QED
          BY <1>1, <1>2, <1>3, <4>2, <5>1, <5>2 DEF Pending, q, e
      <4> QED
        BY <4>1, <4>2
    <3>2. feed[c] # Nobody
      BY <1>1, EnvAssumption DEF q
    <3>3. /\ Agrees(p, Known(tools))
          /\ c \in following \ lagged => Covers(p, mirror[c], Known(tools))
      BY <3>2 DEF Told
    <3> HIDE DEF p, MirrorInv
    <3>4. Agrees(Tail(p), Known(tools))
      BY <3>1, <3>3, TailEvents
    <3>5. c \in following \ lagged => Covers(Tail(p), mirror'[c], Known(tools))
      BY <1>4, <3>1, <3>3, TakeEvent
    <3> QED
      BY <2>2, <3>1, <3>4, <3>5
  <2> QED
    BY <2>1, <2>2
<1> QED
  BY <1>2, <1>5, <1>6 DEF Told

LEMMA AnnounceMirror ==
  ASSUME MirrorInv, Announce
  PROVE  MirrorInv'
<1> USE DEF MirrorInv
<1> DEFINE e == todo.event
<1>1. e \in Events /\ tools' = tools /\ UNCHANGED <<mirror, following>>
      /\ todo' = Nothing /\ todo'.event = Nobody
  BY DEF Announce, FeedsOK, envVars, Nothing
<1>2. \A c \in Clients : feed'[c] = IF feed[c] = Nobody THEN Nobody ELSE Into(feed[c], e)
  BY DEF Announce
<1>3. \A c \in Clients : feed[c] # Nobody => feed[c] \in Seq(Events) /\ feed'[c] \in Seq(Events)
  BY <1>1, <1>2, IntoFeed DEF FeedsOK
<1>3a. \A c \in Clients : feed[c] # Nobody => Len(feed'[c]) <= FeedCapacity
  BY <1>1, <1>2, <1>3, IntoFeed DEF FeedsOK
<1>4. FeedsOK'
  <2>1. feed' \in [Clients -> Seq(Events) \cup {Nobody}]
    BY <1>2, <1>3 DEF Announce
  <2>2. \A c \in Clients : feed[c] # Nobody => feed'[c] # Nobody
    BY <1>3, EnvAssumption
  <2>3. todo' \in [answer : Clients \cup {Nobody}, event : Events \cup {Nobody}]
    BY <1>1 DEF Nothing
  <2> QED
    BY <1>1, <1>2, <1>3a, <2>1, <2>2, <2>3 DEF FeedsOK
<1>5. Told'
  <2> SUFFICES ASSUME NEW c \in Clients, feed'[c] # Nobody
               PROVE  /\ Agrees(feed'[c], Known(tools))
                      /\ c \in following \ lagged' => Covers(feed'[c], mirror[c], Known(tools))
    BY <1>1 DEF Told, Pending
  <2>1. feed[c] # Nobody /\ feed[c] \in Seq(Events) /\ feed'[c] = Into(feed[c], e)
    BY <1>2, <1>3
  <2> DEFINE p == Append(feed[c], e)
  <2>2. Pending(c) = p /\ p \in Seq(Events) /\ p # <<>>
    BY <1>1, <2>1 DEF Announce, Pending
  <2>3. /\ Agrees(p, Known(tools))
        /\ c \in following \ lagged => Covers(p, mirror[c], Known(tools))
    BY <2>1, <2>2 DEF Told
  <2>4. \/ feed'[c] = p
        \/ Len(feed[c]) = FeedCapacity /\ feed'[c] = Tail(p)
    BY <1>1, <2>1, IntoFeed DEF FeedsOK
  <2>5. lagged \subseteq lagged'
    BY DEF Announce
  <2> HIDE DEF p, MirrorInv
  <2>6. CASE feed'[c] = p
    BY <2>3, <2>5, <2>6
  <2>7. CASE feed'[c] # p
    <3>1. Agrees(feed'[c], Known(tools))
      BY <2>2, <2>3, <2>4, <2>7, TailEvents
    <3>2. c \in lagged'
      BY <2>1, <2>4, <2>7 DEF Announce
    <3> QED
      BY <3>1, <3>2
  <2> QED
    BY <2>6, <2>7
<1> QED
  BY <1>4, <1>5

LEMMA StepMirror == ActorInv /\ MirrorInv /\ [Next]_vars => MirrorInv'
<1> SUFFICES ASSUME ActorInv, MirrorInv, [Next]_vars PROVE MirrorInv'
  OBVIOUS
<1>1. CASE Handle
  BY <1>1, HandleMirror
<1>2. ASSUME NEW c \in Clients, Recv(c) PROVE MirrorInv'
  BY <1>2, RecvMirror
<1>3. CASE Announce
  BY <1>3, AnnounceMirror
<1>4. CASE Respond
  <2>1. todo' \in [answer : Clients \cup {Nobody}, event : Events \cup {Nobody}] /\ todo'.event = todo.event
    BY <1>4 DEF Respond, MirrorInv, FeedsOK
  <2> QED
    BY <1>4, <2>1, MirrorKept DEF Respond, envVars
<1>5. CASE UNCHANGED <<todo, tools, feed, lagged, mirror, following>>
  BY <1>5, MirrorKept DEF MirrorInv, FeedsOK
<1> QED
  BY <1>1, <1>2, <1>3, <1>4, <1>5 DEF Next, Actor, Send, Drop, Teardown, Dispose, ReadChannel, NextTurn,
     Clone, vars, clientVars, envVars

LEMMA MirrorCaughtUp == MirrorInv => MirrorConverges
<1> SUFFICES ASSUME MirrorInv, NEW c \in following \ lagged, feed[c] = <<>>, todo.event = Nobody
             PROVE  mirror[c] = Known(tools)
  BY DEF MirrorConverges
<1>1. c \in Clients /\ feed[c] # Nobody /\ mirror[c] \subseteq Tools
  BY DEF MirrorInv, FeedsOK
<1>2. Covers(<<>>, mirror[c], Known(tools))
  BY <1>1 DEF MirrorInv, Told, Pending
<1> QED
  BY <1>1, <1>2 DEF Covers, Known

(***************************************************************************)
(* For any number of clients, tools and commands and any capacity of the   *)
(* broadcast: a client that has subscribed, asked for the names, applied   *)
(* every event since and lost none knows the registered tools.             *)
(***************************************************************************)
THEOREM MirrorsConverge == Spec => []MirrorConverges
<1>1. Init => MirrorInv
  BY InitMirror
<1>2. ActorInv /\ MirrorInv /\ [Next]_vars => MirrorInv'
  BY StepMirror
<1>3. MirrorInv => MirrorConverges
  BY MirrorCaughtUp
<1> QED
  BY <1>1, <1>2, <1>3, ActorInvAlways, PTL DEF Spec

-----------------------------------------------------------------------------
(* The builder, and the actor that it starts. *)

\* What a list of skills comes to.
ListOK(list) == DOMAIN list \subseteq Skills /\ \A n \in DOMAIN list : list[n] \in Builder!Library!Kinds

\* What has been configured; a policy is late for the shell as it was built.
ConfigOK ==
  /\ DOMAIN builder = {"key", "client", "tools", "skills", "activate", "load", "sandbox", "policy",
                       "callback", "timeout", "bundle"}
  /\ builder.sandbox = given
  /\ given \in Policies \cup {Nobody}
  /\ builder.policy \in [sandbox : BOOLEAN] \cup {Nobody}
  /\ ListOK(builder.skills)
  /\ DOMAIN builder.tools \subseteq {Shell}
  /\ \A n \in DOMAIN builder.tools : builder.tools[n].builtin /\ ~late => builder.tools[n].fence = given

BuiltOK ==
  /\ runtime.registry = Builder!Registry
  /\ runtime.sandbox = IF given = Nobody THEN Builder!Checks!DefaultSandbox ELSE given
  /\ ListOK(runtime.library.skills)
  /\ runtime.library.active \subseteq DOMAIN runtime.library.skills

\* Until it is spawned the actor is as it starts.
BuilderInv ==
  /\ stage # "spawned" => Init /\ ConfigOK
  /\ stage = "built" => BuiltOK

LEMMA OverOK ==
  ASSUME NEW a, NEW b, ListOK(a), ListOK(b) PROVE ListOK(Builder!Library!Over(a, b))
BY DEF ListOK, Builder!Library!Over

LEMMA OneOK ==
  ASSUME NEW n \in Skills, NEW k \in Builder!Library!Kinds PROVE ListOK(Builder!Library!One(n, k))
BY DEF ListOK, Builder!Library!One

LEMMA FileOK ==
  ASSUME NEW f, Builder!Library!FromFile(f) # NoSkill
  PROVE  /\ Builder!Library!FromFile(f).name \in Skills
         /\ Builder!Library!FromFile(f).kind \in Builder!Library!Kinds
BY AssemblyAssumption DEF AssemblyAssumption, Builder!Library!FromFile, Builder!Library!FromStr,
   Builder!Library!Kinds

LEMMA ListsOK ==
  ASSUME NEW ss, \A s \in ss : s.name \in Skills, NEW l \in Builder!Library!Lists(ss)
  PROVE  ListOK(l)
BY DEF ListOK, Builder!Library!Lists, Builder!Library!Names

LEMMA FoundOK == \A d : \A s \in Builder!Library!Found(d) : s.name \in Skills
BY FileOK DEF Builder!Library!Found

LEMMA DefaultOK == ASSUME NEW l \in Builder!Library!FromDefaultPath PROVE ListOK(l)
BY ListsOK, FoundOK DEF Builder!Library!FromDefaultPath

LEMMA RegistriesKept ==
  ASSUME ListOK(builder.skills), NEW lib \in Builder!SkillRegistries
  PROVE  ListOK(lib.skills) /\ lib.active \subseteq DOMAIN lib.skills
<1>1. ListOK(<<>>)
  BY DEF ListOK
<1>2. PICK found : /\ ListOK(found)
                   /\ lib = Builder!Library!ActivateAll(
                        Builder!Library!AddAll(Builder!Library!NoSkills,
                                               Builder!Library!Over(builder.skills, found)),
                        builder.activate \cup DOMAIN found)
  BY <1>1, DefaultOK DEF Builder!SkillRegistries
<1> DEFINE list == Builder!Library!Over(builder.skills, found)
           all  == Builder!Library!Over(list, <<>>)
<1>3. ListOK(all)
  BY <1>1, <1>2, OverOK
<1>4. Builder!Library!AddAll(Builder!Library!NoSkills, list) = [skills |-> all, active |-> {}]
  BY DEF Builder!Library!AddAll, Builder!Library!NoSkills
<1>5. \A n : Builder!Library!Activate([skills |-> all, active |-> {}], n).active \subseteq DOMAIN all
  BY DEF Builder!Library!Activate
<1>6. lib.skills = all /\ lib.active \subseteq DOMAIN all
  <2> HIDE DEF all
  <2> DEFINE reg == [skills |-> all, active |-> {}]
             names == builder.activate \cup DOMAIN found
             woken == UNION {Builder!Library!Activate(reg, n).active : n \in names}
  <2>1. lib = [reg EXCEPT !.active = @ \cup woken]
    BY <1>2, <1>4 DEF Builder!Library!ActivateAll
  <2>2. woken \subseteq DOMAIN all
    BY <1>5
  <2> HIDE DEF woken
  <2> QED
    BY <2>1, <2>2
<1> QED
  BY <1>3, <1>6

LEMMA InitBuilder == AssemblyInit => BuilderInv
BY DEF AssemblyInit, Builder!Init, BuilderInv, ConfigOK, ListOK

LEMMA ConfigureKeeps ==
  ASSUME ConfigOK, Builder!Configure PROVE ConfigOK'
<1> USE DEF ConfigOK, Builder!Set
<1>1. CASE Builder!ApiKey \/ Builder!Client \/ Builder!OnApprovalRequired \/ Builder!WithApprovalTimeout
             \/ Builder!WithMiddlewareBundle \/ Builder!WithSkillActive \/ Builder!WithSkillsDefaultPath
  BY <1>1 DEF Builder!ApiKey, Builder!Client, Builder!OnApprovalRequired, Builder!WithApprovalTimeout,
     Builder!WithMiddlewareBundle, Builder!WithSkillActive, Builder!WithSkillsDefaultPath, ListOK
<1>2. CASE Builder!WithToolPolicy
  BY <1>2 DEF Builder!WithToolPolicy, ListOK
<1>3. CASE Builder!WithSandboxPolicy
  BY <1>3 DEF Builder!WithSandboxPolicy, ListOK
<1>4. ASSUME NEW list, ListOK(list),
             Builder!Set([builder EXCEPT !.skills = Builder!Library!Over(list, @)])
      PROVE  ConfigOK'
  <2>1. builder'.skills = Builder!Library!Over(list, builder.skills)
    BY <1>4
  <2>2. ListOK(builder'.skills)
    BY <1>4, <2>1, OverOK
  <2> QED
    BY <1>4, <2>2 DEF ListOK
<1>5. CASE Builder!WithSkillFile
  <2>1. CASE UNCHANGED <<builder, given, late>>
    BY <2>1 DEF ListOK
  <2> QED
    BY <1>4, <1>5, <2>1, FileOK, OneOK DEF Builder!WithSkillFile
<1>6. CASE Builder!WithSkillsDir
  BY <1>4, <1>6, ListsOK, FoundOK DEF Builder!WithSkillsDir, Builder!Library!FromDir
<1>7. CASE Builder!WithSkill
  BY <1>4, <1>7, OneOK DEF Builder!WithSkill
<1>8. CASE Builder!WithTool
  BY <1>8 DEF Builder!WithTool, Builder!Library!Over, Builder!Library!One, ListOK
<1>9. CASE Builder!WithBuiltinTools
  BY <1>9 DEF Builder!WithBuiltinTools, Builder!Library!Over, Builder!Library!One, ListOK
<1> QED
  BY <1>1, <1>2, <1>3, <1>5, <1>6, <1>7, <1>8, <1>9 DEF Builder!Configure

LEMMA BuildKeeps ==
  ASSUME ConfigOK, Builder!Build PROVE ConfigOK' /\ (stage' = "built" => BuiltOK')
<1>1. ConfigOK' /\ Builder!Registry' = Builder!Registry
  BY DEF ConfigOK, ListOK, Builder!Build, Builder!Registry, Builder!Policy, Builder!Zone, Builder!Fence
<1>2. stage' = "built" => BuiltOK'
  BY <1>1, RegistriesKept DEF ConfigOK, BuiltOK, ListOK, Builder!Build
<1> QED
  BY <1>1, <1>2

\* What is spawned is what the actor may start with.
LEMMA SpawnStarts ==
  ASSUME Init, BuiltOK, Spawn PROVE Init'
<1>1. /\ tools' \in [Tools -> {"none", "on"}]
      /\ skills' \in [Skills -> {"none", "plain", "hidden"}]
      /\ active' \in SUBSET {s \in Skills : skills'[s] # "none"}
  BY DEF Spawn, BuiltOK, ListOK, Builder!Library!Kinds
<1> QED
  BY <1>1 DEF Init, Spawn, clientVars, loopVars, effectVars, Effects!Init, Available, Joined

LEMMA StepBuilder == BuilderInv /\ [AssemblyNext]_allVars => BuilderInv'
<1> SUFFICES ASSUME BuilderInv, [AssemblyNext]_allVars PROVE BuilderInv'
  OBVIOUS
<1>1. UNCHANGED vars /\ Init => Init'
  BY DEF vars, clientVars, envVars, loopVars, effectVars, Init, Effects!Init, Available, Joined
<1>2. CASE Builder!Configure /\ UNCHANGED vars
  BY <1>1, <1>2, ConfigureKeeps DEF BuilderInv, Builder!Configure
<1>3. CASE Builder!Build /\ UNCHANGED vars
  BY <1>1, <1>3, BuildKeeps DEF BuilderInv, Builder!Build
<1>4. CASE Spawn
  BY <1>4 DEF Spawn, BuilderInv
<1>5. CASE UNCHANGED buildVars /\ (stage = "spawned" \/ UNCHANGED vars)
  BY <1>1, <1>5 DEF buildVars, BuilderInv, ConfigOK, BuiltOK, ListOK, Builder!Registry, Builder!Policy,
     Builder!Zone, Builder!Fence
<1> QED
  BY <1>2, <1>3, <1>4, <1>5 DEF AssemblyNext, allVars

(***************************************************************************)
(* In whatever order any methods of the builder are called, with any       *)
(* policies, tools and skills: the registry trusts exactly the files under *)
(* the enabled sandbox policy that was given last and turns down the       *)
(* others, unless the user's tool policy says otherwise; the actor reports *)
(* that policy, and the built-in shell has it if it was given in time.     *)
(***************************************************************************)
THEOREM FenceAlwaysHolds == AssemblySpec => []FenceHolds
<1>1. BuilderInv => FenceHolds
  <2> SUFFICES ASSUME ConfigOK, BuiltOK PROVE Builder!FenceHolds
    BY DEF BuilderInv, FenceHolds, Builder!FenceHolds
  <2> DEFINE trusted(f) == given # Nobody /\ given.enabled /\ Under[f] \cap Builder!Roots(given) # {}
             g == runtime.registry
  <2>1. /\ g.zone = Builder!Zone /\ g.fence = Builder!Fence /\ g.policy = Builder!Policy
        /\ g.tools = builder.tools
    BY DEF BuiltOK, Builder!Registry
  <2>2. /\ given = Nobody \/ (given \in Policies /\ given.enabled \in BOOLEAN)
        /\ given # Nobody => Builder!Roots(given) # Nobody
        /\ builder.sandbox = given
    BY AssemblyAssumption DEF ConfigOK, AssemblyAssumption
  <2>3. ASSUME NEW f \in DOMAIN Under
        PROVE  Builder!Checks!AutoApproved(g, Builder!Call(f), DOMAIN Under) <=> trusted(f)
    <3>1. f # Nobody
      BY AssemblyAssumption DEF AssemblyAssumption
    <3>2. Builder!Zone # Nobody <=> given # Nobody /\ given.enabled /\ Builder!Roots(given) # {}
      BY <2>2 DEF Builder!Zone
    <3>3. Builder!Zone # Nobody => Builder!Zone = Builder!Roots(given)
      BY <2>2 DEF Builder!Zone
    <3> QED
      BY <2>1, <3>1, <3>2, <3>3 DEF Builder!Checks!AutoApproved, Builder!Checks!Verified, Builder!Call
  <2>4. ASSUME NEW f \in DOMAIN Under, ~trusted(f), builder.policy = Nobody,
               given # Nobody => given.enabled
        PROVE  Builder!Checks!Rejected(g, Builder!Call(f), DOMAIN Under)
    <3>1. g.policy.sandbox
      BY <2>1, <2>2, <2>4 DEF Builder!Policy, Builder!DefaultPolicy, Builder!Checks!DefaultToolPolicy
    <3>2. Under[f] \cap g.fence = {}
      BY <2>1, <2>2, <2>4 DEF Builder!Fence
    <3> QED
      BY <2>3, <2>4, <3>1, <3>2 DEF Builder!Checks!Rejected, Builder!Checks!Within, Builder!Call
  <2>5. \A n \in DOMAIN g.tools : g.tools[n].builtin /\ ~late => g.tools[n].fence = given
    BY <2>1 DEF ConfigOK
  <2> QED
    BY <2>3, <2>4, <2>5 DEF Builder!FenceHolds, BuiltOK
<1>2. AssemblyInit => BuilderInv
  BY InitBuilder
<1>3. BuilderInv /\ [AssemblyNext]_allVars => BuilderInv'
  BY StepBuilder
<1> QED
  BY <1>1, <1>2, <1>3, PTL DEF AssemblySpec

ActorInvs == ActorInv /\ SnapInv /\ MirrorInv /\ BothInv

(***************************************************************************)
(* What holds of an actor that starts with any registries holds of the one *)
(* that a builder starts: the skills that it has registered and activated  *)
(* are a state that the actor may start in.                                *)
(***************************************************************************)
THEOREM AssembledActor ==
  AssemblySpec => [](/\ ChannelsFollow /\ SnapshotOrdered /\ MirrorConverges
                     /\ TeardownComplete /\ UndoneOnce /\ UndoneInReverse)
<1>1. Init => ActorInvs
  BY InitActor, InitSnap, InitMirror, InitEffects, InitOrder DEF ActorInvs, BothInv, Init
<1>2. ActorInvs /\ [Next]_vars => ActorInvs'
  BY StepActor, StepSnap, StepMirror, StepBoth, StepOfEffects DEF ActorInvs
<1>3. BuilderInv /\ ActorInvs /\ [AssemblyNext]_allVars => ActorInvs'
  <2> SUFFICES ASSUME BuilderInv, ActorInvs, [AssemblyNext]_allVars PROVE ActorInvs'
    OBVIOUS
  <2>1. CASE Spawn
    <3>1. Init'
      BY <2>1, SpawnStarts DEF Spawn, BuilderInv
    <3> QED
      BY <1>1, <3>1, PTL
  <2>2. CASE [Next]_vars
    BY <1>2, <2>2
  <2> QED
    BY <2>1, <2>2 DEF AssemblyNext, allVars
<1>4. AssemblyInit => BuilderInv /\ ActorInvs
  BY <1>1, InitBuilder DEF AssemblyInit
<1>5. BuilderInv /\ [AssemblyNext]_allVars => BuilderInv'
  BY StepBuilder
<1>6. ActorInvs => /\ ChannelsFollow /\ SnapshotOrdered /\ MirrorConverges
                   /\ TeardownComplete /\ UndoneOnce /\ UndoneInReverse
  BY ActorOver, MirrorCaughtUp, EffectsOnce, OrderReverse
     DEF ActorInvs, ActorInv, SnapInv, BothInv, UndoneOnce, UndoneInReverse
<1> QED
  BY <1>3, <1>4, <1>5, <1>6, PTL DEF AssemblySpec
=============================================================================
