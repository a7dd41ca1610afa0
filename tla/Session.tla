------------------------------ MODULE Session ------------------------------
(***************************************************************************)
(* The session actor (chat/session.rs): it owns the messages of one        *)
(* conversation and serves, one at a time, the commands that any number    *)
(* of tasks send on clones of its unbounded channel.                       *)
(***************************************************************************)
EXTENDS Naturals, Sequences

CONSTANTS Clients,  \* the tasks that await an answer of the actor
          Message,  \* FuneraMessage
          Nothing   \* no reply, no client, no body

VARIABLES
  mailbox,  \* the unbounded channel of SessionCmd
  msgs,     \* the actor's messages
  reply     \* the oneshot response each client has not read yet

vars == <<mailbox, msgs, reply>>

\* Every caller pushes its messages one by one; FetchContext stands for
\* GetMessages too, and has no client if its receiver was dropped.
SessionCmd(op, client, body) == [op |-> op, client |-> client, body |-> body]

SessionCmds ==
  [op : {"push"},  client : {Nothing},                body : Message]
  \cup [op : {"fetch"}, client : Clients \cup {Nothing}, body : {Nothing}]
  \cup [op : {"clear"}, client : {Nothing},              body : {Nothing}]

Asked(c) == \E i \in DOMAIN mailbox : mailbox[i].client = c

\* What one command, and a whole mailbox, make of the messages.
Applied(ms, cmd) ==
  IF cmd.op = "push" THEN Append(ms, cmd.body)
  ELSE IF cmd.op = "clear" THEN <<>> ELSE ms

After(ms, cmds) ==
  LET after[n \in 0 .. Len(cmds)] == IF n = 0 THEN ms ELSE Applied(after[n - 1], cmds[n])
  IN  after[Len(cmds)]

Drained(cmds) == After(msgs, cmds)

Init ==
  /\ mailbox = <<>>
  /\ msgs = <<>>
  /\ reply = [c \in Clients |-> Nothing]

Send(cmd) ==
  /\ mailbox' = Append(mailbox, cmd)
  /\ UNCHANGED <<msgs, reply>>

PushMessages(m) == Send(SessionCmd("push", Nothing, m))

Clear == Send(SessionCmd("clear", Nothing, Nothing))

\* Fault: the context is read past the commands that wait.
FetchContext_Unqueued(c) ==
  /\ reply[c] = Nothing
  /\ ~Asked(c)
  /\ reply' = [reply EXCEPT ![c] = msgs]
  /\ UNCHANGED <<mailbox, msgs>>

\* FetchContext and GetMessages: the client awaits the answer.
FetchContext(c) ==
  /\ reply[c] = Nothing
  /\ ~Asked(c)
  /\ Send(SessionCmd("fetch", c, Nothing))

\* The future that awaits is dropped, and the oneshot's receiver with it.
Abandon(c) ==
  /\ Asked(c)
  /\ mailbox' = [i \in DOMAIN mailbox |->
                   IF mailbox[i].client = c THEN [mailbox[i] EXCEPT !.client = Nothing]
                   ELSE mailbox[i]]
  /\ UNCHANGED <<msgs, reply>>

Receive(c) ==
  /\ reply[c] # Nothing
  /\ reply' = [reply EXCEPT ![c] = Nothing]
  /\ UNCHANGED <<mailbox, msgs>>

\* One turn of the actor's loop; it ignores that a receiver is gone.
Handle ==
  /\ mailbox # <<>>
  /\ LET cmd == Head(mailbox)
     IN /\ msgs' = Applied(msgs, cmd)
        /\ reply' = IF cmd.client \in Clients
                    THEN [reply EXCEPT ![cmd.client] = msgs] ELSE reply
  /\ mailbox' = Tail(mailbox)

-----------------------------------------------------------------------------
\* The first commands of the mailbox, up to the one client c waits for.
Before(c) == SubSeq(mailbox, 1, CHOOSE i \in DOMAIN mailbox : mailbox[i].client = c)

\* The context a client will get is settled when it asks.
View(c) ==
  IF reply[c] # Nothing THEN reply[c]
  ELSE IF Asked(c) THEN Drained(Before(c)) ELSE Nothing

\* The actor and its mailbox are a log on which every command takes effect
\* when it is sent: a context holds exactly the messages pushed before it was
\* asked for and after the last Clear, whatever is still in the mailbox.
Log == INSTANCE SessionLog WITH
         log <- Drained(mailbox), view <- [c \in Clients |-> View(c)]
LogSpec == Log!Spec
=============================================================================
