# funera in TLA+

funera is a Rust library for LLM agents built on tokio: an agent sends a
message, a ReAct loop calls a provider, executes the tools the model asks for,
stores the conversation in a session and broadcasts events to whoever listens.
Most of what can go wrong in it is concurrency: actors behind channels, workers
that share a receiver, broadcast channels that lose events, cancellation by
token, handles that are dropped, loops that fail, tools that meet on one file,
child processes that outlive their command. The rest are decisions about data:
which tool calls are let in, what a batch of edits means, how a stream of chunks
is put together. The modules here model both, TLC checks them on small
instances, and TLAPS proves their safety properties, each invariant and action
property that a passing run checks, for every instance; liveness stays with TLC.

## 1. Inventory

| Component (source) | State | Operations | Talks to | What is hard, what must hold |
|---|---|---|---|---|
| Tool bus, executor pool (`event_bus/tool_bus.rs`, `re_act/tool_executor.rs`) | bounded channel of commands, one receiver behind a mutex, workers | execute, run, execute_command | loop, registry, env actor (which spawns the pool) | commands lost, doubled or entered after a cancel; workers that panic; shutdown with calls at work |
| Session actor (`chat/session.rs`) | messages, mailbox | PushMessages, FetchContext, GetMessages, Clear | agent, loop, user | a context must hold what was pushed before it was asked for, whatever is queued |
| ReAct loop (`re_act.rs`) | iteration, accumulated stream, batch of results | run, process_token_stream, handle_turn_finish, filter_and_store | session, provider, tool bus, middleware, subscribers | cancel at any await; order of messages; requests without results; the end announced |
| Providers, messages (`provider*.rs`, `chat/message.rs`, `event_bus/token_bus.rs`) | HTTP stream, pending token events | build_request_json, create_stream, extract_events, format_json | loop | any stream: chunks cut anywhere, error, silence; requests a provider accepts |
| Middleware chain (`middleware.rs`, `middleware_bundle.rs`) | layers, error channel, tasks of inspectors | with_*, process, run_inspectors, run_mutators | loop, logging task | session and subscribers see the same; an error that comes late is heard |
| Approval (`security/registry.rs`) | pending map, react-bus slot (shared by all clones) | call_tool, approve_tool_call, set_react_bus | workers, env actor, user | timer and cancel against answer; answers twice, early or late; two workers on one slot |
| Policy, boundary, path guard, audit (`security/*.rs`) | configuration | check_*, verify, check_boundary | registry | which calls are refused, run, or need approval |
| Agent, handles, dispatcher (`agent.rs`, `send_handle.rs`, `dispatcher.rs`) | one broadcast channel per agent; per call: task, token, dispatcher, relay, handle | fire, fire_stream, send, send_stream, cancel, wait, recv, drop | loop, subscribers | overlapping calls on one channel; lag; waits and streams that never end |
| Environment actor (`env_actor.rs`) | model, client, tools, skills, limits | 20 commands, one at a time | runtime, loop (watch channels), pool | torn snapshots, missing notifications, stale answers |
| Environment, effects (`env.rs`) | watch senders, disposers | effect, dispose, setters | env actor | effects registered around dispose |
| Env-state bus, turn highway (`event_bus/*.rs`) | per-call channels | prepare_turn, SessionClosed | loop, dispatcher | end of the channel as a signal; buses announced by one channel and used by another |
| Tool registry, skills (`re_act/tool.rs`, `re_act/skills.rs`) | maps | add, remove, availability, from_file, from_dir | builder, env actor, workers | tool gone between request and execution; names that collide |
| Runtime and builder (`runtime.rs`) | the builder's fields; idle or acquired, session | with_*, build; send's typestate, reset | agent, env actor, registry, shell | methods in any order must give one consistent fence; one loop at a time per session |
| Edit, read and write tools (`funera_builtin_tools`) | files | execute | workers, other programs | anchors that are stale; two calls on one file; failures between two file operations |
| Shell tool, sandboxes (`shell.rs`, `sandbox*.rs`) | child processes, pipes, handles, grants | execute, launch_restricted, drop | workers, operating system | a dozen calls that may fail; full pipes; inherited handles; a timeout |
| Secrets, facade, examples, tests | - | - | - | no state of their own |

Interaction in one sentence: a builder makes registry, chain and environment and
spawns the environment actor; `Agent::send` consumes the idle `AgentRuntime`,
subscribes to the agent's broadcast channel and spawns a task that runs the
loop; the loop reads and writes the session through its mailbox, hands tool
calls to the pool through the bus, and sends events through the middleware to
session and broadcast channel; a worker asks the guarded registry, which may ask
the user, and runs the tool; the handle joins the task, reads the broadcast
up to `Done` (which the call's dispatcher publishes) and gives the runtime back.

The hazards, each at its line, are in `PROJECT.json`.

## 2. Modules

| Module | Models | Role |
|---|---|---|
| `ToolService` | the contract of `ToolBus::execute`: every command of a batch gets one outcome | abstract specification |
| `ToolPool` | bus, channel, workers, panics, cancel, shutdown | implements `ToolService` |
| `SessionLog` | a log on which every operation takes effect at once | abstract specification |
| `Session` | actor, mailbox, pending answers | implements `SessionLog`; instantiated by `ReActLoop` and `Middleware` |
| `ReActLoop` | the loop of successive calls on one session, composed with `Session` | component and composition |
| `Wire` | requests made of the history, chunks made into a turn | operators, on top of `ReActLoop` |
| `Middleware` | the chain at work for several loops, inspectors' tasks, error channel, composed with `Session` | component and composition |
| `Guard` | policies and the checks of a tool call | operators, used by `Approval` and `RuntimeBuilder` |
| `Approval` | guarded tool calls, user, env actor | component, on top of `Guard` |
| `CallLifecycle` | overlapping calls of one agent: tasks, dispatchers, relays, handles | component |
| `EnvEffects` | reversible effects and their disposal | component |
| `EnvActor` | the environment actor's commands, registries, watch channels and state events, a turn's reads, teardown | component, instantiates `EnvEffects` |
| `Skills` | skill files, directories and the skill registry | operators |
| `RuntimeBuilder` | the builder's methods in any order, and `build` | component, instantiates `Skills` and `Guard` |
| `Assembly` | a runtime from its builder to the end of its actor | composes `RuntimeBuilder` and `EnvActor` |
| `EditOps` | a batch of edits as a function of a text, and what it means | operators and reference definition |
| `FileTools` | read, write and edit on one file | component, on top of `EditOps` |
| `Shell` | commands, sandboxes and children | component |
| `Builtins` | file tools and commands whose children write the same file | composes `FileTools` and `Shell` |
| `ToolPoolProofs`, `ReActLoopProofs`, `ApprovalProofs`, `CallLifecycleProofs`, `BuiltinsProofs` | theorems about the module of that name | TLAPS |
| `EnvActorProofs` | theorems about `EnvActor`, `EnvEffects` and `Assembly` | TLAPS |
| `SessionProofs` | lemmas about `Session`, cited by the proofs of the modules that compose it | TLAPS |
| `MiddlewareProofs` | theorems about `Middleware` and the session in it | TLAPS |
| `MC*` | constants for TLC, one per component or composition | model checking |

Definitions named `X_Something` under a comment that starts with "Fault:" are
not part of any specification: each is a plausible bug of the definition `X`
that follows it, and shows that a property can fail.

### ToolPool

`queue` is the mpsc channel, `sent` the commands whose `send` has completed,
`answer` the oneshot of each command, `phase` and `job` the workers (`idle` is
waiting at the mutex or in `recv`). The mutex is taken and released within one
`recv`, so receiving is one step. `Start` is the first poll of the `select!`:
`biased`, so a fired token wins and the tool is not entered. A panic unwinds
the worker's task and drops its clone of the receiver; with the last clone the
channel closes and what is in it is answered "tool executor dropped". The env
actor keeps a receiver of its own only until it has spawned the workers, and a
sender until it ends (`ActorStop`); a call clones the sender (`Acquire`).

### Session, ReActLoop and Wire

The mailbox is unbounded, as in the code. `FetchContext` stands for
`GetMessages` (both return the messages), and every caller pushes one message
at a time. `Abandon` is a caller whose future is dropped.

The loop has a program counter for its awaits. The steps between two awaits are
one action, except `filter_and_store`: it pushes its events one by one, and the
session actor or a `Clear` may come in between, so `outbox` holds what is left.
A message carries its call, turn, index and result instead of its text. In this
module the middleware passes an event or blocks it (`Blockable`: the kinds it may
block); how a chain rewrites events is `Middleware`'s. The stream is any sequence
of text, tool deltas by index and finish reasons. Errors of the provider end the
task. `MidCallClear` is a user who kept `session_tx` and clears during a call;
`reset` needs the idle runtime. `ToolAnswer` is what `ToolService` promises.

`Wire` says what that stream stands for. A turn is text, reasoning, tool calls,
finish reason and usage; `Cuts` are the ways to cut it into two chunks, and
`OpenAITokens`, `DeepSeekTokens`, `Received`, `Delta` and `Assembled` are the
code from the chunk to the accumulators. For the request, `DeepSeekMessages` is
what becomes of the history, with the merging of tool calls that follow one
another.

### Middleware

`Layers` is a chain as the builder methods make it (`WithInspectors` and the
others), `Chain` its members in the order of `process`. A loop is at a place of
the chain (`at`), or about to store or emit; a mutator passes, rewrites, blocks,
or panics and takes the loop along; an inspector runs on a task of its own
(`running`) and may object when its loop has ended and the agent is dropped.
`Senders` says while what the error channel is open.

### Guard and Approval

A setting is a registry with the calls made on it: `ToolPolicy`, trusted zone,
fence, registered tools, files that exist. Of a text only what the checks ask is
kept: the prefixes it starts with and the patterns found in it. The ready-made
policies are operators (`DefaultToolPolicy`, `StrictToolPolicy`, `WithAllowed`).
Every call takes a fresh uuid, so `Ids` are the calls. The zone is looked at
first (`AutoApprove` or `Cross`, which leaves a call `outside`) and the fence
after it (`Deny` or `File`), so that a file may come or go in between; only the
looks of `is_within_boundary` at one root after the other are one. The code runs
from the insertion into the map to the wait without an await, but the
workers are threads, so insertion, callback and announcement are separate steps
and the answer may come between them. A tool that runs may create or remove its
file, which changes what the check of another call sees.

### CallLifecycle

Each receiver of the broadcast channel has its own queue (`inbox` of the
handle, `feed` of the relay) with the channel's capacity. A receiver that lags
loses the oldest events: the aggregation ignores the error, the relay stops at
it. `Fire`, `FireStream`, `Send` and `SendStream` begin a call of the given
`kind`: the subscription and the spawn are one step, so the events of other
calls between the two are not in the queues. Only the fire handles have a
`cancel`; only the streaming ones a relay. The loop is `Emit`, `Finish` and
`Fail`. `Release` is the end of a handle: its `Drop` fires the token. Raw
events, the forwarding of `ToolApprovalRequired` and a handle dropped while
`send().await` builds it are left out. `met` and `lagged` are history.

### EnvActor and EnvEffects

`mailbox` holds `EnvCmd`s; a client is a holder of a command sender, and one
that awaits an answer (`awaiting`) does nothing else and cannot drop the runtime
it borrows; an awaiting method that is itself abandoned is not modelled. One
`Handle` is a command up to its last change of state: the setter changes the registry
and pushes the channel under one write lock. The answer (`Respond`) and the
event (`Announce`) follow as steps of their own, since threads that hold
receivers run in between. A channel's value is the number of the write that
gave it (`writes`, `Version`), except for tools and skills, whose contents
(`offered`, `prompt`) are what the properties are about. `feed` is a
subscriber's receiver with the capacity of the broadcast; `mirror` is what a
subscriber makes of `tool_names` and the events. `Recv` and `mirror` are a
user's program, not code of the repository. `ApproveToolCall` is in
`Approval`. In `EnvEffects` the body of an effect and its registration are two
steps, as `effect` runs the body before it takes the lock, and a disposal
drains in one step and runs the disposers one by one, so that the actor and the
kept clones (`Clones`; `FuneraEnv` is `Clone`) overlap.

### RuntimeBuilder, Skills and Assembly

Each builder method is an operator on the record `builder`; `Configure` is any
of them, `Build` makes `runtime` of it: the registry with its policy, zone and
fence, the skill registry, the sandbox policy the actor reports. Of a tool
policy only its own sandbox flag matters here. A skill file is whether its text
opens and closes its frontmatter, its name, its flag and whether it has a body.
The `Vec`s of tools and skills are only ever registered in their order, in maps
by name, so what is kept of them is the last one of each name (`Over`);
`read_dir` lists a directory in any order, so `FromDir` is a set: of a name that
several files have, any may come last.
`Assembly` spawns the actor with what was built; the values that are only
passed on (model, limits, sizes) are left out.

### EditOps, FileTools, Shell and Builtins

A file is a sequence of characters (its content), which `LinesOf` cuts into a
text, a sequence of lines, as `str::lines` does, and `Joined` with `Ending` puts
together again: CR NL has become NL. `Hash`, a constant, is any function of
three normalised lines, so that stale lines may have the hash of an anchor.
`Edited` is a call's work on the content it read: validation on its lines, then
the edits from the bottom up (`Order`, a sort by `Before`), each on what those
below it have left (`Applied`, with the places where the code panics; `Done` is
all of them). `Meaning` is the reference: what a batch whose edits concern
different lines means, said of the original lines without an order.

In `FileTools` each step is one operation of `tokio::fs`: an edit loads, opens
and writes `.name.tmp` (a name that edits of one file share) and renames it over
the file; a write opens, which truncates, and writes. Names refer to inodes, so
that a rename under an open file is what it is. A cancelled call completes the
operation it has handed over. `Outside` is another program.

In `Shell` a command is plain, under Landlock or Seatbelt (`unix`) or under a
Windows sandbox. The Windows one has a step per call that may fail, with the
handles it has open (`handles`), the guard that closes the pipes (`guarded`) and
the write ends and who holds them (`ends`): a child inherits every inheritable
one. Children write to bounded pipes, close them, leave descendants behind and
exit. The grants of the process's SID (`grant`) come with a sandbox (`Grant`) and go
with the next one that is dropped (`Revoke`); an icacls that fails is noticed by
nobody (`unheard`). In `Builtins` a child may write the file that the
file tools work on, if its sandbox lets it.

## 3. Runs

| Run | Instance | Question, result |
|---|---|---|
| `tool_pool` | 2 calls with 3 tools, 2 workers, 1 slot | conservation, graceful shutdown, entered once and never after a cancel; implements `ToolService`, with its fairness if tools return; a cancelled call's worker comes free: hold |
| `tool_pool_prompt` | 2 calls with 4 tools, 1 worker, 1 slot | a cancelled call leaves its join promptly: **violated** |
| `session` | 2 loops with 2 events each, a chain of an inspector and a mutator, a client, a reset | subscribers and session get the same; the session implements `SessionLog`; no inspector's error is lost: hold |
| `react_loop` | 1 call, 2 turns, 2 tools per turn, any request, result or Cancelled blocked (a blocked text leaves what a turn without one leaves), 1 clear in mid-call | requests well formed, every turn reassembled, ordered history, no cancelled result, whole turns, end announced: hold |
| `react_calls` | 2 calls, 2 turns, 1 tool, 1 reset | system prompt; every call ends; a cancelled one although the provider is silent: hold |
| `approval` | 3 calls of 2 turns before 14 registries, up to 2 answers | entered only where each rule of the policy, zone, fence and user allow; answered once; no early refusal; waits end: hold |
| `approval_bus` | the same | announced on the bus of the own turn: **violated** |
| `calls` | fire_stream (up to 3 events) and send (none), or send_stream and fire (1 each); channel 2, relay 1 | response, stream, end of call and stream: hold |
| `calls_own` | the same | a response holds events of its own call only: **violated** |
| `calls_failed` | 1 fire_stream | a stream ends however its call ended: **violated** |
| `env_actor` | up to 3 builder methods, then 1 client, 1 tool, 1 skill, 2 effects, receiver of 1 event, 3 operations | the fence of a built runtime is that of the policy given; channels follow registries; reads of a turn are in order; a subscriber that has caught up knows the tools; teardown complete; effects undone once, in reverse; the last drop tears down: hold |
| `builtins` | 2 calls on a file, a call and a command, 2 commands, or one batch of 2 edits | an accepted batch means what was written; edits are atomic; reports are complete; handles come back but in two cases, grants unless icacls fails; commands return: hold |

**Bounds.** Two calls, workers, clients, loops or turns make every race there is
between two of a kind; two tools per batch make order and partial batches
visible; a channel of one or two slots is full after one or two sends. Two
turns reach the last iteration from a turn that had a predecessor. The bounds
on unbounded things are `MaxCalls`, `MaxClears`, `MaxAnswers`, `MaxEvents`,
`MaxOps`, `MaxChunks`, and in MC modules `MaxCommands`, `MaxMailbox` and `MaxLog`, which stop
further commands; the remaining constants are the code's own limits made small.
Three operations on the environment are a subscription, a query and the change
that must reach the subscriber, or three writes around the reads of one turn, or
two effects and a command; the effects differ only in name and are named in the
order in which their bodies run. Three builder methods are a sandbox policy, the
built-in tools and a second policy, or a tool policy with both. `Wire` cuts a turn
into two chunks and every text into two pieces: a third would be put behind the
second by the same step. The fourteen registries of `MCApproval` are five in
which calls meet and nine that each put one call before one rule.

Three runs cut what cannot interact. `MCMiddleware`: messages at work (`Talking`)
and errors at work (`Failing`) share no variable, and are not both in one
behaviour. `MCBuiltins`: two commands share nothing but under Windows, and next
to a call on the file a command's child leaves its pipes alone (it may write the
file), since pipes and files share nothing, and only under Windows, where the
child of a command whose full sandbox has failed may write the file as any child
elsewhere; an icacls fails for one command, in whose behaviours no other step of a sandbox
fails and the children leave their pipes alone; batches of two edits, pairs
over three lines, run alone, since the other calls see only the text they leave.
The texts have a line that ends in CR NL, a last line with and without NL, lines
inserted with an NL inside, a text to replace that spans two lines and one that
is ambiguous; `MCHash` keeps only lengths, so that anchors of changed lines are
accepted.
Neither bound takes a fair step away. `MCEnvActor`, by a constraint (`Alone`):
the turn of a loop shares nothing with the rest but the order of the writes to
the channels, which subscribers, effects, the drop of a client and the teardown
leave alone; these are explored between turns, and within a turn everything that
writes. A fair step that the constraint stops, the actor's after the last drop,
takes place in the same behaviour without the turn.

**Deadlock.** `CHECK_DEADLOCK FALSE` stands where a system comes to rest: all
calls of the instance are over, or the bounds are used up. The pool's runs check
deadlock, since its idle state stutters through `Cancel`.

**Fairness.** tokio polls every task that is ready, so each task's own step has
weak fairness; a fair semaphore serves `mpsc::send`. Nothing is asked of
tools (`ToolsReturn` is a premise), of the provider (`ProviderAnswers` is a
premise), of a command's children (`ChildrenEnd` is a premise where it is
needed), of the user who approves, or of the user who calls or cancels. The
environment actor is one task (`Actor`), and its disposers return; nobody need
build. The logging task and the inspections of `Middleware` run, and inspectors,
which are synchronous functions, return. The loops of `CallLifecycle` end, which
`react_calls` shows under its premises, and a user who holds a streaming handle
reads it. In `Shell` what the tool does next happens, its timer included: while
one worker thread blocks in a full Windows sandbox, the runtime must have another
one on which timers fire.

## 4. Where code and documents disagree

- **`tool_pool_prompt`**: neither the send nor the response of
  `ToolBus::execute` listens for the token, so a cancelled call queued behind
  another call's slow tool waits for it. `docs/architecture.md` and
  `send_handle.rs` say that it leaves promptly.
- **`approval_bus`**: the react-bus slot is shared by all clones of the
  registry; the approval of one turn may be announced on another's bus.
- **`calls_own`**: events carry no call; of two overlapping calls of one agent one may
  collect events of the other and stop at the other's `Done`.
- **`calls_failed`**: a loop that fails publishes no `Done`; `recv()` waits for ever.

Seen with the same modules, without a run of their own:

*Calls and approvals.* An approval that timed out or was cancelled stays in
`pending_approvals` and is still answered `Ok`. A relay that lags ends its stream
before its call (`StreamIntact` without its premise); events of another call may
push the `Done` of an awaited call out of the channel, and if no other `Done`
follows the wait does not return (`CallOver` without its last disjunct); both
need more than 256 unread events. The dispatcher subscribes to a turn's react
bus when `PerTurnBusReady` reaches it (dispatcher.rs:82-92): what was announced
before that does not reach the agent's subscribers. A tool that is not registered
may be put to the user before it is "not found". tool.rs:249 speaks of "audit
events on every tool call"; calls that the boundary or the user rejects and those
that are abandoned are not audited.

*Environment.* The initial `ToolAdded` and `SkillAdded` events (env_actor.rs:205)
reach nobody, because a subscription is itself a command that is handled
afterwards; `SetClient` and `SetSkillPrompt` broadcast nothing, and
`ToolRemoved`, `SkillRemoved` and `ToolAvailability` are broadcast also when
nothing changed, although env_actor.rs:149 speaks of an event "on every
mutation"; a turn is not a snapshot of the environment as runtime.rs calls it
(the five channels may be of five moments, `SnapshotOrdered` says what holds);
an effect that a kept clone registers after the last drain is never undone,
against reversible_effects.rs:13.

*Builder.* A sandbox policy given after `with_builtin_tools` does not reach the
shell (runtime.rs:274: "Set a kernel-enforced sandbox policy for tool
subprocesses."; `FenceHolds` excuses it by `late`). A tool policy given next to
`SandboxPolicy::disabled()` ("Fully permissive: sandboxing disabled",
sandbox.rs:74) keeps its own enabled sandbox, and file calls are still rejected;
without any sandbox policy every call that names a file is rejected. In a built
runtime zone and fence are the same paths, so the user is asked only when the
sandbox is disabled or a file does not exist yet; and a file yet to be created
is compared as it is spelled, so that a relative path inside the fence is
refused. The comment on `is_within_boundary` counts the execute paths, the code
does not. Which of two skills of one name in a directory wins is the order of
`read_dir`, and an explicit skill with the name of a default one becomes active.

*Wire.* `AgentEvent` drops reasoning and gives every tool call request index 0;
requests to OpenAI leave parallel tool calls as assistant messages of their own
(only DeepSeek merges them); a tool call whose arguments were cut off by `Length`
runs with null arguments.

*Tools.* Overlapping edits of one file share `.name.tmp`; edits of one batch
that overlap use stale end indices; any edit turns every CR NL of the file into
NL; a file whose every line is deleted keeps a blank one if it ended in NL
(edit.rs:189); a `replace_text`, which comes after all other edits, splits all
lines again, so that a blank last line goes; an anchor tells a stale line only
as far as eight bits of a hash of normalised lines do; read.rs:96 advises append
or prepend for an empty file, but such an edit is always stale.
sandbox_win.rs:604 says that the child is killed on timeout, but both pipes are
read to their ends first, so that it is killed only when nobody holds them
(`Jammed`, `ChildrenEnd`); sandbox_win.rs:48 calls ACL operations serialized per
process, but the drop of one sandbox removes the shared SID's grants under
another; sandbox_win.rs:455 says that early exits never leak handles, and two do
(`Released`): a failure of the second `CreatePipe` leaves both ends of stdout's
pipe open, there is no guard yet, and a failure of `GetStdHandle` leaves stdin's
read end open; two commands that save and restore the console mode may restore
each other's. On Unix a sandbox that cannot be applied is an error and one that
is not supported restricts nothing, where sandbox.rs:183 speaks of a failover.

## 5. Proofs

All theorems are of the form `Spec => []Inv`, `Spec => [][A]_vars` or
`Spec => Abstract!Spec`, for every value of the constants, and follow one scheme:
a strengthening is shown inductive with one step per action and one per conjunct
below it, and the properties follow from it. Each strengthening was checked by
TLC before it was proved.

**Assumptions.** Each module names what it assumes of its constants, and TLC
evaluates it on its run: `PoolAssumption` (a capacity, at least one worker and
finitely many), `LoopAssumption` and `LifecycleAssumption` (numbers are numbers,
channels hold at least one event), `ApprovalAssumption` (every call has a turn),
`ChainAssumption` (a layer has a member), `EnvAssumption` (as many clients and
clones as one likes), `AssemblyAssumption` (a policy's flag is a flag; a skill
file names a skill), `TextsAssumption` (files are of characters, NL is one, plans
are edits of numbered lines). `NothingAssumption`, `NamesAssumption` and the rest of these
say that a marker such as `Nothing` or `Nobody` is none of the values it marks the
absence of.

- **`ToolPoolProofs`**: `PoolInv` adds to type and conservation who may hold
  what (an answering worker has an outcome, an idle one no job, an open pool is
  needed for a non-empty channel). From it `Conservation`, `DeadPoolKeepsNoOne`,
  `ShutdownFailsNoCall` (no call is refused and no command dropped in the bus
  unless tools have panicked under every worker), the action property
  `EntersOnceUncancelled`, and `PoolImplementsService`: initial states map to
  initial states and every step of the pool is a step of `ToolService` or a
  stutter (a panic of the last worker is one `Fail` of its own command and all
  queued ones).
- **`SessionProofs`** has the lemmas about the actor and its mailbox. What a
  mailbox comes to (`After`) is computed along it, so the lemmas start with an
  induction over the natural numbers (a least counterexample, from the
  well-foundedness of `<`) and the existence of functions defined by it
  (`Iterated`). With them: a command at the end of the mailbox takes effect on
  what the commands before it make; serving the first command changes neither
  `Drained(mailbox)` nor a view; `SessionInv` (a client has at most one fetch in
  flight, or an answer, not both) is kept.
- **`MiddlewareProofs`**: `SessionImplementsLog` is the refinement: a push or a
  clear is that of `SessionLog` when it is sent, an answer is settled when it
  is asked for, and the actor's own step is a stutter. `ContextAlwaysFollows`
  needs that what a loop has pushed since the last clear, filtered from the
  conversation, grows by one when it stores and is emptied by a clear
  wherever the loop stands.
- **`ReActLoopProofs`**: `LoopInv` adds what each program counter says about
  outbox and answers (the outbox is of the current turn; a cancelled answer
  exists only under a fired token; at `reporting` none is left) and how the last
  event determines where the loop is. From it `TypeOK`, `NoCancelledResult`
  and `EventsBracketed`. `EndInv` adds that a loop past its first iteration has
  emitted a `TurnEnd`: `EndAnnounced`. `HistInv` takes the conversation with the
  commands in flight: each message of the call is of an earlier turn or precedes
  all that is still in the outbox, so that whatever is stored next comes last:
  `HistoryOrdered`. `SystemInv` says when the conversation is empty or opens with
  the one prompt, and that the loop's view is all of it: `SystemPromptFirst`.
  `WireInv` follows a turn through history and outbox: before the requests of a
  turn come, and once its results are stored, no tool call of the send is without
  its result (`Whole`); in between, history and outbox together have all its
  requests, side by side, and one result for each behind them, in their order
  (`Requested`, `Responding`, `Closed`). `MergedGroups`, an induction over a
  request, says what merging makes of any history: each group of adjacent tool
  calls becomes one message at the group's place, everything else stays. With it:
  `RequestWellFormed`, for every width, number of turns and number of sends. For
  the answer, `Taken` is what any list of tokens makes of a turn, and `AccumsOf`
  the accumulators of the pieces that have come so far: a delta adds a piece to
  its call and leaves the others (`DeltaAdds`), so that, by an induction over the
  order of the calls (`OrderTaken`), the tokens of a chunk add that chunk's pieces,
  in DeepSeek's order of tokens as in OpenAI's; every cut then brings back its
  turn (`CutWhole`): `Reassembled`, for every width.
- **`ApprovalProofs`**: `ApprovalInv` relates the response of a call, the
  pending map and the requests in flight: a call with a response is not in the
  map, its processed answer is that response, an unfiled call is unknown, and a
  call that was filed has passed the checks of `Guard`, which lemmas turn into
  what `EnteredOnlyApproved` says of every rule of the policy, zone and fence. From it
  `EnteredOnlyApproved`, `AnsweredOnce` and the action property `NoEarlyRefusal`.
- **`CallLifecycleProofs`**: `LifeInv` says of a call that has the agent to itself
  (`Alone`) where each event it has published is: `Kept` of the handle's receiver
  (what was read and what waits are the last events, as many as the channel
  holds; one more may be lost only while nothing was read), `Read`, `Fed` and
  `Closing` of the relay and the stream (what was heard, what waits and what the
  relay has yet to pass follow one another, until the relay has lagged). From it
  `ResponseLatest` and `StreamIntact`, for channels of any capacity.
- **`EnvActorProofs`**: `ActorInv` has the types of the registries and the
  mailbox, `ChannelsFollow`, and that whoever awaits holds a sender, so
  that the loop which ends when no sender is left leaves nobody waiting. From it
  `ChannelsFollow` and `TeardownComplete`. `SnapInv` is inductive since versions
  only grow and a turn reads in one order: `SnapshotOrdered`. `MirrorInv` says of a
  subscriber that has not lagged that the events it has yet to apply, the one in
  the actor's hand included, agree with the registry about each tool that they
  are about, and that it knows the rest: `MirrorConverges`.
  `ActorImplementsEffects`: every step is a step of `EnvEffects` or a stutter.
  There `EffectsInv` says that an effect is in one place (set up, in the
  accumulator, in one caller's batch, or undone), and once there (`UndoneOnce`),
  and `OrderInv` that accumulator and batches are in the order of registration,
  that the accumulator has the effects registered last, and that a disposal takes
  with an effect every later one that was registered by then
  (`UndoneInReverse`).
  `BuilderInv` says that the policy in the builder is the one given last, and in
  the shell too unless it came late; `FenceAlwaysHolds` follows for the registry
  made of it. `AssembledActor` closes the gap between builder and actor: what
  is spawned is a state in which `EnvActor` may start (no name is activated that is
  not registered), so all its invariants hold of `Assembly`, which is what the run
  checks.
- **`BuiltinsProofs`**: `ShellInv` gives, for each step of a command, the
  handles that are open, who may hold the write ends, and that what was written
  was read or waits in a pipe that is still to be read. From it `Released`,
  `ReportComplete` and `GrantsBalanced`, for commands whose children inherit one
  another's pipes. `FileInv` says that the two names never refer to one inode,
  and that an edit which has met no other call is alone, writes to the inode
  that the temporary name refers to, and renames what it wrote: the action
  property `EditAtomic`. For `EditMeaning` the invariant, `EditInv`, only says
  that an edit's content is what `Edited` makes of the content the call has
  read; the rest is about batches of any length on files of any length, cut into
  lines (`LinesType`, an induction over the characters) and joined
  (`JoinedType`), with any hash. `Before` orders the edits, so a rank (how many
  come before) is different for each and every place is taken: `OrderSorts`, the
  one claim about sorting that the rest needs. `Stands` is the invariant along
  that order: the text down to some line is as it was read, and what follows is
  what `Meaning` makes of the rest. One edit moves that line up to its own
  (`EditStands`, a case per kind of edit, from `SpliceAt`), the lines between
  two edits that follow one another in the order belong to none (`Untouched`),
  and the last edit leaves only lines above that no edit is about: `DoneMeans`.
  Validation gives what this needs of each edit (`ValidFits`), and that the
  hashes of its anchors are those its author saw (`ValidSeen`).

**Changed for the proofs.** Folds became recursive functions or sets, since the
provers know nothing of a fold: `After` in `Session`, `Said` in `Middleware`, `Overlay` in
`FileTools`, `Over`, `Lists` and `FromDefaultPath` in `Skills`,
`Done` in `EditOps` (whose `Order` is given by ranks where it called a sort of
the library), `Assembled` in `Wire`, where a cut is now given by the halves
(`Splits`) of its texts. `HistoryOrdered` speaks of the
conversation with the commands in flight, which is stronger than of the messages
the actor has. `EnvActor` has a set of clones where it had one.

**Only model-checked.** All liveness (the prover has no rules for fairness and
`ENABLED`): `ServiceFair`, `CancelFreesWorker`, `FailureHeard`, `CallEnds`,
`CancelEnds`, `WaitEnds`, `CallOver`, `StreamEnds`, `TornDown`,
`CommandReturns`. Every other property of a passing run is stated by a theorem.
`DeadPoolKeepsNoOne` is proved and has no run of its own: it follows from
the invariant that `Conservation` is checked with.

## 6. Not modelled

- Secrets (a wrapper that is never printed), the facade, examples and test
  doubles: no state.
- The turn highway and the dispatcher's forwarding of `ToolApprovalRequired`: a
  turn's buses are one request and one answer inside `Fetched`. Raw events.
- HTTP and the text of JSON, usage numbers, the wording of results and errors,
  offsets and limits of a read, directories, names and numbers a builder passes on:
  data that no property tells apart.
- What Landlock, Seatbelt or a restricted token forbid, beyond writes to the
  file of the model; console modes, network variables, memory limits.
- The audit bus (it reports and changes nothing), `remove_tool_if_same` (tests
  only), the variants built without the `tool`, `security` or `middleware`
  features, and inspectors outside a runtime, where no loop runs.
- A disposer that panics: `dispose` catches it and goes on, so its step is that of
  any other disposer.
- Which subdirectories icacls denies, and a grant that comes for some paths only.
- How long anything takes: a timer fires at any moment it is armed.

## 7. Plan

Written so far, in this order: `ToolService`/`ToolPool`, `SessionLog`/`Session`,
`ReActLoop`, `Approval`, `CallLifecycle`, `EnvEffects`/`EnvActor`, then
`EditOps`/`FileTools`/`Shell`/`Builtins`, `Middleware`, `Guard`, `Wire`,
`Skills`/`RuntimeBuilder`/`Assembly`, and the proofs of section 5. What is left:
that `ReActLoop`'s answers are those of `ToolService`, and a model of the turn
highway with the dispatcher's forwarders.
