# Whiteagent in TLA+

Whiteagent is a multi-tenant chat agent: channel plugins (Telegram, Teams) turn
messages of users into inbound messages on an in-memory bus, an agent loop runs
an LLM with tools for each of them, and the answers go back over the bus to the
channels. It is one Go process; its hard parts are goroutines that share maps,
channels and plugin instances, an ordered shutdown under a deadline, and caches
in front of a SQLite store that outlive nothing.

This directory holds TLA+ modules translated from the source, TLC
configurations that check them on small instances, and TLAPS proofs.
Paths below are relative to the root of the repository.

Contents: [1 Inventory](#1-inventory) · [2 Modules](#2-modules) ·
[3 Runs](#3-runs-bounds-and-fairness) · [4 Divergences](#4-where-code-and-words-differ) ·
[5 Proofs](#5-proofs) · [6 Not modelled](#6-not-modelled-and-why) · [7 What could follow](#7-what-could-follow)

## 1 Inventory

How a message travels:

```
channel poll loop / webhook
   |  inbound handler (runtime.go:377): identity, mapper, conversation
   v
bus topic "inbound" --dispatch goroutine--> middleware chain --> Loop.Handle
                                             ("/new" answers here)   |
   secret form goroutine (main.go:114) ---------------------------> Loop.Handle
   scheduler tick --Publish--> "inbound"                             |
                                                    turn: store, prompt, LLM, tools
bus topic "outbound" <---------------------------- Publish <---------+
   |
dispatch goroutine --> outbound.Dispatch --> channel.Send
```

| component | state | operations | what is hard | what makes it correct |
|---|---|---|---|---|
| Agent loop (`internal/domain/service/loop/loop.go`) | draining flag, semaphore, mutex per chat, compaction guards | Handle, runTurn, Shutdown | any number of goroutines call Handle while Shutdown fills the semaphore; nine error paths answer | one turn per chat at a time, slots accounted for, one answer per turn, quiet after a drain |
| Tool sandbox injection (`loop/proxy.go`) | the sandbox in each shared tool instance | inject, restore | two turns share the instances | a turn's tools use its proxy |
| Bus (`pkg/plugins/transport/memory/plugin.go`) | a bounded channel per topic, stopped flag | Publish, dispatchLoop, Stop | the check of the flag and the send are two steps; a full channel blocks | FIFO, exactly once, Stop drains |
| Runtime (`internal/app/agent/runtime.go`, `cmd/whiteagent/main.go`) | phase of the shutdown | Start, Shutdown | one deadline for all stages; dispatch goroutine of one topic publishes to the other | answers in order; a shutdown within its deadline loses nothing |
| Conversation service (`conversation/service.go`) | three maps without a common lock | ResolveConversation, SwitchConversation, ResetConversation, RegisterConversation | callers on three goroutines; maps are a cache of the store | maps agree, a chat keeps its conversation, a reset holds |
| Message mapper (`mapper/mapper.go`) | none | MapInbound | stamps time and ID when a message is received, not when handled | order in the store is the order of receipt |
| Completion service (`llm/completion.go`, `llm/router.go`) | cool-down per endpoint and model | Complete, Select | concurrent calls share the table; the request is mutated across attempts | every route is tried, cool-downs respected |
| Scheduler (`scheduler/scheduler.go`) and cron tools | entries and runs in the store, next run times | tick, fireEntry, Stop; create, set status | tick reads a list and writes it back entry by entry while tools change it; crash between advance and publish | a one-shot entry fires at most once; a firing does not revive an entry that was paused or removed |
| Cron expressions (`pkg/cron/cron.go`) | none | Parse, NextAfter | calendar arithmetic | the least matching minute |
| Compaction (`compaction/service.go`) | summaries in the store | Compact | runs beside the turn that asked for it | covers a prefix, cuts no tool exchange |
| Prompt builder (`prompt/prompt.go`) | none | Build | trims history by summary and by budget | an assistant message keeps its tool results |
| Docker sandbox (`pkg/plugins/sandbox/docker/pool.go`) | map of containers, running execs | ensure, exec, release, sweep | sweep, exec, ensure of one user overlap | the sweep spares containers in use, a user has one; none leaks |
| Secrets (`secret/impl.go`, `gateway/secret.go`) | one-time tokens, secrets | RequestEntry, form, submit | validate, write, consume are three steps | a token is used once |
| Onboarding (`onboarding/service.go`) | users, tenants, invite codes | TryJoin, CreateChat | several writes without a transaction; a code used by two | a code admits one user |
| Identity (`identity/resolver.go`, `cache.go`) | cache of users and chats | Resolve, autoCreateChat | cache entries are never invalidated; two first messages | an external ID has one user and one chat |
| Skills (`skill/impl.go`) | files, `.state`, cache | EnsureSync | crash between copy and `.state` | own changes survive, managed ones are updated |
| Plugin loader (`internal/infra/loader`), configuration (`internal/app/config`), `main.go` | registry with replacements, started plugins | Load, Init, Start, Stop; runServe | any stage may fail; three ways down | what was started is stopped, no channel before what it stands on |
| Telegram (`channel/telegram`) | update offset, identifiers of answers | pollLoop, handleUpdate, Send | offset confirmed by the next poll only; answers go out in parts | an update is handled at least once; the history follows the chat |
| Teams (`channel/teams`), gateway | key cache, token cache, two mutexes | webhook, Send | handlers run concurrently; caches filled by one request and used by others | keys follow the published ones, a token lives as long as it is used |
| OpenAI-compatible plugin (`llm/openai_compat`) | none | Complete, accumulate | chunks, breaks, errors with delays | the turn gets what was streamed |
| SQLite store (`pkg/plugins/store/sqlite`) | tables | queries | used without transactions across calls | as its callers use it |
| Middlewares, tools, CLI, config, helpers | none of interest | | | |

`PROJECT.json` lists every component with its status and every hazard at its
line, with the properties that cover it or why none does.

## 2 Modules

| module | models | abstracts |
|---|---|---|
| `TurnExecutor` | what the loop promises: messages are admitted or dropped, turns of one chat do not overlap, at most `MaxWorkers` run, none after quiet | (abstract specification) |
| `AgentLoop` | `Handle`, the control flow of `runTurn`, `Shutdown` | store and LLM results are a free choice of the path taken |
| `MessageBus` | `Publish`, `dispatchLoop`, `Stop` | a handler is a begin and an end |
| `MessageBusProofs` | its theorems | |
| `AgentRuntime` | EXTENDS `AgentLoop`, INSTANCEs `MessageBus`: the wiring, the command middleware's answers, secret forms, and the staged shutdown | channels are one source and one sink; the poll loops of several channel plugins are one |
| `RuntimeProofs` | theorems about `AgentLoop` and `AgentRuntime` | |
| `Lifecycle` | the life of the process: configuration, registry, Init and Start by kind, the parts that are not plugins, both ways down | what a plugin does between Start and Stop |
| `Conversation` | the conversation service with its callers: inbound handlers, `/new`, turns, the scheduler, restarts | the history of a conversation is the set of its messages |
| `Completion` | `Select` and `Complete` with cool-downs | time is a counter; a provider's answer is a free choice |
| `Cron` | `NextAfter` and `dayMatches`, and Go's `time.Date` across one change of the offset from UTC | a calendar of any shape; an expression is the sets its fields expand to |
| `Scheduler` | EXTENDS `Cron`: `tick`, `fireEntry`, `Stop`, the store operations, and the tools that create an entry and set its status | runs are a list per entry; attachments and the text of the message are left out |
| `History` | the messages a turn saves, the prompt built from them, and the compaction beside it | messages are numbers with a role and a cost in tokens |
| `Containers` | the pool of the Docker sandbox, its sweep, its start and stop, the services, and the daemon | a command is a begin and an end; a set of mounts is one value |
| `Accounts` | identity resolution with its caches, onboarding, the tables, and the administrator's commands | one channel; names and agents are left out |
| `Secrets` | tokens, forms, secrets, commands with their environment and files, redaction | encryption is what the current key can read |
| `Telegram` | poll loop, updates, delivery in parts, identifiers, between the chats and the stored history | a turn stores its message and answers |
| `Split` | `splitMessage`, with its separators | a message is a sequence of letters of four kinds |
| `Teams` | the cache of signing keys, the access token, both mutexes, over a publisher of keys and a clock | a signature is the key it was made with |
| `Stream` | accumulation of a stream, classification of errors | usage figures |
| `Skills` | extraction and synchronisation of skills over a file system that fails | a file is the version it has |
| `ServiceProofs` | theorems about `Completion` and `Conversation` | |
| `AccountsProofs`, `ContainersProofs` | theorems about the module of that name | |
| `EdgeProofs` | theorems about `Secrets` and `Telegram`, the two at the edge of the process that hold what comes from outside | |
| `SchedulerProofs` | theorems about `Cron` and `Scheduler` | |
| `PartsProofs` | theorems about `History`, `Teams`, `Skills` and `Lifecycle` | |
| `MC*` | instances for TLC; `MCServices` and `MCParts` put modules that share no state side by side | |

**AgentLoop.** A worker is a goroutine that calls Handle. `pc` names the lines
it is at: "admit" is the send on the semaphore (line 101), "lock" the session
mutex (line 111), "load" to "reply" are `runTurn`, "restore", "unlock" and
"release" the deferred calls in the order Go runs them. `semaphore` is the
length of the buffered channel, `sessions` the owner of each chat's mutex;
`Shutdown` sets `draining` and then takes `MaxWorkers` slots one by one, which
are never returned. `toolSandbox` is the single field the shared tools hold.

**MessageBus.** `Publish` is two steps: `CheckStopped` (line 145) and the
`select` at 152 with its outcomes `Send`, `SendCancelled` and, if Stop closed
the channel in between, `SendPanics`. A closed Go channel still yields what it
holds, so `Take` does not look at `closed`. `accepted` and `handled` are
history variables.

**AgentRuntime.** Every action conjoins an action of the loop, of the bus or of
both. `Reply_CheckStopped`/`Reply_Send`/`Reply_Refused`/`Reply_Panics` are the
turn's Publish; a panic is recovered in a dispatch goroutine and kills the
process in the goroutine of a secret form or of a channel (`SourcePanics`). `phase` follows `Runtime.Shutdown`:
channels, (scheduler), loop, then the plugins in reverse order of start, of
which the bus is the one that has something to lose. `deadline` is the shutdown
context: once it has ended a stage may give up (`ShutdownExpires`,
`StopExpires`) and the next one runs regardless.

**Lifecycle.** `stage` is the statement `runServe` or `Runtime.Start` is at, and
`config` the file it read. `LoadPlugin` registers one entry, `loaded` counts them;
a plugin is named by its place in the order of loading, so that a registry
replacement (`registry.go:61`) shows. Every Init
and Start may fail; a failing Start stops what was started, a failure after it
does not. `gateway` is "expired" where its Stop gave up at the deadline with requests
in flight. `running`, `stops` and `given` say which plugins run, how often each
was stopped and whose configuration each was given.

**Conversation.** Every access to one of the three maps and every store call is
a step. `newest` is what `GetLastConversationID` reads (the largest
`created_at` of the chat), `created` is given when the mapper makes the message.
`retired` and `steered` are history variables: what a user was told is over, and
which chats a reply, `/new` or cron entry moved on purpose.

**Completion.** `model` is `req.Model`, which the loop over the routes assigns
and then reads again, as the code does. `notBefore` and `shortened` are history:
the time each route's failures asked for, and the routes whose last failure asked
for less than an earlier one, which `setCoolDown` then overwrites.

**Scheduler.** `pc` is the store call `fireEntry` is about to make; each may fail
(`UpdateFails`, `InsertFails`, `MarkFails`), and does once Stop has cancelled its
context. `listed` is what `tick` read; nothing is read again while its entries
are fired, and the tools write in between. `Restart` may come between any two
steps. The tick's time may lag behind the clock, as a ticker's does.
`sent` and `halted` are history: which runs were published, and which entries
their owner was told are paused or removed. What the publisher's message meets
after `Publish` is the concern of `AgentRuntime` and `Conversation`.

**Cron.** Instants and wall-clock times are minutes; `Offset` changes once, at
`Transition`. `Candidate` states which wall-clock times the nested loops of
`NextAfter` do not skip; the first of them is the result.

**History.** A message is minted by the mapper (its UUIDv7 orders it) and saved
in a later step, by the turn or, in a group, at once by the inbound handler; so
the order of the store is not that of arrival. `turn` goes through read, build,
LLM call and tools; `Starts`, `Results` and `Window` are `groupMessages` and
`windowMessages`. A fetch of the summary that fails leaves the prompt without one.
`compaction` decides, reads, calls the model and saves, in four
steps, while the turns go on; the guard of the loop keeps one per conversation.
`late` is history: messages saved behind what a compaction had already read.

**Containers.** `box` is what the daemon has, with names and labels; `containers`,
`idle` and `active` are the pool's three maps; `plugin` is Start and Stop. Each
call of the daemon is a step, refused where `Refusing`. The pool has no mutex: it
is a `sync.Map` and counters that are read and written atomically, so every access
to one of them is a step of its own, `ExecLoad` and `ExecEnter` of a command, and
`SweepCheck` (line 395) and `SweepRelease` (line 399) of the sweep among them.
`sweep.late` is history: the turns that have the container from the pool and are
not counted when the sweep looks, or take it afterwards. A process that dies leaves
the containers (`Restart`), and the next one starts the services, removes the
orphans and rebuilds the pool from the labels (`Rebuild`, or `RebuildFails` where
the daemon does not answer the list).

**Accounts.** `handler[h].pc` names what the inbound handler does next: resolve,
chat, join, and within it the single writes of `createTenant`, `joinUser` and
`linkUser`. Reads between two writes are one step. The caches live in the
process; the tables are shared with the CLI, another process (`Administer`).
`owners`, `admitted` and `welcomed` are history: who a user was made for, whom a
code made and how often it was answered with a welcome. `MayRemap` leaves out,
where it is FALSE, that a workspace changes its tenant or a tenant is deleted.

**Secrets.** `form[f].pc` goes through validation (in "rest"), one store call per
secret, and `ConsumeSecretToken`; `command[c].pc` through the steps of
`sandboxProxy.Exec`. `dir` is `/tmp/secrets` of each user's container.
`changed` says that a secret was written while the command ran, `listed` that the
secrets could be read again for its output, `leaked` what is not replaced in it.
`RedactFails` is the path on which the list fails and the text goes out as it is.

**Telegram.** `chat` is what Telegram shows, `pending` what the next getUpdates
delivers, `offset` and `batch` the poll loop, `turns` the inbound messages on
their way to an answer, `rows` the stored history, `outbox` and `send` the
delivery. A call that fails may have had its effect: then the retry sends the
part again. A turn that cannot store its message or its answer publishes an error
(`TurnFails`). `up` is false after a crash; everything but `chat`, `pending` and
`rows` is lost with it.

**Teams.** `proc[w]` is a webhook request or a sender, in the code's order: the
mutex of the cache, the HTTP calls under it (for keys two, the metadata and the
keys), and the use of what they gave. No status is looked at, so an error whose body
decodes empties the cache of keys (`EmptyAnswer`). Time
passes only in calls, at most `Latency` each, and when nothing is under way.

**Skills.** A directory is [md, rest, state]: the version of SKILL.md, of the
other files, and of the mark. Each call of the file system is a step and may
fail or be the last one of a process; a copy that fails leaves an empty directory,
a part of the files, or all of them without the mark.

Next to the operator it changes each module keeps its mutants: the operator with
a plausible bug. Nothing refers to them; every property of a passing run has one
that violates it.

## 3 Runs, bounds and fairness

| run | instance | shows |
|---|---|---|
| `LoopSafety` | 3 workers, 3 messages (2 of one chat), 2 slots, 2 iterations | `SessionMutex`, `DrainedIsQuiet`, `AnsweredOnce`, the inductive invariant `LoopInv` (with type correctness and the accounting of slots), refinement of `TurnExecutor` |
| `BusSafety` | 2 topics, 2 publishers, 3 messages, each put on any topic once, capacity 2 | `FifoDelivery`, `StopDrains`; with fairness `StopReturns`, `AcceptedIsHandled` |
| `RuntimeSafety` | dispatcher and a form goroutine, 2 messages, a command, a form, capacity 1 | `AnswersInOrder`, `CleanExit` |
| `RuntimeLive` | the same with one message and a form | `EveryMessageAnswered`, `ShutdownEnds` |
| `ServiceSafety` | `Conversation`: 2 chats, all six kinds of input, 3 conversations, 4 messages, 1 restart; `Completion`: 2 calls, a primary, a fallback, two overrides (one without a plugin), 3 instants | `OneChatPerConversation`, `NoSplit`, `NamedRouteIsKept`, `CooldownHonoured` |
| `SchedSafety` | a one-shot and a recurring entry, 3 minutes, 1 restart; four expressions on a calendar of six years with a leap day | `FiresAsAsked`, `RunsTellTruth`, `NextIsLeast`, `SchedulerStops` |
| `ContainerSafety` | 2 turns of one user with different mounts, 1 service, 4 containers, 1 restart, every call may be refused | `OneBoxPerUser`, `SweepSparesExecs`, `StartReconciles` |
| `AccessSafety` | 2 handlers, 2 senders, a direct chat and a group, 1 code reissued in every form, 2 tenants, 3 users, 2 administrative changes | `OneWelcomePerCode`, `ResolvedAsSender` |
| `SecretSafety` | 1 user, 1 name owned by the user and the tenant, 1 token, 2 forms, 2 commands, a file secret and an unreadable one, every call may fail | `ToldOnce`, `GivenIsRedacted`, `FilesAreRemoved` |
| `TelegramSafety` | 2 chats (one a group), 2 updates, batches of 2, answers of 2 parts and a file, 2 failures or crashes | `RowsMatchMessages`, `RepliedIsQuoted`, `EveryUpdateHandled` |
| `PartsSafety` | one of four modules at a time. `History`: 6 messages, 2 waiting, 2 iterations of up to 2 calls, a budget of 5, 1 restart. `Teams`: 2 keys, 2 requests, 1 sender, 2 parts, 3 instants, 1 fault. `Skills`: 3 skills (one the tenant's own), 2 releases, 2 errors or crashes, 1 change of the allowed ones. `Lifecycle`: 48 configurations with repeated, disabled and replacing entries, and a chain that names none, two or one twice. As assumptions: every message of up to 7 letters split into 4, every stream of up to 3 deltas broken off anywhere | `NothingForgotten`, `PromptIsSuffix`, `SummaryAdvances`, `KeysFollowPublisher`, `TokenOutlivesParts`, `SyncKeepsToCopies`, `OrderOfKinds`, `StopsMatchStarts` |
| `CompletionRoutes` | 1 call, 2 routes | violation of `EveryRouteTried`, section 4 |

What the properties say is in the comment above each. A few are conjunctions of
named parts: `CleanExit` includes `CrashOnlyPastDeadline`; `ShutdownEnds` that the
drain returns (`DrainReturns`) and that nothing outlives the deadline;
`OneChatPerConversation` includes `MapsAgree`; `FiresAsAsked` is `OneShotOnce` and
`HaltedStaysInactive`; `RowsMatchMessages`, `KeysFollowPublisher`,
`SyncKeepsToCopies` and `OrderOfKinds` name their parts.

Every module has a type invariant, and all of them are proved. They and the
inductive invariants of the proof modules hold on the instances of the runs;
`LoopInv` is one of `LoopSafety`.

**Why the bounds suffice.** Three workers on two slots and two chats give every
way two calls can meet: at the semaphore, at the mutex, and one of them at a
slot Shutdown wants. Capacity 1 makes every publisher block; capacity 2 gives an
order to get wrong. One restart distinguishes what is cached from what is
stored. Six kinds of input on two chats with four messages reach every step of
the three operations interleaved with one other. Cool-downs of one and two units
on a clock of three instants reach expiry before, at and after a call.
Two entries of the two kinds meet in one tick, and three minutes let the
recurring one come due twice. Two turns of a user are the two goroutines
that can be in `ensure`, `exec` and `release` at once, the sweep the third; four
containers suffice for one each and one left by the life before. Two
handlers are the two Teams requests that race, and two users and a
merge target are three. Two forms with one token and two commands in one
container are the pairs that race in `Secrets`. Two updates fill a batch, so that
a crash can come between them; two equal identifiers in two chats can be
confused. Six messages are a summary, the tail it keeps, and a turn with a call
and its results beside it. `MaxConv`, `MaxClock`, `MaxLife`, `MaxTime`, `Span`,
`MaxBoxes`, `MaxTenants`, `MaxUsers`, `MaxChats`, `MaxMessages`, `MaxAdmin`,
`MaxWrites`, `MaxUpdates`, `MaxTrouble`, `MaxMsg`, `MaxQueue`, `MaxParts`,
`MaxFaults`, `MaxVersion`, `MaxErrors` and `MaxChanges` only bound counters.

**Symmetry** is used where no temporal property is checked and the permuted
values appear in no other constant: handlers, chats, forms, commands.

**Deadlock** is not checked where the system may stop: all messages handled, the
process ended, or a bound reached.

**Fairness.** The Go scheduler runs every goroutine that can run (weak
fairness of each goroutine's steps). Senders blocked on a channel are served in
order, and a `sync.Mutex` goes to a waiter that starves, so taking a slot and
taking the mutex are strongly fair. Handlers and LLM calls return: turns and
calls have deadlines. Nobody has to publish, submit a form or send a signal, and
of the scheduler only its poll loop is fair, not its `Publish`, so that
`SchedulerStops` holds even if the queue never has room. In `Telegram` the poll
loop is fair and whoever runs the process starts it again; the answer of a model
is not. No property relies on the shutdown context to end except
`ShutdownEnds`, one half of which starts from its end.

**RuntimeLive** has the property that matters for the two dispatch goroutines:
the inbound one publishes to the outbound topic and blocks when it is full,
while the outbound one never publishes; therefore nothing waits in a circle.
The drain returns although callers may be stuck before the semaphore, because
Shutdown competes with them only for slots that running turns give back.

## 4 Where code and words differ

The violation run shows a bug. `CompletionRoutes`: `router.go:19` describes a
chain of endpoint+model pairs; `completion.go:73` overwrites `req.Model` at the
first attempt, so fallback endpoints are asked for the first route's model.

The modules define further properties that a comment promises and the code does
not keep. Each is violated in the configuration named, or when it is put in
place of the properties of the run named.

*Loop, bus and runtime.*
- `HandleReturns` (`LoopStuck.cfg`): `loop.go:129` says messages are silently
  dropped once draining is set. A call that passed the check at line 94 and
  reaches line 101 after Shutdown took every slot waits until the process exits.
- `ToolsUseOwnProxy` (an invariant for `LoopSafety`): `loop.go:262` says the proxy is
  injected for this turn. Tools are shared, so a second turn replaces it while
  the first still runs.
- `PublishNeverPanics` (an invariant for `BusSafety`): `memory/plugin.go:124` says that after
  Stop, Publish returns ErrBusStopped; between its check and its send it may panic
  instead, which takes the process down where nothing recovers it: a form or a
  channel that was past the check. In the composed system that takes a missed
  deadline, as `CrashOnlyPastDeadline` shows.
- `OwnConfig` of `Lifecycle` (`PartsSafety`): a disabled entry's tool configuration
  may reach an enabled entry of the same ID (`config.go:596`, against "disabled
  ones never appear"), and the built-in tools' configurations are applied to a
  plugin that replaced one (`runtime.go:119`). A middleware the
  transport names twice runs twice; `runtime.go:267` builds its ID by hand where
  other kinds use QualifyID; `LoadInto` returns at the first failure although
  `loader.go` says all failures are collected; a gateway that cannot listen is only
  logged; a signal before `signal.Notify` ends the process without Stop.
- `RequestsAreServed` of `Lifecycle` (`PartsSafety`): past the deadline `gw.Stop`
  (`main.go:154`) returns with webhooks in flight, and the channels they came for
  are stopped under them. `IngressIsServed` speaks of a gateway that listens.

*Conversations and routes.*
- `ResetTakesEffect` (`ConvResetRace.cfg`): after "Session reset. Starting fresh."
  an inbound handler that was resolving at the same time puts the old
  conversation back (`service.go:134`).
- `ResetSurvivesRestart` (`ConvResetRace.cfg` with a second life): a reset lives in the cache until
  the next message is saved.
- `CronRunIsolated` (`ConvCronMixed.cfg`): `scheduler.go:168` calls each run an
  isolated session; after a restart the newest message of the chat decides,
  whoever caused it, and the user continues in the session of the cron run.
- `TurnSeesHistory` (`ConvResetRace.cfg` with "reply" among the kinds): a reply
  that switches the conversation removes the tenant a running turn needs to read
  its history.
- `NoSplit` holds with one inbound handler at a time, as the Telegram poll loop
  runs them; with two at once (Teams webhooks) two first messages of a chat mint
  two conversations.
- `RetryAfterHonoured` (`CompletionOverwrite.cfg`): `completion.go:24` calls the
  entry the earliest retry; of two calls in flight, the one that fails later may ask
  for less and overwrite the longer delay (line 128). `CooldownHonoured`, which is
  checked, shows that nothing else cuts a delay short: no eviction by another call,
  no entry under another model's name.

*Schedule.*
- `NextIsLater` (`SchedGap.cfg`): `cron.go:202` says NextAfter is strictly after t;
  west of Greenwich `time.Date` maps a time that is skipped when clocks go forward
  to an hour before it, so the next run is not after the tick and the entry fires
  at every tick until the gap is over.
- An expression that never matches has the zero time as its next run;
  `cron_create` stores none instead, but a resumption
  (`cron_set_status/plugin.go:136`) and a firing store it, and it is due at every
  tick; the model does the same.

*History.*
- `ExchangesWhole` (`HistoryExchanges.cfg`): `render.go:26` says an assistant
  message with its tool results is kept or evicted as a unit. In a group a message
  saved between them ends the unit, and a summary may end inside it.
- `FilesKept` (the same): `compaction.tmpl:13` says files
  are extracted separately; the section is rebuilt from the history alone, so the
  files of the previous summary are lost.
- `ShownInItsTurn` (the same): a message that waits behind a running turn may be
  covered by the compaction of that turn and missing from its own prompt.

*Containers.*
- `NoExecSwept` (`ContainerSwept.cfg`): `pool_test.go:448` says "sweep should not
  stop container with active execs". The sweep looks at the counter (`pool.go:395`)
  and releases the container afterwards (line 399); a command that comes in between,
  or has read the container but not raised the counter (lines 285-292), loses it.
  `SweepSparesExecs`, checked and proved, says that no other command does: none that
  was counted when the sweep looked.
- `NoBoxLost` (`ContainerLost.cfg`): a container runs that the pool does not know
  (`pool.go:181`), after one turn's ensure and another's release overlap.
- Two chats of one user have different mounts, so the `ensure` of one turn removes
  the container in which the other one's command runs (`proxy.go:185`).
  `checkStatus` treats 409 as success (`client.go:615`) and the ID it then
  returns is empty. Names use the first eight letters of a UUIDv7, which users who
  join within a minute share.

*Accounts* (all with `AccessSafety`).
- `OneUserPerCode`: `invite.go:99` says the single UPDATE prevents races; it
  does for the code, after both users were created.
- `NoPanic`: `store.go:15` leaves a missing tenant to the caller; the resolver
  (line 102), onboarding and the merge go on with nil.
- `RemovedIsGone`, `ChatKnown`, and with a third message and a third change on one
  chat `ChatOfTenant`: the caches outlive what they cache.
- `createTenant` replaces the mapping of a workspace that has a tenant, which
  `linkTenant` refuses; `joinUser` does not compare the code's tenant with the
  workspace's; `MergeUser` says "all data" but leaves chats, memory and secrets;
  `invite create` accepts targets that do not exist.

*Secrets* (all with `SecretSafety`).
- `UsedIsOver`: `impl.go:251` calls the token one-time; a form validated before the
  other one was done writes its secrets after it. A consume that fails leaves the
  secrets written and the token usable. The submitted keys are not compared with
  the token's.
- `NothingShown`: redaction knows the secrets of now, not those the command ran
  with; overlapping values are half redacted; and when the secrets cannot be read
  the output is returned unredacted (`impl.go:177`), as it is where redaction is
  switched off. `GivenIsRedacted` says what is left: with the list read and no write
  meanwhile, only short values and those that contain another are shown.
- `FilesFound`, `NoFilesLeft`: parallel commands share `/tmp/secrets`; a failing
  `rm` leaves them.
- One secret that cannot be decrypted makes `EnvVars` return none; two keys may
  share a variable, and which one wins is open.

*Telegram* (all with `TelegramSafety`).
- `PartsOnce`: a retry after a lost response sends a part twice.
- `AnsweredOnce`: edits and repeated updates are answered again, while
  `INSERT OR IGNORE` (`message.go:51`) keeps the first text.
- A `mention` entity of anyone counts as one of the bot; the download status is not
  looked at; the identifier of an answer is recorded after its attachments; a
  batch that cannot be decoded is fetched again without a pause;
  `splitMessage` cuts bytes where its comment says characters.

*Teams.* The webhook answers 200 whatever the handler did; an empty answer sends
an empty activity; a third part may meet an expired token, which is why
`TokenOutlivesParts` speaks of the skew; attachments of one name overwrite each
other.

*Skills.* `CurrentIsComplete` and `AllowedIsThere` (`PartsSafety`): only SKILL.md is
hashed, a clean-up that failed half way leaves a mark that is taken for current,
and an interrupted copy has no mark and is taken for the tenant's own.
`List` keeps the last of two names that differ in case, `Resolve` the first.

*Stream.* `GapLoses` states it: the result runs over 0 to len-1, so calls after a
gap in the indices are lost; a body that breaks off between two lines passes for a
complete answer, as `[DONE]` is not required.

## 5 Proofs

The theorems hold for every value of the constants that the named assumption of
the module allows: any number of workers, callers, handlers, forms, turns,
messages, plugins, and any bound. The assumptions say what the code makes true
(capacities are positive, the dispatch goroutine is not an inbound handler, a
message has a chat, an ID begins with its kind) or that a value that stands for
"none" is not one of the others; TLC evaluates them in the runs. These theorems
have a hypothesis of their own:

| theorem | hypothesis | why |
|---|---|---|
| `NoSplitOneHandler` | at most one inbound handler | two first messages at once mint two conversations, see section 4 |
| `EqualDelaysHonoured` | every failure asks for the default delay, or for none | a shorter delay would overwrite a longer one, `CompletionOverwrite.cfg` |
| `OneCallHonoured` | one call at a time | the same |
| `NextAfterIsLeast`, `NextRunIsLater` | the offset from UTC does not change | across a change it is false, `SchedGap.cfg`; `NextIsLeast` with a change is checked |
| `TokensLast` | tokens live longer than the skew | `auth.go:241` assumes so: a shorter one has ended when it arrives |

Each invariant is of the same build: what a process holds while it is between two
steps (a record of locals per program counter), what the shared state holds, and
what relates the two. The properties are seldom inductive by themselves; the
paragraphs below say what they need. `Init`, one lemma per action or group of
actions that touch the same state, and one that joins them prove it inductive.

**AgentLoop.** `SessionMutex` alone is not inductive: to know that a worker that
takes a mutex finds the chat free, the invariant must say that whoever is inside
a turn owns the mutex (`WorkerInv`). `SlotAccounting` relates a counter to a set
of workers, and a release needs the worker to be in that set. `AnsweredOnce`
needs to know that a message is handled by one worker only (`OwnMessage`) and how
many responses a message has at each point of its worker's turn (`WorkerInv`,
`MessageInv`). `DrainedIsQuiet` follows from the count: Shutdown holds all
`MaxWorkers` slots, so the cardinality of the holders is zero. `LoopInv` is the
conjunction; `InitLoopInv`, `TypeStep`, `SlotStep`, `WorkerStep`, `MessageStep`
and `DrainStep` prove it inductive, one step per action. `RunningBound` maps
running messages one to one to workers inside a turn, from which the refinement
`LoopImplementsExecutor` gets the executor's bound on running turns.

**MessageBus.** `BusInv` adds to `FifoDelivery` that a topic is closed only once
Stop began, that a dispatch goroutine ends only with an empty closed channel and
no handler at work, and that a Stop that is done has seen every goroutine end.
`MoveHead` is the fact about sequences the steps rest on.

**AgentRuntime** (`RuntimeProofs`). Loop and bus are proved once and their theorems are
used of the whole: `StepOfLoop` and `StepOfBus` show that every step of the agent is
one of Handle and Shutdown and one of Publish, dispatch and Stop, or leaves the
variables of either alone (`RuntimeImplementsLoop`, `RuntimeImplementsBus`), and
`RuntimeKeepsPromises` is what follows from that without another proof. That the
agent publishes as the bus expects, no message twice on a topic, is not free: a turn
that is about to answer has not been answered (`ReplyIsNew`), and neither has a
command (`CommandIsNew`). `AgentInv` adds to the two invariants what the wiring makes
of them. `AnswersInOrder` speaks of two topics and is not inductive; it needs that the
inbound goroutine works on the message it took last and on no other (`TurnInv`), that
an answer to a message of a channel exists only after the message was taken
(`AnswerInv`), and that neither topic has a message twice (`OrderInv`): the answer
that is appended is then to the last message taken, so it is behind all others.
`CleanExit` needs `DownInv`: the bus is stopped only after the loop, and a drained
loop has nobody who could still send; so what `DrainedStaysQuiet` rests on (`NoHolders`)
meets what `StopHasDrained` says of the bus (`DoneIsDrained`). `IngressClosed` is a property of steps and needs the same.

**Completion** (`ServiceProofs`). `CallInv`: a call that names its route has a
chain of that route alone and still carries its model, which is why the
overwriting of `req.Model` at line 73 cannot hurt it. `CooldownsHonoured` rests on
`RetryInv`: as long as no shorter delay was written over a longer one, the entry of a
route is the time its failures asked for, and a route without an entry is past that
time, whoever evicted it. Two theorems say when the exception cannot occur:
`EqualDelaysHonoured`, because a later failure then never asks for an earlier time,
and `OneCallHonoured`, because a call that fails was one that was free to go.

**Conversation** (`ServiceProofs`). `OneChatPerConversation` needs an owner for each
conversation that occurs anywhere: in a map, in a message of a queue, in the store,
or held by a goroutine between two statements. `OwnerInv` says that all of these
agree; `Used` lists the places, and each `…Uses` lemma shows that a step uses no
conversation that was not used before for that chat, or one just minted.
`ReverseInv` and `TenantInv` relate the second and third map to the first; they
hold only where nobody is between the two writes, so the goroutine in between is
part of them. `NoSplit` follows with one handler from `SteadyInv`: a chat nobody
steered has one conversation everywhere, and while it is in no map the store has it
as the newest.

**Accounts.** `KnownInv`: each identity, cached or stored, leads to a user that its
sender owns, which survives a merge because owners follow. `HandlerInv` says what a
handler has found or written at each of its writes, `CodesInv` that a welcome
leaves a code used, from which at most one welcome follows even if several
handlers redeem it.

**Secrets.** `ToldOnce` rests on the UPDATE of ConsumeSecretToken alone: a token whose
use was announced is used, and a form can announce only a token it used itself.
`FilesInv` knows which commands will still remove a directory. `ShownInv` compares
the values a command was given with those `Redact` looks for, of two owners and
under a name both have; what escapes is short, or contains another value, and that
is shown without a hypothesis on the secrets.

**Telegram** (`EdgeProofs`). An identifier is a place in a chat, and chats only grow
(`Grows`), so what is said of an identifier stays true: `GrowthKeeps` proves that once
for all steps. `RepliedIsQuoted` relates a turn to a message posted earlier, through
a row that was perhaps written by a third; it needs `RowInv`, every row belongs to a
turn and has its chat, and if it has the identifier of an answer that is of its first
part. That in turn needs `SendInv`: the identifier kept during a delivery is of the
first part although a call failed, was tried again without format, or lost its
response. `RowOnce` is `INSERT OR IGNORE` over repeated and edited updates. `UpdateInv`
says that everything below the offset was handled, within a batch too, from which no
update is confirmed unhandled (`ConfirmedAreHandled`).

**Cron and Scheduler.** `NextIsFirst` shows that the first candidate of the search is
the least matching instant: candidates are compared field by field
(`CandidateIsNamed`), and where the offset does not change wall-clock order is that
of instants. `TickInv` says that what the tick listed, and what its
firing is at, still exists; `OnceInv` that a one-shot entry with a run has no next
run and is not about to get one; `HaltedInv` follows as a firing writes the status only where it is
still active.

**Containers.** `OneBoxPerUser` follows from the daemon's unique names (`UniqueInv`)
and from labels that a name determines (`LabelInv`). `ExecsCounted` equates a counter
with the number of commands, across releases and replacements. `SweepSpares` needs
it where the sweep looks: a counter of zero means that nobody runs in the container.
From there on, until the daemon has removed it, `SweepInv` follows everyone who has
taken the container from the pool: he is among `late`, because whoever had it when
the sweep looked was put there and whoever takes it between look and release is
added. After the release nobody can take it, as it is in the pool no more (`PoolInv`:
a container is there once, and not while it is being released). `EarlyInv` says what
a starting process has done so far, of which `PoolIsReconciled` is the end.

**History.** `ReadInv` says of the compaction under way what it read and that
everything older went into the summary before it; so saving it loses nothing
(`HistoryIsKept`) and never goes back (`SummariesAdvance`). `PromptHasNoHoles` needs
two facts about pure operators: `WindowWhole`, the window cuts a prefix, and
`NewestExists` for what is the newest summary.

**Teams.** `RowInv` says of each request and sender how old what it holds is, in
terms of the clock and of `Latency`: the cache was fetched at most one call ago, the
recorded expiry of a token exceeds the real one by at most one call. `HolderInv`
ties both mutexes to the program counters (`OneFetchAtATime`).

**Skills.** `SyncInv` says what the synchronisation has still to do: what it must not
touch is not in it, and what must go is in it unless a call failed.

**Lifecycle.** `StartedInv`: the started list is in the order of the kinds and has no
gap, that is, what comes before a listed plugin is listed. It is inductive because
Start takes the first plugin that is not listed (`FirstExists`) and stopStarted the
last; so `RunsOnItsGround` holds on both ways down, the channels being stopped ahead
of the list but before everything else. `RegistryInv` relates the two maps of the
registry through replacements, and `ServeInv` what each stage finds done by those
before it; together they give `IngressIsServed`, also where the process is killed.
`ChainIsWhole`, the third part of `OrderOfKinds` (`KindsInOrder`), needs that a finite
set of numbers is counted without a gap or repetition (`Counting`, by an injection
between sets of one size), and that the slots of the chain are one to one with the
middleware (`SlotsHold`), which uses `RegistryInv`: the registry knows a plugin by one
ID.

Three arguments come back: a set of numbers that is not empty has a least element
(`LeastExists`, from the library's well-foundedness of the numbers), which gives the
first candidate, the newest summary and the first plugin; a step that leaves a group
of variables alone leaves what is said of them (`ServicesStay`, `KeysStay`,
`MapsKept`, `NamesStay`, ...); and a record that moves from one program counter to the
next keeps its other fields (`TurnMoves`, `CommandMoves`, `GoesOn`, ...).

**Only model-checked:**
- every liveness property, which takes fairness and ENABLED: `StopReturns`,
  `AcceptedIsHandled`, `EveryMessageAnswered`, `ShutdownEnds`, `SchedulerStops`,
  `EveryUpdateHandled`;
- `NextIsLeast` across a change of the offset, where it holds for the instance only;
- `Split` and `Stream`, recursive functions of their input, over bounded inputs.

## 6 Not modelled, and why

- I/O and text: HTTP and the framing of the Docker, Telegram, Teams and LLM
  protocols, entities and cards, the sections of the system prompt, the parsing of
  cron expressions and of the configuration, output of the CLI, logging.
- Stateless parts: the whisper, noreply, reacted and replyto middlewares, the
  local sandbox, helper packages, and the tools that read or write one file, row
  or page. Their effect on the models is an input or a constant.
- In modelled parts: copies of attachments and the typing indicator of a turn;
  `CopyTo` and `CopyFrom` of the sandbox, which nothing calls; downloads of Teams
  attachments; reactions; `Resolve` and `Sync` of the skill service, which nothing
  calls; memory, journal, error log, full-text search and migrations of the store,
  whose operations are single statements.

## 7 What could follow

Every invariant and every property of steps that a passing run checks is stated by a
theorem. What is left:

1. Properties for the hazards of `PROJECT.json` that have a note instead; most of them
   are differences of section 4, whose properties hold only once the code is changed.
2. The sections of the prompt and the parsing of cron expressions, if text is to be
   modelled.
