# kmyh-gateway: TLA+ models and proofs

kmyh-gateway connects chat platforms (WeChat Work, Feishu, QQ bots) to AI
agents, for many tenants. An admin service registers, updates, pauses, resumes
and destroys tenants' *channels* over NATS; each platform calls a webhook per
tenant; a message goes to the agent its user is bound to, and the answer goes
back through the platform. The source has no tests and no documents; the models
follow the code and its comments. Paths below are relative to `src/`.

## Components, their state, and what makes them correct

| component | state | operations | correct when |
|---|---|---|---|
| `GatewayServer` (`internal/aibot/gateway_server.go`) | ten NATS subscriptions, each with a goroutine; `Start` runs beside them | `onChannelCreate` … `onSyncResume`, `InitChannelsFromAdmin` | an "ok" follows what it says; requests finish; the boot ends |
| `ChannelManager` (`internal/aibot/channel_manager.go`) | `channels` by tenant slug, under `mu`, three accesses without it | `CreateChannel`, `UpdateChannel`, `DeleteChannel`, `PauseChannel`, `ResumeChannel`, `InitChannels`, `GetChannel` | a key is its channel's slug; a pause lasts; no request touches another tenant |
| channel handlers (`gateway/weixin`, `feishu`, `qqbot`) | a table of clients by tenant slug; weixin: a token refresher per client | `InitChannel`, `UpdateChannel`, `DeleteChannel`, `PauseChannel` | a destroyed channel is not served; a served weixin channel is refreshed |
| Feishu queue (`gateway/feishu/module.go`) | marks and queue in Redis, five workers | `handleMessageReceive`, `worker`, `processMessageTask`, `processMessageSync` | a message is asked once, and not lost on the way |
| GoClaw client (`internal/goclaw/dial.go`, `agent/goclaw.go`) | one connection, the content so far | `Dial`, `ChatSendSync`, `Process` | the answer is the streamed one, in order and whole |
| webhooks and replies of the three types | a call per webhook request, or per Feishu task | `webhookHandler`, `HandleMessage`, `sendTextMessage`, `sendAgentResponse` | a reply leaves through its own tenant's client; a pause keeps messages from the agent; no call waits for good inside the gateway |
| QQ token cache (`gateway/qqbot/module.go:334`) | token and expiry per state object | `getAccessToken`, `PauseChannel`, `InitChannel`, `DeleteChannel` | a message is sent with a live token for the right credentials |
| agents (`agent/registry.go`, `agent/dify.go`, `agent/goclaw.go`) | none between calls | `Registry.Process`, `DifyAgent.Process` | one return, and an answer that only a broken link cuts |
| `AIBotClient`, HTTP server, GoClaw message building, utilities | none of their own | one request each | — |

The components interact by calls (NATS goroutines → `ChannelManager` →
handlers; `WxGateway.DeleteChannel` calls back into the manager under its own
lock), by the two kinds of tables (a webhook reads its handler's table and then
the manager's status), and through Redis. What is hard is all at these seams:
subjects that interleave, maps written without their lock, an id that has to
become a slug in four different ways, objects written back after a lookup, a
boot that installs an old list while new requests are served, marks and queue
entries that outlive the process. `PROJECT.json` lists each hazard at its line.

## Modules

| module | what it is |
|---|---|
| `Channels` | the data: catalog of channels, lookups from an id to a slug, the three handlers' tables as functions |
| `ChannelAdmin` | the administration: every NATS handler, the manager, the handlers' tables and locks, the boot, races and restarts |
| `ChannelDirectory` | what the administration promises an admin who asks for one thing at a time per tenant: an atomic directory |
| `ChannelListing` | what is left of that promise when requests for one tenant overlap: a list on which a destroy, a pause or a resume acts in three steps, and which has moved on when the answer comes |
| `Webhooks` | the messages of the three types beside the administration, whose tables they read; composes `ChannelAdmin` |
| `FeishuQueue` | a Feishu message from the webhook to the reply, with Redis, workers and crashes |
| `MessageDelivery` | what the Feishu queue promises a user: the one life of a message |
| `QQToken` | the qqbot access token, its senders, the platform and the clock |
| `GoclawChat` | one question to a GoClaw agent, frame by frame |
| `AgentRegistry` | `Registry.Process` and both agents; composes `GoclawChat` |
| `AgentAnswers` | what the gateways rely on when they ask an agent |
| `…Proofs` | the theorems of the module they are named after |
| `MC…` | instances for TLC |

An operator named in a comment `Mutant: …` is a plausible bug in the definition
that follows it. No specification uses it: it is put in the definition's place
to see that a property notices. `map` in `PROJECT.json` names the lines behind
every other definition.

### ChannelAdmin

A subject is a process (`pc[p]`, `job[p]`), because the NATS client runs the
callbacks of one subscription one after the other on a goroutine of its own.
`boot` is the goroutine of `GatewayServer.Start`. `mgr` is
`ChannelManager.channels`, `gw[t]` the table of the handler for type `t`, both
from slug to channel. `refreshing` holds the slugs whose installed weixin
client's token refresher was not cancelled.

A step runs from one point where another goroutine may get in to the next:

| code | actions |
|---|---|
| `on…(msg)` up to the first call of the manager | `Receive` (one disjunct per subject; `Reject` for what the checks refuse) |
| `GetChannel` | `GetChannel` |
| `InitChannel` from create and update; the unlocked write of create | `InstallChannel`; `FileChannel` |
| `DeleteChannel` of each type; the unlocked loop of the manager's; the unlocked `delete` of the key it has found | `FeishuDeleteChannel`, `QQDeleteChannel`, `WxLock` and `WxDeleteChannel`; `MatchChannel`; `RemoveChannel` |
| `PauseChannel` of each type; the manager's loop; its write-back | `PauseHandler`; `ScanChannels`; `WriteBack` |
| `ResumeChannel` | `ScanChannels`, `WriteBack` |
| `respondOK`, `respondError` (the sync handlers log) | `Respond` |
| `Start`, `InitChannels` | `Subscribe…`, `ListChannels`, `InitNext`, `FileNext`, `Serve` |

The map accesses that do not take `mu` are data races. Either the access has its
effect, or the Go runtime notices and stops the process: `Throw`. A map
iteration that takes the first match may take any, so it is a choice from a set.
The answer is a step of its own, with no lock held: what it reports may have been
changed by another subject or the boot before it is sent, so no property says that an
"ok" is true of the map when it leaves. What it does mean is in the two abstract
specifications below.

Abstractions: a config is absent, refused or good; an answer is ok or error; a
channel of a type no handler has is a rejected request; a create without an id
gets one that is in the catalog. Not modelled: the refresher of a client that
was overwritten while served (it runs on, and no state tells) and
`QQBotGateway.cfg` (written, never read).

`NoDeadlock` is about the two nested locks: whoever holds one is at work and waits
for nobody, or for one who waits for nobody, so that no circle can close. It is
the safety part of `RequestsFinish`. `ListedStays` says by which steps the channel
listed for a tenant may change. Two of them hit what has been filed since they looked:
a destroy deletes the key under which it has found its channel (`channel_manager.go:129`,
then `:130`), and a pause or a resume writes back what it has found. A destroy that finds
the tenant's other channel leaves it alone.

`ChannelDirectory` is the abstract specification: `listed`, the requests `asked`
and the `answers` on their way, with one step per request. The refinement mapping is
`mgr` for `listed`, the goroutines' requests (`Pending`) for `asked`, and for
`answers` the `reply` of the last step and those that are certain (`Answers`): a
pause or a resume counts as done from the moment it has changed the map under `mu`,
because nobody sees the map again before the write-back; any other request from the step
after which only its answer is left (`Committed`). `ApartSpec` is
`Spec` with an admin service that has one request at a time in progress for a
tenant, and none for a tenant whose listed channel the boot has still to install
(`Apart`); requests for different tenants, of any number, interleave as they
like. This restricts the admin, not the gateway: nothing in the code enforces it.
With two requests for the *same* tenant the refinement does not hold,
and the code shows why: a destroy's unlocked deletion between the scan and the
write-back of a pause is undone, a create between the two halves of a destroy's is
deleted, and the answers may come in another order than the changes.

`ChannelListing` is the abstract specification without that restriction, for the
sync subjects too. It has one entry per slug and, per subject, how far its request
is (`stage`) and which channel it names. A create and an update act in
one step. A destroy finds its channel listed (`Find`), finds it once more (`Match`), and
empties the tenant's place, whatever is there by then (`Remove`); a pause or a resume finds
its channel listed, sets its status (`Set`), and puts the channel back (`PutBack`), whatever
has come between. The answer is one more step (`Respond`). So the two ways in which an
entry goes or comes back that nobody asked for are written down as actions, at most one
request at a time can be about to put one back, and everything else about the list stays as
an admin expects it: an "ok" comes after what was asked for, done to a channel listed after
the request came in, or with nothing left to do; a destroy that does not find its own
channel removes nothing; a failure changes nothing. The mapping is `mgr` for `listed`, and
`Stage` and `Named` of the goroutines; locks, tables, configs and the boot's own progress do not show.

### Webhooks

A call (`at[h]`, `message[h]`) reads shared state three times, each time under a lock
it gives back: the handler's table (`Arrive`), the manager's status (`Gate`),
the handler's table again for a client to answer with (`Tell`, `Answer`); `Ask`
is the bind info and the agent in between, however long they take. The actions of
`ChannelAdmin` are taken as they are (`Beside`); `Throw` and `StartFails` end
the calls, too (`End`), except Feishu messages, whose tasks are in Redis. The three
types differ in what a held message gets (a word; qqbot a 403) and in which
client they fall back to when the tenant's own is gone (`OwnOrAny`, `OwnOnly`). The
call is over with its last look at the tables: how long the platform takes to accept the
message shows nowhere. `disturbed` and `silent` are history: no guard reads them. `ForeignOnlyWhenDisturbed` is as
strong as the code allows: weixin and feishu do answer through another tenant's
client when the channel was updated or destroyed under the call.

### FeishuQueue

Redis (`marked`, `queue`) outlives the process. `stage` follows the start:
`Construct` (`NewFeishuGateway`, which starts the workers and pings Redis), then
`Start` twice (the module's Invoke; then the `OnStart` hooks, the last of which
serves HTTP). The platform (`Deliver`) sends a message again until a call for it
was answered well, and overlapping calls are possible. Any Redis command may
fail (`Fault`), an LPush or a BRPop with its effect. `Panic` is the nil
`aibotClient` a worker finds when it has a task before the Invoke has run.
`excused`, `backlog`, `wasted`, `runs`, `ended`, `lost` are history: no guard
reads them. There is one channel, and its status is changed from outside.

`MessageDelivery` is the abstract specification: a message's `fate` is new, taken,
asked, closed or gone, and only ever moves forward; `asks` counts how often the agent
was asked. A message that the check for duplicates could not protect (Redis
failed or is not there, it has no id, or a second call was past the check with it) is exposed from then
on, and nothing is promised for it. The refinement mapping (`Fate`) looks where a
message is now (the queue, an actor's hands) before it looks at what became of it
once, so a message that came back after its end would show as an illegal step.
`MarkedIsHandled` is the other half: a mark that makes later deliveries be skipped
stands for a message somebody has or had, as long as no process was killed.

### QQToken

`cache` is the pair of fields of a `qqbotChannelState`; `InitChannel` makes a new
object while senders hold the old one, so a sender keeps `state[p]`. Nothing
serialises the senders: `Read` and `Store` are two lock sections, with the
platform's answer between them. `now` is the time: the platform counts a token's life
from when it answers, the cache from when the answer is read. An error is an answer
without a token, with or without a life (`AnswerError`): its status is not looked at,
so it is stored over a good token, and `ErrorStaysOwn` says that only the sender it was
the answer to goes without one. A sender gives up
at its context's deadline (30 s; `Tick` does not pass it), the margin is 5
minutes, a token lives for two hours; only `2 * Deadline <= Margin` matters, and
`LiveTokenUsed` is false without it. Time a goroutine spends runnable but not
running after its deadline is not counted. A context's deadline bounds the
request for a token and the sending together, as in `HandleMessage`.

### GoclawChat, AgentRegistry

`Dial`, `Handshake`, `Send`, `ReadFrame`, `ReadFails` are the client. The server is external.
The request leaves `Stream` unset (`agent/goclaw.go:72`), so it streams none, some or all
of the chunks, in order, and is through with `run.completed`, the response (with the whole
answer, without content, malformed or an error) or both, whenever it likes; it may refuse,
mix in other frames, break or fall silent. A `run.completed` before an unstreamed response
therefore gives an empty answer without an error, as `dial.go:140` does: `CutOnlyByLink`
says that as long as the link holds the client returns all that was streamed, or the
response's content, and never less.
`AgentRegistry` puts `Registry.Process` before it: the bind info's type and
config choose the agent (`Route`), `PostDify` is the one HTTP request of
`DifyAgent`, and the GoClaw call takes the steps of `GoclawChat`. `bounded` is whether the
caller's context has a deadline: qqbot's and the Feishu workers' have, weixin's and an
unqueued Feishu call's have not. `AgentAnswers` knows only that a question is open or
answered, how much the agent has said, and whether the link broke. `CallReturns` says where
a call may stay for good: in a dial without a deadline, and nowhere else.

## Runs

| run | instance | shows |
|---|---|---|
| `AdminTenants` | two tenants with a weixin channel, five subjects, 2 in flight | `TypeOK`, `ServedIsRefreshed`, `NoDeadlock`, `TenantIsolation`, `PauseLasts` |
| `AdminSync` | one tenant with two channels, destroy and resume with the five sync subjects, 2 in flight | `KeyedBySlug`, `ServedIsRefreshed`, `PauseLasts`, `ListedStays`, `ImplementsListing` |
| `AdminApart` | a tenant with a weixin and a feishu channel, a qqbot channel with an empty slug, ids that are slugs where the type needs it; five subjects, 2 in flight, one per tenant (`ApartSpec`) | `EveryDestroyGone`, `ImplementsDirectory` |
| `AdminUuidIds` | three channels with uuids, 1 in flight | **violation** of `EveryDestroyGone` |
| `Webhooks` | two tenants with a feishu channel, one with a qqbot channel too, five subjects, 1 in flight, one call | `CallsTypeOK`, `ForeignOnlyWhenDisturbed`, `PausedIsSilent` |
| `WebhooksLive` | one weixin channel, destroy, pause and resume, 3 in flight, one call, fair | `RequestsFinish`, `BootFinishes`, `CallsFinish` |
| `QQToken` | two senders, two state objects, two tokens, 5 ticks | `TypeOK`, `LiveTokenUsed`, `OwnToken`, `ErrorStaysOwn` |
| `FeishuDedup` | 2 messages sent up to twice, 2 calls, 2 workers, 1 fault, 1 crash | `AskedOnce`, `OnlyBacklogWasted`, `MarkedIsHandled`, `ImplementsDelivery` |
| `FeishuLive` | 3 messages (one without a sender, one without an id), 1 call, 1 worker, 1 fault, 1 crash, fair | `TypeOK`, `OnlyMarkedRun`, `QueueDrains` |
| `FeishuSkipped` | 1 call, 1 worker, a message sent twice | **violation** of `SkippedWasHandled` |
| `ChatStream` | every bind info, 3 chunks, 2 foreign frames, fair | `TypeOK`, `AnswerInOrder`, `CutOnlyByLink`, `ImplementsAgent`, `CallReturns` |
| `ChatPartial` | the same | **violation** of `WholeAnswer` |

Bounds. `MaxInFlight` bounds the requests (and the boot) in progress; two are
enough for every pair of steps to meet, which is what the hazards of the
manager's map need, and the third of `WebhooksLive` lets a waiting request be
overtaken while another holds the lock. A crash empties the tables, so crashes
need no bound there. Calls write nothing that another call reads, so one call
meets everything that can happen to it; the composition multiplies the
administration's states, so `Webhooks` has one request at a time (between any two
steps of a call any number of whole requests may run) and `WebhooksLive` leaves
out create and update, whose lock steps are those of a pause and a destroy. In
`FeishuQueue` a second delivery of a message is what duplicates are about, one
fault is enough for each command to fail once at any point, one crash for work
to be cut anywhere. Calls and workers are interchangeable, which `Symmetry` uses
where only safety is checked; so are senders, objects and tokens in `QQToken`,
where five ticks are more than the life of a token (4), and a token may be
fetched, kept, overwritten by an older answer and expire. In `GoclawChat` two
foreign frames can come before, between and after the chunks, and three chunks
allow one to be first, in the middle and last. Deadlock is checked except where
the system may stop: a GoClaw call ends, and `QQToken`'s clock.

Fairness. The administration: strong fairness of each goroutine, as the Go
scheduler runs it and `sync.RWMutex` lets a waiting writer in; arrivals,
races and crashes are not fair. The calls: the same
for their steps inside the gateway (`Inside`), and nothing for `Ask`: weixin passes
`context.Background()` (`gateway/weixin/gateway.go:315`) and uses `http.DefaultClient`, so
an agent or a platform may never answer, and `CallsFinish` lets a call stay there. The
queue: weak fairness of each worker, whose context ends after 300 s, and of the start of a
process that is down. The agents: weak fairness of the client's steps; `DifyAgent`'s
HTTP client has a timeout, and a GoClaw connection on which nothing comes runs into the
read deadline. The dialer has no handshake timeout (`internal/goclaw/dial.go:43`), so `Dial`
is fair only if the caller's context has a deadline. Each frame pushes the read deadline
back, so a server that never falls silent keeps the call; the fairness assumes that it
does. Nothing makes the admin, a platform or the
server act.

### What the violations mean

- `AdminUuidIds`: `FeishuGateway.DeleteChannel` (`gateway/feishu/module.go:557`)
  and `QQBotGateway.DeleteChannel` compare an id with slugs only. With uuids,
  which `onChannelCreate` itself hands out, a destroy is answered ok, the
  manager forgets the channel and the webhook still serves it. The comment at
  `gateway/weixin/gateway.go:254` knows that ids are passed.
- `FeishuSkipped`: a message is marked (`gateway/feishu/module.go:450`) before it is queued or
  processed. If both then fail, or the process dies, the platform sends it again
  and it is skipped as "already processed" (line 429).
- `ChatPartial`: `ChatSendSync`, documented to block until the complete response
  (`internal/goclaw/dial.go:92`), returns what it has when a read fails, though the
  server had sent the whole answer.

## Proofs

Every theorem is for all values of the constants: any catalog, any subjects, any
number of requests, calls, messages, workers, senders, any length of an answer.

| theorem | statement | beyond the modules' ASSUMEs it needs |
|---|---|---|
| `ChannelAdminProofs!TypeCorrect` | `Spec => []TypeOK` | |
| `Ownership` | `Spec => []OwnershipInv` | |
| `Keyed` | `Spec => []KeyedBySlug` | |
| `Isolation` | `Spec => TenantIsolation` | `UniqueIds`, `SlugsFindOwn` |
| `PausesLast` | `Spec => PauseLasts` | `UniqueIds`, `SlugsFindOwn` |
| `NoCircle` | `Spec => []NoDeadlock` | |
| `SomeoneGoesOn` | `Spec => [](`some busy goroutine waits for nobody, and who waits for nobody may step`)` | |
| `ListingsStay` | `Spec => ListedStays` | `UniqueIds`, `SlugsAreNotIds` |
| `Refreshed` | `Spec => []ServedIsRefreshed` | `WeixinIdsAreNoSlugs` |
| `ChannelDirectoryProofs!AdminImplementsDirectory` | `ApartSpec => ImplementsDirectory` | `RequestsOnly`, `UniqueIds`, `SlugsFindOwn` |
| `AdminImplementsListing` | `Spec => ImplementsListing` | `UniqueIds`, `SlugsAreNotIds` |
| `DestroyedIsGone` | `ApartSpec => []EveryDestroyGone` | `UniqueIds`, `SlugsFindOwn`, `IdsFindOwn` |
| `SerialIsDirectory` | `Spec => ImplementsDirectory` | `OneAtATime`, `UniqueIds`, `SlugsFindOwn` |
| `SerialDestroysAreGone` | `Spec => []EveryDestroyGone` | the same and `IdsFindOwn` |
| `WebhooksProofs!CallsOnlyRead` | `AllSpec => Spec` | |
| `CallsWaitForTheBusy` | `AllSpec => []CallsGoOn` | |
| `ListingBesideCalls` | `AllSpec => ImplementsListing` | `UniqueIds`, `SlugsAreNotIds` |
| `CallsTypes` | `AllSpec => []CallsTypeOK` | |
| `PausesAreSilent` | `AllSpec => PausedIsSilent` | `UniqueIds`, `SlugsFindOwn` |
| `ForeignAnswers` | `AllSpec => []ForeignOnlyWhenDisturbed` | `UniqueIds`, `SlugsFindOwn` |
| `FeishuQueueProofs!QueueTypes` | `Spec => []TypeOK` | |
| `AskedAtMostOnce` | `Spec => []AskedOnce` | |
| `MarkedBeforeRun` | `Spec => []OnlyMarkedRun` | |
| `BacklogOnly` | `Spec => []OnlyBacklogWasted` | |
| `MessageDeliveryProofs!MarksAreHandled` | `Spec => []MarkedIsHandled` | |
| `OneLife` | `Spec => ImplementsDelivery` | |
| `QQTokenProofs!TokenTypes` | `Spec => []TypeOK` | |
| `LiveTokens` | `Spec => []LiveTokenUsed` | |
| `OwnTokens` | `Spec => []OwnToken` | |
| `ErrorsStayOwn` | `Spec => []ErrorStaysOwn` | |
| `GoclawChatProofs!ChatTypes` | `Spec => []TypeOK` | |
| `InOrder` | `Spec => []AnswerInOrder` | |
| `ShortOnlyByLink` | `Spec => []CutOnlyByLink` | |
| `AgentRegistryProofs!CallIsChat` | `CallSpec => Spec` | |
| `RegistryImplementsAnswers` | `CallSpec => ImplementsAgent` | |

`UniqueIds`, `SlugsFindOwn`, `SlugsAreNotIds`, `WeixinIdsAreNoSlugs` and `IdsFindOwn`
are in `Channels`. All but the last are what an admin service with uuids guarantees
(`SlugsFindOwn` also allows a channel whose id is its own slug); a slug that is, or
ends with, another channel's id makes the properties false. `IdsFindOwn` is what
uuids do *not* guarantee for feishu and qqbot: `AdminUuidIds` shows
`EveryDestroyGone` false without it. `RequestsOnly` says that the subjects are the
five that answer, `OneAtATime` that only one request is in progress as well
(`MaxInFlight = 1`); it implies `Apart`. The instances of the runs that check
these properties satisfy the assumptions they are proved from: `AdminSync` (a
tenant with two channels) satisfies `SlugsAreNotIds` and `UniqueIds`.

The arguments:

- `ChannelAdmin`: `IInv` = `TypeOK` ∧ `OwnershipInv` ∧ `KeyedBySlug` ∧
  `HeldMatches` ∧ `RouteInv` is inductive. `OwnershipInv` says who holds which
  lock, and with what in hand, at each label: it is what makes a write-back know
  that nobody else took `mu`. `HeldMatches` says what the entry about to be
  written back or deleted is an entry of, `RouteInv` that a goroutine is only at the steps
  of its own subject's handler. `KeyedBySlug` is not inductive alone: a
  write-back stores an old entry under an old key, so the entry in hand has to
  be keyed as well. There is one lemma per action; `NextInv` puts them together.
  The other invariants rest on `IInv`, and `TenantIsolation` and `PauseLasts`
  are action properties from `IInv` in the unprimed state.
- `NoCircle`: who holds `mu` for writing is at its write-back and asks for no lock,
  who holds `WxGateway.mu` is at `wxdelete` and asks for `mu` only (`HoldersGoOn`);
  both come from `OwnershipInv`. `SomeoneGoesOn` follows: if a busy
  goroutine waits for a lock, its holder or the holder's holder waits for nobody, and
  who waits for nobody finds the locks its label needs free (`FreeToStep`, where
  `MayStep` spells out the guards of `Handle`). `ListingsStay` looks at each write of the map:
  with ids that are no slugs, the loop of a destroy finds an entry with the id it
  was asked for, which `UniqueIds` makes the very channel (`MatchIsOwn`); `HeldMatches` and
  `KeyedBySlug` carry it to the deletion, and say what is written back.
- `ChannelDirectory`: `Apart` is a state predicate, so it is an invariant of
  `ApartSpec` (`StaysApart`). A step of one goroutine, or of the boot, leaves every
  other goroutine and its tenant's entry, clients and refresher alone (`Untouched`):
  that is `HandleIsolated`, the lemma behind `Isolation`, used at the others'
  slugs. Therefore what a handler has looked up is still listed at its later
  steps, and what it writes back is there already (`InHand`). For the mapping, the
  requests and the answers are split into a goroutine's own and the others'
  (`Split`, `OthersStay`); then one lemma per kind of step shows that a step
  between a request and what commits it is quiet (`StepIsQuiet`), that the step that
  commits it is its abstract action (`CommitResponds`, `HandleImplements`) and that the
  answer, which was among the `answers` since, is quiet again (`RestIsQuiet`).
  `HandlerIsRid` carries a destroyed client's absence from the handler's
  deletion to the answer, also by `Untouched`.
- `ChannelListing`: with overlapping requests what was looked up may have changed, so
  `InHand` and `Apart` are gone. What remains are `HeldMatches` and `KeyedBySlug`: with
  ids that are unique and no slugs, an id finds its own channel's entry or none
  (`FindsItself`), and the entry in hand at a write-back is the request's own channel under
  its own key (`HoldsItself`), which is all `Remove` and `PutBack` say. `WxDeletesOwn` is the one new
  invariant: `WxGateway`'s DeleteChannel, which can fail, is at work for a weixin channel.
  One lemma per kind of step (`HandleLists`, `ReceiveLists`, `BootLists`, `CrashLists`)
  names the abstract action.
- `Webhooks`: a call changes no table, so every behaviour is one of
  `ChannelAdmin` and `IInv` holds. `PausesAreSilent` needs `SilentIsPaused`: a
  silent slug's entry is paused (the lemmas behind `PausesLast` keep it so).
  `ForeignAnswers` needs `HasClient`: an undisturbed call's tenant is served.
  `CallsWaitForTheBusy` and `ListingBesideCalls` are `NoCircle` and
  `AdminImplementsListing` carried over to the composition.
- `FeishuQueue`: `OnePlace` says that a message that may not be asked twice is in
  one place at most (a call past the mark, the queue, a worker, the runs),
  `MarkedFirst` that all of these are marked, `PassedAlone` that a call that
  passed the check is alone with its message or excused, `Backlogged` what is in the queue while
  the process starts.
- `MessageDelivery`: `DInv` adds to the queue's invariant that a call processes no
  message the check protects, but queues it (`OnlyWorkers`), and that a message which
  ended or was lost left its mark behind and is nowhere any more, and one that was
  asked is in the hands of one actor (`Settled`). With them each action maps to
  one abstract step: a push takes a message over, a crash loses the set of
  messages in hand, the overlap of two calls exposes one.
- `QQToken`: `CacheSound` bounds the cache's error: an object's expiry is at most
  `Deadline` after the token's end; `OnTime` that no sender is past its deadline;
  `AnswerSound` and `TokenSound` carry both over the request and the sending.
  `ErrorStaysOwn` is inductive with `TypeOK`: what `Fresh` lets through is a token.
- `GoclawChat`: `Collected` and `Streaming` say that what the client has, followed by the chunks
  still on the wire, is a beginning of the answer; `Outcome` that the result was made of it.
  `AgentRegistry` maps each step of it to `AgentAnswers`.

Only model-checked: liveness (`RequestsFinish`, `BootFinishes`, `CallsFinish`,
`QueueDrains`, `CallReturns`), because TLAPS does not handle fairness and `ENABLED`; and
the three violations. Of `RequestsFinish` the safety part is proved: `SomeoneGoesOn` says
that while requests are in progress one of them finds all its next step asks for.

## Not modelled

- `internal/goclaw/channel_msg.go`: exported, but nothing in the program calls it. The
  agents send plain text.
- `AIBotClient`: `ListChannels` and `GetCustomerBindInfo` are modelled as their
  outcomes; the other calls are single requests on NATS without state.
- HTTP server and wiring: the order of construction and start is in
  `FeishuQueue`; routes, health checks and middleware are input and output.
- Formatting of responses, error types, slice helpers, configuration: stateless.
- That an answer slower than qqbot's 30 s makes the platform send the message
  again (`gateway/qqbot/module.go:198`): a second call for the same message is one more call
  in `Webhooks`, and no line of weixin or qqbot looks for duplicates.
- Goroutines of overwritten weixin clients are not counted.
- go-redis's own retry of an LPush whose answer was lost (`MaxRetries` is left at its
  default, `gateway/feishu/module.go:106`): it may queue a task twice without an error.

## Plan

Done: the administration, the messages beside it, the Feishu queue, the QQ
token, the agents, four abstract specifications (`ChannelDirectory`, `ChannelListing`,
`MessageDelivery`, `AgentAnswers`), and proofs of all their safety properties.
Worth proving next: an abstract specification of the token cache. Worth adding when the code changes: `ImplementsDirectory` for
`Spec` itself once the write-back of pause and resume is gone, duplicates for weixin and
qqbot once they are looked for, and `channel_msg.go` once it is called.
