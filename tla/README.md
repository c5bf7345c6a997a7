# custom-service: models, checks and proofs

custom-service is an online customer-service system: a widget on a web page for visitors, a
console and a mobile app for agents, and a Go backend (WebSocket hub, HTTP API, MySQL, Redis) with
voice calls and a public voice hall. This directory holds TLA+ modules of its concurrent core, TLC
configurations that check them on small instances, and TLAPS proofs for every value of the
constants. Paths below are relative to the repository; `internal/` is `backend/internal/`.

## 1. The system

| Component | State | Operations | Interacts through | What is hard |
|---|---|---|---|---|
| **Hub** `internal/ws` | `visitors`, `agents`, `byConv` maps; four channels; per-client send queues | `Run` loop, register, unregister, `handleIncoming`, fan-out, rebinding | calls `MessageSink` in its loop; HTTP goroutines write the same maps; Redis pub/sub to other nodes | one loop and many goroutines on the same `sync.Map`s; full queues; order between channels |
| **Message pipeline** `internal/service` | 256 task slots, `messages` table | preprocess, persist, ACK, fan-out, delivery, replay | called by the hub, asynchronous tasks, database | retries, failing statements, crash between steps, state read in the loop and used in a task |
| **Conversations** `internal/handler/http.go`, `internal/store` | `conversations` rows, connection bindings | session, connect, assign/take over, close, read, delete, restore, purge | HTTP handlers beside the hub; database | several statements per request, no lock between them |
| **Voice signalling** `internal/ws/hub.go` | `pendingCalls`, `pendingAccepts`, `acceptTimers`, `finishedCalls` | voice frames, buffer timer, accept watchdog, mark expiry | widget, app, timer goroutines | timers that fire while a frame is handled; duplicate ends |
| **Call clients** `widget/public/chat.js`, `mobile_app/lib/state/voice_controller.dart` | call state, call id, peer | call, accept, offer, answer, hang-up, local timers | frames through the hub | awaits on the microphone; two agents who accept; reconnection |
| **Shared list queries** `internal/store/list_flight.go` | map of running queries | `do` | mutex, channel | followers, cancellation, panic of the leader |
| **Recycle bin and jobs** `internal/service/features.go`, `features_deletion.go` | deleted rows, job lock in Redis | delete, restore, purge, automatic cleaning | database, Redis | list-then-delete, two instances |
| **Voice hall** `internal/hall`, `internal/livekit` | slots with leases, bans, online set in Redis; permissions in LiveKit | join, mic, camera, moderation, reconciliation, webhooks | Redis scripts, HTTP to LiveKit | leases, two systems that disagree, dropped webhooks |
| **Hall messages and word filter** `internal/hall/messages.go`, `filter_*.go`, `internal/textfilter` | messages, outbox of alert mails, compiled word list | send, delete, silence, mail tick | database, SMTP | duplicate sends, crash between send and mark |
| **Sessions, login lock, rate limits** `handler/http.go`, `internal/security`, `internal/middleware` | `agents` rows; counts, locks and captchas in Redis; tokens at the clients | login, refresh, logout, create and disable accounts, check of every request | Redis, database | a lock checked long before a failure is counted; a token issued from a row read earlier |
| **Lists, profiles, quick replies, export** `internal/store/*` | rows | queries, one-row updates | database | only the shared queries |
| **Front ends** `widget`, `admin`, `mobile_app` | outbox, merged lists, sockets | send, retry, reconnect, merge | WebSocket, HTTP | late and repeated answers |
| **Start-up and deployment** `cmd/server`, `config`, `nginx`, ... | none | wiring | | |

What makes each correct, in short: a **message** is stored once, where its author may write, is
acknowledged only when stored, reaches the live connections once and is delivered at reconnection;
a **conversation** is not taken from an agent who is there, and nothing live is purged; a **call**
ends for both sides, is noted once, rings nobody after its end (but in two windows, see VoiceHub) and has one agent in it; a **shared
query** is run once at a time and hands out nothing stale; the **slots** of the hall are
never given to more than the maximum, do not stay with the absent, and permissions nothing justifies end; a **hall
message** is broadcast once, acknowledged as it is shown and private if it was silenced; the **filter** hides what it
is told to hide, and its alert mails are sent once or given up;
**guessing** a password is bounded by the lock however many logins run at once, and nothing of an ended **session** is let in. The hazards with their lines are in `PROJECT.json`.

## 2. The modules

```
QueryFlight      VoiceHub            Conversations        SlotPool       TextFilter
HubRegistry         |  EXTENDS           |  EXTENDS          |  implements   |  EXTENDS
AgentSession     VoiceCall           MessagePipeline      HallMedia       HallChat
                    |  implements    the pipeline's steps
                 VoiceHub            between those of the
                                     HTTP handlers
<Module>Proofs: theorems of <Module>; those of VoiceHub are in VoiceCallProofs.
MC<Module>: instances for TLC.
```

Each module lists, after the type invariant, a few *faulty variants* of its actions: plausible bugs
(a dropped guard, a missing reset, a swapped order). They are not part of the specification; a
property is only kept if one of the variants violates it.

**QueryFlight** (`list_flight.go`). A request walks through `do`: `Join` or `Lead` under the mutex,
then for a leader `RunQuery`, `Release` (takes the flight out of the map), `Finish` (closes the
channel), for a follower `Share` or `GiveUp`. `version[k]` stands for the rows behind a key, which
`Write` changes at any time. A flight is named by its leader; `val` keeps the outcome until the
channel is closed, so a follower who read it too early would be seen.

**HubRegistry** (`hub.go` 162-327 and 852-900, `hub_features.go`, `hub_hall.go`, `client.go`, `upgrade.go`).
The process `Loop` is `Hub.Run`; the `Workers` are HTTP handlers and pool goroutines. A connection goes
`new`, `admitted` (checks passed), `queued` (in the channel `register`, pumps running), `listed`, `gone`; one
whose unregistration the loop takes first is `overtaken` and then a `ghost`. `closeAt` is the flag
`closed` together with who is inside `close()`: the first to close waits in `ReportClose` for room in
`unregister`, and a goroutine that waits there takes no other step (`Unblocked`). The maps are
`sync.Map`s, so each load and store is a step: `detachConv` is `ReadDetach`, `DeleteIndex`;
`SetConversationID` is `SetBinding`; `attachConv` is `ReadAttach`, `StoreIndex`. A goroutine's `task` holds what it is
in the middle of: a job over the connections it has found (rebind, attach, detach, fan-out, CloseAgent) or, for the loop,
the register or unregister it handles. HallSubscribe is three steps. Abstractions: a
frame is only a place in the high-priority queue (`high`); a Range takes its connections at once; the calls
replayed to an agent and the hello frame are one send; the Redis bridge and the
database calls of the sinks are left out. A visitor's binding is never empty because `VisitorWS` gives it one, and
RebindVisitor (`features.go:85`) passes no conversation, so it only sends the notice.

**VoiceHub** (`hub.go` 469-738). The four maps, the timers and their goroutines. The loop handles a
frame in one step where the code touches maps only the loop and one timer share, and in two where the
order matters: `HubEnd` looks at `finishedCalls`, `HubFinish` marks the call, empties the buffer and writes the note
(one step, as the registrations that read the buffer are handled by the same loop). A
watchdog runs beside the loop and is `armed`, `fired` (its goroutine exists, Stop is too late), `took` (has LoadAndDeleted the
accept), `passed` (found no mark), `marked` (685), `dropped` (689), `over`. Timers fire at any moment. An accept carries a serial, so
the model knows which of several accepts a watchdog took; the code's map key is only the call. A `voice_call` is stored
whenever it comes, also when its id is marked finished (497 looks at nothing); `late`, history, says which buffered calls came that way.
So `FinishedIsNotRung` allows two windows in which an agent who registers is rung for a finished call: between the watchdog's mark and
its next line, and after a repeated `voice_call`.

**VoiceCall** (`chat.js`, `voice_controller.dart`, `hub.go`, `client.go`). One state machine per
widget and per app. The await on the microphone is a step of its own, and several may be open at once (`asking` counts them):
`voiceStart` only looks at the state, which an end of some earlier call may have taken back to idle, and every continuation sends
`voice_call` with the id the widget has by then, if it has one; the app's accept button works until the state changes. So a call may reach the hub
twice, the second time after its end. A frame to the hub is
handled in the step that sends it, frames from the hub wait in a queue per client; an agent may lose
its connection (queue and all) and register again, whereupon the hub sends it the buffered calls.
`VisitorHangUp` also stands for what an earlier call leaves behind while a prompt is open, its 30-second timer and its
peer connection, which may end the present call at any moment. `WatchdogTells` sends both notices in one step, as the widget ignores its own.
SDP, ICE and audio are left out.

**Conversations** (`http.go`, `store.go`, `features_deletion.go`). Every SQL statement or transaction
is one step; between two of them a request keeps only what it has read (`claim`, `visit`, `closing`,
`reading`, `purging`). `AssignSelf` is seven steps, the mark of what an agent has read is two (asked for only where something is unread). `away` and `entitled` record what could be seen while a
claim was handled; no action reads them.

**MessagePipeline** (`hub.go` 329-411, `service.go`, `message_pipeline.go`, `store.go`) EXTENDS
Conversations: its steps interleave with those of all handlers. The hub handles one frame at a time
in the steps *resolve*, *resolve again* (392 reads the binding a second time), *owns*, *follow up*, *assign*; a task does *check, find, open, block check, insert,
ACK, push*. A statement may fail (`MaxFaults`), the process may crash (`Crash`: queue, tasks,
connections and requests vanish, rows and the clients' outboxes stay). Agents send a message again
under the same id and the same declared conversation as the console does; the widget sends once.

Abstractions of MessagePipeline to keep in mind: a client's queued frames are off the hub's queue
before its next connection registers; `RebindClient` is one step; a refusal of the limiter is one of the
nondeterministic errors; an agent account has one connection; the greeting sent when a visitor enters,
`typing` and `page` frames, push notifications and the reply statistics are left out; the order of
the follow-up candidates (by `updated_at`) is a free choice; nothing in a task panics, so its recover (`message_pipeline.go` 24-30), a log line,
has no step; a visitor's connection is always bound
because `VisitorWS` binds it, so the branch for an unbound one is not modelled.

**SlotPool** is what the hall promises of its slots: whoever is eligible takes a place while one is free, any set of members
may lose theirs, and a place does not stay with one who has left. **HallMedia** (`internal/hall/state.go`, `media.go`,
`moderation.go`, `reconcile.go`, `webhook.go`, `hall.go`, `internal/livekit`) implements it, once for microphones and once for cameras. Redis
is `lease` (per kind and participant: absent, expired, or ticks left), `banned`, `muted`; MySQL is `settings` and `blocked`, with `cached`
for what a node's cache may still say; LiveKit, external, is `tokens`, `inRoom`, `perm` and `pub`. Each Redis script is one
step, each call to LiveKit another, which may fail with or without effect (`Called`). A `task` is an HTTP request or a
background task with the step it is at: a join, a microphone or camera on (`Acquire`, `ReadDesired`, `CallUpdate`, `Undo`) or off, mute, kick,
mute-all, what follows a switch, a block, and the webhooks *joined*, *left*, *track*, *finished*. The slots of `Background` are `bgSlots`: with none
free a task is dropped (`Started`), and a webhook may also never arrive (`Hooked`). `round` is `ReconcileOnce` with what it has read of the
room: it puts out the banned, returns slots, renews the leases in use, takes back permissions beyond what
`DesiredSources` says, and makes at most `MaxCalls` calls. Left out: the limit of participants with the online set
behind it, the participants' records, the state view, and requests that a limit refuses, which are requests not
made. Redis and the database answer. An administrator may change `MaxSpeakers` and `MaxCameras`: `Slots` is the highest value they have, and
`Acquire` may refuse below it. So every promise holds while they change, but "never more than the maximum" is said of the highest one: the code
takes no slot back when the maximum is lowered.

**TextFilter** (`internal/textfilter`, `filter_config.go`) is operators only. A text is a sequence of runes, one for each kind of rune the code
tells apart; whole top level domains, schemes and hints are one rune. It has the views of a text, the automaton (`buildAutomaton`,
`scan`) as recursive functions on prefixes, the regular expressions as sets of spans, the mask, and the way of the settings
from submission (`ValidateFilterInput`) through the rows of `settings` (`filterKV`, `parseFilterSettings`) to the
compiled filter. `PlainSpans` and `PlainRuns` are the reference: every occurrence of every word,
and the longest stretches of digits, by search; links and the contacts that are not digits are found by the same operators on
both sides, so the comparison says nothing of those. `Enforced` is what they make of a text. `FilterIsExact` (in HallChat) compares filter and
reference over the settings and texts of the instance, and with the rows that are stored.

**HallChat** (`messages.go`, `filter_runtime.go`, `hub_hall.go`, `store/hall.go`, `store/hall_filter.go`, `hall_cleanup.go`) EXTENDS TextFilter. Several
nodes share the database; each has workers for frames (`task`: subscribe, chat, delete), a cache of the compiled filter and one alert worker.
`processChat` is *judge* (the block check), *filter*, *keep* (the cache), *insert* with the ACK, *record* (the outbox), *out* (the fan-out, which may
lose the other nodes). The outbox is `AlertTick` under a lock in Redis that lapses, `ListPending`, `SendMail`, `MarkSent`, `MarkRetry`. Any statement
may fail, the insertion also after it was made; a node may crash anywhere. `slips` counts the mails whose outcome was
lost. The notice that ends a subscription (a kick, a closed hall) is a broadcast: `Kick` and `Switch` leave the
subscriptions alone, and `Dismiss` ends one later or never. Left out: attachments and their files, mail settings and trial of the filter, the views and pages of the console.

**AgentSession** (`http.go` 282-463, 1167-1246 and 1446-1463, `ratelimit.go`, `jwt.go`, `middleware.go` 98-167). A request is a goroutine with
the step it is at (`pc`) and what it has read; every command or transaction of Redis and every statement is one step,
which may fail, and an applied one may be answered by an error. A login goes *window (source, name), lock (name, source), captcha, verify, row,
count, lockout* or *clear, issue*; a request with a token is checked (`AgentAuth`) before it is *handled*, or refreshes. `fails` and `locks` are
the keys `auth:fail:*` and `auth:lock:*`, of names and of sources; `tokens` all tokens that are good for a request or, a day longer, for a
refresh. `tries`, `owner` and `ended` are history: the wrong answers given per key since its count or lock lapsed or was cleared, the
account of each session, and the sessions that a logout or a disabling has ended. Abstractions: a rate window lets through
or refuses, as it may lapse between any two logins; a captcha's solution is right or not; an account's name stands for its id, as rows are never
deleted; its role is fixed by the insertion. The connections of a revoked account are HubRegistry's.

## 3. What is checked

TLC, two workers; the counts are distinct states.

| Run | Instance | Shows |
|---|---|---|
| `MCQueryFlight` | 3 requests, 2 keys, 1 write per key | one query per key; a follower gets the leader's outcome; nothing older than its query; every request returns |
| `MCVoiceHub` | 1 call, 2 agents, 3 accepts (696 817) | a pending accept is always watched and is settled exactly once; the loop notes a call once; a finished call stays in the buffer only in the two windows |
| `MCVoiceCall` | 1 visitor, 2 agents, up to 3 calls, 2 accepts of each, 1 lost connection, 3 of these events in all, queues of 1 and one frame more where nothing waits (1.19 million) | at most one agent on the line; the three programs implement VoiceHub |
| `MCHubRegistry` | 2 tabs of one visitor, loop and 1 worker, channels of 2, send queue of 1, fan-out and hall, under fairness (237 180) | the newest tab stays listed; what has departed is forgotten; with room for every report the hub does not wait for itself; every close is handled |
| `MCHubRegistryBinding` | 1 connection of an agent, loop and 2 workers, 2 conversations, rebind, attach, detach, revoke (1.31 million) | however rebinds interleave, the index has the connection or is about to |
| `MCConversations` | 1 visitor, an agent, and an administrator who is lost once, 2 conversations, 3 desk operations (3.05 million) | the purge spares what was restored; no takeover from an agent who was there all the time |
| `MCMessagePipeline` | an agent's message sent twice, 2 tasks, 1 failing statement, 1 claim, 1 visit, 1 desk operation (1.26 million) | an ACK means stored; a row is pushed once; a row is where the author may write |
| `MCMessagePipelineVisitor` | two visitor's messages, 1 task, 2 blocks, 1 crash, 2 desk operations (350 100) | every frame is answered once or lost in the crash; a blocked visitor is silent |
| `MCHallMedia` | 2 visitors, one of them speaking, 1 slot, 2 requests and 1 background task at a time, 1 call per round, 2 events (318 820) | the slots are pools, never overdrawn and not kept for the absent; stray permissions end; the banned and those in a closed hall are put out |
| `MCHallChat` | 1 visitor with connections on 2 nodes, 1 agent, 1 message id, 1 frame worker per node, 2 attempts, 3 events (320 164); 112 settings, 99 texts | one broadcast; the ACK tells what is shown; the silenced stay private; one mail, or one more for each lost outcome; each record is settled; the filter is what plain search says |
| `MCAgentSession` | 2 requests at a time, an administrator and an account made later, 1 source, 1 session, a lock after 2 failures, versions up to 2 (1.69 million) | wrong answers before a lock are fewer than the limit plus the requests; nothing of an ended session is let in |

*Why the bounds are enough.* The interesting cases need few actors: a leader, a follower and a
late-comer; two accepts and the watchdog of each (three, so that an old timer meets a replaced
entry); two agents who claim, and a third from whom they claim; two copies of one message in two
tasks; an old tab and a new one; three goroutines that rebind one connection; two requests for one
slot. HubRegistry's faults need one or
two connections because its maps treat different accounts independently. An app that accepts a call it has just left broadcasts two frames, hence the
one frame beyond MCVoiceCall's queues. In VoiceCall the *events* are the calls, the presses on accept and the lost connections, and each counts towards `MaxEvents`;
three ids let a widget start again and again with the prompts of earlier calls open. One call with two accepts and a lost connection is
four events; that instance (one id, `MaxEvents` 4) holds as well and was run by hand. In HallMedia an *event* is a request, a visit, a change at the desk or a failing
call: two of them with the reconciliation and the tick, which cost none, are a grant overtaken by a ban or a release that fails; the slots at the
start let one event do the work of two. In HallChat one id is enough because rows of different ids never meet outside the
mail's batch; with two workers per node (650 033 states) and with two ids in one batch (1.62 million) the properties hold as well, only more slowly. Every bound is a constant in a guard (`MaxAccepts`, `MaxClaims`, `MaxDesk`, `MaxDrops`, `MaxSends`,
`MaxFaults`, `MaxCrashes`, `MaxEvents`, ...; in HubRegistry the channel capacities, and `Jobs`, which
kinds of work an instance has). The proofs below hold for all of them. The types of every module are theorems; runs check
them too, those of VoiceHub and Conversations as conjuncts of the types of the modules that extend them, except QueryFlight's. Where `CHECK_DEADLOCK FALSE` stands in a
configuration, the instance stops once its budget is used up and no client asks for anything;
MCHubRegistry is checked for deadlock.

*Fairness.* QueryFlight: a query ends (it runs under a 20-second timeout and a recover), a leader
goes on and a follower whose channel is closed wakes up; nobody has to give up. VoiceHub: the runtime fires timers
and runs their goroutines, the loop finishes the frame it is at; no client has to send anything.
VoiceCall's `FairSpec` (used by MCVoiceCallReleased): the same, and frames in a queue are delivered, apps reconnect; nobody has to
press a button or answer the microphone prompt. HubRegistry's `FairSpec`: a goroutine inside `close()` gets the
room the channel has, the loop finishes the handler it is in, and `select` does not
pass over `unregister` for ever when it is ready again and again (Go chooses at random among the ready channels, hence strong
fairness of `TakeUnregister`). HallMedia: a request or task goes on to its next call, each of which has a timeout; the job runs every
30 s and finishes its round; time passes; nobody has to come, leave or ask. HallChat: the alert job runs every 15 s, backoff and lock
lapse; no worker has to go on, no node has to stay up. Conversations and MessagePipeline are
checked for safety only: requests and tasks may always be cut off by their timeouts.

*Refinement.* `HubIsVoiceHub` of VoiceCall and `SlotsArePools` of HallMedia state an abstract specification of the
detailed one's variables. VoiceHub's variables are those of VoiceCall; for the pools (`MicPool`, `CamPool`, two INSTANCEs of SlotPool) *held* is
whoever is in the sorted set of Redis, its expired members included, and *present* whoever is in LiveKit's room. So it is a step
of the pool, and not of the implementation, that says a slot is taken only while fewer than the maximum are.

## 4. Where the code and its comments differ

The listed run that ends in the violation its finding describes:

| Run | Property | What the code does |
|---|---|---|
| `MCHubRegistryStuck` | `LoopNeverStuck` | **A bug.** `client.go:115` closes a slow client so as not to block the hub; when the hub's own loop does so and `unregister` is full (256 reports), it waits for itself for ever |

Reproduced with configurations kept here and run by hand (`tlc -config X.cfg <module>`):

| Configuration | Property | The comment, and what happens |
|---|---|---|
| `MCMessagePipelineReplay` | `ReplayDelivers` | **A bug.** `ListUndeliveredAgentMessages` selects twelve columns and scans eleven (`store.go` 755-766); the replay at reconnection never sends a message |
| `MCMessagePipelineDeclared` | `DeclaredVisitorGetsIt` | `hub.go:383` a message goes to the declared conversation: between the check (388) and the second read (392) the agent's own claim rebinds the connection, and another visitor gets it |
| `MCConversationsClaim` | `OneClaimSucceeds` | `http.go:649` of concurrent claims one succeeds: two claims of an unassigned conversation both do, `AssignAgent` has no condition on the agent |
| `MCVoiceCallReleased` | `AcceptedVisitorIsReleased` | `hub.go:55` both windows close within five seconds: the widget has no case for `voice_finished`, and an accepted visitor may wait for ever |
| `MCHubRegistryGhost` | `OnlineIsConnected` | `hub_features.go:149` an agent is online when it has a live connection: an unregistration handled before the registration leaves a dead one listed for ever |
| `MCHubRegistryTabs` | `ConnectedIsOnline` | `hub_features.go:41` a visitor is online on this node: not when its newest tab closes while an older one stays |
| `MCHubRegistryRevoked` | `RevokedIsClosed` | `hub.go:318` CloseAgent closes all of an account's connections, revocation takes effect at once: not the one that is in `register` or past AgentWS's check |
| `MCQueryFlight` with this property instead | `NoStaleRows` | `list_flight.go:13` "no caching, hence no stale data": a joined query may have begun before the request |
| `MCVoiceHubNote` | `OneNotePerCall` | `hub.go:663` after the watchdog a late `voice_end` writes no second message: loop and watchdog both look before either marks, and there are two |
| `MCVoiceHubNote`, with this property instead | `NoGhostRing` | `hub.go:37` accept, reject and end take a call out of the buffer that is replayed to agents: a watchdog marks a call finished (685) before it drops it (689), and a `voice_call` that comes again stores it (497); an accept takes nothing out (490) |
| `MCVoiceHubNote`, with this property instead | `AcceptProlongsBuffer` | `hub.go:490` an accept prolongs the buffer to 30 minutes: the 30-second timer deletes it all the same |
| `MCVoiceCallEnds` | `OnlyItsOwnEndEndsACall` | `hub.go:480` either side's `voice_end` ends the call: the app does not compare call ids |
| `MCVoiceCallLive` | `LiveCallIsNotUnanswered` | `hub.go:663` a late answer is caught: it is always forwarded, and a live call is noted as unanswered |
| `MCVoiceCallLive`, with this property instead | `MicFailureEndsTheCall` | `voice_controller.dart:197` the backend ends the call on `voice_accept_failed`: the hub does not know that frame |
| `MCConversationsUnread` | `UnreadIsNotBuried` | `store.go:255` a conversation with unread messages is never closed: a message between read and close is |
| `MCConversationsRenewal` | `RenewalKeepsTheAgent` | `store.go:267` the new conversation inherits the agent: the one read earlier, not the one who took over since |
| `MCConversationsOpen` | `OneOpenConversation` | `store.go:221` find or create *one* open conversation: two requests create two |
| `MCMessagePipelineBlocked` | `BlockedIsSilent` | `message_pipeline.go:131` a blocked visitor is not pushed: it is when the block check fails |
| `MCMessagePipelineConflict` | `RetryIsAcked` | `message_pipeline.go:103` a retry gets the same ACK: after a renewal it gets "identifier conflict" |
| `MCMessagePipelineOrphan` | `NoOrphanRow` | `service.go:101` no orphan messages: a purge between check and insertion leaves one |
| `MCHallMediaAgent` | `AgentMicReturns` | `reconcile.go:256` when voice is on again agents have their microphones without entering again: the task that takes them may run after the one that gives them back, or find no slot for background tasks, and the reconciliation only takes back |
| `MCHallChat` with `SavedTakesEffect`, one node, two connections, two frame workers | `SavedTakesEffect` | `filter_runtime.go:84` saved settings take effect at once: a worker that read the old ones stores them in the cache after the save has emptied it, for the cache's lifetime |
| `MCHallChat` with `BannedHearNothing` | `BannedHearNothing` | one who is kicked gets into the hall's audience no more (what the notice on its way will end set aside): a subscription asked for before the kick is entered after it, also after that notice |
| `MCHallChat` with `DeletedLeavesScreens` | `DeletedLeavesScreens` | a deleted message leaves the screens: the deletion of a message is announced before its broadcast, which is still on its way |

The last three are MCHallChat.cfg with `Inputs = {}` and only the property named (for the first, also `Nodes = {n1}`, `Conns = {c1, c2}`,
`Home <- OneNode`, `FrameSlots = 2`). Two larger instances hold: `OwnershipIsNotSeized` with three agents, none
an administrator, three claims, two drops and one conversation; and the types, `SlotsArePools` and `UnusedSlotEnds` of HallMedia for cameras, which agents take as well, with one
visitor and one agent.

## 5. What is proved

All proofs are checked by TLAPS from nothing but the named assumptions on the constants
(`FlightAssumption`, `RegistryAssumption`, `SessionAssumption`, `VoiceHubAssumption`, `VoiceCallAssumption`, `ConversationsAssumption`,
`PipelineAssumption`, `HallMediaAssumption`, `HallChatAssumption`), which say that the null values are no members of the sets they stand beside,
that bounds are naturals, that requests are finitely many, that names and sources are different keys, that visitors are not agents, that task slots and nodes are finitely many, and that the hall begins with no more holders than slots.

* **QueryFlightProofs**: `FlightInv` adds to the types that the map holds exactly the running
  flights, that leaders lead themselves, that a closed flight is finished and that answers come from
  closed flights. It gives `OneQueryPerKey`, `SharedOutcomeIsTheLeaders`, `NoOlderThanTheFlight`
  and the step property `NoJoinAfterRelease` (nothing is cached), which no run has to repeat. Without "answers come from closed flights" the outcome of a
  follower would say nothing of its leader.
* **HubRegistryProofs**: `RegistryInv` adds to the invariants that a connection reports its close once and departs
  after its report, with each channel holding a connection at most once (`Channels`); that tasks only deal with connections whose
  pumps run, and that only the loop's unregister touches one that has departed (`TasksFit`); that the
  maps hold a connection under its own account (`MapsFit`); and `BoundIsIndexed` also for agents' connections
  still in the channel (`BindingsIndexed`), without which it would not survive the registration of one that was bound
  before. It gives `LiveIsListed`, `BoundIsIndexed`, `GoneIsForgotten`. `RoomyHubNeverStuck` proves
  `LoopNeverStuck` when there are at most as many connections as places in `unregister`: the queue is an injection
  into the connections other than the one being closed. MCHubRegistryStuck shows that the condition is needed.
* **VoiceCallProofs**, the hub: `HubInv` adds that serials name accepts that were made, that a call was seen
  before it was ended, that a timer which is not over belongs to an accept that was made, that a watchdog past its first look, having marked or dropped
  the call included, holds the accept it took, and that a call
  without a mark has no note of the loop. `FinishedIsNotRung` holds in every state with its two windows written out, not with the loop
  and the watchdog merged: a mark by the loop empties the buffer in the same frame, one by a watchdog opens the window until that watchdog drops the call,
  and a `voice_call` for a marked id is in `late`. It gives `EntryIsWatched`, `AcceptSettledOnce`,
  `LoopWritesOneNote`, `FinishedIsNotRung`.
* **VoiceCallProofs**, the call: `CallImplementsHub`, every step of widgets, apps and queues is a step of VoiceHub or
  leaves the hub's variables alone (the refinement mapping is the identity on them), from `HubInv`
  and the types of the clients, with any number of prompts open, calls sent twice and after their end; `CallEntryIsWatched` and `CallKeepsHubPromises` carry the hub's theorems over to the system of
  widgets, apps, queues and lost connections.
  `OneAgentTalks` rests on `LineInv`: an agent is involved in a call when its offer waits in the agent's queue or the agent talks in it; at
  most one is, and the visitor's widget no longer rings for it. The queues make it necessary: an agent whose offer is still on
  its way does not talk yet, but already counts.
* **AgentSessionProofs**: `SessionIInv` has three parts. The shape: a request has the names and the session its step uses. `GateInv`, for
  `TriesAreBounded`: the bound is on the wrong answers given, but what stays bounded is these and the requests that may still give
  one, being past the key's lock check (`Past`); while a key is not locked its wrong answers are no more than its count and
  below the limit. So a request may pass a check only where there is room for all of them (`RoomForAll`), and one that
  answers leaves the set (`RoomMoved`). `SessionInv`, for the step property `SessionIsCurrent`: whatever carries a session, a token
  or a request, carries a version the account has had (`Carried`), and an older one than it has now if the session has ended; every way the
  row changes keeps that (`VersionMoves`, `AccountBegins`, `SessionBegins`).
* **ConversationsProofs**: `ConvInv` says what a request still knows of the rows it has read: a claim
  at its update has been given its ground by a state since it came in, and the visits' conversations
  belong to their visitor. It gives `OwnershipIsNotSeized` and `PurgeSparesRestored`.
* **MessagePipelineProofs**: `PipelineInv` is `ConvInv`, the types, and that the hub's frame, the
  tasks and the rows are founded (the author was entitled to the conversation at some moment), that
  the insertion a task is about to push is fresh and no other task's. It gives `AckedIsStored`,
  `PushedOncePerRow` and `RowIsEntitled`.
  `FramesAreAccounted` rests on `FramesAddUp`, which is the same count by place; each kind of step is shown to be `Balanced`, to put in one place
  what it takes out of another (`QueueGrows`, `QueueShrinks`, `TaskChanges`).
  For blocked visitors, `SilenceInv`: the author of a silent message is blocked at this moment, and while nothing has failed, every
  task with such a message that is past the block check is muted and on no way to the fan-out, whichever of two copies it has. It gives
  `PipelineBlockedUntilFault`, for any number of faults: no push before the first. `BlockedIsSilent` follows where there is none, which is
  what its run checks; MCMessagePipelineBlocked shows what one failing check does.
* **HallMediaProofs**: `HallInv` adds to the types that a task about to take a slot names one who may have a slot of that kind (`Taskable`),
  and that the holders of each kind may be holders and are not too many (`SlotsFit`), which is what the script of `Acquire` checks and no other
  step disturbs. It gives `HallTypeCorrect` and `HallImplementsPools`: every step of requests, webhooks, tasks and reconciliation is a
  step of each pool or leaves it alone. Because a lease may lapse while another takes a slot, `Take` counts out those that lapsed.
  `HallNeverOverfull` states the part that needs no pool: holders may hold, and are never too many.
* **HallChatProofs**: `ChatInv` adds to the types that a task has what its kind needs, and that one that has stored its message is the
  only one about to send it, knows whether it is silenced, and has not sent it (`SendersAreSole`); that what is on a
  screen has a row (`ScreensHaveRows`). Without the first, two copies of a message might both be on their way; without the
  second, an id on a screen might get its row, a silenced one, later. It gives `BroadcastOnce`,
  `AckTellsWhatIsShown` and `SilencedStaysPrivate`, whatever the filter makes of a text.
  `FilterInv` says that what an agent writes never gets a filter, and that a row holds what the filter under some saved settings, or none, makes of the
  words of its id; that caches and workers hold no other settings is in the types. It gives `ChatRowsAreFiltered`. `FilterIsExact` says two things: that the filter
  makes of a text what plain search does (`Differences = {}`), and that no way of the settings through saves, caches and failures stores anything else. The first is an
  induction over texts and word lists, and TLC evaluates it; `ChatFilterIsExact` proves the second from it. Its other two
  conditions, that settings and words are among those compared, hold in MCHallChat.
  `MailedOnce` rests on `MailInv`: the mails of a record and the workers that carry it to one are at most one more than the outcomes lost, and while the
  record waits, a mail made is one lost or one about to be marked, with room for one more listing only while the lock is held.

Only model-checked: liveness (`EveryRequestReturns`, `AcceptIsSettled`, `ClosedIsHandled`, `StrayGrantEnds`, `UnwelcomeLeaves`, `MailSettles`,
`PlaceReturns` of the pools) and everything with ENABLED, which is out of this prover's reach; and, of `FilterIsExact`, that the
filter and plain search agree on every text, which is an induction over data. `LoopNeverStuck` and `BlockedIsSilent` are theorems under the
condition that makes them true, enough room in `unregister` and no failing statement; without it the configurations of section 4 show them violated.

## 6. What is left

In this order:

1. **Maintenance**: the job lock of two instances, automatic cleaning against
   new messages; **ReadCursor**: `UpdateLastRead` under `FOR UPDATE`, monotone; the store of captchas in AgentSession.
2. The limit of participants in HallMedia, which concurrent joins exceed; attachments in HallChat, whose files the clean-up removes.
3. **ConsoleState**: the merging of pages, live frames and retries in `messageState.js`.
4. **HubBridge**: two nodes, each a HubRegistry, with the Redis channel between them: what is published while a node
   is away is lost.
5. Proofs: safety of the two-node hub, as soon as it is modelled.

*Not modelled.* Configuration, mail and push clients, SQL lists and export, text helpers, views, styles, nginx: no
behaviour of their own beyond one call. Signing and decoding of tokens and webhooks, and the tables of runes and words, are data.
The hall's window in the widget and the console only shows what the hall sends. MySQL is taken to give each statement or transaction
atomically and in some order, Redis each command or script; WebSocket connections deliver in order until they break; LiveKit does what the calls in
`internal/livekit` ask or fails, and reports participants and tracks by webhooks that may be lost.
