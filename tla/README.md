# Verification of kim

kim is an instant-messaging system in Rust: gateways that hold the clients'
connections, a chat service over Postgres and Redis, an account service (royal),
a region router, a client stack (`kim-client`, `kim-sdk`) that keeps a SQLite store
on the device, and a desktop agent (`kim-agent-host`) that answers for bots.

This directory holds TLA+ models of the parts where things that happen at the
same time, out of order or only half can lose, double or misdirect something; the
TLC runs that check them on small instances; and TLAPS proofs of the most
important safety properties for instances of every size. `PROJECT.json` names,
for each definition, the source lines it stands for, and lists the hazards of the
code with the property that covers each.

Running: `tlc -config Outbox.cfg MCOutbox`, `tlapm OutboxProofs.tla`.

1. [The system](#the-system)
2. [Modules](#modules)
3. [Runs](#runs)
4. [Fairness](#fairness)
5. [Proofs](#proofs)
6. [Where the code and its documents disagree](#where-the-code-and-its-documents-disagree)
7. [Not modelled](#not-modelled)
8. [Plan](#plan)

## The system

| component | state | operations | talks to |
|---|---|---|---|
| message store, Postgres and in memory, `services/chat/src/store/` | messages, idempotency rows, one receipt per device, inbox rows, read cursors, advisory locks | insert with fan-out, ack, offline index, backfill, expiry, inbox, read marks, bot replies, purge | chat handlers |
| talk and login handlers, `services/chat/src/{talk,login}.rs` | none of their own | persist, answer, push; publish location, backfill, take it back on failure | store, session locations |
| session locations and their cache, `crates/kim-session` | Redis hashes; per process `locs`, `neg`, `sessions`, `channels`, `fill_epoch` | add, delete, get, get_location(s), publish and apply invalidations | chat processes, gateway |
| container, `crates/kim-container` | slot map, dialing set, wanted set, timers | watch, snapshot, redial, promote, prune, start, shutdown | naming, other services |
| gateway, `services/gateway` | channels, token state of each, grace counters | accept, heartbeat, forward sign-in and sign-out, kick, drain | clients, chat, royal |
| presence, `services/chat/src/{presence,interest,room}.rs` | interest and viewing indexes, generations of debounced tasks | enter, leave, location added or removed, announce | session locations, viewers |
| accounts and tokens, `services/royal` | users, revocations, cached epochs, devices | register, login, logout, change password, bind device | gateway, chat |
| internal calls, `kim-protocol/src/internal_hmac.rs`, `kim-client/src/auth.rs` | nonces; cached sealing key | sign, verify, claim; fetch key, seal, retry | royal |
| friends and groups, `services/chat/src` and royal's directories | requests, friendships, blocks, groups; breaker per royal instance; cached answers | every social and group command | royal through a pool |
| bots and agent profiles, `services/chat/src/{bot,agent_spec}.rs` | bot rows, turns, records with timestamps | create, update, delete, reply, pending; sync and upsert | stores, SDK |
| client link, `crates/kim-client/src/{supervisor,pump,client}.rs`, `link/` | loop task, stop flag, socket, death watch, event queue, pending requests, token | ensure_running, stop, hints, connect, login, serve, reconnect, requests | gateway; SDK through events |
| SDK session and outbox, `crates/kim-sdk/src/{lib,session}.rs`, `outbox/` | epoch, session, protocol client, outbox rows, statuses, a worker per session | start, stop, switch, enqueue, retry, cancel, delete, wake | link, app |
| read state, `kim-sdk/src/read_sync.rs`, `chat/src/inbox.rs` | cursors and counters on server and devices | mark read, sync up, apply remote | link, store |
| timelines, contacts, change feed, `kim-sdk` | subscriptions, one-slot change log, write worker | subscribe, hydrate, load older, publish | store, app |
| desktop agent, `crates/kim-agent-host`, `kim-sdk/src/agent`, `kim-desktop-runtime` | queue and worker per bot, host of a turn, budgets | admit, drive, approve, complete tools, recover | SDK, providers, user |
| region router, `services/router` | configuration | lookup | clients, naming |

What is hard in it: a login racing the fan-out of a talk; retries of a talk whose
first transaction is still open; locks on several inboxes; cache fills that span
an await while invalidations are late or lost; `stop()` from another thread while
the loop connects; kickouts seen three ways; an outbox worker that outlives its
session; crashes between the server's answer and the local commit; read marks
that cross; answers and pushes that share one connection and one numbering;
attempts that run on after their caller gave up; two devices with different
clocks; one notice slot for several writers; a model that asks for several tools
while one of them waits for the user. `PROJECT.json` lists each under `hazards`.

## Modules

In each module a step is what the code does between two awaits, transactions or
lock operations, so that the interleavings TLC explores are those of the tasks
and processes. A comment above each definition names the function it stands for;
an operator marked *Mutant* stands beside the definition it may replace and is
used by no specification. `PROJECT.json` lists, under "map", the source lines of
the actions and definitions that stand for code of their own; a definition
whose lines lie (but for a handful) inside those of a listed definition has no
entry and is placed by its comment.

| module | part of kim | module | part of kim |
|---|---|---|---|
| `PendingDelivery` | Postgres store with pending receipts, talk, login, sync | `SocialStore`, `RoyalPool`, `Directory` | friends and groups: store, pool, handlers with cache |
| `SessionCache` | session location cache | `RoyalApi` | the HTTP calls to royal, both sides |
| `Container` | connections between services | `MemoryStore`, `Bots` | in-memory store; bots on both stores |
| `ClientLink` | supervisor, run loop, one connection | `MessageStore` | what a message store promises (abstract) |
| `Outbox` | session switch and outbox | `AgentSpecs` | agent profiles synchronised by timestamps |
| `ReadState` | read marks on server and devices | `AgentProfile`, `AgentHost`, `AgentTurns` | profile, host of a turn, queue and drive loop |
| `ReadMarks` | what read marks promise (abstract) | `Catalog` | reasoning controls and windows of models |
| `CommandTable`, `Requests` | command tables of both sides; requests of a client | `LocalStore`, `SdkViews` | SQLite tables and change log; views |
| `Sessions` | gateway, sign-in, sign-out, kick, revocation | `Lookup` | region router |
| `Presence` | who is shown online | `RoyalCalls` | signed calls, sealed passwords |
| `Accounts` | accounts, tokens, devices at royal | `*Proofs`, `MC*` | theorems; instances for TLC |

**PendingDelivery.** A talk is `Talk` → `BeginInsert` (`now()` fixed, an id drawn) →
`LockInboxAccount` for each account in sorted order → `ReadIdempotency` →
`ResolveTargets` for each recipient, under the lock → `CommitMessage`,
`CommitDuplicate` or `AbortInsert` → `PushTalk`. A login is `LoginAdd` → `BeginBackfill` →
`LockBackfill` → `CommitBackfill`, or `FailLogin` at any point. A sync is `SyncPull` →
`SyncPersist` or its failure → `SyncAck`. Accounts are integers whose order is that
of their names; a lock's key is `LockKey[a]`, so that collisions of `hashtext` can be
expressed (the runs use distinct keys).

The tables implement **MessageStore**, what the trait promises its callers: a message,
the claim on its client id and its first receipts appear in one step, a client id
keeps its message, an acknowledged receipt is never pending again.

**SessionCache.** `get_locations` is `BeginFill` (stamp taken) → `QueryMisses` or `ListOne`
→ `InstallLocs` / `SkipMiss` → `EndFill`; `get` is `BeginGet` → `QuerySession` →
`InstallSession`. A writer changes Redis, publishes (heard, unheard or failing) and
updates the cache. The subscriber drops, flushes, fails to and does resubscribe.

**Container.** Snapshots, the redial loop, readers and timers share the slot map;
start and shutdown are split where they may run into each other.

**ClientLink.** `ensure_running` and `stop` are split at their lock operations; the loop
is its `select!` branches. A sleep may end at any time: delays are left out. The event
queue can be full: `try_send` then drops the event, a Kickout too, and `kicked` records
whether the loop was told, the event was dropped, or the reader ended after that.

**Outbox.** `bump_epoch` is two steps, as in the code: the old token is cancelled,
then the epoch moves on. `run_once` is split at its awaits. `Crash` keeps database
and server. The store's check of the epoch and its commit are one step (one
writer task). A page or a push that names a message id the device already has merges
into that row, whatever its outbox row says. `asked` (what the worker was told to send)
and `numbered` (what has a server id) are history variables.

**ReadState** has the server's cursor and materialised counter, each device's
watermark, badge, visibility and read worker, and what travels between them. It is
shown to implement **ReadMarks**: marks only move up, and never past what the user
opened. Messages are numbered in one order and stamped in another (`SendTime`): the
handler takes the time before the store draws the id.

**CommandTable** holds, for each command, what the client's methods encode and
accept and what the router's handlers read and answer, each from its own source.
**Requests** runs callers over them: numbering, oneshots, answers in any order,
pushes that copy the number of somebody else's request, lost answers, reconnects.

**Sessions** follows one account's channels through gateway, chat lanes and
location table. Kickouts and packets travel on the connection between a chat instance
and the gateway and are lost with it; a change of the password is stored whether or
not the cached epoch follows. **Presence** has two chat instances that announce one
account; every call to the session store and every push may fail.
**Accounts** has the three places that say whether a token counts, on both backends.
**RoyalCalls** counts time in half seconds, because both sides round to seconds.

**SocialStore** runs memory operations atomically and Postgres transactions statement
by statement; **RoyalPool** adds breaker, choice of an instance and attempts that may
run on after a timeout; **Directory** adds the handlers and their answer cache. A talk
carries a client id or an empty one, which the store does not look up.
**Bots** uses **MemoryStore** (each store operation as a function of the tables) and
implements **MessageStore**, over both backends.

**AgentProfile** says what a stored profile becomes; **AgentHost** is one prompt on the
goose machine or a Codex thread as a function from host to hosts; **AgentTurns** is the
queue, worker, heartbeat and drive loop around it, for the desktop's runtime and for
another `AgentRuntime` that answers `Again`, whose turn the worker queues once more.

**LocalStore** is one conversation in SQLite and the one-slot change log, as functions
of the tables; **SdkViews** runs commands, the write worker, the publisher, hydrate and
load_older over them. A read of SQLite, a write and a request may each fail.

**RoyalApi**, **Catalog** and **Lookup** are pure: tables and functions, each checked
against a statement of what they have to satisfy over bounded inputs, which TLC
evaluates as an assumption of a run (`RoyalAgrees` in `directory`, `CatalogSound` in
`agent`, `LookupSound` in `cache`, and `TablesAgree` of Requests in `read_state`).

## Runs

Every run passes. Components that share nothing are checked in one run: a variable
`part`, or a scene chosen by `Init`, says which of them a behaviour is about, and the
others rest.

| run | module, instance | properties |
|---|---|---|
| `pending` | PendingDelivery: 2 devices logging in against 2 talks of one client id; 1 device paging (pages of 1) while receipts run out (TTL 1 of 3 ticks) | `NoMissedReceipt`, `SyncDrained`, `ImplementsMessageStore` |
| `pending_live` | PendingDelivery: 3 accounts, a client id used for two destinations, a talk back | `LockOrder`, `OneMessagePerClientId`, `HandlersFinish` |
| `cache` | SessionCache: 1 account with local and remote writers, 2 fills, a get; 2 accounts in one lookup. Container: 2 instances, one failing. Lookup as an assumption | `CacheFresh`, `LookupsAgree`, `NoOrphanConn`, `StoppedMeansGone` |
| `link` | ClientLink: 1 request, 1 push, a queue of 1 | `KickedStaysOff`, `StoppedStaysDown`, `StopTakesEffect`, `SilenceIsNoticed` |
| `outbox` | Outbox: one message while 2 accounts switch; an image and a bot reply in one session | `OwnAccountOnly`, `SentIsAccepted`, `TimelineAgrees`, `NoLostWakeup` |
| `read_state` | ReadState: 2 devices, 2 messages sent in the reverse of the order of their ids. Requests: one caller of any method, one reader of histories, one push or loss | `InboxAgrees`, `BadgeCleared`, `ImplementsReadMarks`, `TrueAnswer`, `AnsweredReturns` |
| `sessions` | Sessions: 2 mobile channels, 2 chat instances, an administrator at one, a grace of 2 | `SessionsExplained`, `StaleIsClosed` |
| `presence` | Presence: 3 channels, 1 viewer, 2 chat instances. Accounts: 2 handlers, 4 scenes. RoyalCalls: 1 signed call, 2 sealing callers, 3 keys | `OfflineShown`, `TokensEnd`, `ExecutedOnce`, `KeyErrorExplained` |
| `directory` | Directory: 2 people, 2 groups, 2 handlers, 1 instance, 1 fault, 2 commands, talks with a client id and without. RoyalApi as an assumption | `RelationsSound`, `LookupsSound` |
| `bots` | Bots: 1 owner, 2 profiles, 2 handlers, both stores. AgentSpecs: 2 devices, clocks apart, both backends | `BotsSound`, `ImplementsMessageStore`, `SpecsSynced`, `NewerWins` |
| `agent` | AgentTurns: 1 bot, 2 questions and one without an id, a memory of 1, 6 profiles of both runtimes. Catalog as an assumption | `ToolsControlled`, `QuestionsOnce`, `TurnEnds` |
| `sdk_views` | SdkViews: 2 accounts, pages of 2, 4 rows kept, 13 scenes, one failing read or write in some | `TimelineSound`, `LoadEnds` |

What they show, beyond the names:

* `KickedStaysOff`: a kicked client makes no other connection, told by the queue, the
  death watch or a failing sync, and with the event dropped by a full queue too, as
  long as the reader goes on. `StoppedMeansGone`: the registration is gone unless the
  call that takes it back failed.
* `TimelineAgrees`: outbox row and timeline tell the same story but in one case: a
  message sent, enqueued again under its client id and then brought back by a page is
  sent on the timeline while its row waits. The server has it.
* `InboxAgrees`: the two ways to list the inbox agree on counter, cursor and tip. Each names
  a last message, the index the one of the greatest id, the row the newest by
  (send time, id); that the row keeps that one in any order of commits is the property.
* `SessionsExplained`: a location without a channel has a lost or misrouted sign-out
  behind it, and an open channel without a location is about to be kicked, or its
  kickout was lost with the connection that carried it (`unkicked`). `StaleIsClosed`: a
  revoked or outdated token ends its connection, once the cache the gateway reads
  knows. `OfflineShown`: an account that signed out is shown offline, unless the store or
  the push failed in the very steps that announce it; nobody tries again. `TokensEnd`: changed passwords and logouts end tokens at royal and at the
  gateway, and the device of a token is known.
* `RelationsSound`: friends both wanted it, blocked people are not friends, members were
  invited by members, a talk with a client id is inserted once, whatever late attempt
  still runs (one without is inserted as often as it arrives, as the test
  `empty_client_id_inserts_and_pushes_twice` has it).
  `LookupsSound`: the answers of the social cache are current or their staleness is
  explained by a fetch that was under way, one task fetches a key, and an open breaker
  is probed by one request.
* `BotsSound`: one reply to a question (`OneReply`), one bot to a profile
  (`OneBotPerProfile`), no friendship with a deleted bot (`NoGhostFriend`), every question
  is handed out or answered (`AskedOrAnswered`), and the derived tables of the store
  agree (`StoreViewsAgree`). `SpecsSynced`, `NewerWins`: after a sync nothing disturbed device
  and server agree, and the newer record wins but for the two windows the code leaves.
* `ToolsControlled`: no tool runs unapproved (but at the turn limit, see below), none is
  forgotten, each is answered once before the provider is asked again, and a turn
  spends at most one hard budget. `QuestionsOnce`: a question that has an id is
  admitted once within the memory of the queue (`RECENT_TURN_CAP` admissions of a
  session), an admitted turn runs twice at most (`should_requeue`), and no heartbeat
  follows its end.
* `InterestEndsWithChannel` (Presence: the two interest indexes agree) is part of no run; it
  holds on the instance of `presence`. `YoungHasTimer` (Container: a young slot has its
  promotion to come) is part of no run either, and is proved.
* `TimelineSound`: with no notice pending the screen shows what the store holds, or what
  the code shows after a failed read: the old rows of a timeline with its flags, an
  empty list of threads, the contacts of before. A stream held over a switch is blank,
  hydrate leaves no gap, a message has one row. `LoadEnds`: the spinner stops if no
  history request stays out for ever (`write_wait` has no timeout, so that one may).

**Bounds.** `MaxMsgs`, `MaxTime`, `MaxEpoch`, `MaxBus`, `MaxPush`, `MaxId`, `MaxInFlight`, `MaxCalls`,
`MaxFaults`, `MaxMoves`, `MaxTokens`, `MaxClock`, `MaxKeys`, `MaxRequests`, `MaxOps`, `MaxIds`, `MaxBots`,
`MaxNow`, `MaxServer`, `MAX_CALLS`, `MAX_FAULTS`, `MAX_EPOCH` and the budgets of the scenes cut off
counters that grow for ever in the code; an action that would pass one is
disabled, nothing wraps. They are the least that let the cases of interest happen:
two talks and two devices for a race on either side; three accounts for a client
id used for another destination while a talk comes back; a queue of one and a push to
fill it; a memory of one turn, so that the next question evicts it; pages of one so that every
sync takes several; two sessions in the outbox for one switch (`Crash` starts the
count again); two calls so that answers cross; three keys so that a key changes
twice under one request; one fault, because each property names which single fault
excuses it (in `sessions` connections are lost without a bound); scenes with `MAX_MESSAGES` rows so that pruning happens. Where a property
is proved the bounds do not matter.

`CHECK_DEADLOCK FALSE` stands where a legal end exists: all requests answered, the
clock at its bound, the client stopped. `read_state` and `agent` check deadlock too
(requests at their bound stutter).

**Mutants.** Each property has one: an operator that makes a mistake one could make in
that code (a lock not taken, a stamp not compared, a nonce kept for too short, a
oneshot not registered) and with which TLC finds the property violated.

## Fairness

Safety properties use `Spec` without fairness. For the temporal ones:

* **PendingDelivery** (`HandlersFinish`): weak fairness of a talk's, a login's and a
  sync's own steps (tasks on a running executor), strong fairness of taking an
  advisory lock (Postgres queues the waiters). Nothing makes clients talk or ack.
* **ClientLink** (`StopTakesEffect`, `SilenceIsNoticed`): weak fairness of the loop's task, of
  the steps of `stop()` after its first, of the probe, the grace and the watchdog
  (timers of the runtime) and of a caller's write and return. Nothing makes the
  server answer or the network work.
* **Sessions** (`StaleIsClosed`): weak fairness of heartbeats whose revocation check is
  answered, of the gateway's and the handlers' steps, of delivered kicks. Nothing makes
  anybody ask royal for the epoch.
* **Presence** (`OfflineShown`): weak fairness of the hub's tasks.
* **AgentTurns** (`TurnEnds`): weak fairness of the worker, the host's deadlines, the wait
  for a card, a heartbeat's send; strong fairness of the worker's taking the lock
  that stops the heartbeat (a fair lock of the runtime). No user and no provider is
  assumed to answer.
* **SdkViews** (`LoadEnds`): weak fairness of publisher, write worker and spawned tasks, but
  not of the step in which a task waits for a history request: nothing makes the
  server answer. `LoadEnds` has it as a premise that no task waits for ever.

## Proofs

A proof module extends the modules of one part of the system. The argument is the
usual one: an inductive invariant, `Init` implies it, a lemma per action (or per
conjunct) that every step keeps it, and the theorems from it with one temporal step.

| module | theorems | proves of the runs' properties |
|---|---|---|
| `PendingDeliveryProofs` | `TypeCorrect`, `ReceiptSafety`, `Idempotency`, `SyncSafety`, `AckSafety`, `LockOrderSafety`, `StoreRefinement` | `NoMissedReceipt`, `OneMessagePerClientId`, `SyncDrained`, `LockOrder`, `ImplementsMessageStore` |
| `SessionCacheProofs`: SessionCache, Container | `TypeCorrect`, `CacheIsFresh`, `LookupAgreement`; `ContainerTypes`, `ConnSafety`, `PromotionSafety`, `StopSafety` | `CacheFresh`, `LookupsAgree`, `NoOrphanConn`, `StoppedMeansGone` |
| `ClientLinkProofs` | `TypeCorrect`, `StopIsFinal`, `KickIsFinal` | `StoppedStaysDown`, `KickedStaysOff` |
| `OutboxProofs` | `TypeCorrect`, `OwnAccountSafety`, `SentSafety`, `TimelineSafety`, `WakeupSafety` | `OwnAccountOnly`, `SentIsAccepted`, `TimelineAgrees`, `NoLostWakeup` |
| `ReadStateProofs`: ReadState, Requests | `TypeCorrect`, `InboxSafety`, `BadgeSafety`, `Refinement`; `AnswerSafety`, `ReturnSafety` | `InboxAgrees`, `BadgeCleared`, `ImplementsReadMarks`, `TrueAnswer`, `AnsweredReturns` |
| `SessionsProofs` | `TypeCorrect`, `SessionsSafety` | `SessionsExplained` |
| `RoyalProofs`: RoyalCalls, Accounts, Directory | `CallSafety`, `KeySafety`; `TokenSafety`, `AccountTypeSafety`; `RelationSafety`, `LookupSafety` | `ExecutedOnce`, `KeyErrorExplained`, `TokensEnd`, `RelationsSound`, `LookupsSound` |
| `AgentProofs`: AgentTurns, AgentSpecs, Bots | `TurnSafety`; `SyncSafety`, `NewerSafety`; `BotReplySafety`, `BotAccountSafety` | `QuestionsOnce`, `SpecsSynced`, `NewerWins`; three of the five parts of `BotsSound` |

* **PendingDeliveryProofs.** `NoMissedReceipt` is not inductive: the reason a talk does not
  miss a login is the lock. `LocksHeld` says whose the locks are, `TargetsComplete`
  that what a talk has resolved covers every login that has finished, since a login
  could not have finished without the lock the talk holds. `DueHasReceipt`,
  `PageInSync` and `ShortPageIsLast` carry `SyncDrained`. `LockOrderSafety` assumes that no
  two accounts have the same lock key: with colliding keys the order of accounts is
  no order of locks, and Postgres would end one of the transactions.
  `StoreRefinement` is `Spec => ImplementsMessageStore`: a commit maps to one insertion
  (its id is fresh by `FreshIds`, its claim untaken by `ClaimStable`), duplicates and
  backfills to new receipts, the rest to acknowledgements, collections and stutters;
  it needs one more invariant, `AckedHaveRows`. `AckSafety` is the action property
  `AckIsFinal`, which no run checks by itself: the refinement says more.
* **SessionCacheProofs.** `CacheFresh` needs `FillsFresh`: a fill whose stamp is current and
  which has read an account holds a fresh view too. The epoch does not wrap.
  For the container, `Claims` says that the dialing set is a lock (a task that dials or
  inserts owns its instance, whose slot is empty), `Belongs` and `HandClosed` whose a
  connection is and that a pruner holds only closed ones; `ListedWhy` and `ServerDown`
  which of start and shutdown is still to look. Any number of instances, tasks,
  connections and restarts; finite `Ids` and `Conns`.
* **ClientLinkProofs.** `StopInv` relates the steps of `stop()`, the task handle and the
  loop; `LoopInv` where the loop waits and what the client holds; `QueueInv` and `KickInv`
  say that a queued Kickout is ahead of any Closed, and that after a dropped one no
  Closed is queued while the reader goes on. Any queue length, any number of pushes.
* **OutboxProofs.** `SessionInv` relates epoch, token, session and protocol client through
  the two steps of `bump_epoch`; `HandInv` says that what a worker holds in its hand
  (account, epoch, client, row) belongs together as long as the epoch it read is
  current, and what a cancelled run can still do; `LoadInv` relates loaded rows to
  their owners; `WakeInv` says that a row somebody asked for has a kick in the
  channel, a worker that will look again, or a command about to kick. `TimelineAgrees`
  needs `NumberedInv`: a message with a server id was accepted for its owner. The four
  properties are proved from their conjunction for any number of accounts,
  messages, workers and sessions.
* **ReadStateProofs.** `ServerInv` (counter and index agree, the row's last message is the
  newest of the index, cursor within the ids there are), `MarkInv` (no mark ahead of what was opened), `Device(d)` and `Transit(d)` (what a
  device knows, and what every message, page or remote read on its way can still tell
  it). `Refinement` is `Spec => ImplementsReadMarks`: the initial state maps to an
  initial state of ReadMarks, and each step to a step or a stutter.
* **ReadStateProofs, requests.** `Numbers` and `OneEach` say that a number belongs to one call, is on
  its way once, up or down; `Waiting`, `Outgoing` and `Incoming` tie `pending`, the requests and
  the frames to the calls. The theorems assume `TablesAgree`, a statement about the
  constant tables alone, which TLC evaluates in `read_state`; they hold for any
  callers, any number of calls, pushes and losses.
* **SessionsProofs.** `SessionsExplained` speaks of lanes that are empty; `Explained(c)`
  says for one channel which packets its lanes may hold: none before the sign-in
  (`Fresh`), a sign-in only at the instance the gateway chose and only until the login
  ends (`InSent`), a sign-out only of a channel that is gone (`OutSent`), and behind a
  sign-in or a location of a gone channel its sign-out, when both went to one instance
  and none was lost (`Behind`). `Mute` covers the login that is still backfilling when
  the admin's kick takes its location, and the kickout lost on its way. Nothing is assumed but `SessionsAssumption`.
* **RoyalProofs, signed calls.** `CallSafety` rests on the lemma `KeptWhilePassing`: a nonce claimed
  while the timestamp passed is kept as long as the timestamp can pass, rounding
  included (with `HMAC_NONCE_TTL_SECS` one smaller the lemma is false, which is the
  mutant). It assumes that the skew is a natural number and the offsets of clocks are
  integers. `KeySafety` needs `Since` (what a request knows of the key it holds) and
  `Dropped` (a cache that was dropped and not refilled is empty).
* **RoyalProofs, accounts.** `TokensEnd` is about what the stores say now; what makes it
  inductive is how they came to say it. The entry of a jti lasts as long as the token
  it was revoked with (`EntryLasts`); no epoch is ahead of the durable one (`Epochs`), and
  the cached one is behind it only while the request that bumped it is on its way, or
  where a history variable says so (`CacheCurrent`); a token made before the cached
  epoch ends before the cache forgets that epoch (`Lifetimes`); a device is enrolled
  before a token names it (`Enrolling`). Any number of handlers and tokens, any `TTL`.
* **RoyalProofs, friends and groups.** `RelationsSound` and `LookupsSound` are inductive
  together with what is on its way. Every request and job asks for something that was
  wanted, and an open transaction holds only rows it may delete or insert
  (`WantedInv`); a job somebody waits for is the last attempt of its caller's call
  (`LiveJobs`), so that an answer belongs to the question it is taken for (`AskInv`) and is
  as true as a cached one (`AnswerInv`); whoever may win the breaker's compare-exchange
  saw a window that is over (`GateInv`). Any accounts, groups, tasks, instances, attempts
  and faults; the assumptions are that these sets are finite, that people and bots
  differ and that the limits are positive.
* **AgentProofs, turns.** The list of remembered keys is seen from its end: its last keys
  are those of the last admissions of this session, in their order (`Remembered`), so a
  question admitted again was forgotten, which takes `RECENT_TURN_CAP` admissions. That a
  turn runs twice at most is carried by the turns themselves: one that was run and
  waits again is `retried`, and a retried one is not queued again. Any
  bots, sources, questions, limits and switches; the only assumption is that the list
  holds at least one key.
* **AgentProofs, profiles.** `SpecInv` says, for each stage of a sync, what is known of the
  two records it compares: fetched, taken over or found newer, picked for the push,
  pushed. That records stay with their account is shown with a map from every edit to
  its home (`SomeHome`), which `start_session` moves when it rekeys the rows written before
  the first login. Clocks may be ahead by any natural number (`Skew`).
* **AgentProofs, bots.** A request holds an account over several steps, and another one
  may delete the bot under it. `NamesInv`: an account is named once, and is not in the
  directory while a `create_bot` still holds it. `OwnersInv`: whoever was found to own an
  account, in the cache of any instance or in a request, owns it for as long as it is
  there; a request that purges has removed the record. `ReplyInv`: a stored reply of a
  bot that exists is the one its turn was claimed with, and no reply was ever stored
  for an account still to be entered; that a purge ends only turns of accounts that
  are gone closes the argument. It assumes that no person has the name of a bot
  account (`BotsAssumption`). Any people, profiles, handlers, messages, both backends.

The assumptions on constants are the named `ASSUME`s of the modules.

Only model-checked:

* the temporal properties under fairness (`HandlersFinish`, `StopTakesEffect`,
  `SilenceIsNoticed`, `StaleIsClosed`, `OfflineShown`, `TurnEnds`, `LoadEnds`), since the prover
  handles neither fairness nor `ENABLED`;
* the four statements about tables and pure functions, which quantify over concrete
  tables, and what recursive definitions compute (AgentHost, Catalog), since induction
  over data is out of reach;
* `ToolsControlled`: the calls of a turn are sequences that AgentHost filters and flattens
  (`SelectSeq`, `FlattenSeq`), and what these return for every sequence is induction too;
* of `BotsSound`, `StoreViewsAgree` (the inbox is a fold over the rows) and `AskedOrAnswered`
  (a page of `HistoryCap` messages: it holds as long as a thread fits one page); and
  `ImplementsMessageStore` for Bots, which is proved for PendingDelivery only;
* `TimelineSound`: that a page leaves no gap and no second row is about a fold over its
  messages and a count of newer rows when it is pruned (`PersistTalks`, `Newest`), so
  induction again; its other parts have no proof yet.

## Where the code and its documents disagree

The properties above hold of the code as it is; where a document, a comment or an
expectation says more, the property carries the exception. These are the
exceptions and what else the models showed. The first group is stated in the
modules and part of no run: TLC finds each violated on the instance of its module's
run, the temporal ones under the module's `Fairness`.

* `SessionsFresh` (SessionCache): `get` fills a miss without a stamp (`cache.rs:189`), though
  the comment at `:32` speaks of all in-flight miss fills: a row read before its
  channel was deleted elsewhere is installed after the invalidation.
* `RequestsReturn` (ClientLink, two requests): when the loop gives up a
  connection before its reader has seen the close, nothing clears `pending`
  (`pump.rs:144`), and a request past its write never returns.
* `RenewedTokenIsUsed` (ClientLink, no requests): `run_session` begins with
  `disconnect()`, which resets the session that holds the renewed token.
* `RetryIsAttempted` (Outbox): a failed row gets a time for its next attempt, but nothing
  wakes the worker then or when the link is online again (`outbox/pump.rs:175`).
* `ReadReachesServer` (ReadState): a read mark whose request is lost is not sent again
  until the next one (`read_sync.rs:49`).
* `OneMobile` (Sessions): two mobile logins at two chat instances may both stay.
  `OnlyFriendsWatch` (Presence): an interest survives the end of the friendship.
  `WantedIsConnected` (Container): a connection that dies before its reader runs keeps
  its slot, and the redial loop takes the instance for connected.
* `NoUnapprovedRunAtAll` (AgentTurns): `MaxTurnsOp` runs before `PermissionOp`, so a call made
  with the last message the turn limit allows reaches the app without a judgement.

Others:

* **Link.** A Kickout dropped by a full event queue (`pump.rs:513`), followed by the end of
  the reader before the loop looks at the death watch, is a Closed to the loop, which
  reconnects (`kicked = "lost"`).
* **Sessions.** `ChatAdmin` deletes the location once the kickout is queued (`admin.rs:62`): if
  the connection that carries it is lost, the channel stays open and gets no messages
  any more. When `set_epoch` fails after a change of the password (`auth.rs:410`) the
  gateway keeps the old tokens' connections until somebody asks royal for the epoch.
* **Requests.** `dispatch()` (`pump.rs:463`) has no arm for RoomEnter, BotPending,
  ConversationRead and ConversationStates: their callers wait until the connection
  ends (`Unrouted`). Pushes copy the header of the request that caused them, its
  number included; `chat.group.invite` is unknown to the decoder, becomes a Status and
  can wake an unrelated request (`strays`). `wait_login_resp` (`login.rs:43`) takes a
  KickoutNotify for the login's answer.
* **Agent.** Codex ignores `permission_rules` (`codex_inject.rs:110` against
  `docs/impl/codex-embed.md:249`). A reply may go out over another account after a
  switch (`kim-sdk/src/lib.rs:441`). Names of siliconflow models that mention qwen and
  have an effort surface are mapped as qwen, which drops the choice; a toggle on an
  OpenAI-compatible endpoint is accepted and never sent; minimax ignores efforts.
* **SDK.** A commit stamped with another account or epoch displaces a notice nobody has
  taken (`store/changes.rs:104`). `refresh_session_snapshot` shows no threads when it cannot
  read them (`lib.rs:2093`). `send_contacts_error` loads the contacts and sends them later,
  after a newer list perhaps (`contacts.rs:183`). The unique index on message ids can refuse a mark, and
  the send stays stuck. A session switched in the middle of a sync of agent profiles
  stores one account's records under another (`lib.rs:775`).
* **Royal.** A login verified before a password change can be given a token after it; a
  second logout shortens the first one's revocation. Over HTTP, `AlreadyFriends`
  becomes `AutoAccepted`, every error of a store is a 500, so that an invalid request is
  retried and counts against the breaker (as does the 503 of `pending_disabled`),
  `upsert_account` returns the caller's record and the inbox's `last_msg_type` is 0.
* **Region router.** `pick_idc` and `pick_one` use the same hash, so that with equal weights
  and two gateways one gateway of each IDC is never chosen. The fallback is the first
  IDC of the default region only, though others of it may be up. The order of static
  naming's `HashMap` differs between replicas, so an account does not stick to one
  gateway across them.
* **Store.** `purge_peer_dm` (`postgres.rs:1648`) takes none of the inbox locks. The confirm
  gate of a client without a store releases a page by its largest id (`sync.rs:22`). The
  location fill of `channels` loses a row that `get` tracked (`cache.rs:108`). These, and an
  upload that fails and holds back the rows behind it (`outbox/pump.rs:46`), have no
  property here.

## Not modelled

* The history and inbox queries of the Postgres store and its older cursor mode;
  rate limits and the choice of who may talk; typing notices (pushed, not stored).
* Channel map and server core (`kim-core`): bounded write queues and their admission.
* A royal over Postgres without Redis, which fans out to the targets the caller names
  (`postgres.rs:483`); the one royal of `ROYAL_URL` before discovery has answered
  (`royal_pool.rs:76`); profiles without `max_turns`, which the app does not make.
* The dual-write session store, a migration aid whose reads come from the primary.
* Codecs and generated bindings (no protocol state), transports (library sockets),
  user interfaces, the web SDK, logging and metrics, hashing, MACs and seals.
* Of the agent: steering, the MCP hub, proactive compaction, prompt layers; none is
  reached by the desktop's drive loop.

`PROJECT.json` gives the reason for each under `components`.

## Plan

Done: models of every component that keeps protocol state, and proofs of every safety
property the runs check but the ones listed above as only model-checked. Left, in this
order:

1. The refinement of MessageStore by Bots: it needs the rows of a message and its
   content tied together, through the two steps of a Postgres purge.
2. `ViewsFresh` and `HeldStreamIsBlank`, the parts of `TimelineSound` about the one notice
   slot and its several writers.
3. The channel map of `kim-core` with its bounded queues.
