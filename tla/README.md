# OpenRTC in TLA+

OpenRTC is a realtime room server. Browsers hold a WebSocket to one of several
runtime nodes; the nodes share Redis for membership, presence, storage and Yjs
documents and tell each other about changes through Redis pub/sub. An admin
service writes to the same Redis over HTTP, a compactor folds Yjs updates into
snapshots, and client libraries keep optimistic copies of what the server
holds. This directory models the parts that coordinate concurrent goroutines,
nodes, requests and clients, checks them with TLC and proves the invariants of
engine, handlers, storage, Yjs log, leases, room events, the admin API's records
and what is delivered of them with TLAPS.

## 1. Inventory

| Component | State | Operations | Talks to |
|---|---|---|---|
| Room engine (`server/internal/roomengine/engine.go`) | per node: sessions, `rooms` and `connRooms` (two indexes of the same relation), presence, `eventAcks`, `storageSeq`, Yjs slots | `RegisterSession`, `JoinWithLimits`, `New…Plan`/`Apply…Plan` for leave, presence and disconnect, `AcknowledgeEvent`, `RecordStorageMutation`, `RecordStorageEvent`, `RegisterYJSSessionWithLimit` | called by the runtime, every method under one mutex |
| Runtime (`server/internal/runtime/service.go`) | table of sockets, a queue and a `done` channel per socket | one read loop per socket (`handleJoin`, `handleLeave`, `handlePresence`, `handleStorage…`, `handleYJS`), `registerConn`/`unregisterConn`, heartbeat, reconciler, three subscribers | engine, Redis store, other nodes through pub/sub, clients through queues |
| Redis store (`server/internal/cluster/redis.go`) | members, rooms and presence; alive key and node index; storage document, sequence and op records; Yjs counter, log and snapshot; event log; threads, inbox, room records | MULTI transactions, WATCH transactions, pipelines that are not transactions | shared by runtimes, admin and compactor |
| Product records (`server/internal/cluster/product.go`) | tenants, projects, API keys, usage, audit log, webhook deliveries, versions, rich text, resume sessions | creates and updates under WATCH, read-modify-write without | shared by admin processes and runtimes |
| Admin API (`server/internal/admin`) | none of its own; a retry worker per process | storage; rooms, threads, inbox, presence, publish; tenants, projects, keys, rich text; webhook dispatch and retry | Redis store, webhook endpoints |
| Client SDK (`packages/client`) | room views, optimistic storage with pending mutations, event cursors | message handler, `setStorage`, `patchStorage`, conflict repair, reconnect | runtime |
| Yjs provider (`packages/yjs`) | Yjs document, pending offline flag | local update, sync, remote frames | Yjs socket of the runtime |
| Yjs compactor (`packages/yjs-compactor`) | none | load, merge, checkpoint | Redis |
| Authorization, protocol parsing, configuration, metrics, dev server, React, rich text | — | — | see "Not modelled" |

What is hard here, and where the hazards of `PROJECT.json` come from:

* Engine plans are made under a read lock, then Redis is written, then the plan
  is applied: a plan is stale state by design.
* A handler is a chain of engine calls, Redis round trips and enqueues. Other
  goroutines, other nodes' events and the disconnect of the peers run between
  any two of them, and each may fail with or without having taken effect.
* A full queue closes the peer's socket, and the error also ends the fan-out and
  the sender's handler: who comes after the peer is not told, and the sender gets
  no answer.
* Storage has three sequence counters that must agree: Redis's, each engine's
  and each client's. Commits may pass the engine in the other order than Redis.
* Yjs appends and loads are two round trips each; the compactor runs between.
* An event's number is drawn before it is logged and published, and a join reads
  the log while live events already arrive.
* Nodes crash. What they leave in Redis has to be found through the node index.
* Admin requests run concurrently in several processes. Some operations are WATCH
  transactions, some a read and a later MULTI, some a whole record written back;
  the index, the published event, the usage count and the audit entry are further
  round trips, each of which may be the last.
* Timestamps are taken before the transaction that stores them.
* Webhook deliveries, resume sessions and API keys are read, kept as a copy and
  written back by whoever holds one.
* JSON Patch and its effect on a document exist twice, in Go and in TypeScript.

Per component, the properties that make it correct:

* engine: the two membership indexes agree, limits hold, a closed connection
  leaves nothing, cursors do not move back, presence goes with membership;
* rooms across nodes: Redis, engine and clients' views converge, disconnects end;
* storage: one linear register, truthful acknowledgements, clients converge,
  requests are answered;
* events: replay and live delivery leave no gap, durable cursors advance only;
* Yjs: stored edits survive compaction, open clients have them, slots return;
* lease: live connections keep their rooms, dead ones are forgotten;
* threads and inbox: a record and everything beside it live and die together,
  concurrent edits keep each other's fields, read stays read, changes are
  published as they are stored;
* registry: no child without its parent, indexes list what exists, a revoked key
  is refused (which is not so, see `RevokedKey`); usage and audit log follow the changes;
* rich text: every content is in the history, the creation time is kept;
* resume sessions: expiry is final, cursors advance only;
* webhooks: a record tells the truth, a failed delivery is found again, settled ones
  stay;
* presence set by the admin API: stays for its time, then goes;
* lists: a walk by pages passes over nothing that was there all the time;
* JSON Patch: client and server agree, an undo restores.

## 2. Modules

| Module | Models | Uses |
|---|---|---|
| `RoomEngine` | the engine's sessions, membership, presence, acknowledgements and plans | — |
| `RoomEngineProofs` | the theorems about it | `RoomEngine` |
| `RuntimeRooms` | join, leave, presence and disconnect handlers, Redis membership and presence, presence channel, fan-out, the client's view of a room | `RoomEngine` |
| `RuntimeProofs` | the theorems about it | `RuntimeRooms`, `RoomEngineProofs` |
| `StorageDocument` | a document as the sequence of the mutations it was made by | — |
| `StorageSpec` | abstract: storage is one register with at-most-once mutations | `StorageDocument` |
| `StorageCluster` | WATCH transactions, storage handlers of the runtime and the admin, storage events, optimistic client | `StorageDocument`, implements `StorageSpec` |
| `StorageProofs` | the theorems about it | `StorageCluster` |
| `EventLog` | event numbers, log and retention, publishing, fan-out, replay on join, acknowledgements and durable cursors, the client's cursor | — |
| `EventProofs` | the theorems about it | `EventLog` |
| `YjsLog` | update log and snapshot, Yjs socket handler, provider, compactor | — |
| `YjsProofs` | the theorems about it | `YjsLog` |
| `ConnectionLease` | alive key, heartbeat, reconciler, crashes and restarts | — |
| `LeaseProofs` | the theorems about it | `ConnectionLease` |
| `AdminRequests` | what admin requests have in common: stages, WATCH, refused transactions, failed calls | — |
| `ThreadStore` | threads, comments, read marks and their events | `AdminRequests` |
| `InboxStore` | notifications, their two indexes, their deltas and the client's list | `AdminRequests` |
| `UsageLedger` | usage counters and records, audit log | `AdminRequests` |
| `ProductRecords` | rooms, tenants, projects, API keys | `UsageLedger` |
| `RichTextStore` | rich-text documents and versions | `UsageLedger` |
| `WebhookDelivery` | dispatch, retry workers, retry and dead-letter by hand | `UsageLedger` |
| `ResumeSession` | the session record, its expiry and the copies connections keep | `UsageLedger` |
| `EphemeralPresence` | presence set by the admin API, its expiry and `SnapshotRoom` | `UsageLedger` |
| `RecordProofs` | the theorems about the nine modules from `AdminRequests` to `EphemeralPresence` | these modules |
| `Paging` | walks through member, thread, inbox, settings and room lists | — |
| `MemoryStorage` | storage in the engine of a runtime without Redis | `StorageDocument`, implements `StorageSpec` |
| `MemoryProofs` | the theorems about it | `MemoryStorage` |
| `JsonPatch` | JSON Patch of server and client, typed documents, the difference an undo sends | — |
| `MCRecords` | threads, inbox, products, rich text, sessions, webhooks and presence side by side | these modules |
| `MCEvents` | events, pages, memory storage and patches side by side | `EventLog`, `Paging`, `MemoryStorage`, `MCJsonPatch` |
| `MC…` (others) | node placement, writers and symmetry for TLC | the module of that name |

Each record store has a specification of its own for the proofs (`ThreadSpec`,
`InboxSpec`, `ProductSpec`, `TextSpec`, `PresenceSpec`, `SessionSpec`,
`WebhookSpec`): the initial states and steps of one topic of `MCRecords`, without
its bounds.

The definitions keep the names of the functions they model; `PROJECT.json`
maps each to its lines. Definitions commented "Faulty variant" are the same
operation with a plausible mistake in it; no specification uses them, they show
that the properties notice the mistake.

### How the code is cut into actions

**`RoomEngine`.** Every method holds `Engine.mu` and is one action. `New…Plan`
and `Apply…Plan` are two. `plan[c]` is the plan the goroutine of `c` holds in
between. All calls for a connection come from the goroutine that reads its
socket, so it holds at most one plan; a handler that fails abandons its plan
and disconnects. All nodes' engines are kept in one set of variables and
`Members(n, r)` is a node's slice: connection ids are random and no connection
moves.

**`RuntimeRooms`.** `pc[c]` is where the read loop of `c` is. A join is
`HandleJoin` (engine), `JoinStore` (Redis MULTI), `JoinSnapshot`, `JoinReply`; a
leave is `HandleLeave` (plan), `LeaveStore`, `Publish`, `Apply` (engine, and the
fan-out's targets are looked up in the table of sockets), one `Enqueue` per
target, `Reply`; presence likewise. A disconnect is `PlanDisconnect`,
`Disconnect`, `Unlink` (out of the table, `done` closed), `Cleanup` (Redis),
then `Farewell` for each room. `EnqueueOverflow`, `EnqueueClosed` and
`EnqueueLost` are the three ways an enqueue can go wrong (Go's `select` picks
among the ready cases, so on a closed socket both the error and a silently
accepted message happen). `StoreFails`, `CleanupFails` and `FarewellFails` are
failed Redis calls. Each node's presence subscriber is `HandleClusterPresence`.
A client reads its queue in order, so a message takes effect on `view` when it
is enqueued.

**`StorageCluster`.** `stage[o]` is where the request for the mutation `o` is:
`Watch` (WATCH, the reads and all checks in the code's order, the op record
first), `Exec` (which fails when a watched key changed), `RecordMutation` (the
engine, which refuses a sequence it is past), `PublishEvent`,
`BroadcastStorageFanout`, `Ack`; conflicts go through `ReadRepair` and `Repair`.
The client's side is in `Send`, `Display`, `Authoritative`, `Rollback` and
`Update`. A retry sends the same op id again. One room is modelled; rooms share
nothing in storage. A client reads its queue in order, so a message takes effect
when it is enqueued. A socket is `open`, `closed` (its `done` channel is, its goroutine
does not know yet), `ending` (the read loop has ended) or `gone`; until then the engine
has it as member. A fan-out tells its targets in the order of a Go map: if the queue of
one is full or closed, some were told before, the others are `missed`, and the sender's
handler returns the error, without an acknowledgement, which ends its own connection
(`BroadcastFails`). The same failure in a subscriber is silent (`ClusterFanOutFails`).
`AnswerLost` and `AnswerOverflows` are an answer that the sender's socket does not take,
`Hangup` a peer that goes.

**`EventLog`.** An emit is `Read`, `DrawSequence` (INCR), `PublishEvent` (the MULTI:
log, trim, publish), `BroadcastEvent` (targets) and one `Enqueue` per target; the
admin's publish ends after the MULTI. A join is `JoinCursor` (the newer of the
client's and the user's durable cursor), `JoinEngine`, `ListPublishedEvents`,
then one `SendReplayEvent` at a time. An acknowledgement is `AckWatch` and
`AckStore`, or `AckRetry` after a lost race: the key is one hash for all users of
the room. `Disconnect` ends the socket, and a fan-out on its way to it may fail
there. `Connect` joins again, with the client's cursor or, after a restart of the
client, without. Storage updates occupy the log under their own sequence
(`PublishStorageEvent`); entries of equal score come in either order.

**`YjsLog`.** Yjs merges updates in any order and any number of times, so a
document is a set of edits. `Reserve` takes the slot, `Register` adds the socket
for live frames, `LoadSnapshot` and `LoadUpdates` are the two reads,
`SendInitialYJSDocument` sends both. An update is `Receive` (INCR), `StoreUpdate`
(ZADD), `Relay`, `PublishYJSEvent`. The compactor is `ReadSnapshot`,
`ReadUpdates`, `Compact` (one MULTI). Edits in `Subdocs` travel in subdocument
frames and make the compactor skip the room.

**`ConnectionLease`.** Time is counted in heartbeats: the TTL (45 s) is three
intervals (15 s), so `lease[c]` says for how many more ticks the key is sure to
exist. The socket's goroutine, the heartbeat (`TouchSession` asks the engine,
`ApplyTouch` writes Redis later) and the reconciler (`ListConns`, `CheckAlive`,
`ReadStale`, `RemoveStale`) interleave; `Crash` stops a node between any two
steps. `Close` cancels the context before it closes the sockets, so a regular
shutdown leaves the same records behind and is a `Crash` too.

**Admin requests.** `req[r]` holds the operation of a request, its arguments, its
stage and what it has read. A handler is `Start` (authenticated and valid), then
one action per round trip. `Watching` records the watched keys and `Written`
marks the transactions stale that watch a key somebody writes; `ExecRefused`
answers 500, since no handler tries again. `CallFails` ends a request at any
stage: with the commit before it, a failure after the effect, and without, one
before. The operations are named after the store's functions.

*Threads.* `WatchThread` reads under WATCH, the operation's action is the MULTI,
`loadThreadRecord` reloads (header and comments are two reads, so another change
may come in between), `publishCommentEvent` publishes. `clock` gives every request
the time it took before its transaction. A field of a header or comment holds the
request that wrote it, so that a lost update shows.

*Inbox.* As above; `DeleteInboxNotification` and `DeleteAllInboxNotifications` are
a read and an unguarded MULTI. `publishNotificationEvent` sends a delta to the
sockets of the user, and `applyNotificationDeltaToInbox` is what the client makes
of it; in `NotificationFanoutFails` one socket fails, and those after it are not sent
the delta (`missed`).

*Products, rich text.* A committed change goes on to `recordUsage`,
`IncrementUsage`, `StoreUsage` and `RecordAuditLog`, whose errors are logged and
passed over (`LedgerCallFails`). `VerifyAPIKey` reads a key and writes it back
with a new time of use, and `revocation[k]` remembers what it may take back. An upsert of rich text reads the creation time, writes the
document, stores a version, then counts and audits.

*Webhooks.* `dispatchWebhook` goes through the URLs: record, index, POST, update,
each of which may be the last (`Cancelled` is the end of the request's context).
A worker looks at the newest `ScanWindow` deliveries (three times its limit and one),
takes the failed ones record by record, then retries them with the copies it has
read. Whether a delivery is due is left open.

*Resume sessions.* A connection reads the session at its start and keeps a copy;
joins and acknowledgements change the copy and write it back. Times are counted:
a later `UpsertResumeSession` has a later expiry.

*Presence.* `SetEphemeralPresence` is one MULTI; `SnapshotRoom` is `ReadRoom`, a
`CheckAlive` per ephemeral id and a `Purge` for each one that is gone. Connections
join, leave and set presence in the same hash, the last without being asked whether
they are members (`SetPresence`).

**`Paging`.** One client walks a list, one page at a time, and the list changes in
between. Items are numbers in the order of their names; a list is the sequence
the store returns.

**`MemoryStorage`.** The engine's mutex makes a mutation one action; the fan-out,
one `broadcastStorageFanout` per target, and the acknowledgement follow without it,
and fail as they do in `StorageCluster` (`FanoutFails`, `AckFails`).

**`JsonPatch`.** Documents are trees. `ApplyJSONPatch` and
`applyJSONPatchOptimistic` are the server's and the client's algorithm, operation
by operation; a behaviour puts a patch together, has it stored and undoes it.

## 3. Runs

Passing runs:

| Run | Instance | Checks |
|---|---|---|
| `Engine` | the engine alone with 2 connections, 3 rooms and presence, or with 3 connections without presence, at limits of 2 rooms per connection and 2 connections per room; or the handlers of 2 connections of 1 node, 4 calls, 1 overflow; symmetry | `MembershipMirror`, `LimitsRespected`, `ClosedLeavesNoTrace`, `AckCursorMonotone`, `LeavingErasesPresence`, `ViewsConverge` |
| `RoomsAcross` | 2 connections on 2 nodes, 3 handler calls, 1 failed Redis call, 1 overflow, fair | `ViewsConverge`, `StoreMatchesEngine`, `DisconnectCompletes` |
| `Storage` | 2 writers of one node with a third on another node or an admin delete, one with an expected sequence; one mutation sent again and 1 failed publish, or 1 socket that fails; fair | `AcksMatchCommits`, `ClientsReachLatest`, `StorageIsRegister`, `RequestsAnswered` |
| `Yjs` | 3 clients that compete for 2 slots of a node and 1 client of another, 2 of 3 edits, one of which is a subdocument's, 1 compactor, 3 connects, 1 failure; symmetry | `StoredSurvives`, `SlotsMatchSockets`, `OpenClientsComplete` |
| `Lease` | 2 connections of 1 node, 1 crash, 1 failed Redis call, 2 joins, fair | `LiveKeepsMembership`, `MembersAreReachable`, `EventuallyForgotten` |
| `Events` | 2 devices of one user on 2 nodes, 3 joins, events of a client and the admin, 1 storage update, a log of 2 and a replay of 1, 2 attempts, 1 failed Redis call; lists of up to 4 items and 2 changes; 3 clients of one engine, 4 mutations sent up to twice, 2 sockets that fail; patches of 2 operations on 3 documents | `ReplayMeetsLive`, `AcksReachRedis`, `DurableCursorMonotone`; `PagesCover`; `MemoryIsRegister`, `MemoryAnswers`; `OptimisticAgrees`, `UndoRestores` |
| `Records` | 3 concurrent admin requests about one kind of record, 1 failed call; a thread with up to 3 comments; 2 notifications of 2 users, one of them with 2 sockets; a room, a tenant, a project and a key; a rich-text document; 2 connections with a session, 3 openings; 2 URLs, 2 retry workers that scan 1 delivery, dead after 2 attempts; 2 ids of presence; symmetry | `ThreadsWhole`, `ReadStaysRead`, `ChangesPublished`, `FieldsSurvive`; `InboxIndexed`, `DeltasAgree`; `RegistryWhole`, `UpdatesKept`; `LedgerComplete`; `TextsKept`; `SessionsSound`; `DeliveriesSound`; `PresenceExact` |

A behaviour of `Events` or `Records` is about one topic, which `topic` names: the
topics share no state, those of `Records` no Redis key except the usage counters and
the audit log, so a step of one cannot disturb another. Where several promises of a
component are one property, its conjuncts have names of their own: `LedgerComplete` is
`UsageExact` and `AuditComplete`, `TextsKept` is `ContentsVersioned` and `CreatedKept`,
`SessionsSound` is `SessionExpires` and `CursorsKept`, `DeliveriesSound` is
`DeliveriesTruthful`, `NothingStranded` and `SettledIsFinal`, `PresenceExact` is
`PresenceReachable`, `PresenceKept` and `SnapshotsFresh`, `PagesCover` is
`PagesComplete` and `PagesDistinct`, `MemoryAnswers` is `AcksRepeat` and
`MembersReachLatest`, and `RegistryWhole` has `RevocationHolds` among its parts.

The type invariants (`TypeOK` and its kin) are no questions to the code and in no
run; they are stated for the proofs, which need them as hypotheses. `IInv`, which
holds the engine's, is proved.

What they show:

* `ViewsConverge` says that once nothing is under way, a joined client shows no
  departed member and everybody's current presence. Its exceptions are the
  places where the code does not repair itself, and history variables name
  them: `overlap` (a join that ran while the other connection was in a leave,
  presence or disconnect handler) and `dropped` (a fan-out that an error cut
  short, or presence set in a room that was not joined). Outside these the
  views converge.
* `LimitsRespected` is about both limits: three connections want rooms that take
  two, and two or three rooms are there for connections that may be in two.
* `StoreMatchesEngine` shows that ending the connection on every error is
  enough: between handlers Redis and engine never disagree about it. Of a connection
  that has finished it says that no room lists it as member; presence that it set in
  a room without joining it does stay in the hash (see `PresenceReachable`).
* `StorageIsRegister` is a refinement: with `doc` the document in Redis and
  `log` the commits, every step is a step of `StorageSpec` or changes nothing of
  it. `AcksMatchCommits` ties the acknowledgements of first and repeated
  requests to that log. `ClientsReachLatest` says the connected clients
  arrive at its end. Left out are a commit that was never published (`unpublished`),
  as nothing tells the other nodes of it before the next one, and the clients behind a
  socket that failed (`missed`): the first failing enqueue ends a fan-out. It speaks of
  the document only for clients that sent nothing (`Silent`), so not for one that has
  repaired a conflict from a document and a sequence read apart.
* `RequestsAnswered` is about clients whose connection stays open. A sender whose
  fan-out fails is disconnected without an answer, although its mutation is
  committed.
* `ReplayMeetsLive` says that a joined client was sent everything published after
  the sequence its join started from. Left out are what the retention or the
  replay limit cut off (`beyond`), a fan-out an error ended (`cut`), and what the
  client dropped because a higher number had reached it first (`refused`): the
  number is drawn before the event is logged, so two publishers can be overtaken
  by each other, and replayed events by live ones.
* `StoredSurvives` and `OpenClientsComplete` except `overtaken` appends (see the
  `YjsLostAppend` run), edits whose fan-out was `cut` short and clients whose
  load was `torn` apart by a compaction.
* `LiveKeepsMembership` depends on the ratio of TTL and heartbeat: with one
  interval of slack less it is violated. `EventuallyForgotten` speaks of nodes whose id
  comes back as long as it is needed: only a reconciler of that id reads their index.
  That is what a fixed `NODE_ID` gives; for the deployment that is shipped see the
  `LostNode` run. `MembersAreReachable` and `EventuallyForgotten` are stated for connections whose touch has reached
  Redis (`touched`). `registerConn` ignores the error of the first touch, and a
  crash before the next heartbeat leaves members in no node's index.
* `ThreadsWhole`, `InboxIndexed` and `RegistryWhole` relate records, indexes and
  the keys beside them under every interleaving of three requests. The exceptions
  of `InboxIndexed` (`strays`) are a notification created between `DeleteAll`'s
  read and its MULTI, which is listed nowhere, and an id created again for another
  user during a delete.
* `RevocationHolds`, in `RegistryWhole`, says exactly how far a revocation goes: it
  stays in the record until a verification that had read the key before writes its
  copy back (`racing`), and until then only such verifications accept the key. From
  then on any verification does, which is the `RevokedKey` run.
* `FieldsSurvive` and `UpdatesKept` say a field changes only by a request that
  names it. Without the WATCH of the comment list the former is violated.
* `ReadStaysRead` depends on `MarkThreadRead` raising its time to the thread's.
* `ChangesPublished` holds because the record is reloaded after the commit: the
  last of several events carries the stored record. `DeltasAgree` needs an
  exception (`outdated`), because a delta carries what its request read: one that
  overtakes another leaves the client with the older state; and another for the sockets
  of a user behind one that failed (`missed`).
* `UsageExact` excepts records stored in the other order than their counts
  (`behind`); the next increment repairs them. `AuditComplete` has no exception but
  a failed audit call itself.
* `CursorsKept` is stated for one holder at a time (`shared`): two connections
  with one session overwrite each other's cursors.
* `NothingStranded` and `SettledIsFinal` name a dispatch that was cut off
  (`interrupted`), a delivery with so many newer ones that no scan gets to it
  (`OutOfReach`) and one that two callers had at once (`contested`).
* `PresenceReachable` says that whatever is in the room's members and presence is
  found by a leave, a disconnect or a snapshot, but for presence that a connection
  set without having joined (`unjoined`). `PresenceKept` excepts an id that was set again between a snapshot's lookup and
  its removal (`erased`) and an id used both by a connection and the admin API.
* `PagesComplete` excepts an item removed in front of an offset (`shifted`), and
  filtered rooms beyond the limit of their batch (`trimmed`).
* `MemoryIsRegister` shows that the engine without Redis implements the same
  `StorageSpec` as the cluster. Its `MembersReachLatest` leaves out who is behind a
  failed socket (`missed`), as above.
* `OptimisticAgrees` covers all operations of a patch but the replacement of a list
  element, which is the `PatchReplace` run.

Runs that find the code at odds with the repository's documentation:

| Run | Statement | What the code does |
|---|---|---|
| `StorageConflict` | "When a conflict occurs the storage document is not changed" (v1.md:152) | a committed mutation is answered with `STORAGE_CONFLICT` when a later commit of the same node reached the engine first |
| `YjsLostAppend` | "Client-sent update frames are durable writes" (v1.md:300) | an update whose INCR precedes and whose ZADD follows a compaction at a higher sequence lies below the checkpoint, where no load reads it |
| `PatchReplace` | "applies a JSON Patch operation array atomically. Supported operations: `add`, `remove`, `replace`, …" (v1.md:422) | the server's `replace` of a list element inserts the value before the old one (`addJSONValue`), the client's replaces it; after the acknowledgement the two documents differ |
| `LostNode` | "Expected cleanup time: 45s (TTL) + 30s (reconciler) = ~75s worst case" (runbook.md:97) | a reconciler reads only the index of its own node id, and the deployment takes the id from the pod's name (`deploy/k8s/runtime.yaml:32`), which no later pod has: the members of a lost node's connections stay in their rooms |
| `RevokedKey` | "Revoked keys are rejected immediately" (production-onboarding.md:37) | `VerifyAPIKey` writes the record it has read back with its last use: a revocation in between is overwritten, and later verifications accept the key |

### Bounds

The bounds limit how often clients act and how often something fails, never how
steps interleave. Two connections are enough for a handler to race with
another's; a third (storage, Yjs) gives two on one node and one on another, so
that a local and a remote path are there at once. One failure and one overflow
at every possible point show that a single error is survived; the exceptions
named above are what one error already leaves behind. Three handler calls across
nodes and four on one node allow join, set presence and leave or disconnect
against another connection's join. Two sends of an op id are one retry; three
mutations give a lost race, a false conflict and an admin delete in between. A socket
fails (`MaxClosures`) in behaviours of their own, without a retry and a failed publish,
since nothing repairs either; in `MemoryStorage` two may fail and all mutations be sent
again.
Three admin requests are enough for two to race and a third to come between their
round trips; a request stands for any operation, so every triple of operations
meets at every pair of stages, and one call of them fails. Dead after two attempts
instead of ten and a scan of one delivery make both limits happen: the other URL's
delivery is then out of reach. An edit of a comment is one of body or mentions, so that
two edits are of the same field or of different ones. When one of the two sockets of a user
fails, the other one has or has not been told. Two changes of
a list of four items, at limits of one to three, put a change before, at and
behind every cursor.
Three event joins are two devices and one reconnect; a log of two entries and a
replay of one make trimming and the limit happen. Three Yjs connects are a client that
comes back while another writes, or three clients for two slots; two edits
(`MaxEdits`), of three that differ, are one that is overtaken and one that overtakes.
`CHECK_DEADLOCK FALSE` is set because the bounds exhaust every behaviour and
because a system without clients stops.

Symmetry is used only where no liveness property is checked and the
interchangeable connections have the same node.

### Fairness

`RuntimeFairness`, storage's `Fairness` and `LeaseFairness` say: a goroutine that
can take its next step does (Go's scheduler; every Redis call returns, with a
result or an error), a key without heartbeat expires, and the reconciler's ticker
goes on firing. In `RuntimeRooms` this is asked of each connection's goroutine
alone, nothing of the subscribers. Requests, overflows, failures and crashes are
never fair. Nor is a restart: `EventuallyForgotten` has it as its premise that the node
is up again and again, and `LostNode` checks what the runbook says without it. In
`Storage` a connection that is closed notices it and leaves the engine (`ReadFails`,
`unregisterConn`). All fairness is weak: nothing here
depends on a step that is enabled only now and then. The records and deliveries
are checked for safety only: a request that never goes on is one whose process
stopped.

## 4. Proofs

TLAPS proves these for every value of the constants that the named assumptions
allow (`EngineAssumption`, `RuntimeAssumption`, `ClusterAssumption`,
`EventAssumption`, … in the modules): any finite sets of connections and rooms,
any nodes, limits, numbers of calls, retries, failures and crashes; any requests,
records, users, workers and URLs of the admin API.

| Module | Theorem | Statement |
|---|---|---|
| `RoomEngineProofs` | `EngineInvariant` | `Spec => []IInv` |
| | `MirrorTheorem` | `Spec => []MembershipMirror` |
| | `LimitsTheorem` | `Spec => []LimitsRespected` |
| | `ClosedTheorem` | `Spec => []ClosedLeavesNoTrace` |
| | `AckCursorTheorem` | `Spec => AckCursorMonotone` |
| | `PresenceTheorem` | `Spec => LeavingErasesPresence` |
| `RuntimeProofs` | `RuntimeRunsEngine` | `RuntimeSpec => Spec` |
| | `RuntimeInvariant` | `RuntimeSpec => []RoomsInv` |
| | `StoreAgrees` | `RuntimeSpec => []StoreMatchesEngine` |
| | `ViewsInvariant` | `RuntimeSpec => []ViewsInv` |
| | `ViewsAgree` | `RuntimeSpec => []ViewsConverge` |
| `StorageProofs` | `StorageInvariant` | `Spec => []StoreInv` |
| | `ClusterIsRegister` | `Spec => StorageIsRegister` |
| | `AcknowledgementsTrue` | `Spec => []AcksMatchCommits` |
| | `QuietClientsLatest` | `Spec => []ClientsReachLatest` |
| `MemoryProofs` | `MemoryInvariant` | `MemorySpec => []MemoryInv` |
| | `EngineIsRegister` | `MemorySpec => MemoryIsRegister` |
| | `MemberAnswersTrue` | `MemorySpec => []MemoryAnswers` |
| `EventProofs` | `EventInvariant` | `Spec => []EventInv` |
| | `ReplayMeets` | `Spec => []ReplayMeetsLive` |
| | `AcksArrive` | `Spec => []AcksReachRedis` |
| | `CursorNeverBack` | `Spec => DurableCursorMonotone` |
| `YjsProofs` | `SlotsSound` | `Spec => []SlotsMatchSockets` |
| | `YjsInvariant` | one compactor: `Spec => []YjsInv` |
| | `DocumentKeepsStored` | one compactor: `Spec => []StoredSurvives` |
| | `OpenClientsHaveStored` | one compactor: `Spec => []OpenClientsComplete` |
| `LeaseProofs` | `LeaseInvariant` | `LeaseSpec => []LeaseInv` |
| | `ServedKeepRooms` | `LeaseSpec => [](FewFailures => LiveKeepsMembership)` |
| | `GoneAreReachable` | `LeaseSpec => [](FewFailures => MembersAreReachable)` |
| `RecordProofs` | `ThreadInvariant` | `ThreadSpec => []ThreadInv` |
| | `ThreadKeysTogether` | `ThreadSpec => []ThreadsWhole` |
| | `MarksHold` | `ThreadSpec => []ReadStaysRead` |
| | `LatestPublished` | `ThreadSpec => []ChangesPublished` |
| | `EditsSurvive` | `ThreadSpec => FieldsSurvive` |
| | `ProductsWhole` | `ProductSpec => []RegistryWhole` |
| | `RecordsKeepUpdates` | `ProductSpec => UpdatesKept` |
| | `ProductsAccounted` | `ProductSpec => []LedgerComplete` |
| | `TextsWhole` | `TextSpec => []TextsKept` |
| | `TextsAccounted` | `TextSpec => []LedgerComplete` |
| | `PresenceIsExact` | `PresenceSpec => []PresenceExact` |
| | `PresenceAccounted` | `PresenceSpec => []LedgerComplete` |
| | `InboxInvariant` | `InboxSpec => []InboxInv` |
| | `IndexesExact` | `InboxSpec => []InboxIndexed` |
| | `ClientsFollow` | `InboxSpec => []DeltasAgree` |
| | `SessionsAreSound` | `SessionSpec => []SessionsSound` |
| | `SessionsAccounted` | `SessionSpec => []LedgerComplete` |
| | `DeliveriesAreSound` | `WebhookSpec => DeliveriesSound` |
| | `DeliveriesAccounted` | `WebhookSpec => []LedgerComplete` |

None of the properties is inductive. What makes each of them so:

**Engine.** `ApplyDisconnectPlan` removes the members
of the rooms named in a plan that was made earlier, and then deletes the
connection's own entry whole: the indexes stay equal only if the plan names
exactly the joined rooms. That is `PlanCoversMembership`, which holds because a
connection that holds a plan makes no other call. `SessionLifecycle` (a
connection without session is in no room, and an id is not used again) is needed
for `ClosedLeavesNoTrace`, and `AcksOnlyForJoined` for its cursors. The limits
need the finiteness of the room sets (`FiniteMembership`) and `LimitKept`, what
adding one element below a limit does. `IInv` is their conjunction with
`TypeOK`. One lemma per conjunct shows that a step keeps it, with a step per
action; `JoinEffect`, `LeaveEffect`, `DisconnectEffect` and `MembershipFrame` say
once what the actions do to the indexes. The action properties follow from
`IInv` and one step.

**Handlers.** `HandlersUseEngine` shows that every step of a handler, a fan-out or
a subscriber is one operation of the engine or none, so `RuntimeSpec => Spec`, and
`IInv` holds under the runtime. In the middle of a handler Redis and the engine
differ. `RoomsInv` says at which room, stage by stage (`StoreOf`): in `joinStore`
Redis lacks the room that was joined; between `LeaveStore` and `Apply` it has
left the room of the plan already; between `PresenceStore` and `Apply` it has the
plan's payload already. That the plan is still about this room is what makes
`Apply` restore the agreement. A failure goes to `closing`, where nothing is
claimed but that Redis's two indexes mirror each other, which is what
`CleanupConnection` needs to find everything.

**Views.** `ViewsConverge` compares two things no step writes together: what `d` shows
of `c`, and what `c`'s engine has. `ViewsInv` follows a change from one to the other.
An event of `c` for `d` is in the channel of `d`'s node (`Carries`), or in the hands of
the goroutine that fans it out (`InHand`): `c`'s own on the same node, the subscriber
of `d`'s node otherwise. `Published`, `Handed`, `ShownRight`: the last event in the
channel is right, the one in hand is if the channel has none, and the view is if
there is neither. `Right` says what that means while a handler is in the middle: a
leave or presence update is published before the engine applies it, so the other
nodes are ahead of it (`Ahead`), and between `ApplyDisconnectPlan` and the offline
event nothing is claimed of a room still in the job (`Due`). For a view to be told,
the targets fixed when the plan was made must still be enough: `TargetsOf`, except of
joins in `overlap`. A join's snapshot comes from Redis, so `RoomsInv` is what makes it
right (`SettledStore`), and it stays right until it is shown because whoever changes
meanwhile overlaps (`Snapped`, `OverlapsKnown`). Most steps send and show nothing and
are `Quiet`, and one lemma (`QuietShow`) is enough for all of them; the others have one
each, in two parts: `FanInv`, who is told of whom, and `ShowInv`, what of.

**Storage.** `StoreInv` relates four places to the committed mutations: the records
in Redis (an op record exactly for what committed, with its sequence and
document), a transaction in `exec` that no write has made stale (it still holds the
current document), the messages under way, and the copies in engines and clients
(never ahead). The document after each commit is a recursive function over the
log; a theorem about it would need induction over data. `Replayable` avoids that:
that the recursion has exactly one solution is itself a conjunct of the
invariant, kept by each commit, so the induction is over steps. `LatestReaches`
says on which way the last commit still reaches each client, and is what
`ClientsReachLatest` needs; once a fan-out has ended before it, the client is among
the `missed` of that commit, and the invariant goes on with who was told. Sockets only
ever close, so a client that is open has been so at every fan-out. `MemoryInv` is the same idea with the mutex in place of
the transactions. Both refinements map each step to a step of `StorageSpec` or to a
stutter.

**Events.** `EventInv` follows every published sequence that a client is owed
through the hands that carry it: the snapshot its join replays from, the channel
of its node, a fan-out with the client among its targets, or `got` and `refused`.
A published event that a join's read of the log missed is one that was published
after the client became a member, and is therefore in the channel or in a
fan-out. Likewise each acknowledgement is in the inbox, in the handler's hand or
covered by the durable cursor, which `AckStore` writes only if nobody else wrote
the hash since `AckWatch`.

**Yjs.** `SlotsInv` needs no assumption on the compactors. The rest is for at most
one, as `deploy/k8s/yjs-compactor.yaml:10` runs it. Its snapshot is then the one in
Redis while it works (`CompactorSound`), and each stored edit is in the snapshot,
above its checkpoint, or `overtaken`. `ReachInv` gives for every client and every
stored edit the way it comes: loaded, above the checkpoint the load will start
from, or on its way as a frame.

**Leases.** A lease is three heartbeats, one of which may be under way when the
key expires, so it takes two failed touches to lose it: `LeaseHeld` keeps account of
`lease[c] + failures`. `FewFailures` is `failures < TTLBeats - 1`, counted over the
whole behaviour. The bound is exact: TLC finds `LiveKeepsMembership` violated with
two failures. `RoundsStale` says that a reconciler never holds a served connection,
`RoomsRead` that what a cleanup has read is still what it has to remove.

**Admin requests.** A request reads, and writes later what it made of its reads.
What it knows in between is the heart of every invariant here, and there are two
kinds of it. Under WATCH, a transaction that is not `stale` still sees what it
read (`ReadHolds` of a thread, `ProductRequestSound`, `InboxRequestSound`):
`OthersKeepUnder(r, keys)`, which every operation's lemma delivers, says that a
step of `r` leaves the other requests where they are, and whoever watches one of
the keys it wrote is stale afterwards. So the reads hold, since the records of
other keys have not changed. Without WATCH a weaker fact is left, and the proof
turns on which:

* *Threads.* A request between commit and publish either still has to load the
  record, or has loaded a header and comments that are the stored ones; otherwise
  another request, which committed later, has that duty (`Publishes`). So the
  latest change of a thread always has a request that will publish it as it is.
* *Inbox.* `DeltaRight`: a delta under way is about the user it names and tells
  what the store holds, unless the pair is in `outdated`. `DeltasAgree` holds for each
  pair and socket because of it: the socket shows the latest delta, or is in `missed`
  until one reaches it.
* *Products.* A verification that goes on to write the key back knows only that
  it is stored with the fields it read, not that it is not revoked; `racing` names
  those that were so when a revocation committed. `RevocationHolds` is inductive with
  that: `revocation[k]` leaves `committed` only by the write of one of them.
* *Rich text.* An upsert's creation time is among the first ones (`CreatedRight`).
* *Presence.* A snapshot's members are connected, were alive after it started, or
  are still to be looked up. An id in the hash is joined, listed as ephemeral, or in
  `unjoined`, which only a join or a removal of it ends.
* *Resume sessions.* While `shared` is false there is one holder, and its copy has
  a cursor at least for every room of the record, the highest (`Covers`); so what
  it writes back loses nothing. With two holders there is no such fact, and
  `CursorsKept` fails for them.
* *Webhooks.* `TruthInv`: every copy in a request's or worker's hands claims no more
  than was posted and accepted, so whichever is written last is truthful.
  `AnchorInv`: every open record is in the index or its dispatcher is about to put
  it there. `HandsInv`: a record that nobody contests is in at most one pair of
  hands, and is open while a dispatcher or worker has it; so only a contested copy
  can put an older outcome over a settled one.
* *Ledger.* `LedgerInv` is one invariant for all seven specifications. A request that
  owes is at a stage from which it still reaches the audit log, or `skipped` says
  that a call failed.

`ProductAssumption` says that a product with a parent is a project of a tenant or a
key of a project, `WebhookAssumption` that there is at least one URL and that the
limits are not zero.

The inductive invariants of the engine, the handlers, the views, storage, events, Yjs
and leases were checked by TLC on the instances of their runs before they were proved,
but for `Replayable`, which quantifies over functions.

Only model-checked:

* liveness (`RequestsAnswered`, `EventuallyForgotten`, `DisconnectCompletes`) and
  `ENABLED`, which are out of the prover's reach;
* what the recursive operators of `JsonPatch` compute, and what a client's optimistic
  document holds while its own mutations are pending (`Rebased`): induction over
  data. Its operators are RECURSIVE, so `OptimisticAgrees` and `UndoRestores` are
  TLC's alone;
* `PagesCover`: its lists are sorted, filtered and shortened by `SortSeq`,
  `SetToSortSeq`, `SelectSeq` and `Remove`, and what these compute for a list of any
  length (that a finite set has a sorting, already) is induction over data too.

## 5. Not modelled

* Authorization (`roomengine/authorization.go`, `auth/verifier.go`): a predicate of
  one request and one record, without state; token verification is cryptography
  and HTTP.
* Parsing and validation of single messages and queries, encodings of records,
  configuration, metrics and statistics, status pages and dashboards, the dev
  server and the probe, React hooks and the rich-text editor: no state that
  several steps could bring out of order.
* Single-key records that are written and read whole (notification and
  subscription settings), except for the paged list of the latter.
* Yjs awareness, the provider's offline store, the Yjs documents of an engine
  without Redis, and the rate limits: the frames they carry or refuse are the
  ones of `YjsLog`.
* In the client: backoff and timers, batches of the storage history, REST clients.

Observations that no run states:

* The offline event's local targets are fixed before Redis is changed: a
  connection that joins in between and has read the old snapshot shows the
  departed member until its next join (`overlap`).
* A peer's full queue ends the fan-out and the sender's handler with an error, and the
  sender is disconnected (`broadcastPresenceFanout`, `broadcastStorageFanout`,
  `handleWS`). The peers after it miss a storage update until the next one, and the
  sender of a committed mutation gets no acknowledgement. A notification's delta misses
  the user's other sockets the same way, until the inbox is loaded again.
* `PRESENCE_SET` from a connection that has not joined the room is written to Redis, and
  its disconnect, which goes through the rooms it has joined, leaves it there for ever
  (`unjoined`).
* A client whose acknowledgement arrives after a newer update ignores it and
  with it the correction of its optimistic document
  (`applyAuthoritativeStorageMessage`); `ClientsReachLatest` therefore speaks of
  the document only for clients that sent nothing.
* A client drops an event that a higher one overtook and acknowledges the higher
  one, so no replay brings it back (`refused`). Storage updates shorten the replay
  window, since they count towards the retention and the replay limit (`beyond`).
* A Yjs load torn apart by a compaction misses what was compacted (`torn`).
* A thread's `updated_at` is the time its request took before the transaction, so
  it may move back. Two comment events may reach a client in the other order than
  their commits; they carry no version.
* A notification created while all of a user's are deleted keeps its record and
  is listed nowhere (`strays`).
* A client may store a version under an existing id and replaces that version.
* A dispatch that is cut off leaves its delivery `pending`, and workers list only
  `failed` ones, among the newest three times their limit and one: behind that many newer
  deliveries of any status a failed one is not tried again, where
  docs/protocol/v1.md:560-561 says that failed deliveries "are also retried by the admin
  background retry worker". Two workers with copies
  of one delivery overwrite each other's outcome, and a dead-letter by hand may be
  overwritten by an attempt under way.
* Presence set again between a snapshot's lookup and its removal is removed;
  presence under the id of a joined connection takes its membership away when it
  expires; an expiry is not published, so clients show it until their next join.
* A list by offset passes over an item when one in front of it is deleted, and a
  filtered list of rooms drops the matches of a batch beyond the limit of the page.
* The server's `move` ignores a failed removal of its source
  (`withoutSource, _`), which only happens for the root.

## 6. Plan

Built in this order: `RoomEngine` and its proofs, `RuntimeRooms` on top of it,
`StorageSpec` with `StorageCluster`, `YjsLog`, `ConnectionLease`, `EventLog`; then
`AdminRequests` with the record stores, `ResumeSession`, `WebhookDelivery`,
`MemoryStorage`, `JsonPatch`, `Paging` and `EphemeralPresence`. The proofs followed:
the engine and its use by the handlers, both storage refinements, the Yjs log, the
leases and the room events, then the records, sessions and deliveries, and the
clients' views. Every safety property of a run is now proved but those that section 4
leaves to TLC.
