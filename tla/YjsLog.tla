------------------------------- MODULE YjsLog -------------------------------
(***************************************************************************)
(* The durable Yjs document of one room:                                   *)
(*  - the sequenced update log and the snapshot in Redis                   *)
(*    (server/internal/cluster/redis.go: AppendYJSUpdate, LoadYJSDocument);*)
(*  - the Yjs socket handler of the runtime                                *)
(*    (server/internal/runtime/service.go: handleYJS, storeYJSEvent,       *)
(*    broadcastYJSFanout, handleClusterYJSEvent);                          *)
(*  - the client provider (packages/yjs/src/index.ts);                     *)
(*  - the compactor (packages/yjs-compactor/src).                          *)
(*                                                                         *)
(* Yjs merges updates in any order and repeated any number of times, so a  *)
(* document is the set of the edits it contains, and a frame carries a set *)
(* of edits: one, or the provider's whole state after it was offline.      *)
(* The handler is cut at each Redis round trip and each fan-out. Appending *)
(* is two round trips (INCR, then ZADD); so is loading (the snapshot, then *)
(* the updates after its checkpoint). The compactor's MULTI is atomic.     *)
(* A provider has one socket at a time.                                    *)
(***************************************************************************)
EXTENDS Naturals, Sequences, FiniteSets, FiniteSetsExt

CONSTANTS
    Clients, Nodes, NodeOf,
    Edits,           \* edits that clients make
    Subdocs,         \* edits of subdocuments: 0x05 frames, never compacted
    Compactors,
    MinUpdates,      \* the compactor skips rooms with fewer updates
    RoomConnections, \* limit on Yjs sockets of the room per node, 0: none
    MaxEdits,        \* bound: edits of a behaviour
    MaxConnects,     \* bound: connects of a behaviour
    MaxFailures      \* bound: failures of a behaviour

ASSUME YjsAssumption ==
    /\ NodeOf \in [Clients -> Nodes]
    /\ IsFiniteSet(Clients) /\ IsFiniteSet(Edits)
    /\ Subdocs \subseteq Edits
    /\ MinUpdates \in Nat /\ RoomConnections \in Nat
    /\ MaxEdits \in Nat /\ MaxConnects \in Nat /\ MaxFailures \in Nat

VARIABLES
    sequence,   \* Redis: the room's update counter
    updates,    \* Redis: the sorted set of updates
    snapshot,   \* Redis: the snapshot record
    yjsRooms,   \* engine: sockets reserved in the room
    yjsConns,   \* runtime: sockets that frames are sent to
    down,       \* sockets closed by a full queue, not yet unregistered
    stage,      \* stage[c]: where c's handler is
    work,       \* work[c]: the update being stored, or the snapshot read
    channel,    \* channel[n]: published frames n has not handled yet
    doc,        \* doc[c]: edits in the client's document
    inflight,   \* inflight[c]: frames sent and not yet read by the handler
    dirty,      \* dirty[c]: edits made offline, not sent yet
    cstage,     \* cstage[k]: where compactor k is
    cload,      \* cload[k]: what compactor k has read and merged
    connects, failures,
    stored,     \* history: edits of updates whose ZADD has happened
    overtaken,  \* history: edits whose ZADD was outstanding when a compactor
                \* read a higher sequence
    cut,        \* history: edits whose fan-out was cut short
    torn        \* history: clients whose load a compaction ran through

redisVars == <<sequence, updates, snapshot>>
sockVars  == <<yjsRooms, yjsConns, down>>
nodeVars  == <<sockVars, stage, work, channel>>
provVars  == <<doc, inflight, dirty>>
compVars  == <<cstage, cload>>
countVars == <<connects, failures>>
histVars  == <<stored, overtaken, cut, torn>>

yjsVars == <<redisVars, nodeVars, provVars, compVars, countVars, histVars>>

-----------------------------------------------------------------------------
Update   == [seq : Nat, edits : SUBSET Edits]
Snapshot == [checkpoint : Nat, edits : SUBSET Edits]

NoUpdate == [seq |-> 0, edits |-> {}]
NoSnap   == [checkpoint |-> 0, edits |-> {}]

Stages == {"off", "reserved", "loading", "replay", "send", "open", "append", "relay",
           "publish"}

TypeOK ==
    /\ sequence \in Nat
    /\ updates \subseteq Update
    /\ snapshot \in Snapshot
    /\ yjsConns \subseteq yjsRooms /\ yjsRooms \subseteq Clients
    /\ down \subseteq yjsConns
    /\ stage \in [Clients -> Stages]
    /\ work \in [Clients -> Update]
    /\ channel \in [Nodes -> Seq(SUBSET Edits)]
    /\ doc \in [Clients -> SUBSET Edits]
    /\ inflight \in [Clients -> Seq(SUBSET Edits)]
    /\ dirty \in [Clients -> SUBSET Edits]
    /\ cstage \in [Compactors -> {"idle", "snapshot", "store"}]
    /\ cload \in [Compactors -> Snapshot]
    /\ connects \in 0..MaxConnects /\ failures \in 0..MaxFailures
    /\ stored \subseteq Edits /\ overtaken \subseteq Edits /\ cut \subseteq Edits
    /\ torn \subseteq Clients

Init ==
    /\ sequence = 0 /\ updates = {} /\ snapshot = NoSnap
    /\ yjsRooms = {} /\ yjsConns = {} /\ down = {}
    /\ stage = [c \in Clients |-> "off"]
    /\ work = [c \in Clients |-> NoUpdate]
    /\ channel = [n \in Nodes |-> << >>]
    /\ doc = [c \in Clients |-> {}]
    /\ inflight = [c \in Clients |-> << >>]
    /\ dirty = [c \in Clients |-> {}]
    /\ cstage = [k \in Compactors |-> "idle"]
    /\ cload = [k \in Compactors |-> NoSnap]
    /\ connects = 0 /\ failures = 0
    /\ stored = {} /\ overtaken = {} /\ cut = {} /\ torn = {}

-----------------------------------------------------------------------------
(* Provider                                                                *)

Online(c) == stage[c] \notin {"off", "reserved"}

\* handleLocalUpdate: an edit is sent as a frame of its own on an open
\* socket, and otherwise waits for the next open.
Edit(c, e) ==
    /\ \A d \in Clients : e \notin doc[d]
    /\ Cardinality(UNION {doc[d] : d \in Clients}) < MaxEdits
    /\ doc' = [doc EXCEPT ![c] = @ \cup {e}]
    /\ IF Online(c)
       THEN inflight' = [inflight EXCEPT ![c] = Append(@, {e})] /\ UNCHANGED dirty
       ELSE dirty' = [dirty EXCEPT ![c] = @ \cup {e}] /\ UNCHANGED inflight
    /\ UNCHANGED <<redisVars, nodeVars, compVars, countVars, histVars>>

\* flushPendingLocalSync, flushPendingLocalSubdocSync: the whole state of
\* each document that was edited offline.
Flush(c) ==
    LET state(es) == IF dirty[c] \cap es = {} THEN << >> ELSE <<doc[c] \cap es>>
    IN  state(Edits \ Subdocs) \o state(Subdocs)

\* A state-vector request of c is answered by d; the diff is relayed to
\* every socket of the room and stored nowhere.
Sync(c, d) ==
    /\ c # d /\ stage[c] = "open" /\ stage[d] = "open"
    /\ doc' = [x \in Clients |-> IF x \in yjsConns \ down THEN doc[x] \cup (doc[d] \ doc[c])
                                 ELSE doc[x]]
    /\ doc' # doc
    /\ UNCHANGED <<redisVars, nodeVars, inflight, dirty, compVars, countVars, histVars>>

-----------------------------------------------------------------------------
(* Socket handler                                                          *)

Below(limit, n) == limit = 0 \/ n < limit

\* RegisterYJSSessionWithLimit: a slot of the room is taken before the
\* upgrade.
Reserve(c) ==
    /\ stage[c] = "off" /\ connects < MaxConnects
    /\ Below(RoomConnections, Cardinality({d \in yjsRooms : NodeOf[d] = NodeOf[c]}))
    /\ yjsRooms' = yjsRooms \cup {c}
    /\ stage' = [stage EXCEPT ![c] = "reserved"]
    /\ connects' = connects + 1
    /\ UNCHANGED <<redisVars, yjsConns, down, work, channel, provVars, compVars, failures, histVars>>

\* Faulty variant: the slot stays taken.
UpgradeFailsLeaks(c) ==
    /\ stage[c] = "reserved"
    /\ stage' = [stage EXCEPT ![c] = "off"]
    /\ UNCHANGED <<redisVars, sockVars, work, channel, provVars, compVars, countVars, histVars>>

UpgradeFails(c) ==
    /\ stage[c] = "reserved"
    /\ yjsRooms' = yjsRooms \ {c}
    /\ stage' = [stage EXCEPT ![c] = "off"]
    /\ UNCHANGED <<redisVars, yjsConns, down, work, channel, provVars, compVars, countVars, histVars>>

\* The socket receives live frames from here on, before it has loaded.
Register(c) ==
    /\ stage[c] = "reserved"
    /\ yjsConns' = yjsConns \cup {c}
    /\ stage' = [stage EXCEPT ![c] = "loading"]
    /\ inflight' = [inflight EXCEPT ![c] = Flush(c)]
    /\ dirty' = [dirty EXCEPT ![c] = {}]
    /\ UNCHANGED <<redisVars, yjsRooms, down, work, channel, doc, compVars, countVars, histVars>>

\* LoadYJSDocument, first round trip: the snapshot and its checkpoint.
LoadSnapshot(c) ==
    /\ stage[c] = "loading"
    /\ work' = [work EXCEPT ![c] = [seq |-> snapshot.checkpoint, edits |-> snapshot.edits]]
    /\ stage' = [stage EXCEPT ![c] = "replay"]
    /\ UNCHANGED <<redisVars, sockVars, channel, provVars, compVars, countVars, histVars>>

\* The updates of the log after a checkpoint.
After(checkpoint) == {u \in updates : u.seq > checkpoint}

Merged(us) == UNION {u.edits : u \in us}

\* Second round trip: the updates after that checkpoint.
LoadUpdates(c) ==
    /\ stage[c] = "replay"
    /\ work' = [work EXCEPT ![c].edits = @ \cup Merged(After(work[c].seq))]
    /\ stage' = [stage EXCEPT ![c] = "send"]
    /\ UNCHANGED <<redisVars, sockVars, channel, provVars, compVars, countVars, histVars>>

\* The client gets what was loaded, beside the live frames.
SendInitialYJSDocument(c) ==
    /\ stage[c] = "send"
    /\ doc' = IF c \in down THEN doc ELSE [doc EXCEPT ![c] = @ \cup work[c].edits]
    /\ work' = [work EXCEPT ![c] = NoUpdate]
    /\ stage' = [stage EXCEPT ![c] = "open"]
    /\ UNCHANGED <<redisVars, sockVars, channel, inflight, dirty,
                   compVars, countVars, histVars>>

\* A durable frame is read and its sequence drawn.
Receive(c) ==
    /\ stage[c] = "open" /\ inflight[c] # << >>
    /\ sequence' = sequence + 1
    /\ work' = [work EXCEPT ![c] = [seq |-> sequence + 1, edits |-> Head(inflight[c])]]
    /\ inflight' = [inflight EXCEPT ![c] = Tail(@)]
    /\ stage' = [stage EXCEPT ![c] = "append"]
    /\ UNCHANGED <<updates, snapshot, sockVars, channel, doc, dirty,
                   compVars, countVars, histVars>>

AppendYJSUpdate(c) ==
    /\ updates' = updates \cup {work[c]}
    /\ stored' = stored \cup work[c].edits

StoreUpdate(c) ==
    /\ stage[c] = "append"
    /\ AppendYJSUpdate(c)
    /\ stage' = [stage EXCEPT ![c] = "relay"]
    /\ UNCHANGED <<sequence, snapshot, sockVars, work, channel, provVars,
                   compVars, countVars, overtaken, cut, torn>>

-----------------------------------------------------------------------------
(* Fan-out and the end of a socket                                         *)

\* unregisterYJSConn. Frames the handler has not read are lost; the provider
\* does not send them again.
Unregister(c) ==
    /\ yjsConns' = yjsConns \ {c}
    /\ yjsRooms' = yjsRooms \ {c}
    /\ stage' = [stage EXCEPT ![c] = "off"]
    /\ work' = [work EXCEPT ![c] = NoUpdate]
    /\ inflight' = [inflight EXCEPT ![c] = << >>]
    /\ torn' = torn \ {c}

Failure == failures < MaxFailures /\ failures' = failures + 1 /\ UNCHANGED connects

\* Faulty variant: sockets that are still loading get no live frames.
LoadedTargets(n, origin) ==
    {c \in yjsConns \ origin : NodeOf[c] = n /\ stage[c] \notin {"loading", "replay", "send"}}

\* The sockets of node n that a frame from origin goes to.
Targets(n, origin) == {c \in yjsConns \ origin : NodeOf[c] = n}

Deliver(cs, edits) ==
    doc' = [c \in Clients |-> IF c \in cs THEN doc[c] \cup edits ELSE doc[c]]

\* broadcastYJSFanout. A frame for a closed socket is either accepted and
\* never written, or an error;
FanOut(n, edits, origin) ==
    /\ Deliver(Targets(n, origin) \ down, edits)
    /\ UNCHANGED <<countVars, cut>>

\* the first error, that of a closed socket or of one whose queue is full and
\* which is closed for it, ends the fan-out.
FanOutFails(n, edits, origin, closed) ==
    /\ \E got \in SUBSET (Targets(n, origin) \ (down \cup closed)) : Deliver(got, edits)
    /\ cut' = cut \cup edits
    /\ \/ closed = {} /\ Targets(n, origin) \cap down # {} /\ UNCHANGED countVars
       \/ /\ Failure
          /\ \E d \in Targets(n, origin) \ down : closed = {d}

Relay(c) ==
    /\ stage[c] = "relay"
    /\ FanOut(NodeOf[c], work[c].edits, {c})
    /\ stage' = [stage EXCEPT ![c] = "publish"]
    /\ UNCHANGED <<redisVars, sockVars, work, channel, inflight, dirty,
                   compVars, stored, overtaken, torn>>

\* The handler returns the error: nothing is published.
RelayFails(c, closed) ==
    /\ stage[c] = "relay"
    /\ FanOutFails(NodeOf[c], work[c].edits, {c}, closed)
    /\ Unregister(c)
    /\ down' = (down \cup closed) \ {c}
    /\ UNCHANGED <<redisVars, channel, dirty, compVars, stored, overtaken>>

PublishYJSEvent(c) ==
    /\ stage[c] = "publish"
    /\ channel' = [n \in Nodes |-> IF n = NodeOf[c] THEN channel[n]
                                   ELSE Append(channel[n], work[c].edits)]
    /\ work' = [work EXCEPT ![c] = NoUpdate]
    /\ stage' = [stage EXCEPT ![c] = "open"]
    /\ UNCHANGED <<redisVars, sockVars, provVars, compVars, countVars, histVars>>

HandleClusterYJSEvent(n) ==
    /\ channel[n] # << >>
    /\ \/ FanOut(n, Head(channel[n]), {}) /\ UNCHANGED down
       \/ \E closed \in {{}} \cup {{d} : d \in Clients} :
            /\ FanOutFails(n, Head(channel[n]), {}, closed)
            /\ down' = down \cup closed
    /\ channel' = [channel EXCEPT ![n] = Tail(@)]
    /\ UNCHANGED <<redisVars, yjsRooms, yjsConns, stage, work, inflight, dirty,
                   compVars, stored, overtaken, torn>>

\* The read loop ends: the peer closed, or the socket was closed here.
Drop(c) ==
    /\ stage[c] \in {"loading", "replay", "send", "open"}
    /\ Unregister(c)
    /\ down' = down \ {c}
    /\ UNCHANGED <<redisVars, channel, doc, dirty, compVars, countVars, stored, overtaken, cut>>

\* ZADD returns an error; it may have happened.
StoreFails(c) ==
    /\ stage[c] = "append" /\ Failure
    /\ \/ AppendYJSUpdate(c)
       \/ UNCHANGED <<updates, stored>>
    /\ cut' = cut \cup work[c].edits
    /\ Unregister(c)
    /\ down' = down \ {c}
    /\ UNCHANGED <<sequence, snapshot, channel, doc, dirty, compVars, overtaken>>

PublishFails(c) ==
    /\ stage[c] = "publish" /\ Failure
    /\ cut' = cut \cup work[c].edits
    /\ Unregister(c)
    /\ down' = down \ {c}
    /\ UNCHANGED <<redisVars, channel, doc, dirty, compVars, stored, overtaken>>

-----------------------------------------------------------------------------
(* Compactor                                                               *)

ReadSnapshot(k) ==
    /\ cstage[k] = "idle"
    /\ cload' = [cload EXCEPT ![k] = snapshot]
    /\ cstage' = [cstage EXCEPT ![k] = "snapshot"]
    /\ UNCHANGED <<redisVars, nodeVars, provVars, countVars, histVars>>

\* compactRoom skips a room with subdocument updates, with none, or with
\* fewer than the threshold.
Compactable(us) ==
    /\ Merged(us) \cap Subdocs = {}
    /\ us # {}
    /\ Cardinality(us) >= MinUpdates

\* Faulty variant: the checkpoint is the counter.
CheckpointAtCounter(us) == sequence

\* compactYjsDocument: the checkpoint is the highest sequence merged.
Checkpoint(us) == Max({u.seq : u \in us})

ReadUpdates(k) ==
    LET us == After(cload[k].checkpoint) IN
    /\ cstage[k] = "snapshot"
    /\ \/ /\ Compactable(us)
          /\ cload' = [cload EXCEPT ![k] = [checkpoint |-> Checkpoint(us),
                                            edits |-> @.edits \cup Merged(us)]]
          /\ cstage' = [cstage EXCEPT ![k] = "store"]
          /\ overtaken' = overtaken \cup
               Merged({work[c] : c \in {d \in Clients : /\ stage[d] = "append"
                                                        /\ work[d].seq < Checkpoint(us)}})
       \/ /\ ~Compactable(us)
          /\ cload' = [cload EXCEPT ![k] = NoSnap]
          /\ cstage' = [cstage EXCEPT ![k] = "idle"]
          /\ UNCHANGED overtaken
    /\ UNCHANGED <<redisVars, nodeVars, provVars, countVars, stored, cut, torn>>

Compact(k) ==
    /\ cstage[k] = "store"
    /\ snapshot' = cload[k]
    /\ updates' = After(cload[k].checkpoint)
    /\ cload' = [cload EXCEPT ![k] = NoSnap]
    /\ cstage' = [cstage EXCEPT ![k] = "idle"]
    /\ torn' = torn \cup {c \in Clients : stage[c] = "replay"}
    /\ UNCHANGED <<sequence, nodeVars, provVars, countVars, stored, overtaken, cut>>

\* A Redis error: compactRoomWithRetry, or the next round, starts over.
CompactFails(k) ==
    /\ cstage[k] # "idle" /\ Failure
    /\ cload' = [cload EXCEPT ![k] = NoSnap]
    /\ cstage' = [cstage EXCEPT ![k] = "idle"]
    /\ UNCHANGED <<redisVars, nodeVars, provVars, histVars>>

-----------------------------------------------------------------------------
Handler(c) ==
    \/ Register(c) \/ LoadSnapshot(c) \/ LoadUpdates(c) \/ SendInitialYJSDocument(c)
    \/ Receive(c) \/ StoreUpdate(c) \/ Relay(c) \/ PublishYJSEvent(c)

Next ==
    \/ \E c \in Clients : \/ Handler(c) \/ Reserve(c) \/ UpgradeFails(c) \/ Drop(c)
                          \/ StoreFails(c) \/ PublishFails(c)
                          \/ \E closed \in {{}} \cup {{d} : d \in Clients} : RelayFails(c, closed)
    \/ \E c, d \in Clients : Sync(c, d)
    \/ \E c \in Clients, e \in Edits : Edit(c, e)
    \/ \E n \in Nodes : HandleClusterYJSEvent(n)
    \/ \E k \in Compactors : ReadSnapshot(k) \/ ReadUpdates(k) \/ Compact(k) \/ CompactFails(k)

Spec == Init /\ [][Next]_yjsVars

-----------------------------------------------------------------------------
(* Properties                                                              *)

\* What a client that loads now is sent.
Document == snapshot.edits \cup Merged(After(snapshot.checkpoint))

\* With one compactor, whatever it runs into, a stored edit stays in the
\* document, except one whose ZADD was outstanding when the compactor read a
\* higher sequence.
StoredSurvives == stored \ overtaken \subseteq Document

Quiet ==
    /\ \A c \in Clients : stage[c] \in {"off", "open"} /\ inflight[c] = << >>
    /\ down = {}
    /\ \A n \in Nodes : channel[n] = << >>

\* A socket is registered for live frames before it loads, so once nothing is
\* under way it has every stored edit, whatever was appended during its load:
\* except edits whose fan-out was cut short, edits a compactor overtook, and
\* clients whose load a compaction ran through.
OpenClientsComplete ==
    Quiet => \A c \in Clients :
                stage[c] = "open" /\ c \notin torn
                    => stored \ (overtaken \cup cut) \subseteq doc[c]

\* The room's slots are taken by exactly the sockets that are being set up or
\* served, on every path out of the handler, and never exceed the limit.
SlotsMatchSockets ==
    /\ yjsRooms = {c \in Clients : stage[c] # "off"}
    /\ RoomConnections > 0 =>
         \A n \in Nodes : Cardinality({c \in yjsRooms : NodeOf[c] = n}) <= RoomConnections

\* The protocol's promise about update frames: they are durable writes.
UpdatesAreDurable == stored \subseteq Document
=============================================================================
