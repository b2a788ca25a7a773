------------------------------ MODULE EventLog -------------------------------
(***************************************************************************)
(* The events of one room: how they are numbered, logged, published,       *)
(* fanned out, replayed on join and acknowledged.                          *)
(*  - server/internal/cluster/redis.go: PublishEvent, ListPublishedEvents, *)
(*    GetRoomEventAck, SetRoomEventAck;                                    *)
(*  - server/internal/runtime/service.go: handleEmit, handleJoin with its  *)
(*    replay, handleEventAck, handleClusterEvent, broadcastEventFanout;    *)
(*  - server/internal/admin/service.go: handlePublish;                     *)
(*  - the client's cursor and acknowledgements                             *)
(*    (packages/client/src/index.ts).                                      *)
(*                                                                         *)
(* A socket's goroutine takes its messages in order. Handlers are cut at   *)
(* each Redis round trip, each engine call and each enqueue. PublishEvent  *)
(* draws the sequence with INCR and then logs and publishes in one MULTI.  *)
(* A client reads its queue in order, so an event takes effect at the      *)
(* client when it is enqueued. Storage updates share the log under their   *)
(* own sequence. Resume sessions are not used here.                        *)
(***************************************************************************)
EXTENDS Naturals, Sequences, FiniteSets, FiniteSetsExt

CONSTANTS
    Clients, Nodes, NodeOf,
    Users, UserOf,   \* the subject a client authenticates as
    Events, Emitter, \* Emitter[e]: the client that emits e, or Admin
    Admin,
    Storage,         \* a storage update in the log
    MaxLog,          \* eventLogMaxEntries
    MaxReplay,       \* eventCatchupMaxEvents
    MaxAttempts,     \* attempts of SetRoomEventAck
    MaxJoins,        \* bound: joins of a behaviour
    MaxFailures,     \* bound: failed Redis calls of a behaviour
    MaxUpdates       \* bound: storage updates of a behaviour

ASSUME EventAssumption ==
    /\ NodeOf \in [Clients -> Nodes] /\ UserOf \in [Clients -> Users]
    /\ Admin \notin Clients /\ Clients \cap Nodes = {}
    /\ Emitter \in [Events -> Clients \cup {Admin}]
    /\ Storage \notin Events
    /\ MaxLog \in Nat \ {0} /\ MaxReplay \in Nat \ {0} /\ MaxAttempts \in Nat \ {0}
    /\ MaxJoins \in Nat /\ MaxFailures \in Nat /\ MaxUpdates \in Nat

VARIABLES
    counter,   \* Redis: the room's event sequence
    log,       \* Redis: the sorted set of logged events
    durable,   \* Redis: durable[u], acknowledged sequence of a user
    members,   \* engines: clients that have joined the room
    stage,     \* stage[q]: where the goroutine of a client or of the admin is
    inbox,     \* inbox[c]: messages c's goroutine has not read yet
    work,      \* work[q]: the event being published, or the ack being stored
    after,     \* after[c]: the sequence a join replays from
    replay,    \* replay[c]: logged events a join has still to send
    watched,   \* watched[c]: the acknowledgements read under WATCH
    attempts,  \* attempts[c]: failed attempts to store the ack
    channel,   \* channel[n]: published events n has not handled yet
    msg,       \* msg[p]: the event goroutine p is fanning out
    out,       \* out[p]: targets p has not enqueued to yet
    last,      \* last[c]: the client's latest event sequence
    joins, failures, updates, \* counters for the bounds
    emitted,   \* history: events their emitter has sent
    published, \* history: sequences that were logged and published
    got,       \* got[c]: history: sequences the client passed on
    session,   \* session[c]: history: those of its current socket
    from,      \* from[c]: history: its socket is owed what comes after this
    refused,   \* refused[c]: history: sequences below the client's latest
    beyond,    \* beyond[c]: history: trimmed, or more than a replay reads
    cut        \* history: sequences whose fan-out was cut short

redisVars  == <<counter, log, durable, published>>
handlerVars == <<work, after, replay, watched, attempts>>
fanVars    == <<channel, msg, out>>
clientVars == <<last, got, session, refused>>
countVars  == <<joins, failures, updates>>
oweVars    == <<from, beyond>>

eventVars == <<redisVars, members, stage, inbox, handlerVars, fanVars, clientVars,
               countVars, oweVars, emitted, cut>>

-----------------------------------------------------------------------------
Procs == Clients \cup Nodes

Entry == [seq : Nat, ev : Events \cup {Storage}]

NoEntry == [seq |-> 0, ev |-> Storage]

\* What a client sends once it is connected.
Message == [t : {"JOIN", "EMIT", "EVENT_ACK"}, entry : Entry]

Stages == {"off", "ready", "cursor", "engine", "list", "replay", "incr", "publish",
           "fanout", "watch", "exec", "closing"}

\* The log never exceeds its retention and every sequence was drawn.
TypeOK ==
    /\ counter \in Nat /\ log \subseteq Entry /\ Cardinality(log) <= MaxLog
    /\ published \subseteq 1..counter
    /\ durable \in [Users -> Nat]
    /\ members \subseteq Clients
    /\ stage \in [Clients \cup {Admin} -> Stages]
    /\ inbox \in [Clients -> Seq(Message)]
    /\ work \in [Clients \cup {Admin} -> Entry]
    /\ after \in [Clients -> Nat] /\ replay \in [Clients -> SUBSET Entry]
    /\ watched \in [Clients -> [Users -> Nat]]
    /\ attempts \in [Clients -> 0..MaxAttempts]
    /\ channel \in [Nodes -> Seq(Entry)]
    /\ msg \in [Procs -> Entry] /\ out \in [Procs -> SUBSET Clients]
    /\ last \in [Clients -> Nat]
    /\ joins \in 0..MaxJoins /\ failures \in 0..MaxFailures /\ updates \in 0..MaxUpdates
    /\ emitted \subseteq Events

Init ==
    /\ counter = 0 /\ log = {} /\ published = {}
    /\ durable = [u \in Users |-> 0]
    /\ members = {}
    /\ stage = [q \in Clients \cup {Admin} |-> "off"]
    /\ inbox = [c \in Clients |-> << >>]
    /\ work = [q \in Clients \cup {Admin} |-> NoEntry]
    /\ after = [c \in Clients |-> 0] /\ replay = [c \in Clients |-> {}]
    /\ watched = [c \in Clients |-> [u \in Users |-> 0]]
    /\ attempts = [c \in Clients |-> 0]
    /\ channel = [n \in Nodes |-> << >>]
    /\ msg = [p \in Procs |-> NoEntry] /\ out = [p \in Procs |-> {}]
    /\ last = [c \in Clients |-> 0]
    /\ joins = 0 /\ failures = 0 /\ updates = 0
    /\ emitted = {} /\ cut = {}
    /\ got = [c \in Clients |-> {}] /\ session = [c \in Clients |-> {}]
    /\ from = [c \in Clients |-> 0]
    /\ refused = [c \in Clients |-> {}] /\ beyond = [c \in Clients |-> {}]

-----------------------------------------------------------------------------
(* The client                                                              *)

JoinMessage(seq) == [t |-> "JOIN", entry |-> [NoEntry EXCEPT !.seq = seq]]

\* A socket is open and the client replays its room: JOIN with its cursor. A
\* client whose process was restarted has none.
Connect(c, cursor) ==
    /\ stage[c] = "off" /\ joins < MaxJoins
    /\ joins' = joins + 1
    /\ last' = [last EXCEPT ![c] = cursor]
    /\ inbox' = [inbox EXCEPT ![c] = <<JoinMessage(cursor)>>]
    /\ session' = [session EXCEPT ![c] = {}]
    /\ stage' = [stage EXCEPT ![c] = "ready"]
    /\ UNCHANGED <<redisVars, members, handlerVars, fanVars, got, refused, failures, updates,
                   oweVars, emitted, cut>>

Broadcast(c, e) ==
    /\ Emitter[e] = c /\ e \notin emitted
    /\ stage[c] # "off"
    /\ emitted' = emitted \cup {e}
    /\ inbox' = [inbox EXCEPT ![c] =
                   Append(@, [t |-> "EMIT", entry |-> [NoEntry EXCEPT !.ev = e]])]
    /\ UNCHANGED <<redisVars, members, stage, handlerVars, fanVars, clientVars,
                   countVars, oweVars, cut>>

\* The client's handling of EVENT: one that is not newer is dropped, a newer
\* one is passed on and acknowledged.
Accept(c, seq) ==
    IF seq <= last[c]
    THEN /\ refused' = [refused EXCEPT ![c] = @ \cup ({seq} \ got[c])]
         /\ UNCHANGED <<last, got, session, inbox>>
    ELSE /\ last' = [last EXCEPT ![c] = seq]
         /\ got' = [got EXCEPT ![c] = @ \cup {seq}]
         /\ session' = [session EXCEPT ![c] = @ \cup {seq}]
         /\ inbox' = [inbox EXCEPT ![c] =
                        Append(@, [t |-> "EVENT_ACK", entry |-> [NoEntry EXCEPT !.seq = seq]])]
         /\ UNCHANGED refused

-----------------------------------------------------------------------------
(* Messages                                                                *)

Goto(q, s) == stage' = [stage EXCEPT ![q] = s]

NoAcks == [u \in Users |-> 0]

\* The handler's local variables are gone when it returns.
Return(c) ==
    /\ work' = [work EXCEPT ![c] = NoEntry]
    /\ after' = [after EXCEPT ![c] = 0]
    /\ replay' = [replay EXCEPT ![c] = {}]
    /\ watched' = [watched EXCEPT ![c] = NoAcks]
    /\ attempts' = [attempts EXCEPT ![c] = 0]

\* The read loop takes the next message. A room is left only with its socket
\* here, so an acknowledgement finds the room joined.
Read(c) ==
    LET m == Head(inbox[c]) IN
    /\ stage[c] = "ready" /\ inbox[c] # << >>
    /\ \/ /\ m.t = "JOIN" /\ Goto(c, "cursor")
          /\ after' = [after EXCEPT ![c] = m.entry.seq] /\ UNCHANGED work
       \/ /\ m.t = "EMIT" /\ Goto(c, "incr")
          /\ work' = [work EXCEPT ![c] = m.entry] /\ UNCHANGED after
       \/ /\ m.t = "EVENT_ACK" /\ c \in members /\ Goto(c, "watch")
          /\ work' = [work EXCEPT ![c] = m.entry] /\ UNCHANGED after
    /\ inbox' = [inbox EXCEPT ![c] = Tail(@)]
    /\ UNCHANGED <<redisVars, members, replay, watched, attempts, fanVars, clientVars,
                   countVars, oweVars, emitted, cut>>

\* joinMetaWithDurableEventAck: the newer of the two cursors.
JoinCursor(c) ==
    /\ stage[c] = "cursor"
    /\ after' = [after EXCEPT ![c] = Max({@, durable[UserOf[c]]})]
    /\ Goto(c, "engine")
    /\ UNCHANGED <<redisVars, members, inbox, work, replay, watched, attempts, fanVars,
                   clientVars, countVars, oweVars, emitted, cut>>

\* The engine makes the client a target of live events before the log is read.
\* Without a cursor there is no replay.
JoinEngine(c) ==
    /\ stage[c] = "engine"
    /\ members' = members \cup {c}
    /\ Goto(c, IF after[c] > 0 THEN "list" ELSE "ready")
    /\ from' = [from EXCEPT ![c] = IF after[c] > 0 THEN after[c] ELSE counter]
    /\ beyond' = [beyond EXCEPT ![c] = {}]
    /\ UNCHANGED <<redisVars, inbox, handlerVars, fanVars, clientVars,
                   countVars, emitted, cut>>

\* S holds the k lowest entries of T, or all of them. Entries of equal score
\* come in an order that depends on their text.
Lowest(S, T, k) ==
    /\ Cardinality(S) = Min({k, Cardinality(T)})
    /\ \A x \in S, y \in T \ S : x.seq <= y.seq

\* ListPublishedEvents and ReplayEvents: storage updates count towards the
\* limit and are then left out.
ListPublishedEvents(c) ==
    LET newer == {x \in log : x.seq > after[c]} IN
    /\ stage[c] = "list"
    /\ \E S \in SUBSET newer :
         /\ Lowest(S, newer, Min({MaxReplay, MaxLog}))
         /\ replay' = [replay EXCEPT ![c] = {x \in S : x.ev # Storage}]
    /\ beyond' = [beyond EXCEPT ![c] =
                    {s \in published : s > after[c]} \ {x.seq : x \in replay'[c]}]
    /\ Goto(c, "replay")
    /\ UNCHANGED <<redisVars, members, inbox, work, after, watched, attempts, fanVars,
                   clientVars, countVars, from, emitted, cut>>

\* sendReplayEvents, one enqueue at a time, lowest sequence first.
SendReplayEvent(c, x) ==
    /\ stage[c] = "replay"
    /\ x \in replay[c] /\ Lowest({x}, replay[c], 1)
    /\ Accept(c, x.seq)
    /\ replay' = [replay EXCEPT ![c] = @ \ {x}]
    /\ UNCHANGED <<redisVars, members, stage, work, after, watched, attempts, fanVars,
                   countVars, oweVars, emitted, cut>>

ReplayDone(c) ==
    /\ stage[c] = "replay" /\ replay[c] = {}
    /\ Goto(c, "ready") /\ Return(c)
    /\ UNCHANGED <<redisVars, members, inbox, fanVars, clientVars,
                   countVars, oweVars, emitted, cut>>

-----------------------------------------------------------------------------
(* PublishEvent                                                            *)

AdminPublish(e) ==
    /\ Emitter[e] = Admin /\ e \notin emitted
    /\ stage[Admin] = "off"
    /\ emitted' = emitted \cup {e}
    /\ work' = [work EXCEPT ![Admin] = [NoEntry EXCEPT !.ev = e]]
    /\ Goto(Admin, "incr")
    /\ UNCHANGED <<redisVars, members, inbox, after, replay, watched, attempts, fanVars,
                   clientVars, countVars, oweVars, cut>>

DrawSequence(q) ==
    /\ stage[q] = "incr"
    /\ counter' = counter + 1
    /\ work' = [work EXCEPT ![q].seq = counter + 1]
    /\ Goto(q, "publish")
    /\ UNCHANGED <<log, durable, published, members, inbox, after, replay, watched,
                   attempts, fanVars, clientVars, countVars, oweVars, emitted, cut>>

\* ZREMRANGEBYRANK: the entries of the highest scores are kept.
Trim(entries, kept) ==
    kept \subseteq entries /\ Lowest(entries \ kept, entries,
        IF Cardinality(entries) > MaxLog THEN Cardinality(entries) - MaxLog ELSE 0)

Logged(x) == \E kept \in SUBSET (log \cup {x}) : Trim(log \cup {x}, kept) /\ log' = kept

\* The MULTI of PublishEvent. The publishing node ignores its own event.
LogAndPublish(q) ==
    /\ Logged(work[q])
    /\ published' = published \cup {work[q].seq}
    /\ channel' = [n \in Nodes |-> IF q # Admin /\ n = NodeOf[q] THEN channel[n]
                                   ELSE Append(channel[n], work[q])]
    /\ UNCHANGED <<counter, durable>>

PublishEvent(q) ==
    /\ stage[q] = "publish"
    /\ LogAndPublish(q)
    /\ Goto(q, IF q = Admin THEN "off" ELSE "fanout")
    /\ UNCHANGED <<members, inbox, handlerVars, msg, out, clientVars,
                   countVars, oweVars, emitted, cut>>

\* A storage update is logged under its storage sequence, which starts at 1
\* as the event sequence does.
PublishStorageEvent ==
    /\ updates < MaxUpdates
    /\ updates' = updates + 1
    /\ Logged([seq |-> updates + 1, ev |-> Storage])
    /\ UNCHANGED <<counter, durable, published, members, stage, inbox, handlerVars, fanVars,
                   clientVars, joins, failures, oweVars, emitted, cut>>

-----------------------------------------------------------------------------
(* Fan-out                                                                 *)

\* Faulty variant: sockets that are still being set up are left out.
EventFanoutReady(n) == {c \in members : NodeOf[c] = n /\ stage[c] # "replay"}

\* EventFanout: the members of the node; an EMIT excludes nobody.
EventFanout(n) == {c \in members : NodeOf[c] = n}

Resolve(p, n, x) ==
    /\ msg' = [msg EXCEPT ![p] = x]
    /\ out' = [out EXCEPT ![p] = EventFanout(n)]

BroadcastEvent(c) ==
    /\ stage[c] = "fanout" /\ work[c] # NoEntry
    /\ Resolve(c, NodeOf[c], work[c])
    /\ work' = [work EXCEPT ![c] = NoEntry]
    /\ UNCHANGED <<redisVars, members, stage, inbox, after, replay, watched, attempts,
                   channel, clientVars, countVars, oweVars, emitted, cut>>

BroadcastDone(c) ==
    /\ stage[c] = "fanout" /\ work[c] = NoEntry /\ out[c] = {}
    /\ Goto(c, "ready")
    /\ UNCHANGED <<redisVars, members, inbox, handlerVars, fanVars, clientVars,
                   countVars, oweVars, emitted, cut>>

HandleClusterEvent(n) ==
    /\ channel[n] # << >> /\ out[n] = {}
    /\ Resolve(n, n, Head(channel[n]))
    /\ channel' = [channel EXCEPT ![n] = Tail(@)]
    /\ UNCHANGED <<redisVars, members, stage, inbox, handlerVars, clientVars,
                   countVars, oweVars, emitted, cut>>

Enqueue(p, c) ==
    /\ c \in out[p]
    /\ Accept(c, msg[p].seq)
    /\ out' = [out EXCEPT ![p] = @ \ {c}]
    /\ UNCHANGED <<redisVars, members, stage, handlerVars, channel, msg,
                   countVars, oweVars, emitted, cut>>

-----------------------------------------------------------------------------
(* SetRoomEventAck                                                         *)

\* WATCH and HGET: nothing to do if the stored sequence is not lower.
AckWatch(c) ==
    /\ stage[c] = "watch"
    /\ \/ /\ durable[UserOf[c]] >= work[c].seq
          /\ Goto(c, "ready") /\ Return(c)
       \/ /\ durable[UserOf[c]] < work[c].seq
          /\ Goto(c, "exec")
          /\ watched' = [watched EXCEPT ![c] = durable]
          /\ UNCHANGED <<work, after, replay, attempts>>
    /\ UNCHANGED <<redisVars, members, inbox, fanVars, clientVars,
                   countVars, oweVars, emitted, cut>>

\* Faulty variant: the key is not watched.
NeverRaced(c) == FALSE

\* The key holds the acknowledgements of all users of the room; each write
\* raises one of them.
AckRaced(c) == watched[c] # durable

AckStore(c) ==
    /\ stage[c] = "exec" /\ ~AckRaced(c)
    /\ durable' = [durable EXCEPT ![UserOf[c]] = work[c].seq]
    /\ Goto(c, "ready")
    /\ Return(c)
    /\ UNCHANGED <<counter, log, published, members, inbox, fanVars, clientVars, countVars, oweVars, emitted, cut>>

\* Faulty variant: a lost race is taken for a newer acknowledgement.
AckGivesUp(c) ==
    /\ stage[c] = "exec" /\ AckRaced(c)
    /\ Goto(c, "ready") /\ Return(c)
    /\ UNCHANGED <<redisVars, members, inbox, fanVars, clientVars,
                   countVars, oweVars, emitted, cut>>

\* A lost race is tried again; after the last attempt the error ends the
\* connection.
AckRetry(c) ==
    /\ stage[c] = "exec" /\ AckRaced(c)
    /\ attempts' = [attempts EXCEPT ![c] = @ + 1]
    /\ Goto(c, IF attempts[c] + 1 < MaxAttempts THEN "watch" ELSE "closing")
    /\ UNCHANGED <<redisVars, members, inbox, work, after, replay, watched, fanVars,
                   clientVars, countVars, oweVars, emitted, cut>>

-----------------------------------------------------------------------------
(* Disconnects and failures                                                *)

\* The socket ends: the peer closed, or a handler returned an error. A fan-out
\* that was about to enqueue to it goes on, or ends with an error there, which
\* also ends the connection of an emitting client.
Disconnect(c) ==
    LET late == {p \in Procs : c \in out[p]} IN
    /\ stage[c] \in {"ready", "closing"} /\ out[c] = {}
    /\ members' = members \ {c}
    /\ inbox' = [inbox EXCEPT ![c] = << >>]
    /\ Return(c)
    /\ \E stop \in SUBSET late :
         /\ out' = [p \in Procs |-> IF p \in stop THEN {} ELSE out[p] \ {c}]
         /\ cut' = cut \cup {msg[p].seq : p \in stop}
         /\ stage' = [q \in Clients \cup {Admin} |->
                        IF q = c THEN "off"
                        ELSE IF q \in stop THEN "closing" ELSE stage[q]]
    /\ UNCHANGED <<redisVars, channel, msg, clientVars, countVars, oweVars, emitted>>

\* A Redis call returns an error; a publish may have happened.
RedisFails(q) ==
    /\ failures < MaxFailures
    /\ failures' = failures + 1
    /\ stage[q] \in {"cursor", "list", "incr", "publish", "watch", "exec"}
    /\ \/ stage[q] = "publish" /\ LogAndPublish(q) /\ cut' = cut \cup {work[q].seq}
       \/ UNCHANGED <<redisVars, channel, cut>>
    /\ Goto(q, IF q = Admin THEN "off" ELSE "closing")
    /\ UNCHANGED <<members, inbox, handlerVars, msg, out, clientVars, joins, updates,
                   oweVars, emitted>>

-----------------------------------------------------------------------------
Join(c) ==
    \/ JoinCursor(c) \/ JoinEngine(c) \/ ListPublishedEvents(c) \/ ReplayDone(c)
    \/ \E x \in replay[c] : SendReplayEvent(c, x)

Next ==
    \/ \E c \in Clients : \/ \E cursor \in {0, last[c]} : Connect(c, cursor)
                          \/ \E e \in Events : Broadcast(c, e)
                          \/ Read(c) \/ Join(c) \/ BroadcastEvent(c) \/ BroadcastDone(c)
                          \/ AckWatch(c) \/ AckStore(c) \/ AckRetry(c) \/ Disconnect(c)
    \/ \E e \in Events : AdminPublish(e)
    \/ \E q \in Clients \cup {Admin} : DrawSequence(q) \/ PublishEvent(q) \/ RedisFails(q)
    \/ PublishStorageEvent
    \/ \E n \in Nodes : HandleClusterEvent(n)
    \/ \E p \in Procs : \E c \in out[p] : Enqueue(p, c)

Spec == Init /\ [][Next]_eventVars

-----------------------------------------------------------------------------
(* Properties                                                              *)

\* A connected client with nothing of its own under way.
Settled(c) == stage[c] = "ready" /\ inbox[c] = << >> /\ c \in members

Quiet ==
    /\ \A q \in Clients \cup {Admin} : stage[q] \in {"off", "ready"}
    /\ \A n \in Nodes : channel[n] = << >>
    /\ \A p \in Procs : out[p] = {}

\* Replay and live events meet without a gap: a joined client has been sent
\* every event published after the sequence its join started from, although
\* publishers on all nodes went on during the join. Exceptions: what the log
\* had trimmed or the replay's limit cut off, a fan-out cut short, and what
\* the client dropped because a higher sequence had reached it first.
ReplayMeetsLive ==
    Quiet => \A c \in Clients : Settled(c) =>
        {s \in published : s > from[c]} \ (beyond[c] \cup cut)
            \subseteq got[c] \cup refused[c]

\* Two devices of a user and retries never move the user's durable cursor back.
DurableCursorMonotone ==
    [][\A u \in Users : durable'[u] >= durable[u]]_eventVars

\* Everything a client has accepted on its socket is covered by the durable
\* cursor of its user once its acknowledgements were handled, although every
\* acknowledgement of the room races for the same key.
AcksReachRedis ==
    \A c \in Clients : Settled(c) =>
        \A s \in session[c] : s <= durable[UserOf[c]]
=============================================================================
