---------------------------- MODULE RuntimeRooms ----------------------------
(***************************************************************************)
(* The runtime's membership and presence handlers, composed with the room  *)
(* engine, Redis and the presence channel:                                 *)
(* server/internal/runtime/service.go (handleJoin, handleLeave,            *)
(* handlePresence, handleClusterPresence, unregisterConn),                 *)
(* server/internal/cluster/redis.go (JoinRoom, LeaveRoom, SetPresence,     *)
(* SnapshotRoom, CleanupConnection, PublishPresence) and the client's      *)
(* message handler (packages/client/src/index.ts).                         *)
(*                                                                         *)
(* A connection's goroutine runs one handler at a time, and a handler is   *)
(* cut at every point where another goroutine may run in between: each     *)
(* engine call, each Redis round trip, each enqueue. A Redis MULTI is      *)
(* atomic. Any error a handler returns ends the goroutine, which then      *)
(* disconnects the connection. One goroutine per node delivers the events  *)
(* that the other nodes publish. A queue is processed in order by its      *)
(* client, so a client's view is updated when a message is enqueued.       *)
(***************************************************************************)
EXTENDS RoomEngine, Sequences

CONSTANTS
    MaxOps,       \* bound: handler calls of a behaviour
    MaxFailures,  \* bound: failed Redis calls of a behaviour
    MaxOverflows  \* bound: outbound queue overflows of a behaviour

ASSUME RuntimeAssumption ==
    /\ MaxOps \in Nat /\ MaxFailures \in Nat /\ MaxOverflows \in Nat
    /\ Conns \cap Nodes = {}

VARIABLES
    pc,             \* pc[c]: where c's goroutine is
    target,         \* target[c]: the room of the handler c is running
    job,            \* job[c]: the plan whose fan-outs c still has to do
    conns,          \* connections in the node's table of sockets
    down,           \* connections whose done channel is closed
    redisMembers,   \* Redis: members of a room
    redisConnRooms, \* Redis: rooms of a connection
    redisPresence,  \* Redis: presence hash of a room
    snap,           \* snap[c]: the snapshot c's join has read
    channel,        \* channel[n]: published events n has not handled yet
    msg,            \* msg[p]: the presence event goroutine p is fanning out
    out,            \* out[p]: the resolved targets p has not enqueued to yet
    view,           \* view[c][r]: what client c shows of room r
    ops, failures, overflows, \* counters for the bounds
    overlap,        \* history: <<d, c>>, d's join overlapped a fan-out of c
    dropped         \* history: connections one of whose fan-outs was cut short
                    \* or was for a room they had not joined

engineVars == <<rooms, connRooms, sessions, closed, presence, eventAcks, plan>>
storeVars  == <<redisMembers, redisConnRooms, redisPresence>>
fanVars    == <<channel, msg, out, view>>
bounds     == <<ops, failures, overflows>>
rtVars     == <<pc, overlap, target, job, conns, down, snap, dropped>>

runtimeVars == <<engineVars, storeVars, fanVars, bounds, rtVars>>

Procs == Conns \cup Nodes

\* state = NoPayload is the offline event.
PresenceEvent == [conn : Conns, room : Rooms, state : Payloads \cup {NoPayload}]

View == [members : SUBSET Conns, presence : [Conns -> Payloads \cup {NoPayload}]]

EmptyView == [members |-> {}, presence |-> [c \in Conns |-> NoPayload]]

AnyRoom == CHOOSE r \in Rooms : TRUE

NoEvent == [conn |-> CHOOSE c \in Conns : TRUE, room |-> AnyRoom, state |-> NoPayload]

JoinStages  == {"joinStore", "joinSnapshot", "joinReply"}
FanStages   == {"leaveStore", "leavePublish", "leaveApply", "leaveReply",
                "presenceStore", "presencePublish", "presenceApply", "presenceReply",
                "closing", "disconnect", "unlink", "cleanup", "farewell"}
Stages      == {"new", "idle", "done"} \cup JoinStages \cup FanStages

RuntimeTypeOK ==
    /\ TypeOK
    /\ pc \in [Conns -> Stages]
    /\ target \in [Conns -> Rooms]
    /\ job \in [Conns -> Plan]
    /\ conns \subseteq Conns /\ down \subseteq Conns /\ dropped \subseteq Conns
    /\ redisMembers \in [Rooms -> SUBSET Conns]
    /\ redisConnRooms \in [Conns -> SUBSET Rooms]
    /\ redisPresence \in [Rooms -> [Conns -> Payloads \cup {NoPayload}]]
    /\ snap \in [Conns -> View]
    /\ channel \in [Nodes -> Seq(PresenceEvent)]
    /\ msg \in [Procs -> PresenceEvent]
    /\ out \in [Procs -> SUBSET Conns]
    /\ view \in [Conns -> [Rooms -> View]]
    /\ ops \in 0..MaxOps /\ failures \in 0..MaxFailures /\ overflows \in 0..MaxOverflows
    /\ overlap \subseteq Conns \X Conns

RuntimeInit ==
    /\ Init
    /\ pc = [c \in Conns |-> "new"]
    /\ target = [c \in Conns |-> AnyRoom]
    /\ job = [c \in Conns |-> NoPlan]
    /\ conns = {} /\ down = {} /\ dropped = {} /\ overlap = {}
    /\ redisMembers = [r \in Rooms |-> {}]
    /\ redisConnRooms = [c \in Conns |-> {}]
    /\ redisPresence = [r \in Rooms |-> [c \in Conns |-> NoPayload]]
    /\ snap = [c \in Conns |-> EmptyView]
    /\ channel = [n \in Nodes |-> << >>]
    /\ msg = [p \in Procs |-> NoEvent]
    /\ out = [p \in Procs |-> {}]
    /\ view = [c \in Conns |-> [r \in Rooms |-> EmptyView]]
    /\ ops = 0 /\ failures = 0 /\ overflows = 0

-----------------------------------------------------------------------------
(* Redis. Each operation is one MULTI. CleanupConnection reads the rooms   *)
(* of the connection first; nobody else writes them meanwhile.             *)

JoinRoom(c, r) ==
    /\ redisMembers' = [redisMembers EXCEPT ![r] = @ \cup {c}]
    /\ redisConnRooms' = [redisConnRooms EXCEPT ![c] = @ \cup {r}]
    /\ UNCHANGED redisPresence

\* Faulty variant: the presence hash keeps its field.
LeaveRoomOnly(c, r) ==
    /\ redisMembers' = [redisMembers EXCEPT ![r] = @ \ {c}]
    /\ redisConnRooms' = [redisConnRooms EXCEPT ![c] = @ \ {r}]
    /\ UNCHANGED redisPresence

LeaveRoom(c, r) ==
    /\ redisMembers' = [redisMembers EXCEPT ![r] = @ \ {c}]
    /\ redisConnRooms' = [redisConnRooms EXCEPT ![c] = @ \ {r}]
    /\ redisPresence' = [redisPresence EXCEPT ![r][c] = NoPayload]

SetPresence(c, r, p) ==
    /\ redisPresence' = [redisPresence EXCEPT ![r][c] = p]
    /\ UNCHANGED <<redisMembers, redisConnRooms>>

SnapshotRoom(r) == [members |-> redisMembers[r], presence |-> redisPresence[r]]

CleanupConnection(c) ==
    LET left == redisConnRooms[c] IN
    /\ redisMembers' = [r \in Rooms |-> IF r \in left THEN redisMembers[r] \ {c}
                                                      ELSE redisMembers[r]]
    /\ redisPresence' = [r \in Rooms |-> IF r \in left
                                         THEN [redisPresence[r] EXCEPT ![c] = NoPayload]
                                         ELSE redisPresence[r]]
    /\ redisConnRooms' = [redisConnRooms EXCEPT ![c] = {}]

\* PublishPresence: every node but the origin queues the event; the origin
\* receives it too and ignores it (NewClusterPresencePlan).
PublishPresence(c, r, state) ==
    channel' = [n \in Nodes |->
                  IF n = NodeOf[c] THEN channel[n]
                  ELSE Append(channel[n], [conn |-> c, room |-> r, state |-> state])]

-----------------------------------------------------------------------------
(* Handlers                                                                *)

\* d has joined the engine and its snapshot is not yet with the client while
\* c is somewhere in a leave, presence or disconnect handler.
Overlapping ==
    {dc \in Conns \X Conns : pc[dc[1]] \in JoinStages /\ pc[dc[2]] \in FanStages}

Goto(c, stage) ==
    /\ pc' = [pc EXCEPT ![c] = stage]
    /\ overlap' = overlap \cup Overlapping'

Start(c, r) ==
    /\ pc[c] = "idle"
    /\ ops < MaxOps
    /\ ops' = ops + 1
    /\ target' = [target EXCEPT ![c] = r]
    /\ UNCHANGED <<failures, overflows>>

RegisterConn(c) ==
    /\ pc[c] = "new"
    /\ RegisterSession(c)
    /\ conns' = conns \cup {c}
    /\ Goto(c, "idle")
    /\ UNCHANGED <<storeVars, fanVars, bounds, target, job, down, snap, dropped>>

\* An admitted join goes to Redis; a repeated one has no membership mutation
\* and only reads the snapshot again. A refused one only sends an ERROR.
HandleJoin(c, r) ==
    /\ Start(c, r)
    /\ \/ JoinWithLimits(c, r) /\ Goto(c, "joinStore")
       \/ r \in connRooms[c] /\ UNCHANGED engineVars /\ Goto(c, "joinSnapshot")
    /\ UNCHANGED <<storeVars, fanVars, job, conns, down, snap, dropped>>

JoinStore(c) ==
    /\ pc[c] = "joinStore"
    /\ JoinRoom(c, target[c])
    /\ Goto(c, "joinSnapshot")
    /\ UNCHANGED <<engineVars, fanVars, bounds, target, job, conns, down, snap, dropped>>

JoinSnapshot(c) ==
    /\ pc[c] = "joinSnapshot"
    /\ snap' = [snap EXCEPT ![c] = SnapshotRoom(target[c])]
    /\ Goto(c, "joinReply")
    /\ UNCHANGED <<engineVars, storeVars, fanVars, bounds, target, job, conns, down, dropped>>

\* The handler's own reply shows v in the client's room. On a closed socket
\* enqueue finds both of its cases ready: it returns the error, or accepts a
\* message nobody will write.
Answer(c, v) ==
    \/ /\ c \notin down
       /\ view' = [view EXCEPT ![c][target[c]] = v]
       /\ Goto(c, "idle")
    \/ /\ c \in down
       /\ \E stage \in {"idle", "closing"} : Goto(c, stage)
       /\ UNCHANGED view

\* JOINED replaces what the client showed of the room.
JoinReply(c) ==
    /\ pc[c] = "joinReply"
    /\ Answer(c, snap[c])
    /\ snap' = [snap EXCEPT ![c] = EmptyView]
    /\ UNCHANGED <<engineVars, storeVars, channel, msg, out, bounds,
                   target, job, conns, down, dropped>>

\* LEFT for a room that was not joined still clears the client's view of it.
HandleLeave(c, r) ==
    /\ Start(c, r)
    /\ \/ /\ NewLeavePlan(c, r)
          /\ job' = [job EXCEPT ![c] = plan'[c]]
          /\ Goto(c, "leaveStore")
       \/ /\ r \notin connRooms[c]
          /\ Goto(c, "leaveReply")
          /\ UNCHANGED <<engineVars, job>>
    /\ UNCHANGED <<storeVars, fanVars, conns, down, snap, dropped>>

LeaveStore(c) ==
    /\ pc[c] = "leaveStore"
    /\ LeaveRoom(c, target[c])
    /\ Goto(c, "leavePublish")
    /\ UNCHANGED <<engineVars, fanVars, bounds, target, job, conns, down, snap, dropped>>

\* The room need not be joined.
HandlePresence(c, r, p) ==
    /\ Start(c, r)
    /\ NewPresenceSetPlan(c, r, p)
    /\ job' = [job EXCEPT ![c] = plan'[c]]
    /\ dropped' = IF r \in connRooms[c] THEN dropped ELSE dropped \cup {c}
    /\ Goto(c, "presenceStore")
    /\ UNCHANGED <<storeVars, fanVars, conns, down, snap>>

PresenceStore(c) ==
    /\ pc[c] = "presenceStore"
    /\ SetPresence(c, target[c], job[c].payload)
    /\ Goto(c, "presencePublish")
    /\ UNCHANGED <<engineVars, fanVars, bounds, target, job, conns, down, snap, dropped>>

\* Faulty variant: nothing is published when the node has nobody to notify.
PublishToAudience(c) ==
    /\ \/ pc[c] = "leavePublish" /\ Goto(c, "leaveApply")
       \/ pc[c] = "presencePublish" /\ Goto(c, "presenceApply")
    /\ IF job[c].targets[target[c]] = {} THEN UNCHANGED channel
       ELSE PublishPresence(c, target[c], job[c].payload)
    /\ UNCHANGED <<engineVars, storeVars, msg, out, view, bounds,
                   target, job, conns, down, snap, dropped>>

Publish(c) ==
    /\ \/ pc[c] = "leavePublish" /\ Goto(c, "leaveApply")
       \/ pc[c] = "presencePublish" /\ Goto(c, "presenceApply")
    /\ PublishPresence(c, target[c], job[c].payload)
    /\ UNCHANGED <<engineVars, storeVars, msg, out, view, bounds,
                   target, job, conns, down, snap, dropped>>

\* Faulty variant: the sender is taken out of the targets.
ResolveOthers(p, c, r, state, targets) ==
    /\ msg' = [msg EXCEPT ![p] = [conn |-> c, room |-> r, state |-> state]]
    /\ out' = [out EXCEPT ![p] = (targets \cap conns) \ {c}]

\* broadcastPresenceFanout: the plan's targets that still have a socket.
Resolve(p, c, r, state, targets) ==
    /\ msg' = [msg EXCEPT ![p] = [conn |-> c, room |-> r, state |-> state]]
    /\ out' = [out EXCEPT ![p] = targets \cap conns]

Apply(c) ==
    /\ \/ pc[c] = "leaveApply" /\ ApplyLeavePlan(c) /\ Goto(c, "leaveReply")
       \/ pc[c] = "presenceApply" /\ ApplyPresenceSetPlan(c) /\ Goto(c, "presenceReply")
    /\ Resolve(c, c, target[c], job[c].payload, job[c].targets[target[c]])
    /\ UNCHANGED <<storeVars, channel, view, bounds, target, job, conns, down, snap, dropped>>

\* The handler ends when the fan-out has: a leave sends LEFT.
Reply(c) ==
    /\ out[c] = {}
    /\ \/ pc[c] = "presenceReply" /\ Goto(c, "idle") /\ UNCHANGED view
       \/ pc[c] = "leaveReply" /\ Answer(c, EmptyView)
    /\ job' = [job EXCEPT ![c] = NoPlan]
    /\ UNCHANGED <<engineVars, storeVars, channel, msg, out, bounds,
                   target, conns, down, snap, dropped>>

-----------------------------------------------------------------------------
(* Fan-out: one enqueue per target.                                        *)

\* The client's handling of PRESENCE.
Show(v, e) ==
    IF e.state = NoPayload
    THEN [members  |-> v.members \ {e.conn},
          presence |-> [v.presence EXCEPT ![e.conn] = NoPayload]]
    ELSE [members  |-> v.members \cup {e.conn},
          presence |-> [v.presence EXCEPT ![e.conn] = e.state]]

Enqueue(p, d) ==
    /\ d \in out[p] \ down
    /\ view' = [view EXCEPT ![d][msg[p].room] = Show(@, msg[p])]
    /\ out' = [out EXCEPT ![p] = @ \ {d}]
    /\ UNCHANGED <<engineVars, storeVars, channel, msg, bounds, rtVars>>

\* What the first failing enqueue does to the goroutine: the other targets
\* are skipped; a handler returns the error, unregisterConn and the cluster
\* subscriber ignore it.
Abort(p) ==
    /\ out' = [out EXCEPT ![p] = {}]
    /\ dropped' = dropped \cup {msg[p].conn}
    /\ \/ p \in Conns /\ pc[p] # "farewell" /\ Goto(p, "closing")
       \/ ~(p \in Conns /\ pc[p] # "farewell") /\ UNCHANGED <<pc, overlap>>

\* A closed socket: an error, or a message nobody will write.
EnqueueLost(p, d) ==
    /\ d \in out[p] \cap down
    /\ out' = [out EXCEPT ![p] = @ \ {d}]
    /\ UNCHANGED <<engineVars, storeVars, channel, msg, view, bounds, rtVars>>

EnqueueClosed(p, d) ==
    /\ d \in out[p] \cap down
    /\ Abort(p)
    /\ UNCHANGED <<engineVars, storeVars, channel, msg, view, bounds,
                   target, job, conns, down, snap>>

EnqueueOverflow(p, d) ==
    /\ d \in out[p] \ down
    /\ overflows < MaxOverflows
    /\ overflows' = overflows + 1
    /\ down' = down \cup {d}
    /\ Abort(p)
    /\ UNCHANGED <<engineVars, storeVars, channel, msg, view, ops, failures,
                   target, job, conns, snap>>

\* handleClusterPresence: the targets are the members at delivery.
HandleClusterPresence(n) ==
    /\ channel[n] # << >> /\ out[n] = {}
    /\ LET e == Head(channel[n]) IN
         Resolve(n, e.conn, e.room, e.state, Members(n, e.room))
    /\ channel' = [channel EXCEPT ![n] = Tail(@)]
    /\ UNCHANGED <<engineVars, storeVars, view, bounds, rtVars>>

-----------------------------------------------------------------------------
(* unregisterConn                                                          *)

\* The read loop ends: the peer closed, or the socket was closed here.
Hangup(c) ==
    /\ pc[c] = "idle"
    /\ Goto(c, "closing")
    /\ UNCHANGED <<engineVars, storeVars, fanVars, bounds,
                   target, job, conns, down, snap, dropped>>

PlanDisconnect(c) ==
    /\ pc[c] = "closing"
    /\ NewDisconnectPlan(c)
    /\ job' = [job EXCEPT ![c] = plan'[c]]
    /\ Goto(c, "disconnect")
    /\ UNCHANGED <<storeVars, fanVars, bounds, target, conns, down, snap, dropped>>

Disconnect(c) ==
    /\ pc[c] = "disconnect"
    /\ ApplyDisconnectPlan(c)
    /\ Goto(c, "unlink")
    /\ UNCHANGED <<storeVars, fanVars, bounds, target, job, conns, down, snap, dropped>>

\* Faulty variant: a socket that a full queue has closed is not closed again.
UnlinkOnce(c) ==
    /\ pc[c] = "unlink" /\ c \notin down
    /\ conns' = conns \ {c}
    /\ down' = down \cup {c}
    /\ Goto(c, "cleanup")
    /\ UNCHANGED <<engineVars, storeVars, fanVars, bounds, target, job, snap, dropped>>

Unlink(c) ==
    /\ pc[c] = "unlink"
    /\ conns' = conns \ {c}
    /\ down' = down \cup {c}
    /\ Goto(c, "cleanup")
    /\ UNCHANGED <<engineVars, storeVars, fanVars, bounds, target, job, snap, dropped>>

Cleanup(c) ==
    /\ pc[c] = "cleanup"
    /\ CleanupConnection(c)
    /\ Goto(c, "farewell")
    /\ UNCHANGED <<engineVars, fanVars, bounds, target, job, conns, down, snap, dropped>>

\* Publish and fan out offline for the next room of the plan.
Farewell(c, r) ==
    /\ pc[c] = "farewell" /\ out[c] = {}
    /\ r \in job[c].rooms
    /\ PublishPresence(c, r, NoPayload)
    /\ Resolve(c, c, r, NoPayload, job[c].targets[r])
    /\ job' = [job EXCEPT ![c].rooms = @ \ {r}]
    /\ UNCHANGED <<engineVars, storeVars, view, bounds, pc, overlap,
                   target, conns, down, snap, dropped>>

Finish(c) ==
    /\ pc[c] = "farewell" /\ out[c] = {} /\ job[c].rooms = {}
    /\ job' = [job EXCEPT ![c] = NoPlan]
    /\ Goto(c, "done")
    /\ UNCHANGED <<engineVars, storeVars, fanVars, bounds, target, conns, down, snap, dropped>>

-----------------------------------------------------------------------------
(* A Redis call returns an error; its effect may have happened. Handlers   *)
(* return the error, unregisterConn goes on.                               *)

Failure ==
    /\ failures < MaxFailures
    /\ failures' = failures + 1
    /\ UNCHANGED <<ops, overflows>>

StoreFails(c) ==
    /\ Failure
    /\ \/ pc[c] = "joinStore" /\ JoinRoom(c, target[c])
       \/ pc[c] = "leaveStore" /\ LeaveRoom(c, target[c])
       \/ pc[c] = "presenceStore" /\ SetPresence(c, target[c], job[c].payload)
       \/ pc[c] \in {"joinStore", "joinSnapshot", "leaveStore", "presenceStore",
                    "leavePublish", "presencePublish"} /\ UNCHANGED storeVars
    /\ Goto(c, "closing")
    /\ dropped' = dropped \cup {c}
    /\ UNCHANGED <<engineVars, fanVars, target, job, conns, down, snap>>

CleanupFails(c) ==
    /\ pc[c] = "cleanup"
    /\ Failure
    /\ Goto(c, "farewell")
    /\ dropped' = dropped \cup {c}
    /\ UNCHANGED <<engineVars, storeVars, fanVars, target, job, conns, down, snap>>

\* No publish, and then no local fan-out either.
FarewellFails(c, r) ==
    /\ pc[c] = "farewell" /\ out[c] = {}
    /\ r \in job[c].rooms
    /\ Failure
    /\ job' = [job EXCEPT ![c].rooms = @ \ {r}]
    /\ dropped' = dropped \cup {c}
    /\ UNCHANGED <<engineVars, storeVars, fanVars, pc, overlap, target, conns, down, snap>>

-----------------------------------------------------------------------------
Handler(c) ==
    \/ JoinStore(c) \/ JoinSnapshot(c) \/ JoinReply(c)
    \/ LeaveStore(c) \/ PresenceStore(c) \/ Publish(c) \/ Apply(c) \/ Reply(c)
    \/ PlanDisconnect(c) \/ Disconnect(c) \/ Unlink(c) \/ Cleanup(c)
    \/ (\E r \in Rooms : Farewell(c, r)) \/ Finish(c)

FanOut(p) == \E d \in Conns : Enqueue(p, d) \/ EnqueueLost(p, d) \/ EnqueueClosed(p, d)

Request(c) ==
    \/ RegisterConn(c) \/ Hangup(c)
    \/ \E r \in Rooms : HandleJoin(c, r) \/ HandleLeave(c, r)
    \/ \E r \in Rooms, p \in Payloads : HandlePresence(c, r, p)

Fault(c) ==
    \/ StoreFails(c) \/ CleanupFails(c)
    \/ \E r \in Rooms : FarewellFails(c, r)
    \/ \E p \in Procs : EnqueueOverflow(p, c)

RuntimeNext ==
    \/ \E c \in Conns : Handler(c) \/ Request(c) \/ Fault(c)
    \/ \E n \in Nodes : HandleClusterPresence(n)
    \/ \E p \in Procs : FanOut(p)

RuntimeSpec == RuntimeInit /\ [][RuntimeNext]_runtimeVars

\* Go runs every goroutine that can run, and Redis answers: a connection's
\* goroutine, in its handler or in a fan-out, goes on. Requests and faults may
\* never come, and nothing is asked of the subscribers.
RuntimeFairness == \A c \in Conns : WF_runtimeVars(Handler(c) \/ FanOut(c))

FairRuntimeSpec == RuntimeSpec /\ RuntimeFairness

-----------------------------------------------------------------------------
(* Properties                                                              *)

Quiescent ==
    /\ \A c \in Conns : pc[c] \in {"new", "idle", "done"}
    /\ \A n \in Nodes : channel[n] = << >>
    /\ \A p \in Procs : out[p] = {}

\* Whenever a connection is between handlers, Redis and the engine of its
\* node agree on its rooms and its presence, whatever Redis calls failed
\* before; and a finished connection has left Redis unless the cleanup failed.
StoreMatchesEngine ==
    \A c \in Conns, r \in Rooms :
        /\ pc[c] = "idle" =>
             /\ c \in redisMembers[r] <=> r \in connRooms[c]
             /\ r \in redisConnRooms[c] <=> r \in connRooms[c]
             /\ redisPresence[r][c] = presence[r][c]
        /\ pc[c] = "done" /\ c \notin dropped => c \notin redisMembers[r]

\* c is out of d's view of r, or d sees c as it is.
SeesTruly(d, c, r) ==
    /\ c \in view[d][r].members => c \in rooms[r]
    /\ view[d][r].presence[c] = presence[r][c]

\* Once nothing is under way, a joined client shows no departed member and
\* everyone's current presence, except of connections whose fan-out was cut
\* short or overlapped the client's own join, or that set presence in a room
\* without joining it.
ViewsConverge ==
    Quiescent =>
        \A d, c \in Conns, r \in Rooms :
            /\ pc[d] = "idle" /\ d \notin down /\ r \in connRooms[d]
            /\ c \notin dropped /\ <<d, c>> \notin overlap
            => SeesTruly(d, c, r)

\* A disconnect that has started comes to its end: the connection's
\* membership is gone from the engine and from Redis, although enqueues to
\* other closing connections fail on the way.
DisconnectCompletes ==
    \A c \in Conns : pc[c] = "closing" ~> pc[c] = "done"
=============================================================================
