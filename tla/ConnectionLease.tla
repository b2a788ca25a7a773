--------------------------- MODULE ConnectionLease ---------------------------
(***************************************************************************)
(* How the records of a connection leave Redis when its node cannot remove *)
(* them: the alive key with its TTL, the heartbeat that renews it and the  *)
(* reconciler of each node (server/internal/runtime/service.go             *)
(* registerConn, unregisterConn, heartbeatLoop, reconcileLoop;             *)
(* server/internal/cluster/redis.go TouchConnection, CleanupConnection,    *)
(* ReconcileNode).                                                         *)
(*                                                                         *)
(* Three goroutines use the records of a connection: the one that reads    *)
(* its socket, its heartbeat and the node's reconciler. Each is cut at its *)
(* Redis round trips; a MULTI is atomic. A crash stops all goroutines of a *)
(* node. So does Close, which cancels the context of every Redis call      *)
(* before it closes the sockets.                                           *)
(*                                                                         *)
(* Time is counted in heartbeats: lease[c] is the number of heartbeat      *)
(* intervals for which the alive key is sure to exist.                     *)
(***************************************************************************)
EXTENDS Naturals, FiniteSets

CONSTANTS
    Conns, Rooms, Nodes, NodeOf,
    MaxCrashes,  \* bound: nodes that go down
    MaxFailures, \* bound: Redis calls that fail
    MaxJoins     \* bound: joins and leaves

ASSUME LeaseAssumption ==
    /\ NodeOf \in [Conns -> Nodes]
    /\ MaxCrashes \in Nat /\ MaxFailures \in Nat /\ MaxJoins \in Nat

VARIABLES
    up,             \* nodes that run
    sessions,       \* connections registered in the engine of their node
    connRooms,      \* connRooms[c]: rooms c has joined, in the engine
    stage,          \* stage[c]: where the goroutine of c's socket is
    target,         \* target[c]: the room it joins
    touch,          \* heartbeats that hold a touch they have not applied
    found,          \* found[c]: rooms the disconnect's cleanup has read
    alive,          \* Redis: connections whose alive key exists
    lease,
    nodeConns,      \* Redis: node index, the connections of each node
    redisConnRooms, \* Redis: redisConnRooms[c]
    redisMembers,   \* Redis: redisMembers[r]
    round,          \* round[n]: what the reconciler of n has read
    crashes, failures, joins,
    touched         \* history: connections whose touch reached Redis

procVars  == <<sessions, connRooms, stage, target, found>>
leaseVars == <<alive, lease, nodeConns, touched>>
roomVars  == <<redisConnRooms, redisMembers>>
counts    == <<crashes, failures, joins>>

allVars == <<up, procVars, touch, leaseVars, roomVars, round, counts>>

-----------------------------------------------------------------------------
Stages == {"new", "touch", "serving", "join", "cleanup", "remove", "gone"}

\* A round of the reconciler: connections still to check, and the one being
\* cleaned up with the rooms read for it.
Round == [todo : SUBSET Conns, stale : SUBSET Conns, read : BOOLEAN, rooms : SUBSET Rooms]

NoRound == [todo |-> {}, stale |-> {}, read |-> FALSE, rooms |-> {}]

\* Faulty variant: the TTL is one heartbeat interval.
OneBeat == 1

\* aliveTTL over heartbeatInterval: 45 s and 15 s.
TTLBeats == 3

LeaseTypeOK ==
    /\ up \subseteq Nodes /\ sessions \subseteq Conns
    /\ connRooms \in [Conns -> SUBSET Rooms]
    /\ stage \in [Conns -> Stages]
    /\ target \in [Conns -> SUBSET Rooms]
    /\ touch \subseteq sessions \cup {c \in Conns : stage[c] \in {"cleanup", "remove", "gone"}}
    /\ found \in [Conns -> SUBSET Rooms]
    /\ alive \subseteq Conns /\ touched \subseteq Conns
    /\ lease \in [Conns -> 0..TTLBeats]
    /\ nodeConns \in [Nodes -> SUBSET Conns]
    /\ redisConnRooms \in [Conns -> SUBSET Rooms]
    /\ redisMembers \in [Rooms -> SUBSET Conns]
    /\ round \in [Nodes -> Round]
    /\ \A n \in Nodes : Cardinality(round[n].stale) <= 1
    /\ crashes \in 0..MaxCrashes /\ failures \in 0..MaxFailures /\ joins \in 0..MaxJoins

LeaseInit ==
    /\ up = Nodes /\ sessions = {} /\ touch = {} /\ alive = {} /\ touched = {}
    /\ connRooms = [c \in Conns |-> {}]
    /\ stage = [c \in Conns |-> "new"]
    /\ target = [c \in Conns |-> {}]
    /\ found = [c \in Conns |-> {}]
    /\ lease = [c \in Conns |-> 0]
    /\ nodeConns = [n \in Nodes |-> {}]
    /\ redisConnRooms = [c \in Conns |-> {}]
    /\ redisMembers = [r \in Rooms |-> {}]
    /\ round = [n \in Nodes |-> NoRound]
    /\ crashes = 0 /\ failures = 0 /\ joins = 0

-----------------------------------------------------------------------------
(* Redis                                                                   *)

TouchConnection(c) ==
    /\ alive' = alive \cup {c}
    /\ lease' = [lease EXCEPT ![c] = TTLBeats]
    /\ nodeConns' = [nodeConns EXCEPT ![NodeOf[c]] = @ \cup {c}]
    /\ touched' = touched \cup {c}

\* Faulty variant: the node index keeps the connection.
CleanupKeepsIndex(c, rs) ==
    /\ redisMembers' = [r \in Rooms |-> IF r \in rs THEN redisMembers[r] \ {c}
                                        ELSE redisMembers[r]]
    /\ redisConnRooms' = [redisConnRooms EXCEPT ![c] = {}]
    /\ alive' = alive \ {c}
    /\ UNCHANGED <<lease, nodeConns, touched>>

\* Faulty variant: the connection's rooms are not read, or read as empty.
CleanupIndexOnly(c, rs) ==
    /\ redisConnRooms' = [redisConnRooms EXCEPT ![c] = {}]
    /\ alive' = alive \ {c}
    /\ nodeConns' = [nodeConns EXCEPT ![NodeOf[c]] = @ \ {c}]
    /\ UNCHANGED <<redisMembers, lease, touched>>

\* The transaction of CleanupConnection, on the rooms read before it.
CleanupConnection(c, rs) ==
    /\ redisMembers' = [r \in Rooms |-> IF r \in rs THEN redisMembers[r] \ {c}
                                        ELSE redisMembers[r]]
    /\ redisConnRooms' = [redisConnRooms EXCEPT ![c] = {}]
    /\ alive' = alive \ {c}
    /\ nodeConns' = [nodeConns EXCEPT ![NodeOf[c]] = @ \ {c}]
    /\ UNCHANGED <<lease, touched>>

Failure ==
    /\ failures < MaxFailures
    /\ failures' = failures + 1
    /\ UNCHANGED <<crashes, joins>>

-----------------------------------------------------------------------------
(* The goroutine of the socket                                             *)

Goto(c, s) == stage' = [stage EXCEPT ![c] = s]

\* registerConn: the engine first, then the first touch, whose error is
\* ignored.
RegisterSession(c) ==
    /\ stage[c] = "new" /\ NodeOf[c] \in up
    /\ sessions' = sessions \cup {c}
    /\ Goto(c, "touch")
    /\ UNCHANGED <<up, connRooms, target, found, touch, leaseVars, roomVars, round, counts>>

FirstTouch(c) ==
    /\ stage[c] = "touch"
    /\ Goto(c, "serving")
    /\ \/ TouchConnection(c) /\ UNCHANGED counts
       \/ Failure /\ UNCHANGED leaseVars
    /\ UNCHANGED <<up, sessions, connRooms, target, found, touch, roomVars, round>>

Join(c, r) ==
    /\ stage[c] = "serving" /\ r \notin connRooms[c]
    /\ joins < MaxJoins /\ joins' = joins + 1
    /\ connRooms' = [connRooms EXCEPT ![c] = @ \cup {r}]
    /\ target' = [target EXCEPT ![c] = {r}]
    /\ Goto(c, "join")
    /\ UNCHANGED <<up, sessions, found, touch, leaseVars, roomVars, round, crashes, failures>>

\* JoinRoom; an error, whether it took effect or not, ends the connection.
JoinStore(c) ==
    /\ stage[c] = "join"
    /\ \/ /\ redisMembers' = [r \in Rooms |-> IF r \in target[c] THEN redisMembers[r] \cup {c}
                                              ELSE redisMembers[r]]
          /\ redisConnRooms' = [redisConnRooms EXCEPT ![c] = @ \cup target[c]]
          /\ \/ Goto(c, "serving") /\ UNCHANGED <<counts, sessions, connRooms>>
             \/ /\ Failure /\ Goto(c, "cleanup")
                /\ sessions' = sessions \ {c}
                /\ connRooms' = [connRooms EXCEPT ![c] = {}]
       \/ /\ Failure /\ Goto(c, "cleanup")
          /\ sessions' = sessions \ {c}
          /\ connRooms' = [connRooms EXCEPT ![c] = {}]
          /\ UNCHANGED roomVars
    /\ target' = [target EXCEPT ![c] = {}]
    /\ UNCHANGED <<up, found, touch, leaseVars, round>>

\* LeaveRoom, then the engine, which nobody reads in between.
Leave(c, r) ==
    /\ stage[c] = "serving" /\ r \in connRooms[c]
    /\ joins < MaxJoins /\ joins' = joins + 1
    /\ connRooms' = [connRooms EXCEPT ![c] = @ \ {r}]
    /\ redisMembers' = [redisMembers EXCEPT ![r] = @ \ {c}]
    /\ redisConnRooms' = [redisConnRooms EXCEPT ![c] = @ \ {r}]
    /\ UNCHANGED <<up, sessions, stage, target, found, touch, leaseVars, round,
                   crashes, failures>>

\* unregisterConn: the engine, then CleanupConnection, whose error is ignored.
UnregisterConn(c) ==
    /\ stage[c] = "serving"
    /\ sessions' = sessions \ {c}
    /\ connRooms' = [connRooms EXCEPT ![c] = {}]
    /\ Goto(c, "cleanup")
    /\ UNCHANGED <<up, target, found, touch, leaseVars, roomVars, round, counts>>

CleanupRead(c) ==
    /\ stage[c] = "cleanup"
    /\ \/ /\ found' = [found EXCEPT ![c] = redisConnRooms[c]]
          /\ Goto(c, "remove") /\ UNCHANGED counts
       \/ Failure /\ Goto(c, "gone") /\ UNCHANGED found
    /\ UNCHANGED <<up, sessions, connRooms, target, touch, leaseVars, roomVars, round>>

CleanupRemove(c) ==
    /\ stage[c] = "remove"
    /\ \/ CleanupConnection(c, found[c]) /\ UNCHANGED counts
       \/ Failure /\ UNCHANGED <<leaseVars, roomVars>>
    /\ found' = [found EXCEPT ![c] = {}]
    /\ Goto(c, "gone")
    /\ UNCHANGED <<up, sessions, connRooms, target, touch, round>>

-----------------------------------------------------------------------------
(* The heartbeat                                                           *)

\* heartbeatLoop: a tick asks the engine whether the session still exists.
TouchSession(c) ==
    /\ c \in sessions \ touch /\ stage[c] # "touch"
    /\ touch' = touch \cup {c}
    /\ lease' = [lease EXCEPT ![c] = IF @ > 0 THEN @ - 1 ELSE 0]
    /\ UNCHANGED <<up, procVars, alive, nodeConns, touched, roomVars, round, counts>>

\* The touch goes to Redis: the session may be gone by then.
ApplyTouch(c) ==
    /\ c \in touch
    /\ touch' = touch \ {c}
    /\ \/ TouchConnection(c) /\ UNCHANGED counts
       \/ Failure /\ UNCHANGED leaseVars
    /\ UNCHANGED <<up, procVars, roomVars, round>>

\* The TTL runs out: of a connection without heartbeat, or of one whose
\* heartbeats have not reached Redis for so long.
Expire(c) ==
    /\ c \in alive
    /\ c \notin sessions \/ lease[c] = 0
    /\ alive' = alive \ {c}
    /\ UNCHANGED <<up, procVars, touch, lease, nodeConns, touched, roomVars, round, counts>>

-----------------------------------------------------------------------------
(* The reconciler of a node                                                *)

ListConns(n) ==
    /\ n \in up /\ round[n] = NoRound
    /\ nodeConns[n] # {}
    /\ round' = [round EXCEPT ![n].todo = nodeConns[n]]
    /\ UNCHANGED <<up, procVars, touch, leaseVars, roomVars, counts>>

CheckAlive(n, c) ==
    /\ c \in round[n].todo /\ round[n].stale = {}
    /\ round' = [round EXCEPT ![n].todo = @ \ {c},
                              ![n].stale = IF c \in alive THEN {} ELSE {c}]
    /\ UNCHANGED <<up, procVars, touch, leaseVars, roomVars, counts>>

ReadStale(n, c) ==
    /\ c \in round[n].stale /\ ~round[n].read
    /\ round' = [round EXCEPT ![n].read = TRUE, ![n].rooms = redisConnRooms[c]]
    /\ UNCHANGED <<up, procVars, touch, leaseVars, roomVars, counts>>

RemoveStale(n, c) ==
    /\ c \in round[n].stale /\ round[n].read
    /\ CleanupConnection(c, round[n].rooms)
    /\ round' = [round EXCEPT ![n].stale = {}, ![n].read = FALSE, ![n].rooms = {}]
    /\ UNCHANGED <<up, procVars, touch, counts>>

\* An error ends the round; the next tick starts another.
RoundFails(n) ==
    /\ round[n] # NoRound /\ Failure
    /\ round' = [round EXCEPT ![n] = NoRound]
    /\ UNCHANGED <<up, procVars, touch, leaseVars, roomVars>>

-----------------------------------------------------------------------------
(* Crashes                                                                 *)

Hosted(n) == {c \in Conns : NodeOf[c] = n /\ stage[c] # "new"}

Crash(n) ==
    /\ n \in up /\ crashes < MaxCrashes
    /\ crashes' = crashes + 1
    /\ up' = up \ {n}
    /\ sessions' = sessions \ Hosted(n)
    /\ touch' = touch \ Hosted(n)
    /\ connRooms' = [c \in Conns |-> IF c \in Hosted(n) THEN {} ELSE connRooms[c]]
    /\ stage' = [c \in Conns |-> IF c \in Hosted(n) THEN "gone" ELSE stage[c]]
    /\ target' = [c \in Conns |-> IF c \in Hosted(n) THEN {} ELSE target[c]]
    /\ found' = [c \in Conns |-> IF c \in Hosted(n) THEN {} ELSE found[c]]
    /\ round' = [round EXCEPT ![n] = NoRound]
    /\ UNCHANGED <<leaseVars, roomVars, failures, joins>>

\* A process with the node's id starts again: a container that is restarted
\* keeps the name of its pod, a pod that is replaced does not.
Restart(n) ==
    /\ n \in Nodes \ up
    /\ up' = up \cup {n}
    /\ UNCHANGED <<procVars, touch, leaseVars, roomVars, round, counts>>

-----------------------------------------------------------------------------
Socket(c) == FirstTouch(c) \/ JoinStore(c) \/ CleanupRead(c) \/ CleanupRemove(c)

Reconcile(n) ==
    \/ ListConns(n)
    \/ \E c \in Conns : CheckAlive(n, c) \/ ReadStale(n, c) \/ RemoveStale(n, c)

LeaseNext ==
    \/ \E c \in Conns : \/ RegisterSession(c) \/ UnregisterConn(c) \/ Socket(c)
                        \/ TouchSession(c) \/ ApplyTouch(c) \/ Expire(c)
    \/ \E c \in Conns, r \in Rooms : Join(c, r) \/ Leave(c, r)
    \/ \E n \in Nodes : Reconcile(n) \/ RoundFails(n) \/ Crash(n) \/ Restart(n)

LeaseSpec == LeaseInit /\ [][LeaseNext]_allVars

\* Goroutines go on, a key without heartbeat expires and the ticker of a
\* running reconciler fires for ever. No node has to come back.
LeaseFairness ==
    /\ \A c \in Conns : /\ WF_allVars(Socket(c)) /\ WF_allVars(ApplyTouch(c))
                        /\ WF_allVars(c \notin sessions /\ Expire(c))
    /\ \A n \in Nodes : WF_allVars(Reconcile(n))

FairLeaseSpec == LeaseSpec /\ LeaseFairness

-----------------------------------------------------------------------------
(* Properties                                                              *)

\* Nothing in Redis names the connection any more.
Forgotten(c) ==
    /\ c \notin alive /\ redisConnRooms[c] = {}
    /\ \A n \in Nodes : c \notin nodeConns[n]
    /\ \A r \in Rooms : c \notin redisMembers[r]

\* The reconciler and a missed heartbeat never take a room away from a
\* connection that is being served: between its handlers Redis lists exactly
\* the rooms it has joined.
LiveKeepsMembership ==
    \A c \in Conns : stage[c] = "serving" =>
        /\ redisConnRooms[c] = connRooms[c]
        /\ \A r \in Rooms : c \in redisMembers[r] <=> r \in connRooms[c]

\* A member that has gone can still be found by a reconciler: its rooms are
\* listed under it and it is listed under its node. A crash between any two
\* steps of a join, a touch or a cleanup leaves no member out of reach.
MembersAreReachable ==
    \A c \in touched, r \in Rooms : stage[c] = "gone" /\ c \in redisMembers[r] =>
        r \in redisConnRooms[c] /\ c \in nodeConns[NodeOf[c]]

\* A connection that ended, in whatever way, is eventually forgotten if a node
\* of its id runs again and again: by its own cleanup, or after the TTL by the
\* reconciler of that node; a heartbeat that lands after the cleanup and a
\* reconciler that is stopped in the middle only delay it.
EventuallyForgotten ==
    \A c \in Conns : []<>(NodeOf[c] \in up) =>
        (stage[c] = "gone" /\ c \in touched ~> Forgotten(c))

\* The runbook's promise for a node crash: the reconcilers, which run on each
\* node, remove the members it leaves in the rooms, whether or not it returns.
StaleMembersClear ==
    \A c \in Conns, r \in Rooms :
        stage[c] = "gone" /\ c \in redisMembers[r] ~> c \notin redisMembers[r]
=============================================================================
