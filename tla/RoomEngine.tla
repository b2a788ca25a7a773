----------------------------- MODULE RoomEngine -----------------------------
(***************************************************************************)
(* Session, membership, presence and event-acknowledgement state of the    *)
(* room engine (server/internal/roomengine/engine.go).                     *)
(*                                                                         *)
(* Every engine method runs under one mutex, so each is one atomic action  *)
(* here. Leave, presence and disconnect are split by the engine itself     *)
(* into New...Plan (read lock) and Apply...Plan (write lock); the runtime  *)
(* does I/O between the two, so the plan is state that may be stale when   *)
(* it is applied. All calls for one connection come from the goroutine     *)
(* that reads its socket: a connection has at most one plan outstanding,   *)
(* and it abandons it only to disconnect.                                  *)
(*                                                                         *)
(* Each runtime node has an engine of its own and a connection never       *)
(* changes node. The engines of all nodes are kept in one set of           *)
(* variables; Members(n, r) is the slice that belongs to node n.           *)
(* A Go map entry holding an empty map and a missing entry are told apart  *)
(* by no caller: both are the empty set.                                   *)
(***************************************************************************)
EXTENDS Naturals, FiniteSets

CONSTANTS
    Conns,              \* connection ids (random, never reused)
    Rooms,              \* room names
    Nodes,              \* runtime nodes
    NodeOf,             \* the node whose socket a connection is
    Payloads,           \* presence states
    NoPayload,          \* no presence recorded
    RoomsPerConnection, \* limit on rooms of a connection, 0: none
    RoomConnections,    \* limit on a room's connections per node, 0: none
    MaxSequence         \* bound on the event sequences a client may ack

ASSUME EngineAssumption ==
    /\ IsFiniteSet(Conns)
    /\ IsFiniteSet(Rooms)
    /\ NodeOf \in [Conns -> Nodes]
    /\ NoPayload \notin Payloads
    /\ RoomsPerConnection \in Nat
    /\ RoomConnections \in Nat
    /\ MaxSequence \in Nat

VARIABLES
    rooms,      \* rooms[r]: connections that are members of r
    connRooms,  \* connRooms[c]: rooms c has joined
    sessions,   \* registered connections
    closed,     \* connections whose disconnect has been applied
    presence,   \* presence[r][c]: presence state of c in r
    eventAcks,  \* eventAcks[c][r]: highest acknowledged event sequence, 0: none
    plan        \* plan[c]: the plan c's goroutine holds

vars == <<rooms, connRooms, sessions, closed, presence, eventAcks, plan>>

-----------------------------------------------------------------------------
(* Plans. A plan names the rooms it is about and, for each, the local      *)
(* members that were in the room when the plan was made.                   *)

PlanKinds == {"none", "leave", "presence", "disconnect"}

Plan == [kind    : PlanKinds,
         rooms   : SUBSET Rooms,
         targets : [Rooms -> SUBSET Conns],
         payload : Payloads \cup {NoPayload}]

NoTargets == [r \in Rooms |-> {}]

NoPlan == [kind |-> "none", rooms |-> {}, targets |-> NoTargets,
           payload |-> NoPayload]

Members(n, r) == {c \in rooms[r] : NodeOf[c] = n}

\* memberIDsLocked: the local members of r, except those in excluded.
MemberIDs(c, r, excluded) == Members(NodeOf[c], r) \ excluded

\* The limits of JoinLimits: a limit of 0 is off.
Below(limit, n) == limit = 0 \/ n < limit

Idle(c) == c \in sessions /\ plan[c].kind = "none"

-----------------------------------------------------------------------------
(* State                                                                   *)

TypeOK ==
    /\ rooms     \in [Rooms -> SUBSET Conns]
    /\ connRooms \in [Conns -> SUBSET Rooms]
    /\ sessions  \in SUBSET Conns
    /\ closed    \in SUBSET Conns
    /\ presence  \in [Rooms -> [Conns -> Payloads \cup {NoPayload}]]
    /\ eventAcks \in [Conns -> [Rooms -> Nat]]
    /\ plan      \in [Conns -> Plan]

Init ==
    /\ rooms     = [r \in Rooms |-> {}]
    /\ connRooms = [c \in Conns |-> {}]
    /\ sessions  = {}
    /\ closed    = {}
    /\ presence  = [r \in Rooms |-> [c \in Conns |-> NoPayload]]
    /\ eventAcks = [c \in Conns |-> [r \in Rooms |-> 0]]
    /\ plan      = [c \in Conns |-> NoPlan]

-----------------------------------------------------------------------------
(* Operations                                                              *)

RegisterSession(c) ==
    /\ c \notin sessions \cup closed
    /\ sessions' = sessions \cup {c}
    /\ UNCHANGED <<rooms, connRooms, closed, presence, eventAcks, plan>>

\* Faulty variant: the room's limit is not checked.
CanJoinFullRoom(c, r) ==
    /\ r \notin connRooms[c]
    /\ Below(RoomsPerConnection, Cardinality(connRooms[c]))

\* The checks of JoinWithLimits, in its order: already joined, then the
\* connection's limit, then the room's.
CanJoin(c, r) ==
    /\ r \notin connRooms[c]
    /\ Below(RoomsPerConnection, Cardinality(connRooms[c]))
    /\ Below(RoomConnections, Cardinality(Members(NodeOf[c], r)))

JoinWithLimits(c, r) ==
    /\ Idle(c)
    /\ CanJoin(c, r)
    /\ connRooms' = [connRooms EXCEPT ![c] = @ \cup {r}]
    /\ rooms' = [rooms EXCEPT ![r] = @ \cup {c}]
    /\ UNCHANGED <<sessions, closed, presence, eventAcks, plan>>

NewLeavePlan(c, r) ==
    /\ Idle(c)
    /\ r \in connRooms[c]
    /\ plan' = [plan EXCEPT ![c] =
                  [kind    |-> "leave",
                   rooms   |-> {r},
                   targets |-> [NoTargets EXCEPT ![r] = MemberIDs(c, r, {c})],
                   payload |-> NoPayload]]
    /\ UNCHANGED <<rooms, connRooms, sessions, closed, presence, eventAcks>>

\* Faulty variant: the last member stays behind in an emptied room.
RemoveMemberKeepsLast(c, rs) ==
    rooms' = [r \in Rooms |-> IF r \in rs /\ rooms[r] # {c}
                              THEN rooms[r] \ {c} ELSE rooms[r]]

\* Faulty variant: presence is left behind.
KeepPresence(c, rs) == UNCHANGED presence

\* removeRoomMemberLocked, removePresenceLocked: c is taken out of rs.
RemoveMember(c, rs) ==
    rooms' = [r \in Rooms |-> IF r \in rs THEN rooms[r] \ {c} ELSE rooms[r]]

RemovePresence(c, rs) ==
    presence' = [r \in Rooms |-> IF r \in rs
                                 THEN [presence[r] EXCEPT ![c] = NoPayload]
                                 ELSE presence[r]]

\* Re-checks that the room is still joined: the plan may be stale.
ApplyLeavePlan(c) ==
    LET left == plan[c].rooms \cap connRooms[c] IN
    /\ plan[c].kind = "leave"
    /\ connRooms' = [connRooms EXCEPT ![c] = @ \ left]
    /\ RemoveMember(c, left)
    /\ RemovePresence(c, left)
    /\ eventAcks' = [eventAcks EXCEPT ![c] =
                       [r \in Rooms |-> IF r \in left THEN 0 ELSE @[r]]]
    /\ plan' = [plan EXCEPT ![c] = NoPlan]
    /\ UNCHANGED <<sessions, closed>>

\* The targets of a presence update include the connection itself; the room
\* need not be joined.
NewPresenceSetPlan(c, r, p) ==
    /\ Idle(c)
    /\ plan' = [plan EXCEPT ![c] =
                  [kind    |-> "presence",
                   rooms   |-> {r},
                   targets |-> [NoTargets EXCEPT ![r] = MemberIDs(c, r, {})],
                   payload |-> p]]
    /\ UNCHANGED <<rooms, connRooms, sessions, closed, presence, eventAcks>>

ApplyPresenceSetPlan(c) ==
    /\ plan[c].kind = "presence"
    /\ presence' = [r \in Rooms |->
                      IF r \in plan[c].rooms
                      THEN [presence[r] EXCEPT ![c] = plan[c].payload]
                      ELSE presence[r]]
    /\ plan' = [plan EXCEPT ![c] = NoPlan]
    /\ UNCHANGED <<rooms, connRooms, sessions, closed, eventAcks>>

\* Faulty variant: a late acknowledgement overwrites a newer one.
AcknowledgeLatest(c, r, sequence) ==
    /\ Idle(c)
    /\ sequence > 0
    /\ r \in connRooms[c]
    /\ eventAcks' = [eventAcks EXCEPT ![c][r] = sequence]
    /\ UNCHANGED <<rooms, connRooms, sessions, closed, presence, plan>>

\* An acknowledgement needs a joined room and only ever raises the cursor.
AcknowledgeEvent(c, r, sequence) ==
    /\ Idle(c)
    /\ sequence > 0
    /\ r \in connRooms[c]
    /\ eventAcks' = [eventAcks EXCEPT ![c][r] =
                       IF sequence > @ THEN sequence ELSE @]
    /\ UNCHANGED <<rooms, connRooms, sessions, closed, presence, plan>>

\* Faulty variant: only rooms with somebody to notify are in the plan.
DisconnectPlanOfAudience(c) ==
    LET heard == {r \in connRooms[c] : MemberIDs(c, r, {c}) # {}} IN
    /\ c \in sessions
    /\ plan[c].kind # "disconnect"
    /\ plan' = [plan EXCEPT ![c] =
                  [kind    |-> "disconnect",
                   rooms   |-> heard,
                   targets |-> [r \in Rooms |-> IF r \in heard
                                                THEN MemberIDs(c, r, {c})
                                                ELSE {}],
                   payload |-> NoPayload]]
    /\ UNCHANGED <<rooms, connRooms, sessions, closed, presence, eventAcks>>

\* unregisterConn: a handler that failed leaves its own plan unapplied.
NewDisconnectPlan(c) ==
    /\ c \in sessions
    /\ plan[c].kind # "disconnect"
    /\ plan' = [plan EXCEPT ![c] =
                  [kind    |-> "disconnect",
                   rooms   |-> connRooms[c],
                   targets |-> [r \in Rooms |-> IF r \in connRooms[c]
                                                THEN MemberIDs(c, r, {c})
                                                ELSE {}],
                   payload |-> NoPayload]]
    /\ UNCHANGED <<rooms, connRooms, sessions, closed, presence, eventAcks>>

\* Members and presence are removed for the rooms of the plan; the
\* connection's own entries are deleted whole.
ApplyDisconnectPlan(c) ==
    /\ plan[c].kind = "disconnect"
    /\ RemoveMember(c, plan[c].rooms)
    /\ RemovePresence(c, plan[c].rooms)
    /\ connRooms' = [connRooms EXCEPT ![c] = {}]
    /\ sessions' = sessions \ {c}
    /\ closed' = closed \cup {c}
    /\ eventAcks' = [eventAcks EXCEPT ![c] = [r \in Rooms |-> 0]]
    /\ plan' = [plan EXCEPT ![c] = NoPlan]

Next ==
    \E c \in Conns :
        \/ RegisterSession(c)
        \/ \E r \in Rooms : JoinWithLimits(c, r)
        \/ \E r \in Rooms : NewLeavePlan(c, r)
        \/ ApplyLeavePlan(c)
        \/ \E r \in Rooms, p \in Payloads : NewPresenceSetPlan(c, r, p)
        \/ ApplyPresenceSetPlan(c)
        \/ \E r \in Rooms, s \in 1..MaxSequence : AcknowledgeEvent(c, r, s)
        \/ NewDisconnectPlan(c)
        \/ ApplyDisconnectPlan(c)

Spec == Init /\ [][Next]_vars

-----------------------------------------------------------------------------
(* Properties                                                              *)

\* The two membership indexes of the engine agree: joins, leaves and
\* disconnects that work from a plan made earlier never leave a connection
\* in a room it does not list, or the reverse.
MembershipMirror ==
    \A c \in Conns, r \in Rooms : c \in rooms[r] <=> r \in connRooms[c]

\* A closed connection leaves nothing behind that would keep a room full,
\* a target list long or an acknowledgement range low: no membership, no
\* joined rooms, no acknowledgement cursor.
ClosedLeavesNoTrace ==
    \A c \in closed, r \in Rooms :
        c \notin rooms[r] /\ connRooms[c] = {} /\ eventAcks[c][r] = 0

\* JoinLimits hold whatever the order of joins, leaves and disconnects of
\* the connections: the limit is checked and the member added under one lock.
LimitsRespected ==
    /\ RoomsPerConnection > 0 =>
         \A c \in Conns : Cardinality(connRooms[c]) <= RoomsPerConnection
    /\ RoomConnections > 0 =>
         \A n \in Nodes, r \in Rooms : Cardinality(Members(n, r)) <= RoomConnections

\* An acknowledgement cursor exists only for a joined room, so a connection
\* that leaves and joins again starts with no cursor of its own.
AcksOnlyForJoined ==
    \A c \in Conns, r \in Rooms : eventAcks[c][r] > 0 => r \in connRooms[c]

PresenceFollowsMembership(c, r) ==
    /\ (c \in rooms[r] /\ c \notin rooms'[r]) => presence'[r][c] = NoPayload
    /\ (presence[r][c] # NoPayload /\ presence'[r][c] = NoPayload)
         => (c \in rooms[r] /\ c \notin rooms'[r])

\* Losing a room takes the connection's presence there with it in the same
\* step; presence of a connection that is still a member is never erased.
LeavingErasesPresence ==
    [][\A c \in Conns, r \in Rooms : PresenceFollowsMembership(c, r)]_vars

\* A joined connection's acknowledgement cursor never moves back.
AckCursorMonotone ==
    [][\A c \in Conns, r \in Rooms :
         r \in connRooms[c] /\ r \in connRooms'[c]
           => eventAcks'[c][r] >= eventAcks[c][r]]_vars

-----------------------------------------------------------------------------
(* Inductive strengthening: what a connection's outstanding plan and its   *)
(* lifecycle say about its membership.                                     *)

PlanCoversMembership ==
    \A c \in Conns :
        /\ plan[c].kind # "none" => c \in sessions
        /\ plan[c].kind = "leave" => plan[c].rooms \subseteq connRooms[c]
        /\ plan[c].kind = "disconnect" => plan[c].rooms = connRooms[c]
        /\ plan[c].kind = "presence" => plan[c].payload # NoPayload

SessionLifecycle ==
    /\ sessions \cap closed = {}
    /\ \A c \in Conns \ sessions : connRooms[c] = {}

IInv ==
    /\ TypeOK
    /\ MembershipMirror
    /\ PlanCoversMembership
    /\ SessionLifecycle
    /\ AcksOnlyForJoined
    /\ LimitsRespected
=============================================================================
