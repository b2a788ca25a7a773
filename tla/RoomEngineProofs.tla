-------------------------- MODULE RoomEngineProofs --------------------------
(***************************************************************************)
(* Proofs about RoomEngine for every set of connections, rooms and nodes   *)
(* and every value of the limits. IInv is the inductive invariant: the     *)
(* mirror of the two membership indexes is not inductive by itself, since  *)
(* ApplyDisconnectPlan removes the members of the plan's rooms but deletes *)
(* the whole of connRooms[c]; it needs PlanCoversMembership, that the plan *)
(* still lists every joined room when it is applied.                       *)
(***************************************************************************)
EXTENDS RoomEngine, FiniteSetTheorems, TLAPS

\* The members of a room on a node, and the joined rooms of a connection,
\* are finite sets, so the limits compare natural numbers.
LEMMA FiniteMembership ==
    ASSUME TypeOK
    PROVE  /\ \A c \in Conns : IsFiniteSet(connRooms[c])
           /\ \A n \in Nodes, r \in Rooms : IsFiniteSet(Members(n, r))
<1>1. ASSUME NEW c \in Conns PROVE IsFiniteSet(connRooms[c])
  <2>1. connRooms[c] \in SUBSET Rooms BY DEF TypeOK
  <2>2. QED BY <2>1, EngineAssumption, FS_Subset
<1>2. ASSUME NEW n \in Nodes, NEW r \in Rooms PROVE IsFiniteSet(Members(n, r))
  <2>1. Members(n, r) \in SUBSET Conns BY DEF TypeOK, Members
  <2>2. QED BY <2>1, EngineAssumption, FS_Subset
<1>3. QED BY <1>1, <1>2

\* The engine starts with no session and no room, where IInv holds.
LEMMA InitEstablishes == Init => IInv
<1> SUFFICES ASSUME Init PROVE IInv OBVIOUS
<1> USE EngineAssumption
<1>1. TypeOK BY DEF Init, TypeOK, NoPlan, NoTargets, Plan, PlanKinds
<1>2. MembershipMirror BY DEF Init, MembershipMirror
<1>3. PlanCoversMembership BY DEF Init, PlanCoversMembership, NoPlan
<1>4. SessionLifecycle BY DEF Init, SessionLifecycle
<1>5. AcksOnlyForJoined BY DEF Init, AcksOnlyForJoined
<1>6. LimitsRespected
  <2>1. \A c \in Conns : connRooms[c] = {} BY DEF Init
  <2>2. \A n \in Nodes, r \in Rooms : Members(n, r) = {} BY DEF Init, Members
  <2>3. QED BY <2>1, <2>2, FS_EmptySet DEF LimitsRespected
<1>7. QED BY <1>1, <1>2, <1>3, <1>4, <1>5, <1>6 DEF IInv

\* No operation of the engine leaves the types of its maps.
LEMMA StepTypeOK ==
    ASSUME TypeOK, [Next]_vars
    PROVE  TypeOK'
<1> USE EngineAssumption DEF TypeOK
<1>0. NoPlan \in Plan BY DEF NoPlan, NoTargets, Plan, PlanKinds
<1>a. \A c \in Conns, r \in Rooms : \A e : MemberIDs(c, r, e) \in SUBSET Conns
  BY DEF MemberIDs, Members
<1>1. ASSUME NEW c \in Conns, RegisterSession(c) PROVE TypeOK'
  BY <1>1 DEF RegisterSession
<1>2. ASSUME NEW c \in Conns, NEW r \in Rooms, JoinWithLimits(c, r) PROVE TypeOK'
  BY <1>2 DEF JoinWithLimits
<1>3. ASSUME NEW c \in Conns, NEW r \in Rooms, NewLeavePlan(c, r) PROVE TypeOK'
  <2>1. plan' \in [Conns -> Plan]
    BY <1>3, <1>a DEF NewLeavePlan, Plan, PlanKinds, NoTargets
  <2>2. QED BY <1>3, <2>1 DEF NewLeavePlan
<1>4. ASSUME NEW c \in Conns, ApplyLeavePlan(c) PROVE TypeOK'
  <2>1. plan' \in [Conns -> Plan] BY <1>4, <1>0 DEF ApplyLeavePlan
  <2>2. rooms' \in [Rooms -> SUBSET Conns] BY <1>4 DEF ApplyLeavePlan, RemoveMember
  <2>3. presence' \in [Rooms -> [Conns -> Payloads \cup {NoPayload}]]
    BY <1>4 DEF ApplyLeavePlan, RemovePresence
  <2>4. connRooms' \in [Conns -> SUBSET Rooms] BY <1>4 DEF ApplyLeavePlan
  <2>5. eventAcks' \in [Conns -> [Rooms -> Nat]] BY <1>4 DEF ApplyLeavePlan
  <2>6. QED BY <1>4, <2>1, <2>2, <2>3, <2>4, <2>5 DEF ApplyLeavePlan
<1>5. ASSUME NEW c \in Conns, NEW r \in Rooms, NEW p \in Payloads,
             NewPresenceSetPlan(c, r, p)
      PROVE TypeOK'
  <2>1. plan' \in [Conns -> Plan]
    BY <1>5, <1>a DEF NewPresenceSetPlan, Plan, PlanKinds, NoTargets
  <2>2. QED BY <1>5, <2>1 DEF NewPresenceSetPlan
<1>6. ASSUME NEW c \in Conns, ApplyPresenceSetPlan(c) PROVE TypeOK'
  <2>1. plan[c].payload \in Payloads \cup {NoPayload} BY DEF Plan
  <2>2. QED BY <1>6, <1>0, <2>1 DEF ApplyPresenceSetPlan
<1>7. ASSUME NEW c \in Conns, NEW r \in Rooms, NEW s \in 1..MaxSequence,
             AcknowledgeEvent(c, r, s)
      PROVE TypeOK'
  BY <1>7 DEF AcknowledgeEvent
<1>8. ASSUME NEW c \in Conns, NewDisconnectPlan(c) PROVE TypeOK'
  <2>1. plan' \in [Conns -> Plan]
    BY <1>8, <1>a DEF NewDisconnectPlan, Plan, PlanKinds
  <2>2. QED BY <1>8, <2>1 DEF NewDisconnectPlan
<1>9. ASSUME NEW c \in Conns, ApplyDisconnectPlan(c) PROVE TypeOK'
  <2>1. plan' \in [Conns -> Plan] BY <1>9, <1>0 DEF ApplyDisconnectPlan
  <2>2. rooms' \in [Rooms -> SUBSET Conns]
    BY <1>9 DEF ApplyDisconnectPlan, RemoveMember
  <2>3. presence' \in [Rooms -> [Conns -> Payloads \cup {NoPayload}]]
    BY <1>9 DEF ApplyDisconnectPlan, RemovePresence
  <2>4. QED BY <1>9, <2>1, <2>2, <2>3 DEF ApplyDisconnectPlan
<1>10. CASE UNCHANGED vars BY <1>10 DEF vars
<1>11. QED BY <1>1, <1>2, <1>3, <1>4, <1>5, <1>6, <1>7, <1>8, <1>9, <1>10 DEF Next

-----------------------------------------------------------------------------
(* What each kind of step does to membership, stated once.                 *)

\* A join adds exactly one pair to both indexes.
LEMMA JoinEffect ==
    ASSUME TypeOK, NEW c \in Conns, NEW r \in Rooms, JoinWithLimits(c, r)
    PROVE  /\ connRooms'[c] = connRooms[c] \cup {r}
           /\ \A d \in Conns \ {c} : connRooms'[d] = connRooms[d]
           /\ rooms'[r] = rooms[r] \cup {c}
           /\ \A q \in Rooms \ {r} : rooms'[q] = rooms[q]
BY DEF TypeOK, JoinWithLimits

\* A leave removes the planned rooms that are still joined from both indexes.
LEMMA LeaveEffect ==
    ASSUME TypeOK, NEW c \in Conns, ApplyLeavePlan(c)
    PROVE  /\ connRooms'[c] = connRooms[c] \ plan[c].rooms
           /\ \A d \in Conns \ {c} : connRooms'[d] = connRooms[d]
           /\ \A r \in Rooms : rooms'[r] = IF r \in plan[c].rooms \cap connRooms[c]
                                          THEN rooms[r] \ {c} ELSE rooms[r]
BY DEF TypeOK, ApplyLeavePlan, RemoveMember

\* A disconnect empties connRooms[c] but removes c only from the plan's rooms.
LEMMA DisconnectEffect ==
    ASSUME TypeOK, NEW c \in Conns, ApplyDisconnectPlan(c)
    PROVE  /\ connRooms'[c] = {}
           /\ \A d \in Conns \ {c} : connRooms'[d] = connRooms[d]
           /\ \A r \in Rooms : rooms'[r] = IF r \in plan[c].rooms
                                          THEN rooms[r] \ {c} ELSE rooms[r]
BY DEF TypeOK, ApplyDisconnectPlan, RemoveMember

\* Every other step leaves both membership indexes alone.
LEMMA MembershipFrame ==
    ASSUME [Next]_vars,
           \A c \in Conns : /\ ~ApplyLeavePlan(c)
                            /\ ~ApplyDisconnectPlan(c)
                            /\ \A r \in Rooms : ~JoinWithLimits(c, r)
    PROVE  UNCHANGED <<rooms, connRooms>>
BY DEF Next, vars, RegisterSession, NewLeavePlan, NewPresenceSetPlan,
       ApplyPresenceSetPlan, AcknowledgeEvent, NewDisconnectPlan

\* The two membership indexes stay mirrors of each other. The disconnect
\* case is the one that needs the plan to be up to date.
LEMMA StepMirror ==
    ASSUME IInv, [Next]_vars
    PROVE  MembershipMirror'
<1>0. TypeOK /\ MembershipMirror BY DEF IInv
<1>a. \A d \in Conns, q \in Rooms : d \in rooms[q] <=> q \in connRooms[d]
  BY <1>0 DEF MembershipMirror
<1>1. ASSUME NEW c \in Conns, NEW r \in Rooms, JoinWithLimits(c, r)
      PROVE MembershipMirror'
  <2> SUFFICES ASSUME NEW d \in Conns, NEW q \in Rooms
               PROVE  d \in rooms'[q] <=> q \in connRooms'[d]
    BY DEF MembershipMirror
  <2>1. /\ q \in connRooms'[d] <=> q \in connRooms[d] \/ (d = c /\ q = r)
        /\ d \in rooms'[q] <=> d \in rooms[q] \/ (d = c /\ q = r)
    BY <1>0, <1>1, JoinEffect
  <2>2. QED BY <1>a, <2>1
<1>2. ASSUME NEW c \in Conns, ApplyLeavePlan(c) PROVE MembershipMirror'
  <2> SUFFICES ASSUME NEW d \in Conns, NEW q \in Rooms
               PROVE  d \in rooms'[q] <=> q \in connRooms'[d]
    BY DEF MembershipMirror
  <2>1. q \in connRooms'[d] <=> q \in connRooms[d] /\ ~(d = c /\ q \in plan[c].rooms)
    BY <1>0, <1>2, LeaveEffect
  <2>2. d \in rooms'[q] <=> d \in rooms[q] /\ ~(d = c /\ q \in plan[c].rooms
                                                      /\ q \in connRooms[c])
    BY <1>0, <1>2, LeaveEffect, ZenonT(60)
  <2>3. QED BY <1>a, <2>1, <2>2
<1>3. ASSUME NEW c \in Conns, ApplyDisconnectPlan(c) PROVE MembershipMirror'
  <2> SUFFICES ASSUME NEW d \in Conns, NEW q \in Rooms
               PROVE  d \in rooms'[q] <=> q \in connRooms'[d]
    BY DEF MembershipMirror
  <2>1. plan[c].rooms = connRooms[c]
    BY <1>3 DEF IInv, PlanCoversMembership, ApplyDisconnectPlan
  <2>2. q \in connRooms'[d] <=> q \in connRooms[d] /\ d # c
    BY <1>0, <1>3, DisconnectEffect
  <2>3. rooms'[q] = IF q \in plan[c].rooms THEN rooms[q] \ {c} ELSE rooms[q]
    BY <1>0, <1>3, DisconnectEffect
  <2>4. d \in rooms'[q] <=> d \in rooms[q] /\ ~(d = c /\ q \in plan[c].rooms)
    BY <2>3
  <2>5. QED BY <1>a, <2>1, <2>2, <2>4
<1>4. CASE UNCHANGED <<rooms, connRooms>> BY <1>0, <1>4 DEF MembershipMirror
<1>5. QED BY <1>1, <1>2, <1>3, <1>4, MembershipFrame

\* A plan that is outstanding keeps describing its connection's membership:
\* only the connection's own goroutine changes it, and that goroutine holds
\* no plan when it joins.
LEMMA StepPlan ==
    ASSUME IInv, [Next]_vars
    PROVE  PlanCoversMembership'
<1> USE DEF IInv, PlanCoversMembership
<1>1. ASSUME NEW c \in Conns, RegisterSession(c) PROVE PlanCoversMembership'
  BY <1>1 DEF RegisterSession, TypeOK
<1>2. ASSUME NEW c \in Conns, NEW r \in Rooms, JoinWithLimits(c, r)
      PROVE PlanCoversMembership'
  <2>1. plan[c].kind = "none" /\ plan' = plan /\ sessions' = sessions
    BY <1>2 DEF JoinWithLimits, Idle
  <2>2. QED BY <1>2, <2>1, JoinEffect
<1>3. ASSUME NEW c \in Conns, NEW r \in Rooms, NewLeavePlan(c, r)
      PROVE PlanCoversMembership'
  BY <1>3 DEF NewLeavePlan, Idle, TypeOK
<1>4. ASSUME NEW c \in Conns, ApplyLeavePlan(c) PROVE PlanCoversMembership'
  <2>1. plan'[c].kind = "none" /\ \A d \in Conns \ {c} : plan'[d] = plan[d]
    BY <1>4 DEF ApplyLeavePlan, NoPlan, TypeOK
  <2>2. sessions' = sessions BY <1>4 DEF ApplyLeavePlan
  <2>3. QED BY <1>4, <2>1, <2>2, LeaveEffect
<1>5. ASSUME NEW c \in Conns, NEW r \in Rooms, NEW p \in Payloads,
             NewPresenceSetPlan(c, r, p)
      PROVE PlanCoversMembership'
  BY <1>5, EngineAssumption DEF NewPresenceSetPlan, Idle, TypeOK
<1>6. ASSUME NEW c \in Conns, ApplyPresenceSetPlan(c) PROVE PlanCoversMembership'
  BY <1>6 DEF ApplyPresenceSetPlan, NoPlan, TypeOK
<1>7. ASSUME NEW c \in Conns, NEW r \in Rooms, NEW s \in 1..MaxSequence,
             AcknowledgeEvent(c, r, s)
      PROVE PlanCoversMembership'
  BY <1>7 DEF AcknowledgeEvent
<1>8. ASSUME NEW c \in Conns, NewDisconnectPlan(c) PROVE PlanCoversMembership'
  BY <1>8 DEF NewDisconnectPlan, TypeOK
<1>9. ASSUME NEW c \in Conns, ApplyDisconnectPlan(c) PROVE PlanCoversMembership'
  <2>1. plan'[c].kind = "none" /\ \A d \in Conns \ {c} : plan'[d] = plan[d]
    BY <1>9 DEF ApplyDisconnectPlan, NoPlan, TypeOK
  <2>2. sessions' = sessions \ {c} BY <1>9 DEF ApplyDisconnectPlan
  <2>3. QED BY <1>9, <2>1, <2>2, DisconnectEffect
<1>10. CASE UNCHANGED vars BY <1>10 DEF vars
<1>11. QED BY <1>1, <1>2, <1>3, <1>4, <1>5, <1>6, <1>7, <1>8, <1>9, <1>10 DEF Next

\* A connection that is not registered has joined nothing, and a closed one
\* is not registered again.
LEMMA StepSession ==
    ASSUME IInv, [Next]_vars
    PROVE  SessionLifecycle'
<1>0. TypeOK /\ SessionLifecycle BY DEF IInv
<1> USE DEF SessionLifecycle
<1>1. ASSUME NEW c \in Conns, RegisterSession(c) PROVE SessionLifecycle'
  BY <1>0, <1>1 DEF RegisterSession
<1>2. ASSUME NEW c \in Conns, NEW r \in Rooms, JoinWithLimits(c, r)
      PROVE SessionLifecycle'
  <2>1. c \in sessions /\ UNCHANGED <<sessions, closed>>
    BY <1>2 DEF JoinWithLimits, Idle
  <2>2. QED BY <1>0, <1>2, <2>1, JoinEffect
<1>3. ASSUME NEW c \in Conns, ApplyLeavePlan(c) PROVE SessionLifecycle'
  <2>1. UNCHANGED <<sessions, closed>> BY <1>3 DEF ApplyLeavePlan
  <2>2. \A d \in Conns : connRooms[d] = {} => connRooms'[d] = {}
    BY <1>0, <1>3, LeaveEffect
  <2>3. QED BY <1>0, <2>1, <2>2
<1>4. ASSUME NEW c \in Conns, ApplyDisconnectPlan(c) PROVE SessionLifecycle'
  <2>1. sessions' = sessions \ {c} /\ closed' = closed \cup {c}
    BY <1>4 DEF ApplyDisconnectPlan
  <2>2. QED BY <1>0, <1>4, <2>1, DisconnectEffect
<1>5. CASE UNCHANGED <<connRooms, sessions, closed>> BY <1>0, <1>5
<1>6. QED
  BY <1>1, <1>2, <1>3, <1>4, <1>5 DEF Next, vars, NewLeavePlan, NewPresenceSetPlan,
     ApplyPresenceSetPlan, AcknowledgeEvent, NewDisconnectPlan

\* Acknowledgement cursors are reset with the membership they belong to.
LEMMA StepAcks ==
    ASSUME IInv, [Next]_vars
    PROVE  AcksOnlyForJoined'
<1>0. TypeOK /\ AcksOnlyForJoined BY DEF IInv
<1> USE DEF AcksOnlyForJoined
<1>1. ASSUME NEW c \in Conns, NEW r \in Rooms, JoinWithLimits(c, r)
      PROVE AcksOnlyForJoined'
  <2>1. eventAcks' = eventAcks BY <1>1 DEF JoinWithLimits
  <2>2. QED BY <1>0, <1>1, <2>1, JoinEffect
<1>2. ASSUME NEW c \in Conns, ApplyLeavePlan(c) PROVE AcksOnlyForJoined'
  <2>1. \A q \in Rooms : eventAcks'[c][q] = IF q \in plan[c].rooms \cap connRooms[c]
                                           THEN 0 ELSE eventAcks[c][q]
    BY <1>0, <1>2 DEF ApplyLeavePlan, TypeOK
  <2>2. \A d \in Conns \ {c} : eventAcks'[d] = eventAcks[d]
    BY <1>0, <1>2 DEF ApplyLeavePlan, TypeOK
  <2>3. QED BY <1>0, <1>2, <2>1, <2>2, LeaveEffect
<1>3. ASSUME NEW c \in Conns, NEW r \in Rooms, NEW s \in 1..MaxSequence,
             AcknowledgeEvent(c, r, s)
      PROVE AcksOnlyForJoined'
  BY <1>0, <1>3 DEF AcknowledgeEvent, TypeOK
<1>4. ASSUME NEW c \in Conns, ApplyDisconnectPlan(c) PROVE AcksOnlyForJoined'
  <2>1. \A d \in Conns, q \in Rooms :
          eventAcks'[d][q] = IF d = c THEN 0 ELSE eventAcks[d][q]
    BY <1>0, <1>4 DEF ApplyDisconnectPlan, TypeOK
  <2>2. QED BY <1>0, <1>4, <2>1, DisconnectEffect
<1>5. CASE UNCHANGED <<connRooms, eventAcks>> BY <1>0, <1>5
<1>6. QED
  BY <1>1, <1>2, <1>3, <1>4, <1>5 DEF Next, vars, RegisterSession, NewLeavePlan,
     NewPresenceSetPlan, ApplyPresenceSetPlan, NewDisconnectPlan

\* Removing members keeps a set within its limit, and so does adding one
\* element to a set that is below it.
LEMMA LimitKept ==
    ASSUME NEW S, NEW T, IsFiniteSet(S), NEW limit \in Nat, limit > 0,
           Cardinality(S) <= limit,
           T \subseteq S \/ (\E x : T = S \cup {x} /\ Cardinality(S) < limit)
    PROVE  Cardinality(T) <= limit
<1>0. Cardinality(S) \in Nat BY FS_CardinalityType
<1>1. CASE T \subseteq S
  <2>1. IsFiniteSet(T) /\ Cardinality(T) <= Cardinality(S) BY <1>1, FS_Subset
  <2>2. Cardinality(T) \in Nat BY <2>1, FS_CardinalityType
  <2>3. QED BY <1>0, <2>1, <2>2
<1>2. CASE \E x : T = S \cup {x} /\ Cardinality(S) < limit
  <2>1. PICK x : T = S \cup {x} /\ Cardinality(S) < limit BY <1>2
  <2>2. CASE x \in S
    <3>1. T = S BY <2>1, <2>2
    <3>2. QED BY <3>1
  <2>3. CASE x \notin S
    <3>1. Cardinality(T) = Cardinality(S) + 1 BY <2>1, <2>3, FS_AddElement
    <3>2. QED BY <1>0, <2>1, <3>1
  <2>4. QED BY <2>2, <2>3
<1>3. QED BY <1>1, <1>2

\* The limits hold after a step: a join is the only step that adds, it adds
\* one pair, and it checked both sets under the same lock.
LEMMA StepLimits ==
    ASSUME IInv, [Next]_vars
    PROVE  LimitsRespected'
<1>0. TypeOK /\ LimitsRespected BY DEF IInv
<1>b. /\ \A d \in Conns : \/ connRooms'[d] \subseteq connRooms[d]
                          \/ \E x : /\ connRooms'[d] = connRooms[d] \cup {x}
                                    /\ Below(RoomsPerConnection, Cardinality(connRooms[d]))
      /\ \A n \in Nodes, q \in Rooms :
           \/ Members(n, q)' \subseteq Members(n, q)
           \/ \E x : /\ Members(n, q)' = Members(n, q) \cup {x}
                     /\ Below(RoomConnections, Cardinality(Members(n, q)))
  <2>1. ASSUME NEW c \in Conns, NEW r \in Rooms, JoinWithLimits(c, r) PROVE <1>b!1 /\ <1>b!2
    <3>1. CanJoin(c, r) BY <2>1 DEF JoinWithLimits
    <3>2. ASSUME NEW n \in Nodes, NEW q \in Rooms
          PROVE \/ Members(n, q)' \subseteq Members(n, q)
                \/ \E x : /\ Members(n, q)' = Members(n, q) \cup {x}
                          /\ Below(RoomConnections, Cardinality(Members(n, q)))
      <4>1. CASE q = r /\ n = NodeOf[c]
        <5>1. Members(n, q)' = Members(n, q) \cup {c}
          BY <1>0, <2>1, <4>1, JoinEffect DEF Members
        <5>2. QED BY <3>1, <4>1, <5>1 DEF CanJoin
      <4>2. CASE ~(q = r /\ n = NodeOf[c])
        <5>1. Members(n, q)' = Members(n, q)
          BY <1>0, <2>1, <4>2, JoinEffect DEF Members
        <5>2. QED BY <5>1
      <4>3. QED BY <4>1, <4>2
    <3>3. ASSUME NEW d \in Conns
          PROVE \/ connRooms'[d] \subseteq connRooms[d]
                \/ \E x : /\ connRooms'[d] = connRooms[d] \cup {x}
                          /\ Below(RoomsPerConnection, Cardinality(connRooms[d]))
      BY <1>0, <2>1, <3>1, JoinEffect DEF CanJoin
    <3>4. QED BY <3>2, <3>3
  <2>2. ASSUME NEW c \in Conns, ApplyLeavePlan(c) PROVE <1>b!1 /\ <1>b!2
    <3>1. \A d \in Conns : connRooms'[d] \subseteq connRooms[d] BY <1>0, <2>2, LeaveEffect
    <3>2. \A q \in Rooms : rooms'[q] \subseteq rooms[q] BY <1>0, <2>2, LeaveEffect
    <3>3. QED BY <3>1, <3>2 DEF Members
  <2>3. ASSUME NEW c \in Conns, ApplyDisconnectPlan(c) PROVE <1>b!1 /\ <1>b!2
    <3>1. \A d \in Conns : connRooms'[d] \subseteq connRooms[d] BY <1>0, <2>3, DisconnectEffect
    <3>2. \A q \in Rooms : rooms'[q] \subseteq rooms[q] BY <1>0, <2>3, DisconnectEffect
    <3>3. QED BY <3>1, <3>2 DEF Members
  <2>4. CASE UNCHANGED <<rooms, connRooms>> BY <2>4 DEF Members
  <2>5. QED BY <2>1, <2>2, <2>3, <2>4, MembershipFrame
<1>1. ASSUME RoomsPerConnection > 0, NEW d \in Conns
      PROVE Cardinality(connRooms'[d]) <= RoomsPerConnection
  <2>1. IsFiniteSet(connRooms[d]) BY <1>0, FiniteMembership
  <2>2. Cardinality(connRooms[d]) <= RoomsPerConnection BY <1>0, <1>1 DEF LimitsRespected
  <2>3. QED BY <1>1, <1>b, <2>1, <2>2, LimitKept, EngineAssumption DEF Below
<1>2. ASSUME RoomConnections > 0, NEW n \in Nodes, NEW q \in Rooms
      PROVE Cardinality(Members(n, q)') <= RoomConnections
  <2>1. IsFiniteSet(Members(n, q)) BY <1>0, FiniteMembership
  <2>2. Cardinality(Members(n, q)) <= RoomConnections BY <1>0, <1>2 DEF LimitsRespected
  <2>3. QED BY <1>2, <1>b, <2>1, <2>2, LimitKept, EngineAssumption DEF Below
<1>3. QED BY <1>1, <1>2 DEF LimitsRespected

-----------------------------------------------------------------------------
(* Theorems                                                                *)

\* IInv is an invariant of the engine: typed maps, mirrored membership
\* indexes, plans that cover the membership, cursors only for joined rooms
\* and the join limits.
THEOREM EngineInvariant == Spec => []IInv
<1>1. IInv /\ [Next]_vars => IInv'
  BY StepTypeOK, StepMirror, StepPlan, StepSession, StepAcks, StepLimits DEF IInv
<1>2. QED BY InitEstablishes, <1>1, PTL DEF Spec

\* rooms and connRooms never disagree, although leave and disconnect act on
\* plans made before the I/O between NewLeavePlan and ApplyLeavePlan.
THEOREM MirrorTheorem == Spec => []MembershipMirror
<1>1. IInv => MembershipMirror BY DEF IInv
<1>2. QED BY EngineInvariant, <1>1, PTL

\* JoinLimits are never exceeded on a node.
THEOREM LimitsTheorem == Spec => []LimitsRespected
<1>1. IInv => LimitsRespected BY DEF IInv
<1>2. QED BY EngineInvariant, <1>1, PTL

\* ApplyDisconnectPlan leaves no membership and no cursor of a closed
\* connection, and no later step of any connection brings one back.
THEOREM ClosedTheorem == Spec => []ClosedLeavesNoTrace
<1>1. IInv => ClosedLeavesNoTrace
  <2> SUFFICES ASSUME IInv, NEW c \in closed, NEW r \in Rooms
               PROVE  c \notin rooms[r] /\ connRooms[c] = {} /\ eventAcks[c][r] = 0
    BY DEF ClosedLeavesNoTrace
  <2>1. c \in Conns /\ eventAcks[c][r] \in Nat BY DEF IInv, TypeOK
  <2>2. connRooms[c] = {} BY <2>1 DEF IInv, SessionLifecycle
  <2>3. c \notin rooms[r] BY <2>1, <2>2 DEF IInv, MembershipMirror
  <2>4. eventAcks[c][r] = 0 BY <2>1, <2>2 DEF IInv, AcksOnlyForJoined
  <2>5. QED BY <2>2, <2>3, <2>4
<1>2. QED BY EngineInvariant, <1>1, PTL

\* AcknowledgeEvent, leave and rejoin never move the cursor of a room that
\* stays joined backwards.
THEOREM AckCursorTheorem == Spec => AckCursorMonotone
<1>1. ASSUME IInv, [Next]_vars
      PROVE  [\A c \in Conns, r \in Rooms :
                r \in connRooms[c] /\ r \in connRooms'[c]
                  => eventAcks'[c][r] >= eventAcks[c][r]]_vars
  <2>0. TypeOK BY <1>1 DEF IInv
  <2> SUFFICES ASSUME NEW d \in Conns, NEW q \in Rooms,
                      q \in connRooms[d], q \in connRooms'[d]
               PROVE  eventAcks'[d][q] >= eventAcks[d][q]
    OBVIOUS
  <2>a. eventAcks[d][q] \in Nat BY <2>0 DEF TypeOK
  <2>1. ASSUME NEW c \in Conns, ApplyLeavePlan(c)
        PROVE eventAcks'[d][q] >= eventAcks[d][q]
    <3>1. d = c => q \notin plan[c].rooms BY <2>0, <2>1, LeaveEffect
    <3>2. eventAcks'[d][q] = eventAcks[d][q]
      BY <2>0, <2>1, <3>1 DEF ApplyLeavePlan, TypeOK
    <3>3. QED BY <2>a, <3>2
  <2>2. ASSUME NEW c \in Conns, NEW r \in Rooms, NEW s \in 1..MaxSequence,
               AcknowledgeEvent(c, r, s)
        PROVE eventAcks'[d][q] >= eventAcks[d][q]
    BY <2>0, <2>2, <2>a, EngineAssumption DEF AcknowledgeEvent, TypeOK
  <2>3. ASSUME NEW c \in Conns, ApplyDisconnectPlan(c)
        PROVE eventAcks'[d][q] >= eventAcks[d][q]
    <3>1. d # c BY <2>0, <2>3, DisconnectEffect
    <3>2. eventAcks'[d][q] = eventAcks[d][q]
      BY <2>0, <2>3, <3>1 DEF ApplyDisconnectPlan, TypeOK
    <3>3. QED BY <2>a, <3>2
  <2>4. CASE UNCHANGED eventAcks BY <2>4, <2>a
  <2>5. QED
    BY <1>1, <2>1, <2>2, <2>3, <2>4 DEF Next, vars, RegisterSession, JoinWithLimits,
       NewLeavePlan, NewPresenceSetPlan, ApplyPresenceSetPlan, NewDisconnectPlan
<1>2. QED BY EngineInvariant, <1>1, PTL DEF Spec, AckCursorMonotone

\* A step that takes a connection out of a room erases its presence there,
\* and nothing else erases presence.
THEOREM PresenceTheorem == Spec => LeavingErasesPresence
<1>1. ASSUME IInv, [Next]_vars
      PROVE  [\A c \in Conns, r \in Rooms : PresenceFollowsMembership(c, r)]_vars
  <2>0. TypeOK /\ TypeOK' /\ MembershipMirror
    BY <1>1, StepTypeOK DEF IInv
  <2> SUFFICES ASSUME NEW d \in Conns, NEW q \in Rooms
               PROVE  PresenceFollowsMembership(d, q)
    OBVIOUS
  <2>1. ASSUME NEW c \in Conns, ApplyLeavePlan(c) PROVE PresenceFollowsMembership(d, q)
    <3> DEFINE gone == plan[c].rooms \cap connRooms[c]
    <3>1. presence'[q][d] = IF d = c /\ q \in gone THEN NoPayload ELSE presence[q][d]
      BY <2>0, <2>1 DEF ApplyLeavePlan, RemovePresence, TypeOK
    <3>2. rooms'[q] = IF q \in gone THEN rooms[q] \ {c} ELSE rooms[q]
      BY <2>0, <2>1, LeaveEffect
    <3>3. q \in gone => c \in rooms[q] BY <2>0 DEF MembershipMirror
    <3>4. QED BY <3>1, <3>2, <3>3 DEF PresenceFollowsMembership
  <2>2. ASSUME NEW c \in Conns, ApplyDisconnectPlan(c)
        PROVE PresenceFollowsMembership(d, q)
    <3>1. presence'[q][d] = IF d = c /\ q \in plan[c].rooms
                           THEN NoPayload ELSE presence[q][d]
      BY <2>0, <2>2 DEF ApplyDisconnectPlan, RemovePresence, TypeOK
    <3>2. rooms'[q] = IF q \in plan[c].rooms THEN rooms[q] \ {c} ELSE rooms[q]
      BY <2>0, <2>2, DisconnectEffect
    <3>3. plan[c].rooms = connRooms[c]
      BY <1>1, <2>2 DEF IInv, PlanCoversMembership, ApplyDisconnectPlan
    <3>4. q \in plan[c].rooms => c \in rooms[q] BY <2>0, <3>3 DEF MembershipMirror
    <3>5. QED BY <3>1, <3>2, <3>4 DEF PresenceFollowsMembership
  <2>3. ASSUME NEW c \in Conns, NEW r \in Rooms, JoinWithLimits(c, r)
        PROVE PresenceFollowsMembership(d, q)
    <3>1. d \in rooms[q] => d \in rooms'[q] BY <2>0, <2>3, JoinEffect
    <3>2. presence' = presence BY <2>3 DEF JoinWithLimits
    <3>3. QED BY <3>1, <3>2 DEF PresenceFollowsMembership
  <2>4. ASSUME NEW c \in Conns, ApplyPresenceSetPlan(c)
        PROVE PresenceFollowsMembership(d, q)
    <3>1. rooms' = rooms BY <2>4 DEF ApplyPresenceSetPlan
    <3>2. plan[c].payload # NoPayload
      BY <1>1, <2>4 DEF IInv, PlanCoversMembership, ApplyPresenceSetPlan
    <3>3. presence'[q][d] = IF d = c /\ q \in plan[c].rooms
                           THEN plan[c].payload ELSE presence[q][d]
      BY <2>0, <2>4 DEF ApplyPresenceSetPlan, TypeOK
    <3>4. QED BY <3>1, <3>2, <3>3 DEF PresenceFollowsMembership
  <2>5. CASE UNCHANGED <<rooms, presence>> BY <2>5 DEF PresenceFollowsMembership
  <2>6. QED
    BY <1>1, <2>1, <2>2, <2>3, <2>4, <2>5 DEF Next, vars, RegisterSession,
       NewLeavePlan, NewPresenceSetPlan, AcknowledgeEvent, NewDisconnectPlan
<1>2. QED BY EngineInvariant, <1>1, PTL DEF Spec, LeavingErasesPresence
=============================================================================
