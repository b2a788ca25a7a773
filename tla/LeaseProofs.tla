----------------------------- MODULE LeaseProofs -----------------------------
(***************************************************************************)
(* Proofs about ConnectionLease, for any connections, rooms, nodes and     *)
(* crashes: while fewer Redis calls have failed than it takes to lose a    *)
(* lease, no reconciler takes a room away from a connection that is being  *)
(* served, and the records of one that ended can be found.                 *)
(*                                                                         *)
(* A lease lasts TTLBeats heartbeats, one of which may be under way, so it *)
(* takes TTLBeats - 1 failed touches to lose it. Failures are counted over *)
(* the whole behaviour.                                                    *)
(***************************************************************************)
EXTENDS ConnectionLease, TLAPS

-----------------------------------------------------------------------------
(* The inductive invariant.                                                *)

\* The failures that a lease survives.
FewFailures == failures < TTLBeats - 1

LeaseTypes ==
    /\ up \subseteq Nodes /\ sessions \subseteq Conns
    /\ connRooms \in [Conns -> SUBSET Rooms]
    /\ stage \in [Conns -> Stages]
    /\ target \in [Conns -> SUBSET Rooms]
    /\ touch \subseteq Conns
    /\ found \in [Conns -> SUBSET Rooms]
    /\ alive \subseteq Conns /\ touched \subseteq Conns
    /\ lease \in [Conns -> 0..TTLBeats]
    /\ nodeConns \in [Nodes -> SUBSET Conns]
    /\ redisConnRooms \in [Conns -> SUBSET Rooms]
    /\ redisMembers \in [Rooms -> SUBSET Conns]
    /\ round \in [Nodes -> Round]
    /\ failures \in Nat

\* A connection is in the engine while its socket is read. Only those that
\* were once there are touched, and the index of a node has those of the node.
SessionsServed ==
    /\ sessions = {c \in Conns : stage[c] \in {"touch", "serving", "join"}}
    /\ \A c \in touched \cup touch : stage[c] # "new"
    /\ \A n \in Nodes : nodeConns[n] \subseteq {c \in touched : NodeOf[c] = n}

\* Redis lists the same memberships under the room and under the connection.
RoomsMirror ==
    \A c \in Conns, r \in Rooms : c \in redisMembers[r] <=> r \in redisConnRooms[c]

\* The rooms of a connection in Redis and in the engine.
RoomsOfStage ==
    \A c \in Conns :
        /\ stage[c] \in {"new", "touch"} => redisConnRooms[c] = {} /\ connRooms[c] = {}
        /\ stage[c] = "serving" => redisConnRooms[c] = connRooms[c]
        /\ stage[c] = "join" => connRooms[c] = redisConnRooms[c] \cup target[c]

\* The rooms that a cleanup has read are the ones still listed, or another
\* cleanup has removed them all.
RoomsRead ==
    /\ \A c \in Conns : stage[c] = "remove" => redisConnRooms[c] \in {found[c], {}}
    /\ \A n \in Nodes : \A c \in round[n].stale :
          round[n].read => redisConnRooms[c] \in {round[n].rooms, {}}

\* A served connection whose touch reached Redis has a key, that lasts for as
\* many heartbeats as did not fail or are under way.
LeaseHeld ==
    \A c \in touched \cap sessions :
        /\ c \in alive
        /\ lease[c] + failures + (IF c \in touch THEN 1 ELSE 0) >= TTLBeats

\* A reconciler looks at touched connections of its node, one at a time, and
\* at none that is served.
RoundsStale ==
    \A n \in Nodes :
        /\ \A c \in round[n].todo \cup round[n].stale : c \in touched /\ NodeOf[c] = n
        /\ \A c \in round[n].stale : c \notin sessions
        /\ \A c, d \in round[n].stale : c = d
        /\ round[n].stale = {} => ~round[n].read

\* A touched connection that is served, or has rooms, is listed by its node.
ConnsListed ==
    \A c \in touched :
        c \in sessions \/ redisConnRooms[c] # {} => c \in nodeConns[NodeOf[c]]

LeaseSound ==
    /\ RoomsMirror /\ RoomsOfStage /\ RoomsRead
    /\ LeaseHeld /\ RoundsStale /\ ConnsListed

LeaseInv == LeaseTypes /\ SessionsServed /\ (FewFailures => LeaseSound)

-----------------------------------------------------------------------------
(* Types.                                                                  *)

\* What the operations on Redis do to the types.
LEMMA TouchTypes ==
  ASSUME LeaseTypes, NEW c \in Conns, TouchConnection(c)
  PROVE  /\ alive' \subseteq Conns /\ touched' \subseteq Conns
         /\ lease' \in [Conns -> 0..TTLBeats]
         /\ nodeConns' \in [Nodes -> SUBSET Conns]
<1>1. TTLBeats \in 0..TTLBeats /\ NodeOf[c] \in Nodes
  BY LeaseAssumption DEF TTLBeats
<1>2. QED BY <1>1 DEF LeaseTypes, TouchConnection

\* The same for the transaction of a cleanup.
LEMMA CleanupTypes ==
  ASSUME LeaseTypes, NEW c \in Conns, NEW rs, CleanupConnection(c, rs)
  PROVE  /\ alive' \subseteq Conns /\ UNCHANGED <<lease, touched>>
         /\ nodeConns' \in [Nodes -> SUBSET Conns]
         /\ redisConnRooms' \in [Conns -> SUBSET Rooms]
         /\ redisMembers' \in [Rooms -> SUBSET Conns]
<1>1. redisMembers' \in [Rooms -> SUBSET Conns]
  BY DEF LeaseTypes, CleanupConnection
<1>2. redisConnRooms' \in [Conns -> SUBSET Rooms] /\ nodeConns' \in [Nodes -> SUBSET Conns]
  BY DEF LeaseTypes, CleanupConnection
<1>3. QED BY <1>1, <1>2 DEF LeaseTypes, CleanupConnection

\* A round with other fields.
LEMMA RoundFields ==
  ASSUME LeaseTypes, NEW n \in Nodes
  PROVE  /\ round[n].todo \subseteq Conns /\ round[n].stale \subseteq Conns
         /\ round[n].read \in BOOLEAN /\ round[n].rooms \subseteq Rooms
         /\ \A t, s \in SUBSET Conns : [round[n] EXCEPT !.todo = t, !.stale = s] \in Round
         /\ \A b \in BOOLEAN, rs \in SUBSET Rooms : [round[n] EXCEPT !.read = b, !.rooms = rs] \in Round
<1>1. PICK held : held = round[n]
  OBVIOUS
<1>2. held \in Round
  BY <1>1 DEF LeaseTypes
<1>3. /\ held.todo \subseteq Conns /\ held.stale \subseteq Conns
      /\ held.read \in BOOLEAN /\ held.rooms \subseteq Rooms
  BY <1>2 DEF Round
<1>4. ASSUME NEW t \in SUBSET Conns, NEW s \in SUBSET Conns
      PROVE  [held EXCEPT !.todo = t, !.stale = s] \in Round
  BY <1>2 DEF Round
<1>5. ASSUME NEW b \in BOOLEAN, NEW rs \in SUBSET Rooms
      PROVE  [held EXCEPT !.read = b, !.rooms = rs] \in Round
  BY <1>2 DEF Round
<1>6. QED BY <1>1, <1>3, <1>4, <1>5

\* Every step keeps the types.
LEMMA TypesStep ==
  ASSUME LeaseTypes, [LeaseNext]_allVars
  PROVE  LeaseTypes'
<1> USE LeaseAssumption DEF LeaseTypes, Stages, Round, NoRound, TTLBeats
<1>1. ASSUME NEW c \in Conns, RegisterSession(c) PROVE LeaseTypes'
  BY <1>1 DEF RegisterSession, Goto, leaseVars, roomVars, counts
<1>2. ASSUME NEW c \in Conns, FirstTouch(c) PROVE LeaseTypes'
  <2>1. failures' \in Nat /\ alive' \subseteq Conns /\ touched' \subseteq Conns
        /\ lease' \in [Conns -> 0..TTLBeats] /\ nodeConns' \in [Nodes -> SUBSET Conns]
    BY <1>2, TouchTypes DEF FirstTouch, Failure, leaseVars, counts
  <2>2. QED BY <1>2, <2>1 DEF FirstTouch, Goto, roomVars
<1>3. ASSUME NEW c \in Conns, NEW r \in Rooms, Join(c, r) PROVE LeaseTypes'
  BY <1>3 DEF Join, Goto, leaseVars, roomVars
<1>4. ASSUME NEW c \in Conns, JoinStore(c) PROVE LeaseTypes'
  <2>1. redisMembers' \in [Rooms -> SUBSET Conns]
    <3>1. CASE redisMembers' = redisMembers
      BY <3>1
    <3>2. CASE redisMembers' = [r \in Rooms |-> IF r \in target[c] THEN redisMembers[r] \cup {c}
                                               ELSE redisMembers[r]]
      <4>1. \A r \in Rooms : redisMembers[r] \subseteq Conns
        OBVIOUS
      <4> HIDE DEF LeaseTypes
      <4>2. QED BY <3>2, <4>1
    <3>3. QED BY <1>4, <3>1, <3>2 DEF JoinStore, roomVars
  <2>2. redisConnRooms' \in [Conns -> SUBSET Rooms]
    BY <1>4 DEF JoinStore, roomVars
  <2>3. stage' \in [Conns -> Stages] /\ connRooms' \in [Conns -> SUBSET Rooms] /\ sessions' \subseteq Conns
    BY <1>4 DEF JoinStore, Goto
  <2>4. failures' \in Nat
    BY <1>4 DEF JoinStore, Failure, counts
  <2>5. QED BY <1>4, <2>1, <2>2, <2>3, <2>4 DEF JoinStore, leaseVars
<1>5. ASSUME NEW c \in Conns, NEW r \in Rooms, Leave(c, r) PROVE LeaseTypes'
  BY <1>5 DEF Leave, leaseVars
<1>6. ASSUME NEW c \in Conns, UnregisterConn(c) PROVE LeaseTypes'
  BY <1>6 DEF UnregisterConn, Goto, leaseVars, roomVars, counts
<1>7. ASSUME NEW c \in Conns, CleanupRead(c) PROVE LeaseTypes'
  <2>1. stage' \in [Conns -> Stages] /\ found' \in [Conns -> SUBSET Rooms]
    BY <1>7, ZenonT(60) DEF CleanupRead, Goto
  <2>2. failures' \in Nat
    BY <1>7 DEF CleanupRead, Failure, counts
  <2>3. QED BY <1>7, <2>1, <2>2 DEF CleanupRead, leaseVars, roomVars
<1>8. ASSUME NEW c \in Conns, CleanupRemove(c) PROVE LeaseTypes'
  <2>1. /\ alive' \subseteq Conns /\ UNCHANGED <<lease, touched>>
        /\ nodeConns' \in [Nodes -> SUBSET Conns]
        /\ redisConnRooms' \in [Conns -> SUBSET Rooms]
        /\ redisMembers' \in [Rooms -> SUBSET Conns]
        /\ failures' \in Nat
    BY <1>8, CleanupTypes DEF CleanupRemove, Failure, counts, leaseVars, roomVars
  <2>2. QED BY <1>8, <2>1 DEF CleanupRemove, Goto
<1>9. ASSUME NEW c \in Conns, TouchSession(c) PROVE LeaseTypes'
  BY <1>9 DEF TouchSession, procVars, roomVars, counts
<1>10. ASSUME NEW c \in Conns, ApplyTouch(c) PROVE LeaseTypes'
  <2>1. failures' \in Nat /\ alive' \subseteq Conns /\ touched' \subseteq Conns
        /\ lease' \in [Conns -> 0..TTLBeats] /\ nodeConns' \in [Nodes -> SUBSET Conns]
    BY <1>10, TouchTypes DEF ApplyTouch, Failure, leaseVars, counts
  <2>2. QED BY <1>10, <2>1 DEF ApplyTouch, procVars, roomVars
<1>11. ASSUME NEW c \in Conns, Expire(c) PROVE LeaseTypes'
  BY <1>11 DEF Expire, procVars, roomVars, counts
<1>12. ASSUME NEW n \in Nodes, ListConns(n) PROVE LeaseTypes'
  BY <1>12 DEF ListConns, procVars, leaseVars, roomVars, counts
<1>13. ASSUME NEW n \in Nodes, NEW c \in Conns, CheckAlive(n, c) PROVE LeaseTypes'
  <2> DEFINE s == IF c \in alive THEN {} ELSE {c}
  <2>1. round' = [round EXCEPT ![n] = [round[n] EXCEPT !.todo = round[n].todo \ {c}, !.stale = s]]
    BY <1>13 DEF CheckAlive
  <2>2. [round[n] EXCEPT !.todo = round[n].todo \ {c}, !.stale = s] \in Round
    <3> HIDE DEF LeaseTypes, Stages, Round, NoRound, TTLBeats
    <3>1. round[n].todo \ {c} \in SUBSET Conns /\ s \in SUBSET Conns
      BY RoundFields
    <3>2. QED BY <3>1, RoundFields
  <2>3. round' \in [Nodes -> Round]
    BY <2>1, <2>2
  <2>4. QED BY <1>13, <2>3 DEF CheckAlive, procVars, leaseVars, roomVars, counts
<1>14. ASSUME NEW n \in Nodes, NEW c \in Conns, ReadStale(n, c) PROVE LeaseTypes'
  <2>1. round' = [round EXCEPT ![n] = [round[n] EXCEPT !.read = TRUE, !.rooms = redisConnRooms[c]]]
    BY <1>14 DEF ReadStale
  <2>2. [round[n] EXCEPT !.read = TRUE, !.rooms = redisConnRooms[c]] \in Round
    <3>1. redisConnRooms[c] \in SUBSET Rooms
      OBVIOUS
    <3> HIDE DEF LeaseTypes, Stages, Round, NoRound, TTLBeats
    <3>2. QED BY <3>1, RoundFields
  <2>3. round' \in [Nodes -> Round]
    BY <2>1, <2>2
  <2>4. QED BY <1>14, <2>3 DEF ReadStale, procVars, leaseVars, roomVars, counts
<1>15. ASSUME NEW n \in Nodes, NEW c \in Conns, RemoveStale(n, c) PROVE LeaseTypes'
  <2>1. round' = [round EXCEPT ![n] = [round[n] EXCEPT !.stale = {}, !.read = FALSE, !.rooms = {}]]
    BY <1>15 DEF RemoveStale
  <2>2. [round[n] EXCEPT !.stale = {}, !.read = FALSE, !.rooms = {}] \in Round
    <3> HIDE DEF Stages, NoRound, TTLBeats
    <3>1. round[n] \in Round
      OBVIOUS
    <3> HIDE DEF LeaseTypes
    <3>2. QED BY <3>1 DEF Round
  <2>3. round' \in [Nodes -> Round]
    BY <2>1, <2>2
  <2>4. /\ redisMembers' \in [Rooms -> SUBSET Conns] /\ redisConnRooms' \in [Conns -> SUBSET Rooms]
        /\ nodeConns' \in [Nodes -> SUBSET Conns] /\ alive' \subseteq Conns
    BY <1>15 DEF RemoveStale, CleanupConnection
  <2>5. QED BY <1>15, <2>3, <2>4 DEF RemoveStale, CleanupConnection, procVars, counts
<1>16. ASSUME NEW n \in Nodes, RoundFails(n) PROVE LeaseTypes'
  BY <1>16 DEF RoundFails, Failure, procVars, leaseVars, roomVars, counts
<1>17. ASSUME NEW n \in Nodes, Crash(n) PROVE LeaseTypes'
  BY <1>17 DEF Crash, leaseVars, roomVars, Hosted
<1>18. ASSUME NEW n \in Nodes, Restart(n) PROVE LeaseTypes'
  BY <1>18 DEF Restart, procVars, leaseVars, roomVars, counts
<1>19. CASE UNCHANGED allVars
  BY <1>19 DEF allVars, procVars, leaseVars, roomVars, counts
<1> HIDE LeaseAssumption DEF LeaseTypes, Stages, Round, NoRound, TTLBeats
<1>20. QED
  BY <1>1, <1>2, <1>3, <1>4, <1>5, <1>6, <1>7, <1>8, <1>9, <1>10, <1>11, <1>12, <1>13, <1>14, <1>15, <1>16, <1>17, <1>18, <1>19 DEF LeaseNext, Socket, Reconcile

\* A session is in the engine from its registration to the end of its socket, or
\* to the crash of its node.
LEMMA ServedStep ==
  ASSUME LeaseTypes, SessionsServed, [LeaseNext]_allVars
  PROVE  SessionsServed'
<1> USE LeaseAssumption DEF LeaseTypes, SessionsServed
<1>1. ASSUME NEW c \in Conns, RegisterSession(c) PROVE SessionsServed'
  BY <1>1 DEF RegisterSession, Goto, leaseVars, roomVars, counts
<1>2. ASSUME NEW c \in Conns, FirstTouch(c) PROVE SessionsServed'
  BY <1>2 DEF FirstTouch, Goto, Failure, TouchConnection, leaseVars, roomVars, counts
<1>3. ASSUME NEW c \in Conns, NEW r \in Rooms, Join(c, r) PROVE SessionsServed'
  BY <1>3 DEF Join, Goto, leaseVars, roomVars
<1>4. ASSUME NEW c \in Conns, JoinStore(c) PROVE SessionsServed'
  BY <1>4 DEF JoinStore, Goto, Failure, leaseVars, roomVars, counts
<1>5. ASSUME NEW c \in Conns, NEW r \in Rooms, Leave(c, r) PROVE SessionsServed'
  BY <1>5 DEF Leave, leaseVars
<1>6. ASSUME NEW c \in Conns, UnregisterConn(c) PROVE SessionsServed'
  BY <1>6 DEF UnregisterConn, Goto, leaseVars, roomVars, counts
<1>7. ASSUME NEW c \in Conns, CleanupRead(c) PROVE SessionsServed'
  BY <1>7 DEF CleanupRead, Goto, Failure, leaseVars, roomVars, counts
<1>8. ASSUME NEW c \in Conns, CleanupRemove(c) PROVE SessionsServed'
  BY <1>8 DEF CleanupRemove, Goto, Failure, CleanupConnection, leaseVars, roomVars, counts
<1>9. ASSUME NEW c \in Conns, TouchSession(c) PROVE SessionsServed'
  BY <1>9 DEF TouchSession, procVars, roomVars, counts
<1>10. ASSUME NEW c \in Conns, ApplyTouch(c) PROVE SessionsServed'
  BY <1>10 DEF ApplyTouch, Failure, TouchConnection, procVars, leaseVars, roomVars, counts
<1>11. ASSUME NEW c \in Conns, Expire(c) PROVE SessionsServed'
  BY <1>11 DEF Expire, procVars, roomVars, counts
<1>12. ASSUME NEW n \in Nodes, ListConns(n) PROVE SessionsServed'
  BY <1>12 DEF ListConns, procVars, leaseVars, roomVars, counts
<1>13. ASSUME NEW n \in Nodes, NEW c \in Conns, CheckAlive(n, c) PROVE SessionsServed'
  BY <1>13 DEF CheckAlive, procVars, leaseVars, roomVars, counts
<1>14. ASSUME NEW n \in Nodes, NEW c \in Conns, ReadStale(n, c) PROVE SessionsServed'
  BY <1>14 DEF ReadStale, procVars, leaseVars, roomVars, counts
<1>15. ASSUME NEW n \in Nodes, NEW c \in Conns, RemoveStale(n, c) PROVE SessionsServed'
  BY <1>15 DEF RemoveStale, CleanupConnection, procVars, counts
<1>16. ASSUME NEW n \in Nodes, RoundFails(n) PROVE SessionsServed'
  BY <1>16 DEF RoundFails, Failure, procVars, leaseVars, roomVars, counts
<1>17. ASSUME NEW n \in Nodes, Crash(n) PROVE SessionsServed'
  BY <1>17 DEF Crash, leaseVars, roomVars, Hosted
<1>18. ASSUME NEW n \in Nodes, Restart(n) PROVE SessionsServed'
  BY <1>18 DEF Restart, procVars, leaseVars, roomVars, counts
<1>19. CASE UNCHANGED allVars
  BY <1>19 DEF allVars, procVars, leaseVars, roomVars, counts
<1> HIDE LeaseAssumption DEF LeaseTypes, SessionsServed
<1>20. QED
  BY <1>1, <1>2, <1>3, <1>4, <1>5, <1>6, <1>7, <1>8, <1>9, <1>10, <1>11, <1>12, <1>13, <1>14, <1>15, <1>16, <1>17, <1>18, <1>19 DEF LeaseNext, Socket, Reconcile

\* What a step does to the rooms of one connection.
StageAgrees(s, tgt, rs, es) ==
    /\ s \in {"new", "touch"} => rs = {} /\ es = {}
    /\ s = "serving" => rs = es
    /\ s = "join" => es = rs \cup tgt

\* RoomsOfStage, one connection at a time.
LEMMA RoomsOfStageStep ==
  ASSUME NEW c, RoomsOfStage,
         \A d \in Conns \ {c} : /\ stage'[d] = stage[d] /\ target'[d] = target[d]
                                /\ connRooms'[d] = connRooms[d] /\ redisConnRooms'[d] = redisConnRooms[d],
         StageAgrees(stage'[c], target'[c], redisConnRooms'[c], connRooms'[c])
  PROVE  RoomsOfStage'
<1> SUFFICES ASSUME NEW d \in Conns
             PROVE  StageAgrees(stage'[d], target'[d], redisConnRooms'[d], connRooms'[d])
  BY DEF RoomsOfStage, StageAgrees
<1>1. CASE d = c
  BY <1>1
<1>2. CASE d # c
  BY <1>2 DEF RoomsOfStage, StageAgrees
<1>3. QED BY <1>1, <1>2

-----------------------------------------------------------------------------
(* Steps.                                                                  *)

\* A cleanup takes away the rooms it has read, which are all of them; a reconciler
\* does so only to connections that are not served.
LEMMA RoomsStep ==
  ASSUME LeaseTypes, SessionsServed, RoomsMirror, RoomsOfStage, RoomsRead, RoundsStale, [LeaseNext]_allVars
  PROVE  (RoomsMirror /\ RoomsOfStage)'
<1> USE DEF LeaseTypes, SessionsServed, RoomsMirror, RoomsOfStage, RoomsRead, RoundsStale
<1>1. ASSUME NEW c \in Conns, RegisterSession(c) PROVE (RoomsMirror /\ RoomsOfStage)'
  BY <1>1 DEF RegisterSession, Goto, leaseVars, roomVars, counts
<1>2. ASSUME NEW c \in Conns, FirstTouch(c) PROVE (RoomsMirror /\ RoomsOfStage)'
  <2>1. /\ UNCHANGED <<connRooms, target, redisConnRooms, redisMembers>>
        /\ stage[c] = "touch" /\ stage'[c] = "serving" /\ \A d \in Conns \ {c} : stage'[d] = stage[d]
    BY <1>2 DEF FirstTouch, Goto, roomVars
  <2>2. RoomsMirror'
    BY <2>1
  <2>3. RoomsOfStage'
    <3> HIDE DEF LeaseTypes, SessionsServed, RoomsMirror, RoomsOfStage, RoomsRead, RoundsStale
    <3>1. StageAgrees(stage'[c], target'[c], redisConnRooms'[c], connRooms'[c])
      BY <2>1 DEF RoomsOfStage, StageAgrees
    <3>2. \A d \in Conns \ {c} : /\ stage'[d] = stage[d] /\ target'[d] = target[d]
                                 /\ connRooms'[d] = connRooms[d] /\ redisConnRooms'[d] = redisConnRooms[d]
      BY <2>1
    <3>3. QED BY <3>1, <3>2, RoomsOfStageStep
  <2>4. QED BY <2>2, <2>3
<1>3. ASSUME NEW c \in Conns, NEW r \in Rooms, Join(c, r) PROVE (RoomsMirror /\ RoomsOfStage)'
  BY <1>3 DEF Join, Goto, leaseVars, roomVars
<1>4. ASSUME NEW c \in Conns, JoinStore(c) PROVE (RoomsMirror /\ RoomsOfStage)'
  <2>1. RoomsMirror'
    BY <1>4 DEF JoinStore, roomVars
  <2>2. /\ stage[c] = "join" /\ stage'[c] \in {"serving", "cleanup"}
        /\ \A d \in Conns \ {c} : /\ stage'[d] = stage[d] /\ connRooms'[d] = connRooms[d]
                                  /\ redisConnRooms'[d] = redisConnRooms[d] /\ target'[d] = target[d]
        /\ stage'[c] = "serving" => UNCHANGED connRooms /\ redisConnRooms'[c] = redisConnRooms[c] \cup target[c]
    BY <1>4 DEF JoinStore, Goto, roomVars
  <2>3. RoomsOfStage'
    <3> HIDE DEF LeaseTypes, SessionsServed, RoomsMirror, RoomsOfStage, RoomsRead, RoundsStale
    <3>1. StageAgrees(stage'[c], target'[c], redisConnRooms'[c], connRooms'[c])
      BY <2>2 DEF RoomsOfStage, StageAgrees
    <3>2. \A d \in Conns \ {c} : /\ stage'[d] = stage[d] /\ target'[d] = target[d]
                                 /\ connRooms'[d] = connRooms[d] /\ redisConnRooms'[d] = redisConnRooms[d]
      BY <2>2
    <3>3. QED BY <3>1, <3>2, RoomsOfStageStep
  <2>4. QED BY <2>1, <2>3
<1>5. ASSUME NEW c \in Conns, NEW r \in Rooms, Leave(c, r) PROVE (RoomsMirror /\ RoomsOfStage)'
  <2>1. RoomsMirror'
    BY <1>5 DEF Leave
  <2>2. /\ stage[c] = "serving" /\ UNCHANGED <<stage, target>>
        /\ \A d \in Conns \ {c} : connRooms'[d] = connRooms[d] /\ redisConnRooms'[d] = redisConnRooms[d]
        /\ connRooms'[c] = connRooms[c] \ {r} /\ redisConnRooms'[c] = redisConnRooms[c] \ {r}
    BY <1>5 DEF Leave
  <2>3. RoomsOfStage'
    <3> HIDE DEF LeaseTypes, SessionsServed, RoomsMirror, RoomsOfStage, RoomsRead, RoundsStale
    <3>1. StageAgrees(stage'[c], target'[c], redisConnRooms'[c], connRooms'[c])
      BY <2>2 DEF RoomsOfStage, StageAgrees
    <3>2. \A d \in Conns \ {c} : /\ stage'[d] = stage[d] /\ target'[d] = target[d]
                                 /\ connRooms'[d] = connRooms[d] /\ redisConnRooms'[d] = redisConnRooms[d]
      BY <2>2
    <3>3. QED BY <3>1, <3>2, RoomsOfStageStep
  <2>4. QED BY <2>1, <2>3
<1>6. ASSUME NEW c \in Conns, UnregisterConn(c) PROVE (RoomsMirror /\ RoomsOfStage)'
  BY <1>6 DEF UnregisterConn, Goto, leaseVars, roomVars, counts
<1>7. ASSUME NEW c \in Conns, CleanupRead(c) PROVE (RoomsMirror /\ RoomsOfStage)'
  BY <1>7 DEF CleanupRead, Goto, Failure, leaseVars, roomVars, counts
<1>8. ASSUME NEW c \in Conns, CleanupRemove(c) PROVE (RoomsMirror /\ RoomsOfStage)'
  BY <1>8 DEF CleanupRemove, Goto, Failure, CleanupConnection, leaseVars, roomVars, counts
<1>9. ASSUME NEW c \in Conns, TouchSession(c) PROVE (RoomsMirror /\ RoomsOfStage)'
  BY <1>9 DEF TouchSession, procVars, roomVars, counts
<1>10. ASSUME NEW c \in Conns, ApplyTouch(c) PROVE (RoomsMirror /\ RoomsOfStage)'
  BY <1>10 DEF ApplyTouch, Failure, TouchConnection, procVars, leaseVars, roomVars, counts
<1>11. ASSUME NEW c \in Conns, Expire(c) PROVE (RoomsMirror /\ RoomsOfStage)'
  BY <1>11 DEF Expire, procVars, roomVars, counts
<1>12. ASSUME NEW n \in Nodes, ListConns(n) PROVE (RoomsMirror /\ RoomsOfStage)'
  BY <1>12 DEF ListConns, procVars, leaseVars, roomVars, counts
<1>13. ASSUME NEW n \in Nodes, NEW c \in Conns, CheckAlive(n, c) PROVE (RoomsMirror /\ RoomsOfStage)'
  BY <1>13 DEF CheckAlive, procVars, leaseVars, roomVars, counts
<1>14. ASSUME NEW n \in Nodes, NEW c \in Conns, ReadStale(n, c) PROVE (RoomsMirror /\ RoomsOfStage)'
  BY <1>14 DEF ReadStale, procVars, leaseVars, roomVars, counts
<1>15. ASSUME NEW n \in Nodes, NEW c \in Conns, RemoveStale(n, c) PROVE (RoomsMirror /\ RoomsOfStage)'
  BY <1>15 DEF RemoveStale, CleanupConnection, procVars, counts
<1>16. ASSUME NEW n \in Nodes, RoundFails(n) PROVE (RoomsMirror /\ RoomsOfStage)'
  BY <1>16 DEF RoundFails, Failure, procVars, leaseVars, roomVars, counts
<1>17. ASSUME NEW n \in Nodes, Crash(n) PROVE (RoomsMirror /\ RoomsOfStage)'
  BY <1>17 DEF Crash, leaseVars, roomVars, Hosted
<1>18. ASSUME NEW n \in Nodes, Restart(n) PROVE (RoomsMirror /\ RoomsOfStage)'
  BY <1>18 DEF Restart, procVars, leaseVars, roomVars, counts
<1>19. CASE UNCHANGED allVars
  BY <1>19 DEF allVars, procVars, leaseVars, roomVars, counts
<1> HIDE DEF LeaseTypes, SessionsServed, RoomsMirror, RoomsOfStage, RoomsRead, RoundsStale
<1>20. QED
  BY <1>1, <1>2, <1>3, <1>4, <1>5, <1>6, <1>7, <1>8, <1>9, <1>10, <1>11, <1>12, <1>13, <1>14, <1>15, <1>16, <1>17, <1>18, <1>19 DEF LeaseNext, Socket, Reconcile

\* Nothing is joined between the read of a cleanup and its removal.
LEMMA RoomsReadStep ==
  ASSUME LeaseTypes, SessionsServed, RoomsRead, RoundsStale, [LeaseNext]_allVars
  PROVE  RoomsRead'
<1> USE DEF LeaseTypes, SessionsServed, RoomsRead, RoundsStale, NoRound
<1>1. ASSUME NEW c \in Conns, RegisterSession(c) PROVE RoomsRead'
  BY <1>1 DEF RegisterSession, Goto, leaseVars, roomVars, counts
<1>2. ASSUME NEW c \in Conns, FirstTouch(c) PROVE RoomsRead'
  BY <1>2 DEF FirstTouch, Goto, Failure, TouchConnection, leaseVars, roomVars, counts
<1>3. ASSUME NEW c \in Conns, NEW r \in Rooms, Join(c, r) PROVE RoomsRead'
  BY <1>3 DEF Join, Goto, leaseVars, roomVars
<1>4. ASSUME NEW c \in Conns, JoinStore(c) PROVE RoomsRead'
  BY <1>4, SMTT(30) DEF JoinStore, Goto, Failure, leaseVars, roomVars, counts
<1>5. ASSUME NEW c \in Conns, NEW r \in Rooms, Leave(c, r) PROVE RoomsRead'
  BY <1>5 DEF Leave, leaseVars
<1>6. ASSUME NEW c \in Conns, UnregisterConn(c) PROVE RoomsRead'
  BY <1>6 DEF UnregisterConn, Goto, leaseVars, roomVars, counts
<1>7. ASSUME NEW c \in Conns, CleanupRead(c) PROVE RoomsRead'
  BY <1>7 DEF CleanupRead, Goto, Failure, leaseVars, roomVars, counts
<1>8. ASSUME NEW c \in Conns, CleanupRemove(c) PROVE RoomsRead'
  BY <1>8 DEF CleanupRemove, Goto, Failure, CleanupConnection, leaseVars, roomVars, counts
<1>9. ASSUME NEW c \in Conns, TouchSession(c) PROVE RoomsRead'
  BY <1>9 DEF TouchSession, procVars, roomVars, counts
<1>10. ASSUME NEW c \in Conns, ApplyTouch(c) PROVE RoomsRead'
  BY <1>10 DEF ApplyTouch, Failure, TouchConnection, procVars, leaseVars, roomVars, counts
<1>11. ASSUME NEW c \in Conns, Expire(c) PROVE RoomsRead'
  BY <1>11 DEF Expire, procVars, roomVars, counts
<1>12. ASSUME NEW n \in Nodes, ListConns(n) PROVE RoomsRead'
  BY <1>12 DEF ListConns, procVars, leaseVars, roomVars, counts
<1>13. ASSUME NEW n \in Nodes, NEW c \in Conns, CheckAlive(n, c) PROVE RoomsRead'
  <2>1. /\ UNCHANGED <<stage, found, redisConnRooms>> /\ round[n].stale = {}
        /\ \A m \in Nodes \ {n} : round'[m] = round[m]
        /\ round'[n].read = round[n].read
    BY <1>13 DEF CheckAlive, procVars, roomVars, Round
  <2>2. QED BY <2>1
<1>14. ASSUME NEW n \in Nodes, NEW c \in Conns, ReadStale(n, c) PROVE RoomsRead'
  BY <1>14 DEF ReadStale, procVars, leaseVars, roomVars, counts
<1>15. ASSUME NEW n \in Nodes, NEW c \in Conns, RemoveStale(n, c) PROVE RoomsRead'
  BY <1>15 DEF RemoveStale, CleanupConnection, procVars, counts
<1>16. ASSUME NEW n \in Nodes, RoundFails(n) PROVE RoomsRead'
  BY <1>16 DEF RoundFails, Failure, procVars, leaseVars, roomVars, counts
<1>17. ASSUME NEW n \in Nodes, Crash(n) PROVE RoomsRead'
  BY <1>17 DEF Crash, leaseVars, roomVars, Hosted
<1>18. ASSUME NEW n \in Nodes, Restart(n) PROVE RoomsRead'
  BY <1>18 DEF Restart, procVars, leaseVars, roomVars, counts
<1>19. CASE UNCHANGED allVars
  BY <1>19 DEF allVars, procVars, leaseVars, roomVars, counts
<1> HIDE DEF LeaseTypes, SessionsServed, RoomsRead, RoundsStale, NoRound
<1>20. QED
  BY <1>1, <1>2, <1>3, <1>4, <1>5, <1>6, <1>7, <1>8, <1>9, <1>10, <1>11, <1>12, <1>13, <1>14, <1>15, <1>16, <1>17, <1>18, <1>19 DEF LeaseNext, Socket, Reconcile

\* A tick takes one heartbeat off the lease, a touch renews it, and a failed touch
\* is counted; a lease that is held does not run out.
LEMMA LeaseHeldStep ==
  ASSUME LeaseTypes, SessionsServed, FewFailures', LeaseHeld, RoundsStale, [LeaseNext]_allVars
  PROVE  LeaseHeld'
<1> USE DEF LeaseTypes, SessionsServed, LeaseHeld, RoundsStale, FewFailures, TTLBeats
<1>1. ASSUME NEW c \in Conns, RegisterSession(c) PROVE LeaseHeld'
  BY <1>1 DEF RegisterSession, Goto, leaseVars, roomVars, counts
<1>2. ASSUME NEW c \in Conns, FirstTouch(c) PROVE LeaseHeld'
  BY <1>2 DEF FirstTouch, Goto, Failure, TouchConnection, leaseVars, roomVars, counts
<1>3. ASSUME NEW c \in Conns, NEW r \in Rooms, Join(c, r) PROVE LeaseHeld'
  BY <1>3 DEF Join, Goto, leaseVars, roomVars
<1>4. ASSUME NEW c \in Conns, JoinStore(c) PROVE LeaseHeld'
  BY <1>4 DEF JoinStore, Goto, Failure, leaseVars, roomVars, counts
<1>5. ASSUME NEW c \in Conns, NEW r \in Rooms, Leave(c, r) PROVE LeaseHeld'
  BY <1>5 DEF Leave, leaseVars
<1>6. ASSUME NEW c \in Conns, UnregisterConn(c) PROVE LeaseHeld'
  BY <1>6 DEF UnregisterConn, Goto, leaseVars, roomVars, counts
<1>7. ASSUME NEW c \in Conns, CleanupRead(c) PROVE LeaseHeld'
  BY <1>7 DEF CleanupRead, Goto, Failure, leaseVars, roomVars, counts
<1>8. ASSUME NEW c \in Conns, CleanupRemove(c) PROVE LeaseHeld'
  BY <1>8 DEF CleanupRemove, Goto, Failure, CleanupConnection, leaseVars, roomVars, counts
<1>9. ASSUME NEW c \in Conns, TouchSession(c) PROVE LeaseHeld'
  BY <1>9 DEF TouchSession, procVars, roomVars, counts
<1>10. ASSUME NEW c \in Conns, ApplyTouch(c) PROVE LeaseHeld'
  BY <1>10 DEF ApplyTouch, Failure, TouchConnection, procVars, leaseVars, roomVars, counts
<1>11. ASSUME NEW c \in Conns, Expire(c) PROVE LeaseHeld'
  BY <1>11 DEF Expire, procVars, roomVars, counts
<1>12. ASSUME NEW n \in Nodes, ListConns(n) PROVE LeaseHeld'
  BY <1>12 DEF ListConns, procVars, leaseVars, roomVars, counts
<1>13. ASSUME NEW n \in Nodes, NEW c \in Conns, CheckAlive(n, c) PROVE LeaseHeld'
  BY <1>13 DEF CheckAlive, procVars, leaseVars, roomVars, counts
<1>14. ASSUME NEW n \in Nodes, NEW c \in Conns, ReadStale(n, c) PROVE LeaseHeld'
  BY <1>14 DEF ReadStale, procVars, leaseVars, roomVars, counts
<1>15. ASSUME NEW n \in Nodes, NEW c \in Conns, RemoveStale(n, c) PROVE LeaseHeld'
  BY <1>15 DEF RemoveStale, CleanupConnection, procVars, counts
<1>16. ASSUME NEW n \in Nodes, RoundFails(n) PROVE LeaseHeld'
  BY <1>16 DEF RoundFails, Failure, procVars, leaseVars, roomVars, counts
<1>17. ASSUME NEW n \in Nodes, Crash(n) PROVE LeaseHeld'
  BY <1>17 DEF Crash, leaseVars, roomVars, Hosted
<1>18. ASSUME NEW n \in Nodes, Restart(n) PROVE LeaseHeld'
  BY <1>18 DEF Restart, procVars, leaseVars, roomVars, counts
<1>19. CASE UNCHANGED allVars
  BY <1>19 DEF allVars, procVars, leaseVars, roomVars, counts
<1> HIDE DEF LeaseTypes, SessionsServed, LeaseHeld, RoundsStale, FewFailures, TTLBeats
<1>20. QED
  BY <1>1, <1>2, <1>3, <1>4, <1>5, <1>6, <1>7, <1>8, <1>9, <1>10, <1>11, <1>12, <1>13, <1>14, <1>15, <1>16, <1>17, <1>18, <1>19 DEF LeaseNext, Socket, Reconcile

\* A connection whose key is missing is not served.
LEMMA RoundsStaleStep ==
  ASSUME LeaseTypes, SessionsServed, LeaseHeld, RoundsStale, [LeaseNext]_allVars
  PROVE  RoundsStale'
<1> USE DEF LeaseTypes, SessionsServed, LeaseHeld, RoundsStale, NoRound
<1>1. ASSUME NEW c \in Conns, RegisterSession(c) PROVE RoundsStale'
  BY <1>1 DEF RegisterSession, Goto, leaseVars, roomVars, counts
<1>2. ASSUME NEW c \in Conns, FirstTouch(c) PROVE RoundsStale'
  BY <1>2 DEF FirstTouch, Goto, Failure, TouchConnection, leaseVars, roomVars, counts
<1>3. ASSUME NEW c \in Conns, NEW r \in Rooms, Join(c, r) PROVE RoundsStale'
  BY <1>3 DEF Join, Goto, leaseVars, roomVars
<1>4. ASSUME NEW c \in Conns, JoinStore(c) PROVE RoundsStale'
  BY <1>4 DEF JoinStore, Goto, Failure, leaseVars, roomVars, counts
<1>5. ASSUME NEW c \in Conns, NEW r \in Rooms, Leave(c, r) PROVE RoundsStale'
  BY <1>5 DEF Leave, leaseVars
<1>6. ASSUME NEW c \in Conns, UnregisterConn(c) PROVE RoundsStale'
  BY <1>6 DEF UnregisterConn, Goto, leaseVars, roomVars, counts
<1>7. ASSUME NEW c \in Conns, CleanupRead(c) PROVE RoundsStale'
  BY <1>7 DEF CleanupRead, Goto, Failure, leaseVars, roomVars, counts
<1>8. ASSUME NEW c \in Conns, CleanupRemove(c) PROVE RoundsStale'
  BY <1>8 DEF CleanupRemove, Goto, Failure, CleanupConnection, leaseVars, roomVars, counts
<1>9. ASSUME NEW c \in Conns, TouchSession(c) PROVE RoundsStale'
  BY <1>9 DEF TouchSession, procVars, roomVars, counts
<1>10. ASSUME NEW c \in Conns, ApplyTouch(c) PROVE RoundsStale'
  BY <1>10 DEF ApplyTouch, Failure, TouchConnection, procVars, leaseVars, roomVars, counts
<1>11. ASSUME NEW c \in Conns, Expire(c) PROVE RoundsStale'
  BY <1>11 DEF Expire, procVars, roomVars, counts
<1>12. ASSUME NEW n \in Nodes, ListConns(n) PROVE RoundsStale'
  BY <1>12 DEF ListConns, procVars, leaseVars, roomVars, counts
<1>13. ASSUME NEW n \in Nodes, NEW c \in Conns, CheckAlive(n, c) PROVE RoundsStale'
  BY <1>13 DEF CheckAlive, procVars, leaseVars, roomVars, counts
<1>14. ASSUME NEW n \in Nodes, NEW c \in Conns, ReadStale(n, c) PROVE RoundsStale'
  BY <1>14 DEF ReadStale, procVars, leaseVars, roomVars, counts
<1>15. ASSUME NEW n \in Nodes, NEW c \in Conns, RemoveStale(n, c) PROVE RoundsStale'
  BY <1>15 DEF RemoveStale, CleanupConnection, procVars, counts
<1>16. ASSUME NEW n \in Nodes, RoundFails(n) PROVE RoundsStale'
  BY <1>16 DEF RoundFails, Failure, procVars, leaseVars, roomVars, counts
<1>17. ASSUME NEW n \in Nodes, Crash(n) PROVE RoundsStale'
  BY <1>17 DEF Crash, leaseVars, roomVars, Hosted
<1>18. ASSUME NEW n \in Nodes, Restart(n) PROVE RoundsStale'
  BY <1>18 DEF Restart, procVars, leaseVars, roomVars, counts
<1>19. CASE UNCHANGED allVars
  BY <1>19 DEF allVars, procVars, leaseVars, roomVars, counts
<1> HIDE DEF LeaseTypes, SessionsServed, LeaseHeld, RoundsStale, NoRound
<1>20. QED
  BY <1>1, <1>2, <1>3, <1>4, <1>5, <1>6, <1>7, <1>8, <1>9, <1>10, <1>11, <1>12, <1>13, <1>14, <1>15, <1>16, <1>17, <1>18, <1>19 DEF LeaseNext, Socket, Reconcile

\* A touch lists the connection; a cleanup unlists it with all its rooms.
LEMMA ConnsListedStep ==
  ASSUME LeaseTypes, SessionsServed, RoomsOfStage, RoundsStale, ConnsListed, [LeaseNext]_allVars
  PROVE  ConnsListed'
<1> USE DEF LeaseTypes, SessionsServed, RoomsOfStage, RoundsStale, ConnsListed
<1>1. ASSUME NEW c \in Conns, RegisterSession(c) PROVE ConnsListed'
  BY <1>1 DEF RegisterSession, Goto, leaseVars, roomVars, counts
<1>2. ASSUME NEW c \in Conns, FirstTouch(c) PROVE ConnsListed'
  <2>1. /\ UNCHANGED <<sessions, redisConnRooms>>
        /\ \/ UNCHANGED <<touched, nodeConns>>
           \/ touched' = touched \cup {c} /\ nodeConns' = [nodeConns EXCEPT ![NodeOf[c]] = @ \cup {c}]
    BY <1>2 DEF FirstTouch, TouchConnection, leaseVars, roomVars
  <2>2. NodeOf \in [Conns -> Nodes]
    BY LeaseAssumption
  <2>3. QED BY <2>1, <2>2
<1>3. ASSUME NEW c \in Conns, NEW r \in Rooms, Join(c, r) PROVE ConnsListed'
  BY <1>3 DEF Join, Goto, leaseVars, roomVars
<1>4. ASSUME NEW c \in Conns, JoinStore(c) PROVE ConnsListed'
  BY <1>4 DEF JoinStore, Goto, Failure, leaseVars, roomVars, counts
<1>5. ASSUME NEW c \in Conns, NEW r \in Rooms, Leave(c, r) PROVE ConnsListed'
  BY <1>5 DEF Leave, leaseVars
<1>6. ASSUME NEW c \in Conns, UnregisterConn(c) PROVE ConnsListed'
  BY <1>6 DEF UnregisterConn, Goto, leaseVars, roomVars, counts
<1>7. ASSUME NEW c \in Conns, CleanupRead(c) PROVE ConnsListed'
  BY <1>7 DEF CleanupRead, Goto, Failure, leaseVars, roomVars, counts
<1>8. ASSUME NEW c \in Conns, CleanupRemove(c) PROVE ConnsListed'
  <2>1. /\ UNCHANGED <<sessions, touched>> /\ c \notin sessions
        /\ \/ UNCHANGED <<nodeConns, redisConnRooms>>
           \/ /\ redisConnRooms' = [redisConnRooms EXCEPT ![c] = {}]
              /\ nodeConns' = [nodeConns EXCEPT ![NodeOf[c]] = @ \ {c}]
    BY <1>8 DEF CleanupRemove, CleanupConnection, leaseVars, roomVars
  <2>2. NodeOf \in [Conns -> Nodes]
    BY LeaseAssumption
  <2>3. QED BY <2>1, <2>2
<1>9. ASSUME NEW c \in Conns, TouchSession(c) PROVE ConnsListed'
  BY <1>9 DEF TouchSession, procVars, roomVars, counts
<1>10. ASSUME NEW c \in Conns, ApplyTouch(c) PROVE ConnsListed'
  <2>1. /\ UNCHANGED <<sessions, redisConnRooms>>
        /\ \/ UNCHANGED <<touched, nodeConns>>
           \/ touched' = touched \cup {c} /\ nodeConns' = [nodeConns EXCEPT ![NodeOf[c]] = @ \cup {c}]
    BY <1>10 DEF ApplyTouch, TouchConnection, procVars, leaseVars, roomVars
  <2>2. NodeOf \in [Conns -> Nodes]
    BY LeaseAssumption
  <2>3. QED BY <2>1, <2>2
<1>11. ASSUME NEW c \in Conns, Expire(c) PROVE ConnsListed'
  BY <1>11 DEF Expire, procVars, roomVars, counts
<1>12. ASSUME NEW n \in Nodes, ListConns(n) PROVE ConnsListed'
  BY <1>12 DEF ListConns, procVars, leaseVars, roomVars, counts
<1>13. ASSUME NEW n \in Nodes, NEW c \in Conns, CheckAlive(n, c) PROVE ConnsListed'
  BY <1>13 DEF CheckAlive, procVars, leaseVars, roomVars, counts
<1>14. ASSUME NEW n \in Nodes, NEW c \in Conns, ReadStale(n, c) PROVE ConnsListed'
  BY <1>14 DEF ReadStale, procVars, leaseVars, roomVars, counts
<1>15. ASSUME NEW n \in Nodes, NEW c \in Conns, RemoveStale(n, c) PROVE ConnsListed'
  BY <1>15 DEF RemoveStale, CleanupConnection, procVars, counts
<1>16. ASSUME NEW n \in Nodes, RoundFails(n) PROVE ConnsListed'
  BY <1>16 DEF RoundFails, Failure, procVars, leaseVars, roomVars, counts
<1>17. ASSUME NEW n \in Nodes, Crash(n) PROVE ConnsListed'
  BY <1>17 DEF Crash, leaseVars, roomVars, Hosted
<1>18. ASSUME NEW n \in Nodes, Restart(n) PROVE ConnsListed'
  BY <1>18 DEF Restart, procVars, leaseVars, roomVars, counts
<1>19. CASE UNCHANGED allVars
  BY <1>19 DEF allVars, procVars, leaseVars, roomVars, counts
<1> HIDE DEF LeaseTypes, SessionsServed, RoomsOfStage, RoundsStale, ConnsListed
<1>20. QED
  BY <1>1, <1>2, <1>3, <1>4, <1>5, <1>6, <1>7, <1>8, <1>9, <1>10, <1>11, <1>12, <1>13, <1>14, <1>15, <1>16, <1>17, <1>18, <1>19 DEF LeaseNext, Socket, Reconcile

-----------------------------------------------------------------------------
(* The theorems.                                                           *)

\* A call that failed stays counted.
LEMMA FailuresGrow ==
  ASSUME LeaseTypes, [LeaseNext]_allVars, FewFailures'
  PROVE  FewFailures
<1>1. ASSUME Failure \/ UNCHANGED failures PROVE FewFailures
  BY <1>1 DEF LeaseTypes, FewFailures, Failure, TTLBeats
<1>2. ASSUME NEW c \in Conns, \/ RegisterSession(c) \/ UnregisterConn(c) \/ Socket(c)
                              \/ TouchSession(c) \/ ApplyTouch(c) \/ Expire(c)
      PROVE  Failure \/ UNCHANGED failures
  BY <1>2 DEF RegisterSession, UnregisterConn, Socket, FirstTouch, JoinStore, CleanupRead, CleanupRemove,
     TouchSession, ApplyTouch, Expire, counts
<1>3. ASSUME NEW c \in Conns, NEW r \in Rooms, Join(c, r) \/ Leave(c, r) PROVE UNCHANGED failures
  BY <1>3 DEF Join, Leave
<1>4. ASSUME NEW n \in Nodes, Reconcile(n) \/ RoundFails(n) \/ Crash(n) \/ Restart(n)
      PROVE  Failure \/ UNCHANGED failures
  BY <1>4 DEF Reconcile, ListConns, CheckAlive, ReadStale, RemoveStale, RoundFails, Crash, Restart, counts
<1>5. CASE UNCHANGED allVars
  BY <1>1, <1>5 DEF allVars, counts
<1>6. QED BY <1>1, <1>2, <1>3, <1>4, <1>5 DEF LeaseNext

\* The invariant holds initially.
LEMMA LeaseInitially == LeaseInit => LeaseInv
<1> SUFFICES ASSUME LeaseInit PROVE LeaseInv
  OBVIOUS
<1>1. LeaseTypes
  <2>1. NoRound \in Round /\ 0 \in 0..TTLBeats
    BY DEF NoRound, Round, TTLBeats
  <2>2. QED BY <2>1 DEF LeaseInit, LeaseTypes, Stages
<1>2. SessionsServed
  BY DEF LeaseInit, SessionsServed
<1>3. LeaseSound
  BY DEF LeaseInit, LeaseSound, RoomsMirror, RoomsOfStage, RoomsRead, LeaseHeld, RoundsStale, ConnsListed, NoRound
<1>4. QED BY <1>1, <1>2, <1>3 DEF LeaseInv

\* Every part of the invariant holds in every state, those about rooms and leases
\* as long as few calls have failed.
THEOREM LeaseInvariant == LeaseSpec => []LeaseInv
<1>1. LeaseInit => LeaseInv
  BY LeaseInitially
<1>2. LeaseInv /\ [LeaseNext]_allVars => LeaseInv'
  <2> SUFFICES ASSUME LeaseInv, [LeaseNext]_allVars PROVE LeaseInv'
    OBVIOUS
  <2>1. LeaseTypes /\ SessionsServed /\ LeaseTypes' /\ SessionsServed'
    BY TypesStep, ServedStep DEF LeaseInv
  <2>2. ASSUME FewFailures' PROVE LeaseSound'
    <3>1. LeaseSound
      BY <2>1, <2>2, FailuresGrow DEF LeaseInv
    <3>2. (RoomsMirror /\ RoomsOfStage)' /\ RoomsRead' /\ LeaseHeld' /\ RoundsStale' /\ ConnsListed'
      BY <2>1, <2>2, <3>1, RoomsStep, RoomsReadStep, LeaseHeldStep, RoundsStaleStep, ConnsListedStep DEF LeaseSound
    <3>3. QED BY <3>2 DEF LeaseSound
  <2>3. QED BY <2>1, <2>2 DEF LeaseInv
<1>3. QED BY <1>1, <1>2, PTL DEF LeaseSpec

\* Until TTLBeats - 1 calls have failed, whatever nodes crash and return and however
\* the heartbeats and the reconcilers interleave, Redis lists exactly the rooms of
\* every connection that is being served.
THEOREM ServedKeepRooms == LeaseSpec => [](FewFailures => LiveKeepsMembership)
<1>1. LeaseInv => (FewFailures => LiveKeepsMembership)
  BY DEF LeaseInv, LeaseSound, RoomsMirror, RoomsOfStage, LiveKeepsMembership
<1>2. QED BY <1>1, LeaseInvariant, PTL

\* Under the same condition a reconciler finds every member that has gone, after a
\* crash between any two steps of a join, a touch or a cleanup.
THEOREM GoneAreReachable == LeaseSpec => [](FewFailures => MembersAreReachable)
<1>1. LeaseInv => (FewFailures => MembersAreReachable)
  BY DEF LeaseInv, LeaseTypes, LeaseSound, RoomsMirror, ConnsListed, MembersAreReachable
<1>2. QED BY <1>1, LeaseInvariant, PTL
=============================================================================
