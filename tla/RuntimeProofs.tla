---------------------------- MODULE RuntimeProofs ----------------------------
(***************************************************************************)
(* Proofs about RuntimeRooms, for any connections, rooms, nodes and        *)
(* failures: the runtime's handlers use the room engine as its own         *)
(* specification allows, so that all that is proved of the engine holds    *)
(* under the handlers; and between two handlers Redis and the engine       *)
(* agree on the rooms and the presence of a connection; and once nothing   *)
(* is under way every client shows its rooms as they are.                  *)
(*                                                                         *)
(* A handler changes Redis and the engine one after the other, so in       *)
(* between they differ at one room: the invariant says at which, and that  *)
(* the plan the handler holds will make up for it. What a client shows may *)
(* be behind in the same way: the views invariant says where the change it *)
(* lacks is, in a snapshot, a channel or the hands of a goroutine.         *)
(***************************************************************************)
EXTENDS RuntimeRooms, RoomEngineProofs

-----------------------------------------------------------------------------
(* The handlers and the engine.                                            *)

\* Each step of a handler is one engine operation or none.
LEMMA HandlersUseEngine == RuntimeNext => [Next]_vars
<1> SUFFICES ASSUME RuntimeNext PROVE [Next]_vars
  OBVIOUS
<1>1. \/ \E c \in Conns : Handler(c) \/ Request(c) \/ Fault(c)
      \/ \E n \in Nodes : HandleClusterPresence(n)
      \/ \E p \in Procs : FanOut(p)
  BY DEF RuntimeNext
<1>2. ASSUME NEW c \in Conns, Handler(c) PROVE [Next]_vars
  <2>1. CASE Apply(c)
    BY <2>1 DEF Apply, Next
  <2>2. CASE PlanDisconnect(c)
    BY <2>2 DEF PlanDisconnect, Next
  <2>3. CASE Disconnect(c)
    BY <2>3 DEF Disconnect, Next
  <2>4. CASE UNCHANGED engineVars
    BY <2>4 DEF engineVars, vars
  <2>5. QED BY <1>2, <2>1, <2>2, <2>3, <2>4 DEF Handler, JoinStore, JoinSnapshot, JoinReply,
       LeaveStore, PresenceStore, Publish, Reply, Unlink, Cleanup, Farewell, Finish
<1>3. ASSUME NEW c \in Conns, Request(c) PROVE [Next]_vars
  <2>1. CASE RegisterConn(c)
    BY <2>1 DEF RegisterConn, Next
  <2>2. CASE Hangup(c)
    BY <2>2 DEF Hangup, engineVars, vars
  <2>3. ASSUME NEW r \in Rooms, HandleJoin(c, r) PROVE [Next]_vars
    BY <2>3 DEF HandleJoin, Next, engineVars, vars
  <2>4. ASSUME NEW r \in Rooms, HandleLeave(c, r) PROVE [Next]_vars
    BY <2>4 DEF HandleLeave, Next, engineVars, vars
  <2>5. ASSUME NEW r \in Rooms, NEW p \in Payloads, HandlePresence(c, r, p) PROVE [Next]_vars
    BY <2>5 DEF HandlePresence, Next
  <2>6. QED BY <1>3, <2>1, <2>2, <2>3, <2>4, <2>5 DEF Request
<1>4. ASSUME NEW c \in Conns, Fault(c) PROVE [Next]_vars
  BY <1>4 DEF Fault, StoreFails, CleanupFails, FarewellFails, EnqueueOverflow, engineVars, vars
<1>5. ASSUME NEW n \in Nodes, HandleClusterPresence(n) PROVE [Next]_vars
  BY <1>5 DEF HandleClusterPresence, engineVars, vars
<1>6. ASSUME NEW p \in Procs, FanOut(p) PROVE [Next]_vars
  BY <1>6 DEF FanOut, Enqueue, EnqueueLost, EnqueueClosed, engineVars, vars
<1>7. QED BY <1>1, <1>2, <1>3, <1>4, <1>5, <1>6

\* The runtime under any interleaving of its goroutines and any failures
\* drives the engine through behaviours of the engine's specification.
THEOREM RuntimeRunsEngine == RuntimeSpec => Spec
<1>1. RuntimeInit => Init
  BY DEF RuntimeInit
<1>2. [RuntimeNext]_runtimeVars => [Next]_vars
  BY HandlersUseEngine DEF runtimeVars, engineVars, vars
<1>3. QED BY <1>1, <1>2, PTL DEF RuntimeSpec, Spec

-----------------------------------------------------------------------------
(* The inductive invariant.                                                *)

StoreTypes ==
    /\ pc \in [Conns -> Stages]
    /\ target \in [Conns -> Rooms \cup {AnyRoom}]
    /\ job \in [Conns -> Plan]
    /\ redisMembers \in [Rooms -> SUBSET Conns]
    /\ redisConnRooms \in [Conns -> SUBSET Rooms]
    /\ redisPresence \in [Rooms -> [Conns -> Payloads \cup {NoPayload}]]

\* The stages at which Redis and the engine agree.
Agreeing == {"new", "idle", "joinSnapshot", "joinReply", "leaveStore", "leaveReply",
             "presenceStore", "presenceReply"}

\* Redis has the presence of c, but for that in room t.
SamePresence(c) == \A r \in Rooms : redisPresence[r][c] = presence[r][c]

PresenceBut(c, t, state) ==
    \A r \in Rooms : redisPresence[r][c] = IF r = t THEN state ELSE presence[r][c]

StoreOf(c) ==
    /\ \A r \in Rooms : c \in redisMembers[r] <=> r \in redisConnRooms[c]
    /\ pc[c] \in Agreeing => redisConnRooms[c] = connRooms[c] /\ SamePresence(c)
    /\ pc[c] = "joinStore" =>
          /\ target[c] \in connRooms[c] /\ redisConnRooms[c] = connRooms[c] \ {target[c]}
          /\ SamePresence(c)
    /\ pc[c] \in {"leaveStore", "leavePublish", "leaveApply"} =>
          /\ target[c] \in connRooms[c]
          /\ plan[c].kind = "leave" /\ plan[c].rooms = {target[c]}
    /\ pc[c] \in {"leavePublish", "leaveApply"} =>
          /\ redisConnRooms[c] = connRooms[c] \ {target[c]}
          /\ PresenceBut(c, target[c], NoPayload)
    /\ pc[c] \in {"presenceStore", "presencePublish", "presenceApply"} =>
          /\ target[c] \in Rooms /\ plan[c].payload = job[c].payload
          /\ plan[c].kind = "presence" /\ plan[c].rooms = {target[c]}
    /\ pc[c] \in {"presencePublish", "presenceApply"} =>
          /\ redisConnRooms[c] = connRooms[c]
          /\ PresenceBut(c, target[c], job[c].payload)
    /\ pc[c] \in {"farewell", "done"} /\ c \notin dropped => redisConnRooms[c] = {}

StoreFollows == \A c \in Conns : StoreOf(c)

RoomsInv == IInv /\ StoreTypes /\ StoreFollows

-----------------------------------------------------------------------------
(* Effects.                                                                *)

\* What Redis, the engine and the handlers have of connection d stays.
StoreSame(d) ==
    /\ redisConnRooms'[d] = redisConnRooms[d]
    /\ \A r \in Rooms : /\ d \in redisMembers'[r] <=> d \in redisMembers[r]
                        /\ redisPresence'[r][d] = redisPresence[r][d]

EngineSame(d) ==
    /\ connRooms'[d] = connRooms[d] /\ plan'[d] = plan[d]
    /\ \A r \in Rooms : presence'[r][d] = presence[r][d]

LocalSame(d) ==
    /\ pc'[d] = pc[d] /\ target'[d] = target[d] /\ job'[d] = job[d]
    /\ d \in dropped => d \in dropped'

\* What is said of a connection holds while nothing of it changes.
LEMMA StoreKept ==
  ASSUME NEW d \in Conns, StoreOf(d), StoreSame(d), EngineSame(d), LocalSame(d)
  PROVE  StoreOf(d)'
<1>1. \A r \in Rooms : d \in redisMembers'[r] <=> r \in redisConnRooms'[d]
  BY DEF StoreOf, StoreSame
<1>2. /\ SamePresence(d) => SamePresence(d)'
      /\ \A t, s : PresenceBut(d, t, s) =>
           \A r \in Rooms : redisPresence'[r][d] = IF r = t THEN s ELSE presence'[r][d]
  BY DEF StoreSame, EngineSame, SamePresence, PresenceBut
<1>3. /\ redisConnRooms'[d] = redisConnRooms[d] /\ connRooms'[d] = connRooms[d]
      /\ pc'[d] = pc[d] /\ target'[d] = target[d] /\ job'[d] = job[d] /\ plan'[d] = plan[d]
      /\ d \in dropped => d \in dropped'
  BY DEF StoreSame, EngineSame, LocalSame
<1>4. PresenceBut(d, target[d], NoPayload) =>
        \A r \in Rooms : redisPresence'[r][d] =
                           IF r = target'[d] THEN NoPayload ELSE presence'[r][d]
  BY <1>2, <1>3
<1>5. PresenceBut(d, target[d], job[d].payload) =>
        \A r \in Rooms : redisPresence'[r][d] =
                           IF r = target'[d] THEN job'[d].payload ELSE presence'[r][d]
  BY <1>2, <1>3
<1>6. QED BY <1>1, <1>2, <1>3, <1>4, <1>5 DEF StoreOf, PresenceBut

\* StoreFollows, one connection at a time.
LEMMA StoreStepOf ==
  ASSUME StoreFollows, NEW c,
         \A d \in Conns \ {c} : StoreSame(d) /\ EngineSame(d) /\ LocalSame(d),
         c \in Conns => StoreOf(c)'
  PROVE  StoreFollows'
<1> SUFFICES ASSUME NEW d \in Conns PROVE StoreOf(d)'
  BY DEF StoreFollows
<1>1. CASE d = c
  BY <1>1
<1>2. CASE d # c
  BY <1>2, StoreKept DEF StoreFollows
<1>3. QED BY <1>1, <1>2

\* JoinRoom writes both indexes of the connection and nothing else.
LEMMA JoinRoomEffect ==
  ASSUME StoreTypes, NEW c \in Conns, NEW r \in Rooms, JoinRoom(c, r)
  PROVE  /\ redisMembers' \in [Rooms -> SUBSET Conns]
         /\ redisConnRooms' \in [Conns -> SUBSET Rooms]
         /\ redisPresence' = redisPresence
         /\ redisConnRooms'[c] = redisConnRooms[c] \cup {r}
         /\ \A q \in Rooms : c \in redisMembers'[q] <=> c \in redisMembers[q] \/ q = r
         /\ \A d \in Conns \ {c} : StoreSame(d)
<1>1. /\ redisMembers' = [redisMembers EXCEPT ![r] = redisMembers[r] \cup {c}]
      /\ redisConnRooms' = [redisConnRooms EXCEPT ![c] = redisConnRooms[c] \cup {r}]
      /\ redisPresence' = redisPresence
  BY DEF JoinRoom
<1>2. redisMembers' \in [Rooms -> SUBSET Conns]
  BY <1>1 DEF StoreTypes
<1>3. redisConnRooms' \in [Conns -> SUBSET Rooms]
  BY <1>1 DEF StoreTypes
<1>4. redisConnRooms'[c] = redisConnRooms[c] \cup {r}
  BY <1>1 DEF StoreTypes
<1>5. \A q \in Rooms : c \in redisMembers'[q] <=> c \in redisMembers[q] \/ q = r
  BY <1>1 DEF StoreTypes
<1>6. \A d \in Conns \ {c} : StoreSame(d)
  BY <1>1 DEF StoreTypes, StoreSame
<1>7. QED BY <1>1, <1>2, <1>3, <1>4, <1>5, <1>6

\* LeaveRoom takes the connection out of the room, and its presence there.
LEMMA LeaveRoomEffect ==
  ASSUME StoreTypes, NEW c \in Conns, NEW r \in Rooms, LeaveRoom(c, r)
  PROVE  /\ redisMembers' \in [Rooms -> SUBSET Conns]
         /\ redisConnRooms' \in [Conns -> SUBSET Rooms]
         /\ redisPresence' \in [Rooms -> [Conns -> Payloads \cup {NoPayload}]]
         /\ redisConnRooms'[c] = redisConnRooms[c] \ {r}
         /\ \A q \in Rooms : c \in redisMembers'[q] <=> c \in redisMembers[q] /\ q # r
         /\ \A q \in Rooms : redisPresence'[q][c] = IF q = r THEN NoPayload ELSE redisPresence[q][c]
         /\ \A d \in Conns \ {c} : StoreSame(d)
<1>1. /\ redisMembers' = [redisMembers EXCEPT ![r] = redisMembers[r] \ {c}]
      /\ redisConnRooms' = [redisConnRooms EXCEPT ![c] = redisConnRooms[c] \ {r}]
      /\ redisPresence' = [redisPresence EXCEPT ![r] = [redisPresence[r] EXCEPT ![c] = NoPayload]]
  BY DEF LeaveRoom
<1>2. redisMembers' \in [Rooms -> SUBSET Conns]
  BY <1>1 DEF StoreTypes
<1>3. redisConnRooms' \in [Conns -> SUBSET Rooms]
  BY <1>1 DEF StoreTypes
<1>4. redisConnRooms'[c] = redisConnRooms[c] \ {r}
  BY <1>1 DEF StoreTypes
<1>5. \A q \in Rooms : c \in redisMembers'[q] <=> c \in redisMembers[q] /\ q # r
  BY <1>1 DEF StoreTypes
<1>6. redisPresence' \in [Rooms -> [Conns -> Payloads \cup {NoPayload}]]
  BY <1>1 DEF StoreTypes
<1>7. \A q \in Rooms : redisPresence'[q][c] = IF q = r THEN NoPayload ELSE redisPresence[q][c]
  BY <1>1 DEF StoreTypes
<1>8. \A d \in Conns \ {c} : StoreSame(d)
  BY <1>1 DEF StoreTypes, StoreSame
<1>9. QED BY <1>2, <1>3, <1>4, <1>5, <1>6, <1>7, <1>8

\* SetPresence writes one field of one hash.
LEMMA SetPresenceEffect ==
  ASSUME StoreTypes, NEW c \in Conns, NEW r \in Rooms, NEW p \in Payloads \cup {NoPayload},
         SetPresence(c, r, p)
  PROVE  /\ UNCHANGED <<redisMembers, redisConnRooms>>
         /\ redisPresence' \in [Rooms -> [Conns -> Payloads \cup {NoPayload}]]
         /\ \A q \in Rooms : redisPresence'[q][c] = IF q = r THEN p ELSE redisPresence[q][c]
         /\ \A d \in Conns \ {c} : StoreSame(d)
<1>1. /\ UNCHANGED <<redisMembers, redisConnRooms>>
      /\ redisPresence' = [redisPresence EXCEPT ![r] = [redisPresence[r] EXCEPT ![c] = p]]
  BY DEF SetPresence
<1>2. redisPresence' \in [Rooms -> [Conns -> Payloads \cup {NoPayload}]]
  BY <1>1 DEF StoreTypes
<1>3. \A q \in Rooms : redisPresence'[q][c] = IF q = r THEN p ELSE redisPresence[q][c]
  BY <1>1 DEF StoreTypes
<1>4. \A d \in Conns \ {c} : StoreSame(d)
  BY <1>1 DEF StoreTypes, StoreSame
<1>5. QED BY <1>1, <1>2, <1>3, <1>4

\* CleanupConnection empties the connection's index and leaves the rooms it lists.
LEMMA CleanupEffect ==
  ASSUME StoreTypes, StoreFollows, NEW c \in Conns, CleanupConnection(c)
  PROVE  /\ redisMembers' \in [Rooms -> SUBSET Conns]
         /\ redisConnRooms' \in [Conns -> SUBSET Rooms]
         /\ redisPresence' \in [Rooms -> [Conns -> Payloads \cup {NoPayload}]]
         /\ redisConnRooms'[c] = {} /\ \A q \in Rooms : c \notin redisMembers'[q]
         /\ \A d \in Conns \ {c} : StoreSame(d)
<1>1. /\ redisMembers' = [r \in Rooms |-> IF r \in redisConnRooms[c] THEN redisMembers[r] \ {c}
                                          ELSE redisMembers[r]]
      /\ redisPresence' = [r \in Rooms |-> IF r \in redisConnRooms[c]
                                           THEN [redisPresence[r] EXCEPT ![c] = NoPayload]
                                           ELSE redisPresence[r]]
      /\ redisConnRooms' = [redisConnRooms EXCEPT ![c] = {}]
  BY DEF CleanupConnection
<1>2. redisMembers' \in [Rooms -> SUBSET Conns]
  BY <1>1 DEF StoreTypes
<1>3. redisConnRooms' \in [Conns -> SUBSET Rooms]
  BY <1>1 DEF StoreTypes
<1>4. redisPresence' \in [Rooms -> [Conns -> Payloads \cup {NoPayload}]]
  BY <1>1 DEF StoreTypes
<1>5. redisConnRooms'[c] = {}
  BY <1>1 DEF StoreTypes
<1>6. \A q \in Rooms : c \notin redisMembers'[q]
  BY <1>1 DEF StoreFollows, StoreOf
<1>7. \A d \in Conns \ {c} : StoreSame(d)
  BY <1>1 DEF StoreTypes, StoreSame
<1>8. QED BY <1>2, <1>3, <1>4, <1>5, <1>6, <1>7

\* Each engine operation is about the rooms, the plan and the presence of one
\* connection.
LEMMA EngineEffect ==
  ASSUME TypeOK, NEW c \in Conns, NEW r \in Rooms, NEW p \in Payloads,
         \/ RegisterSession(c) \/ JoinWithLimits(c, r) \/ NewLeavePlan(c, r)
         \/ NewPresenceSetPlan(c, r, p) \/ NewDisconnectPlan(c)
  PROVE  presence' = presence /\ \A d \in Conns \ {c} : EngineSame(d)
<1>1. CASE RegisterSession(c)
  BY <1>1 DEF RegisterSession, EngineSame
<1>2. CASE JoinWithLimits(c, r)
  BY <1>2 DEF JoinWithLimits, EngineSame, TypeOK
<1>3. CASE NewLeavePlan(c, r)
  BY <1>3 DEF NewLeavePlan, EngineSame, TypeOK
<1>4. CASE NewPresenceSetPlan(c, r, p)
  BY <1>4 DEF NewPresenceSetPlan, EngineSame, TypeOK
<1>5. CASE NewDisconnectPlan(c)
  BY <1>5 DEF NewDisconnectPlan, EngineSame, TypeOK
<1>6. QED BY <1>1, <1>2, <1>3, <1>4, <1>5

\* The rooms and the presence that applying a plan leaves.
LEMMA ApplyEffect ==
  ASSUME TypeOK, NEW c \in Conns,
         ApplyLeavePlan(c) \/ ApplyPresenceSetPlan(c) \/ ApplyDisconnectPlan(c)
  PROVE  /\ \A d \in Conns \ {c} : EngineSame(d)
         /\ ApplyLeavePlan(c) =>
              /\ connRooms'[c] = connRooms[c] \ plan[c].rooms
              /\ \A r \in Rooms : presence'[r][c] =
                   IF r \in plan[c].rooms \cap connRooms[c] THEN NoPayload ELSE presence[r][c]
         /\ ApplyPresenceSetPlan(c) =>
              /\ connRooms' = connRooms
              /\ \A r \in Rooms : presence'[r][c] =
                   IF r \in plan[c].rooms THEN plan[c].payload ELSE presence[r][c]
<1>1. ASSUME ApplyLeavePlan(c)
      PROVE  /\ \A d \in Conns \ {c} : EngineSame(d)
             /\ connRooms'[c] = connRooms[c] \ plan[c].rooms
             /\ \A r \in Rooms : presence'[r][c] =
                  IF r \in plan[c].rooms \cap connRooms[c] THEN NoPayload ELSE presence[r][c]
  <2>1. connRooms'[c] = connRooms[c] \ plan[c].rooms /\ \A d \in Conns \ {c} : connRooms'[d] = connRooms[d]
    BY <1>1, LeaveEffect
  <2>2. \A r \in Rooms : presence'[r] = IF r \in plan[c].rooms \cap connRooms[c]
                                        THEN [presence[r] EXCEPT ![c] = NoPayload] ELSE presence[r]
    BY <1>1 DEF ApplyLeavePlan, RemovePresence
  <2>3. \A d \in Conns \ {c} : plan'[d] = plan[d]
    BY <1>1 DEF ApplyLeavePlan, TypeOK
  <2>4. \A r \in Rooms : presence[r] \in [Conns -> Payloads \cup {NoPayload}]
    BY DEF TypeOK
  <2>5. ASSUME NEW r \in Rooms
        PROVE  /\ \A d \in Conns \ {c} : presence'[r][d] = presence[r][d]
               /\ presence'[r][c] = IF r \in plan[c].rooms \cap connRooms[c] THEN NoPayload ELSE presence[r][c]
    BY <2>2, <2>4
  <2>6. QED BY <2>1, <2>3, <2>5 DEF EngineSame
<1>2. ASSUME ApplyPresenceSetPlan(c)
      PROVE  /\ \A d \in Conns \ {c} : EngineSame(d)
             /\ connRooms' = connRooms
             /\ \A r \in Rooms : presence'[r][c] =
                  IF r \in plan[c].rooms THEN plan[c].payload ELSE presence[r][c]
  <2>1. \A r \in Rooms : presence'[r] = IF r \in plan[c].rooms
                                        THEN [presence[r] EXCEPT ![c] = plan[c].payload] ELSE presence[r]
    BY <1>2 DEF ApplyPresenceSetPlan
  <2>2. connRooms' = connRooms /\ \A d \in Conns \ {c} : plan'[d] = plan[d]
    BY <1>2 DEF ApplyPresenceSetPlan, TypeOK
  <2>3. \A r \in Rooms : presence[r] \in [Conns -> Payloads \cup {NoPayload}]
    BY DEF TypeOK
  <2>4. QED BY <2>1, <2>2, <2>3 DEF EngineSame
<1>3. ASSUME ApplyDisconnectPlan(c) PROVE \A d \in Conns \ {c} : EngineSame(d)
  <2>1. \A d \in Conns \ {c} : connRooms'[d] = connRooms[d]
    BY <1>3, DisconnectEffect
  <2>2. \A r \in Rooms : presence'[r] = IF r \in plan[c].rooms
                                        THEN [presence[r] EXCEPT ![c] = NoPayload] ELSE presence[r]
    BY <1>3 DEF ApplyDisconnectPlan, RemovePresence
  <2>3. \A d \in Conns \ {c} : plan'[d] = plan[d]
    BY <1>3 DEF ApplyDisconnectPlan, TypeOK
  <2>4. \A r \in Rooms : presence[r] \in [Conns -> Payloads \cup {NoPayload}]
    BY DEF TypeOK
  <2>5. QED BY <2>1, <2>2, <2>3, <2>4 DEF EngineSame
<1>5. QED BY <1>1, <1>2, <1>3

\* A handler's move from one stage to the next.
LEMMA GotoEffect ==
  ASSUME StoreTypes, NEW c \in Conns, NEW s \in Stages, Goto(c, s)
  PROVE  pc' \in [Conns -> Stages] /\ pc'[c] = s /\ \A d \in Conns \ {c} : pc'[d] = pc[d]
BY DEF Goto, StoreTypes

\* The handlers' own types, apart from what Redis holds.
LocalTypes ==
    /\ pc \in [Conns -> Stages]
    /\ target \in [Conns -> Rooms \cup {AnyRoom}]
    /\ job \in [Conns -> Plan]

StoredTypes ==
    /\ redisMembers \in [Rooms -> SUBSET Conns]
    /\ redisConnRooms \in [Conns -> SUBSET Rooms]
    /\ redisPresence \in [Rooms -> [Conns -> Payloads \cup {NoPayload}]]

\* The two halves of StoreTypes.
LEMMA TypesTogether == /\ StoreTypes <=> LocalTypes /\ StoredTypes
                       /\ StoreTypes' <=> LocalTypes' /\ StoredTypes'
BY DEF StoreTypes, LocalTypes, StoredTypes

\* Only the handler of c moved.
LocalOthers(c) == \A d \in Conns \ {c} : LocalSame(d)

\* The stages of which nothing is said but that the indexes agree.
Bare == {"closing", "disconnect", "unlink", "cleanup"}

\* A step of c that leaves Redis and the engine alone.
LEMMA QuietStep ==
  ASSUME NEW c \in Conns, StoreFollows, UNCHANGED <<engineVars, storeVars>>,
         LocalOthers(c), target'[c] = target[c], c \in dropped => c \in dropped',
         \/ pc'[c] \in Bare
         \/ pc[c] \in Agreeing /\ pc'[c] \in {"idle", "joinReply"}
         \/ pc[c] = "leavePublish" /\ pc'[c] = "leaveApply" /\ job'[c] = job[c]
         \/ pc[c] = "presencePublish" /\ pc'[c] = "presenceApply" /\ job'[c] = job[c]
         \/ pc[c] = "farewell" /\ pc'[c] \in {"farewell", "done"}
         \/ pc'[c] = "farewell" /\ c \in dropped'
  PROVE  StoreFollows'
<1>1. /\ redisMembers' = redisMembers /\ redisConnRooms' = redisConnRooms
      /\ redisPresence' = redisPresence /\ connRooms' = connRooms
      /\ presence' = presence /\ plan' = plan
  BY DEF engineVars, storeVars
<1>2. \A d \in Conns : StoreSame(d) /\ EngineSame(d)
  BY <1>1 DEF StoreSame, EngineSame
<1>3. StoreOf(c)
  BY DEF StoreFollows
<1>4. /\ SamePresence(c) => SamePresence(c)'
      /\ \A t, s : PresenceBut(c, t, s) =>
           \A r \in Rooms : redisPresence'[r][c] = IF r = t THEN s ELSE presence'[r][c]
  BY <1>1 DEF SamePresence, PresenceBut
<1>a. \A r \in Rooms : c \in redisMembers'[r] <=> r \in redisConnRooms'[c]
  BY <1>1, <1>3 DEF StoreOf
<1>5. StoreOf(c)'
  <2>1. CASE pc'[c] \in Bare
    BY <2>1, <1>a DEF StoreOf, Bare, Agreeing
  <2>2. CASE pc[c] \in Agreeing /\ pc'[c] \in {"idle", "joinReply"}
    BY <2>2, <1>1, <1>3, <1>4, <1>a DEF StoreOf, Agreeing
  <2>3. CASE pc[c] = "leavePublish" /\ pc'[c] = "leaveApply" /\ job'[c] = job[c]
    BY <2>3, <1>1, <1>3, <1>4, <1>a DEF StoreOf, Agreeing, PresenceBut
  <2>4. CASE pc[c] = "presencePublish" /\ pc'[c] = "presenceApply" /\ job'[c] = job[c]
    BY <2>4, <1>1, <1>3, <1>4, <1>a DEF StoreOf, Agreeing, PresenceBut
  <2>5. CASE pc[c] = "farewell" /\ pc'[c] \in {"farewell", "done"}
    BY <2>5, <1>1, <1>3, <1>a DEF StoreOf, Agreeing
  <2>6. CASE pc'[c] = "farewell" /\ c \in dropped'
    BY <2>6, <1>a DEF StoreOf, Agreeing
  <2>7. QED BY <2>1, <2>2, <2>3, <2>4, <2>5, <2>6
<1>6. QED BY <1>2, <1>5, StoreStepOf DEF LocalOthers

\* A step that changes nothing of what the invariant is about, but the
\* connections whose fan-out was cut short.
LEMMA StillStep ==
  ASSUME StoreFollows, UNCHANGED <<engineVars, storeVars, pc, target, job>>,
         dropped \subseteq dropped'
  PROVE  StoreFollows'
<1>1. \A d \in Conns : StoreSame(d) /\ EngineSame(d) /\ LocalSame(d)
  BY DEF engineVars, storeVars, StoreSame, EngineSame, LocalSame
<1>2. QED BY <1>1, StoreKept DEF StoreFollows

-----------------------------------------------------------------------------
(* The steps that leave Redis and the engine alone.                        *)

\* A step that leaves Redis alone keeps the types of what Redis holds.
LEMMA QuietTypes ==
  ASSUME StoreTypes, UNCHANGED storeVars, LocalTypes'
  PROVE  StoreTypes'
BY DEF StoreTypes, LocalTypes, storeVars

\* What remains of a plan as its rooms are told.
LEMMA PlanShrinks ==
  ASSUME StoreTypes, NEW c \in Conns, NEW r
  PROVE  [job EXCEPT ![c].rooms = job[c].rooms \ {r}] \in [Conns -> Plan]
BY ZenonT(60) DEF StoreTypes, Plan

\* A handler that ends holds the empty plan.
LEMMA NoPlanIsPlan == NoPlan \in Plan
BY DEF NoPlan, NoTargets, Plan, PlanKinds

\* handleJoin has read the snapshot: Redis and the engine agreed, and do.
LEMMA JoinSnapshotStore ==
  ASSUME StoreTypes, StoreFollows, NEW c \in Conns, JoinSnapshot(c)
  PROVE  StoreTypes' /\ StoreFollows'
<1>1. Goto(c, "joinReply") /\ "joinReply" \in Stages /\ pc[c] = "joinSnapshot"
  BY DEF JoinSnapshot, Stages, JoinStages
<1>2. pc' \in [Conns -> Stages] /\ pc'[c] = "joinReply" /\ \A d \in Conns \ {c} : pc'[d] = pc[d]
  BY <1>1, GotoEffect
<1>3. UNCHANGED <<engineVars, storeVars, target, job, dropped>>
  BY DEF JoinSnapshot
<1>4. StoreTypes'
  BY <1>2, <1>3, QuietTypes DEF StoreTypes, LocalTypes
<1>5. LocalOthers(c)
  BY <1>2, <1>3 DEF LocalOthers, LocalSame
<1>6. QED BY <1>1, <1>2, <1>3, <1>4, <1>5, QuietStep DEF Agreeing, Bare

\* The read loop ends between two handlers.
LEMMA HangupStore ==
  ASSUME StoreTypes, StoreFollows, NEW c \in Conns, Hangup(c)
  PROVE  StoreTypes' /\ StoreFollows'
<1>1. Goto(c, "closing") /\ "closing" \in Stages /\ pc[c] = "idle"
  BY DEF Hangup, Stages, FanStages
<1>2. pc' \in [Conns -> Stages] /\ pc'[c] = "closing" /\ \A d \in Conns \ {c} : pc'[d] = pc[d]
  BY <1>1, GotoEffect
<1>3. UNCHANGED <<engineVars, storeVars, target, job, dropped>>
  BY DEF Hangup
<1>4. StoreTypes'
  BY <1>2, <1>3, QuietTypes DEF StoreTypes, LocalTypes
<1>5. LocalOthers(c)
  BY <1>2, <1>3 DEF LocalOthers, LocalSame
<1>6. QED BY <1>1, <1>2, <1>3, <1>4, <1>5, QuietStep DEF Agreeing, Bare

\* unregisterConn takes the socket out of the table: only the table changes.
LEMMA UnlinkStore ==
  ASSUME StoreTypes, StoreFollows, NEW c \in Conns, Unlink(c)
  PROVE  StoreTypes' /\ StoreFollows'
<1>1. Goto(c, "cleanup") /\ "cleanup" \in Stages /\ pc[c] = "unlink"
  BY DEF Unlink, Stages, FanStages
<1>2. pc' \in [Conns -> Stages] /\ pc'[c] = "cleanup" /\ \A d \in Conns \ {c} : pc'[d] = pc[d]
  BY <1>1, GotoEffect
<1>3. UNCHANGED <<engineVars, storeVars, target, job, dropped>>
  BY DEF Unlink
<1>4. StoreTypes'
  BY <1>2, <1>3, QuietTypes DEF StoreTypes, LocalTypes
<1>5. LocalOthers(c)
  BY <1>2, <1>3 DEF LocalOthers, LocalSame
<1>6. QED BY <1>1, <1>2, <1>3, <1>4, <1>5, QuietStep DEF Agreeing, Bare

\* The reply ends the handler, or begins the disconnect.
LEMMA AnswerEffect ==
  ASSUME StoreTypes, NEW c \in Conns, NEW v, Answer(c, v)
  PROVE  /\ pc' \in [Conns -> Stages] /\ pc'[c] \in {"idle", "closing"}
         /\ \A d \in Conns \ {c} : pc'[d] = pc[d]
<1>1. PICK s \in {"idle", "closing"} : Goto(c, s)
  BY DEF Answer
<1>2. s \in Stages
  BY DEF Stages, FanStages
<1>3. QED BY <1>1, <1>2, GotoEffect

\* handleJoin answers JOINED, or its connection has closed.
LEMMA JoinReplyStore ==
  ASSUME StoreTypes, StoreFollows, NEW c \in Conns, JoinReply(c)
  PROVE  StoreTypes' /\ StoreFollows'
<1>1. Answer(c, snap[c]) /\ pc[c] = "joinReply"
  BY DEF JoinReply
<1>2. /\ pc' \in [Conns -> Stages] /\ pc'[c] \in {"idle", "closing"}
      /\ \A d \in Conns \ {c} : pc'[d] = pc[d]
  BY <1>1, AnswerEffect
<1>3. UNCHANGED <<engineVars, storeVars, target, job, dropped>>
  BY DEF JoinReply
<1>4. StoreTypes'
  BY <1>2, <1>3, QuietTypes DEF StoreTypes, LocalTypes
<1>5. LocalOthers(c)
  BY <1>2, <1>3 DEF LocalOthers, LocalSame
<1>6. QED BY <1>1, <1>2, <1>3, <1>4, <1>5, QuietStep DEF Agreeing, Bare

\* handleLeave and handlePresence publish: Redis is ahead of the engine, as before.
LEMMA PublishStore ==
  ASSUME StoreTypes, StoreFollows, NEW c \in Conns, Publish(c)
  PROVE  StoreTypes' /\ StoreFollows'
<1>1. \/ pc[c] = "leavePublish" /\ Goto(c, "leaveApply")
      \/ pc[c] = "presencePublish" /\ Goto(c, "presenceApply")
  BY DEF Publish
<1>2. "leaveApply" \in Stages /\ "presenceApply" \in Stages
  BY DEF Stages, FanStages
<1>3. /\ pc' \in [Conns -> Stages] /\ \A d \in Conns \ {c} : pc'[d] = pc[d]
      /\ \/ pc[c] = "leavePublish" /\ pc'[c] = "leaveApply"
         \/ pc[c] = "presencePublish" /\ pc'[c] = "presenceApply"
  BY <1>1, <1>2, GotoEffect
<1>4. UNCHANGED <<engineVars, storeVars, target, job, dropped>>
  BY DEF Publish
<1>5. StoreTypes'
  BY <1>3, <1>4, QuietTypes DEF StoreTypes, LocalTypes
<1>6. LocalOthers(c)
  BY <1>3, <1>4 DEF LocalOthers, LocalSame
<1>7. QED BY <1>3, <1>4, <1>5, <1>6, QuietStep

\* handleLeave and handlePresence end their fan-out, Redis and the engine agreeing.
LEMMA ReplyStore ==
  ASSUME StoreTypes, StoreFollows, NEW c \in Conns, Reply(c)
  PROVE  StoreTypes' /\ StoreFollows'
<1>1. /\ pc[c] \in {"presenceReply", "leaveReply"}
      /\ Goto(c, "idle") \/ Answer(c, EmptyView)
  BY DEF Reply
<1>2. "idle" \in Stages
  BY DEF Stages
<1>3. /\ pc' \in [Conns -> Stages] /\ pc'[c] \in {"idle", "closing"}
      /\ \A d \in Conns \ {c} : pc'[d] = pc[d]
  BY <1>1, <1>2, AnswerEffect, GotoEffect
<1>4. /\ UNCHANGED <<engineVars, storeVars, target, dropped>>
      /\ job' = [job EXCEPT ![c] = NoPlan]
  BY DEF Reply
<1>5. job' \in [Conns -> Plan] /\ \A d \in Conns \ {c} : job'[d] = job[d]
  BY <1>4, NoPlanIsPlan DEF StoreTypes
<1>6. StoreTypes'
  BY <1>3, <1>4, <1>5, QuietTypes DEF StoreTypes, LocalTypes
<1>7. LocalOthers(c)
  BY <1>3, <1>4, <1>5 DEF LocalOthers, LocalSame
<1>8. QED BY <1>1, <1>3, <1>4, <1>6, <1>7, QuietStep DEF Agreeing, Bare

\* unregisterConn tells one more room, or fails to: only its list shrinks.
LEMMA FarewellStore ==
  ASSUME StoreTypes, StoreFollows, NEW c \in Conns, NEW r \in Rooms,
         Farewell(c, r) \/ FarewellFails(c, r)
  PROVE  StoreTypes' /\ StoreFollows'
<1>1. /\ UNCHANGED <<engineVars, storeVars, pc, target>> /\ pc[c] = "farewell"
      /\ job' = [job EXCEPT ![c].rooms = job[c].rooms \ {r}]
      /\ dropped \subseteq dropped' /\ dropped' \subseteq dropped \cup {c}
  BY DEF Farewell, FarewellFails
<1>2. job' \in [Conns -> Plan]
  BY <1>1, PlanShrinks
<1>3. \A d \in Conns \ {c} : job'[d] = job[d]
  BY <1>1 DEF StoreTypes
<1>4. StoreTypes'
  BY <1>1, <1>2, QuietTypes DEF StoreTypes, LocalTypes
<1>5. LocalOthers(c)
  BY <1>1, <1>3 DEF LocalOthers, LocalSame
<1>6. QED BY <1>1, <1>4, <1>5, QuietStep

\* unregisterConn ends: Redis has been left, unless the cleanup failed.
LEMMA FinishStore ==
  ASSUME StoreTypes, StoreFollows, NEW c \in Conns, Finish(c)
  PROVE  StoreTypes' /\ StoreFollows'
<1>1. Goto(c, "done") /\ "done" \in Stages /\ pc[c] = "farewell"
  BY DEF Finish, Stages
<1>2. pc' \in [Conns -> Stages] /\ pc'[c] = "done" /\ \A d \in Conns \ {c} : pc'[d] = pc[d]
  BY <1>1, GotoEffect
<1>3. /\ UNCHANGED <<engineVars, storeVars, target, dropped>>
      /\ job' = [job EXCEPT ![c] = NoPlan]
  BY DEF Finish
<1>4. job' \in [Conns -> Plan] /\ \A d \in Conns \ {c} : job'[d] = job[d]
  BY <1>3, NoPlanIsPlan DEF StoreTypes
<1>5. StoreTypes'
  BY <1>2, <1>3, <1>4, QuietTypes DEF StoreTypes, LocalTypes
<1>6. LocalOthers(c)
  BY <1>2, <1>3, <1>4 DEF LocalOthers, LocalSame
<1>7. QED BY <1>1, <1>2, <1>3, <1>5, <1>6, QuietStep

\* A cleanup that fails leaves Redis, and is remembered in dropped.
LEMMA CleanupFailsStore ==
  ASSUME StoreTypes, StoreFollows, NEW c \in Conns, CleanupFails(c)
  PROVE  StoreTypes' /\ StoreFollows'
<1>1. Goto(c, "farewell") /\ "farewell" \in Stages
  BY DEF CleanupFails, Stages, FanStages
<1>2. pc' \in [Conns -> Stages] /\ pc'[c] = "farewell" /\ \A d \in Conns \ {c} : pc'[d] = pc[d]
  BY <1>1, GotoEffect
<1>3. UNCHANGED <<engineVars, storeVars, target, job>> /\ dropped' = dropped \cup {c}
  BY DEF CleanupFails
<1>4. StoreTypes'
  BY <1>2, <1>3, QuietTypes DEF StoreTypes, LocalTypes
<1>5. LocalOthers(c)
  BY <1>2, <1>3 DEF LocalOthers, LocalSame
<1>6. QED BY <1>2, <1>3, <1>4, <1>5, QuietStep

\* A fan-out that is cut short ends its handler, unless that is closing.
LEMMA AbortStore ==
  ASSUME StoreTypes, StoreFollows, NEW p \in Procs, Abort(p),
         UNCHANGED <<engineVars, storeVars, target, job>>
  PROVE  StoreTypes' /\ StoreFollows'
<1>1. dropped' = dropped \cup {msg[p].conn}
  BY DEF Abort
<1>2. CASE p \in Conns /\ Goto(p, "closing")
  <2>1. "closing" \in Stages
    BY DEF Stages, FanStages
  <2>2. pc' \in [Conns -> Stages] /\ pc'[p] = "closing" /\ \A d \in Conns \ {p} : pc'[d] = pc[d]
    BY <1>2, <2>1, GotoEffect
  <2>3. StoreTypes'
    BY <1>1, <2>2, QuietTypes DEF StoreTypes, LocalTypes
  <2>4. LocalOthers(p)
    BY <1>1, <2>2 DEF LocalOthers, LocalSame
  <2>5. QED BY <1>1, <1>2, <2>2, <2>3, <2>4, QuietStep DEF Bare
<1>3. CASE UNCHANGED pc
  <2>1. StoreTypes'
    BY <1>1, <1>3, QuietTypes DEF StoreTypes, LocalTypes
  <2>2. QED BY <1>1, <1>3, <2>1, StillStep
<1>4. QED BY <1>2, <1>3 DEF Abort

-----------------------------------------------------------------------------
(* The steps that use the engine.                                          *)

\* A step of c on its own engine state.
LEMMA EngineStep ==
  ASSUME NEW c \in Conns, StoreTypes, StoreFollows, UNCHANGED storeVars,
         \A d \in Conns \ {c} : EngineSame(d), LocalOthers(c), LocalTypes', StoreOf(c)'
  PROVE  StoreTypes' /\ StoreFollows'
<1>1. StoreTypes'
  BY QuietTypes
<1>2. \A d \in Conns : StoreSame(d)
  BY DEF storeVars, StoreSame
<1>3. QED BY <1>1, <1>2, StoreStepOf DEF LocalOthers

\* The two Redis indexes of a connection agree while nobody writes them.
LEMMA MirrorStays ==
  ASSUME NEW c \in Conns, StoreFollows, UNCHANGED storeVars
  PROVE  \A r \in Rooms : c \in redisMembers'[r] <=> r \in redisConnRooms'[c]
BY DEF StoreFollows, StoreOf, storeVars

\* A registered connection starts its first handler with nothing anywhere.
LEMMA RegisterConnStore ==
  ASSUME StoreTypes, StoreFollows, NEW c \in Conns, RegisterConn(c)
  PROVE  StoreTypes' /\ StoreFollows'
<1>1. Goto(c, "idle") /\ "idle" \in Stages /\ pc[c] = "new" /\ RegisterSession(c)
  BY DEF RegisterConn, Stages
<1>2. pc' \in [Conns -> Stages] /\ pc'[c] = "idle" /\ \A d \in Conns \ {c} : pc'[d] = pc[d]
  BY <1>1, GotoEffect
<1>3. UNCHANGED <<storeVars, target, job, dropped>>
  BY DEF RegisterConn
<1>4. LocalTypes' /\ LocalOthers(c)
  BY <1>2, <1>3 DEF StoreTypes, LocalTypes, LocalOthers, LocalSame
<1>5. UNCHANGED <<connRooms, presence, plan>>
  BY <1>1 DEF RegisterSession
<1>6. \A d \in Conns : EngineSame(d)
  BY <1>5 DEF EngineSame
<1>7. StoreOf(c)'
  BY <1>1, <1>2, <1>3, <1>5 DEF StoreFollows, StoreOf, SamePresence, Agreeing, storeVars
<1>8. QED BY <1>3, <1>4, <1>6, <1>7, EngineStep

\* Between two handlers of c.
LEMMA BetweenHandlers ==
  ASSUME NEW c \in Conns, StoreFollows, pc[c] = "idle"
  PROVE  redisConnRooms[c] = connRooms[c] /\ \A r \in Rooms : redisPresence[r][c] = presence[r][c]
BY DEF StoreFollows, StoreOf, Agreeing, SamePresence

\* handleJoin: the engine has the new room and Redis is one room behind; a
\* repeated join changes neither.
LEMMA HandleJoinStore ==
  ASSUME TypeOK, StoreTypes, StoreFollows, NEW c \in Conns, NEW r \in Rooms, HandleJoin(c, r)
  PROVE  StoreTypes' /\ StoreFollows'
<1>1. /\ pc[c] = "idle" /\ target' = [target EXCEPT ![c] = r]
      /\ UNCHANGED <<storeVars, job, dropped>>
  BY DEF HandleJoin, Start
<1>2. redisConnRooms[c] = connRooms[c] /\ \A q \in Rooms : redisPresence[q][c] = presence[q][c]
  BY <1>1, BetweenHandlers
<1>3. /\ target' \in [Conns -> Rooms \cup {AnyRoom}] /\ target'[c] = r
      /\ \A d \in Conns \ {c} : target'[d] = target[d]
  BY <1>1 DEF StoreTypes
<1>4. {"joinStore", "joinSnapshot"} \subseteq Stages
  BY DEF Stages, JoinStages
<1>5. \/ JoinWithLimits(c, r) /\ Goto(c, "joinStore")
      \/ UNCHANGED engineVars /\ Goto(c, "joinSnapshot")
  BY DEF HandleJoin
<1>6. pc' \in [Conns -> Stages] /\ \A d \in Conns \ {c} : pc'[d] = pc[d]
  BY <1>4, <1>5, GotoEffect
<1>7. LocalTypes' /\ LocalOthers(c)
  BY <1>1, <1>3, <1>6 DEF StoreTypes, LocalTypes, LocalOthers, LocalSame
<1>8. CASE JoinWithLimits(c, r) /\ Goto(c, "joinStore")
  <2>1. pc'[c] = "joinStore"
    BY <1>4, <1>8, GotoEffect
  <2>2. /\ connRooms'[c] = connRooms[c] \cup {r}
        /\ \A d \in Conns \ {c} : connRooms'[d] = connRooms[d]
    BY <1>8, JoinEffect
  <2>3. presence' = presence /\ plan' = plan /\ r \notin connRooms[c]
    BY <1>8 DEF JoinWithLimits, CanJoin
  <2>4. \A d \in Conns \ {c} : EngineSame(d)
    BY <2>2, <2>3 DEF EngineSame
  <2>5. redisConnRooms'[c] = connRooms'[c] \ {target'[c]} /\ target'[c] \in connRooms'[c]
    BY <1>1, <1>2, <1>3, <2>2, <2>3 DEF storeVars
  <2>6. SamePresence(c)'
    BY <1>1, <1>2, <2>3 DEF SamePresence, storeVars
  <2>7. \A q \in Rooms : c \in redisMembers'[q] <=> q \in redisConnRooms'[c]
    BY <1>1, MirrorStays
  <2>8. StoreOf(c)'
    BY <2>1, <2>5, <2>6, <2>7 DEF StoreOf, Agreeing
  <2>9. QED BY <1>1, <1>7, <2>4, <2>8, EngineStep
<1>9. CASE UNCHANGED engineVars /\ Goto(c, "joinSnapshot")
  <2>1. pc'[c] = "joinSnapshot"
    BY <1>4, <1>9, GotoEffect
  <2>2. UNCHANGED <<connRooms, presence, plan>>
    BY <1>9 DEF engineVars
  <2>3. \A d \in Conns : EngineSame(d)
    BY <2>2 DEF EngineSame
  <2>4. redisConnRooms'[c] = connRooms'[c] /\ SamePresence(c)'
    BY <1>1, <1>2, <2>2 DEF SamePresence, storeVars
  <2>5. \A q \in Rooms : c \in redisMembers'[q] <=> q \in redisConnRooms'[c]
    BY <1>1, MirrorStays
  <2>6. StoreOf(c)'
    BY <2>1, <2>4, <2>5 DEF StoreOf, Agreeing
  <2>7. QED BY <1>1, <1>7, <2>3, <2>6, EngineStep
<1>10. QED BY <1>5, <1>8, <1>9

\* handleLeave makes its plan: the plan is of a room both still have.
LEMMA HandleLeaveStore ==
  ASSUME TypeOK, TypeOK', StoreTypes, StoreFollows, NEW c \in Conns, NEW r \in Rooms,
         HandleLeave(c, r)
  PROVE  StoreTypes' /\ StoreFollows'
<1>1. /\ pc[c] = "idle" /\ target' = [target EXCEPT ![c] = r]
      /\ UNCHANGED <<storeVars, dropped>>
  BY DEF HandleLeave, Start
<1>2. redisConnRooms[c] = connRooms[c] /\ \A q \in Rooms : redisPresence[q][c] = presence[q][c]
  BY <1>1, BetweenHandlers
<1>3. /\ target' \in [Conns -> Rooms \cup {AnyRoom}] /\ target'[c] = r
      /\ \A d \in Conns \ {c} : target'[d] = target[d]
  BY <1>1 DEF StoreTypes
<1>4. {"leaveStore", "leaveReply"} \subseteq Stages
  BY DEF Stages, FanStages
<1>5. \/ NewLeavePlan(c, r) /\ job' = [job EXCEPT ![c] = plan'[c]] /\ Goto(c, "leaveStore")
      \/ UNCHANGED <<engineVars, job>> /\ Goto(c, "leaveReply")
  BY DEF HandleLeave
<1>6. pc' \in [Conns -> Stages] /\ \A d \in Conns \ {c} : pc'[d] = pc[d]
  BY <1>4, <1>5, GotoEffect
<1>7. job' \in [Conns -> Plan] /\ \A d \in Conns \ {c} : job'[d] = job[d]
  BY <1>5 DEF StoreTypes, TypeOK
<1>8. LocalTypes' /\ LocalOthers(c)
  BY <1>1, <1>3, <1>6, <1>7 DEF LocalTypes, LocalOthers, LocalSame
<1>9. UNCHANGED <<connRooms, presence>>
  BY <1>5 DEF NewLeavePlan, engineVars
<1>10. redisConnRooms'[c] = connRooms'[c] /\ SamePresence(c)'
  BY <1>1, <1>2, <1>9 DEF SamePresence, storeVars
<1>11. \A q \in Rooms : c \in redisMembers'[q] <=> q \in redisConnRooms'[c]
  BY <1>1, MirrorStays
<1>12. \A d \in Conns \ {c} : EngineSame(d)
  BY <1>5, <1>9 DEF NewLeavePlan, engineVars, EngineSame, TypeOK
<1>13. CASE NewLeavePlan(c, r) /\ Goto(c, "leaveStore")
  <2>1. pc'[c] = "leaveStore"
    BY <1>4, <1>13, GotoEffect
  <2>2. plan'[c].kind = "leave" /\ plan'[c].rooms = {r} /\ r \in connRooms'[c]
    BY <1>9, <1>13 DEF NewLeavePlan, TypeOK
  <2>3. StoreOf(c)'
    BY <1>3, <1>10, <1>11, <2>1, <2>2 DEF StoreOf, Agreeing
  <2>4. QED BY <1>1, <1>8, <1>12, <2>3, EngineStep
<1>14. CASE Goto(c, "leaveReply")
  <2>1. pc'[c] = "leaveReply"
    BY <1>4, <1>14, GotoEffect
  <2>2. StoreOf(c)'
    BY <1>10, <1>11, <2>1 DEF StoreOf, Agreeing
  <2>3. QED BY <1>1, <1>8, <1>12, <2>2, EngineStep
<1>15. QED BY <1>5, <1>13, <1>14

\* handlePresence makes its plan: neither Redis nor the engine has it yet.
LEMMA HandlePresenceStore ==
  ASSUME TypeOK, TypeOK', StoreTypes, StoreFollows, NEW c \in Conns, NEW r \in Rooms,
         NEW p \in Payloads, HandlePresence(c, r, p)
  PROVE  StoreTypes' /\ StoreFollows'
<1>1. /\ pc[c] = "idle" /\ target' = [target EXCEPT ![c] = r]
      /\ UNCHANGED storeVars /\ dropped \subseteq dropped' /\ dropped' \subseteq dropped \cup {c}
      /\ NewPresenceSetPlan(c, r, p) /\ job' = [job EXCEPT ![c] = plan'[c]]
      /\ Goto(c, "presenceStore")
  BY DEF HandlePresence, Start
<1>2. redisConnRooms[c] = connRooms[c] /\ \A q \in Rooms : redisPresence[q][c] = presence[q][c]
  BY <1>1, BetweenHandlers
<1>3. /\ target' \in [Conns -> Rooms \cup {AnyRoom}] /\ target'[c] = r
      /\ \A d \in Conns \ {c} : target'[d] = target[d]
  BY <1>1 DEF StoreTypes
<1>4. "presenceStore" \in Stages
  BY DEF Stages, FanStages
<1>5. /\ pc' \in [Conns -> Stages] /\ pc'[c] = "presenceStore"
      /\ \A d \in Conns \ {c} : pc'[d] = pc[d]
  BY <1>1, <1>4, GotoEffect
<1>6. /\ job' \in [Conns -> Plan] /\ job'[c] = plan'[c]
      /\ \A d \in Conns \ {c} : job'[d] = job[d]
  BY <1>1 DEF StoreTypes, TypeOK
<1>7. LocalTypes' /\ LocalOthers(c)
  BY <1>1, <1>3, <1>5, <1>6 DEF LocalTypes, LocalOthers, LocalSame
<1>8. UNCHANGED <<connRooms, presence>>
  BY <1>1 DEF NewPresenceSetPlan
<1>9. redisConnRooms'[c] = connRooms'[c] /\ SamePresence(c)'
  BY <1>1, <1>2, <1>8 DEF SamePresence, storeVars
<1>10. \A q \in Rooms : c \in redisMembers'[q] <=> q \in redisConnRooms'[c]
  BY <1>1, MirrorStays
<1>11. \A d \in Conns \ {c} : EngineSame(d)
  BY <1>1, <1>8 DEF NewPresenceSetPlan, EngineSame, TypeOK
<1>12. plan'[c].kind = "presence" /\ plan'[c].rooms = {r}
  BY <1>1 DEF NewPresenceSetPlan, TypeOK
<1>13. StoreOf(c)'
  BY <1>3, <1>5, <1>6, <1>9, <1>10, <1>12 DEF StoreOf, Agreeing
<1>14. QED BY <1>1, <1>7, <1>11, <1>13, EngineStep

-----------------------------------------------------------------------------
(* The steps that use Redis.                                               *)

\* A step of c on what Redis holds of it.
LEMMA StoreStep ==
  ASSUME NEW c \in Conns, StoreFollows, UNCHANGED engineVars,
         \A d \in Conns \ {c} : StoreSame(d), LocalOthers(c),
         LocalTypes', StoredTypes', StoreOf(c)'
  PROVE  StoreTypes' /\ StoreFollows'
<1>1. StoreTypes'
  BY TypesTogether
<1>2. \A d \in Conns : EngineSame(d)
  BY DEF engineVars, EngineSame
<1>3. QED BY <1>1, <1>2, StoreStepOf DEF LocalOthers

\* JoinRoom, answered or not.
LEMMA JoinStoreStore ==
  ASSUME TypeOK, StoreTypes, StoreFollows, NEW c \in Conns, pc[c] = "joinStore",
         JoinRoom(c, target[c]), NEW s \in {"joinSnapshot", "closing"}, Goto(c, s),
         UNCHANGED <<engineVars, target, job>>, dropped \subseteq dropped'
  PROVE  StoreTypes' /\ StoreFollows'
<1>1. /\ target[c] \in connRooms[c] /\ redisConnRooms[c] = connRooms[c] \ {target[c]}
      /\ SamePresence(c)
      /\ \A q \in Rooms : c \in redisMembers[q] <=> q \in redisConnRooms[c]
  BY DEF StoreFollows, StoreOf
<1>2. target[c] \in Rooms
  BY <1>1 DEF TypeOK
<1>3. /\ redisMembers' \in [Rooms -> SUBSET Conns]
      /\ redisConnRooms' \in [Conns -> SUBSET Rooms]
      /\ redisPresence' = redisPresence
      /\ redisConnRooms'[c] = redisConnRooms[c] \cup {target[c]}
      /\ \A q \in Rooms : c \in redisMembers'[q] <=> c \in redisMembers[q] \/ q = target[c]
      /\ \A d \in Conns \ {c} : StoreSame(d)
  BY <1>2, JoinRoomEffect
<1>4. s \in Stages
  BY DEF Stages, JoinStages, FanStages
<1>5. pc' \in [Conns -> Stages] /\ pc'[c] = s /\ \A d \in Conns \ {c} : pc'[d] = pc[d]
  BY <1>4, GotoEffect
<1>6. LocalTypes' /\ LocalOthers(c)
  BY <1>5 DEF StoreTypes, LocalTypes, LocalOthers, LocalSame
<1>7. StoredTypes'
  BY <1>3 DEF StoreTypes, StoredTypes
<1>8. connRooms' = connRooms /\ presence' = presence
  BY DEF engineVars
<1>9. redisConnRooms'[c] = connRooms'[c]
  BY <1>1, <1>3, <1>8
<1>10. SamePresence(c)'
  BY <1>1, <1>3, <1>8 DEF SamePresence
<1>11. \A q \in Rooms : c \in redisMembers'[q] <=> q \in redisConnRooms'[c]
  BY <1>1, <1>3
<1>12. StoreOf(c)'
  BY <1>5, <1>9, <1>10, <1>11 DEF StoreOf, Agreeing
<1>13. QED BY <1>3, <1>6, <1>7, <1>12, StoreStep

\* LeaveRoom, answered or not.
LEMMA LeaveStoreStore ==
  ASSUME TypeOK, StoreTypes, StoreFollows, NEW c \in Conns, pc[c] = "leaveStore",
         LeaveRoom(c, target[c]), NEW s \in {"leavePublish", "closing"}, Goto(c, s),
         UNCHANGED <<engineVars, target, job>>, dropped \subseteq dropped'
  PROVE  StoreTypes' /\ StoreFollows'
<1>1. /\ target[c] \in connRooms[c] /\ redisConnRooms[c] = connRooms[c]
      /\ plan[c].kind = "leave" /\ plan[c].rooms = {target[c]}
      /\ \A q \in Rooms : redisPresence[q][c] = presence[q][c]
      /\ \A q \in Rooms : c \in redisMembers[q] <=> q \in redisConnRooms[c]
  BY DEF StoreFollows, StoreOf, Agreeing, SamePresence
<1>2. target[c] \in Rooms
  BY <1>1 DEF TypeOK
<1>3. /\ redisMembers' \in [Rooms -> SUBSET Conns]
      /\ redisConnRooms' \in [Conns -> SUBSET Rooms]
      /\ redisPresence' \in [Rooms -> [Conns -> Payloads \cup {NoPayload}]]
      /\ redisConnRooms'[c] = redisConnRooms[c] \ {target[c]}
      /\ \A q \in Rooms : c \in redisMembers'[q] <=> c \in redisMembers[q] /\ q # target[c]
      /\ \A q \in Rooms : redisPresence'[q][c] = IF q = target[c] THEN NoPayload
                                                 ELSE redisPresence[q][c]
      /\ \A d \in Conns \ {c} : StoreSame(d)
  BY <1>2, LeaveRoomEffect
<1>4. s \in Stages
  BY DEF Stages, FanStages
<1>5. pc' \in [Conns -> Stages] /\ pc'[c] = s /\ \A d \in Conns \ {c} : pc'[d] = pc[d]
  BY <1>4, GotoEffect
<1>6. LocalTypes' /\ LocalOthers(c)
  BY <1>5 DEF StoreTypes, LocalTypes, LocalOthers, LocalSame
<1>7. StoredTypes'
  BY <1>3 DEF StoredTypes
<1>8. connRooms' = connRooms /\ presence' = presence /\ plan' = plan /\ target'[c] = target[c]
  BY DEF engineVars
<1>9. redisConnRooms'[c] = connRooms'[c] \ {target'[c]}
  BY <1>1, <1>3, <1>8
<1>10. \A q \in Rooms : redisPresence'[q][c] = IF q = target'[c] THEN NoPayload
                                               ELSE presence'[q][c]
  BY <1>1, <1>3, <1>8
<1>11. \A q \in Rooms : c \in redisMembers'[q] <=> q \in redisConnRooms'[c]
  BY <1>1, <1>3
<1>12. /\ target'[c] \in connRooms'[c] /\ plan'[c].kind = "leave"
       /\ plan'[c].rooms = {target'[c]}
  BY <1>1, <1>8
<1>13. StoreOf(c)'
  BY <1>5, <1>9, <1>10, <1>11, <1>12 DEF StoreOf, Agreeing, PresenceBut
<1>14. QED BY <1>3, <1>6, <1>7, <1>13, StoreStep

\* SetPresence, answered or not.
LEMMA PresenceStoreStore ==
  ASSUME TypeOK, StoreTypes, StoreFollows, NEW c \in Conns, pc[c] = "presenceStore",
         SetPresence(c, target[c], job[c].payload),
         NEW s \in {"presencePublish", "closing"}, Goto(c, s),
         UNCHANGED <<engineVars, target, job>>, dropped \subseteq dropped'
  PROVE  StoreTypes' /\ StoreFollows'
<1>1. /\ target[c] \in Rooms /\ redisConnRooms[c] = connRooms[c]
      /\ plan[c].kind = "presence" /\ plan[c].rooms = {target[c]}
      /\ plan[c].payload = job[c].payload
      /\ \A q \in Rooms : redisPresence[q][c] = presence[q][c]
      /\ \A q \in Rooms : c \in redisMembers[q] <=> q \in redisConnRooms[c]
  BY DEF StoreFollows, StoreOf, Agreeing, SamePresence
<1>2. job[c].payload \in Payloads \cup {NoPayload}
  BY DEF StoreTypes, Plan
<1>3. /\ UNCHANGED <<redisMembers, redisConnRooms>>
      /\ redisPresence' \in [Rooms -> [Conns -> Payloads \cup {NoPayload}]]
      /\ \A q \in Rooms : redisPresence'[q][c] = IF q = target[c] THEN job[c].payload
                                                 ELSE redisPresence[q][c]
      /\ \A d \in Conns \ {c} : StoreSame(d)
  BY <1>1, <1>2, SetPresenceEffect
<1>4. s \in Stages
  BY DEF Stages, FanStages
<1>5. pc' \in [Conns -> Stages] /\ pc'[c] = s /\ \A d \in Conns \ {c} : pc'[d] = pc[d]
  BY <1>4, GotoEffect
<1>6. LocalTypes' /\ LocalOthers(c)
  BY <1>5 DEF StoreTypes, LocalTypes, LocalOthers, LocalSame
<1>7. StoredTypes'
  BY <1>3 DEF StoreTypes, StoredTypes
<1>8. /\ connRooms' = connRooms /\ presence' = presence /\ plan' = plan
      /\ target'[c] = target[c] /\ job'[c] = job[c]
  BY DEF engineVars
<1>9. redisConnRooms'[c] = connRooms'[c]
  BY <1>1, <1>3, <1>8
<1>10. \A q \in Rooms : redisPresence'[q][c] = IF q = target'[c] THEN job'[c].payload
                                               ELSE presence'[q][c]
  BY <1>1, <1>3, <1>8
<1>11. \A q \in Rooms : c \in redisMembers'[q] <=> q \in redisConnRooms'[c]
  BY <1>1, <1>3
<1>12. /\ target'[c] \in Rooms /\ plan'[c].kind = "presence"
       /\ plan'[c].rooms = {target'[c]} /\ plan'[c].payload = job'[c].payload
  BY <1>1, <1>8
<1>13. StoreOf(c)'
  BY <1>5, <1>9, <1>10, <1>11, <1>12 DEF StoreOf, Agreeing, PresenceBut
<1>14. QED BY <1>3, <1>6, <1>7, <1>13, StoreStep

\* CleanupConnection leaves nothing of the connection in Redis.
LEMMA CleanupStore ==
  ASSUME StoreTypes, StoreFollows, NEW c \in Conns, Cleanup(c)
  PROVE  StoreTypes' /\ StoreFollows'
<1>1. /\ CleanupConnection(c) /\ Goto(c, "farewell") /\ "farewell" \in Stages
      /\ UNCHANGED <<engineVars, target, job, dropped>>
  BY DEF Cleanup, Stages, FanStages
<1>2. /\ redisMembers' \in [Rooms -> SUBSET Conns]
      /\ redisConnRooms' \in [Conns -> SUBSET Rooms]
      /\ redisPresence' \in [Rooms -> [Conns -> Payloads \cup {NoPayload}]]
      /\ redisConnRooms'[c] = {} /\ \A q \in Rooms : c \notin redisMembers'[q]
      /\ \A d \in Conns \ {c} : StoreSame(d)
  BY <1>1, CleanupEffect
<1>3. pc' \in [Conns -> Stages] /\ pc'[c] = "farewell" /\ \A d \in Conns \ {c} : pc'[d] = pc[d]
  BY <1>1, GotoEffect
<1>4. LocalTypes' /\ LocalOthers(c)
  BY <1>1, <1>3 DEF StoreTypes, LocalTypes, LocalOthers, LocalSame
<1>5. StoredTypes'
  BY <1>2 DEF StoredTypes
<1>6. StoreOf(c)'
  BY <1>2, <1>3 DEF StoreOf, Agreeing
<1>7. QED BY <1>1, <1>2, <1>4, <1>5, <1>6, StoreStep

\* A Redis call fails, its effect there or not: the connection is closing.
LEMMA StoreFailsStore ==
  ASSUME TypeOK, StoreTypes, StoreFollows, NEW c \in Conns, StoreFails(c)
  PROVE  StoreTypes' /\ StoreFollows'
<1>1. /\ Goto(c, "closing") /\ "closing" \in Stages /\ dropped \subseteq dropped'
      /\ UNCHANGED <<engineVars, target, job>> /\ dropped' \subseteq dropped \cup {c}
  BY DEF StoreFails, Stages, FanStages
<1>2. CASE pc[c] = "joinStore" /\ JoinRoom(c, target[c])
  BY <1>1, <1>2, JoinStoreStore
<1>3. CASE pc[c] = "leaveStore" /\ LeaveRoom(c, target[c])
  BY <1>1, <1>3, LeaveStoreStore
<1>4. CASE pc[c] = "presenceStore" /\ SetPresence(c, target[c], job[c].payload)
  BY <1>1, <1>4, PresenceStoreStore
<1>5. CASE UNCHANGED storeVars
  <2>1. pc' \in [Conns -> Stages] /\ pc'[c] = "closing" /\ \A d \in Conns \ {c} : pc'[d] = pc[d]
    BY <1>1, GotoEffect
  <2>2. LocalTypes' /\ LocalOthers(c)
    BY <1>1, <2>1 DEF StoreTypes, LocalTypes, LocalOthers, LocalSame
  <2>3. StoreTypes'
    BY <1>5, <2>2, QuietTypes
  <2>4. QED BY <1>1, <1>5, <2>1, <2>2, <2>3, QuietStep DEF Bare
<1>6. QED BY <1>2, <1>3, <1>4, <1>5 DEF StoreFails

-----------------------------------------------------------------------------
(* Applying the plans.                                                     *)

\* The engine applies the plan Redis already has, and they agree again.
LEMMA ApplyStore ==
  ASSUME TypeOK, StoreTypes, StoreFollows, NEW c \in Conns, Apply(c)
  PROVE  StoreTypes' /\ StoreFollows'
<1>1. UNCHANGED <<storeVars, target, job, dropped>>
  BY DEF Apply
<1>2. \/ pc[c] = "leaveApply" /\ ApplyLeavePlan(c) /\ Goto(c, "leaveReply")
      \/ pc[c] = "presenceApply" /\ ApplyPresenceSetPlan(c) /\ Goto(c, "presenceReply")
  BY DEF Apply
<1>3. {"leaveReply", "presenceReply"} \subseteq Stages
  BY DEF Stages, FanStages
<1>4. /\ pc' \in [Conns -> Stages] /\ \A d \in Conns \ {c} : pc'[d] = pc[d]
      /\ pc'[c] \in {"leaveReply", "presenceReply"}
  BY <1>2, <1>3, GotoEffect
<1>5. LocalTypes' /\ LocalOthers(c)
  BY <1>1, <1>4 DEF StoreTypes, LocalTypes, LocalOthers, LocalSame
<1>6. \A d \in Conns \ {c} : EngineSame(d)
  BY <1>2, ApplyEffect
<1>7. \A q \in Rooms : c \in redisMembers'[q] <=> q \in redisConnRooms'[c]
  BY <1>1, MirrorStays
<1>8. redisConnRooms' = redisConnRooms /\ redisPresence' = redisPresence
  BY <1>1 DEF storeVars
<1>9. redisConnRooms'[c] = connRooms'[c] /\ SamePresence(c)'
  <2>1. CASE pc[c] = "leaveApply" /\ ApplyLeavePlan(c)
    <3>1. /\ connRooms'[c] = connRooms[c] \ plan[c].rooms
          /\ \A q \in Rooms : presence'[q][c] =
               IF q \in plan[c].rooms \cap connRooms[c] THEN NoPayload ELSE presence[q][c]
      BY <2>1, ApplyEffect
    <3>2. /\ target[c] \in connRooms[c] /\ plan[c].rooms = {target[c]}
          /\ redisConnRooms[c] = connRooms[c] \ {target[c]}
          /\ \A q \in Rooms : redisPresence[q][c] = IF q = target[c] THEN NoPayload
                                                    ELSE presence[q][c]
      BY <2>1 DEF StoreFollows, StoreOf, PresenceBut
    <3>3. QED BY <1>8, <3>1, <3>2 DEF SamePresence
  <2>2. CASE pc[c] = "presenceApply" /\ ApplyPresenceSetPlan(c)
    <3>1. /\ connRooms' = connRooms
          /\ \A q \in Rooms : presence'[q][c] =
               IF q \in plan[c].rooms THEN plan[c].payload ELSE presence[q][c]
      BY <2>2, ApplyEffect
    <3>2. /\ plan[c].payload = job[c].payload /\ plan[c].rooms = {target[c]}
          /\ redisConnRooms[c] = connRooms[c]
          /\ \A q \in Rooms : redisPresence[q][c] = IF q = target[c] THEN job[c].payload
                                                    ELSE presence[q][c]
      BY <2>2 DEF StoreFollows, StoreOf, PresenceBut
    <3>3. QED BY <1>8, <3>1, <3>2 DEF SamePresence
  <2>3. QED BY <1>2, <2>1, <2>2
<1>10. StoreOf(c)'
  BY <1>4, <1>7, <1>9 DEF StoreOf, Agreeing
<1>11. QED BY <1>1, <1>5, <1>6, <1>10, EngineStep

\* unregisterConn plans and applies its disconnect: Redis stays as it is.
LEMMA DisconnectStore ==
  ASSUME TypeOK, TypeOK', StoreTypes, StoreFollows, NEW c \in Conns,
         PlanDisconnect(c) \/ Disconnect(c)
  PROVE  StoreTypes' /\ StoreFollows'
<1>1. /\ UNCHANGED <<storeVars, target, dropped>>
      /\ UNCHANGED job \/ job' = [job EXCEPT ![c] = plan'[c]]
      /\ NewDisconnectPlan(c) \/ ApplyDisconnectPlan(c)
  BY DEF PlanDisconnect, Disconnect
<1>2. {"disconnect", "unlink"} \subseteq Stages
  BY DEF Stages, FanStages
<1>3. /\ pc' \in [Conns -> Stages] /\ \A d \in Conns \ {c} : pc'[d] = pc[d]
      /\ pc'[c] \in {"disconnect", "unlink"}
  BY <1>2, GotoEffect DEF PlanDisconnect, Disconnect
<1>4. job' \in [Conns -> Plan] /\ \A d \in Conns \ {c} : job'[d] = job[d]
  BY <1>1 DEF StoreTypes, TypeOK
<1>5. LocalTypes' /\ LocalOthers(c)
  BY <1>1, <1>3, <1>4 DEF StoreTypes, LocalTypes, LocalOthers, LocalSame
<1>6. \A d \in Conns \ {c} : EngineSame(d)
  <2>1. CASE NewDisconnectPlan(c)
    BY <2>1 DEF NewDisconnectPlan, EngineSame, TypeOK
  <2>2. CASE ApplyDisconnectPlan(c)
    BY <2>2, ApplyEffect
  <2>3. QED BY <1>1, <2>1, <2>2
<1>7. \A q \in Rooms : c \in redisMembers'[q] <=> q \in redisConnRooms'[c]
  BY <1>1, MirrorStays
<1>8. StoreOf(c)'
  BY <1>3, <1>7 DEF StoreOf, Agreeing
<1>9. QED BY <1>1, <1>5, <1>6, <1>8, EngineStep

-----------------------------------------------------------------------------
(* The invariant.                                                          *)

\* The steps of the engine keep its invariant.
LEMMA StepIInv ==
  ASSUME IInv, [Next]_vars
  PROVE  IInv'
BY StepTypeOK, StepMirror, StepPlan, StepSession, StepAcks, StepLimits DEF IInv

\* The runtime starts empty, in the engine and in Redis.
LEMMA RoomsInvInit == RuntimeInit => RoomsInv
<1> SUFFICES ASSUME RuntimeInit PROVE RoomsInv
  OBVIOUS
<1>1. IInv
  BY InitEstablishes DEF RuntimeInit
<1>2. StoreTypes
  BY NoPlanIsPlan DEF RuntimeInit, StoreTypes, Stages
<1>3. StoreFollows
  BY DEF RuntimeInit, Init, StoreFollows, StoreOf, Agreeing, SamePresence
<1>4. QED BY <1>1, <1>2, <1>3 DEF RoomsInv

\* Every action, by the lemma about it.
LEMMA RoomsInvStep ==
  ASSUME RoomsInv, RuntimeNext
  PROVE  RoomsInv'
<1>1. IInv'
  BY HandlersUseEngine, StepIInv DEF RoomsInv
<1>2. TypeOK /\ TypeOK' /\ StoreTypes /\ StoreFollows
  BY <1>1 DEF RoomsInv, IInv
<1>3. ASSUME NEW c \in Conns, Handler(c) PROVE StoreTypes' /\ StoreFollows'
  <2>1. CASE JoinStore(c)
    BY <1>2, <2>1, JoinStoreStore DEF JoinStore
  <2>2. CASE LeaveStore(c)
    BY <1>2, <2>2, LeaveStoreStore DEF LeaveStore
  <2>3. CASE PresenceStore(c)
    BY <1>2, <2>3, PresenceStoreStore DEF PresenceStore
  <2>4. CASE \E r \in Rooms : Farewell(c, r)
    BY <1>2, <2>4, FarewellStore
  <2>5. QED BY <1>2, <1>3, <2>1, <2>2, <2>3, <2>4, JoinSnapshotStore, JoinReplyStore,
       PublishStore, ApplyStore, ReplyStore, DisconnectStore, UnlinkStore, CleanupStore,
       FinishStore DEF Handler
<1>4. ASSUME NEW c \in Conns, Request(c) PROVE StoreTypes' /\ StoreFollows'
  BY <1>2, <1>4, RegisterConnStore, HangupStore, HandleJoinStore, HandleLeaveStore,
     HandlePresenceStore DEF Request
<1>5. ASSUME NEW c \in Conns, Fault(c) PROVE StoreTypes' /\ StoreFollows'
  <2>1. CASE \E r \in Rooms : FarewellFails(c, r)
    BY <1>2, <2>1, FarewellStore
  <2>2. ASSUME NEW p \in Procs, EnqueueOverflow(p, c) PROVE StoreTypes' /\ StoreFollows'
    BY <1>2, <2>2, AbortStore DEF EnqueueOverflow
  <2>3. QED BY <1>2, <1>5, <2>1, <2>2, StoreFailsStore, CleanupFailsStore DEF Fault
<1>6. ASSUME NEW n \in Nodes, HandleClusterPresence(n) PROVE StoreTypes' /\ StoreFollows'
  <2>1. UNCHANGED <<engineVars, storeVars, pc, target, job, dropped>>
    BY <1>6 DEF HandleClusterPresence, rtVars
  <2>2. QED BY <1>2, <2>1, StillStep DEF StoreTypes, storeVars
<1>7. ASSUME NEW p \in Procs, FanOut(p) PROVE StoreTypes' /\ StoreFollows'
  <2>1. PICK d \in Conns : Enqueue(p, d) \/ EnqueueLost(p, d) \/ EnqueueClosed(p, d)
    BY <1>7 DEF FanOut
  <2>2. CASE Enqueue(p, d) \/ EnqueueLost(p, d)
    <3>1. UNCHANGED <<engineVars, storeVars, pc, target, job, dropped>>
      BY <2>2 DEF Enqueue, EnqueueLost, rtVars
    <3>2. QED BY <1>2, <3>1, StillStep DEF StoreTypes, storeVars
  <2>3. CASE EnqueueClosed(p, d)
    BY <1>2, <2>3, AbortStore DEF EnqueueClosed
  <2>4. QED BY <2>1, <2>2, <2>3
<1>8. StoreTypes' /\ StoreFollows'
  BY <1>3, <1>4, <1>5, <1>6, <1>7 DEF RuntimeNext
<1>9. QED BY <1>1, <1>8 DEF RoomsInv

\* What an engine does not change, and Redis neither.
LEMMA RoomsInvStutter ==
  ASSUME RoomsInv, UNCHANGED runtimeVars
  PROVE  RoomsInv'
<1>1. IInv'
  BY StepIInv DEF RoomsInv, runtimeVars, engineVars, vars
<1>2. UNCHANGED <<engineVars, storeVars, pc, target, job, dropped>>
  BY DEF runtimeVars, rtVars
<1>3. StoreTypes' /\ StoreFollows'
  BY <1>2, StillStep DEF RoomsInv, StoreTypes, storeVars
<1>4. QED BY <1>1, <1>3 DEF RoomsInv

\* Under any interleaving of handlers, fan-outs and failures, Redis and the
\* engine differ on a connection's rooms and presence only at the room whose
\* join, leave or presence it is in the middle of.
THEOREM RuntimeInvariant == RuntimeSpec => []RoomsInv
<1>1. RuntimeInit => RoomsInv
  BY RoomsInvInit
<1>2. RoomsInv /\ [RuntimeNext]_runtimeVars => RoomsInv'
  BY RoomsInvStep, RoomsInvStutter
<1>3. QED BY <1>1, <1>2, PTL DEF RuntimeSpec

\* handleJoin, handleLeave, handlePresence and unregisterConn: between two
\* handlers of a connection Redis and the engine agree on its rooms and its
\* presence, whatever Redis calls failed before, and a connection that is
\* finished and whose cleanup did not fail has left Redis.
THEOREM StoreAgrees == RuntimeSpec => []StoreMatchesEngine
<1>1. RoomsInv => StoreMatchesEngine
  <2> SUFFICES ASSUME RoomsInv, NEW c \in Conns, NEW r \in Rooms
               PROVE  /\ pc[c] = "idle" =>
                           /\ c \in redisMembers[r] <=> r \in connRooms[c]
                           /\ r \in redisConnRooms[c] <=> r \in connRooms[c]
                           /\ redisPresence[r][c] = presence[r][c]
                      /\ pc[c] = "done" /\ c \notin dropped => c \notin redisMembers[r]
    BY DEF StoreMatchesEngine
  <2>1. StoreOf(c)
    BY DEF RoomsInv, StoreFollows
  <2>2. QED BY <2>1 DEF StoreOf, Agreeing, SamePresence
<1>2. QED BY <1>1, RuntimeInvariant, PTL

-----------------------------------------------------------------------------
(* What the clients show. An event of c on its way to d is in the channel  *)
(* of d's node, or in the hands of the goroutine that fans it out: c's own *)
(* on the same node, the subscriber of d's node otherwise.                 *)

\* The stages of a leave, of a presence update and of a disconnect at which
\* the targets of the job still count.
LeaveStages == {"leaveStore", "leavePublish", "leaveApply"}
PresenceStages == {"presenceStore", "presencePublish", "presenceApply"}
EndStages == {"disconnect", "unlink", "cleanup", "farewell"}

\* The types that the runtime's own invariant leaves out.
FanTypes ==
    /\ snap \in [Conns -> View] /\ view \in [Conns -> [Rooms -> View]]
    /\ channel \in [Nodes -> Seq(PresenceEvent)]
    /\ DOMAIN msg = Procs /\ out \in [Procs -> SUBSET Conns]
    /\ down \subseteq Conns

\* Whom goroutine p tells of whom.
HandsOf(p) ==
    out[p] # {} =>
        /\ msg[p] \in PresenceEvent
        /\ p \in Nodes => /\ NodeOf[msg[p].conn] # p
                          /\ \A d \in out[p] : NodeOf[d] = p
        /\ p \in Conns => /\ msg[p].conn = p
                          /\ pc[p] \in {"leaveReply", "presenceReply", "farewell"}
                          /\ \A d \in out[p] : NodeOf[d] = NodeOf[p]

\* A node hears of the connections of the others.
ForeignOnly == \A n \in Nodes : \A i \in 1..Len(channel[n]) : NodeOf[channel[n][i].conn] # n

\* A connection's stage, and what it says of its rooms, presence and job.
SourceOf(c) ==
    /\ pc[c] \notin {"new", "cleanup", "farewell", "done"} => c \in conns
    /\ pc[c] \in {"new", "unlink", "cleanup", "farewell", "done"} => connRooms[c] = {}
    /\ pc[c] \in JoinStages => target[c] \in connRooms[c]
    /\ pc[c] \in LeaveStages => job[c].payload = NoPayload
    /\ pc[c] \in PresenceStages => job[c].payload \in Payloads
    /\ pc[c] = "leaveReply" => target[c] \notin connRooms[c]
    /\ pc[c] = "disconnect" => job[c].rooms = connRooms[c]
    /\ c \notin dropped =>
         /\ \A r \in Rooms : presence[r][c] # NoPayload => r \in connRooms[c]
         /\ \A r \in Rooms : redisPresence[r][c] # NoPayload => r \in redisConnRooms[c]
         /\ pc[c] \in PresenceStages => target[c] \in connRooms[c]

\* The targets of c's job are all that are in the room and did not join it
\* meanwhile.
TargetsOf(c) ==
    /\ \A r \in Rooms : \A d \in job[c].targets[r] : NodeOf[d] = NodeOf[c]
    /\ \A d \in Conns : NodeOf[d] = NodeOf[c] /\ <<d, c>> \notin overlap =>
         /\ /\ (pc[c] \in LeaveStages /\ d # c) \/ pc[c] \in PresenceStages
            /\ target[c] \in connRooms[d]
            => d \in job[c].targets[target[c]]
         /\ pc[c] \in EndStages /\ d # c =>
              \A r \in job[c].rooms : r \in connRooms[d] => d \in job[c].targets[r]

OverlapsKnown ==
    \A d, c \in Conns : pc[d] \in JoinStages /\ pc[c] \in FanStages => <<d, c>> \in overlap

Carrier(d, c) == IF NodeOf[d] = NodeOf[c] THEN c ELSE NodeOf[d]
About(e, c, r) == e.conn = c /\ e.room = r
Carries(n, c, r) == \E i \in 1..Len(channel[n]) : About(channel[n][i], c, r)
InHand(d, c, r) == d \in out[Carrier(d, c)] /\ About(msg[Carrier(d, c)], c, r)

\* c has left r, and will say so.
Due(c, r) == pc[c] \in {"unlink", "cleanup", "farewell"} /\ r \in job[c].rooms

\* The other nodes know of a change of c in r before c's own engine does.
Ahead(c, r) == pc[c] \in {"leaveApply", "presenceApply"} /\ target[c] = r

\* s, and membership, are what a client of node n should make of c in r.
Right(n, c, r, s) ==
    Due(c, r) \/ s = IF n # NodeOf[c] /\ Ahead(c, r) THEN job[c].payload ELSE presence[r][c]
There(n, c, r) ==
    Due(c, r) \/ IF n # NodeOf[c] /\ Ahead(c, r) THEN job[c].payload # NoPayload ELSE r \in connRooms[c]

\* The last event of c in r that node n has still to hear is right.
Published(n, c, r) ==
    \A i \in 1..Len(channel[n]) :
        /\ About(channel[n][i], c, r)
        /\ \A j \in 1..Len(channel[n]) : j > i => ~About(channel[n][j], c, r)
        => Right(n, c, r, channel[n][i].state)

\* So is the one that is being fanned out to d, if there is none behind it.
Handed(d, c, r) ==
    ~Carries(NodeOf[d], c, r) /\ InHand(d, c, r) =>
        Right(NodeOf[d], c, r, msg[Carrier(d, c)].state)

\* d is joined to r, and has been shown its snapshot.
Views(d, r) ==
    /\ pc[d] \notin {"new", "closing", "disconnect", "unlink", "cleanup", "farewell", "done"}
    /\ d \notin down /\ r \in connRooms[d]
    /\ pc[d] \in JoinStages => target[d] # r

\* And if nothing is on its way, what d shows of c is.
ShownRight(d, c, r) ==
    Views(d, r) /\ <<d, c>> \notin overlap /\ ~Carries(NodeOf[d], c, r) /\ ~InHand(d, c, r) =>
        /\ Right(NodeOf[d], c, r, view[d][r].presence[c])
        /\ c \in view[d][r].members => There(NodeOf[d], c, r)

\* The snapshot d is about to be shown is right.
Snapped(d, c, r) ==
    pc[d] = "joinReply" /\ target[d] = r /\ <<d, c>> \notin overlap =>
        /\ snap[d].presence[c] = presence[r][c]
        /\ c \in snap[d].members => r \in connRooms[c]

\* Who is told of what: it holds of every connection, dropped or not.
FanInv ==
    /\ FanTypes
    /\ \A p \in Procs : HandsOf(p)
    /\ ForeignOnly
    /\ \A c \in Conns : SourceOf(c)
    /\ \A c \in Conns : TargetsOf(c)
    /\ OverlapsKnown

\* What they are told, and show, of the connections no fan-out of which was
\* cut short.
ShowInv ==
    \A c \in Conns \ dropped, r \in Rooms :
        /\ \A n \in Nodes : Published(n, c, r)
        /\ \A d \in Conns : Handed(d, c, r) /\ ShownRight(d, c, r) /\ Snapped(d, c, r)

ViewsInv == RoomsInv /\ FanInv /\ ShowInv

-----------------------------------------------------------------------------
(* The connections that do not move.                                       *)

\* The rooms and the presence of a connection stay.
SeenSame(c) ==
    connRooms'[c] = connRooms[c] /\ \A r \in Rooms : presence'[r][c] = presence[r][c]

\* Nothing of the other connections changes, and sockets only close.
Others(c) ==
    /\ \A d \in Conns \ {c} : StoreSame(d) /\ EngineSame(d) /\ LocalSame(d)
    /\ conns \ {c} \subseteq conns' /\ down \subseteq down' /\ dropped \subseteq dropped'
    /\ overlap \subseteq overlap' /\ OverlapsKnown'

\* Every join that overlaps a fan-out is remembered when the stage is entered.
LEMMA OverlapGrows ==
  ASSUME NEW c, NEW s, Goto(c, s)
  PROVE  overlap \subseteq overlap' /\ OverlapsKnown'
<1>1. overlap' = overlap \cup {dc \in Conns \X Conns :
                                 pc'[dc[1]] \in JoinStages /\ pc'[dc[2]] \in FanStages}
  BY DEF Goto, Overlapping
<1>2. QED BY <1>1 DEF OverlapsKnown

\* A handler's step is about one connection.
LEMMA OthersStay ==
  ASSUME StoreTypes, NEW c \in Conns, NEW s \in Stages, Goto(c, s),
         \A d \in Conns \ {c} : StoreSame(d), \A d \in Conns \ {c} : EngineSame(d),
         \A d \in Conns \ {c} : target'[d] = target[d] /\ job'[d] = job[d],
         conns \ {c} \subseteq conns', down \subseteq down', dropped \subseteq dropped'
  PROVE  Others(c) /\ pc'[c] = s
<1>1. pc'[c] = s /\ \A d \in Conns \ {c} : pc'[d] = pc[d]
  BY GotoEffect
<1>2. overlap \subseteq overlap' /\ OverlapsKnown'
  BY OverlapGrows
<1>3. \A d \in Conns \ {c} : LocalSame(d)
  BY <1>1 DEF LocalSame
<1>4. QED BY <1>1, <1>2, <1>3 DEF Others

\* The same of a step that leaves Redis and the engine alone.
LEMMA StillOthers ==
  ASSUME StoreTypes, NEW c \in Conns, NEW s \in Stages, Goto(c, s),
         UNCHANGED <<engineVars, storeVars>>,
         \A d \in Conns \ {c} : target'[d] = target[d] /\ job'[d] = job[d],
         conns \ {c} \subseteq conns', down \subseteq down', dropped \subseteq dropped'
  PROVE  /\ Others(c) /\ pc'[c] = s /\ \A d \in Conns : StoreSame(d) /\ SeenSame(d)
<1>1. \A d \in Conns : StoreSame(d) /\ EngineSame(d) /\ SeenSame(d)
  BY DEF engineVars, storeVars, StoreSame, EngineSame, SeenSame
<1>2. QED BY <1>1, OthersStay

\* What is said of a source holds while nothing of it changes.
LEMMA SourceKept ==
  ASSUME NEW d \in Conns, SourceOf(d), StoreSame(d), EngineSame(d), LocalSame(d),
         d \in conns => d \in conns'
  PROVE  SourceOf(d)'
<1>1. /\ pc'[d] = pc[d] /\ target'[d] = target[d] /\ job'[d] = job[d]
      /\ connRooms'[d] = connRooms[d] /\ redisConnRooms'[d] = redisConnRooms[d]
      /\ \A r \in Rooms : presence'[r][d] = presence[r][d] /\ redisPresence'[r][d] = redisPresence[r][d]
      /\ d \notin dropped' => d \notin dropped
  BY DEF StoreSame, EngineSame, LocalSame
<1>2. /\ pc'[d] \notin {"new", "cleanup", "farewell", "done"} => d \in conns'
      /\ pc'[d] \in {"new", "unlink", "cleanup", "farewell", "done"} => connRooms'[d] = {}
      /\ pc'[d] \in JoinStages => target'[d] \in connRooms'[d]
      /\ pc'[d] \in LeaveStages => job'[d].payload = NoPayload
      /\ pc'[d] \in PresenceStages => job'[d].payload \in Payloads
      /\ pc'[d] = "leaveReply" => target'[d] \notin connRooms'[d]
      /\ pc'[d] = "disconnect" => job'[d].rooms = connRooms'[d]
  BY <1>1 DEF SourceOf
<1>3. d \notin dropped' =>
        /\ \A r \in Rooms : presence'[r][d] # NoPayload => r \in connRooms'[d]
        /\ \A r \in Rooms : redisPresence'[r][d] # NoPayload => r \in redisConnRooms'[d]
        /\ pc'[d] \in PresenceStages => target'[d] \in connRooms'[d]
  BY <1>1 DEF SourceOf
<1>4. QED BY <1>2, <1>3 DEF SourceOf

\* The targets of a job stay enough: who joins a room meanwhile overlaps.
LEMMA TargetsKept ==
  ASSUME NEW x \in Conns, TargetsOf(x), target'[x] = target[x],
         job'[x].targets = job[x].targets, job'[x].rooms \subseteq job[x].rooms,
         overlap \subseteq overlap', OverlapsKnown',
         \A d \in Conns : connRooms'[d] \subseteq connRooms[d] \/ pc'[d] \in JoinStages,
         pc'[x] \in LeaveStages => pc[x] \in LeaveStages,
         pc'[x] \in PresenceStages => pc[x] \in PresenceStages,
         pc'[x] \in EndStages => pc[x] \in EndStages
  PROVE  TargetsOf(x)'
<1>1. \A r \in Rooms : \A d \in job'[x].targets[r] : NodeOf[d] = NodeOf[x]
  BY DEF TargetsOf
<1>2. LeaveStages \cup PresenceStages \cup EndStages \subseteq FanStages
  BY DEF LeaveStages, PresenceStages, EndStages, FanStages
<1>3. ASSUME NEW d \in Conns, NodeOf[d] = NodeOf[x], <<d, x>> \notin overlap'
      PROVE  /\ /\ (pc'[x] \in LeaveStages /\ d # x) \/ pc'[x] \in PresenceStages
                /\ target'[x] \in connRooms'[d]
                => d \in job'[x].targets[target'[x]]
             /\ pc'[x] \in EndStages /\ d # x =>
                  \A r \in job'[x].rooms : r \in connRooms'[d] => d \in job'[x].targets[r]
  <2>1. <<d, x>> \notin overlap
    BY <1>3
  <2>2. pc'[x] \in LeaveStages \cup PresenceStages \cup EndStages => connRooms'[d] \subseteq connRooms[d]
    BY <1>2, <1>3 DEF OverlapsKnown
  <2>3. /\ /\ (pc[x] \in LeaveStages /\ d # x) \/ pc[x] \in PresenceStages
           /\ target[x] \in connRooms[d]
           => d \in job[x].targets[target[x]]
        /\ pc[x] \in EndStages /\ d # x =>
             \A r \in job[x].rooms : r \in connRooms[d] => d \in job[x].targets[r]
    BY <1>3, <2>1 DEF TargetsOf
  <2>4. QED BY <2>2, <2>3
<1>4. QED BY <1>1, <1>3 DEF TargetsOf

\* A connection only joins a room on its way to Redis.
Grows(c) == connRooms'[c] \subseteq connRooms[c] \/ pc'[c] \in JoinStages

\* So what is said of the others holds when c moves.
LEMMA FanOthers ==
  ASSUME FanInv, NEW c \in Conns, Others(c), Grows(c)
  PROVE  \A x \in Conns \ {c} : SourceOf(x)' /\ TargetsOf(x)'
<1> TAKE x \in Conns \ {c}
<1>1. StoreSame(x) /\ EngineSame(x) /\ LocalSame(x) /\ (x \in conns => x \in conns')
  BY DEF Others
<1>2. SourceOf(x)'
  BY <1>1, SourceKept DEF FanInv
<1>3. \A d \in Conns : connRooms'[d] \subseteq connRooms[d] \/ pc'[d] \in JoinStages
  <2> TAKE d \in Conns
  <2>1. CASE d = c
    BY <2>1 DEF Grows
  <2>2. CASE d # c
    BY <2>2 DEF Others, EngineSame
  <2>3. QED BY <2>1, <2>2
<1>4. /\ target'[x] = target[x] /\ job'[x] = job[x] /\ pc'[x] = pc[x]
      /\ overlap \subseteq overlap' /\ OverlapsKnown'
  BY <1>1 DEF Others, LocalSame
<1>5. TargetsOf(x)'
  BY <1>3, <1>4, TargetsKept DEF FanInv
<1>6. QED BY <1>2, <1>5

\* c is not fanning out, or goes on with it.
Unhanding(c) == pc'[c] = pc[c] \/ out[c] = {} \/ pc[c] \notin {"leaveReply", "presenceReply", "farewell"}

\* A step outside the fan-outs, of a connection whose own part holds.
LEMMA QuietFan ==
  ASSUME FanInv, NEW c \in Conns, Others(c), Grows(c), Unhanding(c),
         UNCHANGED <<channel, msg, out>>, FanTypes', SourceOf(c)', TargetsOf(c)'
  PROVE  FanInv'
<1>1. \A x \in Conns : SourceOf(x)' /\ TargetsOf(x)'
  <2>1. \A x \in Conns \ {c} : SourceOf(x)' /\ TargetsOf(x)'
    BY FanOthers
  <2>2. QED BY <2>1
<1>2. ForeignOnly'
  BY DEF FanInv, ForeignOnly
<1>3. ASSUME NEW p \in Procs PROVE HandsOf(p)'
  <2>1. HandsOf(p)
    BY DEF FanInv
  <2>2. p \in Conns /\ out[p] # {} => pc'[p] = pc[p]
    <3>1. CASE p = c
      BY <3>1, <2>1 DEF Unhanding, HandsOf
    <3>2. CASE p # c
      BY <3>2 DEF Others, LocalSame
    <3>3. QED BY <3>1, <3>2
  <2>3. QED BY <2>1, <2>2 DEF HandsOf
<1>4. OverlapsKnown'
  BY DEF Others
<1>5. QED BY <1>1, <1>2, <1>3, <1>4 DEF FanInv

\* The types of what clients show while nothing is sent or shown.
LEMMA FanTypesStay ==
  ASSUME FanTypes, UNCHANGED <<snap, view, channel, msg, out>>, down' \subseteq Conns
  PROVE  FanTypes'
BY DEF FanTypes

\* The presence Redis has of a connection is in its rooms.
StoredIn(c) ==
    c \notin dropped' => \A r \in Rooms : redisPresence'[r][c] # NoPayload => r \in redisConnRooms'[c]

\* So it is while Redis has the same of the connection.
LEMMA StoredSame ==
  ASSUME NEW c \in Conns, SourceOf(c), StoreSame(c), dropped \subseteq dropped'
  PROVE  StoredIn(c)
BY DEF SourceOf, StoreSame, StoredIn

\* The connection itself moves: what Redis and the engine have of it stays.
LEMMA OwnSource ==
  ASSUME NEW c \in Conns, SourceOf(c), StoredIn(c), SeenSame(c), dropped \subseteq dropped',
         pc'[c] \notin {"new", "cleanup", "farewell", "done"} => c \in conns',
         pc'[c] \in {"new", "unlink", "cleanup", "farewell", "done"} => connRooms[c] = {},
         pc'[c] \in JoinStages => target'[c] \in connRooms[c],
         pc'[c] \in LeaveStages => job'[c].payload = NoPayload,
         pc'[c] \in PresenceStages =>
           job'[c].payload \in Payloads /\ (c \notin dropped' => target'[c] \in connRooms[c]),
         pc'[c] = "leaveReply" => target'[c] \notin connRooms[c],
         pc'[c] = "disconnect" => job'[c].rooms = connRooms[c]
  PROVE  SourceOf(c)'
<1>1. connRooms'[c] = connRooms[c]
  BY DEF SeenSame
<1>2. c \notin dropped' =>
        /\ \A r \in Rooms : presence'[r][c] # NoPayload => r \in connRooms'[c]
        /\ \A r \in Rooms : redisPresence'[r][c] # NoPayload => r \in redisConnRooms'[c]
  BY DEF SourceOf, StoredIn, SeenSame
<1>3. QED BY <1>1, <1>2 DEF SourceOf

\* The job goes on, or its targets no longer matter.
LEMMA OwnTargets ==
  ASSUME FanInv, NEW c \in Conns, Others(c), Grows(c),
         job'[c].targets = job[c].targets, job'[c].rooms \subseteq job[c].rooms,
         \/ pc'[c] \notin LeaveStages \cup PresenceStages \cup EndStages
         \/ /\ target'[c] = target[c]
            /\ pc'[c] \in LeaveStages => pc[c] \in LeaveStages
            /\ pc'[c] \in PresenceStages => pc[c] \in PresenceStages
            /\ pc'[c] \in EndStages => pc[c] \in EndStages
  PROVE  TargetsOf(c)'
<1>1. TargetsOf(c)
  BY DEF FanInv
<1>2. CASE pc'[c] \notin LeaveStages \cup PresenceStages \cup EndStages
  BY <1>1, <1>2 DEF TargetsOf
<1>3. CASE /\ target'[c] = target[c]
           /\ pc'[c] \in LeaveStages => pc[c] \in LeaveStages
           /\ pc'[c] \in PresenceStages => pc[c] \in PresenceStages
           /\ pc'[c] \in EndStages => pc[c] \in EndStages
  <2>1. \A d \in Conns : connRooms'[d] \subseteq connRooms[d] \/ pc'[d] \in JoinStages
    <3> TAKE d \in Conns
    <3>1. CASE d = c
      BY <3>1 DEF Grows
    <3>2. CASE d # c
      BY <3>2 DEF Others, EngineSame
    <3>3. QED BY <3>1, <3>2
  <2>2. overlap \subseteq overlap' /\ OverlapsKnown'
    BY DEF Others
  <2>3. QED BY <1>1, <1>3, <2>1, <2>2, TargetsKept
<1>4. QED BY <1>2, <1>3

\* A job that is over has no targets.
LEMMA OverTargets ==
  ASSUME NEW c \in Conns, job'[c] = NoPlan,
         pc'[c] \notin LeaveStages \cup PresenceStages \cup EndStages \/ pc'[c] = "done"
  PROVE  TargetsOf(c)'
<1>1. /\ \A r \in Rooms : job'[c].targets[r] = {}
      /\ pc'[c] \notin LeaveStages /\ pc'[c] \notin PresenceStages /\ pc'[c] \notin EndStages
  BY DEF NoPlan, NoTargets, LeaveStages, PresenceStages, EndStages
<1>2. QED BY <1>1 DEF TargetsOf

-----------------------------------------------------------------------------
(* Steps that send and show nothing.                                       *)

\* What the clients should make of c stays, or it will be told.
Steady(c) ==
    c \in dropped' \/ \A r \in Rooms :
        /\ ~Ahead(c, r) /\ ~Ahead(c, r)'
        /\ Due(c, r) => Due(c, r)'
        /\ presence'[r][c] = presence[r][c] \/ Due(c, r)'
        /\ r \in connRooms[c] => r \in connRooms'[c] \/ Due(c, r)'

\* c is shown no other room than before.
Blind(c) == \A r \in Rooms : Views(c, r)' => Views(c, r)

\* Presence and membership are lost in the handlers that say so.
Kept(c) ==
    pc[c] \notin FanStages =>
        connRooms[c] \subseteq connRooms'[c] /\ \A r \in Rooms : presence'[r][c] = presence[r][c]

Calm(c) == Others(c) /\ Steady(c) /\ Kept(c) /\ UNCHANGED <<channel, msg, out>>

Quiet(c) == Calm(c) /\ Blind(c)

\* Nothing of c is seen to change when only its stage does.
LEMMA StageQuiet ==
  ASSUME NEW c \in Conns, Others(c), SeenSame(c), UNCHANGED <<channel, msg, out>>,
         \/ c \in dropped'
         \/ pc[c] \notin {"unlink", "cleanup", "farewell", "leaveApply", "presenceApply"}
         \/ /\ pc[c] \in {"unlink", "cleanup", "farewell"} /\ job'[c].rooms = job[c].rooms
            /\ pc'[c] \in {"unlink", "cleanup", "farewell"}
         \/ pc[c] \in {"unlink", "cleanup", "farewell"} /\ job[c].rooms = {},
         pc'[c] \notin {"leaveApply", "presenceApply"},
         \/ connRooms[c] = {}
         \/ pc'[c] \in {"closing", "disconnect", "unlink", "cleanup", "farewell", "done"}
         \/ pc[c] = "idle" /\ pc'[c] \notin JoinStages
         \/ pc[c] \in JoinStages /\ pc'[c] \in JoinStages /\ target'[c] = target[c]
         \/ /\ pc[c] \notin {"new", "closing", "disconnect", "unlink", "cleanup", "farewell", "done"}
            /\ pc[c] \notin JoinStages /\ pc'[c] \notin JoinStages
         \/ c \in down
  PROVE  Quiet(c)
<1>1. connRooms'[c] = connRooms[c] /\ \A r \in Rooms : presence'[r][c] = presence[r][c]
  BY DEF SeenSame
<1>2. Steady(c)
  BY <1>1 DEF Steady, Ahead, Due
<1>3. Blind(c)
  BY <1>1 DEF Blind, Views, Others, JoinStages
<1>4. Kept(c)
  BY <1>1 DEF Kept
<1>5. QED BY <1>2, <1>3, <1>4 DEF Quiet, Calm

\* The read loop ends between two handlers.
LEMMA HangupFan ==
  ASSUME RoomsInv, FanInv, NEW c \in Conns, Hangup(c)
  PROVE  FanInv' /\ Quiet(c) /\ pc'[c] # "joinReply" /\ UNCHANGED <<view, snap>>
<1>1. /\ pc[c] = "idle" /\ Goto(c, "closing") /\ "closing" \in Stages
      /\ UNCHANGED <<engineVars, storeVars, fanVars, bounds, target, job, conns, down, snap, dropped>>
  BY DEF Hangup, Stages, FanStages
<1>2. UNCHANGED <<channel, msg, out, view, snap, down, target, job, conns, dropped>>
  BY <1>1 DEF fanVars
<1>3. Others(c) /\ pc'[c] = "closing" /\ StoreSame(c) /\ SeenSame(c)
  BY <1>1, <1>2, StillOthers DEF RoomsInv
<1>4. SourceOf(c) /\ FanTypes /\ StoredIn(c)
  BY <1>1, <1>2, <1>3, StoredSame DEF FanInv, Others
<1>5. SourceOf(c)'
  BY <1>1, <1>2, <1>3, <1>4, OwnSource DEF SourceOf, JoinStages, LeaveStages, PresenceStages
<1>6. Grows(c) /\ Unhanding(c)
  BY <1>1, <1>3 DEF Grows, SeenSame, Unhanding
<1>7. TargetsOf(c)'
  BY <1>2, <1>3, <1>6, OwnTargets DEF LeaveStages, PresenceStages, EndStages
<1>8. FanTypes'
  BY <1>2, <1>4, FanTypesStay DEF FanTypes
<1>9. FanInv'
  BY <1>2, <1>3, <1>5, <1>6, <1>7, <1>8, QuietFan
<1>10. Quiet(c)
  BY <1>1, <1>2, <1>3, StageQuiet
<1>11. QED BY <1>2, <1>3, <1>9, <1>10

\* A registered connection has joined nothing.
LEMMA RegisterConnFan ==
  ASSUME RoomsInv, FanInv, NEW c \in Conns, RegisterConn(c)
  PROVE  FanInv' /\ Quiet(c) /\ pc'[c] # "joinReply" /\ UNCHANGED <<view, snap>>
<1>1. /\ pc[c] = "new" /\ Goto(c, "idle") /\ "idle" \in Stages /\ RegisterSession(c)
      /\ conns' = conns \cup {c}
      /\ UNCHANGED <<storeVars, fanVars, bounds, target, job, down, snap, dropped>>
  BY DEF RegisterConn, Stages
<1>2. /\ UNCHANGED <<channel, msg, out, view, snap, down, target, job, dropped>>
      /\ UNCHANGED <<connRooms, presence, plan>>
  BY <1>1 DEF fanVars, RegisterSession
<1>a. \A d \in Conns : StoreSame(d) /\ EngineSame(d) /\ SeenSame(d)
  BY <1>1, <1>2 DEF StoreSame, EngineSame, SeenSame, storeVars
<1>3. Others(c) /\ pc'[c] = "idle" /\ StoreSame(c) /\ SeenSame(c)
  BY <1>1, <1>2, <1>a, OthersStay DEF RoomsInv
<1>4. SourceOf(c) /\ FanTypes /\ StoredIn(c)
  BY <1>1, <1>2, <1>3, StoredSame DEF FanInv, Others
<1>5. SourceOf(c)'
  BY <1>1, <1>2, <1>3, <1>4, OwnSource DEF SourceOf, JoinStages, LeaveStages, PresenceStages
<1>6. Grows(c) /\ Unhanding(c)
  BY <1>1, <1>3 DEF Grows, SeenSame, Unhanding
<1>7. TargetsOf(c)'
  BY <1>2, <1>3, <1>6, OwnTargets DEF LeaveStages, PresenceStages, EndStages
<1>8. FanTypes'
  BY <1>2, <1>4, FanTypesStay DEF FanTypes
<1>9. FanInv'
  BY <1>2, <1>3, <1>5, <1>6, <1>7, <1>8, QuietFan
<1>10. Quiet(c)
  <2>1. connRooms[c] = {}
    BY <1>1, <1>4 DEF SourceOf
  <2>2. QED BY <1>1, <1>2, <1>3, <2>1, StageQuiet
<1>11. QED BY <1>2, <1>3, <1>9, <1>10

\* The socket leaves the table of its node; its farewell is still due.
LEMMA UnlinkFan ==
  ASSUME RoomsInv, FanInv, NEW c \in Conns, Unlink(c)
  PROVE  FanInv' /\ Quiet(c) /\ pc'[c] # "joinReply" /\ UNCHANGED <<view, snap>>
<1>1. /\ pc[c] = "unlink" /\ Goto(c, "cleanup") /\ "cleanup" \in Stages
      /\ conns' = conns \ {c} /\ down' = down \cup {c}
      /\ UNCHANGED <<engineVars, storeVars, fanVars, bounds, target, job, snap, dropped>>
  BY DEF Unlink, Stages, FanStages
<1>2. UNCHANGED <<channel, msg, out, view, snap, target, job, dropped>>
  BY <1>1 DEF fanVars
<1>3. Others(c) /\ pc'[c] = "cleanup" /\ StoreSame(c) /\ SeenSame(c)
  BY <1>1, <1>2, StillOthers DEF RoomsInv
<1>4. SourceOf(c) /\ FanTypes /\ StoredIn(c)
  BY <1>1, <1>2, <1>3, StoredSame DEF FanInv, Others
<1>5. SourceOf(c)'
  BY <1>1, <1>2, <1>3, <1>4, OwnSource DEF SourceOf, JoinStages, LeaveStages, PresenceStages
<1>6. Grows(c) /\ Unhanding(c)
  BY <1>1, <1>3 DEF Grows, SeenSame, Unhanding
<1>7. TargetsOf(c)'
  BY <1>1, <1>2, <1>3, <1>6, OwnTargets DEF LeaveStages, PresenceStages, EndStages
<1>8. FanTypes'
  BY <1>1, <1>2, <1>4, FanTypesStay DEF FanTypes
<1>9. FanInv'
  BY <1>2, <1>3, <1>5, <1>6, <1>7, <1>8, QuietFan
<1>10. Quiet(c)
  BY <1>1, <1>2, <1>3, StageQuiet
<1>11. QED BY <1>2, <1>3, <1>9, <1>10

\* The last room has been told.
LEMMA FinishFan ==
  ASSUME RoomsInv, FanInv, NEW c \in Conns, Finish(c)
  PROVE  FanInv' /\ Quiet(c) /\ pc'[c] # "joinReply" /\ UNCHANGED <<view, snap>>
<1>1. /\ pc[c] = "farewell" /\ out[c] = {} /\ job[c].rooms = {}
      /\ job' = [job EXCEPT ![c] = NoPlan] /\ Goto(c, "done") /\ "done" \in Stages
      /\ UNCHANGED <<engineVars, storeVars, fanVars, bounds, target, conns, down, snap, dropped>>
  BY DEF Finish, Stages
<1>2. UNCHANGED <<channel, msg, out, view, snap, target, conns, down, dropped>>
  BY <1>1 DEF fanVars
<1>a. job'[c] = NoPlan /\ \A d \in Conns \ {c} : target'[d] = target[d] /\ job'[d] = job[d]
  BY <1>1 DEF RoomsInv, StoreTypes
<1>3. Others(c) /\ pc'[c] = "done" /\ StoreSame(c) /\ SeenSame(c)
  BY <1>1, <1>2, <1>a, StillOthers DEF RoomsInv
<1>4. SourceOf(c) /\ FanTypes /\ StoredIn(c)
  BY <1>1, <1>2, <1>3, StoredSame DEF FanInv, Others
<1>5. SourceOf(c)'
  BY <1>1, <1>2, <1>3, <1>4, OwnSource DEF SourceOf, JoinStages, LeaveStages, PresenceStages
<1>6. Grows(c) /\ Unhanding(c)
  BY <1>1, <1>3 DEF Grows, SeenSame, Unhanding
<1>7. TargetsOf(c)'
  BY <1>3, <1>a, OverTargets
<1>8. FanTypes'
  BY <1>1, <1>2, <1>4, FanTypesStay DEF FanTypes
<1>9. FanInv'
  BY <1>2, <1>3, <1>5, <1>6, <1>7, <1>8, QuietFan
<1>10. Quiet(c)
  BY <1>1, <1>2, <1>3, StageQuiet
<1>11. QED BY <1>2, <1>3, <1>9, <1>10

\* A cleanup that fails is remembered.
LEMMA CleanupFailsFan ==
  ASSUME RoomsInv, FanInv, NEW c \in Conns, CleanupFails(c)
  PROVE  FanInv' /\ Quiet(c) /\ pc'[c] # "joinReply" /\ UNCHANGED <<view, snap>>
<1>1. /\ pc[c] = "cleanup" /\ Goto(c, "farewell") /\ "farewell" \in Stages
      /\ dropped' = dropped \cup {c}
      /\ UNCHANGED <<engineVars, storeVars, fanVars, target, job, conns, down, snap>>
  BY DEF CleanupFails, Stages, FanStages
<1>2. UNCHANGED <<channel, msg, out, view, snap, target, job, conns, down>>
  BY <1>1 DEF fanVars
<1>3. Others(c) /\ pc'[c] = "farewell" /\ StoreSame(c) /\ SeenSame(c)
  BY <1>1, <1>2, StillOthers DEF RoomsInv
<1>4. SourceOf(c) /\ FanTypes /\ StoredIn(c)
  BY <1>1, <1>2, <1>3, StoredSame DEF FanInv, Others
<1>5. SourceOf(c)'
  BY <1>1, <1>2, <1>3, <1>4, OwnSource DEF SourceOf, JoinStages, LeaveStages, PresenceStages
<1>6. Grows(c) /\ Unhanding(c)
  BY <1>1, <1>3 DEF Grows, SeenSame, Unhanding
<1>7. TargetsOf(c)'
  BY <1>1, <1>2, <1>3, <1>6, OwnTargets DEF LeaveStages, PresenceStages, EndStages
<1>8. FanTypes'
  BY <1>1, <1>2, <1>4, FanTypesStay DEF FanTypes
<1>9. FanInv'
  BY <1>2, <1>3, <1>5, <1>6, <1>7, <1>8, QuietFan
<1>10. Quiet(c)
  BY <1>1, <1>2, <1>3, StageQuiet
<1>11. QED BY <1>2, <1>3, <1>9, <1>10

\* A join goes to Redis with its room in the engine, or only reads it again.
LEMMA HandleJoinFan ==
  ASSUME RoomsInv, FanInv, NEW c \in Conns, NEW r \in Rooms, HandleJoin(c, r)
  PROVE  FanInv' /\ Quiet(c) /\ pc'[c] # "joinReply" /\ UNCHANGED <<view, snap>>
<1>1. /\ pc[c] = "idle" /\ target' = [target EXCEPT ![c] = r]
      /\ UNCHANGED <<storeVars, fanVars, job, conns, down, snap, dropped>>
  BY DEF HandleJoin, Start
<1>2. UNCHANGED <<channel, msg, out, view, snap, down, job, conns, dropped>>
  BY <1>1 DEF fanVars
<1>a. target'[c] = r /\ \A d \in Conns \ {c} : target'[d] = target[d] /\ job'[d] = job[d]
  BY <1>1 DEF RoomsInv, StoreTypes
<1>b. \A d \in Conns : StoreSame(d)
  BY <1>1 DEF storeVars, StoreSame
<1>c. SourceOf(c) /\ FanTypes
  BY DEF FanInv
<1>d. FanTypes'
  BY <1>2, <1>c, FanTypesStay DEF FanTypes
<1>3. CASE JoinWithLimits(c, r) /\ Goto(c, "joinStore")
  <2>1. /\ connRooms'[c] = connRooms[c] \cup {r} /\ presence' = presence
        /\ \A d \in Conns \ {c} : EngineSame(d)
    <3>1. TypeOK
      BY DEF RoomsInv, IInv
    <3>2. \A d \in Conns \ {c} : EngineSame(d)
      BY <1>3, <3>1 DEF JoinWithLimits, EngineSame, TypeOK
    <3>3. QED BY <1>3, <3>1, <3>2, JoinEffect DEF JoinWithLimits
  <2>2. Others(c) /\ pc'[c] = "joinStore"
    <3>1. "joinStore" \in Stages
      BY DEF Stages, JoinStages
    <3>2. QED BY <1>1, <1>2, <1>3, <1>a, <1>b, <2>1, <3>1, OthersStay DEF RoomsInv
  <2>3. StoredIn(c)
    BY <1>2, <1>b, <1>c, StoredSame
  <2>4. SourceOf(c)'
    BY <1>1, <1>2, <1>a, <1>c, <2>1, <2>2, <2>3
       DEF SourceOf, StoredIn, JoinStages, LeaveStages, PresenceStages
  <2>5. Grows(c) /\ Unhanding(c)
    BY <1>1, <2>2 DEF Grows, JoinStages, Unhanding
  <2>6. TargetsOf(c)'
    BY <1>2, <2>2, <2>5, OwnTargets DEF LeaveStages, PresenceStages, EndStages
  <2>7. FanInv'
    BY <1>2, <1>d, <2>2, <2>4, <2>5, <2>6, QuietFan
  <2>8. Steady(c) /\ Kept(c)
    BY <1>1, <2>1, <2>2 DEF Steady, Kept, Ahead, Due
  <2>9. Blind(c)
    BY <1>1, <1>2, <1>a, <2>1, <2>2 DEF Blind, Views, JoinStages
  <2>10. QED BY <1>2, <2>2, <2>7, <2>8, <2>9 DEF Quiet, Calm
<1>4. CASE r \in connRooms[c] /\ UNCHANGED engineVars /\ Goto(c, "joinSnapshot")
  <2>2. Others(c) /\ pc'[c] = "joinSnapshot" /\ StoreSame(c) /\ SeenSame(c)
    <3>1. "joinSnapshot" \in Stages
      BY DEF Stages, JoinStages
    <3>2. QED BY <1>1, <1>2, <1>4, <1>a, <3>1, StillOthers DEF RoomsInv
  <2>3. StoredIn(c)
    BY <1>2, <1>b, <1>c, StoredSame
  <2>4. SourceOf(c)'
    BY <1>1, <1>2, <1>4, <1>a, <1>c, <2>2, <2>3, OwnSource
       DEF SourceOf, JoinStages, LeaveStages, PresenceStages
  <2>5. Grows(c) /\ Unhanding(c)
    BY <1>1, <2>2 DEF Grows, JoinStages, Unhanding
  <2>6. TargetsOf(c)'
    BY <1>2, <2>2, <2>5, OwnTargets DEF LeaveStages, PresenceStages, EndStages
  <2>7. FanInv'
    BY <1>2, <1>d, <2>2, <2>4, <2>5, <2>6, QuietFan
  <2>8. Steady(c) /\ Kept(c)
    BY <1>1, <2>2 DEF Steady, Kept, Ahead, Due, SeenSame
  <2>9. Blind(c)
    BY <1>1, <1>2, <2>2 DEF Blind, Views, JoinStages, SeenSame
  <2>10. QED BY <1>2, <2>2, <2>7, <2>8, <2>9 DEF Quiet, Calm
<1>5. QED BY <1>3, <1>4 DEF HandleJoin

\* JoinRoom is answered: Redis has one more room.
LEMMA JoinStoreFan ==
  ASSUME RoomsInv, FanInv, NEW c \in Conns, pc[c] = "joinStore", JoinRoom(c, target[c]),
         NEW s \in {"joinSnapshot", "closing"}, Goto(c, s),
         UNCHANGED <<engineVars, fanVars, target, job, conns, down, snap>>,
         dropped \subseteq dropped'
  PROVE  FanInv' /\ Quiet(c) /\ pc'[c] # "joinReply" /\ UNCHANGED <<view, snap>>
<1>2. UNCHANGED <<channel, msg, out, view, snap, down, target, job, conns>>
  BY DEF fanVars
<1>a. SourceOf(c) /\ FanTypes
  BY DEF FanInv
<1>b. target[c] \in connRooms[c] /\ target[c] \in Rooms
  BY <1>a DEF SourceOf, JoinStages, RoomsInv, IInv, TypeOK
<1>c. /\ redisPresence' = redisPresence
      /\ redisConnRooms'[c] = redisConnRooms[c] \cup {target[c]}
      /\ \A d \in Conns \ {c} : StoreSame(d)
  BY <1>b, JoinRoomEffect DEF RoomsInv
<1>d. (\A d \in Conns : EngineSame(d)) /\ SeenSame(c)
  BY DEF engineVars, EngineSame, SeenSame
<1>3. Others(c) /\ pc'[c] = s
  <2>1. s \in Stages
    BY DEF Stages, JoinStages, FanStages
  <2>2. QED BY <1>2, <1>c, <1>d, <2>1, OthersStay DEF RoomsInv
<1>4. StoredIn(c)
  BY <1>a, <1>c DEF StoredIn, SourceOf
<1>5. SourceOf(c)'
  BY <1>2, <1>3, <1>4, <1>a, <1>b, <1>d, OwnSource DEF SourceOf, JoinStages, LeaveStages, PresenceStages
<1>6. Grows(c) /\ Unhanding(c)
  BY <1>d DEF Grows, SeenSame, Unhanding
<1>7. TargetsOf(c)'
  BY <1>2, <1>3, <1>6, OwnTargets DEF LeaveStages, PresenceStages, EndStages
<1>8. FanTypes'
  BY <1>2, <1>a, FanTypesStay DEF FanTypes
<1>9. FanInv'
  BY <1>2, <1>3, <1>5, <1>6, <1>7, <1>8, QuietFan
<1>10. Quiet(c)
  BY <1>2, <1>3, <1>d, StageQuiet DEF JoinStages
<1>11. QED BY <1>2, <1>3, <1>9, <1>10

\* LeaveRoom is answered: the presence in the room is gone with it.
LEMMA LeaveStoreFan ==
  ASSUME RoomsInv, FanInv, NEW c \in Conns, pc[c] = "leaveStore", LeaveRoom(c, target[c]),
         NEW s \in {"leavePublish", "closing"}, Goto(c, s),
         UNCHANGED <<engineVars, fanVars, target, job, conns, down, snap>>,
         dropped \subseteq dropped'
  PROVE  FanInv' /\ Quiet(c) /\ pc'[c] # "joinReply" /\ UNCHANGED <<view, snap>>
<1>2. UNCHANGED <<channel, msg, out, view, snap, down, target, job, conns>>
  BY DEF fanVars
<1>a. SourceOf(c) /\ FanTypes
  BY DEF FanInv
<1>b. target[c] \in Rooms
  BY DEF RoomsInv, IInv, TypeOK, StoreFollows, StoreOf
<1>c. /\ redisConnRooms'[c] = redisConnRooms[c] \ {target[c]}
      /\ \A q \in Rooms : redisPresence'[q][c] = IF q = target[c] THEN NoPayload
                                                 ELSE redisPresence[q][c]
      /\ \A d \in Conns \ {c} : StoreSame(d)
  BY <1>b, LeaveRoomEffect DEF RoomsInv
<1>d. (\A d \in Conns : EngineSame(d)) /\ SeenSame(c)
  BY DEF engineVars, EngineSame, SeenSame
<1>3. Others(c) /\ pc'[c] = s
  <2>1. s \in Stages
    BY DEF Stages, JoinStages, FanStages
  <2>2. QED BY <1>2, <1>c, <1>d, <2>1, OthersStay DEF RoomsInv
<1>4. StoredIn(c)
  BY <1>a, <1>c DEF StoredIn, SourceOf
<1>5. SourceOf(c)'
  BY <1>2, <1>3, <1>4, <1>a, <1>d, OwnSource DEF SourceOf, JoinStages, LeaveStages, PresenceStages
<1>6. Grows(c) /\ Unhanding(c)
  BY <1>d DEF Grows, SeenSame, Unhanding
<1>7. TargetsOf(c)'
  BY <1>2, <1>3, <1>6, OwnTargets DEF LeaveStages, PresenceStages, EndStages
<1>8. FanTypes'
  BY <1>2, <1>a, FanTypesStay DEF FanTypes
<1>9. FanInv'
  BY <1>2, <1>3, <1>5, <1>6, <1>7, <1>8, QuietFan
<1>10. Quiet(c)
  BY <1>2, <1>3, <1>d, StageQuiet DEF JoinStages
<1>11. QED BY <1>2, <1>3, <1>9, <1>10

\* SetPresence is answered: it is in a room of the connection, or the
\* connection has been dropped.
LEMMA PresenceStoreFan ==
  ASSUME RoomsInv, FanInv, NEW c \in Conns, pc[c] = "presenceStore",
         SetPresence(c, target[c], job[c].payload),
         NEW s \in {"presencePublish", "closing"}, Goto(c, s),
         UNCHANGED <<engineVars, fanVars, target, job, conns, down, snap>>,
         dropped \subseteq dropped'
  PROVE  FanInv' /\ Quiet(c) /\ pc'[c] # "joinReply" /\ UNCHANGED <<view, snap>>
<1>2. UNCHANGED <<channel, msg, out, view, snap, down, target, job, conns>>
  BY DEF fanVars
<1>a. SourceOf(c) /\ FanTypes
  BY DEF FanInv
<1>b. target[c] \in Rooms /\ redisConnRooms[c] = connRooms[c] /\ job[c].payload \in Payloads \cup {NoPayload}
  BY DEF RoomsInv, StoreTypes, Plan, StoreFollows, StoreOf, Agreeing
<1>c. /\ redisConnRooms' = redisConnRooms
      /\ \A q \in Rooms : redisPresence'[q][c] = IF q = target[c] THEN job[c].payload
                                                 ELSE redisPresence[q][c]
      /\ \A d \in Conns \ {c} : StoreSame(d)
  BY <1>b, SetPresenceEffect DEF RoomsInv
<1>d. (\A d \in Conns : EngineSame(d)) /\ SeenSame(c)
  BY DEF engineVars, EngineSame, SeenSame
<1>3. Others(c) /\ pc'[c] = s
  <2>1. s \in Stages
    BY DEF Stages, JoinStages, FanStages
  <2>2. QED BY <1>2, <1>c, <1>d, <2>1, OthersStay DEF RoomsInv
<1>4. StoredIn(c)
  BY <1>a, <1>b, <1>c DEF StoredIn, SourceOf, PresenceStages
<1>5. SourceOf(c)'
  BY <1>2, <1>3, <1>4, <1>a, <1>d, OwnSource DEF SourceOf, JoinStages, LeaveStages, PresenceStages
<1>6. Grows(c) /\ Unhanding(c)
  BY <1>d DEF Grows, SeenSame, Unhanding
<1>7. TargetsOf(c)'
  BY <1>2, <1>3, <1>6, OwnTargets DEF LeaveStages, PresenceStages, EndStages
<1>8. FanTypes'
  BY <1>2, <1>a, FanTypesStay DEF FanTypes
<1>9. FanInv'
  BY <1>2, <1>3, <1>5, <1>6, <1>7, <1>8, QuietFan
<1>10. Quiet(c)
  BY <1>2, <1>3, <1>d, StageQuiet DEF JoinStages
<1>11. QED BY <1>2, <1>3, <1>9, <1>10

\* A plan is made: c's own, and nothing else changes in the engine.
LEMMA PlanEffect ==
  ASSUME TypeOK, NEW c \in Conns, NEW r, NEW p,
         NewLeavePlan(c, r) \/ NewPresenceSetPlan(c, r, p) \/ NewDisconnectPlan(c)
  PROVE  /\ UNCHANGED <<rooms, connRooms, presence>> /\ SeenSame(c)
         /\ \A d \in Conns \ {c} : EngineSame(d)
<1>1. UNCHANGED <<rooms, connRooms, presence>> /\ \A d \in Conns \ {c} : plan'[d] = plan[d]
  BY DEF TypeOK, NewLeavePlan, NewPresenceSetPlan, NewDisconnectPlan
<1>2. QED BY <1>1 DEF SeenSame, EngineSame

\* Who is in a room is a member of it.
LEMMA MembersJoined ==
  ASSUME RoomsInv, NEW c \in Conns, NEW r \in Rooms, NEW x
  PROVE  /\ \A d \in MemberIDs(c, r, x) : NodeOf[d] = NodeOf[c]
         /\ \A d \in Conns : NodeOf[d] = NodeOf[c] /\ r \in connRooms[d] /\ d \notin x
                             => d \in MemberIDs(c, r, x)
BY DEF RoomsInv, IInv, MembershipMirror, MemberIDs, Members

\* A leave has all members of the room for its targets; one for a room that
\* was not joined has only its reply to give.
LEMMA HandleLeaveFan ==
  ASSUME RoomsInv, FanInv, NEW c \in Conns, NEW r \in Rooms, HandleLeave(c, r)
  PROVE  FanInv' /\ Quiet(c) /\ pc'[c] # "joinReply" /\ UNCHANGED <<view, snap>>
<1>1. /\ pc[c] = "idle" /\ target' = [target EXCEPT ![c] = r]
      /\ UNCHANGED <<storeVars, fanVars, conns, down, snap, dropped>>
  BY DEF HandleLeave, Start
<1>2. UNCHANGED <<channel, msg, out, view, snap, down, conns, dropped>>
  BY <1>1 DEF fanVars
<1>a. target'[c] = r /\ \A d \in Conns \ {c} : target'[d] = target[d]
  BY <1>1 DEF RoomsInv, StoreTypes
<1>b. \A d \in Conns : StoreSame(d)
  BY <1>1 DEF storeVars, StoreSame
<1>c. SourceOf(c) /\ FanTypes
  BY DEF FanInv
<1>d. FanTypes'
  BY <1>2, <1>c, FanTypesStay DEF FanTypes
<1>e. StoredIn(c)
  BY <1>2, <1>b, <1>c, StoredSame
<1>3. CASE NewLeavePlan(c, r) /\ job' = [job EXCEPT ![c] = plan'[c]] /\ Goto(c, "leaveStore")
  <2>1. /\ UNCHANGED <<rooms, connRooms, presence>> /\ SeenSame(c)
        /\ \A d \in Conns \ {c} : EngineSame(d)
    BY <1>3, PlanEffect DEF RoomsInv, IInv
  <2>2. /\ job'[c].payload = NoPayload /\ job'[c].targets[r] = MemberIDs(c, r, {c})
        /\ \A q \in Rooms \ {r} : job'[c].targets[q] = {}
        /\ \A d \in Conns \ {c} : job'[d] = job[d]
    BY <1>3 DEF NewLeavePlan, NoTargets, RoomsInv, StoreTypes, IInv, TypeOK
  <2>3. Others(c) /\ pc'[c] = "leaveStore"
    <3>1. "leaveStore" \in Stages
      BY DEF Stages, FanStages
    <3>2. QED BY <1>2, <1>3, <1>a, <1>b, <2>1, <2>2, <3>1, OthersStay DEF RoomsInv
  <2>4. SourceOf(c)'
    BY <1>1, <1>2, <1>c, <1>e, <2>1, <2>2, <2>3, OwnSource
       DEF SourceOf, JoinStages, LeaveStages, PresenceStages
  <2>5. Grows(c) /\ Unhanding(c)
    BY <1>1, <2>1 DEF Grows, Unhanding
  <2>6. TargetsOf(c)'
    <3>1. \A q \in Rooms : \A d \in job'[c].targets[q] : NodeOf[d] = NodeOf[c]
      BY <2>2, MembersJoined
    <3>2. \A d \in Conns : NodeOf[d] = NodeOf[c] /\ r \in connRooms'[d] /\ d # c
                           => d \in job'[c].targets[r]
      BY <2>1, <2>2, MembersJoined
    <3>3. pc'[c] \notin PresenceStages /\ pc'[c] \notin EndStages
      BY <2>3 DEF PresenceStages, EndStages
    <3>4. QED BY <1>a, <3>1, <3>2, <3>3 DEF TargetsOf
  <2>7. FanInv'
    BY <1>2, <1>d, <2>3, <2>4, <2>5, <2>6, QuietFan
  <2>8. Quiet(c)
    BY <1>1, <1>2, <2>1, <2>3, StageQuiet DEF JoinStages
  <2>9. QED BY <1>2, <2>3, <2>7, <2>8
<1>4. CASE r \notin connRooms[c] /\ Goto(c, "leaveReply") /\ UNCHANGED <<engineVars, job>>
  <2>2. Others(c) /\ pc'[c] = "leaveReply" /\ SeenSame(c)
    <3>1. "leaveReply" \in Stages
      BY DEF Stages, FanStages
    <3>2. QED BY <1>1, <1>2, <1>4, <1>a, <3>1, StillOthers DEF RoomsInv
  <2>3. SourceOf(c)'
    BY <1>1, <1>2, <1>4, <1>a, <1>c, <1>e, <2>2, OwnSource
       DEF SourceOf, JoinStages, LeaveStages, PresenceStages
  <2>4. Grows(c) /\ Unhanding(c)
    BY <1>1, <2>2 DEF Grows, Unhanding, SeenSame
  <2>5. TargetsOf(c)'
    BY <1>4, <2>2, <2>4, OwnTargets DEF LeaveStages, PresenceStages, EndStages
  <2>6. FanInv'
    BY <1>2, <1>d, <2>2, <2>3, <2>4, <2>5, QuietFan
  <2>7. Quiet(c)
    BY <1>1, <1>2, <2>2, StageQuiet DEF JoinStages
  <2>8. QED BY <1>2, <2>2, <2>6, <2>7
<1>5. QED BY <1>3, <1>4 DEF HandleLeave

\* A presence update has all members of the room for its targets, itself
\* included.
LEMMA HandlePresenceFan ==
  ASSUME RoomsInv, FanInv, NEW c \in Conns, NEW r \in Rooms, NEW p \in Payloads,
         HandlePresence(c, r, p)
  PROVE  FanInv' /\ Quiet(c) /\ pc'[c] # "joinReply" /\ UNCHANGED <<view, snap>>
<1>1. /\ pc[c] = "idle" /\ target' = [target EXCEPT ![c] = r]
      /\ NewPresenceSetPlan(c, r, p) /\ job' = [job EXCEPT ![c] = plan'[c]]
      /\ dropped' = (IF r \in connRooms[c] THEN dropped ELSE dropped \cup {c})
      /\ Goto(c, "presenceStore") /\ "presenceStore" \in Stages
      /\ UNCHANGED <<storeVars, fanVars, conns, down, snap>>
  BY DEF HandlePresence, Start, Stages, FanStages
<1>2. UNCHANGED <<channel, msg, out, view, snap, down, conns>> /\ dropped \subseteq dropped'
  BY <1>1 DEF fanVars
<1>a. target'[c] = r /\ \A d \in Conns \ {c} : target'[d] = target[d]
  BY <1>1 DEF RoomsInv, StoreTypes
<1>b. \A d \in Conns : StoreSame(d)
  BY <1>1 DEF storeVars, StoreSame
<1>c. SourceOf(c) /\ FanTypes
  BY DEF FanInv
<1>d. FanTypes'
  BY <1>2, <1>c, FanTypesStay DEF FanTypes
<1>e. StoredIn(c)
  BY <1>2, <1>b, <1>c, StoredSame
<1>3. /\ UNCHANGED <<rooms, connRooms, presence>> /\ SeenSame(c)
      /\ \A d \in Conns \ {c} : EngineSame(d)
  BY <1>1, PlanEffect DEF RoomsInv, IInv
<1>4. /\ job'[c].payload = p /\ job'[c].targets[r] = MemberIDs(c, r, {})
      /\ \A q \in Rooms \ {r} : job'[c].targets[q] = {}
      /\ \A d \in Conns \ {c} : job'[d] = job[d]
  BY <1>1 DEF NewPresenceSetPlan, NoTargets, RoomsInv, StoreTypes, IInv, TypeOK
<1>5. Others(c) /\ pc'[c] = "presenceStore"
  BY <1>1, <1>2, <1>a, <1>b, <1>3, <1>4, OthersStay DEF RoomsInv
<1>6. SourceOf(c)'
  BY <1>1, <1>2, <1>a, <1>c, <1>e, <1>3, <1>4, <1>5, OwnSource
     DEF SourceOf, JoinStages, LeaveStages, PresenceStages
<1>7. Grows(c) /\ Unhanding(c)
  BY <1>1, <1>3 DEF Grows, Unhanding
<1>8. TargetsOf(c)'
  <2>1. \A q \in Rooms : \A d \in job'[c].targets[q] : NodeOf[d] = NodeOf[c]
    BY <1>4, MembersJoined
  <2>2. \A d \in Conns : NodeOf[d] = NodeOf[c] /\ r \in connRooms'[d] => d \in job'[c].targets[r]
    BY <1>3, <1>4, MembersJoined
  <2>3. pc'[c] \notin LeaveStages /\ pc'[c] \notin EndStages
    BY <1>5 DEF LeaveStages, EndStages
  <2>4. QED BY <1>a, <2>1, <2>2, <2>3 DEF TargetsOf
<1>9. FanInv'
  BY <1>2, <1>d, <1>5, <1>6, <1>7, <1>8, QuietFan
<1>10. Quiet(c)
  BY <1>1, <1>2, <1>3, <1>5, StageQuiet DEF JoinStages
<1>11. QED BY <1>2, <1>5, <1>9, <1>10

\* unregisterConn plans for all rooms of the connection.
LEMMA PlanDisconnectFan ==
  ASSUME RoomsInv, FanInv, NEW c \in Conns, PlanDisconnect(c)
  PROVE  FanInv' /\ Quiet(c) /\ pc'[c] # "joinReply" /\ UNCHANGED <<view, snap>>
<1>1. /\ pc[c] = "closing" /\ NewDisconnectPlan(c) /\ job' = [job EXCEPT ![c] = plan'[c]]
      /\ Goto(c, "disconnect") /\ "disconnect" \in Stages
      /\ UNCHANGED <<storeVars, fanVars, bounds, target, conns, down, snap, dropped>>
  BY DEF PlanDisconnect, Stages, FanStages
<1>2. UNCHANGED <<channel, msg, out, view, snap, down, conns, dropped, target>>
  BY <1>1 DEF fanVars
<1>b. \A d \in Conns : StoreSame(d)
  BY <1>1 DEF storeVars, StoreSame
<1>c. SourceOf(c) /\ FanTypes
  BY DEF FanInv
<1>d. FanTypes'
  BY <1>2, <1>c, FanTypesStay DEF FanTypes
<1>e. StoredIn(c)
  BY <1>2, <1>b, <1>c, StoredSame
<1>3. /\ UNCHANGED <<rooms, connRooms, presence>> /\ SeenSame(c)
      /\ \A d \in Conns \ {c} : EngineSame(d)
  BY <1>1, PlanEffect DEF RoomsInv, IInv
<1>4. /\ job'[c].rooms = connRooms[c]
      /\ \A q \in Rooms : job'[c].targets[q] = IF q \in connRooms[c] THEN MemberIDs(c, q, {c}) ELSE {}
      /\ \A d \in Conns \ {c} : job'[d] = job[d]
  BY <1>1 DEF NewDisconnectPlan, RoomsInv, StoreTypes, IInv, TypeOK
<1>5. Others(c) /\ pc'[c] = "disconnect"
  BY <1>1, <1>2, <1>b, <1>3, <1>4, OthersStay DEF RoomsInv
<1>6. SourceOf(c)'
  BY <1>1, <1>2, <1>c, <1>e, <1>3, <1>4, <1>5, OwnSource
     DEF SourceOf, JoinStages, LeaveStages, PresenceStages
<1>7. Grows(c) /\ Unhanding(c)
  BY <1>1, <1>3 DEF Grows, Unhanding
<1>8. TargetsOf(c)'
  <2>1. \A q \in Rooms : \A d \in job'[c].targets[q] : NodeOf[d] = NodeOf[c]
    BY <1>4, MembersJoined
  <2>2. connRooms[c] \subseteq Rooms
    BY DEF RoomsInv, IInv, TypeOK
  <2>3. \A d \in Conns \ {c} : NodeOf[d] = NodeOf[c] =>
          \A q \in job'[c].rooms : q \in connRooms'[d] => d \in job'[c].targets[q]
    BY <1>3, <1>4, <2>2, MembersJoined
  <2>4. pc'[c] \notin LeaveStages /\ pc'[c] \notin PresenceStages
    BY <1>5 DEF LeaveStages, PresenceStages
  <2>5. QED BY <2>1, <2>3, <2>4 DEF TargetsOf
<1>9. FanInv'
  BY <1>2, <1>d, <1>5, <1>6, <1>7, <1>8, QuietFan
<1>10. Quiet(c)
  BY <1>1, <1>2, <1>3, <1>5, StageQuiet DEF JoinStages
<1>11. QED BY <1>2, <1>5, <1>9, <1>10

\* The engine lets go of a connection whose farewell is now due.
LEMMA DisconnectFan ==
  ASSUME RoomsInv, FanInv, NEW c \in Conns, Disconnect(c)
  PROVE  FanInv' /\ Quiet(c) /\ pc'[c] # "joinReply" /\ UNCHANGED <<view, snap>>
<1>1. /\ pc[c] = "disconnect" /\ ApplyDisconnectPlan(c) /\ Goto(c, "unlink") /\ "unlink" \in Stages
      /\ UNCHANGED <<storeVars, fanVars, bounds, target, job, conns, down, snap, dropped>>
  BY DEF Disconnect, Stages, FanStages
<1>2. UNCHANGED <<channel, msg, out, view, snap, down, conns, dropped, target, job>>
  BY <1>1 DEF fanVars
<1>b. \A d \in Conns : StoreSame(d)
  BY <1>1 DEF storeVars, StoreSame
<1>c. SourceOf(c) /\ FanTypes /\ TypeOK
  BY DEF FanInv, RoomsInv, IInv
<1>d. FanTypes'
  BY <1>2, <1>c, FanTypesStay DEF FanTypes
<1>e. StoredIn(c)
  BY <1>2, <1>b, <1>c, StoredSame
<1>3. connRooms'[c] = {} /\ \A d \in Conns \ {c} : EngineSame(d)
  BY <1>1, <1>c, DisconnectEffect, ApplyEffect
<1>4. \A r \in Rooms : presence'[r][c] = IF r \in connRooms[c] THEN NoPayload ELSE presence[r][c]
  <2>1. plan[c].kind = "disconnect" /\ plan[c].rooms = connRooms[c]
    BY <1>1 DEF ApplyDisconnectPlan, RoomsInv, IInv, PlanCoversMembership
  <2>2. \A r \in Rooms : presence'[r] = IF r \in connRooms[c]
                                        THEN [presence[r] EXCEPT ![c] = NoPayload] ELSE presence[r]
    BY <1>1, <2>1 DEF ApplyDisconnectPlan, RemovePresence
  <2>3. \A r \in Rooms : presence[r] \in [Conns -> Payloads \cup {NoPayload}]
    BY <1>c DEF TypeOK
  <2>4. QED BY <2>2, <2>3
<1>5. Others(c) /\ pc'[c] = "unlink"
  BY <1>1, <1>2, <1>b, <1>3, OthersStay DEF RoomsInv
<1>6. job'[c].rooms = connRooms[c]
  BY <1>1, <1>2, <1>c DEF SourceOf
<1>7. SourceOf(c)'
  <2>1. c \notin dropped' => \A r \in Rooms : presence'[r][c] # NoPayload => r \in connRooms'[c]
    BY <1>2, <1>3, <1>4, <1>c DEF SourceOf
  <2>2. QED BY <1>1, <1>2, <1>3, <1>5, <1>c, <1>e, <2>1
            DEF SourceOf, StoredIn, JoinStages, LeaveStages, PresenceStages
<1>8. Grows(c) /\ Unhanding(c)
  BY <1>1, <1>3 DEF Grows, Unhanding
<1>9. TargetsOf(c)'
  BY <1>1, <1>2, <1>5, <1>8, OwnTargets DEF LeaveStages, PresenceStages, EndStages
<1>10. FanInv'
  BY <1>2, <1>d, <1>5, <1>7, <1>8, <1>9, QuietFan
<1>11. Steady(c) /\ Blind(c) /\ Kept(c)
  BY <1>1, <1>4, <1>5, <1>6 DEF Steady, Blind, Kept, Ahead, Due, Views, FanStages
<1>12. QED BY <1>2, <1>5, <1>10, <1>11 DEF Quiet, Calm

\* The connection leaves Redis.
LEMMA CleanupFan ==
  ASSUME RoomsInv, FanInv, NEW c \in Conns, Cleanup(c)
  PROVE  FanInv' /\ Quiet(c) /\ pc'[c] # "joinReply" /\ UNCHANGED <<view, snap>>
<1>1. /\ pc[c] = "cleanup" /\ CleanupConnection(c) /\ Goto(c, "farewell") /\ "farewell" \in Stages
      /\ UNCHANGED <<engineVars, fanVars, bounds, target, job, conns, down, snap, dropped>>
  BY DEF Cleanup, Stages, FanStages
<1>2. UNCHANGED <<channel, msg, out, view, snap, down, conns, dropped, target, job>>
  BY <1>1 DEF fanVars
<1>a. SourceOf(c) /\ FanTypes
  BY DEF FanInv
<1>c. \A d \in Conns \ {c} : StoreSame(d)
  BY <1>1, CleanupEffect DEF RoomsInv
<1>d. (\A d \in Conns : EngineSame(d)) /\ SeenSame(c)
  BY <1>1 DEF engineVars, EngineSame, SeenSame
<1>3. Others(c) /\ pc'[c] = "farewell"
  BY <1>1, <1>2, <1>c, <1>d, OthersStay DEF RoomsInv
<1>4. StoredIn(c)
  <2>1. \A r \in Rooms : redisPresence'[r] = IF r \in redisConnRooms[c]
                                             THEN [redisPresence[r] EXCEPT ![c] = NoPayload]
                                             ELSE redisPresence[r]
    BY <1>1 DEF CleanupConnection
  <2>2. \A r \in Rooms : redisPresence[r] \in [Conns -> Payloads \cup {NoPayload}]
    BY DEF RoomsInv, StoreTypes
  <2>3. \A r \in Rooms : redisPresence'[r][c] = IF r \in redisConnRooms[c] THEN NoPayload
                                                ELSE redisPresence[r][c]
    BY <2>1, <2>2
  <2>4. QED BY <1>2, <1>a, <2>3 DEF SourceOf, StoredIn
<1>5. SourceOf(c)'
  BY <1>1, <1>2, <1>3, <1>4, <1>a, <1>d, OwnSource DEF SourceOf, JoinStages, LeaveStages, PresenceStages
<1>6. Grows(c) /\ Unhanding(c)
  BY <1>1, <1>d DEF Grows, SeenSame, Unhanding
<1>7. TargetsOf(c)'
  BY <1>1, <1>2, <1>3, <1>6, OwnTargets DEF LeaveStages, PresenceStages, EndStages
<1>8. FanTypes'
  BY <1>2, <1>a, FanTypesStay DEF FanTypes
<1>9. FanInv'
  BY <1>2, <1>3, <1>5, <1>6, <1>7, <1>8, QuietFan
<1>10. Quiet(c)
  BY <1>1, <1>2, <1>3, <1>d, StageQuiet DEF JoinStages
<1>11. QED BY <1>2, <1>3, <1>9, <1>10

\* A Redis call fails: the handler's connection is dropped and closing.
LEMMA StoreFailsFan ==
  ASSUME RoomsInv, FanInv, NEW c \in Conns, StoreFails(c)
  PROVE  FanInv' /\ Quiet(c) /\ pc'[c] # "joinReply" /\ UNCHANGED <<view, snap>>
<1>1. /\ Goto(c, "closing") /\ "closing" \in Stages /\ dropped' = dropped \cup {c}
      /\ UNCHANGED <<engineVars, fanVars, target, job, conns, down, snap>>
  BY DEF StoreFails, Stages, FanStages
<1>2. CASE pc[c] = "joinStore" /\ JoinRoom(c, target[c])
  BY <1>1, <1>2, JoinStoreFan
<1>3. CASE pc[c] = "leaveStore" /\ LeaveRoom(c, target[c])
  BY <1>1, <1>3, LeaveStoreFan
<1>4. CASE pc[c] = "presenceStore" /\ SetPresence(c, target[c], job[c].payload)
  BY <1>1, <1>4, PresenceStoreFan
<1>5. CASE /\ UNCHANGED storeVars
           /\ pc[c] \in {"joinStore", "joinSnapshot", "leaveStore", "presenceStore",
                         "leavePublish", "presencePublish"}
  <2>1. UNCHANGED <<channel, msg, out, view, snap, target, job, conns, down>>
    BY <1>1 DEF fanVars
  <2>2. Others(c) /\ pc'[c] = "closing" /\ StoreSame(c) /\ SeenSame(c)
    BY <1>1, <1>5, <2>1, StillOthers DEF RoomsInv
  <2>3. SourceOf(c) /\ FanTypes /\ StoredIn(c)
    BY <1>1, <2>2, StoredSame DEF FanInv
  <2>4. SourceOf(c)'
    BY <1>1, <1>5, <2>1, <2>2, <2>3, OwnSource DEF SourceOf, JoinStages, LeaveStages, PresenceStages
  <2>5. Grows(c) /\ Unhanding(c)
    BY <1>5, <2>2 DEF Grows, SeenSame, Unhanding
  <2>6. TargetsOf(c)'
    BY <2>1, <2>2, <2>5, OwnTargets DEF LeaveStages, PresenceStages, EndStages
  <2>7. FanTypes'
    BY <2>1, <2>3, FanTypesStay DEF FanTypes
  <2>8. FanInv'
    BY <2>1, <2>2, <2>4, <2>5, <2>6, <2>7, QuietFan
  <2>9. Quiet(c)
    BY <1>1, <2>1, <2>2, StageQuiet
  <2>10. QED BY <2>1, <2>2, <2>8, <2>9
<1>6. QED BY <1>2, <1>3, <1>4, <1>5 DEF StoreFails

\* A step that moves nobody on.
LEMMA PausedOthers ==
  ASSUME FanInv, NEW c \in Conns, UNCHANGED <<engineVars, storeVars, pc, overlap, target>>,
         \A d \in Conns \ {c} : job'[d] = job[d],
         conns \ {c} \subseteq conns', down \subseteq down', dropped \subseteq dropped'
  PROVE  Others(c) /\ pc'[c] = pc[c] /\ \A d \in Conns : StoreSame(d) /\ SeenSame(d)
<1>1. \A d \in Conns : StoreSame(d) /\ EngineSame(d) /\ SeenSame(d)
  BY DEF engineVars, storeVars, StoreSame, EngineSame, SeenSame
<1>2. OverlapsKnown'
  BY DEF FanInv, OverlapsKnown
<1>3. \A d \in Conns \ {c} : LocalSame(d)
  BY DEF LocalSame
<1>4. QED BY <1>1, <1>2, <1>3 DEF Others

\* A room that cannot be told is given up, and remembered.
LEMMA FarewellFailsFan ==
  ASSUME RoomsInv, FanInv, NEW c \in Conns, NEW r \in Rooms, FarewellFails(c, r)
  PROVE  FanInv' /\ Quiet(c) /\ pc'[c] # "joinReply" /\ UNCHANGED <<view, snap>>
<1>1. /\ pc[c] = "farewell" /\ out[c] = {} /\ dropped' = dropped \cup {c}
      /\ job' = [job EXCEPT ![c].rooms = job[c].rooms \ {r}]
      /\ UNCHANGED <<engineVars, storeVars, fanVars, pc, overlap, target, conns, down, snap>>
  BY DEF FarewellFails
<1>2. UNCHANGED <<channel, msg, out, view, snap, target, conns, down>>
  BY <1>1 DEF fanVars
<1>a. /\ job'[c].targets = job[c].targets /\ job'[c].rooms \subseteq job[c].rooms
      /\ \A d \in Conns \ {c} : job'[d] = job[d]
  BY <1>1 DEF RoomsInv, StoreTypes, Plan
<1>3. Others(c) /\ pc'[c] = "farewell" /\ StoreSame(c) /\ SeenSame(c)
  BY <1>1, <1>2, <1>a, PausedOthers
<1>4. SourceOf(c) /\ FanTypes /\ StoredIn(c)
  BY <1>1, <1>3, StoredSame DEF FanInv
<1>5. SourceOf(c)'
  BY <1>1, <1>2, <1>3, <1>4, OwnSource DEF SourceOf, JoinStages, LeaveStages, PresenceStages
<1>6. Grows(c) /\ Unhanding(c)
  BY <1>1, <1>3 DEF Grows, SeenSame, Unhanding
<1>7. TargetsOf(c)'
  BY <1>1, <1>2, <1>3, <1>6, <1>a, OwnTargets DEF LeaveStages, PresenceStages, EndStages
<1>8. FanTypes'
  BY <1>1, <1>2, <1>4, FanTypesStay DEF FanTypes
<1>9. FanInv'
  BY <1>2, <1>3, <1>5, <1>6, <1>7, <1>8, QuietFan
<1>10. Quiet(c)
  BY <1>1, <1>2, <1>3, StageQuiet
<1>11. QED BY <1>2, <1>3, <1>9, <1>10

\* handleJoin reads what Redis has of the room.
LEMMA JoinSnapshotFan ==
  ASSUME RoomsInv, FanInv, NEW c \in Conns, JoinSnapshot(c)
  PROVE  /\ FanInv' /\ Quiet(c) /\ UNCHANGED view /\ target[c] \in Rooms
         /\ pc[c] = "joinSnapshot" /\ target'[c] = target[c]
         /\ snap'[c] = SnapshotRoom(target[c]) /\ \A d \in Conns \ {c} : snap'[d] = snap[d]
<1>1. /\ pc[c] = "joinSnapshot" /\ Goto(c, "joinReply") /\ "joinReply" \in Stages
      /\ snap' = [snap EXCEPT ![c] = SnapshotRoom(target[c])]
      /\ UNCHANGED <<engineVars, storeVars, fanVars, bounds, target, job, conns, down, dropped>>
  BY DEF JoinSnapshot, Stages, JoinStages
<1>2. UNCHANGED <<channel, msg, out, view, down, target, job, conns, dropped>>
  BY <1>1 DEF fanVars
<1>3. Others(c) /\ pc'[c] = "joinReply" /\ StoreSame(c) /\ SeenSame(c)
  BY <1>1, <1>2, StillOthers DEF RoomsInv
<1>4. SourceOf(c) /\ FanTypes /\ StoredIn(c)
  BY <1>2, <1>3, StoredSame DEF FanInv
<1>5. SourceOf(c)'
  BY <1>1, <1>2, <1>3, <1>4, OwnSource DEF SourceOf, JoinStages, LeaveStages, PresenceStages
<1>6. Grows(c) /\ Unhanding(c)
  BY <1>1, <1>3 DEF Grows, SeenSame, Unhanding
<1>7. TargetsOf(c)'
  BY <1>2, <1>3, <1>6, OwnTargets DEF LeaveStages, PresenceStages, EndStages
<1>8. target[c] \in Rooms
  BY <1>1, <1>4 DEF SourceOf, JoinStages, RoomsInv, IInv, TypeOK
<1>9. SnapshotRoom(target[c]) \in View
  BY <1>8 DEF SnapshotRoom, View, RoomsInv, StoreTypes
<1>10. FanTypes' /\ snap'[c] = SnapshotRoom(target[c]) /\ \A d \in Conns \ {c} : snap'[d] = snap[d]
  <2> DEFINE s == SnapshotRoom(target[c])
  <2> HIDE DEF s
  <2>1. snap' = [snap EXCEPT ![c] = s] /\ s \in View
    BY <1>1, <1>9 DEF s
  <2>2. snap' \in [Conns -> View] /\ snap'[c] = s /\ \A d \in Conns \ {c} : snap'[d] = snap[d]
    BY <1>4, <2>1 DEF FanTypes
  <2>3. QED BY <1>2, <1>4, <2>2 DEF FanTypes, s
<1>11. FanInv'
  BY <1>2, <1>3, <1>5, <1>6, <1>7, <1>10, QuietFan
<1>12. Quiet(c)
  BY <1>1, <1>2, <1>3, StageQuiet DEF JoinStages
<1>13. QED BY <1>1, <1>2, <1>3, <1>8, <1>10, <1>11, <1>12

\* The handler's own reply is in the client's view of the room, unless the
\* socket has closed.
LEMMA AnswerViews ==
  ASSUME FanTypes, NEW c \in Conns, NEW v \in View, Answer(c, v)
  PROVE  /\ view' \in [Conns -> [Rooms -> View]]
         /\ \A d \in Conns, r \in Rooms :
              view'[d][r] = IF d = c /\ r = target[c] /\ c \notin down THEN v ELSE view[d][r]
<1>1. CASE c \notin down
  <2>1. view' = [view EXCEPT ![c] = [view[c] EXCEPT ![target[c]] = v]]
    BY <1>1 DEF Answer
  <2>2. view[c] \in [Rooms -> View] /\ view \in [Conns -> [Rooms -> View]]
    BY DEF FanTypes
  <2>3. PICK w : w = [view[c] EXCEPT ![target[c]] = v]
    OBVIOUS
  <2>4. w \in [Rooms -> View] /\ \A r \in Rooms : w[r] = IF r = target[c] THEN v ELSE view[c][r]
    BY <2>2, <2>3
  <2>5. view' = [view EXCEPT ![c] = w]
    BY <2>1, <2>3
  <2>6. QED BY <1>1, <2>2, <2>4, <2>5
<1>2. CASE c \in down
  BY <1>2 DEF Answer, FanTypes
<1>3. QED BY <1>1, <1>2

\* The empty view.
LEMMA EmptyViewIsView == EmptyView \in View
BY DEF EmptyView, View

\* JOINED: the client shows the snapshot.
LEMMA JoinReplyFan ==
  ASSUME RoomsInv, FanInv, NEW c \in Conns, JoinReply(c)
  PROVE  /\ FanInv' /\ Calm(c) /\ pc[c] = "joinReply" /\ pc'[c] # "joinReply"
         /\ \A d \in Conns \ {c} : snap'[d] = snap[d]
         /\ \A r \in Rooms : Views(c, r)' => c \notin down /\ (Views(c, r) \/ r = target[c])
         /\ \A d \in Conns, r \in Rooms :
              view'[d][r] = IF d = c /\ r = target[c] /\ c \notin down THEN snap[c] ELSE view[d][r]
<1>1. /\ pc[c] = "joinReply" /\ Answer(c, snap[c]) /\ snap' = [snap EXCEPT ![c] = EmptyView]
      /\ UNCHANGED <<engineVars, storeVars, channel, msg, out, bounds, target, job, conns, down, dropped>>
  BY DEF JoinReply
<1>2. UNCHANGED <<channel, msg, out, down, target, job, conns, dropped>>
  BY <1>1
<1>a. PICK t \in {"idle", "closing"} : Goto(c, t)
  BY <1>1 DEF Answer
<1>b. t \in Stages
  BY DEF Stages, FanStages
<1>3. Others(c) /\ pc'[c] = t /\ StoreSame(c) /\ SeenSame(c)
  BY <1>1, <1>2, <1>a, <1>b, StillOthers DEF RoomsInv
<1>4. SourceOf(c) /\ FanTypes /\ StoredIn(c)
  BY <1>2, <1>3, StoredSame DEF FanInv
<1>5. SourceOf(c)'
  BY <1>1, <1>2, <1>3, <1>4, OwnSource DEF SourceOf, JoinStages, LeaveStages, PresenceStages
<1>6. Grows(c) /\ Unhanding(c)
  BY <1>1, <1>3 DEF Grows, SeenSame, Unhanding
<1>7. TargetsOf(c)'
  BY <1>2, <1>3, <1>6, OwnTargets DEF LeaveStages, PresenceStages, EndStages
<1>8. snap[c] \in View
  BY <1>4 DEF FanTypes
<1>9. /\ view' \in [Conns -> [Rooms -> View]]
      /\ \A d \in Conns, r \in Rooms :
           view'[d][r] = IF d = c /\ r = target[c] /\ c \notin down THEN snap[c] ELSE view[d][r]
  BY <1>1, <1>4, <1>8, AnswerViews
<1>10. FanTypes' /\ \A d \in Conns \ {c} : snap'[d] = snap[d]
  <2>1. snap' \in [Conns -> View] /\ \A d \in Conns \ {c} : snap'[d] = snap[d]
    BY <1>1, <1>4, EmptyViewIsView DEF FanTypes
  <2>2. QED BY <1>2, <1>4, <1>9, <2>1 DEF FanTypes
<1>11. FanInv'
  BY <1>2, <1>3, <1>5, <1>6, <1>7, <1>10, QuietFan
<1>12. Calm(c)
  BY <1>1, <1>2, <1>3 DEF Calm, Steady, Kept, SeenSame, Ahead, Due
<1>13. \A r \in Rooms : Views(c, r)' => c \notin down /\ (Views(c, r) \/ r = target[c])
  BY <1>1, <1>2, <1>3 DEF Views, SeenSame, JoinStages
<1>14. QED BY <1>1, <1>3, <1>9, <1>10, <1>11, <1>12, <1>13

\* LEFT empties the view of a room that is not joined; a presence update
\* ends with its fan-out.
LEMMA ReplyFan ==
  ASSUME RoomsInv, FanInv, NEW c \in Conns, Reply(c)
  PROVE  /\ FanInv' /\ Quiet(c) /\ pc'[c] # "joinReply" /\ UNCHANGED snap
         /\ \A d \in Conns, r \in Rooms : Views(d, r)' => view'[d][r] = view[d][r]
<1>1. /\ pc[c] \in {"presenceReply", "leaveReply"} /\ out[c] = {}
      /\ job' = [job EXCEPT ![c] = NoPlan]
      /\ UNCHANGED <<engineVars, storeVars, channel, msg, out, bounds, target, conns, down, snap, dropped>>
      /\ \/ pc[c] = "presenceReply" /\ Goto(c, "idle") /\ UNCHANGED view
         \/ pc[c] = "leaveReply" /\ Answer(c, EmptyView)
  BY DEF Reply
<1>2. UNCHANGED <<channel, msg, out, down, target, conns, dropped, snap>>
  BY <1>1
<1>a. PICK t \in {"idle", "closing"} : Goto(c, t)
  BY <1>1 DEF Answer
<1>b. t \in Stages
  BY DEF Stages, FanStages
<1>c. job'[c] = NoPlan /\ \A d \in Conns \ {c} : job'[d] = job[d]
  BY <1>1 DEF RoomsInv, StoreTypes
<1>3. Others(c) /\ pc'[c] = t /\ StoreSame(c) /\ SeenSame(c)
  BY <1>1, <1>2, <1>a, <1>b, <1>c, StillOthers DEF RoomsInv
<1>4. SourceOf(c) /\ FanTypes /\ StoredIn(c)
  BY <1>2, <1>3, StoredSame DEF FanInv
<1>5. SourceOf(c)'
  BY <1>1, <1>2, <1>3, <1>4, OwnSource DEF SourceOf, JoinStages, LeaveStages, PresenceStages
<1>6. Grows(c) /\ Unhanding(c)
  BY <1>1, <1>3 DEF Grows, SeenSame, Unhanding
<1>7. TargetsOf(c)'
  BY <1>3, <1>c, OverTargets DEF LeaveStages, PresenceStages, EndStages
<1>8. /\ view' \in [Conns -> [Rooms -> View]]
      /\ \A d \in Conns, r \in Rooms :
           view'[d][r] # view[d][r] => d = c /\ r = target[c] /\ pc[c] = "leaveReply"
  <2>1. CASE UNCHANGED view
    BY <1>4, <2>1 DEF FanTypes
  <2>2. CASE pc[c] = "leaveReply" /\ Answer(c, EmptyView)
    BY <1>4, <2>2, AnswerViews, EmptyViewIsView
  <2>3. QED BY <1>1, <2>1, <2>2
<1>9. FanTypes'
  BY <1>2, <1>4, <1>8 DEF FanTypes
<1>10. FanInv'
  BY <1>2, <1>3, <1>5, <1>6, <1>7, <1>9, QuietFan
<1>11. Quiet(c)
  BY <1>1, <1>2, <1>3, StageQuiet DEF JoinStages
<1>12. \A d \in Conns, r \in Rooms : Views(d, r)' => view'[d][r] = view[d][r]
  BY <1>2, <1>3, <1>4, <1>8 DEF Views, SeenSame, SourceOf
<1>13. QED BY <1>2, <1>3, <1>10, <1>11, <1>12

-----------------------------------------------------------------------------
(* Steps that publish, resolve and enqueue.                                *)

\* Every other node has one event more to hear, behind those it had.
LEMMA PublishEffect ==
  ASSUME channel \in [Nodes -> Seq(PresenceEvent)], NEW c \in Conns, NEW r \in Rooms,
         NEW s \in Payloads \cup {NoPayload}, PublishPresence(c, r, s)
  PROVE  /\ channel' \in [Nodes -> Seq(PresenceEvent)]
         /\ \A n \in Nodes : n = NodeOf[c] => channel'[n] = channel[n]
         /\ \A n \in Nodes : n # NodeOf[c] =>
              /\ Len(channel'[n]) = Len(channel[n]) + 1
              /\ \A i \in 1..Len(channel[n]) : channel'[n][i] = channel[n][i]
              /\ channel'[n][Len(channel[n]) + 1] = [conn |-> c, room |-> r, state |-> s]
<1>1. PICK e : e = [conn |-> c, room |-> r, state |-> s]
  OBVIOUS
<1>2. e \in PresenceEvent
  BY <1>1 DEF PresenceEvent
<1>3. channel' = [n \in Nodes |-> IF n = NodeOf[c] THEN channel[n] ELSE Append(channel[n], e)]
  BY <1>1 DEF PublishPresence
<1>4. \A n \in Nodes : Append(channel[n], e) \in Seq(PresenceEvent)
  BY <1>2
<1>5. ASSUME NEW n \in Nodes, n # NodeOf[c]
      PROVE  /\ Len(channel'[n]) = Len(channel[n]) + 1
             /\ \A i \in 1..Len(channel[n]) : channel'[n][i] = channel[n][i]
             /\ channel'[n][Len(channel[n]) + 1] = e
  <2>1. channel'[n] = Append(channel[n], e) /\ channel[n] \in Seq(PresenceEvent)
    BY <1>3, <1>5
  <2>2. QED BY <1>2, <2>1
<1>6. QED BY <1>1, <1>3, <1>4, <1>5

\* A node takes the first event off its channel.
LEMMA TailEffect ==
  ASSUME channel \in [Nodes -> Seq(PresenceEvent)], NEW n \in Nodes, channel[n] # << >>,
         channel' = [channel EXCEPT ![n] = Tail(channel[n])]
  PROVE  /\ channel' \in [Nodes -> Seq(PresenceEvent)]
         /\ \A m \in Nodes \ {n} : channel'[m] = channel[m]
         /\ Len(channel[n]) \in Nat /\ Len(channel[n]) >= 1 /\ Len(channel'[n]) = Len(channel[n]) - 1
         /\ \A i \in 1..Len(channel'[n]) : channel'[n][i] = channel[n][i + 1]
         /\ Head(channel[n]) = channel[n][1] /\ channel[n][1] \in PresenceEvent
<1>1. channel[n] \in Seq(PresenceEvent) /\ channel[n] # << >>
  OBVIOUS
<1>2. /\ Tail(channel[n]) \in Seq(PresenceEvent) /\ Len(channel[n]) \in Nat
      /\ Len(channel[n]) >= 1 /\ Len(Tail(channel[n])) = Len(channel[n]) - 1
      /\ \A i \in 1..Len(Tail(channel[n])) : Tail(channel[n])[i] = channel[n][i + 1]
      /\ Head(channel[n]) = channel[n][1] /\ channel[n][1] \in PresenceEvent
  BY <1>1
<1>3. channel' \in [Nodes -> Seq(PresenceEvent)] /\ channel'[n] = Tail(channel[n])
  BY <1>2
<1>4. QED BY <1>2, <1>3

\* A connection's own node does not hear what it publishes.
LEMMA ForeignGrows ==
  ASSUME FanTypes, ForeignOnly, NEW c \in Conns, NEW e, e.conn = c,
         \A n \in Nodes : n = NodeOf[c] => channel'[n] = channel[n],
         \A n \in Nodes : n # NodeOf[c] =>
           /\ Len(channel'[n]) = Len(channel[n]) + 1
           /\ \A i \in 1..Len(channel[n]) : channel'[n][i] = channel[n][i]
           /\ channel'[n][Len(channel[n]) + 1] = e
  PROVE  ForeignOnly'
<1> SUFFICES ASSUME NEW n \in Nodes, NEW i \in 1..Len(channel'[n])
             PROVE  NodeOf[channel'[n][i].conn] # n
  BY DEF ForeignOnly
<1>1. CASE n = NodeOf[c]
  BY <1>1 DEF ForeignOnly
<1>2. CASE n # NodeOf[c]
  <2>1. Len(channel[n]) \in Nat
    BY DEF FanTypes
  <2>2. CASE i = Len(channel[n]) + 1
    BY <1>2, <2>2
  <2>3. CASE i # Len(channel[n]) + 1
    <3>1. i \in 1..Len(channel[n])
      BY <1>2, <2>1, <2>3
    <3>2. QED BY <1>2, <3>1 DEF ForeignOnly
  <2>4. QED BY <2>2, <2>3
<1>3. QED BY <1>1, <1>2

\* Only a connection and what it hands out move.
LEMMA FanStep ==
  ASSUME FanInv, NEW c \in Conns, Others(c), Grows(c), FanTypes', ForeignOnly',
         SourceOf(c)', TargetsOf(c)', HandsOf(c)',
         \A p \in Procs \ {c} : msg'[p] = msg[p] /\ out'[p] = out[p]
  PROVE  FanInv'
<1>1. \A x \in Conns : SourceOf(x)' /\ TargetsOf(x)'
  <2>1. \A x \in Conns \ {c} : SourceOf(x)' /\ TargetsOf(x)'
    BY FanOthers
  <2>2. QED BY <2>1
<1>2. ASSUME NEW p \in Procs \ {c} PROVE HandsOf(p)'
  <2>1. HandsOf(p)
    BY DEF FanInv
  <2>2. p \in Conns => pc'[p] = pc[p]
    BY DEF Others, LocalSame
  <2>3. QED BY <2>1, <2>2 DEF HandsOf
<1>3. OverlapsKnown'
  BY DEF Others
<1>4. QED BY <1>1, <1>2, <1>3 DEF FanInv

\* What Publish changes.
LEMMA PublishOthers ==
  ASSUME RoomsInv, FanInv, NEW c \in Conns, Publish(c)
  PROVE  /\ Others(c) /\ StoreSame(c) /\ SeenSame(c)
         /\ UNCHANGED <<msg, out, view, snap, down, conns, dropped, target, job>>
         /\ PublishPresence(c, target[c], job[c].payload)
         /\ \/ pc[c] = "leavePublish" /\ pc'[c] = "leaveApply"
            \/ pc[c] = "presencePublish" /\ pc'[c] = "presenceApply"
         /\ target[c] \in Rooms /\ job[c].payload \in Payloads \cup {NoPayload}
<1>1. /\ UNCHANGED <<engineVars, storeVars, msg, out, view, bounds,
                     target, job, conns, down, snap, dropped>>
      /\ PublishPresence(c, target[c], job[c].payload)
  BY DEF Publish
<1>2. /\ "leaveApply" \in Stages /\ "presenceApply" \in Stages
      /\ UNCHANGED <<msg, out, view, snap, down, conns, dropped, target, job>>
  BY <1>1 DEF Stages, FanStages
<1>3. PICK s \in {"leaveApply", "presenceApply"} :
        /\ Goto(c, s)
        /\ \/ pc[c] = "leavePublish" /\ s = "leaveApply"
           \/ pc[c] = "presencePublish" /\ s = "presenceApply"
  BY DEF Publish
<1>4. Others(c) /\ pc'[c] = s /\ StoreSame(c) /\ SeenSame(c)
  BY <1>1, <1>2, <1>3, StillOthers DEF RoomsInv
<1>5. target[c] \in Rooms /\ job[c].payload \in Payloads \cup {NoPayload}
  BY <1>3 DEF RoomsInv, IInv, TypeOK, StoreTypes, Plan, StoreFollows, StoreOf
<1>6. QED BY <1>1, <1>2, <1>3, <1>4, <1>5

\* The other nodes are told before the engine of the connection's own.
LEMMA PublishFan ==
  ASSUME RoomsInv, FanInv, NEW c \in Conns, Publish(c)
  PROVE  FanInv'
<1>1. /\ Others(c) /\ StoreSame(c) /\ SeenSame(c)
      /\ UNCHANGED <<msg, out, view, snap, down, conns, dropped, target, job>>
      /\ PublishPresence(c, target[c], job[c].payload)
      /\ \/ pc[c] = "leavePublish" /\ pc'[c] = "leaveApply"
         \/ pc[c] = "presencePublish" /\ pc'[c] = "presenceApply"
      /\ target[c] \in Rooms /\ job[c].payload \in Payloads \cup {NoPayload}
  BY PublishOthers
<1>2. SourceOf(c) /\ FanTypes /\ StoredIn(c) /\ ForeignOnly /\ HandsOf(c)
  BY <1>1, StoredSame DEF FanInv, Procs
<1>3. SourceOf(c)'
  BY <1>1, <1>2, OwnSource DEF SourceOf, JoinStages, LeaveStages, PresenceStages
<1>4. Grows(c)
  BY <1>1 DEF Grows, SeenSame
<1>5. TargetsOf(c)'
  BY <1>1, <1>4, OwnTargets DEF LeaveStages, PresenceStages, EndStages
<1>6. /\ channel' \in [Nodes -> Seq(PresenceEvent)]
      /\ \A n \in Nodes : n = NodeOf[c] => channel'[n] = channel[n]
      /\ \A n \in Nodes : n # NodeOf[c] =>
           /\ Len(channel'[n]) = Len(channel[n]) + 1
           /\ \A i \in 1..Len(channel[n]) : channel'[n][i] = channel[n][i]
           /\ channel'[n][Len(channel[n]) + 1] = [conn |-> c, room |-> target[c], state |-> job[c].payload]
  BY <1>1, <1>2, PublishEffect DEF FanTypes
<1>7. FanTypes'
  BY <1>1, <1>2, <1>6 DEF FanTypes
<1>8. ForeignOnly'
  <2>1. PICK e : e = [conn |-> c, room |-> target[c], state |-> job[c].payload]
    OBVIOUS
  <2>2. e.conn = c
    BY <2>1
  <2>3. QED BY <1>2, <1>6, <2>1, <2>2, ForeignGrows
<1>9. HandsOf(c)'
  BY <1>1, <1>2 DEF HandsOf
<1>10. \A p \in Procs \ {c} : msg'[p] = msg[p] /\ out'[p] = out[p]
  BY <1>1
<1>11. QED BY <1>1, <1>3, <1>4, <1>5, <1>7, <1>8, <1>9, <1>10, FanStep

\* A goroutine takes up an event and its targets that have a socket.
LEMMA ResolveEffect ==
  ASSUME FanTypes, NEW p \in Procs, NEW c, NEW r, NEW s, NEW targets, Resolve(p, c, r, s, targets)
  PROVE  /\ msg'[p] = [conn |-> c, room |-> r, state |-> s] /\ out'[p] = targets \cap conns
         /\ \A q \in Procs \ {p} : msg'[q] = msg[q] /\ out'[q] = out[q]
         /\ DOMAIN msg' = Procs
         /\ targets \subseteq Conns => out' \in [Procs -> SUBSET Conns]
<1>1. PICK e : e = [conn |-> c, room |-> r, state |-> s]
  OBVIOUS
<1>2. msg' = [msg EXCEPT ![p] = e] /\ out' = [out EXCEPT ![p] = targets \cap conns]
  BY <1>1 DEF Resolve
<1>3. DOMAIN msg' = Procs /\ msg'[p] = e /\ \A q \in Procs \ {p} : msg'[q] = msg[q]
  BY <1>2 DEF FanTypes
<1>4. /\ out'[p] = targets \cap conns /\ \A q \in Procs \ {p} : out'[q] = out[q]
      /\ targets \subseteq Conns => out' \in [Procs -> SUBSET Conns]
  BY <1>2 DEF FanTypes
<1>5. QED BY <1>1, <1>3, <1>4

\* What Apply changes.
LEMMA ApplyOthers ==
  ASSUME RoomsInv, FanInv, NEW c \in Conns, Apply(c)
  PROVE  /\ Others(c) /\ StoreSame(c) /\ Grows(c)
         /\ UNCHANGED <<channel, view, snap, down, conns, dropped, target, job>>
         /\ Resolve(c, c, target[c], job[c].payload, job[c].targets[target[c]])
         /\ \/ pc[c] = "leaveApply" /\ pc'[c] = "leaveReply" /\ connRooms'[c] = connRooms[c] \ {target[c]}
            \/ pc[c] = "presenceApply" /\ pc'[c] = "presenceReply" /\ connRooms'[c] = connRooms[c]
         /\ \A r \in Rooms : presence'[r][c] = IF r = target[c] THEN job[c].payload ELSE presence[r][c]
         /\ target[c] \in Rooms /\ job[c].payload \in Payloads \cup {NoPayload}
<1>1. /\ UNCHANGED <<storeVars, channel, view, bounds, target, job, conns, down, snap, dropped>>
      /\ Resolve(c, c, target[c], job[c].payload, job[c].targets[target[c]])
  BY DEF Apply
<1>2. /\ "leaveReply" \in Stages /\ "presenceReply" \in Stages
      /\ UNCHANGED <<channel, view, snap, down, conns, dropped, target, job>>
  BY <1>1 DEF Stages, FanStages
<1>a. TypeOK /\ StoreOf(c) /\ SourceOf(c) /\ job[c] \in Plan
  BY DEF RoomsInv, IInv, StoreFollows, StoreTypes, FanInv
<1>b. \A d \in Conns : StoreSame(d)
  BY <1>1 DEF storeVars, StoreSame
<1>3. CASE pc[c] = "leaveApply" /\ ApplyLeavePlan(c) /\ Goto(c, "leaveReply")
  <2>1. /\ connRooms'[c] = connRooms[c] \ plan[c].rooms
        /\ \A r \in Rooms : presence'[r][c] =
             IF r \in plan[c].rooms \cap connRooms[c] THEN NoPayload ELSE presence[r][c]
        /\ \A d \in Conns \ {c} : EngineSame(d)
    BY <1>3, <1>a, ApplyEffect
  <2>2. plan[c].rooms = {target[c]} /\ target[c] \in connRooms[c] /\ target[c] \in Rooms
    BY <1>3, <1>a DEF StoreOf, TypeOK
  <2>3. job[c].payload = NoPayload
    BY <1>3, <1>a DEF SourceOf, LeaveStages
  <2>4. Others(c) /\ pc'[c] = "leaveReply"
    BY <1>2, <1>3, <1>b, <2>1, OthersStay DEF RoomsInv
  <2>5. QED BY <1>1, <1>2, <1>3, <1>b, <2>1, <2>2, <2>3, <2>4 DEF Grows
<1>4. CASE pc[c] = "presenceApply" /\ ApplyPresenceSetPlan(c) /\ Goto(c, "presenceReply")
  <2>1. /\ connRooms' = connRooms
        /\ \A r \in Rooms : presence'[r][c] =
             IF r \in plan[c].rooms THEN plan[c].payload ELSE presence[r][c]
        /\ \A d \in Conns \ {c} : EngineSame(d)
    BY <1>4, <1>a, ApplyEffect
  <2>2. plan[c].rooms = {target[c]} /\ plan[c].payload = job[c].payload /\ target[c] \in Rooms
    BY <1>4, <1>a DEF StoreOf
  <2>3. job[c].payload \in Payloads \cup {NoPayload}
    BY <1>a DEF Plan
  <2>4. Others(c) /\ pc'[c] = "presenceReply"
    BY <1>2, <1>4, <1>b, <2>1, OthersStay DEF RoomsInv
  <2>5. QED BY <1>1, <1>2, <1>4, <1>b, <2>1, <2>2, <2>3, <2>4 DEF Grows
<1>5. QED BY <1>3, <1>4 DEF Apply

\* The plan's targets are told, each on the node of the connection.
LEMMA ApplyFan ==
  ASSUME RoomsInv, FanInv, NEW c \in Conns, Apply(c)
  PROVE  FanInv'
<1>1. /\ Others(c) /\ StoreSame(c) /\ Grows(c)
      /\ UNCHANGED <<channel, view, snap, down, conns, dropped, target, job>>
      /\ Resolve(c, c, target[c], job[c].payload, job[c].targets[target[c]])
      /\ \/ pc[c] = "leaveApply" /\ pc'[c] = "leaveReply" /\ connRooms'[c] = connRooms[c] \ {target[c]}
         \/ pc[c] = "presenceApply" /\ pc'[c] = "presenceReply" /\ connRooms'[c] = connRooms[c]
      /\ \A r \in Rooms : presence'[r][c] = IF r = target[c] THEN job[c].payload ELSE presence[r][c]
      /\ target[c] \in Rooms /\ job[c].payload \in Payloads \cup {NoPayload}
  BY ApplyOthers
<1>2. /\ SourceOf(c) /\ TargetsOf(c) /\ FanTypes /\ StoredIn(c) /\ ForeignOnly
      /\ c \in Procs /\ c \notin Nodes
  BY <1>1, StoredSame, RuntimeAssumption DEF FanInv, Procs
<1>3. /\ msg'[c] = [conn |-> c, room |-> target[c], state |-> job[c].payload]
      /\ out'[c] = job[c].targets[target[c]] \cap conns
      /\ \A q \in Procs \ {c} : msg'[q] = msg[q] /\ out'[q] = out[q]
      /\ DOMAIN msg' = Procs /\ out' \in [Procs -> SUBSET Conns]
  <2>1. job[c].targets[target[c]] \subseteq Conns
    BY <1>1 DEF RoomsInv, StoreTypes, Plan
  <2>2. QED BY <1>1, <1>2, <2>1, ResolveEffect
<1>5. SourceOf(c)'
  <2>1. c \notin dropped' => \A r \in Rooms : presence'[r][c] # NoPayload => r \in connRooms'[c]
    BY <1>1, <1>2 DEF SourceOf, LeaveStages, PresenceStages
  <2>2. QED BY <1>1, <1>2, <2>1 DEF SourceOf, StoredIn, JoinStages, LeaveStages, PresenceStages
<1>6. TargetsOf(c)'
  BY <1>1, OwnTargets DEF LeaveStages, PresenceStages, EndStages
<1>7. FanTypes'
  BY <1>1, <1>2, <1>3 DEF FanTypes
<1>8. ForeignOnly'
  BY <1>1, <1>2 DEF ForeignOnly
<1>9. HandsOf(c)'
  <2>1. msg'[c] \in PresenceEvent
    BY <1>1, <1>3 DEF PresenceEvent
  <2>2. \A d \in out'[c] : NodeOf[d] = NodeOf[c]
    BY <1>1, <1>2, <1>3 DEF TargetsOf
  <2>3. QED BY <1>1, <1>2, <1>3, <2>1, <2>2 DEF HandsOf
<1>10. QED BY <1>1, <1>3, <1>5, <1>6, <1>7, <1>8, <1>9, FanStep

\* What Farewell changes.
LEMMA FarewellOthers ==
  ASSUME RoomsInv, FanInv, NEW c \in Conns, NEW r \in Rooms, Farewell(c, r)
  PROVE  /\ Others(c) /\ StoreSame(c) /\ SeenSame(c) /\ Grows(c)
         /\ pc[c] = "farewell" /\ pc'[c] = "farewell" /\ out[c] = {} /\ r \in job[c].rooms
         /\ UNCHANGED <<view, snap, down, conns, dropped, target>>
         /\ PublishPresence(c, r, NoPayload) /\ Resolve(c, c, r, NoPayload, job[c].targets[r])
         /\ job'[c].targets = job[c].targets /\ job'[c].rooms = job[c].rooms \ {r}
<1>1. /\ pc[c] = "farewell" /\ out[c] = {} /\ r \in job[c].rooms
      /\ job' = [job EXCEPT ![c].rooms = job[c].rooms \ {r}]
      /\ PublishPresence(c, r, NoPayload) /\ Resolve(c, c, r, NoPayload, job[c].targets[r])
      /\ UNCHANGED <<engineVars, storeVars, view, bounds, pc, overlap, target, conns, down, snap, dropped>>
  BY DEF Farewell
<1>2. /\ job'[c].targets = job[c].targets /\ job'[c].rooms = job[c].rooms \ {r}
      /\ \A d \in Conns \ {c} : job'[d] = job[d]
  BY <1>1 DEF RoomsInv, StoreTypes, Plan
<1>3. Others(c) /\ pc'[c] = pc[c] /\ StoreSame(c) /\ SeenSame(c)
  BY <1>1, <1>2, PausedOthers
<1>4. QED BY <1>1, <1>2, <1>3 DEF Grows, SeenSame

\* The next room is told.
LEMMA FarewellFan ==
  ASSUME RoomsInv, FanInv, NEW c \in Conns, NEW r \in Rooms, Farewell(c, r)
  PROVE  FanInv'
<1>1. /\ Others(c) /\ StoreSame(c) /\ SeenSame(c) /\ Grows(c)
      /\ pc[c] = "farewell" /\ pc'[c] = "farewell" /\ out[c] = {} /\ r \in job[c].rooms
      /\ UNCHANGED <<view, snap, down, conns, dropped, target>>
      /\ PublishPresence(c, r, NoPayload) /\ Resolve(c, c, r, NoPayload, job[c].targets[r])
      /\ job'[c].targets = job[c].targets /\ job'[c].rooms = job[c].rooms \ {r}
  BY FarewellOthers
<1>2. /\ SourceOf(c) /\ TargetsOf(c) /\ FanTypes /\ StoredIn(c) /\ ForeignOnly
      /\ c \in Procs /\ c \notin Nodes
  BY <1>1, StoredSame, RuntimeAssumption DEF FanInv, Procs
<1>3. /\ msg'[c] = [conn |-> c, room |-> r, state |-> NoPayload]
      /\ out'[c] = job[c].targets[r] \cap conns
      /\ \A q \in Procs \ {c} : msg'[q] = msg[q] /\ out'[q] = out[q]
      /\ DOMAIN msg' = Procs /\ out' \in [Procs -> SUBSET Conns]
  <2>1. job[c].targets[r] \subseteq Conns
    BY <1>1 DEF RoomsInv, StoreTypes, Plan
  <2>2. QED BY <1>1, <1>2, <2>1, ResolveEffect
<1>5. SourceOf(c)'
  BY <1>1, <1>2, OwnSource DEF SourceOf, JoinStages, LeaveStages, PresenceStages
<1>6. TargetsOf(c)'
  BY <1>1, OwnTargets DEF LeaveStages, PresenceStages, EndStages
<1>7. /\ channel' \in [Nodes -> Seq(PresenceEvent)]
      /\ \A n \in Nodes : n = NodeOf[c] => channel'[n] = channel[n]
      /\ \A n \in Nodes : n # NodeOf[c] =>
           /\ Len(channel'[n]) = Len(channel[n]) + 1
           /\ \A i \in 1..Len(channel[n]) : channel'[n][i] = channel[n][i]
           /\ channel'[n][Len(channel[n]) + 1] = [conn |-> c, room |-> r, state |-> NoPayload]
  BY <1>1, <1>2, PublishEffect DEF FanTypes
<1>8. FanTypes'
  BY <1>1, <1>2, <1>3, <1>7 DEF FanTypes
<1>9. ForeignOnly'
  <2>1. PICK e : e = [conn |-> c, room |-> r, state |-> NoPayload]
    OBVIOUS
  <2>2. e.conn = c
    BY <2>1
  <2>3. QED BY <1>2, <1>7, <2>1, <2>2, ForeignGrows
<1>10. HandsOf(c)'
  <2>1. msg'[c] \in PresenceEvent
    BY <1>3 DEF PresenceEvent
  <2>2. \A d \in out'[c] : NodeOf[d] = NodeOf[c]
    BY <1>2, <1>3 DEF TargetsOf
  <2>3. QED BY <1>1, <1>2, <1>3, <2>1, <2>2 DEF HandsOf
<1>11. QED BY <1>1, <1>3, <1>5, <1>6, <1>8, <1>9, <1>10, FanStep

\* What is said of the sources holds while no connection moves.
LEMMA StillSources ==
  ASSUME FanInv, UNCHANGED <<engineVars, storeVars, pc, overlap, target, job, conns>>,
         dropped \subseteq dropped'
  PROVE  OverlapsKnown' /\ \A x \in Conns : SourceOf(x)' /\ TargetsOf(x)'
<1>1. OverlapsKnown'
  BY DEF FanInv, OverlapsKnown
<1>2. connRooms' = connRooms
  BY DEF engineVars
<1>3. ASSUME NEW x \in Conns PROVE SourceOf(x)' /\ TargetsOf(x)'
  <2>1. StoreSame(x) /\ EngineSame(x) /\ LocalSame(x) /\ SourceOf(x) /\ TargetsOf(x)
    BY DEF engineVars, storeVars, StoreSame, EngineSame, LocalSame, FanInv
  <2>2. SourceOf(x)'
    BY <2>1, SourceKept
  <2>3. TargetsOf(x)'
    BY <1>2, <2>1 DEF TargetsOf
  <2>4. QED BY <2>2, <2>3
<1>4. QED BY <1>1, <1>3

\* What HandleClusterPresence changes.
LEMMA ClusterEffect ==
  ASSUME RoomsInv, FanInv, NEW n \in Nodes, HandleClusterPresence(n)
  PROVE  /\ UNCHANGED <<engineVars, storeVars, view, bounds, rtVars>> /\ out[n] = {}
         /\ Len(channel[n]) \in Nat /\ Len(channel[n]) >= 1 /\ Len(channel'[n]) = Len(channel[n]) - 1
         /\ \A m \in Nodes \ {n} : channel'[m] = channel[m]
         /\ \A i \in 1..Len(channel'[n]) : channel'[n][i] = channel[n][i + 1]
         /\ channel[n][1] \in PresenceEvent /\ msg'[n] = channel[n][1]
         /\ out'[n] = Members(n, channel[n][1].room) \cap conns
         /\ \A q \in Procs \ {n} : msg'[q] = msg[q] /\ out'[q] = out[q]
         /\ FanTypes'
<1>1. PICK e : e = Head(channel[n])
  OBVIOUS
<1>2. /\ channel[n] # << >> /\ out[n] = {} /\ channel' = [channel EXCEPT ![n] = Tail(channel[n])]
      /\ Resolve(n, e.conn, e.room, e.state, Members(n, e.room))
      /\ UNCHANGED <<engineVars, storeVars, view, bounds, rtVars>>
  BY <1>1 DEF HandleClusterPresence
<1>3. /\ channel' \in [Nodes -> Seq(PresenceEvent)]
      /\ \A m \in Nodes \ {n} : channel'[m] = channel[m]
      /\ Len(channel[n]) \in Nat /\ Len(channel[n]) >= 1 /\ Len(channel'[n]) = Len(channel[n]) - 1
      /\ \A i \in 1..Len(channel'[n]) : channel'[n][i] = channel[n][i + 1]
      /\ Head(channel[n]) = channel[n][1] /\ channel[n][1] \in PresenceEvent
  BY <1>2, TailEffect DEF FanInv, FanTypes
<1>4. e \in PresenceEvent
  BY <1>1, <1>3
<1>5. e = [conn |-> e.conn, room |-> e.room, state |-> e.state] /\ e.room \in Rooms
  BY <1>4 DEF PresenceEvent
<1>6. Members(n, e.room) \subseteq Conns
  BY <1>5 DEF Members, RoomsInv, IInv, TypeOK
<1>7. /\ msg'[n] = [conn |-> e.conn, room |-> e.room, state |-> e.state]
      /\ out'[n] = Members(n, e.room) \cap conns
      /\ \A q \in Procs \ {n} : msg'[q] = msg[q] /\ out'[q] = out[q]
      /\ DOMAIN msg' = Procs /\ out' \in [Procs -> SUBSET Conns]
  <2>1. FanTypes /\ n \in Procs
    BY DEF FanInv, Procs
  <2>2. QED BY <1>2, <1>6, <2>1, ResolveEffect
<1>8. FanTypes'
  BY <1>2, <1>3, <1>7 DEF FanInv, FanTypes, rtVars
<1>9. QED BY <1>1, <1>2, <1>3, <1>5, <1>7, <1>8

\* The members at delivery are told of another node's connection.
LEMMA ClusterFan ==
  ASSUME RoomsInv, FanInv, NEW n \in Nodes, HandleClusterPresence(n)
  PROVE  FanInv'
<1>1. /\ UNCHANGED <<engineVars, storeVars, view, bounds, rtVars>> /\ out[n] = {}
      /\ Len(channel[n]) \in Nat /\ Len(channel[n]) >= 1 /\ Len(channel'[n]) = Len(channel[n]) - 1
      /\ \A m \in Nodes \ {n} : channel'[m] = channel[m]
      /\ \A i \in 1..Len(channel'[n]) : channel'[n][i] = channel[n][i + 1]
      /\ channel[n][1] \in PresenceEvent /\ msg'[n] = channel[n][1]
      /\ out'[n] = Members(n, channel[n][1].room) \cap conns
      /\ \A q \in Procs \ {n} : msg'[q] = msg[q] /\ out'[q] = out[q]
      /\ FanTypes'
  BY ClusterEffect
<1>2. UNCHANGED <<pc, overlap, target, job, conns, dropped>>
  BY <1>1 DEF rtVars
<1>3. OverlapsKnown' /\ \A x \in Conns : SourceOf(x)' /\ TargetsOf(x)'
  BY <1>1, <1>2, StillSources
<1>4. ForeignOnly'
  <2> SUFFICES ASSUME NEW m \in Nodes, NEW i \in 1..Len(channel'[m])
               PROVE  NodeOf[channel'[m][i].conn] # m
    BY DEF ForeignOnly
  <2>1. CASE m # n
    BY <1>1, <2>1 DEF FanInv, ForeignOnly
  <2>2. CASE m = n
    <3>1. i + 1 \in 1..Len(channel[n]) /\ channel'[n][i] = channel[n][i + 1]
      BY <1>1, <2>2
    <3>2. QED BY <2>2, <3>1 DEF FanInv, ForeignOnly
  <2>3. QED BY <2>1, <2>2
<1>5. ASSUME NEW p \in Procs PROVE HandsOf(p)'
  <2>1. CASE p # n
    <3>1. HandsOf(p)
      BY DEF FanInv
    <3>2. QED BY <1>1, <1>2, <2>1, <3>1 DEF HandsOf
  <2>2. CASE p = n
    <3>1. NodeOf[channel[n][1].conn] # n
      BY <1>1 DEF FanInv, ForeignOnly
    <3>2. \A d \in out'[n] : NodeOf[d] = n
      BY <1>1 DEF Members
    <3>3. n \notin Conns
      BY RuntimeAssumption
    <3>4. QED BY <1>1, <2>2, <3>1, <3>2, <3>3 DEF HandsOf
  <2>3. QED BY <2>1, <2>2
<1>6. QED BY <1>1, <1>3, <1>4, <1>5 DEF FanInv

\* What a client shows after an event is a view.
LEMMA ShowIsView ==
  ASSUME NEW v \in View, NEW e \in PresenceEvent
  PROVE  /\ Show(v, e) \in View
         /\ \A x \in Conns : Show(v, e).presence[x] = IF x = e.conn THEN e.state ELSE v.presence[x]
         /\ \A x : x \in Show(v, e).members <=>
              IF x = e.conn THEN e.state # NoPayload ELSE x \in v.members
<1>1. v.members \subseteq Conns /\ v.presence \in [Conns -> Payloads \cup {NoPayload}]
  BY DEF View
<1>2. e.conn \in Conns /\ e.state \in Payloads \cup {NoPayload}
  BY DEF PresenceEvent
<1>3. CASE e.state = NoPayload
  BY <1>1, <1>2, <1>3 DEF Show, View
<1>4. CASE e.state # NoPayload
  BY <1>1, <1>2, <1>4 DEF Show, View
<1>5. QED BY <1>3, <1>4

\* What Enqueue changes.
LEMMA EnqueueEffect ==
  ASSUME FanInv, NEW p \in Procs, NEW d \in Conns, Enqueue(p, d)
  PROVE  /\ UNCHANGED <<engineVars, storeVars, channel, msg, bounds, rtVars>>
         /\ d \in out[p] /\ d \notin down /\ msg[p] \in PresenceEvent
         /\ \A q \in Procs : out'[q] = IF q = p THEN out[p] \ {d} ELSE out[q]
         /\ \A x \in Conns, r \in Rooms :
              view'[x][r] = IF x = d /\ r = msg[p].room THEN Show(view[d][r], msg[p]) ELSE view[x][r]
         /\ FanTypes'
<1>1. /\ d \in out[p] /\ d \notin down /\ out' = [out EXCEPT ![p] = out[p] \ {d}]
      /\ view' = [view EXCEPT ![d] = [view[d] EXCEPT ![msg[p].room] = Show(view[d][msg[p].room], msg[p])]]
      /\ UNCHANGED <<engineVars, storeVars, channel, msg, bounds, rtVars>>
  BY DEF Enqueue
<1>2. msg[p] \in PresenceEvent /\ msg[p].room \in Rooms /\ FanTypes
  BY <1>1 DEF FanInv, HandsOf, PresenceEvent
<1>3. view[d] \in [Rooms -> View] /\ view \in [Conns -> [Rooms -> View]]
  BY <1>2 DEF FanTypes
<1>4. PICK w : w = Show(view[d][msg[p].room], msg[p])
  OBVIOUS
<1>5. w \in View
  BY <1>2, <1>3, <1>4, ShowIsView
<1>6. PICK u : u = [view[d] EXCEPT ![msg[p].room] = w]
  OBVIOUS
<1>7. u \in [Rooms -> View] /\ \A r \in Rooms : u[r] = IF r = msg[p].room THEN w ELSE view[d][r]
  BY <1>2, <1>3, <1>5, <1>6
<1>8. view' = [view EXCEPT ![d] = u]
  BY <1>1, <1>4, <1>6
<1>9. /\ view' \in [Conns -> [Rooms -> View]]
      /\ \A x \in Conns, r \in Rooms :
           view'[x][r] = IF x = d /\ r = msg[p].room THEN Show(view[d][r], msg[p]) ELSE view[x][r]
  BY <1>3, <1>4, <1>7, <1>8
<1>10. \A q \in Procs : out'[q] = IF q = p THEN out[p] \ {d} ELSE out[q]
  BY <1>1, <1>2 DEF FanTypes
<1>11. FanTypes'
  <2>1. out' \in [Procs -> SUBSET Conns]
    BY <1>1, <1>2 DEF FanTypes
  <2>2. QED BY <1>1, <1>2, <1>9, <2>1 DEF FanTypes, rtVars
<1>12. QED BY <1>1, <1>2, <1>9, <1>10, <1>11

\* One target less.
LEMMA EnqueueFan ==
  ASSUME RoomsInv, FanInv, NEW p \in Procs, NEW d \in Conns, Enqueue(p, d) \/ EnqueueLost(p, d)
  PROVE  FanInv'
<1>1. /\ UNCHANGED <<engineVars, storeVars, channel, msg, bounds, rtVars>>
      /\ FanTypes' /\ \A q \in Procs : out'[q] \subseteq out[q]
  <2>1. CASE Enqueue(p, d)
    BY <2>1, EnqueueEffect
  <2>2. CASE EnqueueLost(p, d)
    <3>1. /\ UNCHANGED <<engineVars, storeVars, channel, msg, view, bounds, rtVars>>
          /\ out' = [out EXCEPT ![p] = out[p] \ {d}]
      BY <2>2 DEF EnqueueLost
    <3>2. QED BY <3>1 DEF FanInv, FanTypes, rtVars
  <2>3. QED BY <2>1, <2>2
<1>2. UNCHANGED <<pc, overlap, target, job, conns, dropped>>
  BY <1>1 DEF rtVars
<1>3. OverlapsKnown' /\ \A x \in Conns : SourceOf(x)' /\ TargetsOf(x)'
  BY <1>1, <1>2, StillSources
<1>4. ForeignOnly'
  BY <1>1 DEF FanInv, ForeignOnly
<1>5. ASSUME NEW q \in Procs PROVE HandsOf(q)'
  <2>1. HandsOf(q)
    BY DEF FanInv
  <2>2. out'[q] \subseteq out[q] /\ msg'[q] = msg[q] /\ pc' = pc
    BY <1>1, <1>2
  <2>3. QED BY <2>1, <2>2 DEF HandsOf
<1>6. QED BY <1>1, <1>3, <1>4, <1>5 DEF FanInv

\* A fan-out that is cut short drops its source; a handler closes with it.
LEMMA AbortEffect ==
  ASSUME RoomsInv, FanInv, NEW p \in Procs, out[p] # {}, Abort(p),
         UNCHANGED <<engineVars, storeVars, channel, msg, view, target, job, conns, snap>>,
         down \subseteq down', down' \subseteq Conns
  PROVE  /\ FanInv' /\ msg[p].conn \in dropped' /\ dropped \subseteq dropped'
         /\ overlap \subseteq overlap' /\ out'[p] = {}
         /\ \A q \in Procs \ {p} : out'[q] = out[q]
         /\ \A x \in Conns : pc'[x] = pc[x] \/ (x = p /\ pc'[x] = "closing" /\ x \in dropped')
<1>1. /\ out' = [out EXCEPT ![p] = {}] /\ dropped' = dropped \cup {msg[p].conn}
      /\ \/ p \in Conns /\ pc[p] # "farewell" /\ Goto(p, "closing")
         \/ UNCHANGED <<pc, overlap>>
  BY DEF Abort
<1>2. HandsOf(p) /\ FanTypes
  BY DEF FanInv
<1>3. /\ out' \in [Procs -> SUBSET Conns] /\ out'[p] = {}
      /\ \A q \in Procs \ {p} : out'[q] = out[q]
  BY <1>1, <1>2 DEF FanTypes
<1>4. FanTypes'
  BY <1>2, <1>3 DEF FanTypes
<1>5. ForeignOnly'
  BY DEF FanInv, ForeignOnly
<1>6. CASE p \in Conns /\ pc[p] # "farewell" /\ Goto(p, "closing")
  <2>1. "closing" \in Stages
    BY DEF Stages, FanStages
  <2>2. /\ Others(p) /\ pc'[p] = "closing" /\ StoreSame(p) /\ SeenSame(p)
    BY <1>1, <1>6, <2>1, StillOthers DEF RoomsInv
  <2>3. pc[p] \in {"leaveReply", "presenceReply"} /\ msg[p].conn = p
    BY <1>2, <1>6 DEF HandsOf
  <2>4. SourceOf(p) /\ StoredIn(p)
    BY <1>1, <1>6, <2>2, StoredSame DEF FanInv
  <2>5. SourceOf(p)'
    BY <1>1, <1>6, <2>2, <2>3, <2>4, OwnSource DEF SourceOf, JoinStages, LeaveStages, PresenceStages
  <2>6. Grows(p)
    BY <2>2 DEF Grows, SeenSame
  <2>7. TargetsOf(p)'
    BY <1>6, <2>2, <2>6, OwnTargets DEF LeaveStages, PresenceStages, EndStages
  <2>8. HandsOf(p)'
    BY <1>3 DEF HandsOf
  <2>9. FanInv'
    BY <1>3, <1>4, <1>5, <1>6, <2>2, <2>5, <2>6, <2>7, <2>8, FanStep
  <2>10. \A x \in Conns : pc'[x] = pc[x] \/ (x = p /\ pc'[x] = "closing" /\ x \in dropped')
    BY <1>1, <2>2, <2>3 DEF Others, LocalSame
  <2>11. QED BY <1>1, <1>3, <2>2, <2>9, <2>10 DEF Others
<1>7. CASE UNCHANGED <<pc, overlap>>
  <2>1. OverlapsKnown' /\ \A x \in Conns : SourceOf(x)' /\ TargetsOf(x)'
    BY <1>1, <1>7, StillSources
  <2>2. ASSUME NEW q \in Procs PROVE HandsOf(q)'
    <3>1. HandsOf(q)
      BY DEF FanInv
    <3>2. out'[q] = {} \/ out'[q] = out[q]
      BY <1>3
    <3>3. QED BY <1>7, <3>1, <3>2 DEF HandsOf
  <2>3. FanInv'
    BY <1>4, <1>5, <2>1, <2>2 DEF FanInv
  <2>4. QED BY <1>1, <1>3, <1>7, <2>3
<1>8. QED BY <1>1, <1>6, <1>7

\* An enqueue fails, or overflows its queue.
LEMMA AbortFan ==
  ASSUME RoomsInv, FanInv, NEW p \in Procs, NEW d \in Conns,
         EnqueueClosed(p, d) \/ EnqueueOverflow(p, d)
  PROVE  /\ UNCHANGED <<engineVars, storeVars, channel, msg, view, target, job, conns, snap>>
         /\ down \subseteq down'
         /\ FanInv' /\ msg[p].conn \in dropped' /\ dropped \subseteq dropped'
         /\ overlap \subseteq overlap' /\ out'[p] = {}
         /\ \A q \in Procs \ {p} : out'[q] = out[q]
         /\ \A x \in Conns : pc'[x] = pc[x] \/ (x = p /\ pc'[x] = "closing" /\ x \in dropped')
<1>1. /\ out[p] # {} /\ Abort(p)
      /\ UNCHANGED <<engineVars, storeVars, channel, msg, view, target, job, conns, snap>>
      /\ down' = down \/ down' = down \cup {d}
  BY DEF EnqueueClosed, EnqueueOverflow
<1>2. down \subseteq down' /\ down' \subseteq Conns
  BY <1>1 DEF FanInv, FanTypes
<1>3. QED BY <1>1, <1>2, AbortEffect

-----------------------------------------------------------------------------
(* What the clients show: the steps that send and show nothing.            *)

\* What the clients should make of x stays.
LEMMA CalmRight ==
  ASSUME NEW c \in Conns, Calm(c), NEW x \in Conns \ dropped', NEW r \in Rooms
  PROVE  /\ \A n, s : Right(n, x, r, s) => Right(n, x, r, s)'
         /\ \A n : There(n, x, r) => There(n, x, r)'
<1>1. CASE x = c
  BY <1>1 DEF Calm, Steady, Right, There
<1>2. CASE x # c
  <2>1. /\ pc'[x] = pc[x] /\ target'[x] = target[x] /\ job'[x] = job[x]
        /\ connRooms'[x] = connRooms[x] /\ presence'[r][x] = presence[r][x]
    BY <1>2 DEF Calm, Others, LocalSame, EngineSame
  <2>2. (Due(x, r)' <=> Due(x, r)) /\ (Ahead(x, r)' <=> Ahead(x, r))
    BY <2>1 DEF Due, Ahead
  <2>3. QED BY <2>1, <2>2 DEF Right, There
<1>3. QED BY <1>1, <1>2

\* The channels stay, and so what they have to say of x.
LEMMA CalmPublished ==
  ASSUME NEW c \in Conns, Calm(c), NEW x \in Conns \ dropped', NEW r \in Rooms, NEW n \in Nodes,
         Published(n, x, r)
  PROVE  Published(n, x, r)'
<1>1. channel' = channel
  BY DEF Calm
<1>2. \A s : Right(n, x, r, s) => Right(n, x, r, s)'
  BY CalmRight
<1>3. QED BY <1>1, <1>2 DEF Published, About, Right

\* So do the hands.
LEMMA CalmHands ==
  ASSUME NEW c \in Conns, Calm(c), NEW x, NEW r, NEW d
  PROVE  /\ Carries(NodeOf[d], x, r)' <=> Carries(NodeOf[d], x, r)
         /\ InHand(d, x, r)' <=> InHand(d, x, r)
BY DEF Calm, Carries, InHand, About, Carrier

\* And what they have to say of x.
LEMMA CalmHanded ==
  ASSUME NEW c \in Conns, Calm(c), NEW x \in Conns \ dropped', NEW r \in Rooms, NEW d \in Conns,
         Handed(d, x, r)
  PROVE  Handed(d, x, r)'
<1>1. msg' = msg
  BY DEF Calm
<1>2. /\ Carries(NodeOf[d], x, r)' <=> Carries(NodeOf[d], x, r)
      /\ InHand(d, x, r)' <=> InHand(d, x, r)
  BY CalmHands
<1>3. \A s : Right(NodeOf[d], x, r, s) => Right(NodeOf[d], x, r, s)'
  BY CalmRight
<1>4. QED BY <1>1, <1>2, <1>3 DEF Handed, Right, Carrier

\* What d shows of x stays right if d showed the room before.
LEMMA CalmShown ==
  ASSUME NEW c \in Conns, Calm(c), NEW x \in Conns \ dropped', NEW r \in Rooms, NEW d \in Conns,
         ShownRight(d, x, r), Views(d, r)' => Views(d, r) /\ view'[d][r] = view[d][r]
  PROVE  ShownRight(d, x, r)'
<1>1. overlap \subseteq overlap'
  BY DEF Calm, Others
<1>2. /\ Carries(NodeOf[d], x, r)' <=> Carries(NodeOf[d], x, r)
      /\ InHand(d, x, r)' <=> InHand(d, x, r)
  BY CalmHands
<1>3. /\ \A s : Right(NodeOf[d], x, r, s) => Right(NodeOf[d], x, r, s)'
      /\ There(NodeOf[d], x, r) => There(NodeOf[d], x, r)'
  BY CalmRight
<1>4. QED BY <1>1, <1>2, <1>3 DEF ShownRight, Right

\* Whoever's presence changes while d reads a snapshot overlaps with d.
LEMMA CalmSnapped ==
  ASSUME NEW c \in Conns, Calm(c), OverlapsKnown, NEW x \in Conns \ dropped', NEW r \in Rooms,
         NEW d \in Conns, Snapped(d, x, r), d # c \/ pc'[d] # "joinReply",
         d # c => snap'[d] = snap[d]
  PROVE  Snapped(d, x, r)'
<1> SUFFICES ASSUME pc'[d] = "joinReply", target'[d] = r, <<d, x>> \notin overlap'
             PROVE  /\ snap'[d].presence[x] = presence'[r][x]
                    /\ x \in snap'[d].members => r \in connRooms'[x]
  BY DEF Snapped
<1>1. /\ pc[d] = "joinReply" /\ target[d] = r /\ snap'[d] = snap[d]
      /\ <<d, x>> \notin overlap
  BY DEF Calm, Others, LocalSame
<1>2. /\ snap[d].presence[x] = presence[r][x]
      /\ x \in snap[d].members => r \in connRooms[x]
  BY <1>1 DEF Snapped
<1>3. pc[x] \notin FanStages
  BY <1>1 DEF OverlapsKnown, JoinStages
<1>4. connRooms[x] \subseteq connRooms'[x] /\ presence'[r][x] = presence[r][x]
  <2>1. CASE x = c
    BY <1>3, <2>1 DEF Calm, Kept
  <2>2. CASE x # c
    BY <2>2 DEF Calm, Others, EngineSame
  <2>3. QED BY <2>1, <2>2
<1>5. QED BY <1>1, <1>2, <1>4

\* d is no other connection's actor.
LEMMA OthersView ==
  ASSUME NEW c \in Conns, Others(c), NEW d \in Conns \ {c}, NEW r \in Rooms, Views(d, r)'
  PROVE  Views(d, r)
<1>1. /\ pc'[d] = pc[d] /\ target'[d] = target[d] /\ connRooms'[d] = connRooms[d]
      /\ down \subseteq down'
  BY DEF Others, LocalSame, EngineSame
<1>2. QED BY <1>1 DEF Views

\* A step that sends nothing, after which every client shows what it showed.
LEMMA QuietShow ==
  ASSUME FanInv, ShowInv, NEW c \in Conns, Quiet(c), \A d \in Conns \ {c} : snap'[d] = snap[d],
         \A x \in Conns \ dropped', r \in Rooms : Snapped(c, x, r)',
         \A d \in Conns, r \in Rooms : Views(d, r)' => view'[d][r] = view[d][r]
  PROVE  ShowInv'
<1>1. Calm(c) /\ Blind(c) /\ OverlapsKnown
  BY DEF Quiet, FanInv
<1> SUFFICES ASSUME NEW x \in Conns \ dropped', NEW r \in Rooms
             PROVE  /\ \A n \in Nodes : Published(n, x, r)'
                    /\ \A d \in Conns : Handed(d, x, r)' /\ ShownRight(d, x, r)' /\ Snapped(d, x, r)'
  BY DEF ShowInv
<1>2. x \in Conns \ dropped
  BY <1>1 DEF Calm, Others
<1>3. \A n \in Nodes : Published(n, x, r)'
  BY <1>1, <1>2, CalmPublished DEF ShowInv
<1>4. ASSUME NEW d \in Conns PROVE Handed(d, x, r)' /\ ShownRight(d, x, r)' /\ Snapped(d, x, r)'
  <2>1. Handed(d, x, r) /\ ShownRight(d, x, r) /\ Snapped(d, x, r)
    BY <1>2 DEF ShowInv
  <2>2. Views(d, r)' => Views(d, r) /\ view'[d][r] = view[d][r]
    <3>1. CASE d = c
      BY <1>1, <3>1 DEF Blind
    <3>2. CASE d # c
      BY <1>1, <3>2, OthersView DEF Calm
    <3>3. QED BY <3>1, <3>2
  <2>3. Snapped(d, x, r)'
    BY <1>1, <2>1, CalmSnapped
  <2>4. QED BY <1>1, <2>1, <2>2, <2>3, CalmHanded, CalmShown
<1>5. QED BY <1>3, <1>4

\* A connection that is in no fan-out is in Redis as in the engine, or is on
\* its way there.
LEMMA SettledStore ==
  ASSUME RoomsInv, FanInv, NEW x \in Conns \ dropped, NEW r \in Rooms, pc[x] \notin FanStages
  PROVE  /\ redisPresence[r][x] = presence[r][x]
         /\ x \in redisMembers[r] => r \in connRooms[x]
<1>1. StoreOf(x) /\ SourceOf(x) /\ pc[x] \in Stages
  BY DEF RoomsInv, StoreFollows, StoreTypes, FanInv
<1>2. pc[x] \in {"new", "idle", "joinSnapshot", "joinReply", "joinStore", "done"}
  BY <1>1 DEF Stages, JoinStages
<1>3. x \in redisMembers[r] <=> r \in redisConnRooms[x]
  BY <1>1 DEF StoreOf
<1>4. CASE pc[x] \in {"new", "idle", "joinSnapshot", "joinReply"}
  BY <1>1, <1>3, <1>4 DEF StoreOf, Agreeing, SamePresence
<1>5. CASE pc[x] = "joinStore"
  BY <1>1, <1>3, <1>5 DEF StoreOf, SamePresence
<1>6. CASE pc[x] = "done"
  <2>1. redisConnRooms[x] = {} /\ connRooms[x] = {}
    BY <1>1, <1>6 DEF StoreOf, SourceOf
  <2>2. redisPresence[r][x] = NoPayload /\ presence[r][x] = NoPayload
    BY <1>1, <2>1 DEF SourceOf
  <2>3. QED BY <1>3, <2>1, <2>2
<1>7. QED BY <1>2, <1>4, <1>5, <1>6

\* The snapshot is right about whoever is in no fan-out.
LEMMA JoinSnapshotShow ==
  ASSUME RoomsInv, FanInv, ShowInv, NEW c \in Conns, JoinSnapshot(c)
  PROVE  ShowInv'
<1>1. /\ FanInv' /\ Quiet(c) /\ UNCHANGED view /\ target[c] \in Rooms
      /\ pc[c] = "joinSnapshot" /\ target'[c] = target[c]
      /\ snap'[c] = SnapshotRoom(target[c]) /\ \A d \in Conns \ {c} : snap'[d] = snap[d]
  BY JoinSnapshotFan
<1>2. Calm(c) /\ OverlapsKnown'
  BY <1>1 DEF Quiet, FanInv
<1>3. ASSUME NEW x \in Conns \ dropped', NEW r \in Rooms PROVE Snapped(c, x, r)'
  <2> SUFFICES ASSUME pc'[c] = "joinReply", target'[c] = r, <<c, x>> \notin overlap'
               PROVE  /\ snap'[c].presence[x] = presence'[r][x]
                      /\ x \in snap'[c].members => r \in connRooms'[x]
    BY DEF Snapped
  <2>1. pc'[x] \notin FanStages
    BY <1>2 DEF OverlapsKnown, JoinStages
  <2>2. pc[x] \notin FanStages
    <3>1. CASE x = c
      BY <1>1, <3>1 DEF FanStages
    <3>2. CASE x # c
      BY <1>2, <2>1, <3>2 DEF Calm, Others, LocalSame
    <3>3. QED BY <3>1, <3>2
  <2>3. presence'[r][x] = presence[r][x] /\ connRooms[x] \subseteq connRooms'[x]
    <3>1. CASE x = c
      BY <1>2, <2>2, <3>1 DEF Calm, Kept
    <3>2. CASE x # c
      BY <1>2, <3>2 DEF Calm, Others, EngineSame
    <3>3. QED BY <3>1, <3>2
  <2>4. x \in Conns \ dropped
    BY <1>2 DEF Calm, Others
  <2>5. /\ redisPresence[r][x] = presence[r][x]
        /\ x \in redisMembers[r] => r \in connRooms[x]
    BY <2>2, <2>4, SettledStore
  <2>6. QED BY <1>1, <2>3, <2>5 DEF SnapshotRoom
<1>4. QED BY <1>1, <1>3, QuietShow

\* JOINED shows the snapshot, right about whoever was in no fan-out since.
LEMMA JoinReplyShow ==
  ASSUME RoomsInv, FanInv, ShowInv, NEW c \in Conns, JoinReply(c)
  PROVE  ShowInv'
<1>1. /\ FanInv' /\ Calm(c) /\ pc[c] = "joinReply" /\ pc'[c] # "joinReply"
      /\ \A d \in Conns \ {c} : snap'[d] = snap[d]
      /\ \A r \in Rooms : Views(c, r)' => c \notin down /\ (Views(c, r) \/ r = target[c])
      /\ \A d \in Conns, r \in Rooms :
           view'[d][r] = IF d = c /\ r = target[c] /\ c \notin down THEN snap[c] ELSE view[d][r]
  BY JoinReplyFan
<1>2. OverlapsKnown
  BY DEF FanInv
<1> SUFFICES ASSUME NEW x \in Conns \ dropped', NEW r \in Rooms
             PROVE  /\ \A n \in Nodes : Published(n, x, r)'
                    /\ \A d \in Conns : Handed(d, x, r)' /\ ShownRight(d, x, r)' /\ Snapped(d, x, r)'
  BY DEF ShowInv
<1>3. x \in Conns \ dropped /\ overlap \subseteq overlap'
  BY <1>1 DEF Calm, Others
<1>4. \A n \in Nodes : Published(n, x, r)'
  BY <1>1, <1>3, CalmPublished DEF ShowInv
<1>5. ASSUME NEW d \in Conns PROVE Handed(d, x, r)' /\ ShownRight(d, x, r)' /\ Snapped(d, x, r)'
  <2>1. Handed(d, x, r) /\ ShownRight(d, x, r) /\ Snapped(d, x, r)
    BY <1>3 DEF ShowInv
  <2>2. Handed(d, x, r)' /\ Snapped(d, x, r)'
    BY <1>1, <1>2, <2>1, CalmHanded, CalmSnapped
  <2>3. CASE d # c
    <3>1. Views(d, r)' => Views(d, r) /\ view'[d][r] = view[d][r]
      BY <1>1, <2>3, OthersView DEF Calm
    <3>2. QED BY <1>1, <2>1, <2>2, <3>1, CalmShown
  <2>4. CASE d = c /\ ~(r = target[c] /\ c \notin down)
    <3>1. Views(d, r)' => Views(d, r) /\ view'[d][r] = view[d][r]
      BY <1>1, <2>4
    <3>2. QED BY <1>1, <2>1, <2>2, <3>1, CalmShown
  <2>5. CASE d = c /\ r = target[c] /\ c \notin down
    <3>1. view'[d][r] = snap[c]
      BY <1>1, <2>5
    <3>2. /\ \A s : Right(NodeOf[d], x, r, s) => Right(NodeOf[d], x, r, s)'
          /\ There(NodeOf[d], x, r) => There(NodeOf[d], x, r)'
      BY <1>1, CalmRight
    <3>3. ASSUME <<d, x>> \notin overlap'
          PROVE  /\ Right(NodeOf[d], x, r, snap[c].presence[x])
                 /\ x \in snap[c].members => There(NodeOf[d], x, r)
      <4>1. /\ snap[c].presence[x] = presence[r][x]
            /\ x \in snap[c].members => r \in connRooms[x]
        BY <1>1, <1>3, <2>1, <2>5, <3>3 DEF Snapped
      <4>2. pc[x] \notin FanStages
        BY <1>1, <1>2, <1>3, <2>5, <3>3 DEF OverlapsKnown, JoinStages
      <4>3. ~Ahead(x, r)
        BY <4>2 DEF Ahead, FanStages
      <4>4. QED BY <4>1, <4>3 DEF Right, There
    <3>4. ShownRight(d, x, r)'
      BY <3>1, <3>2, <3>3 DEF ShownRight, Right
    <3>5. QED BY <2>2, <3>4
  <2>6. QED BY <2>3, <2>4, <2>5
<1>6. QED BY <1>4, <1>5

-----------------------------------------------------------------------------
(* What the clients show: the steps that send and show.                    *)

\* A channel that nothing is added to or taken from stays right.
LEMMA PublishedKept ==
  ASSUME NEW n \in Nodes, NEW x, NEW r, channel' = channel, Published(n, x, r),
         \A s : Right(n, x, r, s) => Right(n, x, r, s)'
  PROVE  Published(n, x, r)'
BY DEF Published, About, Right

\* What the clients should make of x stays while another connection moves.
LEMMA OthersRight ==
  ASSUME NEW c \in Conns, Others(c), NEW x \in Conns \ {c}, NEW r \in Rooms
  PROVE  /\ \A n, s : Right(n, x, r, s) <=> Right(n, x, r, s)'
         /\ \A n : There(n, x, r) <=> There(n, x, r)'
<1>1. /\ pc'[x] = pc[x] /\ target'[x] = target[x] /\ job'[x] = job[x]
      /\ connRooms'[x] = connRooms[x] /\ presence'[r][x] = presence[r][x]
  BY DEF Others, LocalSame, EngineSame
<1>2. (Due(x, r)' <=> Due(x, r)) /\ (Ahead(x, r)' <=> Ahead(x, r))
  BY <1>1 DEF Due, Ahead
<1>3. QED BY <1>1, <1>2 DEF Right, There

\* Whoever reads a snapshot while c is in a fan-out overlaps with c.
LEMMA OthersSnapped ==
  ASSUME NEW c \in Conns, Others(c), OverlapsKnown, pc[c] \in FanStages, pc'[c] # "joinReply",
         NEW d \in Conns, NEW x \in Conns, NEW r \in Rooms, snap' = snap, Snapped(d, x, r)
  PROVE  Snapped(d, x, r)'
<1> SUFFICES ASSUME pc'[d] = "joinReply", target'[d] = r, <<d, x>> \notin overlap'
             PROVE  /\ snap'[d].presence[x] = presence'[r][x]
                    /\ x \in snap'[d].members => r \in connRooms'[x]
  BY DEF Snapped
<1>1. /\ pc[d] = "joinReply" /\ target[d] = r /\ <<d, x>> \notin overlap
  BY DEF Others, LocalSame
<1>2. x # c
  BY <1>1 DEF OverlapsKnown, JoinStages
<1>3. connRooms'[x] = connRooms[x] /\ presence'[r][x] = presence[r][x]
  BY <1>2 DEF Others, EngineSame
<1>4. QED BY <1>1, <1>3 DEF Snapped

\* What d shows of x is as right as before if the same is on its way.
LEMMA ShowKept ==
  ASSUME NEW d \in Conns, NEW x \in Conns, NEW r \in Rooms, overlap \subseteq overlap',
         \A s : Right(NodeOf[d], x, r, s) => Right(NodeOf[d], x, r, s)',
         There(NodeOf[d], x, r) => There(NodeOf[d], x, r)',
         Carries(NodeOf[d], x, r) <=> Carries(NodeOf[d], x, r)',
         InHand(d, x, r) <=> InHand(d, x, r)',
         InHand(d, x, r) => msg'[Carrier(d, x)].state = msg[Carrier(d, x)].state,
         Views(d, r)' =>
           /\ Views(d, r) /\ view'[d][r].presence[x] = view[d][r].presence[x]
           /\ x \in view'[d][r].members => x \in view[d][r].members,
         Handed(d, x, r), ShownRight(d, x, r)
  PROVE  Handed(d, x, r)' /\ ShownRight(d, x, r)'
<1>1. Handed(d, x, r)'
  BY DEF Handed, Right, Carrier
<1>2. ShownRight(d, x, r)'
  BY DEF ShownRight, Right
<1>3. QED BY <1>1, <1>2

\* The nodes but c's own have e to hear, behind what they had.
Told(c, e) ==
    \A n \in Nodes :
        /\ n = NodeOf[c] => channel'[n] = channel[n]
        /\ n # NodeOf[c] =>
             /\ Len(channel'[n]) = Len(channel[n]) + 1
             /\ \A i \in 1..Len(channel[n]) : channel'[n][i] = channel[n][i]
             /\ channel'[n][Len(channel[n]) + 1] = e

\* They have e to hear, and what they had.
LEMMA ToldCarries ==
  ASSUME FanTypes, NEW c \in Conns, NEW e, Told(c, e), NEW n \in Nodes, NEW x, NEW r
  PROVE  Carries(n, x, r)' <=> Carries(n, x, r) \/ (n # NodeOf[c] /\ About(e, x, r))
<1>1. Len(channel[n]) \in Nat
  BY DEF FanTypes
<1>2. CASE n = NodeOf[c]
  BY <1>2 DEF Told, Carries, About
<1>3. CASE n # NodeOf[c]
  <2>1. /\ Len(channel'[n]) = Len(channel[n]) + 1
        /\ \A i \in 1..Len(channel[n]) : channel'[n][i] = channel[n][i]
        /\ channel'[n][Len(channel[n]) + 1] = e
    BY <1>3 DEF Told
  <2>2. ASSUME Carries(n, x, r)' PROVE Carries(n, x, r) \/ About(e, x, r)
    <3>1. PICK i \in 1..Len(channel'[n]) : About(channel'[n][i], x, r)
      BY <2>2 DEF Carries, About
    <3>2. CASE i = Len(channel[n]) + 1
      BY <2>1, <3>1, <3>2
    <3>3. CASE i # Len(channel[n]) + 1
      <4>1. i \in 1..Len(channel[n])
        BY <1>1, <2>1, <3>3
      <4>2. QED BY <2>1, <3>1, <4>1 DEF Carries
    <3>4. QED BY <3>2, <3>3
  <2>3. ASSUME Carries(n, x, r) PROVE Carries(n, x, r)'
    <3>1. PICK i \in 1..Len(channel[n]) : About(channel[n][i], x, r)
      BY <2>3 DEF Carries
    <3>2. i \in 1..Len(channel'[n]) /\ channel'[n][i] = channel[n][i]
      BY <1>1, <2>1
    <3>3. QED BY <3>1, <3>2 DEF Carries, About
  <2>4. ASSUME About(e, x, r) PROVE Carries(n, x, r)'
    <3>1. Len(channel[n]) + 1 \in 1..Len(channel'[n])
      BY <1>1, <2>1
    <3>2. QED BY <2>1, <2>4, <3>1 DEF Carries, About
  <2>5. QED BY <1>3, <2>2, <2>3, <2>4
<1>4. QED BY <1>2, <1>3

\* The last they hear of x is right if it was, or is e and e is right.
LEMMA ToldPublished ==
  ASSUME FanTypes, NEW c \in Conns, NEW e, Told(c, e), NEW n \in Nodes, NEW x, NEW r,
         Published(n, x, r),
         IF n # NodeOf[c] /\ About(e, x, r) THEN Right(n, x, r, e.state)'
         ELSE \A s : Right(n, x, r, s) => Right(n, x, r, s)'
  PROVE  Published(n, x, r)'
<1> SUFFICES ASSUME NEW i \in 1..Len(channel'[n]), About(channel'[n][i], x, r),
                    \A j \in 1..Len(channel'[n]) : j > i => ~About(channel'[n][j], x, r),
                    NEW s, s = channel'[n][i].state
             PROVE  Right(n, x, r, s)'
  BY DEF Published, About, Right
<1>1. Len(channel[n]) \in Nat
  BY DEF FanTypes
<1>2. CASE n = NodeOf[c]
  <2>1. channel'[n] = channel[n]
    BY <1>2 DEF Told
  <2>2. Right(n, x, r, channel[n][i].state)
    BY <2>1 DEF Published
  <2>3. QED BY <1>2, <2>1, <2>2 DEF Right
<1>3. CASE n # NodeOf[c]
  <2>1. /\ Len(channel'[n]) = Len(channel[n]) + 1
        /\ \A j \in 1..Len(channel[n]) : channel'[n][j] = channel[n][j]
        /\ channel'[n][Len(channel[n]) + 1] = e
    BY <1>3 DEF Told
  <2>2. CASE i = Len(channel[n]) + 1
    BY <1>3, <2>1, <2>2 DEF Right
  <2>3. CASE i # Len(channel[n]) + 1
    <3>1. i \in 1..Len(channel[n]) /\ Len(channel[n]) + 1 \in 1..Len(channel'[n])
          /\ Len(channel[n]) + 1 > i
      BY <1>1, <2>1, <2>3
    <3>2. ~About(e, x, r)
      BY <2>1, <3>1
    <3>3. \A j \in 1..Len(channel[n]) : j > i => ~About(channel[n][j], x, r)
      <4> TAKE j \in 1..Len(channel[n])
      <4>1. j \in 1..Len(channel'[n]) /\ channel'[n][j] = channel[n][j]
        BY <1>1, <2>1
      <4>2. QED BY <4>1
    <3>4. Right(n, x, r, channel[n][i].state)
      BY <2>1, <3>1, <3>3 DEF Published
    <3>5. QED BY <2>1, <3>1, <3>2, <3>4 DEF Right
  <2>4. QED BY <2>2, <2>3
<1>4. QED BY <1>2, <1>3

\* The nodes that have heard of the change expect it; the others show what
\* c's engine still has.
LEMMA PublishShow ==
  ASSUME RoomsInv, FanInv, ShowInv, NEW c \in Conns, Publish(c)
  PROVE  ShowInv'
<1>1. /\ Others(c) /\ SeenSame(c)
      /\ UNCHANGED <<msg, out, view, snap, down, conns, dropped, target, job>>
      /\ PublishPresence(c, target[c], job[c].payload)
      /\ \/ pc[c] = "leavePublish" /\ pc'[c] = "leaveApply"
         \/ pc[c] = "presencePublish" /\ pc'[c] = "presenceApply"
      /\ target[c] \in Rooms /\ job[c].payload \in Payloads \cup {NoPayload}
  BY PublishOthers
<1>2. PICK e : e = [conn |-> c, room |-> target[c], state |-> job[c].payload]
  OBVIOUS
<1>3. e.conn = c /\ e.room = target[c] /\ e.state = job[c].payload
  BY <1>2
<1>4. Told(c, e) /\ FanTypes /\ OverlapsKnown
  <2>1. FanTypes /\ OverlapsKnown
    BY DEF FanInv
  <2>2. channel \in [Nodes -> Seq(PresenceEvent)]
    BY <2>1 DEF FanTypes
  <2>3. QED BY <1>1, <1>2, <2>1, <2>2, PublishEffect DEF Told
<1>5. overlap \subseteq overlap' /\ pc[c] \in FanStages /\ pc'[c] # "joinReply" /\ snap' = snap
  BY <1>1 DEF Others, FanStages
<1> SUFFICES ASSUME NEW x \in Conns \ dropped', NEW r \in Rooms
             PROVE  /\ \A n \in Nodes : Published(n, x, r)'
                    /\ \A d \in Conns : Handed(d, x, r)' /\ ShownRight(d, x, r)' /\ Snapped(d, x, r)'
  BY DEF ShowInv
<1>6. /\ \A n \in Nodes : Published(n, x, r)
      /\ \A d \in Conns : Handed(d, x, r) /\ ShownRight(d, x, r) /\ Snapped(d, x, r)
  BY <1>1 DEF ShowInv
<1>7. ASSUME NEW n \in Nodes
      PROVE  IF n # NodeOf[c] /\ About(e, x, r) THEN \A s : Right(n, x, r, s)' <=> s = e.state
             ELSE /\ \A s : Right(n, x, r, s) => Right(n, x, r, s)'
                  /\ There(n, x, r) => There(n, x, r)'
  <2>1. CASE x # c
    BY <1>1, <1>3, <2>1, OthersRight DEF About
  <2>2. CASE x = c
    <3>1. ~Due(c, r) /\ ~Due(c, r)' /\ ~Ahead(c, r) /\ (Ahead(c, r)' <=> r = target[c])
      BY <1>1 DEF Due, Ahead
    <3>2. connRooms'[c] = connRooms[c] /\ presence'[r][c] = presence[r][c] /\ job' = job
      BY <1>1 DEF SeenSame
    <3>3. About(e, x, r) <=> r = target[c]
      BY <1>3, <2>2 DEF About
    <3>4. QED BY <1>3, <2>2, <3>1, <3>2, <3>3 DEF Right, There
  <2>3. QED BY <2>1, <2>2
<1>8. \A n \in Nodes : Published(n, x, r)'
  <2> TAKE n \in Nodes
  <2>1. CASE n # NodeOf[c] /\ About(e, x, r)
    <3>1. Right(n, x, r, e.state)'
      BY <1>7, <2>1 DEF Right
    <3>2. QED BY <1>4, <1>6, <2>1, <3>1, ToldPublished
  <2>2. CASE ~(n # NodeOf[c] /\ About(e, x, r))
    <3>1. \A s : Right(n, x, r, s) => Right(n, x, r, s)'
      BY <1>7, <2>2
    <3>2. QED BY <1>4, <1>6, <2>2, <3>1, ToldPublished
  <2>3. QED BY <2>1, <2>2
<1>9. ASSUME NEW d \in Conns PROVE Handed(d, x, r)' /\ ShownRight(d, x, r)' /\ Snapped(d, x, r)'
  <2>1. Snapped(d, x, r)'
    BY <1>1, <1>4, <1>5, <1>6, OthersSnapped
  <2>2. NodeOf[d] \in Nodes
    BY EngineAssumption
  <2>3. Carries(NodeOf[d], x, r)' <=> Carries(NodeOf[d], x, r) \/ (NodeOf[d] # NodeOf[c] /\ About(e, x, r))
    BY <1>4, <2>2, ToldCarries
  <2>4. CASE NodeOf[d] # NodeOf[c] /\ About(e, x, r)
    <3>1. Carries(NodeOf[d], x, r)'
      BY <2>3, <2>4
    <3>2. QED BY <2>1, <3>1 DEF Handed, ShownRight
  <2>5. CASE ~(NodeOf[d] # NodeOf[c] /\ About(e, x, r))
    <3>1. /\ \A s : Right(NodeOf[d], x, r, s) => Right(NodeOf[d], x, r, s)'
          /\ There(NodeOf[d], x, r) => There(NodeOf[d], x, r)'
      BY <1>7, <2>2, <2>5
    <3>2. InHand(d, x, r) <=> InHand(d, x, r)'
      BY <1>1 DEF InHand, About, Carrier
    <3>3. Views(d, r)' => Views(d, r)
      <4>1. CASE d = c
        BY <1>1, <4>1 DEF Views, SeenSame, JoinStages
      <4>2. CASE d # c
        BY <1>1, <4>2, OthersView
      <4>3. QED BY <4>1, <4>2
    <3>4. msg' = msg /\ view' = view
      BY <1>1
    <3>5. Carries(NodeOf[d], x, r) <=> Carries(NodeOf[d], x, r)'
      BY <2>3, <2>5
    <3>6. Handed(d, x, r)' /\ ShownRight(d, x, r)'
      BY <1>5, <1>6, <3>1, <3>2, <3>3, <3>4, <3>5, ShowKept
    <3>7. QED BY <2>1, <3>6
  <2>6. QED BY <2>4, <2>5
<1>10. QED BY <1>8, <1>9

\* Who shows the room, and did not join it meanwhile, is in c's own hands.
LEMMA ApplyReaches ==
  ASSUME RoomsInv, FanInv, NEW c \in Conns, Apply(c), c \notin dropped, NEW d \in Conns,
         NodeOf[d] = NodeOf[c], Views(d, target[c])', <<d, c>> \notin overlap
  PROVE  d \in job[c].targets[target[c]] \cap conns
<1>1. /\ Others(c) /\ UNCHANGED <<conns, target>>
      /\ \/ pc[c] = "leaveApply" /\ connRooms'[c] = connRooms[c] \ {target[c]}
         \/ pc[c] = "presenceApply" /\ connRooms'[c] = connRooms[c]
  BY ApplyOthers
<1>2. TargetsOf(c) /\ SourceOf(d)' /\ SourceOf(c)'
  BY ApplyFan DEF FanInv
<1>3. target[c] \in connRooms'[d] /\ d \in conns'
  BY <1>1, <1>2 DEF Views, SourceOf
<1>4. target[c] \in connRooms[d] /\ (pc[c] = "leaveApply" => d # c)
  <2>1. CASE d = c
    BY <1>1, <1>3, <2>1
  <2>2. CASE d # c
    BY <1>1, <1>3, <2>2 DEF Others, EngineSame
  <2>3. QED BY <2>1, <2>2
<1>5. d \in job[c].targets[target[c]]
  BY <1>1, <1>2, <1>4 DEF TargetsOf, LeaveStages, PresenceStages
<1>6. QED BY <1>1, <1>3, <1>5

\* c's engine follows, and c tells its own node.
LEMMA ApplyShow ==
  ASSUME RoomsInv, FanInv, ShowInv, NEW c \in Conns, Apply(c)
  PROVE  ShowInv'
<1>1. /\ Others(c)
      /\ UNCHANGED <<channel, view, snap, down, conns, dropped, target, job>>
      /\ Resolve(c, c, target[c], job[c].payload, job[c].targets[target[c]])
      /\ \/ pc[c] = "leaveApply" /\ pc'[c] = "leaveReply" /\ connRooms'[c] = connRooms[c] \ {target[c]}
         \/ pc[c] = "presenceApply" /\ pc'[c] = "presenceReply" /\ connRooms'[c] = connRooms[c]
      /\ \A r \in Rooms : presence'[r][c] = IF r = target[c] THEN job[c].payload ELSE presence[r][c]
      /\ target[c] \in Rooms /\ job[c].payload \in Payloads \cup {NoPayload}
  BY ApplyOthers
<1>2. /\ SourceOf(c) /\ FanTypes /\ OverlapsKnown /\ ForeignOnly /\ HandsOf(c)
      /\ c \in Procs /\ c \notin Nodes
  BY RuntimeAssumption DEF FanInv, Procs
<1>3. /\ msg'[c] = [conn |-> c, room |-> target[c], state |-> job[c].payload]
      /\ out'[c] = job[c].targets[target[c]] \cap conns
      /\ \A q \in Procs \ {c} : msg'[q] = msg[q] /\ out'[q] = out[q]
  BY <1>1, <1>2, ResolveEffect
<1>4. overlap \subseteq overlap' /\ pc[c] \in FanStages /\ pc'[c] # "joinReply" /\ snap' = snap
  BY <1>1 DEF Others, FanStages
<1>5. out[c] = {}
  BY <1>1, <1>2 DEF HandsOf
<1> SUFFICES ASSUME NEW x \in Conns \ dropped', NEW r \in Rooms
             PROVE  /\ \A n \in Nodes : Published(n, x, r)'
                    /\ \A d \in Conns : Handed(d, x, r)' /\ ShownRight(d, x, r)' /\ Snapped(d, x, r)'
  BY DEF ShowInv
<1>6. /\ \A n \in Nodes : Published(n, x, r)
      /\ \A d \in Conns : Handed(d, x, r) /\ ShownRight(d, x, r) /\ Snapped(d, x, r)
      /\ x \notin dropped
  BY <1>1 DEF ShowInv
<1>7. ASSUME NEW n \in Nodes, ~(x = c /\ r = target[c] /\ n = NodeOf[c])
      PROVE  /\ \A s : Right(n, x, r, s) => Right(n, x, r, s)'
             /\ There(n, x, r) => There(n, x, r)'
  <2>1. CASE x # c
    BY <1>1, <2>1, OthersRight
  <2>2. CASE x = c
    <3>1. ~Due(c, r) /\ ~Due(c, r)' /\ ~Ahead(c, r)' /\ (Ahead(c, r) <=> r = target[c])
      BY <1>1 DEF Due, Ahead
    <3>2. CASE r # target[c]
      BY <1>1, <2>2, <3>1, <3>2 DEF Right, There
    <3>3. CASE r = target[c]
      <4>1. presence'[r][c] = job[c].payload
        BY <1>1, <3>3
      <4>2. job[c].payload # NoPayload => r \in connRooms'[c]
        BY <1>1, <1>2, <1>6, <2>2, <3>3 DEF SourceOf, LeaveStages, PresenceStages
      <4>3. QED BY <1>7, <2>2, <3>1, <3>3, <4>1, <4>2 DEF Right, There
    <3>4. QED BY <3>2, <3>3
  <2>3. QED BY <2>1, <2>2
<1>8. ~Carries(NodeOf[c], c, r) /\ NodeOf[c] \in Nodes
  BY <1>2, EngineAssumption DEF Carries, ForeignOnly, About
<1>9. \A n \in Nodes : Published(n, x, r)'
  <2> TAKE n \in Nodes
  <2>1. CASE x = c /\ r = target[c] /\ n = NodeOf[c]
    BY <1>1, <1>8, <2>1 DEF Published, Carries, About
  <2>2. CASE ~(x = c /\ r = target[c] /\ n = NodeOf[c])
    <3>1. \A s : Right(n, x, r, s) => Right(n, x, r, s)'
      BY <1>7, <2>2
    <3>2. channel' = channel /\ Published(n, x, r)
      BY <1>1, <1>6
    <3>3. QED BY <3>1, <3>2, PublishedKept
  <2>3. QED BY <2>1, <2>2
<1>10. ASSUME NEW d \in Conns PROVE Handed(d, x, r)' /\ ShownRight(d, x, r)' /\ Snapped(d, x, r)'
  <2>1. Snapped(d, x, r)'
    BY <1>1, <1>2, <1>4, <1>6, OthersSnapped
  <2>2. NodeOf[d] \in Nodes
    BY EngineAssumption
  <2>3. CASE x = c /\ r = target[c] /\ NodeOf[d] = NodeOf[c]
    <3>1. Carrier(d, x) = c
      BY <2>3 DEF Carrier
    <3>2. InHand(d, x, r)' <=> d \in job[c].targets[target[c]] \cap conns
      BY <1>3, <2>3, <3>1 DEF InHand, About, Carrier
    <3>3. Handed(d, x, r)'
      <4>1. msg'[c].state = presence'[r][c]
        BY <1>1, <1>3, <2>3
      <4>2. QED BY <2>3, <4>1 DEF Handed, Right, Carrier
    <3>4. ShownRight(d, x, r)'
      <4> SUFFICES ASSUME Views(d, r)', <<d, x>> \notin overlap'
                   PROVE  InHand(d, x, r)'
        BY DEF ShownRight
      <4>1. Views(d, target[c])'
        BY <1>1, <2>3 DEF Views
      <4>2. QED BY <1>4, <1>6, <2>3, <3>2, <4>1, ApplyReaches
    <3>5. QED BY <2>1, <3>3, <3>4
  <2>4. CASE ~(x = c /\ r = target[c] /\ NodeOf[d] = NodeOf[c])
    <3>1. /\ \A s : Right(NodeOf[d], x, r, s) => Right(NodeOf[d], x, r, s)'
          /\ There(NodeOf[d], x, r) => There(NodeOf[d], x, r)'
      BY <1>7, <2>2, <2>4
    <3>2. /\ InHand(d, x, r) <=> InHand(d, x, r)'
          /\ InHand(d, x, r) => msg'[Carrier(d, x)].state = msg[Carrier(d, x)].state
      <4>1. CASE Carrier(d, x) = c
        <5>1. x = c /\ NodeOf[d] = NodeOf[c]
          BY <1>2, <2>2, <4>1 DEF Carrier
        <5>2. ~InHand(d, x, r)
          BY <1>5, <4>1 DEF InHand
        <5>3. ~About(msg[c], x, r)'
          BY <1>3, <2>4, <5>1 DEF About
        <5>4. ~InHand(d, x, r)'
          BY <4>1, <5>3 DEF InHand, Carrier
        <5>5. QED BY <5>2, <5>4
      <4>2. CASE Carrier(d, x) # c
        <5>1. Carrier(d, x) \in Procs \ {c}
          BY <2>2, <4>2 DEF Carrier, Procs
        <5>2. QED BY <1>3, <5>1 DEF InHand, About, Carrier
      <4>3. QED BY <4>1, <4>2
    <3>3. Views(d, r)' => Views(d, r)
      <4>1. CASE d = c
        BY <1>1, <4>1 DEF Views, JoinStages
      <4>2. CASE d # c
        BY <1>1, <4>2, OthersView
      <4>3. QED BY <4>1, <4>2
    <3>4. Carries(NodeOf[d], x, r) <=> Carries(NodeOf[d], x, r)'
      BY <1>1 DEF Carries, About
    <3>5. view' = view
      BY <1>1
    <3>6. Handed(d, x, r)' /\ ShownRight(d, x, r)'
      BY <1>4, <1>6, <3>1, <3>2, <3>3, <3>4, <3>5, ShowKept
    <3>7. QED BY <2>1, <3>6
  <2>5. QED BY <2>3, <2>4
<1>11. QED BY <1>9, <1>10

\* Every node is told that c left the room, its own by c itself.
LEMMA FarewellShow ==
  ASSUME RoomsInv, FanInv, ShowInv, NEW c \in Conns, NEW t \in Rooms, Farewell(c, t)
  PROVE  ShowInv'
<1>1. /\ Others(c) /\ SeenSame(c)
      /\ pc[c] = "farewell" /\ pc'[c] = "farewell" /\ out[c] = {} /\ t \in job[c].rooms
      /\ UNCHANGED <<view, snap, down, conns, dropped, target>>
      /\ PublishPresence(c, t, NoPayload) /\ Resolve(c, c, t, NoPayload, job[c].targets[t])
      /\ job'[c].targets = job[c].targets /\ job'[c].rooms = job[c].rooms \ {t}
  BY FarewellOthers
<1>2. /\ SourceOf(c) /\ TargetsOf(c) /\ FanTypes /\ OverlapsKnown /\ c \in Procs /\ c \notin Nodes
      /\ FanInv' /\ ForeignOnly'
  BY RuntimeAssumption, FarewellFan DEF FanInv, Procs
<1>3. /\ msg'[c] = [conn |-> c, room |-> t, state |-> NoPayload]
      /\ out'[c] = job[c].targets[t] \cap conns
      /\ \A q \in Procs \ {c} : msg'[q] = msg[q] /\ out'[q] = out[q]
  BY <1>1, <1>2, ResolveEffect
<1>4. PICK e : e = [conn |-> c, room |-> t, state |-> NoPayload]
  OBVIOUS
<1>5. e.conn = c /\ e.room = t /\ e.state = NoPayload
  BY <1>4
<1>6. Told(c, e)
  <2>1. channel \in [Nodes -> Seq(PresenceEvent)]
    BY <1>2 DEF FanTypes
  <2>2. NoPayload \in Payloads \cup {NoPayload} /\ PublishPresence(c, t, NoPayload)
    BY <1>1
  <2>3. /\ \A n \in Nodes : n = NodeOf[c] => channel'[n] = channel[n]
        /\ \A n \in Nodes : n # NodeOf[c] =>
             /\ Len(channel'[n]) = Len(channel[n]) + 1
             /\ \A i \in 1..Len(channel[n]) : channel'[n][i] = channel[n][i]
             /\ channel'[n][Len(channel[n]) + 1] = [conn |-> c, room |-> t, state |-> NoPayload]
    BY <2>1, <2>2, PublishEffect
  <2>4. QED BY <1>4, <2>3 DEF Told
<1>7. overlap \subseteq overlap' /\ pc[c] \in FanStages /\ pc'[c] # "joinReply" /\ snap' = snap
  BY <1>1 DEF Others, FanStages
<1> SUFFICES ASSUME NEW x \in Conns \ dropped', NEW r \in Rooms
             PROVE  /\ \A n \in Nodes : Published(n, x, r)'
                    /\ \A d \in Conns : Handed(d, x, r)' /\ ShownRight(d, x, r)' /\ Snapped(d, x, r)'
  BY DEF ShowInv
<1>8. /\ \A n \in Nodes : Published(n, x, r)
      /\ \A d \in Conns : Handed(d, x, r) /\ ShownRight(d, x, r) /\ Snapped(d, x, r)
      /\ x \notin dropped
  BY <1>1 DEF ShowInv
<1>9. About(e, x, r) <=> x = c /\ r = t
  BY <1>5 DEF About
<1>10. ASSUME NEW n \in Nodes
       PROVE  IF x = c /\ r = t THEN Right(n, x, r, NoPayload)'
              ELSE /\ \A s : Right(n, x, r, s) => Right(n, x, r, s)'
                   /\ There(n, x, r) => There(n, x, r)'
  <2>1. CASE x # c
    BY <1>1, <2>1, OthersRight
  <2>2. CASE x = c
    <3>1. ~Ahead(c, r) /\ ~Ahead(c, r)' /\ (Due(c, r) <=> Due(c, r)' \/ r = t)
      BY <1>1 DEF Due, Ahead
    <3>2. connRooms'[c] = {} /\ connRooms[c] = {} /\ presence'[r][c] = presence[r][c]
      BY <1>1, <1>2 DEF SeenSame, SourceOf
    <3>3. presence[r][c] = NoPayload
      BY <1>2, <1>8, <2>2, <3>2 DEF SourceOf
    <3>4. CASE r = t
      BY <2>2, <3>1, <3>2, <3>3, <3>4 DEF Right
    <3>5. CASE r # t
      BY <2>2, <3>1, <3>2, <3>5 DEF Right, There
    <3>6. QED BY <3>4, <3>5
  <2>3. QED BY <2>1, <2>2
<1>11. \A n \in Nodes : Published(n, x, r)'
  <2> TAKE n \in Nodes
  <2>1. CASE n # NodeOf[c] /\ About(e, x, r)
    <3>1. Right(n, x, r, e.state)'
      BY <1>5, <1>9, <1>10, <2>1 DEF Right
    <3>2. QED BY <1>2, <1>6, <1>8, <2>1, <3>1, ToldPublished
  <2>2. CASE ~About(e, x, r)
    <3>1. \A s : Right(n, x, r, s) => Right(n, x, r, s)'
      BY <1>9, <1>10, <2>2
    <3>2. QED BY <1>2, <1>6, <1>8, <2>2, <3>1, ToldPublished
  <2>3. CASE n = NodeOf[c] /\ x = c
    BY <1>2, <2>3 DEF Published, ForeignOnly, About
  <2>4. QED BY <1>9, <2>1, <2>2, <2>3
<1>12. ASSUME NEW d \in Conns PROVE Handed(d, x, r)' /\ ShownRight(d, x, r)' /\ Snapped(d, x, r)'
  <2>1. Snapped(d, x, r)'
    BY <1>1, <1>2, <1>7, <1>8, OthersSnapped
  <2>2. NodeOf[d] \in Nodes
    BY EngineAssumption
  <2>3. Carries(NodeOf[d], x, r)' <=> Carries(NodeOf[d], x, r) \/ (NodeOf[d] # NodeOf[c] /\ About(e, x, r))
    BY <1>2, <1>6, <2>2, ToldCarries
  <2>4. CASE x = c /\ r = t /\ NodeOf[d] # NodeOf[c]
    <3>1. Carries(NodeOf[d], x, r)'
      BY <1>9, <2>3, <2>4
    <3>2. QED BY <2>1, <3>1 DEF Handed, ShownRight
  <2>5. CASE x = c /\ r = t /\ NodeOf[d] = NodeOf[c]
    <3>1. Carrier(d, x) = c
      BY <2>5 DEF Carrier
    <3>2. InHand(d, x, r)' <=> d \in job[c].targets[t] \cap conns
      BY <1>3, <2>5, <3>1 DEF InHand, About, Carrier
    <3>3. Handed(d, x, r)'
      <4>1. msg'[c].state = NoPayload
        BY <1>3
      <4>2. Right(NodeOf[d], x, r, NoPayload)'
        BY <1>10, <2>2, <2>5
      <4>3. QED BY <2>5, <4>1, <4>2 DEF Handed, Right, Carrier
    <3>4. ShownRight(d, x, r)'
      <4> SUFFICES ASSUME Views(d, r)', <<d, x>> \notin overlap'
                   PROVE  InHand(d, x, r)'
        BY DEF ShownRight
      <4>1. SourceOf(d)' /\ r \in connRooms'[d] /\ d \in conns
        BY <1>1, <1>2 DEF FanInv, Views, SourceOf
      <4>2. d # c
        BY <1>1, <4>1 DEF SourceOf
      <4>3. r \in connRooms[d]
        BY <1>1, <4>1, <4>2 DEF Others, EngineSame
      <4>4. d \in job[c].targets[t]
        BY <1>1, <1>2, <1>7, <2>5, <4>2, <4>3 DEF TargetsOf, EndStages
      <4>5. QED BY <3>2, <4>1, <4>4
    <3>5. QED BY <2>1, <3>3, <3>4
  <2>6. CASE ~(x = c /\ r = t)
    <3>1. /\ \A s : Right(NodeOf[d], x, r, s) => Right(NodeOf[d], x, r, s)'
          /\ There(NodeOf[d], x, r) => There(NodeOf[d], x, r)'
      BY <1>10, <2>2, <2>6
    <3>2. /\ InHand(d, x, r) <=> InHand(d, x, r)'
          /\ InHand(d, x, r) => msg'[Carrier(d, x)].state = msg[Carrier(d, x)].state
      <4>1. CASE Carrier(d, x) = c
        <5>1. x = c
          BY <1>2, <2>2, <4>1 DEF Carrier
        <5>2. ~InHand(d, x, r)
          BY <1>1, <4>1 DEF InHand
        <5>3. ~About(msg[c], x, r)'
          BY <1>3, <2>6, <5>1 DEF About
        <5>4. ~InHand(d, x, r)'
          BY <4>1, <5>3 DEF InHand, Carrier
        <5>5. QED BY <5>2, <5>4
      <4>2. CASE Carrier(d, x) # c
        <5>1. Carrier(d, x) \in Procs \ {c}
          BY <2>2, <4>2 DEF Carrier, Procs
        <5>2. QED BY <1>3, <5>1 DEF InHand, About, Carrier
      <4>3. QED BY <4>1, <4>2
    <3>3. Views(d, r)' => Views(d, r)
      <4>1. CASE d = c
        BY <1>1, <4>1 DEF Views
      <4>2. CASE d # c
        BY <1>1, <4>2, OthersView
      <4>3. QED BY <4>1, <4>2
    <3>4. Carries(NodeOf[d], x, r) <=> Carries(NodeOf[d], x, r)'
      BY <1>9, <2>3, <2>6
    <3>5. view' = view
      BY <1>1
    <3>6. Handed(d, x, r)' /\ ShownRight(d, x, r)'
      BY <1>7, <1>8, <3>1, <3>2, <3>3, <3>4, <3>5, ShowKept
    <3>7. QED BY <2>1, <3>6
  <2>7. QED BY <2>4, <2>5, <2>6
<1>13. QED BY <1>11, <1>12

\* The first event of a node's channel passes into its hands.
LEMMA ClusterShow ==
  ASSUME RoomsInv, FanInv, ShowInv, NEW n \in Nodes, HandleClusterPresence(n)
  PROVE  ShowInv'
<1>1. /\ UNCHANGED <<engineVars, storeVars, view, bounds, rtVars>> /\ out[n] = {}
      /\ Len(channel[n]) \in Nat /\ Len(channel[n]) >= 1 /\ Len(channel'[n]) = Len(channel[n]) - 1
      /\ \A m \in Nodes \ {n} : channel'[m] = channel[m]
      /\ \A i \in 1..Len(channel'[n]) : channel'[n][i] = channel[n][i + 1]
      /\ channel[n][1] \in PresenceEvent /\ msg'[n] = channel[n][1]
      /\ out'[n] = Members(n, channel[n][1].room) \cap conns
      /\ \A q \in Procs \ {n} : msg'[q] = msg[q] /\ out'[q] = out[q]
  BY ClusterEffect
<1>2. UNCHANGED <<presence, connRooms, rooms, view, pc, overlap, target, job, conns, down, snap, dropped>>
  BY <1>1 DEF rtVars, engineVars
<1>3. /\ ForeignOnly /\ ForeignOnly' /\ n \notin Conns /\ n \in Procs
      /\ \A d \in Conns : SourceOf(d) /\ d \in Procs
  BY ClusterFan, RuntimeAssumption DEF FanInv, Procs
<1>4. PICK e : e = channel[n][1]
  OBVIOUS
<1> SUFFICES ASSUME NEW x \in Conns \ dropped', NEW r \in Rooms
             PROVE  /\ \A m \in Nodes : Published(m, x, r)'
                    /\ \A d \in Conns : Handed(d, x, r)' /\ ShownRight(d, x, r)' /\ Snapped(d, x, r)'
  BY DEF ShowInv
<1>5. /\ \A m \in Nodes : Published(m, x, r)
      /\ \A d \in Conns : Handed(d, x, r) /\ ShownRight(d, x, r) /\ Snapped(d, x, r)
  BY <1>2 DEF ShowInv
<1>6. /\ \A m, s : Right(m, x, r, s) <=> Right(m, x, r, s)'
      /\ \A m : There(m, x, r) <=> There(m, x, r)'
  BY <1>2 DEF Right, There, Due, Ahead
<1>7. \A m \in Nodes : Published(m, x, r)'
  <2> TAKE m \in Nodes
  <2>1. CASE m # n
    <3>1. channel'[m] = channel[m] /\ Published(m, x, r)
      BY <1>1, <1>5, <2>1
    <3>2. \A s : Right(m, x, r, s) => Right(m, x, r, s)'
      BY <1>6
    <3>3. QED BY <3>1, <3>2 DEF Published, About, Right
  <2>2. CASE m = n
    <3> SUFFICES ASSUME NEW i \in 1..Len(channel'[n]), About(channel'[n][i], x, r),
                        \A j \in 1..Len(channel'[n]) : j > i => ~About(channel'[n][j], x, r),
                        NEW s, s = channel'[n][i].state
                 PROVE  Right(n, x, r, s)'
      BY <2>2 DEF Published, About, Right
    <3>1. i + 1 \in 1..Len(channel[n]) /\ channel'[n][i] = channel[n][i + 1]
      BY <1>1
    <3>2. \A j \in 1..Len(channel[n]) : j > i + 1 => ~About(channel[n][j], x, r)
      <4> SUFFICES ASSUME NEW j \in 1..Len(channel[n]), j > i + 1
                   PROVE  ~About(channel[n][j], x, r)
        OBVIOUS
      <4>1. j - 1 \in 1..Len(channel'[n]) /\ j - 1 > i /\ (j - 1) + 1 = j
        BY <1>1
      <4>2. channel'[n][j - 1] = channel[n][j]
        BY <1>1, <4>1
      <4>3. QED BY <4>1, <4>2
    <3>3. Right(n, x, r, s)
      BY <1>5, <3>1, <3>2 DEF Published
    <3>4. QED BY <1>6, <3>3
  <2>3. QED BY <2>1, <2>2
<1>8. Carries(n, x, r) <=> Carries(n, x, r)' \/ About(e, x, r)
  <2>1. ASSUME Carries(n, x, r) PROVE Carries(n, x, r)' \/ About(e, x, r)
    <3>1. PICK i \in 1..Len(channel[n]) : About(channel[n][i], x, r)
      BY <2>1 DEF Carries
    <3>2. CASE i = 1
      BY <1>4, <3>1, <3>2
    <3>3. CASE i # 1
      <4>1. i - 1 \in 1..Len(channel'[n]) /\ (i - 1) + 1 = i
        BY <1>1, <3>3
      <4>2. channel'[n][i - 1] = channel[n][i]
        BY <1>1, <4>1
      <4>3. QED BY <3>1, <4>1, <4>2 DEF Carries, About
    <3>4. QED BY <3>2, <3>3
  <2>2. ASSUME Carries(n, x, r)' PROVE Carries(n, x, r)
    <3>1. PICK i \in 1..Len(channel'[n]) : About(channel'[n][i], x, r)
      BY <2>2 DEF Carries, About
    <3>2. i + 1 \in 1..Len(channel[n]) /\ channel'[n][i] = channel[n][i + 1]
      BY <1>1
    <3>3. QED BY <3>1, <3>2 DEF Carries
  <2>3. ASSUME About(e, x, r) PROVE Carries(n, x, r)
    <3>1. 1 \in 1..Len(channel[n])
      BY <1>1
    <3>2. QED BY <1>4, <2>3, <3>1 DEF Carries
  <2>4. QED BY <2>1, <2>2, <2>3
<1>9. ASSUME NEW d \in Conns PROVE Handed(d, x, r)' /\ ShownRight(d, x, r)' /\ Snapped(d, x, r)'
  <2>1. Snapped(d, x, r)'
    BY <1>2, <1>5 DEF Snapped
  <2>2. NodeOf[d] \in Nodes
    BY EngineAssumption
  <2>3. Views(d, r)' <=> Views(d, r)
    BY <1>2 DEF Views
  <2>4. CASE NodeOf[d] = n /\ NodeOf[x] # n /\ About(e, x, r)
    <3>1. Carrier(d, x) = n
      BY <2>4 DEF Carrier
    <3>2. e.conn = x /\ e.room = r /\ msg'[n] = e
      BY <1>1, <1>4, <2>4 DEF About
    <3>3. InHand(d, x, r)' <=> d \in Members(n, r) \cap conns
      BY <1>1, <1>4, <3>1, <3>2 DEF InHand, About, Carrier
    <3>4. Handed(d, x, r)'
      <4> SUFFICES ASSUME ~Carries(n, x, r)' PROVE Right(n, x, r, e.state)'
        BY <2>4, <3>1, <3>2 DEF Handed, Right, Carrier
      <4>1. 1 \in 1..Len(channel[n])
        BY <1>1
      <4>2. \A j \in 1..Len(channel[n]) : j > 1 => ~About(channel[n][j], x, r)
        <5> SUFFICES ASSUME NEW j \in 1..Len(channel[n]), j > 1
                     PROVE  ~About(channel[n][j], x, r)
          OBVIOUS
        <5>1. j - 1 \in 1..Len(channel'[n]) /\ (j - 1) + 1 = j
          BY <1>1
        <5>2. channel'[n][j - 1] = channel[n][j]
          BY <1>1, <5>1
        <5>3. QED BY <5>1, <5>2 DEF Carries, About
      <4>3. Right(n, x, r, e.state)
        BY <1>4, <1>5, <2>4, <4>1, <4>2 DEF Published
      <4>4. QED BY <1>6, <4>3
    <3>5. ShownRight(d, x, r)'
      <4> SUFFICES ASSUME Views(d, r)' PROVE InHand(d, x, r)'
        BY DEF ShownRight
      <4>1. r \in connRooms[d] /\ d \in conns
        BY <1>3, <2>3 DEF Views, SourceOf
      <4>2. d \in Members(n, r)
        BY <2>4, <4>1 DEF Members, RoomsInv, IInv, MembershipMirror
      <4>3. QED BY <3>3, <4>1, <4>2
    <3>6. QED BY <2>1, <3>4, <3>5
  <2>5. CASE ~(NodeOf[d] = n /\ NodeOf[x] # n /\ About(e, x, r))
    <3>1. Carries(NodeOf[d], x, r) <=> Carries(NodeOf[d], x, r)'
      <4>1. CASE NodeOf[d] # n
        BY <1>1, <2>2, <4>1 DEF Carries, About
      <4>2. CASE NodeOf[d] = n /\ NodeOf[x] = n
        BY <1>3, <2>2, <4>2 DEF Carries, About, ForeignOnly
      <4>3. CASE NodeOf[d] = n /\ NodeOf[x] # n
        BY <1>8, <2>5, <4>3
      <4>4. QED BY <4>1, <4>2, <4>3
    <3>2. /\ InHand(d, x, r) <=> InHand(d, x, r)'
          /\ InHand(d, x, r) => msg'[Carrier(d, x)].state = msg[Carrier(d, x)].state
      <4>1. CASE Carrier(d, x) = n
        <5>1. NodeOf[d] = n /\ NodeOf[x] # n
          BY <1>3, <4>1 DEF Carrier
        <5>2. ~InHand(d, x, r)
          BY <1>1, <4>1 DEF InHand
        <5>3. ~About(msg[n], x, r)'
          BY <1>1, <1>4, <2>5, <5>1 DEF About
        <5>4. ~InHand(d, x, r)'
          BY <4>1, <5>3 DEF InHand, Carrier
        <5>5. QED BY <5>2, <5>4
      <4>2. CASE Carrier(d, x) # n
        <5>1. Carrier(d, x) \in Procs \ {n}
          BY <2>2, <4>2 DEF Carrier, Procs
        <5>2. QED BY <1>1, <5>1 DEF InHand, About, Carrier
      <4>3. QED BY <4>1, <4>2
    <3>3. /\ \A s : Right(NodeOf[d], x, r, s) => Right(NodeOf[d], x, r, s)'
          /\ There(NodeOf[d], x, r) => There(NodeOf[d], x, r)'
      BY <1>6
    <3>4. view' = view /\ overlap \subseteq overlap'
      BY <1>2
    <3>5. Handed(d, x, r)' /\ ShownRight(d, x, r)'
      BY <1>5, <2>3, <3>1, <3>2, <3>3, <3>4, ShowKept
    <3>6. QED BY <2>1, <3>5
  <2>6. QED BY <2>4, <2>5
<1>10. QED BY <1>7, <1>9

\* A goroutine hands a target what it tells of its source.
LEMMA HandsCarry ==
  ASSUME NEW p \in Procs, HandsOf(p), NEW d \in out[p]
  PROVE  Carrier(d, msg[p].conn) = p
BY RuntimeAssumption DEF HandsOf, Carrier, Procs

\* The target then shows it.
LEMMA EnqueueShow ==
  ASSUME RoomsInv, FanInv, ShowInv, NEW p \in Procs, NEW t \in Conns, Enqueue(p, t)
  PROVE  ShowInv'
<1>1. /\ UNCHANGED <<engineVars, storeVars, channel, msg, bounds, rtVars>>
      /\ t \in out[p] /\ t \notin down /\ msg[p] \in PresenceEvent
      /\ \A q \in Procs : out'[q] = IF q = p THEN out[p] \ {t} ELSE out[q]
      /\ \A d \in Conns, r \in Rooms :
           view'[d][r] = IF d = t /\ r = msg[p].room THEN Show(view[t][r], msg[p]) ELSE view[d][r]
  BY EnqueueEffect
<1>2. UNCHANGED <<presence, connRooms, rooms, pc, overlap, target, job, conns, down, snap, dropped>>
  BY <1>1 DEF rtVars, engineVars
<1>3. Carrier(t, msg[p].conn) = p /\ FanTypes
  BY <1>1, HandsCarry DEF FanInv
<1> SUFFICES ASSUME NEW x \in Conns \ dropped', NEW r \in Rooms
             PROVE  /\ \A n \in Nodes : Published(n, x, r)'
                    /\ \A d \in Conns : Handed(d, x, r)' /\ ShownRight(d, x, r)' /\ Snapped(d, x, r)'
  BY DEF ShowInv
<1>4. /\ \A n \in Nodes : Published(n, x, r)
      /\ \A d \in Conns : Handed(d, x, r) /\ ShownRight(d, x, r) /\ Snapped(d, x, r)
      /\ SourceOf(x) /\ x \notin dropped
  BY <1>2 DEF ShowInv, FanInv
<1>5. /\ \A n, s : Right(n, x, r, s) <=> Right(n, x, r, s)'
      /\ \A n : There(n, x, r) <=> There(n, x, r)'
  BY <1>2 DEF Right, There, Due, Ahead
<1>6. \A n \in Nodes : Published(n, x, r)'
  <2> TAKE n \in Nodes
  <2>1. (\A s : Right(n, x, r, s) => Right(n, x, r, s)') /\ channel' = channel
    BY <1>1, <1>5
  <2>2. QED BY <1>4, <2>1, PublishedKept
<1>7. ASSUME NEW d \in Conns PROVE Handed(d, x, r)' /\ ShownRight(d, x, r)' /\ Snapped(d, x, r)'
  <2>1. Snapped(d, x, r)'
    BY <1>2, <1>4 DEF Snapped
  <2>2. (Views(d, r)' <=> Views(d, r)) /\ Carrier(d, x) \in Procs
    BY <1>2, EngineAssumption DEF Views, Carrier, Procs
  <2>3. Carries(NodeOf[d], x, r) <=> Carries(NodeOf[d], x, r)'
    BY <1>1 DEF Carries, About
  <2>4. /\ \A s : Right(NodeOf[d], x, r, s) <=> Right(NodeOf[d], x, r, s)'
        /\ There(NodeOf[d], x, r) <=> There(NodeOf[d], x, r)'
    BY <1>5
  <2>5. CASE d = t /\ About(msg[p], x, r)
    <3>1. x = msg[p].conn /\ r = msg[p].room /\ Carrier(d, x) = p
      BY <1>3, <2>5 DEF About
    <3>2. InHand(d, x, r) /\ ~InHand(d, x, r)'
      BY <1>1, <2>5, <3>1 DEF InHand, Carrier
    <3>3. view[d][r] \in View
      BY <1>3 DEF FanTypes
    <3>4. /\ view'[d][r].presence[x] = msg[p].state
          /\ x \in view'[d][r].members => msg[p].state # NoPayload
      <4>1. PICK v, e : v = view[d][r] /\ e = msg[p]
        OBVIOUS
      <4>2. view'[d][r] = Show(v, e)
        BY <1>1, <2>5, <3>1, <4>1
      <4>3. v \in View /\ e \in PresenceEvent /\ x = e.conn
        BY <1>1, <3>1, <3>3, <4>1
      <4>4. /\ Show(v, e).presence[x] = e.state
            /\ x \in Show(v, e).members => e.state # NoPayload
        BY <4>3, ShowIsView
      <4>5. QED BY <4>1, <4>2, <4>4
    <3>5. ASSUME ~Carries(NodeOf[d], x, r)
          PROVE  /\ Right(NodeOf[d], x, r, msg[p].state)
                 /\ msg[p].state # NoPayload => There(NodeOf[d], x, r)
      <4>1. Right(NodeOf[d], x, r, msg[p].state)
        BY <1>4, <3>1, <3>2, <3>5 DEF Handed
      <4>2. presence[r][x] # NoPayload => r \in connRooms[x]
        BY <1>4 DEF SourceOf
      <4>3. QED BY <4>1, <4>2 DEF Right, There
    <3>6. Handed(d, x, r)'
      BY <3>2 DEF Handed
    <3>7. ShownRight(d, x, r)'
      <4> SUFFICES ASSUME ~Carries(NodeOf[d], x, r)'
                   PROVE  /\ Right(NodeOf[d], x, r, view'[d][r].presence[x])
                          /\ x \in view'[d][r].members => There(NodeOf[d], x, r)
        BY <2>4 DEF ShownRight, Right
      <4>1. QED BY <2>3, <3>4, <3>5
    <3>8. QED BY <2>1, <3>6, <3>7
  <2>6. CASE ~(d = t /\ About(msg[p], x, r))
    <3>1. InHand(d, x, r) <=> InHand(d, x, r)'
      <4>1. CASE Carrier(d, x) = p
        BY <1>1, <2>6, <4>1 DEF InHand, Carrier, About
      <4>2. CASE Carrier(d, x) # p
        BY <1>1, <2>2, <4>2 DEF InHand, Carrier, About
      <4>3. QED BY <4>1, <4>2
    <3>2. /\ view'[d][r].presence[x] = view[d][r].presence[x]
          /\ x \in view'[d][r].members => x \in view[d][r].members
      <4>1. CASE d = t /\ r = msg[p].room
        <5>1. x # msg[p].conn
          BY <2>6, <4>1 DEF About
        <5>2. view[d][r] \in View
          BY <1>3 DEF FanTypes
        <5>3. PICK v, e : v = view[d][r] /\ e = msg[p]
          OBVIOUS
        <5>4. view'[d][r] = Show(v, e)
          BY <1>1, <4>1, <5>3
        <5>5. v \in View /\ e \in PresenceEvent /\ x # e.conn
          BY <1>1, <5>1, <5>2, <5>3
        <5>6. /\ Show(v, e).presence[x] = v.presence[x]
              /\ x \in Show(v, e).members => x \in v.members
          BY <5>5, ShowIsView
        <5>7. QED BY <5>3, <5>4, <5>6
      <4>2. CASE ~(d = t /\ r = msg[p].room)
        BY <1>1, <4>2
      <4>3. QED BY <4>1, <4>2
    <3>3. msg' = msg /\ overlap \subseteq overlap'
      BY <1>1, <1>2
    <3>4. Handed(d, x, r)' /\ ShownRight(d, x, r)'
      BY <1>4, <2>2, <2>3, <2>4, <3>1, <3>2, <3>3, ShowKept
    <3>5. QED BY <2>1, <3>4
  <2>7. QED BY <2>5, <2>6
<1>8. QED BY <1>6, <1>7

\* A closed socket shows nothing any more.
LEMMA EnqueueLostShow ==
  ASSUME RoomsInv, FanInv, ShowInv, NEW p \in Procs, NEW t \in Conns, EnqueueLost(p, t)
  PROVE  ShowInv'
<1>1. /\ UNCHANGED <<engineVars, storeVars, channel, msg, view, bounds, rtVars>>
      /\ t \in down /\ out' = [out EXCEPT ![p] = out[p] \ {t}]
  BY DEF EnqueueLost
<1>2. UNCHANGED <<presence, connRooms, rooms, pc, overlap, target, job, conns, down, snap, dropped>>
  BY <1>1 DEF rtVars, engineVars
<1>3. \A q \in Procs : out'[q] = IF q = p THEN out[p] \ {t} ELSE out[q]
  BY <1>1 DEF FanInv, FanTypes
<1> SUFFICES ASSUME NEW x \in Conns \ dropped', NEW r \in Rooms
             PROVE  /\ \A n \in Nodes : Published(n, x, r)'
                    /\ \A d \in Conns : Handed(d, x, r)' /\ ShownRight(d, x, r)' /\ Snapped(d, x, r)'
  BY DEF ShowInv
<1>4. /\ \A n \in Nodes : Published(n, x, r)
      /\ \A d \in Conns : Handed(d, x, r) /\ ShownRight(d, x, r) /\ Snapped(d, x, r)
  BY <1>2 DEF ShowInv
<1>5. /\ \A n, s : Right(n, x, r, s) <=> Right(n, x, r, s)'
      /\ \A n : There(n, x, r) <=> There(n, x, r)'
  BY <1>2 DEF Right, There, Due, Ahead
<1>6. \A n \in Nodes : Published(n, x, r)'
  <2> TAKE n \in Nodes
  <2>1. (\A s : Right(n, x, r, s) => Right(n, x, r, s)') /\ channel' = channel
    BY <1>1, <1>5
  <2>2. QED BY <1>4, <2>1, PublishedKept
<1>7. ASSUME NEW d \in Conns PROVE Handed(d, x, r)' /\ ShownRight(d, x, r)' /\ Snapped(d, x, r)'
  <2>1. Snapped(d, x, r)'
    BY <1>2, <1>4 DEF Snapped
  <2>2. (Views(d, r)' <=> Views(d, r)) /\ (d = t => ~Views(d, r)) /\ Carrier(d, x) \in Procs
    BY <1>1, <1>2, EngineAssumption DEF Views, Carrier, Procs
  <2>3. Carries(NodeOf[d], x, r) <=> Carries(NodeOf[d], x, r)'
    BY <1>1 DEF Carries, About
  <2>4. /\ \A s : Right(NodeOf[d], x, r, s) <=> Right(NodeOf[d], x, r, s)'
        /\ There(NodeOf[d], x, r) <=> There(NodeOf[d], x, r)'
    BY <1>5
  <2>5. /\ InHand(d, x, r)' => InHand(d, x, r)
        /\ d # t => (InHand(d, x, r)' <=> InHand(d, x, r))
    BY <1>1, <1>3, <2>2 DEF InHand, Carrier, About
  <2>6. msg' = msg /\ view' = view /\ overlap' = overlap
    BY <1>1, <1>2
  <2>7. Handed(d, x, r)'
    BY <1>4, <2>3, <2>4, <2>5, <2>6 DEF Handed, Right, Carrier
  <2>8. ShownRight(d, x, r)'
    BY <1>4, <2>2, <2>3, <2>4, <2>5, <2>6 DEF ShownRight, Right
  <2>9. QED BY <2>1, <2>7, <2>8
<1>8. QED BY <1>6, <1>7

\* A fan-out that is cut short is only of a connection that is now dropped.
LEMMA AbortShow ==
  ASSUME RoomsInv, FanInv, ShowInv, NEW p \in Procs, NEW t \in Conns,
         EnqueueClosed(p, t) \/ EnqueueOverflow(p, t)
  PROVE  ShowInv'
<1>1. /\ UNCHANGED <<engineVars, storeVars, channel, msg, view, target, job, conns, snap>>
      /\ down \subseteq down'
      /\ msg[p].conn \in dropped' /\ dropped \subseteq dropped'
      /\ overlap \subseteq overlap' /\ out'[p] = {}
      /\ \A q \in Procs \ {p} : out'[q] = out[q]
      /\ \A x \in Conns : pc'[x] = pc[x] \/ (x = p /\ pc'[x] = "closing" /\ x \in dropped')
  BY AbortFan
<1>2. UNCHANGED <<presence, connRooms>>
  BY <1>1 DEF engineVars
<1> SUFFICES ASSUME NEW x \in Conns \ dropped', NEW r \in Rooms
             PROVE  /\ \A n \in Nodes : Published(n, x, r)'
                    /\ \A d \in Conns : Handed(d, x, r)' /\ ShownRight(d, x, r)' /\ Snapped(d, x, r)'
  BY DEF ShowInv
<1>3. /\ \A n \in Nodes : Published(n, x, r)
      /\ \A d \in Conns : Handed(d, x, r) /\ ShownRight(d, x, r) /\ Snapped(d, x, r)
  BY <1>1 DEF ShowInv
<1>4. pc'[x] = pc[x] /\ x # msg[p].conn
  BY <1>1
<1>5. /\ \A n, s : Right(n, x, r, s) <=> Right(n, x, r, s)'
      /\ \A n : There(n, x, r) <=> There(n, x, r)'
  BY <1>1, <1>2, <1>4 DEF Right, There, Due, Ahead
<1>6. \A n \in Nodes : Published(n, x, r)'
  <2> TAKE n \in Nodes
  <2>1. (\A s : Right(n, x, r, s) => Right(n, x, r, s)') /\ channel' = channel
    BY <1>1, <1>5
  <2>2. QED BY <1>3, <2>1, PublishedKept
<1>7. ASSUME NEW d \in Conns PROVE Handed(d, x, r)' /\ ShownRight(d, x, r)' /\ Snapped(d, x, r)'
  <2>1. pc'[d] = pc[d] \/ pc'[d] = "closing"
    BY <1>1
  <2>2. Snapped(d, x, r)'
    BY <1>1, <1>2, <1>3, <2>1 DEF Snapped
  <2>3. (Views(d, r)' => Views(d, r)) /\ Carrier(d, x) \in Procs
    BY <1>1, <1>2, <2>1, EngineAssumption DEF Views, Carrier, Procs
  <2>4. Carries(NodeOf[d], x, r) <=> Carries(NodeOf[d], x, r)'
    BY <1>1 DEF Carries, About
  <2>5. /\ \A s : Right(NodeOf[d], x, r, s) => Right(NodeOf[d], x, r, s)'
        /\ There(NodeOf[d], x, r) => There(NodeOf[d], x, r)'
    BY <1>5
  <2>6. InHand(d, x, r) <=> InHand(d, x, r)'
    <3>1. CASE Carrier(d, x) = p
      BY <1>1, <1>4, <3>1 DEF InHand, Carrier, About
    <3>2. CASE Carrier(d, x) # p
      BY <1>1, <2>3, <3>2 DEF InHand, Carrier, About
    <3>3. QED BY <3>1, <3>2
  <2>7. msg' = msg /\ view' = view /\ overlap \subseteq overlap'
    BY <1>1
  <2>8. Handed(d, x, r)' /\ ShownRight(d, x, r)'
    BY <1>3, <2>3, <2>4, <2>5, <2>6, <2>7, ShowKept
  <2>9. QED BY <2>2, <2>8
<1>8. QED BY <1>6, <1>7

-----------------------------------------------------------------------------
(* The views invariant.                                                    *)

\* Nothing is on its way, and nobody shows anything.
LEMMA ViewsInvInit == RuntimeInit => ViewsInv
<1> SUFFICES ASSUME RuntimeInit PROVE ViewsInv
  OBVIOUS
<1>1. /\ RoomsInv /\ out = [p \in Procs |-> {}] /\ channel = [n \in Nodes |-> << >>]
      /\ pc = [c \in Conns |-> "new"] /\ connRooms = [c \in Conns |-> {}]
      /\ job = [c \in Conns |-> NoPlan]
  BY RoomsInvInit DEF RuntimeInit, Init
<1>2. FanTypes
  <2>1. EmptyView \in View
    BY DEF EmptyView, View
  <2>2. << >> \in Seq(PresenceEvent)
    OBVIOUS
  <2>3. snap = [c \in Conns |-> EmptyView] /\ view = [c \in Conns |-> [r \in Rooms |-> EmptyView]]
        /\ down = {} /\ msg = [p \in Procs |-> NoEvent]
    BY DEF RuntimeInit
  <2> HIDE DEF RuntimeInit
  <2>4. snap \in [Conns -> View] /\ view \in [Conns -> [Rooms -> View]]
    BY <2>1, <2>3
  <2>5. channel \in [Nodes -> Seq(PresenceEvent)]
    BY <1>1, <2>2
  <2>6. QED BY <1>1, <2>3, <2>4, <2>5 DEF FanTypes
<1>3. \A p \in Procs : HandsOf(p)
  BY <1>1 DEF HandsOf
<1>4. \A n \in Nodes : Len(channel[n]) = 0
  BY <1>1
<1>5. ForeignOnly
  BY <1>4 DEF ForeignOnly
<1>6. \A c \in Conns : SourceOf(c)
  BY <1>1 DEF RuntimeInit, Init, SourceOf, JoinStages, LeaveStages, PresenceStages
<1>7. \A c \in Conns : TargetsOf(c)
  <2>1. \A c \in Conns, r \in Rooms : job[c].targets[r] = {}
    BY <1>1 DEF NoPlan, NoTargets
  <2>2. QED BY <1>1, <2>1 DEF TargetsOf, LeaveStages, PresenceStages, EndStages
<1>8. OverlapsKnown
  BY <1>1 DEF OverlapsKnown, JoinStages
<1>9. ShowInv
  <2>1. \A n \in Nodes : ~ \E i \in 1..Len(channel[n]) : TRUE
    BY <1>4
  <2>2. \A n \in Nodes, c \in Conns, r \in Rooms : Published(n, c, r)
    BY <2>1 DEF Published
  <2>3. \A d, c \in Conns, r \in Rooms : Handed(d, c, r)
    <3> TAKE d, c \in Conns, r \in Rooms
    <3>1. Carrier(d, c) \in Procs
      BY EngineAssumption DEF Carrier, Procs
    <3>2. QED BY <1>1, <3>1 DEF Handed, InHand
  <2>4. \A d, c \in Conns, r \in Rooms : ShownRight(d, c, r) /\ Snapped(d, c, r)
    BY <1>1 DEF ShownRight, Views, Snapped
  <2>5. QED BY <2>2, <2>3, <2>4 DEF ShowInv
<1>10. QED BY <1>1, <1>2, <1>3, <1>5, <1>6, <1>7, <1>8, <1>9 DEF ViewsInv, FanInv

\* What is shown stays right when what is shown and what it is of stay.
LEMMA StillShow ==
  ASSUME FanInv, ShowInv, NEW c \in Conns, Quiet(c), pc'[c] # "joinReply", UNCHANGED <<view, snap>>
  PROVE  ShowInv'
<1>1. \A x \in Conns \ dropped', r \in Rooms : Snapped(c, x, r)'
  BY DEF Snapped
<1>2. QED BY <1>1, QuietShow

\* A handler's own steps.
LEMMA HandlerViews ==
  ASSUME RoomsInv, FanInv, ShowInv, NEW c \in Conns, Handler(c)
  PROVE  FanInv' /\ ShowInv'
<1>1. CASE JoinStore(c) \/ LeaveStore(c) \/ PresenceStore(c)
  <2>1. FanInv' /\ Quiet(c) /\ pc'[c] # "joinReply" /\ UNCHANGED <<view, snap>>
    <3>1. CASE JoinStore(c)
      BY <3>1, JoinStoreFan DEF JoinStore
    <3>2. CASE LeaveStore(c)
      BY <3>2, LeaveStoreFan DEF LeaveStore
    <3>3. CASE PresenceStore(c)
      BY <3>3, PresenceStoreFan DEF PresenceStore
    <3>4. QED BY <1>1, <3>1, <3>2, <3>3
  <2>2. QED BY <2>1, StillShow
<1>2. CASE JoinSnapshot(c)
  BY <1>2, JoinSnapshotFan, JoinSnapshotShow
<1>3. CASE JoinReply(c)
  BY <1>3, JoinReplyFan, JoinReplyShow
<1>4. CASE Publish(c)
  BY <1>4, PublishFan, PublishShow
<1>5. CASE Apply(c)
  BY <1>5, ApplyFan, ApplyShow
<1>6. CASE Reply(c)
  <2>1. /\ FanInv' /\ Quiet(c) /\ pc'[c] # "joinReply" /\ UNCHANGED snap
        /\ \A d \in Conns, r \in Rooms : Views(d, r)' => view'[d][r] = view[d][r]
    BY <1>6, ReplyFan
  <2>2. \A x \in Conns \ dropped', r \in Rooms : Snapped(c, x, r)'
    BY <2>1 DEF Snapped
  <2>3. QED BY <2>1, <2>2, QuietShow
<1>7. CASE PlanDisconnect(c)
  BY <1>7, PlanDisconnectFan, StillShow
<1>8. CASE Disconnect(c)
  BY <1>8, DisconnectFan, StillShow
<1>9. CASE Unlink(c)
  BY <1>9, UnlinkFan, StillShow
<1>10. CASE Cleanup(c)
  BY <1>10, CleanupFan, StillShow
<1>11. CASE \E r \in Rooms : Farewell(c, r)
  BY <1>11, FarewellFan, FarewellShow
<1>12. CASE Finish(c)
  BY <1>12, FinishFan, StillShow
<1>13. QED BY <1>1, <1>2, <1>3, <1>4, <1>5, <1>6, <1>7, <1>8, <1>9, <1>10, <1>11, <1>12 DEF Handler

\* A connection, its requests and its closing.
LEMMA RequestViews ==
  ASSUME RoomsInv, FanInv, ShowInv, NEW c \in Conns, Request(c)
  PROVE  FanInv' /\ ShowInv'
<1>1. FanInv' /\ Quiet(c) /\ pc'[c] # "joinReply" /\ UNCHANGED <<view, snap>>
  BY RegisterConnFan, HangupFan, HandleJoinFan, HandleLeaveFan, HandlePresenceFan DEF Request
<1>2. QED BY <1>1, StillShow

\* Failing Redis calls, and full queues.
LEMMA FaultViews ==
  ASSUME RoomsInv, FanInv, ShowInv, NEW c \in Conns, Fault(c)
  PROVE  FanInv' /\ ShowInv'
<1>1. CASE StoreFails(c) \/ CleanupFails(c) \/ \E r \in Rooms : FarewellFails(c, r)
  <2>1. FanInv' /\ Quiet(c) /\ pc'[c] # "joinReply" /\ UNCHANGED <<view, snap>>
    BY <1>1, StoreFailsFan, CleanupFailsFan, FarewellFailsFan
  <2>2. QED BY <2>1, StillShow
<1>2. ASSUME NEW p \in Procs, EnqueueOverflow(p, c) PROVE FanInv' /\ ShowInv'
  BY <1>2, AbortFan, AbortShow
<1>3. QED BY <1>1, <1>2 DEF Fault

\* Every action, by the lemmas about it.
LEMMA ViewsInvStep ==
  ASSUME ViewsInv, RuntimeNext
  PROVE  ViewsInv'
<1>1. RoomsInv /\ FanInv /\ ShowInv /\ RoomsInv'
  BY RoomsInvStep DEF ViewsInv
<1>2. ASSUME NEW c \in Conns, Handler(c) \/ Request(c) \/ Fault(c) PROVE FanInv' /\ ShowInv'
  BY <1>1, <1>2, HandlerViews, RequestViews, FaultViews
<1>3. ASSUME NEW n \in Nodes, HandleClusterPresence(n) PROVE FanInv' /\ ShowInv'
  BY <1>1, <1>3, ClusterFan, ClusterShow
<1>4. ASSUME NEW p \in Procs, FanOut(p) PROVE FanInv' /\ ShowInv'
  <2>1. PICK d \in Conns : Enqueue(p, d) \/ EnqueueLost(p, d) \/ EnqueueClosed(p, d)
    BY <1>4 DEF FanOut
  <2>2. CASE Enqueue(p, d)
    BY <1>1, <2>2, EnqueueFan, EnqueueShow
  <2>3. CASE EnqueueLost(p, d)
    BY <1>1, <2>3, EnqueueFan, EnqueueLostShow
  <2>4. CASE EnqueueClosed(p, d)
    BY <1>1, <2>4, AbortFan, AbortShow
  <2>5. QED BY <2>1, <2>2, <2>3, <2>4
<1>5. FanInv' /\ ShowInv'
  BY <1>2, <1>3, <1>4 DEF RuntimeNext
<1>6. QED BY <1>1, <1>5 DEF ViewsInv

\* And where nothing changes.
LEMMA ViewsInvStutter ==
  ASSUME ViewsInv, UNCHANGED runtimeVars
  PROVE  ViewsInv'
<1>1. RoomsInv' /\ FanInv /\ ShowInv
  BY RoomsInvStutter DEF ViewsInv
<1>2. UNCHANGED <<engineVars, storeVars, channel, msg, out, view, pc, overlap, target, job, conns,
                  down, snap, dropped>>
  BY DEF runtimeVars, fanVars, rtVars
<1>3. UNCHANGED <<presence, connRooms>>
  BY <1>2 DEF engineVars
<1>4. FanInv'
  <2>1. OverlapsKnown' /\ \A x \in Conns : SourceOf(x)' /\ TargetsOf(x)'
    BY <1>1, <1>2, StillSources
  <2>2. FanTypes' /\ ForeignOnly' /\ \A p \in Procs : HandsOf(p)'
    BY <1>1, <1>2 DEF FanInv, FanTypes, ForeignOnly, HandsOf
  <2>3. QED BY <2>1, <2>2 DEF FanInv
<1>5. ShowInv'
  <2> SUFFICES ASSUME NEW x \in Conns \ dropped', NEW r \in Rooms
               PROVE  /\ \A n \in Nodes : Published(n, x, r)'
                      /\ \A d \in Conns : Handed(d, x, r)' /\ ShownRight(d, x, r)' /\ Snapped(d, x, r)'
    BY DEF ShowInv
  <2>1. /\ \A n \in Nodes : Published(n, x, r)
        /\ \A d \in Conns : Handed(d, x, r) /\ ShownRight(d, x, r) /\ Snapped(d, x, r)
    BY <1>1, <1>2 DEF ShowInv
  <2>2. /\ \A n, s : Right(n, x, r, s) <=> Right(n, x, r, s)'
        /\ \A n : There(n, x, r) <=> There(n, x, r)'
    BY <1>2, <1>3 DEF Right, There, Due, Ahead
  <2>3. \A n \in Nodes : Published(n, x, r)'
    <3> TAKE n \in Nodes
    <3>1. (\A s : Right(n, x, r, s) => Right(n, x, r, s)') /\ channel' = channel
      BY <1>2, <2>2
    <3>2. QED BY <2>1, <3>1, PublishedKept
  <2>4. ASSUME NEW d \in Conns PROVE Handed(d, x, r)' /\ ShownRight(d, x, r)' /\ Snapped(d, x, r)'
    <3>1. Snapped(d, x, r)'
      BY <1>2, <1>3, <2>1 DEF Snapped
    <3>2. /\ Carries(NodeOf[d], x, r) <=> Carries(NodeOf[d], x, r)'
          /\ InHand(d, x, r) <=> InHand(d, x, r)'
          /\ Views(d, r)' <=> Views(d, r)
      BY <1>2, <1>3 DEF Carries, InHand, About, Carrier, Views
    <3>3. /\ \A s : Right(NodeOf[d], x, r, s) => Right(NodeOf[d], x, r, s)'
          /\ There(NodeOf[d], x, r) => There(NodeOf[d], x, r)'
      BY <2>2
    <3>4. msg' = msg /\ view' = view /\ overlap \subseteq overlap'
      BY <1>2
    <3>5. Handed(d, x, r)' /\ ShownRight(d, x, r)'
      BY <2>1, <3>2, <3>3, <3>4, ShowKept
    <3>6. QED BY <3>1, <3>5
  <2>5. QED BY <2>3, <2>4
<1>6. QED BY <1>1, <1>4, <1>5 DEF ViewsInv

\* Under any interleaving of handlers, fan-outs, the subscribers of the nodes
\* and failures: the last event of a connection that a client's node has still
\* to hear is right, so is the one its goroutine is handing out, and if there
\* is neither, so is what the client shows.
THEOREM ViewsInvariant == RuntimeSpec => []ViewsInv
<1>1. RuntimeInit => ViewsInv
  BY ViewsInvInit
<1>2. ViewsInv /\ [RuntimeNext]_runtimeVars => ViewsInv'
  BY ViewsInvStep, ViewsInvStutter
<1>3. QED BY <1>1, <1>2, PTL DEF RuntimeSpec

\* handleJoin, handlePresence, handleClusterPresence and unregisterConn: once
\* nothing is under way, a joined client shows no departed member and
\* everyone's current presence, but of connections whose fan-out was cut short
\* or overlapped the client's own join.
THEOREM ViewsAgree == RuntimeSpec => []ViewsConverge
<1>1. ViewsInv => ViewsConverge
  <2> SUFFICES ASSUME ViewsInv, Quiescent, NEW d \in Conns, NEW c \in Conns, NEW r \in Rooms,
                      pc[d] = "idle", d \notin down, r \in connRooms[d],
                      c \notin dropped, <<d, c>> \notin overlap
               PROVE  SeesTruly(d, c, r)
    BY DEF ViewsConverge
  <2>1. ShownRight(d, c, r) /\ NodeOf[d] \in Nodes /\ Carrier(d, c) \in Procs
    BY EngineAssumption DEF ViewsInv, ShowInv, Carrier, Procs
  <2>2. Views(d, r)
    BY DEF Views, JoinStages
  <2>3. ~Carries(NodeOf[d], c, r)
    <3>1. channel[NodeOf[d]] = << >>
      BY <2>1 DEF Quiescent
    <3>2. Len(channel[NodeOf[d]]) = 0
      BY <3>1
    <3>3. QED BY <3>2 DEF Carries
  <2>4. ~InHand(d, c, r)
    BY <2>1 DEF Quiescent, InHand
  <2>5. ~Due(c, r) /\ ~Ahead(c, r)
    BY DEF Quiescent, Due, Ahead
  <2>6. /\ view[d][r].presence[c] = presence[r][c]
        /\ c \in view[d][r].members => r \in connRooms[c]
    BY <2>1, <2>2, <2>3, <2>4, <2>5 DEF ShownRight, Right, There
  <2>7. r \in connRooms[c] => c \in rooms[r]
    BY DEF ViewsInv, RoomsInv, IInv, MembershipMirror
  <2>8. QED BY <2>6, <2>7 DEF SeesTruly
<1>2. QED BY <1>1, ViewsInvariant, PTL
=============================================================================
