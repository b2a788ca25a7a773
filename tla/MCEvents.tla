------------------------------ MODULE MCEvents -------------------------------
(* Instances of what a runtime does without the admin's records: the events *)
(* of a room, the pages of its lists, the mutations of a runtime without    *)
(* Redis and the patches they carry. A behaviour is about one of them, its  *)
(* topic: they share no state.                                              *)
EXTENDS EventLog, Paging, MemoryStorage, MCJsonPatch

CONSTANTS c1, c2, n1, n2, u1, e1, e2

VARIABLE topic

\* Two devices of one user on two nodes; one of them and the admin publish.
MCNodeOf == [c \in Clients |-> IF c = c1 THEN n1 ELSE n2]
MCUserOf == [c \in Clients |-> u1]
MCEmitter == [e \in Events |-> IF e = e1 THEN c1 ELSE Admin]

\* a and q share an op id; m2 sends b and p, one after the other.
MCKind == [o \in Ops |-> IF o \in {"a", "b"} THEN "set" ELSE "patch"]
MCOpID == [o \in Ops |-> IF o = "q" THEN "a" ELSE o]
MCOrigin == [a |-> "m1", b |-> "m2", p |-> "m2", q |-> "m3"]

\* A document no patch is made from: the topics without patches.
PlainDocument == Obj([k \in {} |-> Null])

\* Rooms 1 and 2, 3 and 4, 5 come in one batch each.
MCBatchOf == [i \in Items |-> (i + 1) \div 2]
MCListings == {<<1, 2, 3, 4>>, <<2, 4>>, <<2>>, << >>}

vars == <<topic, eventVars, pagingVars, memoryVars, patchVars>>

MCInit ==
    /\ Init /\ MemoryInit
    /\ \/ /\ topic \in {"events", "memory"}
          /\ PagingInit({<< >>}, {"snapshot"}, {1}) /\ PatchInit({PlainDocument})
       \/ topic = "pages" /\ PagingInit(MCListings, Lists, 1..3) /\ PatchInit({PlainDocument})
       \/ topic = "patches" /\ PagingInit({<< >>}, {"snapshot"}, {1}) /\ PatchInit(BaseDocuments)

MCNext ==
    /\ \/ topic = "events" /\ Next /\ UNCHANGED <<pagingVars, memoryVars, patchVars>>
       \/ topic = "pages" /\ PagingNext /\ UNCHANGED <<eventVars, memoryVars, patchVars>>
       \/ topic = "memory" /\ MemoryNext /\ UNCHANGED <<eventVars, pagingVars, patchVars>>
       \/ topic = "patches" /\ PatchNext /\ UNCHANGED <<eventVars, pagingVars, memoryVars>>
    /\ UNCHANGED topic

MCSpec == MCInit /\ [][MCNext]_vars
=============================================================================
