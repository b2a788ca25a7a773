--------------------------- MODULE MCRuntimeRooms ---------------------------
(* Instances of RoomEngine and RuntimeRooms: connections on one node, c3   *)
(* on another. A behaviour is the engine's alone, whose plans are made and *)
(* applied in every order, or that of the runtime's handlers over it for   *)
(* two connections and one room. The engine's is about two connections, or *)
(* about the limits: all connections, without presence.                    *)
EXTENDS RuntimeRooms, TLC

CONSTANTS c1, c2, c3, c4, n1, n2

VARIABLE scope

MCNodeOf == [c \in Conns |-> IF c = c3 THEN n2 ELSE n1]

\* The connections of n1 are interchangeable.
MCSymmetry == Permutations(Conns \ {c3}) \cup Permutations(Rooms \ {AnyRoom})

mcVars == <<scope, runtimeVars>>

TwoConnections == Cardinality(sessions \cup closed) <= 2

EngineStep ==
    /\ scope # "runtime" /\ Next
    /\ scope = "engine" => TwoConnections'
    /\ scope = "limits" => \A c \in Conns : plan'[c].kind # "presence"
    /\ \A c \in Conns, r \in Rooms \ {AnyRoom} : eventAcks'[c][r] = 0
    /\ UNCHANGED <<scope, storeVars, fanVars, bounds, rtVars>>

RuntimeStep ==
    /\ scope = "runtime" /\ RuntimeNext
    /\ \A c \in Conns : target'[c] = AnyRoom
    /\ TwoConnections'
    /\ UNCHANGED scope

MCNext == EngineStep \/ RuntimeStep

MCInit == scope \in {"engine", "limits", "runtime"} /\ RuntimeInit
MCSpec == MCInit /\ [][MCNext]_mcVars

MCRuntimeInit == scope = "runtime" /\ RuntimeInit
MCFairSpec == MCRuntimeInit /\ [][MCNext]_mcVars /\ RuntimeFairness
=============================================================================
