----------------------------- MODULE MCStorage ------------------------------
(* Instances of StorageCluster: three connections on two nodes and         *)
(* mutations of writers of both nodes and of the admin service, of which a *)
(* behaviour sees either the second node's or the admin's. One of them is  *)
(* sent again and a publish fails, or else a socket is closed.             *)
EXTENDS StorageCluster

CONSTANTS c1, c2, c3, n1, n2, a, b, p, d

VARIABLE given   \* the mutations of this behaviour

MCNodeOf == [c \in Conns |-> IF c = c3 THEN n2 ELSE n1]

\* a and b replace the document, p patches it, d is the admin's delete.
MCKind == [o \in Ops |-> CASE o = p -> "patch" [] o = d -> "delete" [] OTHER -> "set"]

\* Writers on both nodes, two of them on the same one.
MCWriter == [o \in Ops |-> CASE o = a -> c1 [] o = p -> c2 [] o = d -> Admin [] OTHER -> c3]

mcVars == <<given, storageVars>>

MCInit == given \in {Ops \ {b}, Ops \ {d}} /\ Init

MCNext ==
    /\ Next
    /\ \A o \in Ops \ given : sends'[o] = 0
    /\ Cardinality({o \in Ops : sends'[o] > 1}) <= 1
    /\ closures' > 0 => failures' = 0 /\ \A o \in Ops : sends'[o] <= 1
    /\ UNCHANGED given

MCSpec == MCInit /\ [][MCNext]_mcVars

MCFairSpec == MCSpec /\ Fairness
=============================================================================
