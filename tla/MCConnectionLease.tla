-------------------------- MODULE MCConnectionLease --------------------------
(* Instances of ConnectionLease: two connections of one node.              *)
EXTENDS ConnectionLease, TLC

CONSTANTS n1, n2

MCNodeOf == [c \in Conns |-> n1]

\* The connections are interchangeable.
MCSymmetry == Permutations(Conns)
=============================================================================
