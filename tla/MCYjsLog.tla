------------------------------ MODULE MCYjsLog ------------------------------
(* Instances of YjsLog: clients of one node, and one of another.           *)
EXTENDS YjsLog, TLC

CONSTANTS c1, c2, c3, c4, n1, n2

MCNodeOf == [c \in Clients |-> IF c = c4 THEN n2 ELSE n1]

\* The clients of n1 are interchangeable, and so are the plain edits.
MCSymmetry == Permutations(Clients \ {c4}) \cup Permutations(Edits \ Subdocs)
=============================================================================
