---------------------------- MODULE StorageSpec -----------------------------
(***************************************************************************)
(* What the protocol promises of a room's storage (docs/protocol/v1.md,    *)
(* STORAGE_SET and STORAGE_PATCH): one document, changed by mutations that *)
(* take effect one at a time and at most once each. The length of the log  *)
(* is the authoritative storage sequence. A mutation with an expected      *)
(* sequence takes effect only at that sequence.                            *)
(***************************************************************************)
EXTENDS StorageDocument

VARIABLES
    doc,      \* the document
    log,      \* the mutations that took effect, in order
    expected  \* expected[o]: the sequence o insists on, or NoSequence

SpecInit ==
    /\ doc = NoDoc
    /\ log = << >>
    /\ expected \in [Ops -> {NoSequence}]

\* A client fixes the expected sequence, one it has seen, when it sends the
\* mutation.
Request(o, s) ==
    /\ \A i \in DOMAIN log : log[i] # o
    /\ expected' = [expected EXCEPT ![o] = s]
    /\ UNCHANGED <<doc, log>>

Commit(o) ==
    /\ \A i \in DOMAIN log : log[i] # o
    /\ expected[o] \in {NoSequence, Len(log)}
    /\ Applicable(o, doc)
    /\ doc' = ApplyOp(o, doc)
    /\ log' = Append(log, o)
    /\ UNCHANGED expected

SpecNext ==
    \/ \E o \in Ops, s \in 0..Len(log) : Request(o, s)
    \/ \E o \in Ops : Commit(o)

AbstractStorage == SpecInit /\ [][SpecNext]_<<doc, log, expected>>
=============================================================================
