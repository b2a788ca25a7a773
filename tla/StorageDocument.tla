--------------------------- MODULE StorageDocument ---------------------------
(***************************************************************************)
(* The storage document of a room and the mutations on it. A document is   *)
(* abstracted to the sequence of mutations it was made by: a set replaces  *)
(* it, a patch adds to it and needs one to patch, a delete removes it. So  *)
(* a lost, repeated or misplaced mutation is visible in the document.      *)
(* JSON Patch itself is ApplyJSONPatch in server/internal/cluster/redis.go.*)
(***************************************************************************)
EXTENDS Naturals, Sequences

CONSTANTS
    Ops,    \* mutations, one for each op id
    Kind,   \* Kind[o]: "set", "patch" or "delete"
    NoDoc,  \* no document stored
    NoSequence \* no expected sequence

ASSUME DocumentAssumption ==
    /\ Kind \in [Ops -> {"set", "patch", "delete"}]
    /\ NoDoc \notin Seq(Ops)
    /\ NoSequence \notin Nat

Documents == Seq(Ops) \cup {NoDoc}

\* A patch and a delete of a document that does not exist are refused.
Applicable(o, doc) == Kind[o] = "set" \/ doc # NoDoc

ApplyOp(o, doc) ==
    CASE Kind[o] = "set"    -> <<o>>
      [] Kind[o] = "patch"  -> Append(doc, o)
      [] Kind[o] = "delete" -> NoDoc
=============================================================================
