---------------------------- MODULE AdminRequests ----------------------------
(***************************************************************************)
(* What the admin API's requests have in common: any number of them run at *)
(* once, on any number of admin processes, each cut at its Redis round     *)
(* trips. A Redis call may fail (with or without effect: the next step     *)
(* then never happens), and a transaction watches keys. EXEC of a          *)
(* transaction one of whose keys was written since is refused; no handler  *)
(* tries again.                                                            *)
(***************************************************************************)
EXTENDS Naturals, FiniteSets

CONSTANTS
    Requests,    \* the requests of a behaviour
    Earlier,     \* a request of before, which made what there is at first
    MaxFailures  \* bound: failed Redis calls of a behaviour

ASSUME RequestAssumption == IsFiniteSet(Requests) /\ Earlier \notin Requests /\ MaxFailures \in Nat

VARIABLES
    req,      \* req[r]: operation, arguments, stage and what r has read
    failures

requestVars == <<req, failures>>

Nothing == [nothing |-> TRUE]

\* A request that watches no key.
RequestAt(op, stage, arg, got) ==
    [op |-> op, stage |-> stage, arg |-> arg, got |-> got, watched |-> {}, stale |-> FALSE]

Unused == RequestAt("none", "idle", Nothing, Nothing)

RequestInit ==
    /\ req = [r \in Requests |-> Unused]
    /\ failures = 0

\* A handler that accepted its request calls the store.
Start(r, op, arg) ==
    /\ req[r].stage = "idle"
    /\ req' = [req EXCEPT ![r] = RequestAt(op, "started", arg, Nothing)]
    /\ UNCHANGED failures

At(r, op, stage) == req[r].op = op /\ req[r].stage = stage

\* The requests after r went on to a stage with what it has read by then.
Advance(r, stage, got) ==
    [req EXCEPT ![r] = RequestAt(req[r].op, stage, req[r].arg, got)]

\* r watches keys, reads, and is about to send MULTI and EXEC.
Watching(r, keys, got) ==
    [req EXCEPT ![r] = [op |-> req[r].op, stage |-> "exec", arg |-> req[r].arg,
                        got |-> got, watched |-> keys, stale |-> FALSE]]

\* Redis: a write to keys makes every transaction that watches one stale.
Written(q, keys) ==
    [r \in Requests |->
        [op |-> q[r].op, stage |-> q[r].stage, arg |-> q[r].arg, got |-> q[r].got,
         watched |-> q[r].watched,
         stale |-> q[r].stale \/ q[r].watched \cap keys # {}]]

Finished(r) == [req EXCEPT ![r] = RequestAt(req[r].op, "done", Nothing, Nothing)]

CanExec(r, op) == At(r, op, "exec") /\ ~req[r].stale

\* EXEC is refused with redis.TxFailedErr: the handler answers 500.
ExecRefused(r) ==
    /\ req[r].stage = "exec" /\ req[r].stale
    /\ req' = Finished(r)
    /\ UNCHANGED failures

\* A Redis call fails, or the caller goes away and its context is cancelled.
CallFails(r) ==
    /\ req[r].stage \notin {"idle", "done"}
    /\ failures < MaxFailures
    /\ failures' = failures + 1
    /\ req' = Finished(r)

Quiet == \A r \in Requests : req[r].stage \in {"idle", "done"}
=============================================================================
