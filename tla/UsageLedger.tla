---------------------------- MODULE UsageLedger ------------------------------
(***************************************************************************)
(* What an admin handler does once its change is committed: it counts the  *)
(* use of a metric and writes an audit log entry                           *)
(* (server/internal/admin/product.go, recordUsage and recordAuditLog;      *)
(* server/internal/cluster/product.go, IncrementUsage and RecordAuditLog). *)
(* Errors of these calls are logged, and the handler goes on. The count is *)
(* drawn with INCRBY and stored in the usage record by a later SET.        *)
(***************************************************************************)
EXTENDS AdminRequests

CONSTANT Metrics   \* (tenant, project, room, metric, day) that is counted

VARIABLES
    counter,   \* counter[m]: the counter
    usage,     \* usage[m]: the count in the usage record, 0 without one
    audit,     \* requests in the audit log
    owed,      \* history: requests that committed a change
    skipped,   \* history: requests whose audit log call failed
    behind     \* history: metrics whose record was last written out of order

ledgerVars == <<counter, usage, audit, owed, skipped, behind>>

LedgerInit ==
    /\ counter = [m \in Metrics |-> 0]
    /\ usage = [m \in Metrics |-> 0]
    /\ audit = {} /\ owed = {} /\ skipped = {}
    /\ behind = {}

\* The requests after r committed and is about to count metric m.
Metered(r, m) == Advance(r, "usage", [metric |-> m])

\* The requests after r committed a change that is audited only.
Audited(r) == Advance(r, "audit", Nothing)

\* r committed its change.
Owes(r) ==
    /\ owed' = owed \cup {r}
    /\ UNCHANGED <<counter, usage, audit, skipped, behind>>

\* A request without a tenant or a project id is not counted.
recordUsage(r) ==
    /\ req[r].stage = "usage"
    /\ req' = Audited(r)
    /\ UNCHANGED <<failures, ledgerVars>>

IncrementUsage(r) ==
    LET m == req[r].got.metric IN
    /\ req[r].stage = "usage"
    /\ counter' = [counter EXCEPT ![m] = @ + 1]
    /\ req' = Advance(r, "counted", [metric |-> m, count |-> counter[m] + 1])
    /\ UNCHANGED <<failures, usage, audit, owed, skipped, behind>>

StoreUsage(r) ==
    LET m == req[r].got.metric
        n == req[r].got.count IN
    /\ req[r].stage = "counted"
    /\ usage' = [usage EXCEPT ![m] = n]
    /\ behind' = IF n < counter[m] THEN behind \cup {m} ELSE behind \ {m}
    /\ req' = Audited(r)
    /\ UNCHANGED <<failures, counter, audit, owed, skipped>>

RecordAuditLog(r) ==
    /\ req[r].stage = "audit"
    /\ audit' = audit \cup {r}
    /\ req' = Finished(r)
    /\ UNCHANGED <<failures, counter, usage, owed, skipped, behind>>

\* Faulty variant: a failed usage call ends the handler.
AfterUsageFailedStops(r) == Finished(r)

AfterUsageFailed(r) == Audited(r)

\* A usage or audit call fails; the handler logs it and goes on.
LedgerCallFails(r) ==
    /\ failures < MaxFailures
    /\ failures' = failures + 1
    /\ \/ /\ req[r].stage \in {"usage", "counted"}
          /\ req' = AfterUsageFailed(r)
          /\ behind' = IF req[r].stage = "counted" THEN behind \cup {req[r].got.metric} ELSE behind
          /\ UNCHANGED skipped
       \/ /\ req[r].stage = "audit"
          /\ req' = Finished(r)
          /\ skipped' = skipped \cup {r}
          /\ UNCHANGED behind
    /\ UNCHANGED <<counter, usage, audit, owed>>

LedgerStep(r) ==
    \/ recordUsage(r) \/ IncrementUsage(r) \/ StoreUsage(r) \/ RecordAuditLog(r)
    \/ LedgerCallFails(r)

\* A call of the change itself fails, and the handler answers 500.
ChangeCallFails(r, stages) ==
    /\ req[r].stage \in stages
    /\ CallFails(r)
    /\ UNCHANGED ledgerVars

-----------------------------------------------------------------------------
\* The usage record of a metric holds its counter once no request is between
\* the two calls, unless the records of two increments were stored in the
\* opposite order or a call between them failed; the next increment repairs it.
UsageExact ==
    \A m \in Metrics :
        \/ m \in behind
        \/ \E r \in Requests : req[r].stage = "counted" /\ req[r].got.metric = m
        \/ usage[m] = counter[m]

\* Every change a request committed is in the audit log by the time the
\* request has been answered, also when counting its use failed, unless the
\* audit log call itself failed. Nothing else is in the audit log.
AuditComplete ==
    /\ audit \subseteq owed
    /\ \A r \in owed : req[r].stage = "done" => r \in audit \cup skipped

\* recordUsage and recordAudit account for what happened: the counters are in
\* the usage records, and the committed changes in the audit log.
LedgerComplete == UsageExact /\ AuditComplete
=============================================================================
