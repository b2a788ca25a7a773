--------------------------- MODULE WebhookDelivery ---------------------------
(***************************************************************************)
(* Webhook deliveries of the admin API.                                    *)
(*  - server/internal/admin/webhooks.go: dispatchWebhook, called with the  *)
(*    context of a request whose change is committed, once for every URL;  *)
(*    the retry workers, one in every admin process;                       *)
(*  - server/internal/admin/product.go, handleWebhookDeliveryAction: retry *)
(*    and dead-letter by hand;                                             *)
(*  - server/internal/cluster/product.go: the delivery records.            *)
(* An attempt is made with a copy of the record and writes the copy back,  *)
(* without WATCH. When a failed delivery is due is left open: a worker may *)
(* skip it. A record is written in one HSET and never deleted. A worker    *)
(* reads only the newest records of the index.                             *)
(***************************************************************************)
EXTENDS UsageLedger, SequencesExt

CONSTANTS
    URLs,           \* number of configured URLs
    Workers,        \* admin processes with a retry worker
    ScanLimit,      \* failed deliveries a worker takes on at once (100)
    ScanWindow,     \* deliveries it looks for them in: 3 * ScanLimit + 1
    DeadAfter,      \* attempts after which a delivery is dead
    MaxDispatches,  \* bound: events dispatched
    MaxByHand       \* bound: retries and dead-letters by hand

ASSUME WebhookAssumption ==
    /\ URLs \in Nat \ {0} /\ DeadAfter \in Nat \ {0}
    /\ ScanLimit \in Nat \ {0} /\ ScanWindow \in Nat \ {0}
    /\ MaxDispatches \in Nat /\ MaxByHand \in Nat

VARIABLES
    deliveries,    \* id :> [status, attempts] of the stored records
    deliveryIndex, \* ids of the index, in the order of their times, newest first
    worker,        \* worker[w]: [ids, todo, posted]
    posts,         \* history: id :> POSTs sent
    accepted,      \* history: ids the endpoint answered with 2xx
    interrupted,   \* history: ids whose dispatcher was cut off
    contested,     \* history: ids two callers had at once, or retried by hand
    buried         \* history: ids dead-lettered by hand

webhookVars == <<deliveries, deliveryIndex, worker, posts, accepted, interrupted,
                 contested, buried>>
historyVars == <<posts, accepted, interrupted, contested, buried>>

NoWork == [ids |-> << >>, todo |-> << >>, posted |-> FALSE, ok |-> FALSE]
NoDeliveries == [id \in {} |-> 0]

\* f with v at id, which f may not have had.
Put(f, id, v) == [d \in DOMAIN f \cup {id} |-> IF d = id THEN v ELSE f[d]]

Sent(id) == IF id \in DOMAIN posts THEN posts[id] ELSE 0

WebhookInit ==
    /\ deliveries = NoDeliveries
    /\ deliveryIndex = << >>
    /\ worker = [w \in Workers |-> NoWork]
    /\ posts = NoDeliveries
    /\ accepted = {} /\ interrupted = {} /\ contested = {} /\ buried = {}

WebhookOps == {"Dispatch", "Retry", "DeadLetter"}

\* Requests and workers that are about to write a copy of the record of id.
HeldByRequest(id) ==
    \E r \in Requests :
        req[r].op \in WebhookOps /\ req[r].stage \in {"create", "index", "post", "update", "mark"}
            /\ req[r].got.id = id
HeldByWorker(id) ==
    \E w \in Workers : \E i \in DOMAIN worker[w].todo : worker[w].todo[i].id = id
InHands(id) == HeldByRequest(id) \/ HeldByWorker(id)

-----------------------------------------------------------------------------
(* An attempt.                                                             *)

\* Faulty variant: the status of a failed attempt is left as it was.
FailedStatusKept(status, attempts) == status

FailedStatus(status, attempts) == IF attempts >= DeadAfter THEN "dead" ELSE "failed"

\* The record after an attempt.
updateWebhookDeliveryRecord(rec, ok) ==
    [attempts |-> rec.attempts + 1,
     status |-> IF ok THEN "delivered" ELSE FailedStatus(rec.status, rec.attempts + 1)]

\* EXISTS and HSET; a record that was not created is not written.
UpdateWebhookDelivery(id, rec) ==
    deliveries' = [d \in DOMAIN deliveries |-> IF d = id THEN rec ELSE deliveries[d]]

IsSuccess(ok) == ok

\* The endpoint answers with 2xx or does not.
Post(id, ok) ==
    /\ posts' = Put(posts, id, Sent(id) + 1)
    /\ accepted' = IF ok THEN accepted \cup {id} ELSE accepted

-----------------------------------------------------------------------------
(* dispatchWebhook. The delivery of r's event to URL u is <<r, u>>.        *)

Dispatched == {r \in Requests : req[r].op = "Dispatch"}
ByHand == {r \in Requests : req[r].op \in {"Retry", "DeadLetter"}}

ForURL(r, u) ==
    Advance(r, "create",
            [id |-> <<r, u>>, rec |-> [status |-> "pending", attempts |-> 0], ok |-> FALSE])

dispatchWebhook(r) ==
    /\ req[r].stage = "idle" /\ Cardinality(Dispatched) < MaxDispatches
    /\ Start(r, "Dispatch", Nothing)
    /\ UNCHANGED <<ledgerVars, webhookVars>>

FirstURL(r) ==
    /\ At(r, "Dispatch", "started")
    /\ req' = ForURL(r, 1)
    /\ UNCHANGED <<failures, ledgerVars, webhookVars>>

\* CreateWebhookDelivery: HSET, then ZADD.
CreateWebhookDelivery(r) ==
    /\ At(r, "Dispatch", "create")
    /\ deliveries' = Put(deliveries, req[r].got.id, req[r].got.rec)
    /\ req' = Advance(r, "index", req[r].got)
    /\ UNCHANGED <<failures, ledgerVars, deliveryIndex, worker, historyVars>>

\* The score is the time at which the dispatch began, on the clock of its
\* process: others may have put newer ones into the index since.
IndexWebhookDelivery(r) ==
    /\ At(r, "Dispatch", "index")
    /\ \E k \in 1..Len(deliveryIndex) + 1 :
          deliveryIndex' = InsertAt(deliveryIndex, k, req[r].got.id)
    /\ req' = Advance(r, "post", req[r].got)
    /\ UNCHANGED <<failures, ledgerVars, deliveries, worker, historyVars>>

\* A failed create is logged, and the POST is sent all the same.
CreateFails(r) ==
    /\ req[r].op = "Dispatch" /\ req[r].stage \in {"create", "index"}
    /\ failures < MaxFailures
    /\ failures' = failures + 1
    /\ interrupted' = interrupted \cup {req[r].got.id}
    /\ req' = Advance(r, "post", req[r].got)
    /\ UNCHANGED <<ledgerVars, deliveries, deliveryIndex, worker, posts, accepted, contested, buried>>

\* The POST of a dispatch or of a retry by hand.
PostOfRequest(r, ok) ==
    /\ req[r].stage = "post"
    /\ Post(req[r].got.id, ok)
    /\ req' = Advance(r, "update",
            [id |-> req[r].got.id, rec |-> req[r].got.rec, ok |-> IsSuccess(ok)])
    /\ UNCHANGED <<failures, ledgerVars, deliveries, deliveryIndex, worker, interrupted, contested, buried>>

\* The requests once r is done with its delivery: the next URL, or the end.
AfterAttempt(r) ==
    LET u == req[r].got.id[2] IN
    IF req[r].op = "Retry" THEN Audited(r)
    ELSE IF u < URLs THEN ForURL(r, u + 1) ELSE Finished(r)

\* A retry by hand is audited; a dispatch is part of a request that owes
\* its audit log entry elsewhere.
OwesAttempt(r) == IF req[r].op = "Retry" THEN Owes(r) ELSE UNCHANGED ledgerVars

UpdateOfRequest(r) ==
    /\ req[r].stage = "update"
    /\ UpdateWebhookDelivery(req[r].got.id, updateWebhookDeliveryRecord(req[r].got.rec, req[r].got.ok))
    /\ req' = AfterAttempt(r)
    /\ OwesAttempt(r)
    /\ UNCHANGED <<failures, deliveryIndex, worker, historyVars>>

\* A failed update is logged.
UpdateFails(r) ==
    /\ req[r].stage = "update"
    /\ failures < MaxFailures
    /\ failures' = failures + 1
    /\ req' = AfterAttempt(r)
    /\ OwesAttempt(r)
    /\ interrupted' = interrupted \cup {req[r].got.id}
    /\ UNCHANGED <<deliveries, deliveryIndex, worker, posts, accepted, contested, buried>>

\* The caller goes away or the process ends: the context of the request is
\* cancelled, and every further call of it fails.
Cancelled(r) ==
    /\ req[r].op \in WebhookOps /\ req[r].stage # "audit"
    /\ CallFails(r)
    /\ interrupted' = IF req[r].stage \in {"create", "index", "post", "update"}
                      THEN interrupted \cup {req[r].got.id} ELSE interrupted
    /\ UNCHANGED <<ledgerVars, deliveries, deliveryIndex, worker, posts, accepted, contested, buried>>

-----------------------------------------------------------------------------
(* By hand.                                                                *)

handleWebhookDeliveryAction(r, op, id) ==
    /\ id \in DOMAIN deliveries /\ Cardinality(ByHand) < MaxByHand
    /\ Start(r, op, [id |-> id])
    /\ UNCHANGED <<ledgerVars, webhookVars>>

GetWebhookDelivery(r) ==
    LET id == req[r].arg.id
        held == [id |-> id, rec |-> deliveries[id], ok |-> FALSE]
    IN
    /\ req[r].op \in {"Retry", "DeadLetter"} /\ req[r].stage = "started"
    /\ req' = Advance(r, IF req[r].op = "Retry" THEN "post" ELSE "mark", held)
    /\ contested' = contested \cup {d \in {id} : req[r].op = "Retry" \/ InHands(d)}
    /\ UNCHANGED <<failures, ledgerVars, deliveries, deliveryIndex, worker, posts, accepted,
                   interrupted, buried>>

DeadLetter(r) ==
    /\ At(r, "DeadLetter", "mark")
    /\ UpdateWebhookDelivery(req[r].got.id, [attempts |-> req[r].got.rec.attempts, status |-> "dead"])
    /\ buried' = buried \cup {req[r].got.id}
    /\ req' = Audited(r)
    /\ Owes(r)
    /\ UNCHANGED <<failures, deliveryIndex, worker, posts, accepted, interrupted, contested>>

-----------------------------------------------------------------------------
(* The retry workers.                                                      *)

Working(w, ids, todo, posted, ok) ==
    [worker EXCEPT ![w] = [ids |-> ids, todo |-> todo, posted |-> posted, ok |-> ok]]

\* ZREVRANGE 0 (3 * limit), an inclusive end.
Scanned == IF Len(deliveryIndex) <= ScanWindow THEN deliveryIndex
           ELSE SubSeq(deliveryIndex, 1, ScanWindow)

ListWebhookDeliveries(w) ==
    /\ worker[w] = NoWork /\ deliveryIndex # << >>
    /\ worker' = Working(w, Scanned, << >>, FALSE, FALSE)
    /\ UNCHANGED <<requestVars, ledgerVars, deliveries, deliveryIndex, historyVars>>

Takes(rec) == rec.status = "failed"

\* The next record of the list is read.
loadWebhookDeliveryRecord(w) ==
    LET id == Head(worker[w].ids)
        taken == id \in DOMAIN deliveries /\ Takes(deliveries[id])
        todo == IF taken THEN Append(worker[w].todo, [id |-> id, rec |-> deliveries[id]])
                ELSE worker[w].todo
    IN
    /\ worker[w].ids # << >>
    /\ worker' = Working(w, IF Len(todo) >= ScanLimit THEN << >> ELSE Tail(worker[w].ids),
                         todo, FALSE, FALSE)
    /\ contested' = contested \cup {d \in {id} : taken /\ InHands(d)}
    /\ UNCHANGED <<requestVars, ledgerVars, deliveries, deliveryIndex, posts, accepted,
                   interrupted, buried>>

Retrying(w) == worker[w].ids = << >> /\ worker[w].todo # << >>
WithoutHead(w) == Working(w, << >>, Tail(worker[w].todo), FALSE, FALSE)

\* retryDueWebhookDeliveries: the next one is not due yet.
SkipNotDue(w) ==
    /\ Retrying(w) /\ ~worker[w].posted
    /\ worker' = WithoutHead(w)
    /\ UNCHANGED <<requestVars, ledgerVars, deliveries, deliveryIndex, historyVars>>

retryWebhookDelivery(w, ok) ==
    /\ Retrying(w) /\ ~worker[w].posted
    /\ Post(Head(worker[w].todo).id, ok)
    /\ worker' = Working(w, << >>, worker[w].todo, TRUE, IsSuccess(ok))
    /\ UNCHANGED <<requestVars, ledgerVars, deliveries, deliveryIndex, interrupted, contested, buried>>

UpdateOfWorker(w) ==
    LET head == Head(worker[w].todo) IN
    /\ Retrying(w) /\ worker[w].posted
    /\ UpdateWebhookDelivery(head.id, updateWebhookDeliveryRecord(head.rec, worker[w].ok))
    /\ worker' = WithoutHead(w)
    /\ UNCHANGED <<requestVars, ledgerVars, deliveryIndex, historyVars>>

\* A call fails: the scan ends, or the update is lost and the next one comes;
\* or the process ends with all it had to do.
WorkerFails(w) ==
    /\ worker[w] # NoWork /\ failures < MaxFailures
    /\ failures' = failures + 1
    /\ \/ worker' = [worker EXCEPT ![w] = NoWork]
       \/ worker[w].posted /\ worker' = WithoutHead(w)
    /\ UNCHANGED <<req, ledgerVars, deliveries, deliveryIndex, historyVars>>

WebhookNext ==
    \/ \E r \in Requests :
        \/ dispatchWebhook(r) \/ FirstURL(r) \/ CreateWebhookDelivery(r) \/ IndexWebhookDelivery(r)
        \/ CreateFails(r) \/ UpdateOfRequest(r) \/ UpdateFails(r) \/ Cancelled(r)
        \/ \E ok \in BOOLEAN : PostOfRequest(r, ok)
        \/ \E op \in {"Retry", "DeadLetter"}, id \in DOMAIN deliveries :
            handleWebhookDeliveryAction(r, op, id)
        \/ GetWebhookDelivery(r) \/ DeadLetter(r)
        \/ LedgerStep(r) /\ UNCHANGED webhookVars
    \/ \E w \in Workers :
        \/ ListWebhookDeliveries(w) \/ loadWebhookDeliveryRecord(w) \/ SkipNotDue(w)
        \/ UpdateOfWorker(w) \/ WorkerFails(w)
        \/ \E ok \in BOOLEAN : retryWebhookDelivery(w, ok)

WebhookSpec ==
    /\ RequestInit /\ LedgerInit /\ WebhookInit
    /\ [][WebhookNext]_<<requestVars, ledgerVars, webhookVars>>

-----------------------------------------------------------------------------
\* A delivery record is truthful, whoever wrote it last and however stale its
\* copy was: "delivered" means that the endpoint accepted the event, attempts
\* were really made, and a delivery is dead after DeadAfter attempts only, or
\* dead-lettered by hand.
DeliveriesTruthful ==
    \A id \in DOMAIN deliveries :
        LET rec == deliveries[id] IN
        /\ rec.status = "delivered" => id \in accepted
        /\ rec.attempts <= Sent(id)
        /\ rec.status = "dead" => Sent(id) >= DeadAfter \/ id \in buried

\* Deliveries that a scan no longer reaches, as ScanWindow newer ones are in
\* the index: however often they failed before, only a retry by hand finds
\* them.
OutOfReach == {deliveryIndex[i] : i \in {j \in DOMAIN deliveryIndex : j > ScanWindow}}

\* No delivery is forgotten: one that is neither delivered nor dead is in the
\* hands of a request or a worker, or is marked failed among what every worker
\* scans. Left out are a delivery that newer ones have put out of reach, and
\* one whose dispatcher was cut off, by a failed Redis call or the end of its
\* request, and which may stay pending for ever.
NothingStranded ==
    \A id \in DOMAIN deliveries :
        \/ deliveries[id].status \in {"delivered", "dead"}
        \/ InHands(id)
        \/ deliveries[id].status = "failed" /\ id \in ToSet(Scanned) \cup OutOfReach
        \/ id \in interrupted

\* A delivery that was delivered or is dead stays so, however many workers
\* scan the index, unless two callers had it at once or it was retried by hand.
SettledIsFinal ==
    [][\A id \in DOMAIN deliveries \ contested :
            deliveries[id].status \in {"delivered", "dead"} =>
                deliveries'[id].status \in {deliveries[id].status, "dead"}]_webhookVars

\* Workers and requests that share the delivery records without WATCH keep
\* them truthful, forget no delivery and never reopen a settled one.
DeliveriesSound == [](DeliveriesTruthful /\ NothingStranded) /\ SettledIsFinal
=============================================================================
