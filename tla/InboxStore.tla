----------------------------- MODULE InboxStore ------------------------------
(***************************************************************************)
(* Inbox notifications: the admin API's handlers                           *)
(* (server/internal/admin/service.go) over the Redis store                 *)
(* (server/internal/cluster/redis.go), the delta each handler publishes,   *)
(* its fan-out to the sockets of the user (runtime/service.go,             *)
(* roomengine/engine.go) and what a client makes of the deltas             *)
(* (packages/client/src/index.ts, applyNotificationDeltaToInbox).          *)
(* A notification is one hash under its id, whoever owns it, and its id is *)
(* in two sorted sets of its owner: the inbox and the unread ones. Create  *)
(* and read are WATCH transactions on the hash. The deletes read first and *)
(* then send a MULTI that watches nothing.                                 *)
(***************************************************************************)
EXTENDS AdminRequests

CONSTANTS
    Notifications,   \* notification ids
    Owners,          \* users
    Sockets, Subject \* Subject[s]: the user socket s authenticated as

ASSUME InboxAssumption == Subject \in [Sockets -> Owners]

VARIABLES
    record,   \* record[i]: [user, read], or NoRecord
    inbox,    \* inbox[u]: ids in u's inbox
    unread,   \* unread[u]: ids in u's unread inbox
    view,     \* view[s][i]: what the client of s shows of i
    strays,   \* history: <<u, i>> that a delete removed from one side only
    outdated, \* history: <<u, i>> whose latest delta was overtaken or lost
    missed    \* history: <<s, i>> of which socket s was not sent the latest delta

inboxVars == <<record, inbox, unread, view, strays, outdated, missed>>

NoRecord == [user |-> {}, read |-> FALSE]
NotificationKey(i) == <<"notification", i>>
InboxOps == {"Trigger", "MarkRead", "Delete", "DeleteAll"}

Hidden == "hidden"
Shade(read) == IF read THEN "read" ELSE "unread"
Belongs(i, u) == record[i].user = {u}
Shown(u, i) == IF Belongs(i, u) THEN Shade(record[i].read) ELSE Hidden

\* The notifications of old were created, and shown, before.
InboxInit(old) ==
    /\ record = [i \in Notifications |->
            IF i \in DOMAIN old THEN [user |-> {old[i]}, read |-> FALSE] ELSE NoRecord]
    /\ inbox = [u \in Owners |-> {i \in DOMAIN old : old[i] = u}]
    /\ unread = inbox
    /\ view = [s \in Sockets |-> [i \in Notifications |-> Shown(Subject[s], i)]]
    /\ strays = {}
    /\ outdated = {}
    /\ missed = {}

-----------------------------------------------------------------------------
handleTriggerInboxNotification(r, u, i) == Start(r, "Trigger", [u |-> u, i |-> i])

handleInboxNotificationAction(r, i) == Start(r, "MarkRead", [i |-> i])

handleUserInboxNotifications(r, u, i) == Start(r, "Delete", [u |-> u, i |-> i])

handleUserInbox(r, u) == Start(r, "DeleteAll", [u |-> u])

InboxRequest(r) ==
    \/ \E u \in Owners, i \in Notifications :
        \/ handleTriggerInboxNotification(r, u, i)
        \/ handleUserInboxNotifications(r, u, i)
    \/ \E i \in Notifications : handleInboxNotificationAction(r, i)
    \/ \E u \in Owners : handleUserInbox(r, u)

-----------------------------------------------------------------------------
(* The store.                                                              *)

\* The delta r is about to publish: of user u, about ids, shown as shade.
Delta(u, ids, shade) == [u |-> u, ids |-> ids, shade |-> shade, over |-> {}]

Concerns(d) == {<<d.u, i>> : i \in d.ids}

\* q with every delta that is still to be published marked as overtaken by a
\* change of the pairs.
Overtaken(q, pairs) ==
    [r \in Requests |->
        LET d == q[r].got IN
        IF q[r].stage = "publish"
        THEN RequestAt(q[r].op, "publish", q[r].arg,
                [u |-> d.u, ids |-> d.ids, shade |-> d.shade,
                 over |-> d.over \cup (Concerns(d) \cap pairs)])
        ELSE q[r]]

\* r committed its change of the delta's pairs, and writes keys.
Committed(r, keys, delta) ==
    LET others == Overtaken(req, Concerns(delta)) IN
    Written([others EXCEPT ![r] = RequestAt(req[r].op, "publish", req[r].arg, delta)], keys)

loadInboxNotification(r) ==
    LET i == req[r].arg.i IN
    /\ \/ req[r].op = "MarkRead" /\ req[r].stage = "started"
       \/ req[r].op = "Delete" /\ req[r].stage \in {"started", "loaded"}
    /\ req' = CASE record[i] = NoRecord -> Finished(r)
                [] req[r].op = "Delete" /\ ~Belongs(i, req[r].arg.u) -> Finished(r)
                [] req[r].stage = "loaded" -> Advance(r, "multi", Nothing)
                [] OTHER -> Advance(r, "loaded", Nothing)
    /\ UNCHANGED <<failures, inboxVars>>

WatchTrigger(r) ==
    LET i == req[r].arg.i IN
    /\ At(r, "Trigger", "started")
    /\ req' = IF record[i] # NoRecord THEN Finished(r)   \* ErrInboxAlreadyExists
              ELSE Watching(r, {NotificationKey(i)}, Nothing)
    /\ UNCHANGED <<failures, inboxVars>>

CreateInboxNotification(r) ==
    LET i == req[r].arg.i
        u == req[r].arg.u IN
    /\ CanExec(r, "Trigger")
    /\ record' = [record EXCEPT ![i] = [user |-> {u}, read |-> FALSE]]
    /\ inbox' = [inbox EXCEPT ![u] = @ \cup {i}]
    /\ unread' = [unread EXCEPT ![u] = @ \cup {i}]
    /\ req' = Committed(r, {NotificationKey(i)}, Delta(u, {i}, Shade(FALSE)))
    /\ UNCHANGED <<failures, view, strays, outdated, missed>>

\* The owner is the one the transaction reads, and a notification that is
\* read already is published again without a write.
WatchMarkRead(r) ==
    LET i == req[r].arg.i IN
    /\ At(r, "MarkRead", "loaded")
    /\ req' = CASE record[i] = NoRecord -> Finished(r)
                [] record[i].read ->
                    Advance(r, "publish",
                        Delta(CHOOSE u \in Owners : Belongs(i, u), {i}, Shade(TRUE)))
                [] OTHER -> Watching(r, {NotificationKey(i)}, record[i])
    /\ UNCHANGED <<failures, inboxVars>>

\* Faulty variant: the id stays in the unread inbox.
MarkReadKeepsUnread(r) ==
    LET i == req[r].arg.i
        u == CHOOSE o \in Owners : req[r].got.user = {o} IN
    /\ CanExec(r, "MarkRead")
    /\ record' = [record EXCEPT ![i] = [user |-> record[i].user, read |-> TRUE]]
    /\ req' = Committed(r, {NotificationKey(i)}, Delta(u, {i}, Shade(TRUE)))
    /\ UNCHANGED <<failures, inbox, unread, view, strays, outdated, missed>>

MarkInboxNotificationRead(r) ==
    LET i == req[r].arg.i
        u == CHOOSE o \in Owners : req[r].got.user = {o} IN
    /\ CanExec(r, "MarkRead")
    /\ record' = [record EXCEPT ![i] = [user |-> record[i].user, read |-> TRUE]]
    /\ unread' = [unread EXCEPT ![u] = @ \ {i}]
    /\ req' = Committed(r, {NotificationKey(i)}, Delta(u, {i}, Shade(TRUE)))
    /\ UNCHANGED <<failures, inbox, view, strays, outdated, missed>>

\* MULTI of a single delete. If the id was created again for another user
\* since it was read, that user's record goes and its indexes stay.
DeleteInboxNotification(r) ==
    LET i == req[r].arg.i
        u == req[r].arg.u IN
    /\ At(r, "Delete", "multi")
    /\ strays' = strays \cup {<<o, i>> : o \in {o \in Owners \ {u} : Belongs(i, o)}}
    /\ record' = [record EXCEPT ![i] = NoRecord]
    /\ inbox' = [inbox EXCEPT ![u] = @ \ {i}]
    /\ unread' = [unread EXCEPT ![u] = @ \ {i}]
    /\ req' = Committed(r, IF record[i] = NoRecord THEN {} ELSE {NotificationKey(i)},
                        Delta(u, {i}, Hidden))
    /\ UNCHANGED <<failures, view, outdated, missed>>

ListInbox(r) ==
    /\ At(r, "DeleteAll", "started")
    /\ req' = Advance(r, "multi", [ids |-> inbox[req[r].arg.u]])
    /\ UNCHANGED <<failures, inboxVars>>

\* MULTI of the delete of a user's notifications: the records of the ids read
\* before, and both indexes whatever is in them by now.
DeleteAllInboxNotifications(r) ==
    LET u == req[r].arg.u
        ids == req[r].got.ids
        found == {i \in ids : record[i] # NoRecord} IN
    /\ At(r, "DeleteAll", "multi")
    /\ strays' = strays
         \cup {p \in (Owners \ {u}) \X ids : Belongs(p[2], p[1])}
         \cup {<<u, i>> : i \in {i \in Notifications \ ids : Belongs(i, u)}}
    /\ record' = [i \in Notifications |-> IF i \in ids THEN NoRecord ELSE record[i]]
    /\ inbox' = [inbox EXCEPT ![u] = {}]
    /\ unread' = [unread EXCEPT ![u] = {}]
    /\ req' = Committed(r, {NotificationKey(i) : i \in found},
                        Delta(u, Notifications, Hidden))
    /\ UNCHANGED <<failures, view, outdated, missed>>

-----------------------------------------------------------------------------
(* Publishing: the sockets of the user receive the delta.                  *)

NotificationFanout(u) == {s \in Sockets : Subject[s] = u}

\* Faulty variant: a deleted notification stays in the client's list.
applyDeltaAddsOnly(old, d) ==
    [i \in Notifications |-> IF i \in d.ids /\ d.shade # Hidden THEN d.shade ELSE old[i]]

applyNotificationDeltaToInbox(old, d) ==
    [i \in Notifications |-> IF i \in d.ids THEN d.shade ELSE old[i]]

\* The sockets of the user that are sent r's delta, and those that are not.
DeliverDelta(r, reached) ==
    LET d == req[r].got IN
    /\ view' = [s \in Sockets |-> IF s \in reached
                                  THEN applyNotificationDeltaToInbox(view[s], d) ELSE view[s]]
    /\ outdated' = (outdated \ Concerns(d)) \cup d.over
    /\ missed' = (missed \ (reached \X d.ids))
                    \cup ((NotificationFanout(d.u) \ reached) \X d.ids)
    /\ req' = Finished(r)
    /\ UNCHANGED <<record, inbox, unread, strays>>

publishNotificationEvent(r) ==
    /\ req[r].stage = "publish" /\ req[r].op \in InboxOps
    /\ DeliverDelta(r, NotificationFanout(req[r].got.u))
    /\ UNCHANGED failures

\* broadcastNotificationFanout: the first socket whose queue is full or closed
\* ends a node's fan-out, and those after it are not sent the delta.
NotificationFanoutFails(r) ==
    /\ req[r].stage = "publish" /\ req[r].op \in InboxOps
    /\ failures < MaxFailures
    /\ failures' = failures + 1
    /\ \E reached \in SUBSET NotificationFanout(req[r].got.u) :
          /\ reached # NotificationFanout(req[r].got.u)
          /\ DeliverDelta(r, reached)

InboxCallFails(r) ==
    /\ req[r].op \in InboxOps
    /\ CallFails(r)
    /\ outdated' = IF req[r].stage = "publish" THEN outdated \cup Concerns(req[r].got) ELSE outdated
    /\ UNCHANGED <<record, inbox, unread, view, strays, missed>>

InboxExecRefused(r) ==
    req[r].op \in InboxOps /\ ExecRefused(r) /\ UNCHANGED inboxVars

InboxNext ==
    \E r \in Requests :
        \/ InboxRequest(r) /\ UNCHANGED inboxVars
        \/ loadInboxNotification(r) \/ WatchTrigger(r) \/ WatchMarkRead(r) \/ ListInbox(r)
        \/ CreateInboxNotification(r) \/ MarkInboxNotificationRead(r)
        \/ DeleteInboxNotification(r) \/ DeleteAllInboxNotifications(r)
        \/ publishNotificationEvent(r) \/ NotificationFanoutFails(r)
        \/ InboxCallFails(r) \/ InboxExecRefused(r)

\* Some notifications were created before.
InboxSpec ==
    /\ RequestInit
    /\ \E ids \in SUBSET Notifications : \E old \in [ids -> Owners] : InboxInit(old)
    /\ [][InboxNext]_<<requestVars, inboxVars>>

-----------------------------------------------------------------------------
(* Properties.                                                             *)

\* Both indexes of a user list exactly the user's notifications, the unread
\* one those not read yet. Left out are the pairs a delete tore apart: a
\* notification created between DeleteAll's read and its MULTI is kept but
\* listed nowhere, and an id created again for another user between a
\* delete's read and its MULTI is listed but gone.
InboxIndexed ==
    \A u \in Owners, i \in Notifications :
        <<u, i>> \notin strays =>
            /\ i \in inbox[u] <=> Belongs(i, u)
            /\ i \in unread[u] <=> Belongs(i, u) /\ ~record[i].read

\* A client that follows the deltas shows of every notification of its user
\* what the store holds, once no delta about it is on its way, unless the
\* latest delta was overtaken by a later change, lost by a failed publish, or
\* not sent to this socket as another one's queue was full.
DeltasAgree ==
    \A s \in Sockets, i \in Notifications :
        LET pair == <<Subject[s], i>> IN
        \/ pair \in strays \cup outdated
        \/ <<s, i>> \in missed
        \/ \E r \in Requests : /\ req[r].op \in InboxOps /\ req[r].stage = "publish"
                               /\ pair \in Concerns(req[r].got)
        \/ view[s][i] = Shown(Subject[s], i)
=============================================================================
