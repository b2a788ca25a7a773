----------------------------- MODULE MCRecords -------------------------------
(* Instances of what the admin API keeps and of what reaches its clients   *)
(* in several steps. A behaviour is about one kind of record, its topic:   *)
(* no two kinds share a Redis key other than the usage counters and the    *)
(* audit log.                                                              *)
EXTENDS ThreadStore, InboxStore, RichTextStore, ResumeSession, WebhookDelivery,
        EphemeralPresence, MCProducts, TLC

CONSTANTS r1, r2, r3, t1, i1, i2, u1, u2, s1, s2, s3, c1, c2, w1, w2

VARIABLE topic

\* u1 has two sockets.
MCSubject == (s1 :> u1) @@ (s2 :> u1) @@ (s3 :> u2)

MCSymmetry == Permutations(Requests) \cup Permutations(Workers)

recordVars == <<threadVars, inboxVars, productVars, textVars>>
vars == <<topic, requestVars, ledgerVars, recordVars, sessionVars, webhookVars, presenceVars>>

\* Three requests share a record; two are enough for what takes more steps,
\* and the third one was refused.
InitOf(topics, old, refused) ==
    /\ topic \in topics
    /\ failures = 0
    /\ req = [r \in Requests |-> IF r \in refused THEN [Unused EXCEPT !.stage = "done"] ELSE Unused]
    /\ LedgerInit /\ TextInit /\ SessionInit /\ WebhookInit
    /\ PresenceInit({"x"})
    /\ ThreadInit(old.threads, "c1") /\ InboxInit(old.inbox) /\ ProductInit(old.products)

Nobody == [threads |-> {}, inbox |-> << >>, products |-> {}]

\* What there is at first, for the topic of the behaviour.
MCInit ==
    \/ InitOf({"texts"}, Nobody, {})
    \/ \E old \in SUBSET ThreadIDs : InitOf({"threads"}, [Nobody EXCEPT !.threads = old], {})
    \/ \E old \in {<< >>, i1 :> u1, (i1 :> u1) @@ (i2 :> u2)} :
          InitOf({"inbox"}, [Nobody EXCEPT !.inbox = old], {})
    \/ \E old \in {{}, Products} : InitOf({"products"}, [Nobody EXCEPT !.products = old], {})
    \/ \E r \in Requests : InitOf({"sessions", "webhooks", "presence"}, Nobody, {r})

-----------------------------------------------------------------------------
\* Of the edits of a comment, those of one field: two requests that edit
\* different fields are there, as are two that edit the same one.
OneField == \A r \in Requests :
    req'[r].op = "UpdateComment" /\ "fs" \in DOMAIN req'[r].arg => Cardinality(req'[r].arg.fs) = 1

Records ==
    /\ \/ /\ topic = "threads" /\ ThreadNext /\ OneField
          /\ UNCHANGED <<ledgerVars, inboxVars, productVars, textVars>>
       \/ /\ topic = "inbox" /\ InboxNext
          /\ UNCHANGED <<ledgerVars, threadVars, productVars, textVars>>
       \/ /\ topic = "products" /\ ProductNext
          /\ UNCHANGED <<threadVars, inboxVars, textVars>>
       \/ /\ topic = "texts" /\ TextNext
          /\ UNCHANGED <<threadVars, inboxVars, productVars>>
    /\ UNCHANGED <<topic, sessionVars, webhookVars, presenceVars>>

Sessions ==
    /\ topic = "sessions" /\ SessionNext
    /\ UNCHANGED <<topic, recordVars, webhookVars, presenceVars>>

Webhooks ==
    /\ topic = "webhooks" /\ WebhookNext
    /\ UNCHANGED <<topic, recordVars, sessionVars, presenceVars>>

Presence ==
    /\ topic = "presence" /\ PresenceNext
    /\ UNCHANGED <<topic, recordVars, sessionVars, webhookVars>>

MCNext == Records \/ Sessions \/ Webhooks \/ Presence

MCSpec == MCInit /\ [][MCNext]_vars
=============================================================================
