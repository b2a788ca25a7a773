---------------------------- MODULE RecordProofs -----------------------------
(***************************************************************************)
(* Proofs about the admin API's records (ThreadStore, InboxStore,          *)
(* ProductRecords, RichTextStore, EphemeralPresence, ResumeSession,        *)
(* WebhookDelivery and the UsageLedger they share), for any requests,      *)
(* records, users and failures.                                            *)
(*                                                                         *)
(* A request reads, and writes later what it made of its reads. The        *)
(* invariants say what a request knows in between: under WATCH, that what  *)
(* it read still holds unless its transaction is stale; without WATCH, the *)
(* weaker fact that is left of it.                                         *)
(***************************************************************************)
EXTENDS ThreadStore, InboxStore, ProductRecords, RichTextStore, ResumeSession,
        EphemeralPresence, WebhookDelivery, FiniteSetTheorems, TLAPS

-----------------------------------------------------------------------------
(* Requests.                                                               *)

\* q is where it was, and its transaction has not been written into, if it
\* can still be executed, by a write to keys.
KeepsUnder(q, keys) ==
    /\ req'[q].op = req[q].op /\ req'[q].stage = req[q].stage
    /\ req'[q].arg = req[q].arg /\ req'[q].got = req[q].got
    /\ req'[q].watched = req[q].watched
    /\ ~req'[q].stale => ~req[q].stale /\ req[q].watched \cap keys = {}

\* r went on to a stage, and watches nothing.
Becomes(r, stage, arg, got) ==
    /\ req'[r].op = req[r].op /\ req'[r].stage = stage
    /\ req'[r].arg = arg /\ req'[r].got = got
    /\ req'[r].watched = {} /\ ~req'[r].stale

\* The step of r is a write to keys.
OthersKeepUnder(r, keys) ==
    /\ DOMAIN req' = Requests
    /\ \A q \in Requests \ {r} : KeepsUnder(q, keys)

\* A request starts with its arguments, and the others stay.
LEMMA StartStep ==
  ASSUME DOMAIN req = Requests, NEW r \in Requests, NEW op, NEW arg, Start(r, op, arg)
  PROVE  /\ req[r].stage = "idle" /\ failures' = failures
         /\ req'[r].op = op /\ req'[r].stage = "started" /\ req'[r].arg = arg
         /\ req'[r].got = Nothing /\ req'[r].watched = {} /\ ~req'[r].stale
         /\ OthersKeepUnder(r, {})
BY DEF Start, RequestAt, OthersKeepUnder, KeepsUnder

\* A request advances, and the others stay.
LEMMA AdvanceStep ==
  ASSUME DOMAIN req = Requests, NEW r \in Requests, NEW stage, NEW got,
         req' = Advance(r, stage, got)
  PROVE  Becomes(r, stage, req[r].arg, got) /\ OthersKeepUnder(r, {})
BY DEF Advance, RequestAt, Becomes, OthersKeepUnder, KeepsUnder

\* A request ends, and the others stay.
LEMMA FinishedStep ==
  ASSUME DOMAIN req = Requests, NEW r \in Requests, req' = Finished(r)
  PROVE  Becomes(r, "done", Nothing, Nothing) /\ OthersKeepUnder(r, {})
BY DEF Finished, RequestAt, Becomes, OthersKeepUnder, KeepsUnder

\* A request begins its transaction, and the others stay.
LEMMA WatchingStep ==
  ASSUME DOMAIN req = Requests, NEW r \in Requests, NEW keys, NEW got,
         req' = Watching(r, keys, got)
  PROVE  /\ req'[r].op = req[r].op /\ req'[r].stage = "exec"
         /\ req'[r].arg = req[r].arg /\ req'[r].got = got
         /\ req'[r].watched = keys /\ ~req'[r].stale
         /\ OthersKeepUnder(r, {})
BY DEF Watching, OthersKeepUnder, KeepsUnder

\* A request advances with a write to keys.
LEMMA AdvanceWritten ==
  ASSUME DOMAIN req = Requests, NEW r \in Requests, NEW stage, NEW got, NEW keys,
         req' = Written(Advance(r, stage, got), keys)
  PROVE  Becomes(r, stage, req[r].arg, got) /\ OthersKeepUnder(r, keys)
<1>1. DOMAIN req' = Requests /\ Becomes(r, stage, req[r].arg, got)
  BY DEF Written, Advance, RequestAt, Becomes
<1>2. ASSUME NEW q \in Requests \ {r} PROVE KeepsUnder(q, keys)
  BY DEF Written, Advance, RequestAt, KeepsUnder
<1>3. QED BY <1>1, <1>2 DEF OthersKeepUnder

\* A request ends with a write to keys.
LEMMA FinishedWritten ==
  ASSUME DOMAIN req = Requests, NEW r \in Requests, NEW keys,
         req' = Written(Finished(r), keys)
  PROVE  Becomes(r, "done", Nothing, Nothing) /\ OthersKeepUnder(r, keys)
<1>1. DOMAIN req' = Requests /\ Becomes(r, "done", Nothing, Nothing)
  BY DEF Written, Finished, RequestAt, Becomes
<1>2. ASSUME NEW q \in Requests \ {r} PROVE KeepsUnder(q, keys)
  BY DEF Written, Finished, RequestAt, KeepsUnder
<1>3. QED BY <1>1, <1>2 DEF OthersKeepUnder

\* EXEC that is refused, and a failed call, end a request.
LEMMA RefusedStep ==
  ASSUME DOMAIN req = Requests, NEW r \in Requests, ExecRefused(r) \/ CallFails(r)
  PROVE  /\ req[r].stage \notin {"idle", "done"}
         /\ Becomes(r, "done", Nothing, Nothing) /\ OthersKeepUnder(r, {})
BY FinishedStep DEF ExecRefused, CallFails

\* A write makes stale the transactions that watch one of its keys.
LEMMA WrittenStep ==
  ASSUME NEW f, NEW keys, req' = Written(f, keys), NEW q \in Requests
  PROVE  /\ req'[q].op = f[q].op /\ req'[q].stage = f[q].stage /\ req'[q].arg = f[q].arg
         /\ req'[q].got = f[q].got /\ req'[q].watched = f[q].watched
         /\ ~req'[q].stale <=> ~f[q].stale /\ f[q].watched \cap keys = {}
BY DEF Written
-----------------------------------------------------------------------------
(* Threads.                                                                *)

Writers == Requests \cup {Earlier}
StoredHeader == [updated : Nat \ {0}, fields : [HeaderFields -> Writers]]
StoredComment == [id : CommentIDs, fields : [CommentFields -> Writers]]

ThreadTypes ==
    /\ clock \in Nat \ {0}
    /\ header \in [ThreadIDs -> StoredHeader \cup {NoHeader}]
    /\ index \subseteq ThreadIDs
    /\ comments \in [ThreadIDs -> Seq(StoredComment)]
    /\ readAt \in [ThreadIDs -> [Readers -> Nat]]
    /\ seen \in [ThreadIDs -> SUBSET Readers]
    /\ news \in [ThreadIDs -> [author : SUBSET Requests, state : {"published", "due", "lost"}]]

\* The arguments of q.
ThreadArguments(q) ==
    LET arg == req[q].arg IN
    /\ req[q].op \in ThreadOps
    /\ arg.t \in ThreadIDs /\ arg.now \in Nat \ {0}
    /\ req[q].op \in {"CreateThread", "AddComment"} => arg.c \in CommentIDs
    /\ req[q].op \in {"MarkThreadRead", "MarkThreadUnread"} => arg.u \in Readers

\* What q has read of its thread is still so.
ReadHolds(q) ==
    LET t == req[q].arg.t IN
    /\ req[q].op = "CreateThread" <=> ~Exists(t)
    /\ req[q].op = "UpdateComment" => req[q].got.comment = comments[t][req[q].got.index]
    /\ req[q].op = "MarkThreadRead" => req[q].got.updated = header[t].updated

ThreadStages == {"idle", "started", "exec", "reload", "comments", "publish", "done"}

ThreadRequestSound(q) ==
    /\ req[q].stage \in ThreadStages
    /\ req[q].stage \notin {"idle", "done"} => ThreadArguments(q)
    /\ req[q].stage = "exec" =>
         /\ req[q].watched = WatchedKeys(req[q].op, req[q].arg.t)
         /\ ~req[q].stale => ReadHolds(q)

\* a has still to publish t as it is stored.
Publishes(a, t) ==
    /\ req[a].op \in ThreadOps /\ req[a].arg.t = t
    /\ \/ req[a].stage = "reload" /\ req[a].op # "DeleteThread" /\ Exists(t)
       \/ /\ req[a].stage = "comments" /\ req[a].op # "DeleteThread" /\ Exists(t)
          /\ req[a].got.header = header[t]
       \/ req[a].stage = "publish" /\ Carries(a, t)

NewsPublished(t) ==
    news[t].state = "due" => \E a \in Requests : news[t].author = {a} /\ Publishes(a, t)

ThreadInv ==
    /\ ThreadTypes /\ DOMAIN req = Requests
    /\ \A q \in Requests : ThreadRequestSound(q)
    /\ ThreadsWhole /\ ReadStaysRead
    /\ \A t \in ThreadIDs : NewsPublished(t)

\* Every transaction on a thread watches its header.
LEMMA WatchesThread ==
  ASSUME NEW op, NEW t
  PROVE  ThreadKey(t) \in WatchedKeys(op, t)
BY DEF WatchedKeys

\* ThreadsWhole, thread by thread.
Whole(t) ==
    /\ t \in index <=> Exists(t)
    /\ Exists(t) <=> comments[t] # << >>
    /\ ~Exists(t) => \A u \in Readers : readAt[t][u] = NoMark

\* ThreadsWhole, thread by thread.
LEMMA WholeEach ==
  ASSUME ThreadTypes
  PROVE  ThreadsWhole <=> \A t \in ThreadIDs : Whole(t)
BY DEF ThreadTypes, ThreadsWhole, Whole, ListThreads

\* The same of the next state.
LEMMA WholeEachNext ==
  ASSUME ThreadTypes'
  PROVE  ThreadsWhole' <=> \A t \in ThreadIDs : Whole(t)'
BY DEF ThreadTypes, ThreadsWhole, Whole, ListThreads, Exists

\* ReadStaysRead, thread by thread.
StaysRead(t) == Exists(t) => \A u \in seen[t] : ~Unread(t, u)

\* ReadStaysRead, thread by thread.
LEMMA StaysReadEach ==
  ASSUME ThreadTypes, ThreadsWhole
  PROVE  ReadStaysRead <=> \A t \in ThreadIDs : StaysRead(t)
BY DEF ThreadTypes, ThreadsWhole, ReadStaysRead, StaysRead, ListThreads

\* The same of the next state.
LEMMA StaysReadEachNext ==
  ASSUME ThreadTypes', ThreadsWhole'
  PROVE  ReadStaysRead' <=> \A t \in ThreadIDs : StaysRead(t)'
BY DEF ThreadTypes, ThreadsWhole, ReadStaysRead, StaysRead, ListThreads, Unread, Exists

\* A request that another's step leaves alone stays sound: if the step wrote
\* its thread, it is stale.
LEMMA ThreadOthersSound ==
  ASSUME NEW q \in Requests, ThreadRequestSound(q), NEW keys, KeepsUnder(q, keys),
         \A s \in ThreadIDs : ThreadKey(s) \notin keys =>
             header'[s] = header[s] /\ comments'[s] = comments[s]
  PROVE  ThreadRequestSound(q)'
<1>1. req'[q].stage \notin {"idle", "done"} => ThreadArguments(q)'
  BY DEF ThreadRequestSound, ThreadArguments, KeepsUnder
<1>2. ASSUME req'[q].stage = "exec", ~req'[q].stale PROVE ReadHolds(q)'
  <2>1. req[q].arg.t \in ThreadIDs /\ req[q].watched = WatchedKeys(req[q].op, req[q].arg.t)
        /\ ReadHolds(q) /\ req[q].watched \cap keys = {}
    BY <1>2 DEF ThreadRequestSound, ThreadArguments, KeepsUnder
  <2>2. ThreadKey(req[q].arg.t) \notin keys
    BY <2>1, WatchesThread
  <2>3. QED BY <2>1, <2>2 DEF ReadHolds, KeepsUnder, Exists
<1>3. QED BY <1>1, <1>2 DEF ThreadRequestSound, KeepsUnder

\* What a request has still to publish is as it was, if its thread is.
LEMMA PublishesStays ==
  ASSUME NEW a \in Requests, NEW t, NEW keys, KeepsUnder(a, keys), Publishes(a, t),
         header'[t] = header[t], comments'[t] = comments[t]
  PROVE  Publishes(a, t)'
BY DEF Publishes, KeepsUnder, Carries, Exists

\* A step of r that leaves the stored threads alone.
LEMMA ThreadsStill ==
  ASSUME ThreadInv, NEW r \in Requests, OthersKeepUnder(r, {}),
         UNCHANGED <<header, index, comments, readAt, seen>>,
         clock' \in Nat \ {0},
         ThreadRequestSound(r)',
         news' \in [ThreadIDs -> [author : SUBSET Requests, state : {"published", "due", "lost"}]],
         \A t \in ThreadIDs : news'[t].state = "due" =>
             /\ news[t].state = "due" /\ news'[t].author = news[t].author
             /\ news[t].author = {r} => Publishes(r, t)'
  PROVE  ThreadInv'
<1> USE DEF ThreadInv
<1>1. ThreadTypes'
  BY DEF ThreadTypes
<1>2. ASSUME NEW q \in Requests PROVE ThreadRequestSound(q)'
  BY ThreadOthersSound DEF OthersKeepUnder
<1>3. ThreadsWhole' /\ ReadStaysRead'
  BY DEF ThreadsWhole, ReadStaysRead, ListThreads, Exists, Unread
<1>4. ASSUME NEW t \in ThreadIDs PROVE NewsPublished(t)'
  <2> SUFFICES ASSUME news'[t].state = "due"
               PROVE  \E a \in Requests : news'[t].author = {a} /\ Publishes(a, t)'
    BY DEF NewsPublished
  <2>1. PICK a \in Requests : news[t].author = {a} /\ Publishes(a, t)
    BY DEF NewsPublished
  <2>2. CASE a = r
    BY <2>1, <2>2
  <2>3. CASE a # r
    BY <2>1, <2>3, PublishesStays DEF OthersKeepUnder
  <2>4. QED BY <2>2, <2>3
<1>5. QED BY <1>1, <1>2, <1>3, <1>4 DEF OthersKeepUnder

\* r commits a change of t.
LEMMA ThreadChanges ==
  ASSUME ThreadInv, NEW r \in Requests, NEW t \in ThreadIDs, NEW keys,
         req[r].arg.t = t, OthersKeepUnder(r, keys), ThreadKey(t) \in keys,
         \A s \in ThreadIDs \ {t} :
             /\ header'[s] = header[s] /\ comments'[s] = comments[s] /\ readAt'[s] = readAt[s]
             /\ s \in index' <=> s \in index,
         header' \in [ThreadIDs -> StoredHeader \cup {NoHeader}],
         index' \subseteq ThreadIDs,
         comments' \in [ThreadIDs -> Seq(StoredComment)],
         readAt' \in [ThreadIDs -> [Readers -> Nat]],
         Changed(r, t),
         Whole(t)', ThreadRequestSound(r)', Publishes(r, t)'
  PROVE  ThreadInv'
<1> USE DEF ThreadInv
<1>0. news' = [news EXCEPT ![t] = [author |-> {r}, state |-> "due"]]
      /\ seen' = [seen EXCEPT ![t] = {}] /\ clock' = clock
  BY DEF Changed
<1>1. ThreadTypes'
  <2>1. [author |-> {r}, state |-> "due"] \in [author : SUBSET Requests, state : {"published", "due", "lost"}]
    OBVIOUS
  <2>2. news' \in [ThreadIDs -> [author : SUBSET Requests, state : {"published", "due", "lost"}]]
    BY <1>0, <2>1 DEF ThreadTypes
  <2>3. seen' \in [ThreadIDs -> SUBSET Readers]
    BY <1>0 DEF ThreadTypes
  <2>4. QED BY <1>0, <2>2, <2>3 DEF ThreadTypes
<1>2. ASSUME NEW q \in Requests PROVE ThreadRequestSound(q)'
  <2>1. \A s \in ThreadIDs : ThreadKey(s) \notin keys =>
             header'[s] = header[s] /\ comments'[s] = comments[s]
    OBVIOUS
  <2>2. QED BY <2>1, ThreadOthersSound DEF OthersKeepUnder
<1>3. ThreadsWhole'
  <2>1. ASSUME NEW s \in ThreadIDs, s # t PROVE Whole(s)'
    <3>1. Whole(s)
      BY WholeEach
    <3>2. /\ header'[s] = header[s] /\ comments'[s] = comments[s] /\ readAt'[s] = readAt[s]
          /\ (s \in index' <=> s \in index)
      BY <2>1
    <3>3. QED BY <3>1, <3>2 DEF Whole, Exists
  <2>2. QED BY <1>1, <2>1, WholeEachNext
<1>4. ReadStaysRead'
  <2>1. ASSUME NEW s \in ThreadIDs, s # t PROVE StaysRead(s)'
    BY <1>0, <2>1, StaysReadEach DEF StaysRead, Exists, Unread, ThreadTypes
  <2>2. StaysRead(t)'
    BY <1>0 DEF StaysRead, ThreadTypes
  <2>3. QED BY <1>1, <1>3, <2>1, <2>2, StaysReadEachNext
<1>5. ASSUME NEW s \in ThreadIDs PROVE NewsPublished(s)'
  <2>1. CASE s = t
    BY <1>0, <2>1 DEF NewsPublished, ThreadTypes
  <2>2. CASE s # t
    <3> SUFFICES ASSUME news'[s].state = "due"
                 PROVE  \E a \in Requests : news'[s].author = {a} /\ Publishes(a, s)'
      BY DEF NewsPublished
    <3>1. news'[s] = news[s]
      BY <1>0, <2>2 DEF ThreadTypes
    <3>2. PICK a \in Requests : news[s].author = {a} /\ Publishes(a, s)
      BY <3>1 DEF NewsPublished
    <3>3. a # r
      BY <2>2, <3>2 DEF Publishes
    <3>4. QED BY <2>2, <3>1, <3>2, <3>3, PublishesStays DEF OthersKeepUnder
  <2>3. QED BY <2>1, <2>2
<1>6. QED BY <1>1, <1>2, <1>3, <1>4, <1>5 DEF OthersKeepUnder

\* r marks t, and no header or list changes.
LEMMA ThreadMarks ==
  ASSUME ThreadInv, NEW r \in Requests, NEW t \in ThreadIDs, NEW u \in Readers, NEW keys, NEW mark \in Nat,
         CanExec(r, "MarkThreadRead") \/ CanExec(r, "MarkThreadUnread"),
         req[r].arg.t = t,
         req' = Written(Finished(r), keys),
         readAt' = [readAt EXCEPT ![t][u] = mark],
         UNCHANGED <<clock, header, index, comments, news>>,
         \/ seen' = [seen EXCEPT ![t] = @ \ {u}]
         \/ seen' = [seen EXCEPT ![t] = @ \cup {u}] /\ mark # NoMark /\ ~(mark < header[t].updated)
  PROVE  ThreadInv'
<1> USE DEF ThreadInv
<1>0. Becomes(r, "done", Nothing, Nothing) /\ OthersKeepUnder(r, keys)
  BY FinishedWritten
<1>1. /\ readAt' \in [ThreadIDs -> [Readers -> Nat]]
      /\ \A s \in ThreadIDs, v \in Readers : ~(s = t /\ v = u) => readAt'[s][v] = readAt[s][v]
      /\ readAt'[t][u] = mark
  BY DEF ThreadTypes
<1>2. /\ seen' \in [ThreadIDs -> SUBSET Readers]
      /\ \A s \in ThreadIDs, v \in Readers : ~(s = t /\ v = u) => (v \in seen'[s] <=> v \in seen[s])
      /\ u \in seen'[t] => mark # NoMark /\ ~(mark < header[t].updated)
  <2>0. seen \in [ThreadIDs -> SUBSET Readers]
    BY DEF ThreadTypes
  <2> HIDE DEF ThreadInv
  <2>1. CASE seen' = [seen EXCEPT ![t] = @ \ {u}]
    <3>1. seen[t] \ {u} \in SUBSET Readers
      BY <2>0
    <3>2. QED BY <2>0, <2>1, <3>1
  <2>2. CASE seen' = [seen EXCEPT ![t] = @ \cup {u}] /\ mark # NoMark /\ ~(mark < header[t].updated)
    <3>1. seen[t] \cup {u} \in SUBSET Readers
      BY <2>0
    <3>2. QED BY <2>0, <2>2, <3>1
  <2>3. QED BY <2>1, <2>2
<1>3. ThreadTypes'
  BY <1>1, <1>2 DEF ThreadTypes
<1>4. Exists(t)
  BY DEF CanExec, At, ThreadRequestSound, ReadHolds
<1>5. ThreadsWhole'
  <2>1. ASSUME NEW s \in ThreadIDs PROVE Whole(s)'
    BY <1>1, <1>4, WholeEach DEF Whole, Exists
  <2>2. QED BY <1>3, <2>1, WholeEachNext
<1>6. ReadStaysRead'
  <2>1. ASSUME NEW s \in ThreadIDs PROVE StaysRead(s)'
    BY <1>1, <1>2, <1>3, StaysReadEach DEF StaysRead, Exists, Unread, ThreadTypes
  <2>2. QED BY <1>3, <1>5, <2>1, StaysReadEachNext
<1>7. ASSUME NEW q \in Requests PROVE ThreadRequestSound(q)'
  <2>1. CASE q = r
    BY <1>0, <2>1 DEF Becomes, ThreadRequestSound, ThreadStages
  <2>2. CASE q # r
    BY <1>0, <2>2, ThreadOthersSound DEF OthersKeepUnder
  <2>3. QED BY <2>1, <2>2
<1>8. ASSUME NEW s \in ThreadIDs PROVE NewsPublished(s)'
  <2> SUFFICES ASSUME news[s].state = "due"
               PROVE  \E a \in Requests : news[s].author = {a} /\ Publishes(a, s)'
    BY DEF NewsPublished
  <2>1. PICK a \in Requests : news[s].author = {a} /\ Publishes(a, s)
    BY DEF NewsPublished
  <2>2. a # r
    BY <2>1 DEF Publishes, CanExec, At
  <2>3. QED BY <1>0, <2>1, <2>2, PublishesStays DEF OthersKeepUnder
<1>9. QED BY <1>0, <1>3, <1>5, <1>6, <1>7, <1>8 DEF OthersKeepUnder

\* A handler starts.
LEMMA StartThreadSound ==
  ASSUME ThreadInv, NEW r \in Requests, NEW op \in ThreadOps, NEW arg,
         StartThread(r, op, arg),
         arg.t \in ThreadIDs, arg.now = clock + 1,
         op \in {"CreateThread", "AddComment"} => arg.c \in CommentIDs,
         op \in {"MarkThreadRead", "MarkThreadUnread"} => arg.u \in Readers
  PROVE  ThreadInv'
<1> USE DEF ThreadInv
<1>1. /\ req[r].stage = "idle" /\ failures' = failures
      /\ req'[r].op = op /\ req'[r].stage = "started" /\ req'[r].arg = arg
      /\ OthersKeepUnder(r, {})
      /\ clock' = clock + 1
      /\ UNCHANGED <<header, index, comments, readAt, seen, news>>
  BY StartStep DEF StartThread
<1>2. ThreadRequestSound(r)'
  BY <1>1 DEF ThreadRequestSound, ThreadArguments, ThreadStages, ThreadTypes
<1>3. \A t \in ThreadIDs : news[t].state = "due" => news[t].author # {r}
  BY <1>1 DEF NewsPublished, Publishes
<1>4. /\ clock' \in Nat \ {0}
      /\ news' \in [ThreadIDs -> [author : SUBSET Requests, state : {"published", "due", "lost"}]]
  BY <1>1 DEF ThreadTypes
<1>5. \A t \in ThreadIDs : news'[t].state = "due" =>
             /\ news[t].state = "due" /\ news'[t].author = news[t].author
             /\ news[t].author = {r} => Publishes(r, t)'
  BY <1>1, <1>3
<1>6. UNCHANGED <<header, index, comments, readAt, seen>>
  BY <1>1
<1>7. QED BY <1>1, <1>2, <1>4, <1>5, <1>6, ThreadsStill

\* Any handler starts.
LEMMA ThreadRequestStarts ==
  ASSUME ThreadInv, NEW r \in Requests, ThreadRequest(r)
  PROVE  ThreadInv'
<1>1. PICK t \in ThreadIDs :
        \/ \E c \in CommentIDs :
            \/ handleCreateThread(r, t, c)
            \/ handleAddComment(r, t, c)
            \/ \E fs \in FieldSets(CommentFields) : handleUpdateComment(r, t, c, fs)
        \/ \E fs \in FieldSets(HeaderFields) : handleUpdateThread(r, t, fs)
        \/ handleDeleteThread(r, t)
        \/ \E u \in Readers, read \in BOOLEAN : handleThreadReadStateMutation(r, t, u, read)
  BY DEF ThreadRequest
<1>2. ASSUME NEW c \in CommentIDs, handleCreateThread(r, t, c) PROVE ThreadInv'
  BY <1>2, StartThreadSound DEF handleCreateThread, ThreadOps
<1>3. ASSUME NEW c \in CommentIDs, handleAddComment(r, t, c) PROVE ThreadInv'
  BY <1>3, StartThreadSound DEF handleAddComment, ThreadOps
<1>4. ASSUME NEW c \in CommentIDs, NEW fs, handleUpdateComment(r, t, c, fs) PROVE ThreadInv'
  BY <1>4, StartThreadSound DEF handleUpdateComment, ThreadOps
<1>5. ASSUME NEW fs, handleUpdateThread(r, t, fs) PROVE ThreadInv'
  BY <1>5, StartThreadSound DEF handleUpdateThread, ThreadOps
<1>6. ASSUME handleDeleteThread(r, t) PROVE ThreadInv'
  BY <1>6, StartThreadSound DEF handleDeleteThread, ThreadOps
<1>7. ASSUME NEW u \in Readers, NEW read \in BOOLEAN, handleThreadReadStateMutation(r, t, u, read)
      PROVE  ThreadInv'
  <2>1. CASE read
    BY <1>7, <2>1, StartThreadSound DEF handleThreadReadStateMutation, ThreadOps
  <2>2. CASE ~read
    BY <1>7, <2>2, StartThreadSound DEF handleThreadReadStateMutation, ThreadOps
  <2>3. QED BY <2>1, <2>2
<1>8. QED BY <1>1, <1>2, <1>3, <1>4, <1>5, <1>6, <1>7

\* WATCH and the reads of a transaction.
LEMMA WatchThreadSound ==
  ASSUME ThreadInv, NEW r \in Requests, WatchThread(r)
  PROVE  ThreadInv'
<1> USE DEF ThreadInv
<1>1. req[r].stage = "started" /\ req[r].op \in ThreadOps
      /\ UNCHANGED <<failures, clock, header, index, comments, readAt, seen, news>>
  BY DEF WatchThread, threadVars
<1>2. \A t \in ThreadIDs : news[t].state = "due" => news[t].author # {r}
  BY <1>1 DEF NewsPublished, Publishes
<1>3. CASE Refused(r)
  <2>1. req' = Finished(r)
    BY <1>3 DEF WatchThread
  <2>2. Becomes(r, "done", Nothing, Nothing) /\ OthersKeepUnder(r, {})
    BY <2>1, FinishedStep
  <2>3. ThreadRequestSound(r)'
    BY <2>2 DEF Becomes, ThreadRequestSound, ThreadStages
  <2>4. QED BY <1>1, <1>2, <2>2, <2>3, ThreadsStill DEF ThreadTypes
<1>4. CASE ~Refused(r)
  <2>1. req' = Watching(r, WatchedKeys(req[r].op, req[r].arg.t), Read(r))
    BY <1>4 DEF WatchThread
  <2>2. /\ req'[r].op = req[r].op /\ req'[r].stage = "exec"
        /\ req'[r].arg = req[r].arg /\ req'[r].got = Read(r)
        /\ req'[r].watched = WatchedKeys(req[r].op, req[r].arg.t)
        /\ OthersKeepUnder(r, {})
    BY <2>1, WatchingStep
  <2>3. ReadHolds(r)'
    BY <1>1, <1>4, <2>2 DEF ReadHolds, Refused, Read, ThreadOps, Exists
  <2>4. ThreadArguments(r)'
    BY <1>1, <2>2 DEF ThreadRequestSound, ThreadArguments
  <2>5. ThreadRequestSound(r)'
    BY <2>2, <2>3, <2>4 DEF ThreadRequestSound, ThreadStages
  <2>6. QED BY <1>1, <1>2, <2>2, <2>5, ThreadsStill DEF ThreadTypes
<1>5. QED BY <1>3, <1>4

\* Loading a thread again: what r has loaded is what r may have to publish.
LEMMA ThreadReloads ==
  ASSUME ThreadInv, NEW r \in Requests, NEW stage, NEW got,
         req' = Advance(r, stage, got), stage \in {"comments", "publish"},
         req[r].stage \in {"reload", "comments"}, req[r].op \in ThreadOps,
         UNCHANGED <<failures, threadVars>>,
         \A t \in ThreadIDs : news[t].author = {r} /\ Publishes(r, t) => Publishes(r, t)'
  PROVE  ThreadInv'
<1> USE DEF ThreadInv, threadVars
<1>1. Becomes(r, stage, req[r].arg, got) /\ OthersKeepUnder(r, {})
  BY AdvanceStep
<1>2. ThreadArguments(r)'
  BY <1>1 DEF Becomes, ThreadRequestSound, ThreadArguments
<1>3. ThreadRequestSound(r)'
  BY <1>1, <1>2 DEF Becomes, ThreadRequestSound, ThreadStages
<1>4. \A t \in ThreadIDs : news'[t].state = "due" =>
             /\ news[t].state = "due" /\ news'[t].author = news[t].author
             /\ news[t].author = {r} => Publishes(r, t)'
  BY DEF NewsPublished
<1>5. /\ clock' \in Nat \ {0}
      /\ news' \in [ThreadIDs -> [author : SUBSET Requests, state : {"published", "due", "lost"}]]
  BY DEF ThreadTypes
<1>6. UNCHANGED <<header, index, comments, readAt, seen>>
  OBVIOUS
<1>7. QED BY <1>1, <1>3, <1>4, <1>5, <1>6, ThreadsStill

\* r ends; no change is left for it to publish.
LEMMA ThreadEnds ==
  ASSUME ThreadInv, NEW r \in Requests, req' = Finished(r),
         UNCHANGED <<clock, header, index, comments, readAt, seen>>,
         news' \in [ThreadIDs -> [author : SUBSET Requests, state : {"published", "due", "lost"}]],
         \A t \in ThreadIDs : news'[t].state = "due" =>
             /\ news[t].state = "due" /\ news'[t].author = news[t].author
             /\ news[t].author # {r}
  PROVE  ThreadInv'
<1> USE DEF ThreadInv
<1>1. Becomes(r, "done", Nothing, Nothing) /\ OthersKeepUnder(r, {})
  BY FinishedStep
<1>2. ThreadRequestSound(r)'
  BY <1>1 DEF Becomes, ThreadRequestSound, ThreadStages
<1>3. clock' \in Nat \ {0}
  BY DEF ThreadTypes
<1>4. QED BY <1>1, <1>2, <1>3, ThreadsStill

\* loadThreadHeader finds the thread of r while r's change is the latest.
LEMMA LoadThreadHeaderSound ==
  ASSUME ThreadInv, NEW r \in Requests, loadThreadHeader(r)
  PROVE  ThreadInv'
<1> USE DEF ThreadInv
<1>1. req[r].stage = "reload" /\ req[r].op \in ThreadOps /\ UNCHANGED <<failures, threadVars>>
  BY DEF loadThreadHeader
<1>2. CASE Exists(req[r].arg.t)
  <2>1. req' = Advance(r, "comments", [header |-> header[req[r].arg.t]])
    BY <1>2 DEF loadThreadHeader
  <2>2. ASSUME NEW t \in ThreadIDs, Publishes(r, t) PROVE Publishes(r, t)'
    <3>1. Becomes(r, "comments", req[r].arg, [header |-> header[req[r].arg.t]])
      BY <2>1, AdvanceStep
    <3>2. QED BY <1>1, <2>2, <3>1 DEF Publishes, Becomes, Exists, threadVars
  <2>3. QED BY <1>1, <2>1, <2>2, ThreadReloads
<1>3. CASE ~Exists(req[r].arg.t)
  <2>1. req' = Finished(r)
    BY <1>3 DEF loadThreadHeader
  <2>2. \A t \in ThreadIDs : news[t].state = "due" => news[t].author # {r}
    BY <1>1, <1>3 DEF NewsPublished, Publishes
  <2>3. QED BY <1>1, <2>1, <2>2, ThreadEnds DEF threadVars, ThreadTypes
<1>4. QED BY <1>2, <1>3

\* What loadThreadRecord loaded is the stored thread while r's change is the
\* latest.
LEMMA LoadThreadRecordSound ==
  ASSUME ThreadInv, NEW r \in Requests, loadThreadRecord(r)
  PROVE  ThreadInv'
<1> USE DEF ThreadInv
<1> DEFINE loaded == [header |-> req[r].got.header, comments |-> comments[req[r].arg.t]]
<1>1. req[r].stage = "comments" /\ req[r].op \in ThreadOps /\ UNCHANGED <<failures, threadVars>>
      /\ req' = Advance(r, "publish", loaded)
  BY DEF loadThreadRecord
<1>2. ASSUME NEW t \in ThreadIDs, Publishes(r, t) PROVE Publishes(r, t)'
  <2>1. Becomes(r, "publish", req[r].arg, loaded)
    BY <1>1, AdvanceStep
  <2>2. req[r].arg.t = t /\ req[r].got.header = header[t] /\ req[r].op # "DeleteThread"
    BY <1>1, <1>2 DEF Publishes
  <2>3. Carries(r, t)'
    BY <1>1, <2>1, <2>2 DEF Carries, Becomes, threadVars
  <2>4. QED BY <1>1, <2>1, <2>2, <2>3 DEF Publishes, Becomes
<1>3. QED
  <2> HIDE DEF loaded, ThreadInv
  <2>1. QED BY <1>1, <1>2, ThreadReloads

\* Publishing: the latest change, if it is r's, is published as it is stored.
LEMMA PublishThreadSound ==
  ASSUME ThreadInv, NEW r \in Requests, publishCommentEvent(r)
  PROVE  ThreadInv'
<1> USE DEF ThreadInv
<1> DEFINE t == req[r].arg.t
<1>1. /\ req[r].stage = "publish" /\ req[r].op \in ThreadOps /\ req' = Finished(r)
      /\ UNCHANGED <<clock, failures, header, index, comments, readAt, seen>>
  BY DEF publishCommentEvent
<1>2. t \in ThreadIDs
  BY <1>1 DEF ThreadRequestSound, ThreadArguments
<1>3. ASSUME NEW s \in ThreadIDs, news[s].state = "due", news[s].author = {r}
      PROVE  s = t /\ Carries(r, t)
  BY <1>1, <1>3 DEF NewsPublished, Publishes
<1>4. CASE Carries(r, t)
  <2>1. news' = [news EXCEPT ![t].state = "published"]
    BY <1>4 DEF publishCommentEvent
  <2>2. news \in [ThreadIDs -> [author : SUBSET Requests, state : {"published", "due", "lost"}]]
    BY DEF ThreadTypes
  <2> HIDE DEF t, ThreadInv
  <2>3. PICK told : told = [news[t] EXCEPT !.state = "published"]
    OBVIOUS
  <2>4. /\ told \in [author : SUBSET Requests, state : {"published", "due", "lost"}]
        /\ told.state = "published"
    BY <1>2, <2>2, <2>3
  <2>5. news' = [news EXCEPT ![t] = told]
    BY <2>1, <2>3
  <2>6. news' \in [ThreadIDs -> [author : SUBSET Requests, state : {"published", "due", "lost"}]]
    BY <1>2, <2>2, <2>4, <2>5
  <2>7. /\ \A s \in ThreadIDs \ {t} : news'[s] = news[s]
        /\ news'[t].state = "published"
    BY <1>2, <2>2, <2>4, <2>5
  <2>8. QED BY <1>1, <1>3, <2>6, <2>7, ThreadEnds
<1>5. CASE ~Carries(r, t)
  <2>1. news' = news
    BY <1>5 DEF publishCommentEvent
  <2>2. QED BY <1>1, <1>3, <1>5, <2>1, ThreadEnds DEF ThreadTypes
<1>6. QED BY <1>4, <1>5

\* A failed call: r's change stays unpublished.
LEMMA ThreadCallFailsSound ==
  ASSUME ThreadInv, NEW r \in Requests, ThreadCallFails(r)
  PROVE  ThreadInv'
<1> USE DEF ThreadInv
<1>1. /\ req' = Finished(r)
      /\ UNCHANGED <<clock, header, index, comments, readAt, seen>>
  BY DEF ThreadCallFails, CallFails
<1>2. news' = [t \in ThreadIDs |->
            IF news[t].author = {r} /\ news[t].state = "due"
            THEN [news[t] EXCEPT !.state = "lost"] ELSE news[t]]
  BY DEF ThreadCallFails
<1>3. news' \in [ThreadIDs -> [author : SUBSET Requests, state : {"published", "due", "lost"}]]
  <2>1. \A k \in [author : SUBSET Requests, state : {"published", "due", "lost"}] :
          [k EXCEPT !.state = "lost"] \in [author : SUBSET Requests, state : {"published", "due", "lost"}]
    OBVIOUS
  <2>2. news \in [ThreadIDs -> [author : SUBSET Requests, state : {"published", "due", "lost"}]]
    BY DEF ThreadTypes
  <2>3. QED BY <1>2, <2>1, <2>2
<1>4. ASSUME NEW t \in ThreadIDs, news'[t].state = "due"
      PROVE  news'[t] = news[t] /\ news[t].author # {r}
  BY <1>2, <1>4 DEF ThreadTypes
<1>5. QED BY <1>1, <1>3, <1>4, ThreadEnds

\* A refused EXEC.
LEMMA ThreadExecRefusedSound ==
  ASSUME ThreadInv, NEW r \in Requests, ThreadExecRefused(r)
  PROVE  ThreadInv'
<1> USE DEF ThreadInv
<1>1. req[r].stage = "exec" /\ req' = Finished(r) /\ UNCHANGED threadVars
  BY DEF ThreadExecRefused, ExecRefused
<1>2. \A t \in ThreadIDs : news[t].state = "due" => news[t].author # {r}
  BY <1>1 DEF NewsPublished, Publishes
<1>3. QED BY <1>1, <1>2, ThreadEnds DEF threadVars, ThreadTypes

\* A change that is executed: its thread, and what was read of it.
LEMMA ThreadExecs ==
  ASSUME ThreadInv, NEW r \in Requests, NEW op \in ThreadOps, CanExec(r, op)
  PROVE  /\ req[r].op = op /\ req[r].stage = "exec" /\ ThreadArguments(r) /\ ReadHolds(r)
         /\ req[r].arg.t \in ThreadIDs
BY DEF ThreadInv, CanExec, At, ThreadRequestSound, ThreadArguments

\* After a commit r is where its stage says, with what it made.
LEMMA CommittedSound ==
  ASSUME NEW r \in Requests, NEW stage \in {"reload", "publish"}, NEW got,
         ThreadArguments(r), Becomes(r, stage, req[r].arg, got)
  PROVE  ThreadRequestSound(r)'
BY DEF Becomes, ThreadRequestSound, ThreadArguments, ThreadStages

\* A new thread is whole, and what is published is what is stored.
LEMMA CreateThreadSound ==
  ASSUME ThreadInv, NEW r \in Requests, NEW t, t = req[r].arg.t, CreateThread(r)
  PROVE  ThreadInv'
<1> DEFINE list == <<NewComment(r, req[r].arg.c)>>
           made == NewHeader(r, req[r].arg.now)
           keys == {ThreadKey(t), CommentsKey(t)}
<1>1. CanExec(r, "CreateThread") /\ Changed(r, t) /\ readAt' = readAt
  BY DEF CreateThread
<1>2. t \in ThreadIDs /\ ThreadArguments(r) /\ ReadHolds(r) /\ req[r].op = "CreateThread"
  BY <1>1, ThreadExecs DEF ThreadOps
<1>3. ThreadTypes
  BY DEF ThreadInv
<1>4. made \in StoredHeader /\ made # NoHeader
  BY <1>2 DEF NewHeader, StoredHeader, Writers, NoHeader, ThreadArguments
<1>5. list \in Seq(StoredComment) /\ list # << >>
  <2>1. NewComment(r, req[r].arg.c) \in StoredComment
    BY <1>2 DEF NewComment, StoredComment, Writers, ThreadArguments
  <2>2. QED BY <2>1
<1>6. ~Exists(t) /\ comments[t] = << >>
  BY <1>2, <1>3, WholeEach DEF ReadHolds, Whole, ThreadInv
<1>7. header' = [header EXCEPT ![t] = made] /\ index' = index \cup {t}
  BY DEF CreateThread
<1>8. comments' = [comments EXCEPT ![t] = list]
  <2>1. comments' = [comments EXCEPT ![t] = comments[t] \o list]
    BY DEF CreateThread
  <2>2. << >> \o list = list
    BY <1>5
  <2>3. QED BY <1>6, <2>1, <2>2
<1>9. req' = Written(Advance(r, "publish", [header |-> made, comments |-> list]), keys)
  BY DEF CreateThread
<1>10. /\ Becomes(r, "publish", req[r].arg, [header |-> made, comments |-> list])
       /\ OthersKeepUnder(r, keys)
  BY <1>9, AdvanceWritten DEF ThreadInv
<1> HIDE DEF list, made
<1>11. header'[t] = made /\ comments'[t] = list /\ t \in index'
       /\ header' \in [ThreadIDs -> StoredHeader \cup {NoHeader}]
       /\ comments' \in [ThreadIDs -> Seq(StoredComment)]
       /\ index' \subseteq ThreadIDs
  BY <1>2, <1>3, <1>4, <1>5, <1>7, <1>8 DEF ThreadTypes
<1>12. \A s \in ThreadIDs \ {t} :
             /\ header'[s] = header[s] /\ comments'[s] = comments[s] /\ readAt'[s] = readAt[s]
             /\ s \in index' <=> s \in index
  BY <1>1, <1>2, <1>3, <1>7, <1>8 DEF ThreadTypes
<1>13. Whole(t)'
  BY <1>4, <1>5, <1>11 DEF Whole, Exists
<1>14. Publishes(r, t)'
  BY <1>2, <1>10, <1>11 DEF Publishes, Carries, Becomes, ThreadOps
<1>15. ThreadRequestSound(r)'
  BY <1>2, <1>10, CommittedSound
<1>16. readAt' \in [ThreadIDs -> [Readers -> Nat]]
  BY <1>1, <1>3 DEF ThreadTypes
<1>17. QED BY <1>1, <1>2, <1>10, <1>11, <1>12, <1>13, <1>14, <1>15, <1>16, ThreadChanges

\* The header of t is written by r, which loads the thread again; whatever
\* happens to the comments, there are some.
LEMMA ThreadRewritten ==
  ASSUME ThreadInv, NEW r \in Requests, NEW t, t = req[r].arg.t,
         NEW op \in {"UpdateThread", "AddComment", "UpdateComment"}, CanExec(r, op),
         NEW made \in StoredHeader, header' = [header EXCEPT ![t] = made],
         NEW list \in Seq(StoredComment), list # << >>,
         comments' = [comments EXCEPT ![t] = list],
         NEW keys, ThreadKey(t) \in keys, req' = Written(Advance(r, "reload", Nothing), keys),
         Changed(r, t), UNCHANGED <<index, readAt>>
  PROVE  ThreadInv'
<1>1. t \in ThreadIDs /\ ThreadArguments(r) /\ ReadHolds(r) /\ req[r].op = op
  BY ThreadExecs DEF ThreadOps
<1>2. ThreadTypes /\ DOMAIN req = Requests
  BY DEF ThreadInv
<1>3. made # NoHeader
  BY DEF StoredHeader, NoHeader
<1>4. Exists(t) /\ t \in index
  BY <1>1, <1>2, WholeEach DEF ReadHolds, Whole, ThreadInv
<1>5. Becomes(r, "reload", req[r].arg, Nothing) /\ OthersKeepUnder(r, keys)
  BY <1>2, AdvanceWritten
<1>6. header'[t] = made /\ comments'[t] = list
      /\ header' \in [ThreadIDs -> StoredHeader \cup {NoHeader}]
      /\ comments' \in [ThreadIDs -> Seq(StoredComment)]
  BY <1>1, <1>2 DEF ThreadTypes
<1>7. \A s \in ThreadIDs \ {t} :
             /\ header'[s] = header[s] /\ comments'[s] = comments[s] /\ readAt'[s] = readAt[s]
             /\ s \in index' <=> s \in index
  BY <1>1, <1>2 DEF ThreadTypes
<1>8. Whole(t)'
  BY <1>3, <1>4, <1>6 DEF Whole, Exists
<1>9. Publishes(r, t)'
  BY <1>1, <1>3, <1>5, <1>6 DEF Publishes, Becomes, Exists, ThreadOps
<1>10. ThreadRequestSound(r)'
  BY <1>1, <1>5, CommittedSound
<1>11. readAt' \in [ThreadIDs -> [Readers -> Nat]] /\ index' \subseteq ThreadIDs
  BY <1>2 DEF ThreadTypes
<1>12. QED BY <1>1, <1>5, <1>6, <1>7, <1>8, <1>9, <1>10, <1>11, ThreadChanges

\* The thread a comment request of r changes has a header and comments.
LEMMA ThreadStored ==
  ASSUME ThreadInv, NEW r \in Requests, NEW t, t = req[r].arg.t,
         NEW op \in {"UpdateThread", "AddComment", "UpdateComment"}, CanExec(r, op)
  PROVE  /\ t \in ThreadIDs /\ ThreadArguments(r) /\ ReadHolds(r) /\ req[r].op = op
         /\ header[t] \in StoredHeader
         /\ comments[t] \in Seq(StoredComment) /\ comments[t] # << >>
         /\ Touched(r, t) = [header EXCEPT ![t] = [updated |-> req[r].arg.now, fields |-> header[t].fields]]
         /\ [updated |-> req[r].arg.now, fields |-> header[t].fields] \in StoredHeader
<1>1. t \in ThreadIDs /\ ThreadArguments(r) /\ ReadHolds(r) /\ req[r].op = op
  BY ThreadExecs DEF ThreadOps
<1>2. ThreadTypes
  BY DEF ThreadInv
<1>3. Exists(t) /\ comments[t] # << >>
  BY <1>1, <1>2, WholeEach DEF ReadHolds, Whole, ThreadInv
<1>4. header[t] \in StoredHeader
  BY <1>1, <1>2, <1>3 DEF ThreadTypes, Exists
<1>5. [updated |-> req[r].arg.now, fields |-> header[t].fields] \in StoredHeader
  BY <1>1, <1>4 DEF StoredHeader, ThreadArguments
<1>6. QED BY <1>1, <1>2, <1>3, <1>4, <1>5 DEF ThreadTypes, Touched

\* A thread is changed: every reader is owed the change.
LEMMA UpdateThreadSound ==
  ASSUME ThreadInv, NEW r \in Requests, NEW t, t = req[r].arg.t, UpdateThread(r)
  PROVE  ThreadInv'
<1> DEFINE made == [updated |-> req[r].arg.now,
                    fields |-> [f \in HeaderFields |->
                                   IF f \in req[r].arg.fs THEN r ELSE header[t].fields[f]]]
<1>1. CanExec(r, "UpdateThread")
  BY DEF UpdateThread
<1>2. /\ t \in ThreadIDs /\ ThreadArguments(r) /\ header[t] \in StoredHeader
      /\ comments[t] \in Seq(StoredComment) /\ comments[t] # << >>
  BY <1>1, ThreadStored
<1>3. made \in StoredHeader
  BY <1>2 DEF StoredHeader, ThreadArguments, Writers
<1>4. header' = [header EXCEPT ![t] = made]
  BY DEF UpdateThread
<1>5. comments' = [comments EXCEPT ![t] = comments[t]]
  BY DEF UpdateThread, ThreadInv, ThreadTypes
<1>6. req' = Written(Advance(r, "reload", Nothing), {ThreadKey(t)})
      /\ Changed(r, t) /\ UNCHANGED <<index, readAt>>
  BY DEF UpdateThread
<1> HIDE DEF made
<1>7. QED BY <1>1, <1>2, <1>3, <1>4, <1>5, <1>6, ThreadRewritten

\* A comment is added, and the thread is touched with it.
LEMMA AddCommentSound ==
  ASSUME ThreadInv, NEW r \in Requests, NEW t, t = req[r].arg.t, AddComment(r)
  PROVE  ThreadInv'
<1> DEFINE made == [updated |-> req[r].arg.now, fields |-> header[t].fields]
           new == NewComment(r, req[r].arg.c)
<1>1. CanExec(r, "AddComment")
  BY DEF AddComment
<1>2. /\ t \in ThreadIDs /\ ThreadArguments(r) /\ req[r].op = "AddComment"
      /\ comments[t] \in Seq(StoredComment) /\ made \in StoredHeader
      /\ Touched(r, t) = [header EXCEPT ![t] = made]
  BY <1>1, ThreadStored
<1>3. new \in StoredComment
  BY <1>2 DEF NewComment, StoredComment, Writers, ThreadArguments
<1>4. header' = [header EXCEPT ![t] = made]
      /\ comments' = [comments EXCEPT ![t] = Append(comments[t], new)]
  BY <1>2 DEF AddComment
<1>5. req' = Written(Advance(r, "reload", Nothing), {ThreadKey(t), CommentsKey(t)})
      /\ Changed(r, t) /\ UNCHANGED <<index, readAt>>
  BY DEF AddComment
<1> HIDE DEF made, new
<1>6. Append(comments[t], new) \in Seq(StoredComment) /\ Append(comments[t], new) # << >>
  BY <1>2, <1>3
<1>7. QED BY <1>1, <1>2, <1>4, <1>5, <1>6, ThreadRewritten

\* The comment r writes back.
Edited(r) ==
    [id |-> req[r].got.comment.id,
     fields |-> [f \in CommentFields |->
                    IF f \in req[r].arg.fs THEN r ELSE req[r].got.comment.fields[f]]]

\* A comment is changed, and the thread is touched with it.
LEMMA UpdateCommentSound ==
  ASSUME ThreadInv, NEW r \in Requests, NEW t, t = req[r].arg.t, UpdateComment(r)
  PROVE  ThreadInv'
<1> DEFINE made == [updated |-> req[r].arg.now, fields |-> header[t].fields]
           i == req[r].got.index
<1>1. CanExec(r, "UpdateComment") /\ i \in DOMAIN comments[t]
  BY DEF UpdateComment
<1>2. /\ t \in ThreadIDs /\ ThreadArguments(r) /\ ReadHolds(r) /\ req[r].op = "UpdateComment"
      /\ comments[t] \in Seq(StoredComment) /\ comments[t] # << >> /\ made \in StoredHeader
      /\ Touched(r, t) = [header EXCEPT ![t] = made]
  BY <1>1, ThreadStored
<1>3. req[r].got.comment \in StoredComment
  BY <1>1, <1>2 DEF ReadHolds
<1>4. Edited(r) \in StoredComment
  BY <1>3 DEF Edited, StoredComment, Writers
<1>5. header' = [header EXCEPT ![t] = made]
      /\ comments' = [comments EXCEPT ![t] = [comments[t] EXCEPT ![i] = Edited(r)]]
  BY <1>2 DEF UpdateComment, Edited
<1>6. req' = Written(Advance(r, "reload", Nothing), {ThreadKey(t), CommentsKey(t)})
      /\ Changed(r, t) /\ UNCHANGED <<index, readAt>>
  BY Zenon DEF UpdateComment
<1> HIDE DEF made, i
<1>7. /\ [comments[t] EXCEPT ![i] = Edited(r)] \in Seq(StoredComment)
      /\ [comments[t] EXCEPT ![i] = Edited(r)] # << >>
  BY <1>1, <1>2, <1>4
<1>8. QED BY <1>1, <1>2, <1>5, <1>6, <1>7, ThreadRewritten

\* All keys of a deleted thread go.
LEMMA DeleteThreadSound ==
  ASSUME ThreadInv, NEW r \in Requests, NEW t, t = req[r].arg.t, DeleteThread(r)
  PROVE  ThreadInv'
<1>0. PICK keys : keys = {ThreadKey(t), CommentsKey(t), ReadStateKey(t)}
  OBVIOUS
<1>1. CanExec(r, "DeleteThread") /\ Changed(r, t)
      /\ req' = Written(Advance(r, "publish", Nothing), keys)
  <2>1. CanExec(r, "DeleteThread") /\ Changed(r, t)
    BY Zenon DEF DeleteThread
  <2>2. req' = Written(Advance(r, "publish", Nothing), keys)
    BY <1>0, Zenon DEF DeleteThread
  <2>3. QED BY <2>1, <2>2
<1>2. t \in ThreadIDs /\ ThreadArguments(r) /\ req[r].op = "DeleteThread"
  BY <1>1, ThreadExecs DEF ThreadOps
<1>3. ThreadTypes /\ DOMAIN req = Requests
  BY DEF ThreadInv
<1>4. Becomes(r, "publish", req[r].arg, Nothing) /\ OthersKeepUnder(r, keys)
  BY <1>1, <1>3, AdvanceWritten
<1>5. /\ header' = [header EXCEPT ![t] = NoHeader] /\ index' = index \ {t}
      /\ comments' = [comments EXCEPT ![t] = << >>]
      /\ readAt' = [readAt EXCEPT ![t] = [u \in Readers |-> NoMark]]
  BY DEF DeleteThread
<1>6. /\ header'[t] = NoHeader /\ comments'[t] = << >> /\ t \notin index'
      /\ readAt'[t] = [u \in Readers |-> NoMark]
      /\ header' \in [ThreadIDs -> StoredHeader \cup {NoHeader}]
      /\ index' \subseteq ThreadIDs
  BY <1>2, <1>3, <1>5 DEF ThreadTypes
<1>7. comments' \in [ThreadIDs -> Seq(StoredComment)]
  <2>1. << >> \in Seq(StoredComment)
    OBVIOUS
  <2>2. QED BY <1>2, <1>3, <1>5, <2>1 DEF ThreadTypes
<1>8. readAt' \in [ThreadIDs -> [Readers -> Nat]]
  <2>1. [u \in Readers |-> NoMark] \in [Readers -> Nat]
    BY DEF NoMark
  <2>2. QED BY <1>2, <1>3, <1>5, <2>1 DEF ThreadTypes
<1>9. \A s \in ThreadIDs \ {t} :
             /\ header'[s] = header[s] /\ comments'[s] = comments[s] /\ readAt'[s] = readAt[s]
             /\ s \in index' <=> s \in index
  BY <1>2, <1>3, <1>5 DEF ThreadTypes
<1>10. Whole(t)'
  BY <1>6 DEF Whole, Exists
<1>11. Publishes(r, t)'
  BY <1>2, <1>4, <1>6 DEF Publishes, Carries, Becomes, Exists, ThreadOps
<1>12. ThreadRequestSound(r)'
  BY <1>2, <1>4, CommittedSound
<1>13. QED BY <1>0, <1>1, <1>2, <1>4, <1>6, <1>7, <1>8, <1>9, <1>10, <1>11, <1>12, ThreadChanges

\* A read mark is not older than the thread.
LEMMA MarkThreadReadSound ==
  ASSUME ThreadInv, NEW r \in Requests, NEW t, t = req[r].arg.t, MarkThreadRead(r)
  PROVE  ThreadInv'
<1> DEFINE u == req[r].arg.u
           mark == ReadAt(req[r].arg.now, req[r].got.updated)
<1>1. CanExec(r, "MarkThreadRead")
      /\ req' = Written(Finished(r), {ReadStateKey(t)})
      /\ readAt' = [readAt EXCEPT ![t][u] = mark] /\ seen' = [seen EXCEPT ![t] = @ \cup {u}]
      /\ UNCHANGED <<clock, failures, header, index, comments, news>>
  BY DEF MarkThreadRead
<1>2. /\ t \in ThreadIDs /\ u \in Readers /\ req[r].arg.now \in Nat \ {0} /\ Exists(t)
      /\ req[r].got.updated = header[t].updated
  BY <1>1, ThreadExecs DEF ThreadOps, ThreadArguments, ReadHolds
<1>3. header[t].updated \in Nat
  BY <1>2 DEF ThreadInv, ThreadTypes, StoredHeader, Exists
<1>4. mark \in Nat /\ mark # NoMark /\ ~(mark < header[t].updated)
  BY <1>2, <1>3 DEF ReadAt, NoMark
<1>5. PICK v, m : v = u /\ m = mark
  OBVIOUS
<1> HIDE DEF u, mark
<1>6. QED BY <1>1, <1>2, <1>4, <1>5, ThreadMarks

\* A read mark is taken back.
LEMMA MarkThreadUnreadSound ==
  ASSUME ThreadInv, NEW r \in Requests, NEW t, t = req[r].arg.t, MarkThreadUnread(r)
  PROVE  ThreadInv'
<1> DEFINE u == req[r].arg.u
           keys == IF readAt[t][u] = NoMark THEN {} ELSE {ReadStateKey(t)}
<1>1. CanExec(r, "MarkThreadUnread")
      /\ req' = Written(Finished(r), keys)
      /\ readAt' = [readAt EXCEPT ![t][u] = NoMark] /\ seen' = [seen EXCEPT ![t] = @ \ {u}]
      /\ UNCHANGED <<clock, failures, header, index, comments, news>>
  BY DEF MarkThreadUnread
<1>2. t \in ThreadIDs /\ u \in Readers
  BY <1>1, ThreadExecs DEF ThreadOps, ThreadArguments
<1>3. PICK v, k : v = u /\ k = keys
  OBVIOUS
<1>4. NoMark \in Nat
  BY DEF NoMark
<1> HIDE DEF u, keys
<1>5. QED BY <1>1, <1>2, <1>3, <1>4, ThreadMarks

\* The invariant holds at first.
LEMMA ThreadInvInit ==
  ASSUME RequestInit, NEW old \in SUBSET ThreadIDs, NEW c \in CommentIDs, ThreadInit(old, c)
  PROVE  ThreadInv
<1>1. DOMAIN req = Requests /\ \A q \in Requests : req[q].stage = "idle"
  BY DEF RequestInit, Unused, RequestAt
<1>2. \A q \in Requests : ThreadRequestSound(q)
  BY <1>1 DEF ThreadRequestSound, ThreadStages
<1>3. NewHeader(Earlier, 1) \in StoredHeader /\ NewHeader(Earlier, 1) # NoHeader
  BY DEF NewHeader, StoredHeader, Writers, NoHeader
<1>4. <<NewComment(Earlier, c)>> \in Seq(StoredComment) /\ <<NewComment(Earlier, c)>> # << >>
      /\ << >> \in Seq(StoredComment)
  <2>1. NewComment(Earlier, c) \in StoredComment
    BY DEF NewComment, StoredComment, Writers
  <2>2. QED BY <2>1
<1>5. header \in [ThreadIDs -> StoredHeader \cup {NoHeader}]
      /\ \A t \in ThreadIDs : Exists(t) <=> t \in old
  BY <1>3 DEF ThreadInit, Exists
<1>6. comments \in [ThreadIDs -> Seq(StoredComment)]
      /\ \A t \in ThreadIDs : comments[t] # << >> <=> t \in old
  BY <1>4 DEF ThreadInit
<1>7. /\ readAt \in [ThreadIDs -> [Readers -> Nat]]
      /\ \A t \in ThreadIDs, u \in Readers : readAt[t][u] = NoMark
  BY DEF ThreadInit, NoMark
<1>8. /\ seen \in [ThreadIDs -> SUBSET Readers] /\ \A t \in ThreadIDs : seen[t] = {}
      /\ clock = 1 /\ index = old
  BY DEF ThreadInit
<1>9. /\ news \in [ThreadIDs -> [author : SUBSET Requests, state : {"published", "due", "lost"}]]
      /\ \A t \in ThreadIDs : news[t].state = "published"
  BY DEF ThreadInit
<1>10. ThreadTypes
  BY <1>5, <1>6, <1>7, <1>8, <1>9 DEF ThreadTypes
<1>11. ThreadsWhole /\ ReadStaysRead
  <2>1. \A t \in ThreadIDs : Whole(t) /\ StaysRead(t)
    BY <1>5, <1>6, <1>7, <1>8 DEF Whole, StaysRead
  <2>2. QED BY <1>10, <2>1, WholeEach, StaysReadEach
<1>12. \A t \in ThreadIDs : NewsPublished(t)
  BY <1>9 DEF NewsPublished
<1>13. QED BY <1>1, <1>2, <1>10, <1>11, <1>12 DEF ThreadInv

\* Every step keeps the invariant.
LEMMA ThreadInvStep ==
  ASSUME ThreadInv, ThreadNext
  PROVE  ThreadInv'
<1>1. PICK r \in Requests :
        \/ ThreadRequest(r)
        \/ WatchThread(r)
        \/ CreateThread(r) \/ UpdateThread(r) \/ DeleteThread(r)
        \/ AddComment(r) \/ UpdateComment(r)
        \/ MarkThreadRead(r) \/ MarkThreadUnread(r)
        \/ loadThreadHeader(r) \/ loadThreadRecord(r) \/ publishCommentEvent(r)
        \/ ThreadCallFails(r) \/ ThreadExecRefused(r)
  BY DEF ThreadNext
<1>2. PICK t : t = req[r].arg.t
  OBVIOUS
<1>3. CASE ThreadRequest(r)
  BY <1>3, ThreadRequestStarts
<1>4. CASE WatchThread(r)
  BY <1>4, WatchThreadSound
<1>5. CASE CreateThread(r) \/ UpdateThread(r) \/ DeleteThread(r) \/ AddComment(r) \/ UpdateComment(r)
  BY <1>2, <1>5, CreateThreadSound, UpdateThreadSound, DeleteThreadSound, AddCommentSound,
     UpdateCommentSound
<1>6. CASE MarkThreadRead(r) \/ MarkThreadUnread(r)
  BY <1>2, <1>6, MarkThreadReadSound, MarkThreadUnreadSound
<1>7. CASE loadThreadHeader(r) \/ loadThreadRecord(r) \/ publishCommentEvent(r)
  BY <1>7, LoadThreadHeaderSound, LoadThreadRecordSound, PublishThreadSound
<1>8. CASE ThreadCallFails(r) \/ ThreadExecRefused(r)
  BY <1>8, ThreadCallFailsSound, ThreadExecRefusedSound
<1>9. QED BY <1>1, <1>3, <1>4, <1>5, <1>6, <1>7, <1>8

\* The invariant speaks of these variables only.
LEMMA ThreadInvStutter ==
  ASSUME ThreadInv, UNCHANGED <<requestVars, threadVars>>
  PROVE  ThreadInv'
<1> USE DEF requestVars, threadVars
<1>1. ThreadTypes' /\ DOMAIN req' = Requests /\ ThreadsWhole' /\ ReadStaysRead'
  BY DEF ThreadInv, ThreadTypes, ThreadsWhole, ReadStaysRead, ListThreads, Exists, Unread
<1>2. \A q \in Requests : ThreadRequestSound(q)'
  BY DEF ThreadInv, ThreadRequestSound, ThreadArguments, ReadHolds, Exists
<1>3. \A t \in ThreadIDs : NewsPublished(t)'
  BY DEF ThreadInv, NewsPublished, Publishes, Carries, Exists
<1>4. QED BY <1>1, <1>2, <1>3 DEF ThreadInv

\* What the requests on threads know, in every behaviour.
THEOREM ThreadInvariant == ThreadSpec => []ThreadInv
<1>1. (/\ RequestInit
       /\ \E old \in SUBSET ThreadIDs, c \in CommentIDs : ThreadInit(old, c)) => ThreadInv
  BY ThreadInvInit
<1>2. ThreadInv /\ [ThreadNext]_<<requestVars, threadVars>> => ThreadInv'
  BY ThreadInvStep, ThreadInvStutter
<1>3. QED BY <1>1, <1>2, PTL DEF ThreadSpec

\* The keys of a thread live and die together, whatever requests on it are
\* interleaved or fail (DeleteThread, CreateThread).
THEOREM ThreadKeysTogether == ThreadSpec => []ThreadsWhole
<1>1. ThreadInv => ThreadsWhole
  BY DEF ThreadInv
<1>2. QED BY <1>1, ThreadInvariant, PTL

\* What a user marked read stays read until a change, however the timestamps
\* of the requests are ordered (MarkThreadRead).
THEOREM MarksHold == ThreadSpec => []ReadStaysRead
<1>1. ThreadInv => ReadStaysRead
  BY DEF ThreadInv
<1>2. QED BY <1>1, ThreadInvariant, PTL

\* The latest change of a thread reaches publishCommentEvent as it is stored,
\* though it is loaded again by two round trips.
THEOREM LatestPublished == ThreadSpec => []ChangesPublished
<1>1. ThreadInv => ChangesPublished
  BY DEF ThreadInv, ChangesPublished, Quiet, NewsPublished, Publishes
<1>2. QED BY <1>1, ThreadInvariant, PTL

\* What a step does to the fields of a stored thread.
FieldsKept(t) ==
    Exists(t) /\ header'[t] # NoHeader =>
        /\ \A f \in HeaderFields :
            LET w == header'[t].fields[f] IN
            w # header[t].fields[f] =>
                /\ w \in Requests
                /\ req[w].stage = "exec" /\ req[w].op = "UpdateThread"
                /\ f \in req[w].arg.fs
        /\ \A i \in DOMAIN comments[t], f \in CommentFields :
            LET w == comments'[t][i].fields[f] IN
            w # comments[t][i].fields[f] =>
                /\ w \in Requests
                /\ req[w].stage = "exec" /\ req[w].op = "UpdateComment"
                /\ f \in req[w].arg.fs

\* A step that leaves the fields of t alone.
LEMMA FieldsUntouched ==
  ASSUME NEW t \in ThreadIDs,
         header'[t] # NoHeader => header'[t].fields = header[t].fields,
         \A i \in DOMAIN comments[t] : comments'[t][i] = comments[t][i]
  PROVE  FieldsKept(t)
BY DEF FieldsKept

\* Only a request that names a field changes it.
LEMMA FieldsStep ==
  ASSUME ThreadInv, ThreadNext, NEW t \in ThreadIDs
  PROVE  FieldsKept(t)
<1> USE DEF ThreadInv
<1>1. CASE UNCHANGED <<header, comments>>
  BY <1>1, FieldsUntouched
<1>2. ASSUME NEW r \in Requests, CreateThread(r) PROVE FieldsKept(t)
  <2>1. CanExec(r, "CreateThread")
        /\ header' = [header EXCEPT ![req[r].arg.t] = NewHeader(r, req[r].arg.now)]
        /\ \E list : comments' = [comments EXCEPT ![req[r].arg.t] = list]
    BY <1>2 DEF CreateThread
  <2>2. ~Exists(req[r].arg.t)
    BY <2>1, ThreadExecs DEF ThreadOps, ReadHolds
  <2>3. CASE t = req[r].arg.t
    BY <2>2, <2>3 DEF FieldsKept
  <2>4. CASE t # req[r].arg.t
    BY <2>1, <2>4, FieldsUntouched DEF ThreadTypes
  <2>5. QED BY <2>3, <2>4
<1>3. ASSUME NEW r \in Requests, DeleteThread(r) PROVE FieldsKept(t)
  <2>1. CanExec(r, "DeleteThread")
        /\ header' = [header EXCEPT ![req[r].arg.t] = NoHeader]
        /\ comments' = [comments EXCEPT ![req[r].arg.t] = << >>]
    BY <1>3 DEF DeleteThread
  <2>2. CASE t = req[r].arg.t
    BY <2>1, <2>2 DEF FieldsKept, ThreadTypes
  <2>3. CASE t # req[r].arg.t
    BY <2>1, <2>3, FieldsUntouched DEF ThreadTypes
  <2>4. QED BY <2>2, <2>3
<1>4. ASSUME NEW r \in Requests, UpdateThread(r) PROVE FieldsKept(t)
  <2> DEFINE made == [updated |-> req[r].arg.now,
                      fields |-> [f \in HeaderFields |->
                              IF f \in req[r].arg.fs THEN r ELSE header[req[r].arg.t].fields[f]]]
  <2>1. CanExec(r, "UpdateThread") /\ UNCHANGED comments
        /\ header' = [header EXCEPT ![req[r].arg.t] = made]
    BY <1>4 DEF UpdateThread
  <2>2. CASE t = req[r].arg.t
    <3>1. header'[t] = made
      BY <2>1, <2>2 DEF ThreadTypes
    <3>2. comments'[t] = comments[t]
      BY <2>1, <2>2
    <3>3. ASSUME NEW f \in HeaderFields, made.fields[f] # header[t].fields[f]
          PROVE  /\ made.fields[f] \in Requests
                 /\ At(made.fields[f], "UpdateThread", "exec") /\ f \in req[made.fields[f]].arg.fs
      BY <2>1, <2>2, <3>3 DEF CanExec
    <3> HIDE DEF made
    <3>4. QED BY <3>1, <3>2, <3>3 DEF FieldsKept, At
  <2>3. CASE t # req[r].arg.t
    <3> HIDE DEF made
    <3>1. QED BY <2>1, <2>3, FieldsUntouched DEF ThreadTypes
  <2>4. QED BY <2>2, <2>3
<1>5. ASSUME NEW r \in Requests, AddComment(r) PROVE FieldsKept(t)
  <2>1. CanExec(r, "AddComment") /\ header' = Touched(r, req[r].arg.t)
        /\ comments' = [comments EXCEPT ![req[r].arg.t] =
                           Append(comments[req[r].arg.t], NewComment(r, req[r].arg.c))]
    BY <1>5 DEF AddComment
  <2>2. CASE t = req[r].arg.t
    <3>1. header'[t].fields = header[t].fields
      BY <2>1, <2>2 DEF Touched, ThreadTypes
    <3>2. \A i \in DOMAIN comments[t] : comments'[t][i] = comments[t][i]
      <4>1. comments[t] \in Seq(StoredComment)
            /\ comments'[t] = Append(comments[t], NewComment(r, req[r].arg.c))
        BY <2>1, <2>2 DEF ThreadTypes
      <4>2. QED BY <4>1
    <3>3. QED BY <3>1, <3>2, FieldsUntouched
  <2>3. CASE t # req[r].arg.t
    BY <2>1, <2>3, FieldsUntouched DEF Touched, ThreadTypes
  <2>4. QED BY <2>2, <2>3
<1>6. ASSUME NEW r \in Requests, UpdateComment(r) PROVE FieldsKept(t)
  <2> DEFINE i == req[r].got.index
  <2>1. CanExec(r, "UpdateComment") /\ header' = Touched(r, req[r].arg.t)
        /\ comments' = [comments EXCEPT ![req[r].arg.t] =
                           [comments[req[r].arg.t] EXCEPT ![i] = Edited(r)]]
    BY <1>6 DEF UpdateComment, Edited
  <2>2. CASE t = req[r].arg.t
    <3>1. header'[t].fields = header[t].fields
      BY <2>1, <2>2 DEF Touched, ThreadTypes
    <3>2. comments'[t] = [comments[t] EXCEPT ![i] = Edited(r)]
      BY <2>1, <2>2 DEF ThreadTypes
    <3>3. req[r].op = "UpdateComment" /\ req[r].stage = "exec"
          /\ req[r].got.comment = comments[t][i]
      <4>1. CanExec(r, "UpdateComment") /\ "UpdateComment" \in ThreadOps
        BY <2>1 DEF ThreadOps
      <4>2. req[r].op = "UpdateComment" /\ req[r].stage = "exec" /\ ReadHolds(r)
        BY <4>1, ThreadExecs
      <4>3. QED BY <2>2, <4>2 DEF ReadHolds
    <3>4. ASSUME NEW j \in DOMAIN comments[t], NEW f \in CommentFields,
                 comments'[t][j].fields[f] # comments[t][j].fields[f]
          PROVE  comments'[t][j].fields[f] = r /\ f \in req[r].arg.fs
      <4>1. j = i
        BY <3>2, <3>4
      <4>2. comments'[t][j] = Edited(r)
        BY <3>2, <4>1
      <4>3. Edited(r).fields[f] = IF f \in req[r].arg.fs THEN r ELSE req[r].got.comment.fields[f]
        BY DEF Edited
      <4>4. PICK made, fs, was : made = Edited(r) /\ fs = req[r].arg.fs /\ was = comments[t][j]
        OBVIOUS
      <4>5. made.fields[f] = IF f \in fs THEN r ELSE was.fields[f]
        BY <3>3, <4>1, <4>3, <4>4
      <4>6. made.fields[f] # was.fields[f]
        BY <3>4, <4>2, <4>4
      <4>7. QED BY <4>2, <4>4, <4>5, <4>6
    <3>5. QED BY <3>1, <3>3, <3>4 DEF FieldsKept
  <2>3. CASE t # req[r].arg.t
    BY <2>1, <2>3, FieldsUntouched DEF Touched, ThreadTypes
  <2>4. QED BY <2>2, <2>3
<1>7. QED
  BY <1>1, <1>2, <1>3, <1>4, <1>5, <1>6, ZenonT(40) DEF ThreadNext, ThreadRequest, WatchThread,
     MarkThreadRead, MarkThreadUnread, loadThreadHeader, loadThreadRecord, publishCommentEvent,
     ThreadCallFails, ThreadExecRefused, handleCreateThread, handleAddComment,
     handleUpdateComment, handleUpdateThread, handleDeleteThread,
     handleThreadReadStateMutation, StartThread, threadVars

\* Edits of different fields are both kept although a comment is read, changed
\* and written back as a whole (UpdateComment, UpdateThread).
THEOREM EditsSurvive == ThreadSpec => FieldsSurvive
<1>1. ThreadInv /\ [ThreadNext]_<<requestVars, threadVars>> =>
        [\A t \in ThreadIDs : FieldsKept(t)]_<<requestVars, threadVars>>
  BY FieldsStep
<1>2. ThreadSpec => [][\A t \in ThreadIDs : FieldsKept(t)]_<<requestVars, threadVars>>
  BY <1>1, ThreadInvariant, PTL DEF ThreadSpec
<1>3. QED BY <1>2 DEF FieldsSurvive, FieldsKept

-----------------------------------------------------------------------------
(* The ledger: usage counters and audit log.                               *)

LedgerStages == {"usage", "counted", "audit"}

LedgerTypes ==
    /\ counter \in [Metrics -> Nat] /\ usage \in [Metrics -> Nat]
    /\ owed \subseteq Requests

\* A request that accounts for a change has committed one, holds a count that
\* was drawn, and having committed, it gets as far as the audit log.
LedgerRequestSound(q) ==
    /\ req[q].stage \in LedgerStages \cup {"version"} => q \in owed
    /\ req[q].stage \in {"usage", "counted"} => req[q].got.metric \in Metrics
    /\ req[q].stage = "counted" =>
         req[q].got.count \in Nat /\ req[q].got.count <= counter[req[q].got.metric]
    /\ q \in owed => /\ req[q].stage \in LedgerStages \cup {"version", "done"}
                     /\ req[q].stage = "done" => q \in audit \cup skipped

LedgerInv ==
    /\ LedgerTypes /\ DOMAIN req = Requests
    /\ \A q \in Requests : LedgerRequestSound(q)
    /\ LedgerComplete

\* What a metric has still to be stored.
Accounted(m) ==
    \/ m \in behind
    \/ \E r \in Requests : req[r].stage = "counted" /\ req[r].got.metric = m
    \/ usage[m] = counter[m]

\* UsageExact, metric by metric.
LEMMA UsageEach == UsageExact <=> \A m \in Metrics : Accounted(m)
BY DEF UsageExact, Accounted

\* The same of the next state.
LEMMA UsageEachNext == UsageExact' <=> \A m \in Metrics : Accounted(m)'
BY DEF UsageExact, Accounted

\* At first there is nothing to account for.
LEMMA LedgerInitSound ==
  ASSUME RequestInit, LedgerInit
  PROVE  LedgerInv
<1>1. LedgerTypes /\ DOMAIN req = Requests
  BY DEF LedgerTypes, RequestInit, LedgerInit
<1>2. \A q \in Requests : LedgerRequestSound(q)
  BY DEF LedgerRequestSound, LedgerStages, RequestInit, LedgerInit, Unused, RequestAt
<1>3. LedgerComplete
  BY DEF LedgerComplete, UsageExact, AuditComplete, RequestInit, LedgerInit
<1>4. QED BY <1>1, <1>2, <1>3 DEF LedgerInv

\* A request that another's step leaves alone stays accounted for: counters
\* only grow, and neither log loses an entry.
LEMMA LedgerOthersSound ==
  ASSUME LedgerTypes, NEW q \in Requests, LedgerRequestSound(q), NEW keys, KeepsUnder(q, keys),
         q \in owed' <=> q \in owed,
         audit \subseteq audit', skipped \subseteq skipped',
         \A m \in Metrics : counter'[m] \in Nat /\ counter[m] <= counter'[m]
  PROVE  LedgerRequestSound(q)'
<1>1. ASSUME req'[q].stage = "counted"
      PROVE  req'[q].got.count \in Nat /\ req'[q].got.count <= counter'[req'[q].got.metric]
  <2>1. /\ req'[q].got = req[q].got /\ req[q].got.metric \in Metrics
        /\ req[q].got.count \in Nat /\ req[q].got.count <= counter[req[q].got.metric]
    BY <1>1 DEF LedgerRequestSound, KeepsUnder
  <2>2. counter[req[q].got.metric] \in Nat
    BY <2>1 DEF LedgerTypes
  <2>3. QED BY <2>1, <2>2
<1>2. QED BY <1>1 DEF LedgerRequestSound, KeepsUnder

\* A metric of which nothing is written stays accounted for, if the request
\* that counted it goes on to store it.
LEMMA AccountedStays ==
  ASSUME NEW r \in Requests, NEW keys, OthersKeepUnder(r, keys), NEW m, Accounted(m),
         behind \subseteq behind', counter'[m] = counter[m], usage'[m] = usage[m],
         req[r].stage = "counted" => req[r].got.metric # m \/ m \in behind'
  PROVE  Accounted(m)'
BY DEF Accounted, OthersKeepUnder, KeepsUnder

\* A step that is none of the ledger's: it may commit a change, of a request
\* that then goes on to account for it, and ends no request that committed one.
LEMMA LedgerOutside ==
  ASSUME LedgerInv, NEW r \in Requests, NEW keys, OthersKeepUnder(r, keys),
         UNCHANGED <<counter, usage, audit, skipped, behind>>,
         owed' \in {owed, owed \cup {r}},
         req[r].stage \notin LedgerStages, req'[r].stage # "counted",
         req'[r].stage \in LedgerStages \cup {"version"} => r \in owed',
         req'[r].stage = "usage" => req'[r].got.metric \in Metrics,
         r \in owed' => req'[r].stage \in LedgerStages \cup {"version"}
  PROVE  LedgerInv'
<1>1. LedgerTypes' /\ DOMAIN req' = Requests
  BY DEF LedgerInv, LedgerTypes, OthersKeepUnder
<1>2. LedgerRequestSound(r)'
  BY DEF LedgerRequestSound, LedgerStages
<1>3. ASSUME NEW q \in Requests \ {r} PROVE LedgerRequestSound(q)'
  BY <1>3, LedgerOthersSound DEF LedgerInv, LedgerTypes, OthersKeepUnder
<1>4. UsageExact'
  <2>1. ASSUME NEW m \in Metrics PROVE Accounted(m)'
    BY AccountedStays, UsageEach DEF LedgerInv, LedgerComplete, LedgerStages
  <2>2. QED BY <2>1, UsageEachNext
<1>5. AuditComplete'
  <2>1. audit' \subseteq owed'
    BY DEF AuditComplete, LedgerInv, LedgerComplete
  <2>2. QED BY <1>1, <1>2, <1>3, <2>1 DEF AuditComplete, LedgerRequestSound, LedgerTypes
<1>6. QED BY <1>1, <1>2, <1>3, <1>4, <1>5 DEF LedgerInv, LedgerComplete

\* A step of a request to the audit log, or to its end once it is there or its
\* entry was refused.
LEMMA LedgerOnward ==
  ASSUME LedgerInv, NEW r \in Requests, OthersKeepUnder(r, {}), UNCHANGED <<counter, owed>>,
         req[r].stage \in LedgerStages, usage' \in [Metrics -> Nat],
         \/ req'[r].stage = "audit" /\ UNCHANGED <<audit, skipped>>
         \/ req'[r].stage = "done" /\ audit' = audit \cup {r} /\ UNCHANGED skipped
         \/ req'[r].stage = "done" /\ skipped' = skipped \cup {r} /\ UNCHANGED audit,
         \A m \in Metrics : Accounted(m)'
  PROVE  LedgerInv'
<1>1. LedgerTypes' /\ DOMAIN req' = Requests
  BY DEF LedgerInv, LedgerTypes, OthersKeepUnder
<1>2. r \in owed
  BY DEF LedgerInv, LedgerRequestSound
<1>3. LedgerRequestSound(r)'
  BY <1>2 DEF LedgerRequestSound, LedgerStages
<1>4. ASSUME NEW q \in Requests \ {r} PROVE LedgerRequestSound(q)'
  BY LedgerOthersSound DEF LedgerInv, LedgerTypes, OthersKeepUnder
<1>5. AuditComplete'
  <2>1. audit' \subseteq owed'
    BY <1>2 DEF AuditComplete, LedgerInv, LedgerComplete
  <2>2. QED BY <1>1, <1>3, <1>4, <2>1 DEF AuditComplete, LedgerRequestSound, LedgerTypes
<1>6. QED BY <1>1, <1>3, <1>4, <1>5, UsageEachNext DEF LedgerInv, LedgerComplete

\* The ledger's own steps: a count is drawn and then stored, or another one was
\* drawn since and the record is behind; whatever fails, the audit log follows.
LEMMA LedgerStepSound ==
  ASSUME LedgerInv, NEW r \in Requests, LedgerStep(r)
  PROVE  LedgerInv'
<1>1. CASE recordUsage(r)
  <2>1. Becomes(r, "audit", req[r].arg, Nothing) /\ OthersKeepUnder(r, {})
        /\ req[r].stage = "usage" /\ UNCHANGED ledgerVars
    BY <1>1, AdvanceStep DEF recordUsage, Audited, LedgerInv
  <2>2. \A m \in Metrics : Accounted(m)'
    BY <2>1, AccountedStays, UsageEach DEF LedgerInv, LedgerComplete, ledgerVars
  <2>3. QED BY <2>1, <2>2, LedgerOnward DEF Becomes, LedgerStages, LedgerInv, LedgerTypes, ledgerVars
<1>2. CASE IncrementUsage(r)
  <2> DEFINE m == req[r].got.metric
             got == [metric |-> m, count |-> counter[m] + 1]
  <2>1. Becomes(r, "counted", req[r].arg, got) /\ OthersKeepUnder(r, {})
    BY <1>2, AdvanceStep DEF IncrementUsage, LedgerInv
  <2>2. /\ req[r].stage = "usage" /\ counter' = [counter EXCEPT ![m] = @ + 1]
        /\ UNCHANGED <<usage, audit, owed, skipped, behind>>
    BY <1>2 DEF IncrementUsage
  <2>3. m \in Metrics /\ r \in owed
    BY <2>2 DEF LedgerInv, LedgerRequestSound, LedgerStages
  <2>4. counter \in [Metrics -> Nat] /\ counter' \in [Metrics -> Nat] /\ counter'[m] = counter[m] + 1
        /\ \A k \in Metrics : counter[k] <= counter'[k]
    BY <2>2, <2>3 DEF LedgerInv, LedgerTypes
  <2>5. LedgerTypes' /\ DOMAIN req' = Requests
    BY <2>1, <2>2, <2>4 DEF LedgerInv, LedgerTypes, OthersKeepUnder
  <2>6. got.count \in Nat /\ got.count <= counter'[m]
    BY <2>3, <2>4
  <2>7. LedgerRequestSound(r)'
    BY <2>1, <2>2, <2>3, <2>6 DEF LedgerRequestSound, Becomes, LedgerStages
  <2> HIDE DEF got
  <2>8. ASSUME NEW q \in Requests \ {r} PROVE LedgerRequestSound(q)'
    BY <2>1, <2>2, <2>4, <2>8, LedgerOthersSound DEF LedgerInv, LedgerTypes, OthersKeepUnder
  <2>9. ASSUME NEW k \in Metrics PROVE Accounted(k)'
    <3>1. CASE k = m
      BY <2>1, <3>1 DEF Accounted, Becomes, got
    <3>2. CASE k # m
      BY <2>1, <2>2, <3>2, AccountedStays, UsageEach DEF LedgerInv, LedgerComplete, LedgerTypes
    <3>3. QED BY <3>1, <3>2
  <2>10. AuditComplete'
    BY <2>2, <2>5, <2>7, <2>8 DEF AuditComplete, LedgerInv, LedgerComplete, LedgerRequestSound, LedgerTypes
  <2>11. QED BY <2>5, <2>7, <2>8, <2>9, <2>10, UsageEachNext DEF LedgerInv, LedgerComplete
<1>3. CASE StoreUsage(r)
  <2> DEFINE m == req[r].got.metric
             n == req[r].got.count
  <2>1. Becomes(r, "audit", req[r].arg, Nothing) /\ OthersKeepUnder(r, {})
    BY <1>3, AdvanceStep DEF StoreUsage, Audited, LedgerInv
  <2>2. /\ req[r].stage = "counted" /\ usage' = [usage EXCEPT ![m] = n]
        /\ behind' = IF n < counter[m] THEN behind \cup {m} ELSE behind \ {m}
        /\ UNCHANGED <<counter, audit, owed, skipped>>
    BY <1>3 DEF StoreUsage
  <2>3. m \in Metrics /\ n \in Nat /\ n <= counter[m] /\ counter[m] \in Nat
    BY <2>2 DEF LedgerInv, LedgerRequestSound, LedgerTypes
  <2>4. usage' \in [Metrics -> Nat] /\ usage'[m] = n
    BY <2>2, <2>3 DEF LedgerInv, LedgerTypes
  <2> HIDE DEF n
  <2>5. ASSUME NEW k \in Metrics PROVE Accounted(k)'
    <3>1. CASE k = m
      BY <2>2, <2>3, <2>4, <3>1 DEF Accounted
    <3>2. CASE k # m
      <4>1. usage'[k] = usage[k] /\ (k \in behind <=> k \in behind')
        BY <2>2, <3>2 DEF LedgerInv, LedgerTypes
      <4>2. Accounted(k)
        BY UsageEach DEF LedgerInv, LedgerComplete
      <4>3. QED BY <2>1, <2>2, <3>2, <4>1, <4>2 DEF Accounted, OthersKeepUnder, KeepsUnder
    <3>3. QED BY <3>1, <3>2
  <2>6. QED BY <2>1, <2>2, <2>4, <2>5, LedgerOnward DEF Becomes, LedgerStages
<1>4. CASE RecordAuditLog(r)
  <2>1. Becomes(r, "done", Nothing, Nothing) /\ OthersKeepUnder(r, {})
        /\ req[r].stage = "audit" /\ UNCHANGED <<counter, usage, owed, skipped, behind>>
        /\ audit' = audit \cup {r}
    BY <1>4, FinishedStep DEF RecordAuditLog, LedgerInv
  <2>2. \A m \in Metrics : Accounted(m)'
    BY <2>1, AccountedStays, UsageEach DEF LedgerInv, LedgerComplete
  <2>3. QED BY <2>1, <2>2, LedgerOnward DEF Becomes, LedgerStages, LedgerInv, LedgerTypes
<1>5. CASE LedgerCallFails(r)
  <2>1. CASE req[r].stage \in {"usage", "counted"}
    <3>1. Becomes(r, "audit", req[r].arg, Nothing) /\ OthersKeepUnder(r, {})
      BY <1>5, <2>1, AdvanceStep DEF LedgerCallFails, AfterUsageFailed, Audited, LedgerInv
    <3>2. /\ UNCHANGED <<counter, usage, owed, audit, skipped>> /\ behind \subseteq behind'
          /\ req[r].stage = "counted" => req[r].got.metric \in behind'
      BY <1>5, <2>1 DEF LedgerCallFails
    <3>3. \A m \in Metrics : Accounted(m)'
      BY <3>1, <3>2, AccountedStays, UsageEach DEF LedgerInv, LedgerComplete
    <3>4. QED BY <2>1, <3>1, <3>2, <3>3, LedgerOnward DEF Becomes, LedgerStages, LedgerInv, LedgerTypes
  <2>2. CASE req[r].stage = "audit"
    <3>1. Becomes(r, "done", Nothing, Nothing) /\ OthersKeepUnder(r, {})
      BY <1>5, <2>2, FinishedStep DEF LedgerCallFails, LedgerInv
    <3>2. UNCHANGED <<counter, usage, owed, audit, behind>> /\ skipped' = skipped \cup {r}
      BY <1>5, <2>2 DEF LedgerCallFails
    <3>3. \A m \in Metrics : Accounted(m)'
      BY <2>2, <3>1, <3>2, AccountedStays, UsageEach DEF LedgerInv, LedgerComplete
    <3>4. QED BY <2>2, <3>1, <3>2, <3>3, LedgerOnward DEF Becomes, LedgerStages, LedgerInv, LedgerTypes
  <2>3. QED BY <1>5, <2>1, <2>2 DEF LedgerCallFails
<1>6. QED BY <1>1, <1>2, <1>3, <1>4, <1>5 DEF LedgerStep

\* The ledger's own steps move a request along the ledger's stages.
LEMMA LedgerStepMoves ==
  ASSUME DOMAIN req = Requests, NEW r \in Requests, LedgerStep(r)
  PROVE  /\ req[r].stage \in LedgerStages /\ req'[r].stage \in {"counted", "audit", "done"}
         /\ req'[r].op = req[r].op /\ OthersKeepUnder(r, {})
<1>1. CASE recordUsage(r)
  BY <1>1, AdvanceStep DEF recordUsage, Audited, Becomes, LedgerStages
<1>2. CASE IncrementUsage(r)
  <2> DEFINE got == [metric |-> req[r].got.metric, count |-> counter[req[r].got.metric] + 1]
  <2>1. req[r].stage = "usage" /\ req' = Advance(r, "counted", got)
    BY <1>2 DEF IncrementUsage
  <2> HIDE DEF got
  <2>2. QED BY <2>1, AdvanceStep DEF Becomes, LedgerStages
<1>3. CASE StoreUsage(r)
  BY <1>3, AdvanceStep DEF StoreUsage, Audited, Becomes, LedgerStages
<1>4. CASE RecordAuditLog(r)
  BY <1>4, FinishedStep DEF RecordAuditLog, Becomes, LedgerStages
<1>5. CASE LedgerCallFails(r)
  BY <1>5, AdvanceStep, FinishedStep
     DEF LedgerCallFails, AfterUsageFailed, Audited, Becomes, LedgerStages
<1>6. QED BY <1>1, <1>2, <1>3, <1>4, <1>5 DEF LedgerStep

\* A step of a request that has committed nothing, and does not.
LEMMA LedgerQuiet ==
  ASSUME LedgerInv, NEW r \in Requests, NEW keys, OthersKeepUnder(r, keys),
         UNCHANGED ledgerVars,
         req[r].stage \notin LedgerStages \cup {"version", "done"},
         req'[r].stage \notin LedgerStages \cup {"version"}
  PROVE  LedgerInv'
<1>1. r \notin owed
  BY DEF LedgerInv, LedgerRequestSound
<1>2. QED BY <1>1, LedgerOutside DEF ledgerVars, LedgerStages

\* A step that commits a change, which is then accounted for.
LEMMA LedgerCommits ==
  ASSUME LedgerInv, NEW r \in Requests, NEW keys, OthersKeepUnder(r, keys), Owes(r),
         req[r].stage \notin LedgerStages,
         req'[r].stage \in {"usage", "audit", "version"},
         req'[r].stage = "usage" => req'[r].got.metric \in Metrics
  PROVE  LedgerInv'
BY LedgerOutside DEF Owes, LedgerStages

\* A failed or refused call of a request that has committed nothing.
LEMMA LedgerRefused ==
  ASSUME LedgerInv, NEW r \in Requests, ExecRefused(r) \/ CallFails(r), UNCHANGED ledgerVars,
         req[r].stage \notin LedgerStages \cup {"version"}
  PROVE  LedgerInv'
BY RefusedStep, LedgerQuiet DEF Becomes, LedgerInv, LedgerStages
-----------------------------------------------------------------------------
(* Rooms, tenants, projects and API keys.                                  *)

StoredProduct == [fields : [ProductFields -> Requests \cup {Earlier}], revoked : BOOLEAN]

ProductTypes ==
    /\ product \in [Products -> StoredProduct \cup {NoProduct}]
    /\ listed \subseteq Products
    /\ racing \in [Products -> SUBSET Requests]
    /\ revocation \in [Products -> Revocations]
    /\ \A k \in Products : KindOf[k] = "key" \/ revocation[k] = "none"

\* The record of k can be created.
Creatable(k) == ~IsStored(k) /\ \A p \in ParentOf[k] : IsStored(p)

ProductArguments(q) ==
    LET k == req[q].arg.k IN
    /\ req[q].op \in {"Create", "Update", "Revoke", "DeleteRoom", "Verify"}
    /\ k \in Products
    /\ req[q].op = "DeleteRoom" => KindOf[k] = "room"
    /\ req[q].op \in {"Revoke", "Verify"} => KindOf[k] = "key"

\* Under WATCH, the record is as q read it; a verification knows only that the
\* record is still there, with the fields it read.
ProductRequestSound(q) ==
    LET k == req[q].arg.k IN
    /\ req[q].stage \in ProductStages \cup LedgerStages \cup {"idle", "done"}
    /\ req[q].stage \in ProductStages => ProductArguments(q)
    /\ req[q].stage = "exec" =>
         /\ req[q].op \in {"Create", "Update", "Revoke"}
         /\ req[q].watched = WatchedRecords(q)
         /\ ~req[q].stale =>
              IF req[q].op = "Create" THEN Creatable(k)
              ELSE req[q].got = product[k] /\ IsStored(k)
    /\ req[q].stage = "touch" =>
         /\ req[q].op = "Verify"
         /\ req[q].got \in StoredProduct /\ ~req[q].got.revoked
         /\ IsStored(k) /\ req[q].got.fields = product[k].fields

ProductInv ==
    /\ ProductTypes /\ DOMAIN req = Requests
    /\ \A q \in Requests : ProductRequestSound(q)
    /\ RegistryWhole

\* A stored record is not the absent one.
LEMMA StoredProductThere ==
  ASSUME NEW p \in StoredProduct
  PROVE  p # NoProduct
BY DEF StoredProduct, NoProduct

\* A record is stored, or is not there.
LEMMA StoredOrNot ==
  ASSUME ProductTypes, NEW k \in Products
  PROVE  product[k] \in StoredProduct <=> IsStored(k)
BY StoredProductThere DEF ProductTypes, IsStored

\* RegistryWhole, record by record.
Registered(k) ==
    /\ k \in listed <=> k \in Indexed /\ IsStored(k)
    /\ IsStored(k) => \A p \in ParentOf[k] : IsStored(p)
    /\ product[k].revoked <=> revocation[k] = "committed"
    /\ product[k].revoked =>
         \A r \in Requests : At(r, "Verify", "touch") /\ req[r].arg.k = k => r \in racing[k]

\* RegistryWhole, record by record.
LEMMA RegisteredEach ==
  ASSUME ProductTypes
  PROVE  RegistryWhole <=> \A k \in Products : Registered(k)
BY DEF RegistryWhole, Registered, RevocationHolds, Accepting, Indexed, ProductTypes

\* The same of the next state.
LEMMA RegisteredEachNext ==
  ASSUME ProductTypes'
  PROVE  RegistryWhole' <=> \A k \in Products : Registered(k)'
BY DEF RegistryWhole, Registered, RevocationHolds, Accepting, Indexed, ProductTypes, IsStored, At

\* A parent is not a room and not the record itself.
LEMMA ParentKinds ==
  ASSUME NEW k \in Products, NEW p \in ParentOf[k]
  PROVE  p \in Products /\ p # k /\ KindOf[p] \in {"tenant", "project"} /\ ParentOf[k] = {p}
BY ProductAssumption

\* EXISTS lets a create go on exactly when the record is absent and its parent
\* is there: counting both keys at once tells the two apart, for no record is
\* there without its parent.
LEMMA CreateRefusedMeans ==
  ASSUME ProductTypes, NEW k \in Products, Registered(k)
  PROVE  ~CreateRefused(k) => Creatable(k)
<1> DEFINE there == {x \in {k} \cup ParentOf[k] : IsStored(x)}
<1>1. CASE ParentOf[k] = {}
  <2>1. IsStored(k) => there = {k}
    BY <1>1
  <2>2. Cardinality(ParentOf[k]) = 0 /\ Cardinality({k}) = 1
    BY <1>1, FS_EmptySet, FS_Singleton
  <2> HIDE DEF there
  <2>3. CreateRefused(k) <=> Cardinality(there) = 1
    BY <1>1, <2>2 DEF CreateRefused, there
  <2>4. QED BY <1>1, <2>1, <2>2, <2>3 DEF Creatable
<1>2. ASSUME NEW p \in ParentOf[k] PROVE ~CreateRefused(k) => Creatable(k)
  <2>1. p # k /\ ParentOf[k] = {p}
    BY <1>2, ParentKinds
  <2>2. CASE IsStored(k)
    <3>1. there = {k, p}
      BY <2>1, <2>2 DEF Registered
    <3>2. IsFiniteSet({p}) /\ Cardinality({p}) = 1
      BY FS_Singleton
    <3>3. Cardinality({p} \cup {k}) = 2
      <4>1. k \notin {p}
        BY <2>1
      <4>2. Cardinality({p} \cup {k}) = Cardinality({p}) + 1
        BY <3>2, <4>1, FS_AddElement, ZenonT(60)
      <4>3. QED BY <3>2, <4>2
    <3>4. there = {p} \cup {k}
      BY <3>1
    <3>5. QED BY <2>1, <3>2, <3>3, <3>4 DEF CreateRefused
  <2>3. CASE ~IsStored(k)
    <3>1. ~IsStored(p) => there = {}
      BY <2>1, <2>3
    <3>2. QED BY <2>1, <2>3, <3>1, FS_EmptySet DEF CreateRefused, Creatable
  <2>4. QED BY <2>2, <2>3
<1>3. QED BY <1>1, <1>2

\* At first, some records are there with their parents.
LEMMA ProductInitSound ==
  ASSUME RequestInit, NEW old \in SUBSET Products, ProductInit(old),
         \A k \in old : ParentOf[k] \subseteq old
  PROVE  ProductInv
<1>1. \A k \in Products : product[k] = IF k \in old THEN NewProduct(Earlier) ELSE NoProduct
  BY DEF ProductInit
<1>2. NewProduct(Earlier) \in StoredProduct /\ ~NewProduct(Earlier).revoked
  BY DEF NewProduct, StoredProduct
<1>3. ProductTypes
  BY <1>1, <1>2 DEF ProductTypes, ProductInit, Indexed, Revocations
<1>4. \A k \in Products : IsStored(k) <=> k \in old
  BY <1>1, <1>2, StoredProductThere DEF IsStored
<1>5. ASSUME NEW k \in Products PROVE Registered(k)
  <2>1. ~product[k].revoked
    BY <1>1, <1>2 DEF NoProduct
  <2>2. listed = old \cap Indexed /\ revocation[k] = "none"
    BY DEF ProductInit
  <2>3. QED BY <1>4, <2>1, <2>2, ParentKinds DEF Registered
<1>6. \A q \in Requests : ProductRequestSound(q)
  BY DEF ProductRequestSound, ProductStages, RequestInit, Unused, RequestAt
<1>7. QED BY <1>3, <1>5, <1>6, RegisteredEach DEF ProductInv, RequestInit

\* A request that another's step leaves alone stays sound: of what it watches
\* nothing was written, unless it is stale, and a key keeps its fields.
LEMMA ProductOthersSound ==
  ASSUME NEW q \in Requests, ProductRequestSound(q), NEW keys, KeepsUnder(q, keys),
         \A k \in Products : k \notin keys => product'[k] = product[k],
         \A k \in Products : KindOf[k] = "key" /\ IsStored(k) =>
            product'[k] # NoProduct /\ product'[k].fields = product[k].fields
  PROVE  ProductRequestSound(q)'
<1> DEFINE k == req[q].arg.k
<1>1. req'[q].stage \in ProductStages => ProductArguments(q)'
  BY DEF ProductRequestSound, ProductArguments, KeepsUnder
<1>2. ASSUME req'[q].stage = "exec"
      PROVE  /\ req'[q].op \in {"Create", "Update", "Revoke"}
             /\ req'[q].watched = WatchedRecords(q)'
             /\ ~req'[q].stale =>
                  IF req'[q].op = "Create" THEN Creatable(k)'
                  ELSE req'[q].got = product'[k] /\ IsStored(k)'
  <2>1. /\ req[q].op \in {"Create", "Update", "Revoke"} /\ k \in Products
        /\ req[q].watched = WatchedRecords(q)
    BY <1>2 DEF ProductRequestSound, ProductArguments, ProductStages, KeepsUnder
  <2>2. req'[q].watched = WatchedRecords(q)'
    BY <2>1 DEF KeepsUnder, WatchedRecords
  <2>3. ASSUME ~req'[q].stale
        PROVE  IF req'[q].op = "Create" THEN Creatable(k)'
               ELSE req'[q].got = product'[k] /\ IsStored(k)'
    <3>1. req[q].watched \cap keys = {} /\ ~req[q].stale /\ req[q].stage = "exec"
      BY <1>2, <2>3 DEF KeepsUnder
    <3>2. product'[k] = product[k]
      BY <2>1, <3>1 DEF WatchedRecords
    <3>3. CASE req[q].op = "Create"
      <4>1. \A p \in ParentOf[k] : product'[p] = product[p]
        BY <2>1, <3>1, <3>3, ParentKinds DEF WatchedRecords
      <4>2. Creatable(k)
        BY <3>1, <3>3 DEF ProductRequestSound
      <4>3. QED BY <3>2, <3>3, <4>1, <4>2 DEF Creatable, IsStored, KeepsUnder
    <3>4. CASE req[q].op # "Create"
      BY <3>1, <3>2, <3>4 DEF ProductRequestSound, IsStored, KeepsUnder
    <3>5. QED BY <3>3, <3>4
  <2>4. QED BY <2>1, <2>2, <2>3 DEF KeepsUnder
<1>3. ASSUME req'[q].stage = "touch"
      PROVE  /\ req'[q].op = "Verify"
             /\ req'[q].got \in StoredProduct /\ ~req'[q].got.revoked
             /\ IsStored(k)' /\ req'[q].got.fields = product'[k].fields
  <2>1. /\ req[q].op = "Verify" /\ k \in Products /\ KindOf[k] = "key"
        /\ req[q].got \in StoredProduct /\ ~req[q].got.revoked
        /\ IsStored(k) /\ req[q].got.fields = product[k].fields
    BY <1>3 DEF ProductRequestSound, ProductArguments, ProductStages, KeepsUnder
  <2>2. QED BY <2>1 DEF KeepsUnder, IsStored
<1>4. QED BY <1>1, <1>2, <1>3 DEF ProductRequestSound, KeepsUnder

\* A step that writes no record: r goes on, and does not begin to use a
\* revoked key.
LEMMA ProductReadSound ==
  ASSUME ProductInv, NEW r \in Requests, OthersKeepUnder(r, {}), UNCHANGED productVars,
         ProductRequestSound(r)',
         req'[r].stage = "touch" => ~product[req'[r].arg.k].revoked
  PROVE  ProductInv'
<1>1. ProductTypes' /\ DOMAIN req' = Requests
  BY DEF ProductInv, ProductTypes, productVars, OthersKeepUnder
<1>2. ASSUME NEW q \in Requests \ {r} PROVE ProductRequestSound(q)'
  BY <1>2, ProductOthersSound DEF ProductInv, OthersKeepUnder, productVars, IsStored
<1>3. ASSUME NEW k \in Products PROVE Registered(k)'
  <2>1. Registered(k)
    BY RegisteredEach DEF ProductInv
  <2>2. ASSUME product'[k].revoked, NEW q \in Requests,
               At(q, "Verify", "touch")', req'[q].arg.k = k
        PROVE  q \in racing'[k]
    BY <2>1, <2>2 DEF Registered, At, OthersKeepUnder, KeepsUnder, productVars
  <2>3. QED BY <2>1, <2>2 DEF Registered, IsStored, At, productVars
<1>4. QED BY <1>1, <1>2, <1>3, RegisteredEachNext DEF ProductInv

\* A write of the record of k, which r watched or only read.
LEMMA ProductWriteSound ==
  ASSUME ProductInv, NEW r \in Requests, NEW k \in Products, OthersKeepUnder(r, {k}),
         NEW value \in StoredProduct \cup {NoProduct},
         product' = [product EXCEPT ![k] = value],
         listed' \subseteq Products, \A s \in Products \ {k} : s \in listed' <=> s \in listed,
         k \in listed' <=> k \in Indexed /\ value # NoProduct,
         racing' \in [Products -> SUBSET Requests],
         revocation' \in [Products -> Revocations],
         \A s \in Products \ {k} : racing'[s] = racing[s] /\ revocation'[s] = revocation[s],
         KindOf[k] = "key" \/ revocation'[k] = revocation[k],
         value.revoked <=> revocation'[k] = "committed",
         value # NoProduct => \A p \in ParentOf[k] : IsStored(p),
         KindOf[k] = "room" \/ value # NoProduct,
         KindOf[k] = "key" /\ IsStored(k) => value.fields = product[k].fields,
         value.revoked => \A q \in Requests \ {r} :
             At(q, "Verify", "touch") /\ req[q].arg.k = k => q \in racing'[k],
         req'[r].stage \in LedgerStages \cup {"done"}
  PROVE  ProductInv'
<1>1. product'[k] = value /\ \A s \in Products \ {k} : product'[s] = product[s]
  BY DEF ProductInv, ProductTypes
<1>2. ProductTypes' /\ DOMAIN req' = Requests
  BY DEF ProductInv, ProductTypes, OthersKeepUnder, Indexed
<1>3. ProductRequestSound(r)'
  BY DEF ProductRequestSound, LedgerStages, ProductStages
<1>4. ASSUME NEW q \in Requests \ {r} PROVE ProductRequestSound(q)'
  <2>1. \A s \in Products : KindOf[s] = "key" /\ IsStored(s) =>
            product'[s] # NoProduct /\ product'[s].fields = product[s].fields
    BY <1>1 DEF IsStored
  <2>2. QED BY <1>1, <1>4, <2>1, ProductOthersSound DEF ProductInv, OthersKeepUnder
<1>5. ASSUME NEW s \in Products PROVE Registered(s)'
  <2>1. Registered(s)
    BY RegisteredEach DEF ProductInv
  <2>3. s \in listed' <=> s \in Indexed /\ product'[s] # NoProduct
    BY <1>1, <2>1 DEF Registered, IsStored
  <2>4. ASSUME product'[s] # NoProduct, NEW p \in ParentOf[s] PROVE product'[p] # NoProduct
    <3>1. IsStored(p)
      BY <1>1, <2>1, <2>4 DEF Registered, IsStored
    <3>2. QED BY <1>1, <2>4, <3>1, ParentKinds DEF IsStored
  <2>5. ASSUME product'[s].revoked, NEW q \in Requests,
               At(q, "Verify", "touch")', req'[q].arg.k = s
        PROVE  q \in racing'[s]
    <3>1. q # r
      BY <2>5 DEF At, LedgerStages
    <3>2. At(q, "Verify", "touch") /\ req[q].arg.k = s
      BY <2>5, <3>1 DEF At, OthersKeepUnder, KeepsUnder
    <3>3. QED BY <1>1, <2>1, <2>5, <3>1, <3>2 DEF Registered
  <2>6. product'[s].revoked <=> revocation'[s] = "committed"
    BY <1>1, <2>1 DEF Registered
  <2>7. QED BY <2>3, <2>4, <2>5, <2>6 DEF Registered, IsStored, At
<1>6. QED BY <1>2, <1>3, <1>4, <1>5, RegisteredEachNext DEF ProductInv

\* A transaction that is executed found what it read as it is.
LEMMA ProductExecs ==
  ASSUME ProductInv, NEW r \in Requests, NEW op, CanExec(r, op)
  PROVE  /\ req[r].op = op /\ req[r].stage = "exec" /\ req[r].arg.k \in Products
         /\ op = "Create" => Creatable(req[r].arg.k)
         /\ op # "Create" => /\ req[r].got = product[req[r].arg.k]
                             /\ product[req[r].arg.k] \in StoredProduct
         /\ op = "Revoke" => KindOf[req[r].arg.k] = "key"
<1>1. /\ req[r].op = op /\ req[r].stage = "exec" /\ ~req[r].stale /\ ProductRequestSound(r)
      /\ ProductTypes
  BY DEF CanExec, At, ProductInv
<1>2. ProductArguments(r)
  BY <1>1 DEF ProductRequestSound, ProductStages
<1>3. QED BY <1>1, <1>2, StoredOrNot DEF ProductRequestSound, ProductArguments

\* A request is accepted.
LEMMA ProductRequestStep ==
  ASSUME ProductInv, NEW r \in Requests, ProductRequest(r), UNCHANGED productVars
  PROVE  ProductInv'
<1>0. PICK k \in Products, op \in {"Create", "Update", "Revoke", "DeleteRoom", "Verify"} :
        \E arg : /\ Start(r, op, arg) /\ arg.k = k
                 /\ op = "DeleteRoom" => KindOf[k] = "room"
                 /\ op \in {"Revoke", "Verify"} => KindOf[k] = "key"
  BY DEF ProductRequest, handleCreateRoom, handleUpdateRoom, handleDeleteRoom,
     handleCreateTenant, handleUpdateTenant, handleCreateProject, handleUpdateProject,
     handleCreateAPIKey, handleAPIKeyAction, authenticateAPIKey
<1>1. PICK arg : /\ Start(r, op, arg) /\ arg.k = k
                 /\ op = "DeleteRoom" => KindOf[k] = "room"
                 /\ op \in {"Revoke", "Verify"} => KindOf[k] = "key"
  BY <1>0
<1>2. /\ req'[r].op = op /\ req'[r].stage = "started" /\ req'[r].arg = arg
      /\ OthersKeepUnder(r, {})
  BY <1>1, StartStep DEF ProductInv
<1>3. ProductRequestSound(r)'
  BY <1>1, <1>2 DEF ProductRequestSound, ProductArguments, ProductStages
<1>4. QED BY <1>2, <1>3, ProductReadSound

\* A transaction begins: what it may go on with, it has read.
LEMMA WatchProductStep ==
  ASSUME ProductInv, NEW r \in Requests, WatchProduct(r)
  PROVE  ProductInv'
<1> DEFINE k == req[r].arg.k
<1>1. /\ UNCHANGED productVars /\ req[r].stage \in {"started", "loaded"}
      /\ req[r].op \in {"Create", "Update", "Revoke"}
  BY DEF WatchProduct, At
<1>2. k \in Products /\ ProductArguments(r)
  BY <1>1 DEF ProductInv, ProductRequestSound, ProductArguments, ProductStages
<1>3. CASE req' = Finished(r)
  <2>1. Becomes(r, "done", Nothing, Nothing) /\ OthersKeepUnder(r, {})
    BY <1>3, FinishedStep DEF ProductInv
  <2>2. QED BY <1>1, <2>1, ProductReadSound DEF Becomes, ProductRequestSound, ProductStages
<1>4. CASE /\ IF req[r].op = "Create" THEN ~CreateRefused(k) ELSE IsStored(k)
           /\ req' = Watching(r, WatchedRecords(r), product[k])
  <2>1. /\ req'[r].op = req[r].op /\ req'[r].stage = "exec" /\ req'[r].arg = req[r].arg
        /\ req'[r].got = product[k] /\ req'[r].watched = WatchedRecords(r)
        /\ OthersKeepUnder(r, {})
    <3>1. PICK keys, got : keys = WatchedRecords(r) /\ got = product[k]
      OBVIOUS
    <3>2. DOMAIN req = Requests /\ req' = Watching(r, keys, got)
      BY <1>4, <3>1 DEF ProductInv
    <3> HIDE DEF k
    <3>3. /\ req'[r].op = req[r].op /\ req'[r].stage = "exec" /\ req'[r].arg = req[r].arg
          /\ req'[r].got = got /\ req'[r].watched = keys /\ OthersKeepUnder(r, {})
      BY <3>2, WatchingStep
    <3>4. QED BY <3>1, <3>3
  <2>2. Registered(k)
    BY <1>2, RegisteredEach DEF ProductInv
  <2>3. req[r].op = "Create" => Creatable(k)
    BY <1>2, <1>4, <2>2, CreateRefusedMeans DEF ProductInv
  <2>4. WatchedRecords(r)' = WatchedRecords(r)
    BY <2>1 DEF WatchedRecords
  <2>5. req'[r].op = "Create" => Creatable(k)'
    BY <1>1, <2>1, <2>3 DEF Creatable, IsStored, productVars
  <2>6. req'[r].op # "Create" => req'[r].got = product'[k] /\ IsStored(k)'
    BY <1>1, <1>4, <2>1 DEF IsStored, productVars
  <2>7. ProductArguments(r)'
    BY <1>2, <2>1 DEF ProductArguments
  <2>8. ProductRequestSound(r)'
    BY <1>1, <2>1, <2>4, <2>5, <2>6, <2>7 DEF ProductRequestSound, ProductStages
  <2>9. QED BY <1>1, <2>1, <2>8, ProductReadSound
<1>5. QED BY <1>3, <1>4 DEF WatchProduct

\* A key's record is read, by a revocation or by a verification that accepts it.
LEMMA LoadAPIKeyStep ==
  ASSUME ProductInv, NEW r \in Requests, loadAPIKeyRecord(r)
  PROVE  ProductInv'
<1> DEFINE k == req[r].arg.k
<1>1. /\ UNCHANGED productVars /\ req[r].stage = "started" /\ req[r].op \in {"Verify", "Revoke"}
  BY DEF loadAPIKeyRecord
<1>2. k \in Products /\ ProductArguments(r) /\ ProductTypes
  BY <1>1 DEF ProductInv, ProductRequestSound, ProductArguments, ProductStages
<1>3. CASE req' = Finished(r)
  <2>1. Becomes(r, "done", Nothing, Nothing) /\ OthersKeepUnder(r, {})
    BY <1>3, FinishedStep DEF ProductInv
  <2>2. QED BY <1>1, <2>1, ProductReadSound DEF Becomes, ProductRequestSound, ProductStages
<1>4. CASE req' = Advance(r, "loaded", Nothing)
  <2>1. Becomes(r, "loaded", req[r].arg, Nothing) /\ OthersKeepUnder(r, {})
    BY <1>4, AdvanceStep DEF ProductInv
  <2>2. ProductRequestSound(r)'
    BY <1>2, <2>1 DEF Becomes, ProductRequestSound, ProductStages, ProductArguments
  <2>3. QED BY <1>1, <2>1, <2>2, ProductReadSound DEF Becomes
<1>5. CASE req[r].op = "Verify" /\ AcceptsKey(k) /\ req' = Advance(r, "touch", product[k])
  <2>1. Becomes(r, "touch", req[r].arg, product[k]) /\ OthersKeepUnder(r, {})
    BY <1>5, AdvanceStep DEF ProductInv
  <2>2. product[k] \in StoredProduct /\ ~product[k].revoked /\ IsStored(k)
    BY <1>2, <1>5, StoredOrNot DEF AcceptsKey
  <2>3. ProductRequestSound(r)'
    BY <1>1, <1>2, <1>5, <2>1, <2>2
       DEF Becomes, ProductRequestSound, ProductStages, ProductArguments, IsStored, productVars
  <2>4. QED BY <1>1, <2>1, <2>2, <2>3, ProductReadSound DEF Becomes
<1>6. QED BY <1>3, <1>4, <1>5 DEF loadAPIKeyRecord

\* A record is created, and listed with it.
LEMMA CreateStep ==
  ASSUME ProductInv, NEW r \in Requests, NEW kind, NEW stage, NEW got,
         Create(r, kind, Advance(r, stage, got)), stage \in LedgerStages
  PROVE  ProductInv'
<1> DEFINE k == req[r].arg.k
<1>1. /\ CanExec(r, "Create") /\ UNCHANGED <<racing, revocation>>
      /\ product' = [product EXCEPT ![k] = NewProduct(r)]
      /\ listed' = listed \cup ({k} \cap Indexed)
      /\ req' = Written(Advance(r, stage, got), {k})
  BY DEF Create
<1>2. k \in Products /\ Creatable(k)
  BY <1>1, ProductExecs
<1>3. Becomes(r, stage, req[r].arg, got) /\ OthersKeepUnder(r, {k})
  BY <1>1, AdvanceWritten DEF ProductInv
<1>4. NewProduct(r) \in StoredProduct /\ NewProduct(r) # NoProduct /\ ~NewProduct(r).revoked
  <2>1. NewProduct(r) \in StoredProduct /\ ~NewProduct(r).revoked
    BY DEF NewProduct, StoredProduct
  <2>2. QED BY <2>1, StoredProductThere
<1>5. /\ racing' \in [Products -> SUBSET Requests] /\ revocation' \in [Products -> Revocations]
      /\ \A s \in Products : racing'[s] = racing[s] /\ revocation'[s] = revocation[s]
      /\ revocation[k] # "committed"
  <2>1. Registered(k) /\ ~product[k].revoked
    BY <1>2, RegisteredEach DEF ProductInv, Creatable, IsStored, NoProduct
  <2>2. QED BY <1>1, <2>1 DEF ProductInv, ProductTypes, Registered
<1>6. req'[r].stage \in LedgerStages
  BY <1>3 DEF Becomes
<1>7. /\ listed' \subseteq Products /\ \A s \in Products \ {k} : s \in listed' <=> s \in listed
      /\ k \in listed' <=> k \in Indexed
  <2>1. Registered(k) /\ listed \subseteq Products
    BY <1>2, RegisteredEach DEF ProductInv, ProductTypes
  <2>2. QED BY <1>1, <1>2, <2>1 DEF Registered, Creatable
<1> HIDE DEF k
<1>8. QED
  BY <1>1, <1>2, <1>3, <1>4, <1>5, <1>6, <1>7, ProductWriteSound DEF Creatable

\* An update writes the record as it is, with its fields.
LEMMA UpdateStep ==
  ASSUME ProductInv, NEW r \in Requests, NEW kind, Update(r, kind), kind # "key"
  PROVE  ProductInv'
<1> DEFINE k == req[r].arg.k
           value == [fields |-> [f \in ProductFields |->
                                  IF f \in req[r].arg.fs THEN r ELSE req[r].got.fields[f]],
                     revoked |-> req[r].got.revoked]
<1>1. /\ CanExec(r, "Update") /\ UNCHANGED <<listed, racing, revocation>> /\ KindOf[k] # "key"
      /\ product' = [product EXCEPT ![k] = value]
      /\ req' = Written(Advance(r, "audit", Nothing), {k})
  BY DEF Update, Audited
<1>2. k \in Products /\ req[r].got = product[k] /\ product[k] \in StoredProduct /\ Registered(k)
  BY <1>1, ProductExecs, RegisteredEach DEF ProductInv
<1>3. Becomes(r, "audit", req[r].arg, Nothing) /\ OthersKeepUnder(r, {k})
  BY <1>1, AdvanceWritten DEF ProductInv
<1>4. value \in StoredProduct /\ value.revoked = product[k].revoked
  BY <1>2 DEF StoredProduct
<1> HIDE DEF value, k
<1>5. value # NoProduct /\ product[k] # NoProduct
  BY <1>2, <1>4, StoredProductThere
<1>6. /\ racing' \in [Products -> SUBSET Requests] /\ revocation' \in [Products -> Revocations]
      /\ \A s \in Products : racing'[s] = racing[s] /\ revocation'[s] = revocation[s]
      /\ value.revoked <=> revocation'[k] = "committed"
  BY <1>1, <1>2, <1>4 DEF ProductInv, ProductTypes, Registered
<1>7. req'[r].stage \in LedgerStages
  BY <1>3 DEF Becomes, LedgerStages
<1>8. /\ listed' \subseteq Products /\ (k \in listed' <=> k \in Indexed)
      /\ \A p \in ParentOf[k] : IsStored(p)
      /\ value.revoked => \A q \in Requests \ {r} :
             At(q, "Verify", "touch") /\ req[q].arg.k = k => q \in racing'[k]
  BY <1>1, <1>2, <1>4, <1>5, <1>6 DEF Registered, IsStored, ProductInv, ProductTypes
<1>9. QED
  BY <1>1, <1>2, <1>3, <1>4, <1>5, <1>6, <1>7, <1>8, ProductWriteSound

\* A room is deleted; it has no index, and nothing has a room for a parent.
LEMMA DeleteRoomStep ==
  ASSUME ProductInv, NEW r \in Requests, DeleteRoom(r)
  PROVE  ProductInv'
<1> DEFINE k == req[r].arg.k
<1>1. At(r, "DeleteRoom", "started") /\ UNCHANGED <<listed, racing, revocation>>
  BY DEF DeleteRoom
<1>2. k \in Products /\ KindOf[k] = "room"
  BY <1>1 DEF At, ProductInv, ProductRequestSound, ProductArguments, ProductStages
<1>3. CASE req' = Finished(r) /\ UNCHANGED product
  <2>1. Becomes(r, "done", Nothing, Nothing) /\ OthersKeepUnder(r, {})
    BY <1>3, FinishedStep DEF ProductInv
  <2>2. QED BY <1>1, <1>3, <2>1, ProductReadSound
            DEF Becomes, ProductRequestSound, ProductStages, productVars
<1>4. CASE /\ product' = [product EXCEPT ![k] = NoProduct]
           /\ req' = Written(Advance(r, "usage", [metric |-> RoomMetric]), {k})
  <2>1. Becomes(r, "usage", req[r].arg, [metric |-> RoomMetric]) /\ OthersKeepUnder(r, {k})
    BY <1>4, AdvanceWritten DEF ProductInv
  <2>2. /\ racing' \in [Products -> SUBSET Requests]
        /\ revocation' \in [Products -> Revocations] /\ revocation'[k] = "none"
        /\ \A s \in Products : racing'[s] = racing[s] /\ revocation'[s] = revocation[s]
    BY <1>1, <1>2 DEF ProductInv, ProductTypes
  <2>3. req'[r].stage \in LedgerStages /\ k \notin Indexed /\ k \notin listed
        /\ listed' \subseteq Products /\ ~NoProduct.revoked
    BY <1>1, <1>2, <2>1 DEF Becomes, LedgerStages, Indexed, NoProduct, ProductInv, ProductTypes,
       RegistryWhole
  <2> HIDE DEF k
  <2>4. QED
    BY <1>1, <1>2, <1>4, <2>1, <2>2, <2>3, ProductWriteSound
<1>5. QED BY <1>3, <1>4 DEF DeleteRoom, Metered

\* A verification writes back what it read: the key is in use again, with the
\* fields it has.
LEMMA VerifyAPIKeyStep ==
  ASSUME ProductInv, NEW r \in Requests, VerifyAPIKey(r)
  PROVE  ProductInv'
<1> DEFINE k == req[r].arg.k
           value == req[r].got
<1>1. /\ At(r, "Verify", "touch") /\ UNCHANGED listed
      /\ product' = [product EXCEPT ![k] = value]
      /\ req' = Written(Finished(r), {k})
      /\ racing' = [racing EXCEPT ![k] = racing[k] \ {r}]
      /\ revocation' = [revocation EXCEPT ![k] = IF r \in racing[k] THEN "undone" ELSE revocation[k]]
  BY DEF VerifyAPIKey
<1>2. /\ k \in Products /\ KindOf[k] = "key" /\ value \in StoredProduct /\ ~value.revoked
      /\ IsStored(k) /\ value.fields = product[k].fields
  BY <1>1 DEF At, ProductInv, ProductRequestSound, ProductArguments, ProductStages
<1>3. Becomes(r, "done", Nothing, Nothing) /\ OthersKeepUnder(r, {k})
  BY <1>1, FinishedWritten DEF ProductInv
<1>4. /\ racing' \in [Products -> SUBSET Requests] /\ revocation' \in [Products -> Revocations]
      /\ \A s \in Products \ {k} : racing'[s] = racing[s] /\ revocation'[s] = revocation[s]
  BY <1>1, <1>2 DEF ProductInv, ProductTypes, Revocations
<1>a. revocation'[k] # "committed"
  <2>1. Registered(k)
    BY <1>2, RegisteredEach DEF ProductInv
  <2>2. revocation'[k] = IF r \in racing[k] THEN "undone" ELSE revocation[k]
    BY <1>1, <1>2 DEF ProductInv, ProductTypes
  <2>3. revocation[k] = "committed" => r \in racing[k]
    BY <1>1, <2>1 DEF Registered
  <2>4. QED BY <2>2, <2>3
<1>5. /\ Registered(k) /\ value # NoProduct
      /\ listed' \subseteq Products /\ (k \in listed' <=> k \in Indexed)
  BY <1>1, <1>2, RegisteredEach, StoredProductThere DEF ProductInv, ProductTypes, Registered
<1>6. req'[r].stage \in {"done"}
  BY <1>3 DEF Becomes
<1> HIDE DEF value, k
<1>7. QED
  BY <1>1, <1>2, <1>3, <1>4, <1>a, <1>5, <1>6, ProductWriteSound DEF Registered

\* A key is revoked; every verification that had accepted it by then races.
LEMMA RevokeAPIKeyStep ==
  ASSUME ProductInv, NEW r \in Requests, RevokeAPIKey(r)
  PROVE  ProductInv'
<1> DEFINE k == req[r].arg.k
           value == [fields |-> req[r].got.fields, revoked |-> TRUE]
           raced == {q \in Requests : At(q, "Verify", "touch") /\ req[q].arg.k = k}
<1>1. /\ CanExec(r, "Revoke") /\ UNCHANGED listed
      /\ product' = [product EXCEPT ![k] = value]
      /\ racing' = [racing EXCEPT ![k] = raced]
      /\ revocation' = [revocation EXCEPT ![k] = "committed"]
      /\ req' = Written(Advance(r, "audit", Nothing), {k})
  BY DEF RevokeAPIKey, Accepting, Audited
<1>2. /\ k \in Products /\ req[r].got = product[k] /\ product[k] \in StoredProduct
      /\ Registered(k)
  BY <1>1, ProductExecs, RegisteredEach DEF ProductInv
<1>3. Becomes(r, "audit", req[r].arg, Nothing) /\ OthersKeepUnder(r, {k})
  BY <1>1, AdvanceWritten DEF ProductInv
<1>4. value \in StoredProduct /\ value.fields = product[k].fields
  BY <1>2 DEF StoredProduct
<1> HIDE DEF value, k
<1>5. value # NoProduct /\ product[k] # NoProduct
  BY <1>2, <1>4, StoredProductThere
<1>6. /\ racing' \in [Products -> SUBSET Requests] /\ racing'[k] = raced
      /\ revocation' \in [Products -> Revocations] /\ revocation'[k] = "committed"
      /\ \A s \in Products \ {k} : racing'[s] = racing[s] /\ revocation'[s] = revocation[s]
  BY <1>1, <1>2 DEF ProductInv, ProductTypes, Revocations
<1>a. KindOf[k] = "key" /\ value.revoked
  BY <1>1 DEF k, value, CanExec, At, ProductInv, ProductRequestSound, ProductArguments, ProductStages
<1>7. req'[r].stage \in LedgerStages
  BY <1>3 DEF Becomes, LedgerStages
<1>8. /\ \A q \in Requests \ {r} :
             At(q, "Verify", "touch") /\ req[q].arg.k = k => q \in racing'[k]
      /\ listed' \subseteq Products /\ (k \in listed' <=> k \in Indexed)
  BY <1>1, <1>2, <1>5, <1>6 DEF Registered, IsStored, ProductInv, ProductTypes
<1> HIDE DEF raced, k
<1>9. QED
  BY <1>1, <1>2, <1>3, <1>4, <1>5, <1>6, <1>a, <1>7, <1>8, ProductWriteSound
     DEF Registered, IsStored

\* A step of the ledger, and a call that fails or is refused, write no record.
LEMMA ProductRestStep ==
  ASSUME ProductInv, NEW r \in Requests, UNCHANGED productVars,
         LedgerStep(r) \/ ExecRefused(r) \/ CallFails(r)
  PROVE  ProductInv'
<1>1. /\ req'[r].stage \in {"counted", "audit", "done"} /\ OthersKeepUnder(r, {})
  BY LedgerStepMoves, RefusedStep DEF ProductInv, Becomes
<1>2. ProductRequestSound(r)'
  BY <1>1 DEF ProductRequestSound, ProductStages, LedgerStages
<1>3. QED BY <1>1, <1>2, ProductReadSound

\* Every step keeps the records' invariant.
LEMMA ProductStep ==
  ASSUME ProductInv, ProductNext
  PROVE  ProductInv'
<1>1. ASSUME NEW r \in Requests,
             CreateRoom(r) \/ CreateTenant(r) \/ CreateProject(r) \/ CreateAPIKey(r)
      PROVE  ProductInv'
  BY <1>1, CreateStep
     DEF CreateRoom, CreateTenant, CreateProject, CreateAPIKey, Metered, Audited, LedgerStages
<1>2. ASSUME NEW r \in Requests, UpdateRoom(r) \/ UpdateTenant(r) \/ UpdateProject(r)
      PROVE  ProductInv'
  BY <1>2, UpdateStep DEF UpdateRoom, UpdateTenant, UpdateProject
<1>3. ASSUME NEW r \in Requests, WatchProduct(r) \/ loadAPIKeyRecord(r)
      PROVE  ProductInv'
  BY <1>3, WatchProductStep, LoadAPIKeyStep
<1>4. ASSUME NEW r \in Requests, DeleteRoom(r) \/ VerifyAPIKey(r) \/ RevokeAPIKey(r)
      PROVE  ProductInv'
  BY <1>4, DeleteRoomStep, VerifyAPIKeyStep, RevokeAPIKeyStep
<1>5. QED
  BY <1>1, <1>2, <1>3, <1>4, ProductRequestStep, ProductRestStep
     DEF ProductNext, ChangeCallFails

\* Every step of the records keeps the ledger's invariant.
LEMMA ProductLedgerStep ==
  ASSUME ProductInv, LedgerInv, ProductNext
  PROVE  LedgerInv'
<1>1. ASSUME NEW r \in Requests, ProductRequest(r), UNCHANGED ledgerVars PROVE LedgerInv'
  <2>1. \E op, arg : Start(r, op, arg)
    BY <1>1 DEF ProductRequest, handleCreateRoom, handleUpdateRoom, handleDeleteRoom,
       handleCreateTenant, handleUpdateTenant, handleCreateProject, handleUpdateProject,
       handleCreateAPIKey, handleAPIKeyAction, authenticateAPIKey
  <2>2. QED BY <1>1, <2>1, StartStep, LedgerQuiet DEF LedgerInv, LedgerStages
<1>2. ASSUME NEW r \in Requests, WatchProduct(r) PROVE LedgerInv'
  <2>1. req[r].stage \in {"started", "loaded"} /\ UNCHANGED ledgerVars
    BY <1>2 DEF WatchProduct, At
  <2>2. \/ req' = Finished(r)
        \/ req' = Watching(r, WatchedRecords(r), product[req[r].arg.k])
    BY <1>2 DEF WatchProduct
  <2>3. OthersKeepUnder(r, {}) /\ req'[r].stage \in {"done", "exec"}
    BY <2>2, FinishedStep, WatchingStep DEF LedgerInv, Becomes
  <2>4. QED BY <2>1, <2>3, LedgerQuiet DEF LedgerStages
<1>3. ASSUME NEW r \in Requests, loadAPIKeyRecord(r) PROVE LedgerInv'
  <2>1. req[r].stage = "started" /\ UNCHANGED ledgerVars
    BY <1>3 DEF loadAPIKeyRecord
  <2>2. \/ req' = Finished(r) \/ req' = Advance(r, "loaded", Nothing)
        \/ req' = Advance(r, "touch", product[req[r].arg.k])
    BY <1>3 DEF loadAPIKeyRecord
  <2>3. OthersKeepUnder(r, {}) /\ req'[r].stage \in {"done", "loaded", "touch"}
    BY <2>2, FinishedStep, AdvanceStep DEF LedgerInv, Becomes
  <2>4. QED BY <2>1, <2>3, LedgerQuiet DEF LedgerStages
<1>4. ASSUME NEW r \in Requests, NEW kind,
             \/ Create(r, kind, Advance(r, "usage", [metric |-> RoomMetric]))
             \/ Create(r, kind, Advance(r, "audit", Nothing))
      PROVE  LedgerInv'
  <2>1. req[r].stage = "exec" /\ Owes(r)
    BY <1>4 DEF Create, CanExec, At
  <2>2. \/ Becomes(r, "usage", req[r].arg, [metric |-> RoomMetric])
        \/ Becomes(r, "audit", req[r].arg, Nothing)
    BY <1>4, AdvanceWritten DEF Create, LedgerInv
  <2>3. OthersKeepUnder(r, {req[r].arg.k})
    BY <1>4, AdvanceWritten DEF Create, LedgerInv
  <2>4. QED BY <2>1, <2>2, <2>3, LedgerCommits, ProductAssumption DEF Becomes, LedgerStages
<1>5. ASSUME NEW r \in Requests, (\E kind : Update(r, kind)) \/ RevokeAPIKey(r)
      PROVE  LedgerInv'
  <2>1. /\ req[r].stage = "exec" /\ Owes(r)
        /\ req' = Written(Advance(r, "audit", Nothing), {req[r].arg.k})
    BY <1>5 DEF Update, RevokeAPIKey, CanExec, At, Audited
  <2>2. Becomes(r, "audit", req[r].arg, Nothing) /\ OthersKeepUnder(r, {req[r].arg.k})
    BY <2>1, AdvanceWritten DEF LedgerInv
  <2>3. QED BY <2>1, <2>2, LedgerCommits DEF Becomes, LedgerStages
<1>6. ASSUME NEW r \in Requests, DeleteRoom(r) PROVE LedgerInv'
  <2>1. req[r].stage = "started"
    BY <1>6 DEF DeleteRoom, At
  <2>2. CASE req' = Finished(r) /\ UNCHANGED ledgerVars
    BY <2>1, <2>2, FinishedStep, LedgerQuiet DEF LedgerInv, Becomes, LedgerStages
  <2>3. CASE Owes(r) /\ req' = Written(Advance(r, "usage", [metric |-> RoomMetric]), {req[r].arg.k})
    <3>1. /\ Becomes(r, "usage", req[r].arg, [metric |-> RoomMetric])
          /\ OthersKeepUnder(r, {req[r].arg.k})
      BY <2>3, AdvanceWritten DEF LedgerInv
    <3>2. req'[r].stage = "usage" /\ req'[r].got.metric \in Metrics
      BY <3>1, ProductAssumption DEF Becomes
    <3>3. QED BY <2>1, <2>3, <3>1, <3>2, LedgerCommits DEF LedgerStages
  <2>4. QED BY <1>6, <2>2, <2>3 DEF DeleteRoom, Metered
<1>7. ASSUME NEW r \in Requests, VerifyAPIKey(r) PROVE LedgerInv'
  <2>1. /\ req[r].stage = "touch" /\ UNCHANGED ledgerVars
        /\ req' = Written(Finished(r), {req[r].arg.k})
    BY <1>7 DEF VerifyAPIKey, At
  <2>2. Becomes(r, "done", Nothing, Nothing) /\ OthersKeepUnder(r, {req[r].arg.k})
    BY <2>1, FinishedWritten DEF LedgerInv
  <2>3. QED BY <2>1, <2>2, LedgerQuiet DEF Becomes, LedgerStages
<1>8. ASSUME NEW r \in Requests, UNCHANGED ledgerVars,
             \/ ExecRefused(r)
             \/ CallFails(r) /\ req[r].stage \in ProductStages
      PROVE  LedgerInv'
  <2>1. req[r].stage \notin LedgerStages \cup {"version"}
    BY <1>8 DEF ExecRefused, ProductStages, LedgerStages
  <2>2. QED BY <1>8, <2>1, LedgerRefused
<1>9. QED
  BY <1>1, <1>2, <1>3, <1>4, <1>5, <1>6, <1>7, <1>8, LedgerStepSound
     DEF ProductNext, ChangeCallFails, CreateRoom, CreateTenant, CreateProject, CreateAPIKey,
         UpdateRoom, UpdateTenant, UpdateProject, Metered, Audited

\* The records' and the ledger's invariants hold together.
LEMMA ProductInvariant == ProductSpec => [](ProductInv /\ LedgerInv)
<1>1. ASSUME RequestInit, LedgerInit, NEW old \in SUBSET Products,
             \A k \in old : ParentOf[k] \subseteq old, ProductInit(old)
      PROVE  ProductInv /\ LedgerInv
  BY <1>1, ProductInitSound, LedgerInitSound
<1>2. ASSUME ProductInv, LedgerInv, UNCHANGED <<requestVars, ledgerVars, productVars>>
      PROVE  ProductInv' /\ LedgerInv'
  <2>1. ProductTypes' /\ DOMAIN req' = Requests
    BY <1>2 DEF ProductInv, ProductTypes, productVars, requestVars
  <2>2. ASSUME NEW q \in Requests PROVE ProductRequestSound(q)'
    BY <1>2 DEF ProductInv, ProductRequestSound, ProductArguments, WatchedRecords, Creatable,
       IsStored, productVars, requestVars
  <2>3. RegistryWhole'
    BY <1>2 DEF ProductInv, RegistryWhole, RevocationHolds, Accepting, IsStored, At, productVars, requestVars
  <2>4. LedgerInv'
    BY <1>2 DEF LedgerInv, LedgerTypes, LedgerRequestSound, LedgerComplete, UsageExact,
       AuditComplete, ledgerVars, requestVars
  <2>5. QED BY <2>1, <2>2, <2>3, <2>4 DEF ProductInv
<1>3. ProductInv /\ LedgerInv /\ [ProductNext]_<<requestVars, ledgerVars, productVars>>
        => (ProductInv /\ LedgerInv)'
  BY <1>2, ProductStep, ProductLedgerStep
<1>4. RequestInit /\ LedgerInit
        /\ (\E old \in SUBSET Products :
                (\A k \in old : ParentOf[k] \subseteq old) /\ ProductInit(old))
        => ProductInv /\ LedgerInv
  BY <1>1
<1>5. QED BY <1>3, <1>4, PTL DEF ProductSpec

\* However requests on tenants, projects, keys and rooms overlap, the indexes
\* list exactly the records there are, every record's parent is there, and a
\* revocation stays in force until a verification that had accepted the key
\* before writes its copy back (VerifyAPIKey).
THEOREM ProductsWhole == ProductSpec => []RegistryWhole
BY ProductInvariant, PTL DEF ProductInv

\* What the admin handlers committed is in the audit log when they answer, and
\* the usage records hold what was counted (recordUsage, recordAudit).
THEOREM ProductsAccounted == ProductSpec => []LedgerComplete
BY ProductInvariant, PTL DEF LedgerInv

\* What a step does to the record of k.
RecordKept(k) ==
    /\ ~IsStored(k) /\ product'[k] # NoProduct =>
        \E r \in Requests : At(r, "Create", "exec") /\ req[r].arg.k = k
    /\ IsStored(k) /\ product'[k] # NoProduct => \A f \in ProductFields :
        LET w == product'[k].fields[f] IN
        w # product[k].fields[f] =>
            w \in Requests /\ At(w, "Update", "exec") /\ f \in req[w].arg.fs

\* A record appears by a create, and a field changes by an update of it.
LEMMA RecordKeptStep ==
  ASSUME ProductInv, ProductNext, NEW k \in Products
  PROVE  RecordKept(k)
<1> DEFINE Keeps == product'[k] = product[k] \/ (IsStored(k) /\ product'[k].fields = product[k].fields)
<1>1. CASE Keeps
  BY <1>1 DEF RecordKept, IsStored
<1>2. ASSUME NEW r \in Requests, NEW kind, NEW next, Create(r, kind, next) PROVE RecordKept(k)
  <2>1. /\ CanExec(r, "Create")
        /\ product' = [product EXCEPT ![req[r].arg.k] = NewProduct(r)]
    BY <1>2 DEF Create
  <2>2. Creatable(req[r].arg.k) /\ At(r, "Create", "exec")
    BY <2>1, ProductExecs DEF CanExec
  <2>3. k = req[r].arg.k \/ product'[k] = product[k]
    BY <2>1 DEF ProductInv, ProductTypes
  <2>4. QED BY <1>1, <2>2, <2>3 DEF RecordKept, Creatable
<1>3. ASSUME NEW r \in Requests, NEW kind, Update(r, kind) PROVE RecordKept(k)
  <2> DEFINE value == [fields |-> [f \in ProductFields |->
                                    IF f \in req[r].arg.fs THEN r ELSE req[r].got.fields[f]],
                       revoked |-> req[r].got.revoked]
  <2>1. CanExec(r, "Update") /\ product' = [product EXCEPT ![req[r].arg.k] = value]
    BY <1>3 DEF Update
  <2>2. /\ At(r, "Update", "exec") /\ req[r].got = product[req[r].arg.k]
        /\ product[req[r].arg.k] \in StoredProduct
    BY <2>1, ProductExecs DEF CanExec
  <2>3. CASE k = req[r].arg.k
    <3>1. IsStored(k)
      BY <2>2, <2>3, StoredProductThere DEF IsStored
    <3>2. product'[k] = value
      BY <2>1, <2>3 DEF ProductInv, ProductTypes
    <3>3. ASSUME NEW f \in ProductFields, value.fields[f] # product[k].fields[f]
          PROVE  value.fields[f] = r /\ f \in req[r].arg.fs
      BY <2>2, <2>3, <3>3
    <3> HIDE DEF value
    <3>4. QED BY <2>2, <3>1, <3>2, <3>3 DEF RecordKept
  <2>4. CASE k # req[r].arg.k
    <3>1. product'[k] = product[k]
      BY <2>1, <2>4 DEF ProductInv, ProductTypes
    <3>2. QED BY <1>1, <3>1
  <2>5. QED BY <2>3, <2>4
<1>4. ASSUME NEW r \in Requests, DeleteRoom(r) PROVE RecordKept(k)
  <2>1. product'[k] = product[k] \/ product'[k] = NoProduct
    BY <1>4 DEF DeleteRoom, ProductInv, ProductTypes
  <2>2. QED BY <1>1, <2>1 DEF RecordKept
<1>5. ASSUME NEW r \in Requests, VerifyAPIKey(r) PROVE RecordKept(k)
  <2>1. /\ At(r, "Verify", "touch")
        /\ product' = [product EXCEPT ![req[r].arg.k] = req[r].got]
    BY <1>5 DEF VerifyAPIKey
  <2>2. IsStored(req[r].arg.k) /\ req[r].got.fields = product[req[r].arg.k].fields
    BY <2>1 DEF At, ProductInv, ProductRequestSound
  <2>3. Keeps
    BY <2>1, <2>2 DEF ProductInv, ProductTypes
  <2>4. QED BY <1>1, <2>3
<1>6. ASSUME NEW r \in Requests, RevokeAPIKey(r) PROVE RecordKept(k)
  <2> DEFINE value == [fields |-> req[r].got.fields, revoked |-> TRUE]
  <2>1. CanExec(r, "Revoke") /\ product' = [product EXCEPT ![req[r].arg.k] = value]
    BY <1>6 DEF RevokeAPIKey
  <2>2. /\ value.fields = product[req[r].arg.k].fields
        /\ product[req[r].arg.k] \in StoredProduct
    BY <2>1, ProductExecs
  <2> HIDE DEF value
  <2>3. IsStored(req[r].arg.k)
    BY <2>2, StoredProductThere DEF IsStored
  <2>4. Keeps
    BY <2>1, <2>2, <2>3 DEF ProductInv, ProductTypes
  <2>5. QED BY <1>1, <2>4
<1>7. ASSUME UNCHANGED product PROVE RecordKept(k)
  BY <1>1, <1>7
<1> HIDE DEF Keeps
<1>8. QED
  BY <1>2, <1>3, <1>4, <1>5, <1>6, <1>7
     DEF ProductNext, CreateRoom, CreateTenant, CreateProject, CreateAPIKey, UpdateRoom,
         UpdateTenant, UpdateProject, WatchProduct, loadAPIKeyRecord, productVars

\* Concurrent updates of a record keep each other's fields, and nothing but a
\* create makes a record, although updates and key verifications write whole
\* records that were read before (UpdateRoom, UpdateTenant, VerifyAPIKey).
THEOREM RecordsKeepUpdates == ProductSpec => UpdatesKept
<1>1. ProductInv /\ [ProductNext]_<<requestVars, ledgerVars, productVars>> =>
        [\A k \in Products : RecordKept(k)]_<<requestVars, productVars>>
  BY RecordKeptStep
<1>2. ProductSpec => [][\A k \in Products : RecordKept(k)]_<<requestVars, productVars>>
  BY <1>1, ProductInvariant, PTL DEF ProductSpec
<1>3. QED BY <1>2 DEF UpdatesKept, RecordKept
-----------------------------------------------------------------------------
(* Rich-text documents.                                                    *)

TextTypes ==
    /\ document \in [TextDocuments -> [content : SUBSET Requests, created : SUBSET Requests]]
    /\ documents \subseteq TextDocuments
    /\ first \in [TextDocuments -> SUBSET Requests]

\* What an upsert of d that has read the creation time created will write.
CreatedRight(q, d, created) ==
    IF document[d] = NoDocument THEN created = {q} ELSE created \subseteq first[d]

TextRequestSound(q) ==
    /\ req[q].stage \in {"idle", "started", "multi", "version", "done"} \cup LedgerStages
    /\ req[q].stage \in {"started", "multi", "version"} =>
         req[q].op \in {"Upsert", "Snapshot"} /\ req[q].arg.d \in TextDocuments
    /\ req[q].stage = "multi" => CreatedRight(q, req[q].arg.d, req[q].got.created)
    /\ req[q].stage \in {"multi", "version"} => req[q].op = "Upsert"

TextInv ==
    /\ TextTypes /\ DOMAIN req = Requests
    /\ \A q \in Requests : TextRequestSound(q)
    /\ TextsKept

\* The content of q is kept, or why not.
Versioned(q) ==
    \/ q \in lost \cup replaced
    \/ At(q, "Upsert", "version")
    \/ \E v \in versions : v.content = {q}

\* TextsKept, document by document and request by request.
LEMMA TextsKeptEach ==
  ASSUME owed \subseteq Requests
  PROVE  TextsKept <=>
           /\ \A d \in TextDocuments : document[d].created \subseteq first[d]
           /\ documents = {d \in TextDocuments : document[d] # NoDocument}
           /\ \A q \in Requests : q \in owed /\ req[q].op \in {"Upsert", "Snapshot"} => Versioned(q)
BY DEF TextsKept, ContentsVersioned, CreatedKept, Versioned

\* The same of the next state.
LEMMA TextsKeptEachNext ==
  ASSUME owed' \subseteq Requests
  PROVE  TextsKept' <=>
           /\ \A d \in TextDocuments : document'[d].created \subseteq first'[d]
           /\ documents' = {d \in TextDocuments : document'[d] # NoDocument}
           /\ \A q \in Requests :
                 q \in owed' /\ req'[q].op \in {"Upsert", "Snapshot"} => Versioned(q)'
BY DEF TextsKept, ContentsVersioned, CreatedKept, Versioned

\* A request that another's step leaves alone stays sound, if documents stay
\* as they are, or q is one of the upserts under way when one came to be.
LEMMA TextOthersSound ==
  ASSUME NEW q \in Requests, TextRequestSound(q), NEW keys, KeepsUnder(q, keys),
         \A d \in TextDocuments :
            \/ UNCHANGED <<document[d], first[d]>>
            \/ /\ document[d] # NoDocument /\ document'[d] # NoDocument
               /\ first'[d] = first[d]
            \/ /\ document[d] = NoDocument /\ document'[d] # NoDocument
               /\ At(q, "Upsert", "multi") /\ req[q].arg.d = d => q \in first'[d]
  PROVE  TextRequestSound(q)'
<1>1. ASSUME req'[q].stage = "multi"
      PROVE  CreatedRight(q, req[q].arg.d, req[q].got.created)'
  <2>1. /\ req[q].stage = "multi" /\ req[q].arg.d \in TextDocuments
        /\ req'[q].arg = req[q].arg /\ req'[q].got = req[q].got
        /\ CreatedRight(q, req[q].arg.d, req[q].got.created)
    BY <1>1 DEF TextRequestSound, KeepsUnder
  <2>2. req[q].op = "Upsert"
    BY <2>1 DEF TextRequestSound
  <2>3. QED BY <2>1, <2>2 DEF CreatedRight, At
<1>2. QED BY <1>1 DEF TextRequestSound, KeepsUnder

\* A step that keeps documents and versions: r goes on, and if it has
\* committed its content, on to the ledger or along it.
LEMMA TextReadSound ==
  ASSUME TextInv, LedgerInv, LedgerInv', NEW r \in Requests, OthersKeepUnder(r, {}),
         UNCHANGED <<document, documents, versions, first, replaced>>,
         lost \subseteq lost', owed' = owed,
         TextRequestSound(r)',
         r \in owed => /\ req'[r].op = req[r].op
                       /\ At(r, "Upsert", "version") => r \in lost'
  PROVE  TextInv'
<1>1. TextTypes' /\ DOMAIN req' = Requests
  BY DEF TextInv, TextTypes, OthersKeepUnder
<1>2. ASSUME NEW q \in Requests \ {r} PROVE TextRequestSound(q)'
  BY <1>2, TextOthersSound DEF TextInv, OthersKeepUnder
<1>3. ASSUME NEW q \in Requests, q \in owed', req'[q].op \in {"Upsert", "Snapshot"}
      PROVE  Versioned(q)'
  <2>1. Versioned(q)
    BY <1>3, TextsKeptEach DEF TextInv, LedgerInv, LedgerTypes, OthersKeepUnder, KeepsUnder
  <2>2. q = r \/ (req'[q].op = req[q].op /\ req'[q].stage = req[q].stage)
    BY DEF OthersKeepUnder, KeepsUnder
  <2>3. QED BY <1>3, <2>1, <2>2 DEF Versioned, At
<1>4. owed \subseteq Requests /\ owed' \subseteq Requests
  BY DEF LedgerInv, LedgerTypes
<1>5. QED BY <1>1, <1>2, <1>3, <1>4, TextsKeptEach, TextsKeptEachNext DEF TextInv

\* An upsert of d is accepted, or a snapshot of it.
LEMMA TextRequestStep ==
  ASSUME TextInv, LedgerInv, NEW r \in Requests, TextRequest(r), UNCHANGED <<ledgerVars, textVars>>
  PROVE  TextInv' /\ LedgerInv'
<1>1. PICK d, op, arg :
        /\ d \in TextDocuments /\ op \in {"Upsert", "Snapshot"}
        /\ Start(r, op, arg) /\ arg.d = d
  BY DEF TextRequest, handleUpsertRichTextDocument, handleCreateVersionSnapshot
<1>2. /\ req[r].stage = "idle" /\ OthersKeepUnder(r, {})
      /\ req'[r].op = op /\ req'[r].stage = "started" /\ req'[r].arg = arg
  BY <1>1, StartStep DEF TextInv
<1>3. LedgerInv' /\ r \notin owed
  BY <1>2, LedgerQuiet DEF LedgerStages, LedgerInv, LedgerRequestSound
<1>4. TextRequestSound(r)'
  BY <1>1, <1>2 DEF TextRequestSound, LedgerStages
<1>5. QED BY <1>2, <1>3, <1>4, TextReadSound DEF textVars, ledgerVars

\* An upsert reads the creation time.
LEMMA ReadDocumentStep ==
  ASSUME TextInv, LedgerInv, NEW r \in Requests, ReadDocument(r)
  PROVE  TextInv' /\ LedgerInv'
<1> DEFINE got == CreatedOf(r)
<1>1. /\ At(r, "Upsert", "started") /\ UNCHANGED <<ledgerVars, textVars>>
      /\ req' = Advance(r, "multi", got)
  BY DEF ReadDocument
<1>2. req[r].arg.d \in TextDocuments
  BY <1>1 DEF At, TextInv, TextRequestSound
<1>3. CreatedRight(r, req[r].arg.d, got.created)
  BY <1>2, TextsKeptEach DEF CreatedRight, CreatedOf, TextInv, LedgerInv, LedgerTypes
<1> HIDE DEF got
<1>4. Becomes(r, "multi", req[r].arg, got) /\ OthersKeepUnder(r, {})
  BY <1>1, AdvanceStep DEF TextInv
<1>5. LedgerInv' /\ r \notin owed
  BY <1>1, <1>4, LedgerQuiet DEF LedgerStages, LedgerInv, LedgerRequestSound, At, Becomes
<1>6. TextRequestSound(r)'
  BY <1>1, <1>2, <1>3, <1>4 DEF TextRequestSound, CreatedRight, Becomes, At, textVars, LedgerStages
<1>7. QED BY <1>1, <1>4, <1>5, <1>6, TextReadSound DEF textVars, ledgerVars

\* An upsert writes the document. If it is the first, it has read that there
\* was none, and so have the other upserts that will write it by then.
LEMMA UpsertDocumentStep ==
  ASSUME TextInv, LedgerInv, NEW r \in Requests, UpsertRichTextDocument(r)
  PROVE  TextInv' /\ LedgerInv'
<1> DEFINE d == req[r].arg.d
           value == [content |-> {r}, created |-> req[r].got.created]
           under == {q \in Requests : At(q, "Upsert", "multi") /\ req[q].arg.d = d}
<1>1. /\ At(r, "Upsert", "multi") /\ Owes(r) /\ UNCHANGED <<versions, lost, replaced>>
      /\ document' = [document EXCEPT ![d] = value]
      /\ documents' = documents \cup {d}
      /\ first' = IF document[d] # NoDocument THEN first ELSE [first EXCEPT ![d] = under]
      /\ req' = Advance(r, "version", Nothing)
  BY DEF UpsertRichTextDocument
<1>2. /\ d \in TextDocuments /\ CreatedRight(r, d, req[r].got.created) /\ r \in under
  BY <1>1 DEF At, TextInv, TextRequestSound
<1>3. Becomes(r, "version", req[r].arg, Nothing) /\ OthersKeepUnder(r, {})
  BY <1>1, AdvanceStep DEF TextInv
<1>4. LedgerInv'
  BY <1>1, <1>3, LedgerCommits DEF At, Becomes, LedgerStages
<1>5. value # NoDocument
  BY DEF NoDocument
<1>6. /\ document' \in [TextDocuments -> [content : SUBSET Requests, created : SUBSET Requests]]
      /\ first' \in [TextDocuments -> SUBSET Requests]
      /\ document'[d] = value
      /\ \A e \in TextDocuments \ {d} : UNCHANGED <<document[e], first[e]>>
      /\ IF document[d] # NoDocument THEN first'[d] = first[d] ELSE first'[d] = under
  <2>1. value \in [content : SUBSET Requests, created : SUBSET Requests]
    BY <1>2 DEF CreatedRight, TextInv, TextTypes
  <2> HIDE DEF value, under
  <2>2. under \in SUBSET Requests
    BY DEF under
  <2>3. QED BY <1>1, <1>2, <2>1, <2>2 DEF TextInv, TextTypes
<1>7. document'[d].created \subseteq first'[d]
  BY <1>2, <1>6 DEF CreatedRight
<1> HIDE DEF value
<1>8. TextTypes' /\ DOMAIN req' = Requests
  BY <1>1, <1>2, <1>3, <1>6 DEF TextInv, TextTypes, OthersKeepUnder
<1>9. ASSUME NEW q \in Requests PROVE TextRequestSound(q)'
  <2>1. CASE q = r
    BY <1>1, <1>2, <1>3, <2>1 DEF TextRequestSound, Becomes, At, LedgerStages
  <2>2. CASE q # r
    <3>1. \A e \in TextDocuments :
            \/ UNCHANGED <<document[e], first[e]>>
            \/ /\ document[e] # NoDocument /\ document'[e] # NoDocument
               /\ first'[e] = first[e]
            \/ /\ document[e] = NoDocument /\ document'[e] # NoDocument
               /\ At(q, "Upsert", "multi") /\ req[q].arg.d = e => q \in first'[e]
      BY <1>5, <1>6
    <3>2. TextRequestSound(q) /\ KeepsUnder(q, {})
      BY <1>3, <2>2 DEF TextInv, OthersKeepUnder
    <3> HIDE DEF d, under
    <3>3. QED BY <3>1, <3>2, TextOthersSound
  <2>3. QED BY <2>1, <2>2
<1>10. owed \subseteq Requests /\ owed' = owed \cup {r}
  BY <1>1 DEF LedgerInv, LedgerTypes, Owes
<1>11. ASSUME NEW q \in Requests, q \in owed', req'[q].op \in {"Upsert", "Snapshot"}
       PROVE  Versioned(q)'
  <2>1. CASE q = r
    BY <1>1, <1>3, <2>1 DEF Versioned, At, Becomes
  <2>2. CASE q # r
    BY <1>1, <1>3, <1>10, <1>11, <2>2, TextsKeptEach
       DEF TextInv, Versioned, At, OthersKeepUnder, KeepsUnder
  <2>3. QED BY <2>1, <2>2
<1>12. \A e \in TextDocuments : document'[e].created \subseteq first'[e]
  BY <1>6, <1>7, <1>10, TextsKeptEach DEF TextInv
<1>13. documents' = {e \in TextDocuments : document'[e] # NoDocument}
  BY <1>1, <1>2, <1>5, <1>6, <1>10, TextsKeptEach DEF TextInv
<1>14. QED BY <1>4, <1>8, <1>9, <1>10, <1>11, <1>12, <1>13, TextsKeptEachNext DEF TextInv

\* A version is stored; the content of one it replaces is lost to a client.
LEMMA StoreVersionStep ==
  ASSUME TextInv, LedgerInv, NEW r \in Requests, CreateVersionSnapshot(r)
  PROVE  TextInv' /\ LedgerInv'
<1>1. PICK d, id :
        /\ \/ At(r, "Upsert", "version") /\ UNCHANGED ledgerVars
           \/ At(r, "Snapshot", "started") /\ Owes(r)
        /\ versions' = (versions \ {v \in versions : v.doc = d /\ v.id = id})
                          \cup {[doc |-> d, id |-> id, content |-> {r}]}
        /\ replaced' = replaced \cup UNION {v.content : v \in {v \in versions : v.doc = d /\ v.id = id}}
        /\ req' = Advance(r, "usage", [metric |-> TextMetric])
        /\ UNCHANGED <<document, documents, first, lost>>
  BY DEF CreateVersionSnapshot, SnapshotContent, Metered, Stored
<1>2. /\ Becomes(r, "usage", req[r].arg, [metric |-> TextMetric]) /\ OthersKeepUnder(r, {})
  BY <1>1, AdvanceStep DEF TextInv
<1>3. req'[r].stage = "usage" /\ req'[r].got.metric \in Metrics
  BY <1>2, TextAssumption DEF Becomes
<1>4. LedgerInv' /\ owed \subseteq owed' /\ owed' \subseteq owed \cup {r}
  <2>1. CASE At(r, "Upsert", "version") /\ UNCHANGED ledgerVars
    BY <1>2, <1>3, <2>1, LedgerOutside DEF ledgerVars, At, LedgerStages, LedgerInv, LedgerRequestSound
  <2>2. CASE At(r, "Snapshot", "started") /\ Owes(r)
    BY <1>2, <1>3, <2>2, LedgerCommits DEF At, LedgerStages, Owes
  <2>3. QED BY <1>1, <2>1, <2>2
<1>5. TextTypes' /\ DOMAIN req' = Requests
  BY <1>1, <1>2 DEF TextInv, TextTypes, OthersKeepUnder
<1>6. ASSUME NEW q \in Requests PROVE TextRequestSound(q)'
  <2>1. CASE q = r
    BY <1>3, <2>1 DEF TextRequestSound, LedgerStages
  <2>2. CASE q # r
    BY <1>1, <1>2, <2>2, TextOthersSound DEF TextInv, OthersKeepUnder
  <2>3. QED BY <2>1, <2>2
<1>7. \A v \in versions : v \in versions' \/ v.content \subseteq replaced'
  BY <1>1
<1>8. replaced \subseteq replaced' /\ \E v \in versions' : v.content = {r}
  <2>1. [doc |-> d, id |-> id, content |-> {r}] \in versions' /\ replaced \subseteq replaced'
    BY <1>1
  <2>2. [doc |-> d, id |-> id, content |-> {r}].content = {r}
    OBVIOUS
  <2>3. QED BY <2>1, <2>2
<1>9. ASSUME NEW q \in Requests, q \in owed', req'[q].op \in {"Upsert", "Snapshot"}
      PROVE  Versioned(q)'
  <2>1. CASE q = r
    BY <1>8, <2>1 DEF Versioned
  <2>2. CASE q # r
    <3>1. req'[q].op = req[q].op /\ req'[q].stage = req[q].stage /\ q \in owed
      BY <1>2, <1>4, <1>9, <2>2 DEF OthersKeepUnder, KeepsUnder
    <3>2. Versioned(q)
      BY <1>9, <3>1, TextsKeptEach DEF TextInv, LedgerInv, LedgerTypes
    <3>3. QED BY <1>1, <1>7, <1>8, <3>1, <3>2 DEF Versioned, At
  <2>3. QED BY <2>1, <2>2
<1>10. owed \subseteq Requests /\ owed' \subseteq Requests
  BY <1>4 DEF LedgerInv, LedgerTypes
<1>11. QED BY <1>1, <1>4, <1>5, <1>6, <1>9, <1>10, TextsKeptEach, TextsKeptEachNext DEF TextInv

\* The snapshot's call fails; the upsert goes on to be counted.
LEMMA SnapshotFailsStep ==
  ASSUME TextInv, LedgerInv, NEW r \in Requests, SnapshotCallFails(r)
  PROVE  TextInv' /\ LedgerInv'
<1>1. /\ At(r, "Upsert", "version") /\ lost' = lost \cup {r}
      /\ req' = Advance(r, "usage", [metric |-> TextMetric])
      /\ UNCHANGED <<ledgerVars, document, documents, versions, first, replaced>>
  BY DEF SnapshotCallFails, Metered
<1>2. Becomes(r, "usage", req[r].arg, [metric |-> TextMetric]) /\ OthersKeepUnder(r, {})
  BY <1>1, AdvanceStep DEF TextInv
<1>3. req'[r].stage = "usage" /\ req'[r].got.metric \in Metrics /\ req'[r].op = req[r].op
  BY <1>2, TextAssumption DEF Becomes
<1>4. LedgerInv'
  <2>1. r \in owed
    BY <1>1 DEF LedgerInv, LedgerRequestSound, At
  <2>2. QED BY <1>1, <1>2, <1>3, <2>1, LedgerOutside DEF ledgerVars, At, LedgerStages
<1>5. TextRequestSound(r)'
  BY <1>3 DEF TextRequestSound, LedgerStages
<1>6. QED BY <1>1, <1>2, <1>3, <1>4, <1>5, TextReadSound DEF ledgerVars

\* The ledger's steps and failed calls.
LEMMA TextRestStep ==
  ASSUME TextInv, LedgerInv, NEW r \in Requests, UNCHANGED textVars,
         \/ LedgerStep(r)
         \/ CallFails(r) /\ req[r].stage \in {"started", "multi"} /\ UNCHANGED ledgerVars
  PROVE  TextInv' /\ LedgerInv'
<1>1. CASE LedgerStep(r)
  <2>1. /\ req'[r].stage \in {"counted", "audit", "done"} /\ OthersKeepUnder(r, {})
        /\ req'[r].op = req[r].op /\ req[r].stage \in LedgerStages
    BY <1>1, LedgerStepMoves DEF TextInv
  <2>2. LedgerInv' /\ owed' = owed
    BY <1>1, LedgerStepSound DEF LedgerStep, recordUsage, IncrementUsage, StoreUsage,
       RecordAuditLog, LedgerCallFails, ledgerVars
  <2>3. TextRequestSound(r)'
    BY <2>1 DEF TextRequestSound, LedgerStages
  <2>4. QED BY <2>1, <2>2, <2>3, TextReadSound DEF textVars, At, LedgerStages
<1>2. CASE CallFails(r) /\ req[r].stage \in {"started", "multi"} /\ UNCHANGED ledgerVars
  <2>1. req'[r].stage = "done" /\ OthersKeepUnder(r, {})
    BY <1>2, RefusedStep DEF TextInv, Becomes
  <2>2. LedgerInv' /\ r \notin owed
    BY <1>2, <2>1, LedgerQuiet DEF LedgerStages, LedgerInv, LedgerRequestSound
  <2>3. TextRequestSound(r)'
    BY <2>1 DEF TextRequestSound
  <2>4. QED BY <1>2, <2>1, <2>2, <2>3, TextReadSound DEF textVars, ledgerVars
<1>3. QED BY <1>1, <1>2

\* The documents' and the ledger's invariants hold together.
LEMMA TextInvariant == TextSpec => [](TextInv /\ LedgerInv)
<1>1. ASSUME RequestInit, LedgerInit, TextInit
      PROVE  TextInv /\ LedgerInv
  <2>1. LedgerInv
    BY <1>1, LedgerInitSound
  <2>2. TextTypes /\ DOMAIN req = Requests
    BY <1>1 DEF TextInit, TextTypes, RequestInit, NoDocument
  <2>3. \A q \in Requests : TextRequestSound(q)
    BY <1>1 DEF TextRequestSound, RequestInit, Unused, RequestAt
  <2>4. TextsKept
    BY <1>1 DEF TextInit, LedgerInit, TextsKept, ContentsVersioned, CreatedKept, NoDocument
  <2>5. QED BY <2>1, <2>2, <2>3, <2>4 DEF TextInv
<1>2. ASSUME TextInv, LedgerInv, UNCHANGED <<requestVars, ledgerVars, textVars>>
      PROVE  TextInv' /\ LedgerInv'
  <2>1. TextTypes' /\ DOMAIN req' = Requests
    BY <1>2 DEF TextInv, TextTypes, textVars, requestVars
  <2>2. ASSUME NEW q \in Requests PROVE TextRequestSound(q)'
    BY <1>2 DEF TextInv, TextRequestSound, CreatedRight, textVars, requestVars
  <2>3. TextsKept'
    BY <1>2 DEF TextInv, TextsKept, ContentsVersioned, CreatedKept, At, textVars, requestVars, ledgerVars
  <2>4. LedgerInv'
    BY <1>2 DEF LedgerInv, LedgerTypes, LedgerRequestSound, LedgerComplete, UsageExact,
       AuditComplete, ledgerVars, requestVars
  <2>5. QED BY <2>1, <2>2, <2>3, <2>4 DEF TextInv
<1>3. TextInv /\ LedgerInv /\ TextNext => (TextInv /\ LedgerInv)'
  BY TextRequestStep, ReadDocumentStep, UpsertDocumentStep, StoreVersionStep, SnapshotFailsStep,
     TextRestStep DEF TextNext, ChangeCallFails
<1>4. TextInv /\ LedgerInv /\ [TextNext]_<<requestVars, ledgerVars, textVars>>
        => (TextInv /\ LedgerInv)'
  BY <1>2, <1>3
<1>5. QED BY <1>1, <1>4, PTL DEF TextSpec

\* However upserts of a document overlap, its history has every content it was
\* given, and it keeps the time it was created (handleUpsertRichTextDocument,
\* UpsertRichTextDocument, CreateVersionSnapshot).
THEOREM TextsWhole == TextSpec => []TextsKept
BY TextInvariant, PTL DEF TextInv

\* What is counted and audited of them is complete, too: a snapshot that
\* failed does not end the handler before.
THEOREM TextsAccounted == TextSpec => []LedgerComplete
BY TextInvariant, PTL DEF LedgerInv
-----------------------------------------------------------------------------
(* Presence the admin API sets.                                            *)

PresenceTypes ==
    /\ alive \subseteq given /\ ephemeral \subseteq given
    /\ joined \subseteq connected
    /\ lately \in [Requests -> SUBSET given]

Snapshots == {"started", "check", "purge"}

\* A snapshot under way has not missed an id that is alive, and shows nothing
\* but ids of connections, ids alive at some time since it began, and ids it
\* has still to look up; what it removes was given by the admin API.
PresenceRequestSound(q) ==
    /\ req[q].stage \in Snapshots \cup {"idle", "publish", "done"} \cup LedgerStages
    /\ req[q].stage \in Snapshots \cup {"publish"} => req[q].op \in {"SetPresence", "ActiveUsers"}
    /\ req[q].stage \in {"check", "purge"} => req[q].op = "ActiveUsers"
    /\ req[q].op = "ActiveUsers" /\ req[q].stage \in Snapshots => alive \subseteq lately[q]
    /\ req[q].stage \in {"check", "purge"} =>
         /\ req[q].got.todo \subseteq given
         /\ req[q].got.members \subseteq connected \cup lately[q] \cup req[q].got.todo
    /\ req[q].stage = "purge" => req[q].got.c \in given

PresenceInv ==
    /\ PresenceTypes /\ DOMAIN req = Requests
    /\ \A q \in Requests : PresenceRequestSound(q)
    /\ PresenceReachable /\ PresenceKept

\* Snapshots are fresh because of it.
LEMMA SnapshotsAreFresh ==
  ASSUME PresenceInv
  PROVE  PresenceExact
<1>1. SnapshotsFresh
  <2>1. ASSUME NEW r \in Requests, SnapshotDone(r), NEW c \in req[r].got.members
        PROVE  c \in connected \cup lately[r]
    BY <2>1 DEF PresenceInv, PresenceRequestSound, SnapshotDone, At
  <2>2. QED BY <2>1 DEF SnapshotsFresh
<1>2. QED BY <1>1 DEF PresenceInv, PresenceExact

\* A request that another's step leaves alone stays sound: what is given and
\* connected only grows, and so does what was alive since it began.
LEMMA PresenceOthersSound ==
  ASSUME NEW q \in Requests, PresenceRequestSound(q), NEW keys, KeepsUnder(q, keys),
         given \subseteq given', connected \subseteq connected',
         lately[q] \subseteq lately'[q],
         alive \subseteq lately[q] => alive' \subseteq lately'[q]
  PROVE  PresenceRequestSound(q)'
<1>1. /\ req'[q].stage = req[q].stage /\ req'[q].op = req[q].op /\ req'[q].got = req[q].got
  BY DEF KeepsUnder
<1>2. QED BY <1>1 DEF PresenceRequestSound

\* A step that only moves r on.
LEMMA PresenceReadSound ==
  ASSUME PresenceInv, NEW r \in Requests, OthersKeepUnder(r, {}), PresenceRequestSound(r)',
         lately' \in [Requests -> SUBSET given], \A q \in Requests \ {r} : lately'[q] = lately[q],
         UNCHANGED <<roomMembers, roomPresence, ephemeral, alive, joined, erased, given, connected,
                     unjoined>>
  PROVE  PresenceInv'
<1>1. PresenceTypes' /\ DOMAIN req' = Requests
  BY DEF PresenceInv, PresenceTypes, OthersKeepUnder
<1>2. ASSUME NEW q \in Requests \ {r} PROVE PresenceRequestSound(q)'
  BY <1>2, PresenceOthersSound DEF PresenceInv, OthersKeepUnder
<1>3. (PresenceReachable /\ PresenceKept)'
  BY DEF PresenceInv, PresenceReachable, PresenceKept, Doubled
<1>4. QED BY <1>1, <1>2, <1>3 DEF PresenceInv

\* Steps of connections, and the end of a time to live.
LEMMA PresenceConnectionStep ==
  ASSUME PresenceInv, NEW c \in Ids,
         JoinMember(c) \/ LeaveMember(c) \/ SetPresence(c) \/ ExpirePresence(c)
  PROVE  PresenceInv'
<1>1. UNCHANGED <<req, lately, given>>
  BY DEF JoinMember, LeaveMember, SetPresence, ExpirePresence, requestVars
<1>2. connected \subseteq connected' /\ alive' \subseteq alive
  BY DEF JoinMember, LeaveMember, SetPresence, ExpirePresence
<1>3. PresenceTypes' /\ DOMAIN req' = Requests
  BY <1>1 DEF PresenceInv, PresenceTypes, JoinMember, LeaveMember, SetPresence,
     ExpirePresence
<1>4. ASSUME NEW q \in Requests PROVE PresenceRequestSound(q)'
  BY <1>1, <1>2 DEF PresenceInv, PresenceRequestSound
<1>5. PresenceReachable'
  BY DEF PresenceInv, PresenceReachable, JoinMember, LeaveMember, SetPresence,
     ExpirePresence
<1>6. PresenceKept'
  <2>1. CASE JoinMember(c)
    BY <2>1 DEF PresenceInv, PresenceKept, Doubled, JoinMember
  <2>2. CASE LeaveMember(c)
    BY <2>2 DEF PresenceInv, PresenceTypes, PresenceKept, Doubled, LeaveMember
  <2>3. CASE ExpirePresence(c)
    BY <2>3 DEF PresenceInv, PresenceKept, Doubled, ExpirePresence
  <2>4. CASE SetPresence(c)
    BY <2>4 DEF PresenceInv, PresenceKept, Doubled, SetPresence
  <2>5. QED BY <2>1, <2>2, <2>3, <2>4
<1>7. QED BY <1>3, <1>4, <1>5, <1>6 DEF PresenceInv

\* A request is accepted; a snapshot begins with what is alive.
LEMMA PresenceRequestStep ==
  ASSUME PresenceInv, NEW r \in Requests,
         handleActiveUsers(r) \/ \E c \in Ids : handlePresence(r, c)
  PROVE  PresenceInv'
<1>1. CASE handleActiveUsers(r)
  <2>1. /\ Start(r, "ActiveUsers", Nothing) /\ lately' = [lately EXCEPT ![r] = alive]
        /\ UNCHANGED <<roomMembers, roomPresence, ephemeral, alive, joined, erased, given, connected,
                     unjoined>>
    BY <1>1 DEF handleActiveUsers
  <2>2. /\ req'[r].op = "ActiveUsers" /\ req'[r].stage = "started" /\ OthersKeepUnder(r, {})
    BY <2>1, StartStep DEF PresenceInv
  <2>3. /\ lately' \in [Requests -> SUBSET given] /\ lately'[r] = alive
        /\ \A q \in Requests \ {r} : lately'[q] = lately[q]
    BY <2>1 DEF PresenceInv, PresenceTypes
  <2>4. PresenceRequestSound(r)'
    BY <2>1, <2>2, <2>3 DEF PresenceRequestSound, Snapshots
  <2>5. QED BY <2>1, <2>2, <2>3, <2>4, PresenceReadSound
<1>2. ASSUME NEW c \in Ids, handlePresence(r, c) PROVE PresenceInv'
  <2>1. Start(r, "SetPresence", [c |-> c]) /\ UNCHANGED presenceVars
    BY <1>2 DEF handlePresence
  <2>2. /\ req'[r].op = "SetPresence" /\ req'[r].stage = "started" /\ OthersKeepUnder(r, {})
    BY <2>1, StartStep DEF PresenceInv
  <2>3. PresenceRequestSound(r)'
    BY <2>2 DEF PresenceRequestSound, Snapshots
  <2>4. QED BY <2>1, <2>2, <2>3, PresenceReadSound DEF presenceVars, PresenceInv, PresenceTypes
<1>3. QED BY <1>1, <1>2

\* A presence is set: the id is alive for every snapshot under way.
LEMMA SetPresenceStep ==
  ASSUME PresenceInv, NEW r \in Requests, SetPresenceOfRequest(r)
  PROVE  PresenceInv'
<1> DEFINE c == req[r].arg.c
<1>1. /\ At(r, "SetPresence", "started") /\ req' = Advance(r, "publish", Nothing)
      /\ roomMembers' = roomMembers \cup {c} /\ roomPresence' = roomPresence \cup {c}
      /\ ephemeral' = ephemeral \cup {c} /\ alive' = alive \cup {c}
      /\ lately' = [q \in Requests |-> lately[q] \cup {c}]
      /\ erased' = erased \ {c} /\ given' = given \cup {c}
      /\ UNCHANGED <<joined, connected, unjoined>>
  BY DEF SetPresenceOfRequest, SetEphemeralPresence
<1>2. Becomes(r, "publish", req[r].arg, Nothing) /\ OthersKeepUnder(r, {})
  BY <1>1, AdvanceStep DEF PresenceInv
<1> HIDE DEF c
<1>3. PresenceTypes' /\ DOMAIN req' = Requests
  BY <1>1, <1>2 DEF PresenceInv, PresenceTypes, OthersKeepUnder
<1>4. PresenceRequestSound(r)'
  BY <1>1, <1>2 DEF PresenceRequestSound, Becomes, At, Snapshots
<1>5. ASSUME NEW q \in Requests \ {r} PROVE PresenceRequestSound(q)'
  BY <1>1, <1>2, <1>5, PresenceOthersSound DEF PresenceInv, OthersKeepUnder
<1>6. (PresenceReachable /\ PresenceKept)'
  BY <1>1 DEF PresenceInv, PresenceReachable, PresenceKept, Doubled
<1>7. QED BY <1>3, <1>4, <1>5, <1>6 DEF PresenceInv

\* The members are read with the ephemeral ids: every other one is a
\* connection's.
LEMMA ReadRoomStep ==
  ASSUME PresenceInv, NEW r \in Requests, ReadRoom(r)
  PROVE  PresenceInv'
<1> DEFINE got == [members |-> roomMembers, todo |-> ephemeral]
<1>1. At(r, "ActiveUsers", "started") /\ req' = Advance(r, "check", got) /\ UNCHANGED presenceVars
  BY DEF ReadRoom
<1>2. got.todo \subseteq given /\ got.members \subseteq connected \cup got.todo
  BY DEF PresenceInv, PresenceReachable, PresenceTypes
<1> HIDE DEF got
<1>3. Becomes(r, "check", req[r].arg, got) /\ OthersKeepUnder(r, {})
  BY <1>1, AdvanceStep DEF PresenceInv
<1>4. alive \subseteq lately[r]
  BY <1>1 DEF PresenceInv, PresenceRequestSound, At, Snapshots
<1>5. PresenceRequestSound(r)'
  BY <1>1, <1>2, <1>3, <1>4 DEF PresenceRequestSound, Becomes, At, Snapshots, presenceVars
<1>6. QED BY <1>1, <1>3, <1>5, PresenceReadSound DEF presenceVars, PresenceInv, PresenceTypes

\* An id is looked up: it is alive, and so was lately, or it is left out.
LEMMA CheckAliveStep ==
  ASSUME PresenceInv, NEW r \in Requests, NEW c \in Ids, CheckAlive(r, c)
  PROVE  PresenceInv'
<1> DEFINE todo == req[r].got.todo \ {c}
           gone == [members |-> req[r].got.members \ {c}, todo |-> todo, c |-> c]
           there == [members |-> req[r].got.members, todo |-> todo]
<1>1. /\ At(r, "ActiveUsers", "check") /\ c \in req[r].got.todo /\ UNCHANGED presenceVars
      /\ \/ req' = Advance(r, "purge", gone)
         \/ c \in alive /\ req' = Advance(r, "check", there)
  BY DEF CheckAlive, IsGone
<1>2. /\ alive \subseteq lately[r] /\ req[r].got.todo \subseteq given
      /\ req[r].got.members \subseteq connected \cup lately[r] \cup req[r].got.todo
  BY <1>1 DEF PresenceInv, PresenceRequestSound, At, Snapshots
<1>3. CASE req' = Advance(r, "purge", gone)
  <2>1. /\ gone.todo \subseteq given /\ gone.c \in given
        /\ gone.members \subseteq connected \cup lately[r] \cup gone.todo
    BY <1>1, <1>2
  <2> HIDE DEF gone
  <2>2. Becomes(r, "purge", req[r].arg, gone) /\ OthersKeepUnder(r, {})
    BY <1>3, AdvanceStep DEF PresenceInv
  <2>3. PresenceRequestSound(r)'
    BY <1>1, <1>2, <2>1, <2>2 DEF PresenceRequestSound, Becomes, At, Snapshots, presenceVars
  <2>4. QED BY <1>1, <2>2, <2>3, PresenceReadSound DEF presenceVars, PresenceInv, PresenceTypes
<1>4. CASE c \in alive /\ req' = Advance(r, "check", there)
  <2>1. /\ there.todo \subseteq given
        /\ there.members \subseteq connected \cup lately[r] \cup there.todo
    BY <1>1, <1>2, <1>4
  <2> HIDE DEF there
  <2>2. Becomes(r, "check", req[r].arg, there) /\ OthersKeepUnder(r, {})
    BY <1>4, AdvanceStep DEF PresenceInv
  <2>3. PresenceRequestSound(r)'
    BY <1>1, <1>2, <2>1, <2>2 DEF PresenceRequestSound, Becomes, At, Snapshots, presenceVars
  <2>4. QED BY <1>1, <2>2, <2>3, PresenceReadSound DEF presenceVars, PresenceInv, PresenceTypes
<1>5. QED BY <1>1, <1>3, <1>4

\* A snapshot goes on after a removal, or after one that failed.
LEMMA AfterPurgeSound ==
  ASSUME PresenceInv, NEW r \in Requests, At(r, "ActiveUsers", "purge"),
         req' = Advance(r, "check", [members |-> req[r].got.members, todo |-> req[r].got.todo]),
         UNCHANGED <<alive, lately, given, connected>>
  PROVE  PresenceRequestSound(r)' /\ OthersKeepUnder(r, {})
<1> DEFINE got == [members |-> req[r].got.members, todo |-> req[r].got.todo]
<1>1. got.members = req[r].got.members /\ got.todo = req[r].got.todo
  OBVIOUS
<1>2. req' = Advance(r, "check", got)
  OBVIOUS
<1> HIDE DEF got
<1>3. Becomes(r, "check", req[r].arg, got) /\ OthersKeepUnder(r, {})
  BY <1>2, AdvanceStep DEF PresenceInv
<1>4. PresenceRequestSound(r)
  BY DEF PresenceInv
<1>5. QED BY <1>1, <1>3, <1>4 DEF PresenceRequestSound, Becomes, At, Snapshots

\* An expired id is removed, or one that has been set again since.
LEMMA PurgeStep ==
  ASSUME PresenceInv, NEW r \in Requests, Purge(r)
  PROVE  PresenceInv'
<1> DEFINE c == req[r].got.c
<1>1. /\ At(r, "ActiveUsers", "purge")
      /\ roomMembers' = roomMembers \ {c} /\ roomPresence' = roomPresence \ {c}
      /\ ephemeral' = ephemeral \ {c} /\ erased' = erased \cup ({c} \cap alive)
      /\ unjoined' = unjoined \ {c}
      /\ req' = Advance(r, "check", [members |-> req[r].got.members, todo |-> req[r].got.todo])
      /\ UNCHANGED <<alive, joined, lately, given, connected>>
  BY DEF Purge
<1>2. PresenceRequestSound(r)' /\ OthersKeepUnder(r, {})
  BY <1>1, AfterPurgeSound
<1>3. c \in given
  BY <1>1 DEF PresenceInv, PresenceRequestSound, At
<1> HIDE DEF c
<1>4. PresenceTypes' /\ DOMAIN req' = Requests
  BY <1>1, <1>2 DEF PresenceInv, PresenceTypes, OthersKeepUnder
<1>5. ASSUME NEW q \in Requests \ {r} PROVE PresenceRequestSound(q)'
  BY <1>1, <1>2, <1>5, PresenceOthersSound DEF PresenceInv, OthersKeepUnder
<1>6. PresenceReachable'
  BY <1>1 DEF PresenceInv, PresenceReachable
<1>7. PresenceKept'
  BY <1>1, <1>3 DEF PresenceInv, PresenceTypes, PresenceKept, Doubled
<1>8. QED BY <1>2, <1>4, <1>5, <1>6, <1>7 DEF PresenceInv

\* The other steps move a request on.
LEMMA PresenceRestStep ==
  ASSUME PresenceInv, NEW r \in Requests,
         \/ PublishOfRequest(r) \/ PurgeFails(r) \/ ActiveUsers(r)
         \/ (LedgerStep(r) \/ CallFails(r)) /\ UNCHANGED presenceVars
  PROVE  PresenceInv'
<1>1. CASE PurgeFails(r)
  <2>1. /\ At(r, "ActiveUsers", "purge") /\ UNCHANGED presenceVars
        /\ req' = Advance(r, "check", [members |-> req[r].got.members, todo |-> req[r].got.todo])
    BY <1>1 DEF PurgeFails
  <2>2. PresenceRequestSound(r)' /\ OthersKeepUnder(r, {})
    BY <2>1, AfterPurgeSound DEF presenceVars
  <2>3. QED BY <2>1, <2>2, PresenceReadSound DEF presenceVars, PresenceInv, PresenceTypes
<1>2. CASE ~PurgeFails(r)
  <2>1. UNCHANGED presenceVars
    BY <1>2 DEF PublishOfRequest, ActiveUsers
  <2>2. /\ OthersKeepUnder(r, {}) /\ req'[r].stage \in {"usage", "counted", "audit", "done"}
    <3>1. CASE PublishOfRequest(r)
      BY <3>1, AdvanceStep DEF PublishOfRequest, Metered, Becomes, PresenceInv
    <3>2. CASE ActiveUsers(r)
      BY <3>2, FinishedStep DEF ActiveUsers, Becomes, PresenceInv
    <3>3. CASE LedgerStep(r) \/ CallFails(r)
      BY <3>3, LedgerStepMoves, RefusedStep DEF Becomes, PresenceInv
    <3>4. QED BY <1>2, <3>1, <3>2, <3>3
  <2>3. PresenceRequestSound(r)'
    BY <2>2 DEF PresenceRequestSound, Snapshots, LedgerStages
  <2>4. QED BY <2>1, <2>2, <2>3, PresenceReadSound DEF presenceVars, PresenceInv, PresenceTypes
<1>3. QED BY <1>1, <1>2

\* Every step keeps the ledger's invariant.
LEMMA PresenceLedgerStep ==
  ASSUME PresenceInv, LedgerInv, PresenceNext
  PROVE  LedgerInv'
<1>1. ASSUME UNCHANGED <<requestVars, ledgerVars>> PROVE LedgerInv'
  BY <1>1 DEF LedgerInv, LedgerTypes, LedgerRequestSound, LedgerComplete, UsageExact,
     AuditComplete, ledgerVars, requestVars
<1>2. ASSUME NEW r \in Requests, handleActiveUsers(r) \/ \E c \in Ids : handlePresence(r, c)
      PROVE  LedgerInv'
  <2>1. (\E op, arg : Start(r, op, arg)) /\ UNCHANGED ledgerVars
    BY <1>2 DEF handleActiveUsers, handlePresence
  <2>2. QED BY <2>1, StartStep, LedgerQuiet DEF LedgerInv, LedgerStages
<1>3. ASSUME NEW r \in Requests, NEW stage \in {"publish", "check", "purge"}, NEW got,
             req' = Advance(r, stage, got), UNCHANGED ledgerVars,
             req[r].stage \in Snapshots
      PROVE  LedgerInv'
  BY <1>3, AdvanceStep, LedgerQuiet DEF LedgerInv, LedgerStages, Becomes, Snapshots
<1>4. ASSUME NEW r \in Requests,
             \/ SetPresenceOfRequest(r) \/ ReadRoom(r) \/ Purge(r) \/ PurgeFails(r)
             \/ \E c \in Ids : CheckAlive(r, c)
      PROVE  LedgerInv'
  <2>1. req[r].stage \in Snapshots /\ UNCHANGED ledgerVars
    BY <1>4 DEF SetPresenceOfRequest, ReadRoom, Purge, PurgeFails, CheckAlive, At, Snapshots
  <2>2. \E stage \in {"publish", "check", "purge"} : \E got : req' = Advance(r, stage, got)
    <3>1. CASE SetPresenceOfRequest(r)
      BY <3>1 DEF SetPresenceOfRequest
    <3>2. CASE ReadRoom(r)
      BY <3>2 DEF ReadRoom
    <3>3. CASE Purge(r) \/ PurgeFails(r)
      BY <3>3 DEF Purge, PurgeFails
    <3>4. ASSUME NEW c \in Ids, CheckAlive(r, c)
          PROVE  \E stage \in {"publish", "check", "purge"} : \E got : req' = Advance(r, stage, got)
      BY <3>4 DEF CheckAlive
    <3>5. QED BY <1>4, <3>1, <3>2, <3>3, <3>4
  <2>3. QED BY <1>3, <2>1, <2>2
<1>5. ASSUME NEW r \in Requests, PublishOfRequest(r) PROVE LedgerInv'
  <2>1. At(r, "SetPresence", "publish") /\ Owes(r)
        /\ req' = Advance(r, "usage", [metric |-> PresenceMetric])
    BY <1>5 DEF PublishOfRequest, Metered
  <2>2. /\ Becomes(r, "usage", req[r].arg, [metric |-> PresenceMetric]) /\ OthersKeepUnder(r, {})
    BY <2>1, AdvanceStep DEF LedgerInv
  <2>3. req'[r].stage = "usage" /\ req'[r].got.metric \in Metrics
    BY <2>2, PresenceAssumption DEF Becomes
  <2>4. QED BY <2>1, <2>2, <2>3, LedgerCommits DEF At, LedgerStages
<1>6. ASSUME NEW r \in Requests, ActiveUsers(r) PROVE LedgerInv'
  BY <1>6, FinishedStep, LedgerQuiet DEF ActiveUsers, SnapshotDone, At, Becomes, LedgerInv, LedgerStages
<1>7. ASSUME NEW r \in Requests, ChangeCallFails(r, {"started", "publish", "check"})
      PROVE  LedgerInv'
  BY <1>7, LedgerRefused DEF ChangeCallFails, LedgerStages
<1>8. ASSUME NEW c \in Ids,
             JoinMember(c) \/ LeaveMember(c) \/ SetPresence(c) \/ ExpirePresence(c)
      PROVE  LedgerInv'
  BY <1>1, <1>8 DEF JoinMember, LeaveMember, SetPresence, ExpirePresence
<1>9. QED
  BY <1>2, <1>4, <1>5, <1>6, <1>7, <1>8, LedgerStepSound DEF PresenceNext

\* The room's and the ledger's invariants hold together.
LEMMA PresenceInvariant == PresenceSpec => [](PresenceInv /\ LedgerInv)
<1>1. ASSUME RequestInit, NEW old \in SUBSET Ids, PresenceInit(old) PROVE PresenceInv
  <2>1. PresenceTypes /\ DOMAIN req = Requests
    BY <1>1 DEF PresenceInit, PresenceTypes, RequestInit
  <2>2. \A q \in Requests : PresenceRequestSound(q)
    BY <1>1 DEF PresenceRequestSound, RequestInit, Unused, RequestAt, Snapshots
  <2>3. PresenceReachable /\ PresenceKept
    BY <1>1 DEF PresenceInit, PresenceReachable, PresenceKept
  <2>4. QED BY <2>1, <2>2, <2>3 DEF PresenceInv
<1>2. RequestInit /\ LedgerInit /\ (\E old \in SUBSET Ids : PresenceInit(old))
        => PresenceInv /\ LedgerInv
  BY <1>1, LedgerInitSound
<1>3. ASSUME PresenceInv, LedgerInv, UNCHANGED <<requestVars, ledgerVars, presenceVars>>
      PROVE  PresenceInv' /\ LedgerInv'
  <2>1. PresenceTypes' /\ DOMAIN req' = Requests
    BY <1>3 DEF PresenceInv, PresenceTypes, presenceVars, requestVars
  <2>2. ASSUME NEW q \in Requests PROVE PresenceRequestSound(q)'
    BY <1>3 DEF PresenceInv, PresenceRequestSound, presenceVars, requestVars
  <2>3. (PresenceReachable /\ PresenceKept)'
    BY <1>3 DEF PresenceInv, PresenceReachable, PresenceKept, Doubled, presenceVars
  <2>4. LedgerInv'
    BY <1>3 DEF LedgerInv, LedgerTypes, LedgerRequestSound, LedgerComplete, UsageExact,
       AuditComplete, ledgerVars, requestVars
  <2>5. QED BY <2>1, <2>2, <2>3, <2>4 DEF PresenceInv
<1>4. PresenceInv /\ PresenceNext => PresenceInv'
  BY PresenceConnectionStep, PresenceRequestStep, SetPresenceStep, ReadRoomStep, CheckAliveStep,
     PurgeStep, PresenceRestStep DEF PresenceNext, ChangeCallFails
<1>5. PresenceInv /\ LedgerInv /\ [PresenceNext]_<<requestVars, ledgerVars, presenceVars>>
        => (PresenceInv /\ LedgerInv)'
  BY <1>3, <1>4, PresenceLedgerStep
<1>6. QED BY <1>2, <1>5, PTL DEF PresenceSpec

\* Presence set through the admin API is in the room while it lives, whatever
\* snapshots remove meanwhile, no snapshot shows one that had expired when it
\* was asked for, and nothing stays that neither a leave nor a snapshot would
\* find, but what connections set without joining (SnapshotRoom,
\* SetEphemeralPresence, handlePresence).
THEOREM PresenceIsExact == PresenceSpec => []PresenceExact
BY PresenceInvariant, SnapshotsAreFresh, PTL

\* A presence that was set and published is counted and audited.
THEOREM PresenceAccounted == PresenceSpec => []LedgerComplete
BY PresenceInvariant, PTL DEF LedgerInv
-----------------------------------------------------------------------------
(* Inbox notifications.                                                    *)

InboxTypes ==
    /\ record \in [Notifications -> [user : SUBSET Owners, read : BOOLEAN]]
    /\ \A i \in Notifications : record[i] = NoRecord \/ \E u \in Owners : Belongs(i, u)
    /\ inbox \in [Owners -> SUBSET Notifications]
    /\ unread \in [Owners -> SUBSET Notifications]

InboxArguments(q) ==
    LET arg == req[q].arg IN
    /\ req[q].op \in InboxOps
    /\ req[q].op # "DeleteAll" => arg.i \in Notifications
    /\ req[q].op # "MarkRead" => arg.u \in Owners

\* The delta that q is about to publish tells what the store holds, of every
\* notification that was not changed again or torn apart since.
DeltaRight(q) ==
    LET d == req[q].got IN
    /\ d.u \in Owners /\ d.ids \subseteq Notifications
    /\ \A i \in d.ids : <<d.u, i>> \notin d.over \cup strays => d.shade = Shown(d.u, i)

InboxStages == {"idle", "started", "loaded", "exec", "multi", "publish", "done"}

InboxRequestSound(q) ==
    /\ req[q].stage \in InboxStages
    /\ req[q].stage \notin {"idle", "done"} => InboxArguments(q)
    /\ req[q].stage = "exec" =>
         /\ req[q].op \in {"Trigger", "MarkRead"}
         /\ req[q].watched = {NotificationKey(req[q].arg.i)}
         /\ ~req[q].stale =>
              IF req[q].op = "Trigger" THEN record[req[q].arg.i] = NoRecord
              ELSE /\ req[q].got = record[req[q].arg.i] /\ record[req[q].arg.i] # NoRecord
                   /\ ~record[req[q].arg.i].read
    /\ req[q].stage = "multi" /\ req[q].op = "DeleteAll" => req[q].got.ids \subseteq Notifications
    /\ req[q].stage = "publish" => DeltaRight(q)

InboxInv ==
    /\ InboxTypes /\ DOMAIN req = Requests
    /\ \A q \in Requests : InboxRequestSound(q)
    /\ InboxIndexed /\ DeltasAgree

\* InboxIndexed and DeltasAgree, pair by pair.
PairIndexed(u, i) ==
    <<u, i>> \notin strays =>
        /\ i \in inbox[u] <=> Belongs(i, u)
        /\ i \in unread[u] <=> Belongs(i, u) /\ ~record[i].read

Underway(u, i) ==
    \E r \in Requests : /\ req[r].op \in InboxOps /\ req[r].stage = "publish"
                        /\ u = req[r].got.u /\ i \in req[r].got.ids

Settled(s, i) ==
    \/ <<Subject[s], i>> \in strays \cup outdated
    \/ <<s, i>> \in missed
    \/ Underway(Subject[s], i)
    \/ view[s][i] = Shown(Subject[s], i)

\* InboxIndexed, pair by pair.
LEMMA PairIndexedEach == InboxIndexed <=> \A u \in Owners, i \in Notifications : PairIndexed(u, i)
BY DEF InboxIndexed, PairIndexed

\* The same of the next state.
LEMMA PairIndexedEachNext ==
  InboxIndexed' <=> \A u \in Owners, i \in Notifications : PairIndexed(u, i)'
BY DEF InboxIndexed, PairIndexed, Belongs

\* DeltasAgree, socket by socket and notification by notification.
LEMMA SettledEach == DeltasAgree <=> \A s \in Sockets, i \in Notifications : Settled(s, i)
BY DEF DeltasAgree, Settled, Underway, Concerns

\* The same of the next state.
LEMMA SettledEachNext ==
  DeltasAgree' <=> \A s \in Sockets, i \in Notifications : Settled(s, i)'
BY DEF DeltasAgree, Settled, Underway, Concerns, Shown, Belongs

\* A user that is chosen as the only one of a set is that one.
LEMMA OnlyOwner ==
  ASSUME NEW u \in Owners, NEW S, S = {u}
  PROVE  (CHOOSE o \in Owners : S = {o}) = u
BY Zenon

\* A change is committed: r is about to publish it, and every other delta that
\* is still to be published knows which of its notifications it is about.
Overtakes(q, pairs) ==
    /\ req'[q].op = req[q].op /\ req'[q].stage = "publish" /\ req'[q].arg = req[q].arg
    /\ req'[q].got.u = req[q].got.u /\ req'[q].got.ids = req[q].got.ids
    /\ req'[q].got.shade = req[q].got.shade
    /\ \A i \in req[q].got.ids :
          <<req[q].got.u, i>> \in req[q].got.over \/ <<req[q].got.u, i>> \in pairs =>
              <<req[q].got.u, i>> \in req'[q].got.over

\* What a committed change does to the requests.
LEMMA CommittedStep ==
  ASSUME DOMAIN req = Requests, NEW r \in Requests, NEW keys, NEW delta,
         req[r].stage # "publish", req' = Committed(r, keys, delta)
  PROVE  /\ Becomes(r, "publish", req[r].arg, delta) /\ DOMAIN req' = Requests
         /\ \A q \in Requests \ {r} :
               IF req[q].stage = "publish" THEN Overtakes(q, Concerns(delta))
               ELSE KeepsUnder(q, keys)
<1> DEFINE pairs == Concerns(delta)
           others == Overtaken(req, pairs)
           ready == [others EXCEPT ![r] = RequestAt(req[r].op, "publish", req[r].arg, delta)]
<1>1. req' = Written(ready, keys)
  BY DEF Committed
<1>2. \A q \in Requests : others[q] =
        IF req[q].stage = "publish"
        THEN RequestAt(req[q].op, "publish", req[q].arg,
                [u |-> req[q].got.u, ids |-> req[q].got.ids, shade |-> req[q].got.shade,
                 over |-> req[q].got.over \cup (Concerns(req[q].got) \cap pairs)])
        ELSE req[q]
  BY DEF Overtaken
<1>3. DOMAIN others = Requests
  BY DEF Overtaken
<1> HIDE DEF others
<1>4. /\ ready[r] = RequestAt(req[r].op, "publish", req[r].arg, delta)
      /\ \A q \in Requests \ {r} : ready[q] = others[q]
  BY <1>3
<1> HIDE DEF ready, pairs
<1>5. ASSUME NEW q \in Requests
      PROVE  /\ req'[q].op = ready[q].op /\ req'[q].stage = ready[q].stage
             /\ req'[q].arg = ready[q].arg /\ req'[q].got = ready[q].got
             /\ req'[q].watched = ready[q].watched
             /\ ~req'[q].stale <=> ~ready[q].stale /\ ready[q].watched \cap keys = {}
  BY <1>1, WrittenStep
<1>6. DOMAIN req' = Requests
  BY <1>1 DEF Written
<1>7. Becomes(r, "publish", req[r].arg, delta)
  <2>1. ~ready[r].stale /\ ready[r].watched = {}
    BY <1>4 DEF RequestAt
  <2>2. QED BY <1>4, <1>5, <2>1 DEF Becomes, RequestAt
<1>8. ASSUME NEW q \in Requests \ {r}, req[q].stage = "publish"
      PROVE  Overtakes(q, pairs)
  <2> DEFINE got == [u |-> req[q].got.u, ids |-> req[q].got.ids, shade |-> req[q].got.shade,
                     over |-> req[q].got.over \cup (Concerns(req[q].got) \cap pairs)]
  <2>1. ready[q] = RequestAt(req[q].op, "publish", req[q].arg, got)
    BY <1>2, <1>4, <1>8
  <2>2. /\ got.u = req[q].got.u /\ got.ids = req[q].got.ids /\ got.shade = req[q].got.shade
        /\ \A i \in req[q].got.ids :
              <<req[q].got.u, i>> \in req[q].got.over \/ <<req[q].got.u, i>> \in pairs =>
                  <<req[q].got.u, i>> \in got.over
    BY DEF Concerns
  <2> HIDE DEF got
  <2>3. /\ req'[q].op = req[q].op /\ req'[q].stage = "publish" /\ req'[q].arg = req[q].arg
        /\ req'[q].got = got
    BY <1>5, <2>1 DEF RequestAt
  <2>4. QED BY <2>2, <2>3 DEF Overtakes
<1>9. ASSUME NEW q \in Requests \ {r}, req[q].stage # "publish"
      PROVE  KeepsUnder(q, keys)
  <2>1. ready[q] = req[q]
    BY <1>2, <1>4, <1>9
  <2>2. QED BY <1>5, <2>1 DEF KeepsUnder
<1>10. QED BY <1>6, <1>7, <1>8, <1>9 DEF pairs

\* A request that another's commit leaves alone stays sound.
LEMMA InboxOthersSound ==
  ASSUME NEW q \in Requests, InboxRequestSound(q), NEW keys, NEW pairs,
         IF req[q].stage = "publish" THEN Overtakes(q, pairs) ELSE KeepsUnder(q, keys),
         strays \subseteq strays',
         \A i \in Notifications : NotificationKey(i) \notin keys => record'[i] = record[i],
         \A u \in Owners, i \in Notifications :
             <<u, i>> \in pairs \cup strays' \/ Shown(u, i)' = Shown(u, i)
  PROVE  InboxRequestSound(q)'
<1>1. CASE req[q].stage = "publish"
  <2>1. Overtakes(q, pairs) /\ DeltaRight(q) /\ InboxArguments(q)
    BY <1>1 DEF InboxRequestSound
  <2>2. DeltaRight(q)'
    <3>1. req'[q].got.u \in Owners /\ req'[q].got.ids \subseteq Notifications
      BY <2>1 DEF DeltaRight, Overtakes
    <3>2. ASSUME NEW i \in req'[q].got.ids, <<req'[q].got.u, i>> \notin req'[q].got.over \cup strays'
          PROVE  req'[q].got.shade = Shown(req[q].got.u, i)'
      BY <2>1, <3>2 DEF DeltaRight, Overtakes
    <3>3. QED BY <2>1, <3>1, <3>2 DEF DeltaRight, Overtakes, Shown, Belongs
  <2>3. InboxArguments(q)'
    BY <2>1 DEF InboxArguments, Overtakes
  <2>4. QED BY <1>1, <2>1, <2>2, <2>3 DEF InboxRequestSound, Overtakes, InboxStages
<1>2. CASE req[q].stage # "publish"
  <2>1. KeepsUnder(q, keys)
    BY <1>2
  <2>2. req'[q].stage \notin {"idle", "done"} => InboxArguments(q)'
    BY <2>1 DEF InboxRequestSound, InboxArguments, KeepsUnder
  <2>3. ASSUME req'[q].stage = "exec"
        PROVE  /\ req'[q].watched = {NotificationKey(req'[q].arg.i)}
               /\ ~req'[q].stale => record'[req'[q].arg.i] = record[req[q].arg.i] /\ ~req[q].stale
    <3>1. /\ req[q].stage = "exec" /\ req[q].arg.i \in Notifications
          /\ req[q].watched = {NotificationKey(req[q].arg.i)} /\ req'[q].arg = req[q].arg
      BY <2>1, <2>3 DEF InboxRequestSound, InboxArguments, KeepsUnder
    <3>2. QED BY <2>1, <3>1 DEF KeepsUnder
  <2>4. QED BY <1>2, <2>1, <2>2, <2>3 DEF InboxRequestSound, KeepsUnder
<1>3. QED BY <1>1, <1>2

\* A delta on its way stays so, but for that of r.
LEMMA UnderwayStays ==
  ASSUME NEW r \in Requests, NEW u, NEW i, Underway(u, i),
         \A q \in Requests \ {r} : req[q].stage = "publish" =>
            /\ req'[q].op = req[q].op /\ req'[q].stage = "publish"
            /\ req'[q].got.u = req[q].got.u /\ req'[q].got.ids = req[q].got.ids,
         req[r].stage # "publish"
  PROVE  Underway(u, i)'
BY DEF Underway

\* A change of ids of u is committed.
LEMMA CommitSound ==
  ASSUME InboxInv, NEW r \in Requests, NEW keys, NEW u \in Owners,
         NEW ids \in SUBSET Notifications, NEW shade,
         req' = Committed(r, keys, Delta(u, ids, shade)),
         req[r].stage \in {"exec", "multi"}, req[r].op \in InboxOps,
         InboxTypes', strays \subseteq strays', UNCHANGED <<view, outdated, missed>>,
         \A i \in Notifications : NotificationKey(i) \notin keys => record'[i] = record[i],
         \A v \in Owners, i \in Notifications : PairIndexed(v, i)',
         \A v \in Owners, i \in Notifications :
             \/ v = u /\ i \in ids
             \/ <<v, i>> \in strays'
             \/ Shown(v, i)' = Shown(v, i),
         \A i \in ids : <<u, i>> \in strays' \/ shade = Shown(u, i)'
  PROVE  InboxInv'
<1> DEFINE delta == Delta(u, ids, shade)
<1>1. /\ delta.u = u /\ delta.ids = ids /\ delta.shade = shade /\ delta.over = {}
      /\ \A v, i : <<v, i>> \in Concerns(delta) <=> v = u /\ i \in ids
  BY DEF Delta, Concerns
<1>2. req' = Committed(r, keys, delta)
  OBVIOUS
<1> HIDE DEF delta
<1>3. /\ Becomes(r, "publish", req[r].arg, delta) /\ DOMAIN req' = Requests
      /\ \A q \in Requests \ {r} :
            IF req[q].stage = "publish" THEN Overtakes(q, Concerns(delta))
            ELSE KeepsUnder(q, keys)
  BY <1>2, CommittedStep DEF InboxInv
<1>4. ASSUME NEW q \in Requests \ {r} PROVE InboxRequestSound(q)'
  <2>1. \A v \in Owners, i \in Notifications :
            <<v, i>> \in Concerns(delta) \cup strays' \/ Shown(v, i)' = Shown(v, i)
    BY <1>1
  <2>2. InboxRequestSound(q)
    BY DEF InboxInv
  <2>3. QED BY <1>3, <2>1, <2>2, InboxOthersSound
<1>5. InboxRequestSound(r)'
  <2>1. InboxArguments(r)
    BY DEF InboxInv, InboxRequestSound
  <2>2. InboxArguments(r)'
    BY <1>3, <2>1 DEF InboxArguments, Becomes
  <2>3. /\ req'[r].got.u = u /\ req'[r].got.ids = ids /\ req'[r].got.shade = shade
    BY <1>1, <1>3 DEF Becomes
  <2>4. DeltaRight(r)'
    BY <2>3 DEF DeltaRight, Shown, Belongs
  <2>5. QED BY <1>3, <2>2, <2>4 DEF InboxRequestSound, Becomes, InboxStages
<1>6. ASSUME NEW s \in Sockets, NEW i \in Notifications PROVE Settled(s, i)'
  <2> DEFINE v == Subject[s]
  <2>1. v \in Owners /\ Settled(s, i)
    BY InboxAssumption, SettledEach DEF InboxInv
  <2>2. CASE v = u /\ i \in ids
    <3>1. Underway(v, i)'
      BY <1>1, <1>3, <2>2 DEF Underway, Becomes
    <3>2. QED BY <3>1 DEF Settled
  <2>3. CASE <<v, i>> \in strays'
    BY <2>3 DEF Settled
  <2>4. CASE Shown(v, i)' = Shown(v, i)
    <3>1. CASE Underway(v, i)
      <4>1. Underway(v, i)'
        BY <1>3, <3>1, UnderwayStays DEF Overtakes
      <4>2. QED BY <4>1 DEF Settled
    <3>2. CASE ~Underway(v, i)
      BY <2>1, <2>4, <3>2 DEF Settled
    <3>3. QED BY <3>1, <3>2
  <2>5. QED BY <2>1, <2>2, <2>3, <2>4
<1>7. QED
  BY <1>3, <1>4, <1>5, <1>6, PairIndexedEachNext, SettledEachNext DEF InboxInv

\* A step that changes no record and no index; if it gives up a delta, its
\* notifications are outdated from then on.
LEMMA InboxReadSound ==
  ASSUME InboxInv, NEW r \in Requests, OthersKeepUnder(r, {}),
         UNCHANGED <<record, inbox, unread, view, strays, missed>>, outdated \subseteq outdated',
         InboxRequestSound(r)',
         req[r].stage = "publish" => Concerns(req[r].got) \subseteq outdated'
  PROVE  InboxInv'
<1>1. InboxTypes' /\ DOMAIN req' = Requests
  BY DEF InboxInv, InboxTypes, OthersKeepUnder, Belongs
<1>2. ASSUME NEW q \in Requests \ {r} PROVE InboxRequestSound(q)'
  <2>1. KeepsUnder(q, {}) /\ InboxRequestSound(q)
    BY DEF InboxInv, OthersKeepUnder
  <2>2. QED BY <2>1 DEF InboxRequestSound, InboxArguments, DeltaRight, KeepsUnder, Shown, Belongs
<1>3. ASSUME NEW u \in Owners, NEW i \in Notifications PROVE PairIndexed(u, i)'
  BY PairIndexedEach DEF InboxInv, PairIndexed, Belongs
<1>4. ASSUME NEW s \in Sockets, NEW i \in Notifications PROVE Settled(s, i)'
  <2> DEFINE v == Subject[s]
  <2>1. Settled(s, i)
    BY SettledEach DEF InboxInv
  <2>2. CASE Underway(v, i)
    <3>1. PICK q \in Requests : /\ req[q].op \in InboxOps /\ req[q].stage = "publish"
                                /\ v = req[q].got.u /\ i \in req[q].got.ids
      BY <2>2 DEF Underway
    <3>2. CASE q = r
      BY <3>1, <3>2 DEF Settled, Concerns
    <3>3. CASE q # r
      BY <3>1, <3>3 DEF Settled, Underway, OthersKeepUnder, KeepsUnder
    <3>4. QED BY <3>2, <3>3
  <2>3. CASE ~Underway(v, i)
    BY <2>1, <2>3 DEF Settled, Shown, Belongs
  <2>4. QED BY <2>2, <2>3
<1>5. QED
  BY <1>1, <1>2, <1>3, <1>4, PairIndexedEachNext, SettledEachNext DEF InboxInv

\* A request is accepted.
LEMMA InboxRequestStep ==
  ASSUME InboxInv, NEW r \in Requests, InboxRequest(r), UNCHANGED inboxVars
  PROVE  InboxInv'
<1> DEFINE Accepts(op, arg) == /\ Start(r, op, arg)
                               /\ op # "DeleteAll" => arg.i \in Notifications
                               /\ op # "MarkRead" => arg.u \in Owners
<1>1. \E op \in InboxOps : \E arg : Accepts(op, arg)
  <2>1. ASSUME NEW u \in Owners, NEW i \in Notifications, NEW op \in {"Trigger", "Delete"},
               Start(r, op, [u |-> u, i |-> i])
        PROVE  Accepts(op, [u |-> u, i |-> i])
    BY <2>1
  <2>2. ASSUME NEW i \in Notifications, Start(r, "MarkRead", [i |-> i])
        PROVE  Accepts("MarkRead", [i |-> i])
    BY <2>2
  <2>3. ASSUME NEW u \in Owners, Start(r, "DeleteAll", [u |-> u])
        PROVE  Accepts("DeleteAll", [u |-> u])
    BY <2>3
  <2> HIDE DEF Accepts
  <2>4. QED
    BY <2>1, <2>2, <2>3 DEF InboxRequest, handleTriggerInboxNotification,
       handleUserInboxNotifications, handleInboxNotificationAction, handleUserInbox, InboxOps
<1>2. PICK op \in InboxOps : \E arg : Accepts(op, arg)
  BY <1>1
<1>3. PICK arg : Accepts(op, arg)
  BY <1>2
<1>4. /\ req[r].stage = "idle" /\ OthersKeepUnder(r, {})
      /\ req'[r].op = op /\ req'[r].stage = "started" /\ req'[r].arg = arg
  BY <1>3, StartStep DEF InboxInv
<1>5. InboxRequestSound(r)'
  BY <1>3, <1>4 DEF InboxRequestSound, InboxArguments, InboxStages
<1>6. QED BY <1>4, <1>5, InboxReadSound DEF inboxVars

\* A step to a stage that promises nothing.
LEMMA InboxAdvanceStep ==
  ASSUME InboxInv, NEW r \in Requests, UNCHANGED inboxVars,
         req[r].stage \notin {"idle", "done", "publish"},
         \/ req' = Finished(r)
         \/ \E stage \in {"loaded", "multi"} : \E got :
                /\ req' = Advance(r, stage, got)
                /\ req[r].op = "DeleteAll" => got.ids \subseteq Notifications
  PROVE  InboxInv'
<1>1. InboxArguments(r)
  BY DEF InboxInv, InboxRequestSound
<1>2. CASE req' = Finished(r)
  <2>1. req'[r].stage = "done" /\ OthersKeepUnder(r, {})
    BY <1>2, FinishedStep DEF InboxInv, Becomes
  <2>2. InboxRequestSound(r)'
    BY <2>1 DEF InboxRequestSound, InboxStages
  <2>3. QED BY <2>1, <2>2, InboxReadSound DEF inboxVars
<1>3. ASSUME NEW stage \in {"loaded", "multi"}, NEW got, req' = Advance(r, stage, got),
             req[r].op = "DeleteAll" => got.ids \subseteq Notifications
      PROVE  InboxInv'
  <2>1. Becomes(r, stage, req[r].arg, got) /\ OthersKeepUnder(r, {})
    BY <1>3, AdvanceStep DEF InboxInv
  <2>2. InboxRequestSound(r)'
    BY <1>1, <1>3, <2>1 DEF InboxRequestSound, InboxArguments, InboxStages, Becomes
  <2>3. QED BY <2>1, <2>2, InboxReadSound DEF inboxVars
<1>4. QED BY <1>2, <1>3

\* A notification that is read already is published again as it is.
LEMMA WatchMarkReadStep ==
  ASSUME InboxInv, NEW r \in Requests, WatchMarkRead(r)
  PROVE  InboxInv'
<1> DEFINE i == req[r].arg.i
<1>1. At(r, "MarkRead", "loaded") /\ UNCHANGED inboxVars
  BY DEF WatchMarkRead
<1>2. i \in Notifications /\ InboxArguments(r)
  BY <1>1 DEF At, InboxInv, InboxRequestSound, InboxArguments
<1>3. CASE req' = Finished(r)
  BY <1>1, <1>3, InboxAdvanceStep DEF At
<1>4. CASE record[i] # NoRecord /\ ~record[i].read
             /\ req' = Watching(r, {NotificationKey(i)}, record[i])
  <2>1. /\ req'[r].op = "MarkRead" /\ req'[r].stage = "exec" /\ req'[r].arg = req[r].arg
        /\ req'[r].got = record[i] /\ req'[r].watched = {NotificationKey(i)}
        /\ OthersKeepUnder(r, {})
    <3>1. PICK keys, got : keys = {NotificationKey(i)} /\ got = record[i]
      OBVIOUS
    <3>2. DOMAIN req = Requests /\ req' = Watching(r, keys, got) /\ req[r].op = "MarkRead"
      BY <1>1, <1>4, <3>1 DEF InboxInv, At
    <3> HIDE DEF i
    <3>3. /\ req'[r].op = req[r].op /\ req'[r].stage = "exec" /\ req'[r].arg = req[r].arg
          /\ req'[r].got = got /\ req'[r].watched = keys /\ OthersKeepUnder(r, {})
      BY <3>2, WatchingStep
    <3>4. QED BY <3>1, <3>2, <3>3
  <2>2. InboxRequestSound(r)'
    BY <1>1, <1>2, <1>4, <2>1 DEF InboxRequestSound, InboxArguments, InboxStages, inboxVars, InboxOps
  <2>3. QED BY <1>1, <2>1, <2>2, InboxReadSound DEF inboxVars, At
<1>5. ASSUME NEW u \in Owners, Belongs(i, u), record[i].read,
             req' = Advance(r, "publish", Delta(u, {i}, Shade(TRUE)))
      PROVE  InboxInv'
  <2> DEFINE delta == Delta(u, {i}, Shade(TRUE))
  <2>1. delta.u = u /\ delta.ids = {i} /\ delta.shade = Shown(u, i)
    BY <1>5 DEF Delta, Shown, Shade
  <2> HIDE DEF delta
  <2>2. Becomes(r, "publish", req[r].arg, delta) /\ OthersKeepUnder(r, {})
    BY <1>5, AdvanceStep DEF InboxInv, delta
  <2>3. DeltaRight(r)'
    BY <1>1, <1>2, <2>1, <2>2 DEF DeltaRight, Becomes, Shown, Belongs, inboxVars
  <2>4. InboxRequestSound(r)'
    BY <1>2, <2>2, <2>3 DEF InboxRequestSound, InboxArguments, InboxStages, Becomes
  <2>5. QED BY <1>1, <2>2, <2>4, InboxReadSound DEF inboxVars, At
<1> DEFINE delta == Delta(CHOOSE u \in Owners : Belongs(i, u), {i}, Shade(TRUE))
<1>6. req' = CASE record[i] = NoRecord -> Finished(r)
               [] record[i].read -> Advance(r, "publish", delta)
               [] OTHER -> Watching(r, {NotificationKey(i)}, record[i])
  BY Zenon DEF WatchMarkRead
<1>7. record[i] # NoRecord => \E u \in Owners : Belongs(i, u)
  BY <1>2 DEF InboxInv, InboxTypes
<1>8. record[i] # NoRecord => /\ (CHOOSE u \in Owners : Belongs(i, u)) \in Owners
                              /\ Belongs(i, CHOOSE u \in Owners : Belongs(i, u))
  BY <1>7
<1>9. CASE record[i] = NoRecord
  <2> HIDE DEF i, delta
  <2>1. req' = Finished(r)
    BY <1>6, <1>9 DEF NoRecord
  <2>2. QED BY <2>1, <1>3
<1>10. CASE record[i] # NoRecord /\ record[i].read
  <2> HIDE DEF i, delta
  <2>1. req' = Advance(r, "publish", delta)
    BY <1>6, <1>10
  <2>2. QED BY <2>1, <1>5, <1>8, <1>10 DEF delta
<1>11. CASE record[i] # NoRecord /\ ~record[i].read
  <2> HIDE DEF i, delta
  <2>1. req' = Watching(r, {NotificationKey(i)}, record[i])
    BY <1>6, <1>11
  <2>2. QED BY <2>1, <1>4, <1>11
<1>12. QED BY <1>9, <1>10, <1>11

\* A creation begins when there is no notification under the id.
LEMMA WatchTriggerStep ==
  ASSUME InboxInv, NEW r \in Requests, WatchTrigger(r)
  PROVE  InboxInv'
<1> DEFINE i == req[r].arg.i
<1>1. /\ At(r, "Trigger", "started") /\ UNCHANGED inboxVars
      /\ \/ req' = Finished(r)
         \/ record[i] = NoRecord /\ req' = Watching(r, {NotificationKey(i)}, Nothing)
  BY DEF WatchTrigger
<1>2. InboxArguments(r)
  BY <1>1 DEF At, InboxInv, InboxRequestSound
<1>3. CASE req' = Finished(r)
  BY <1>1, <1>3, InboxAdvanceStep DEF At
<1>4. CASE record[i] = NoRecord /\ req' = Watching(r, {NotificationKey(i)}, Nothing)
  <2>1. /\ req'[r].op = "Trigger" /\ req'[r].stage = "exec" /\ req'[r].arg = req[r].arg
        /\ req'[r].watched = {NotificationKey(i)} /\ OthersKeepUnder(r, {})
    <3>1. DOMAIN req = Requests /\ req[r].op = "Trigger"
      BY <1>1 DEF InboxInv, At
    <3>2. QED BY <1>4, <3>1, WatchingStep
  <2>2. InboxRequestSound(r)'
    BY <1>1, <1>2, <1>4, <2>1
       DEF InboxRequestSound, InboxArguments, InboxStages, inboxVars, At
  <2>3. QED BY <1>1, <2>1, <2>2, InboxReadSound DEF inboxVars, At
<1>5. QED BY <1>1, <1>3, <1>4

\* A notification is loaded, or a user's ids are listed.
LEMMA InboxLoadStep ==
  ASSUME InboxInv, NEW r \in Requests, loadInboxNotification(r) \/ ListInbox(r)
  PROVE  InboxInv'
<1>1. CASE loadInboxNotification(r)
  <2>1. /\ UNCHANGED inboxVars /\ req[r].stage \in {"started", "loaded"}
        /\ req[r].op # "DeleteAll"
        /\ \/ req' = Finished(r)
           \/ req' = Advance(r, "multi", Nothing) \/ req' = Advance(r, "loaded", Nothing)
    BY <1>1 DEF loadInboxNotification
  <2>2. QED BY <2>1, InboxAdvanceStep
<1>2. CASE ListInbox(r)
  <2> DEFINE got == [ids |-> inbox[req[r].arg.u]]
  <2>1. At(r, "DeleteAll", "started") /\ UNCHANGED inboxVars /\ req' = Advance(r, "multi", got)
    BY <1>2 DEF ListInbox
  <2>2. req[r].arg.u \in Owners
    BY <2>1 DEF At, InboxInv, InboxRequestSound, InboxArguments
  <2>3. got.ids \subseteq Notifications
    BY <2>2 DEF InboxInv, InboxTypes
  <2> HIDE DEF got
  <2>4. QED BY <2>1, <2>3, InboxAdvanceStep DEF At
<1>3. QED BY <1>1, <1>2

\* A call fails, or EXEC is refused; a delta that is given up is outdated.
LEMMA InboxFailsStep ==
  ASSUME InboxInv, NEW r \in Requests, InboxCallFails(r) \/ InboxExecRefused(r)
  PROVE  InboxInv'
<1>1. req'[r].stage = "done" /\ OthersKeepUnder(r, {})
  BY RefusedStep DEF InboxCallFails, InboxExecRefused, InboxInv, Becomes
<1>2. /\ UNCHANGED <<record, inbox, unread, view, strays, missed>> /\ outdated \subseteq outdated'
      /\ req[r].stage = "publish" => Concerns(req[r].got) \subseteq outdated'
  BY DEF InboxCallFails, InboxExecRefused, ExecRefused, inboxVars
<1>3. InboxRequestSound(r)'
  BY <1>1 DEF InboxRequestSound, InboxStages
<1>4. QED BY <1>1, <1>2, <1>3, InboxReadSound

\* A delta is published: the sockets that are sent it show what it says.
LEMMA PublishDeltaStep ==
  ASSUME InboxInv, NEW r \in Requests, publishNotificationEvent(r) \/ NotificationFanoutFails(r)
  PROVE  InboxInv'
<1> DEFINE d == req[r].got
<1>0. PICK reached \in SUBSET NotificationFanout(d.u) :
          req[r].stage = "publish" /\ req[r].op \in InboxOps /\ DeliverDelta(r, reached)
  BY DEF publishNotificationEvent, NotificationFanoutFails
<1>1. /\ req[r].stage = "publish" /\ req[r].op \in InboxOps /\ req' = Finished(r)
      /\ outdated' = (outdated \ Concerns(d)) \cup d.over
      /\ view' = [s \in Sockets |-> IF s \in reached
                      THEN [i \in Notifications |-> IF i \in d.ids THEN d.shade ELSE view[s][i]]
                      ELSE view[s]]
      /\ missed' = (missed \ (reached \X d.ids)) \cup ((NotificationFanout(d.u) \ reached) \X d.ids)
      /\ UNCHANGED <<record, inbox, unread, strays>>
      /\ \A s \in Sockets : s \in NotificationFanout(d.u) <=> Subject[s] = d.u
  BY <1>0 DEF DeliverDelta, applyNotificationDeltaToInbox, NotificationFanout
<1>2. DeltaRight(r)
  BY <1>1 DEF InboxInv, InboxRequestSound
<1>3. req'[r].stage = "done" /\ OthersKeepUnder(r, {})
  BY <1>1, FinishedStep DEF InboxInv, Becomes
<1>4. InboxTypes' /\ DOMAIN req' = Requests
  BY <1>1, <1>3 DEF InboxInv, InboxTypes, OthersKeepUnder, Belongs
<1>5. ASSUME NEW q \in Requests PROVE InboxRequestSound(q)'
  <2>1. CASE q = r
    BY <1>3, <2>1 DEF InboxRequestSound, InboxStages
  <2>2. CASE q # r
    <3>1. KeepsUnder(q, {}) /\ InboxRequestSound(q)
      BY <1>3, <2>2 DEF InboxInv, OthersKeepUnder
    <3>2. QED BY <1>1, <3>1 DEF InboxRequestSound, InboxArguments, DeltaRight, KeepsUnder, Shown, Belongs
  <2>3. QED BY <2>1, <2>2
<1>6. ASSUME NEW u \in Owners, NEW i \in Notifications PROVE PairIndexed(u, i)'
  BY <1>1, PairIndexedEach DEF InboxInv, PairIndexed, Belongs
<1>7. ASSUME NEW s \in Sockets, NEW i \in Notifications PROVE Settled(s, i)'
  <2> DEFINE v == Subject[s]
  <2>1. Settled(s, i) /\ Shown(v, i)' = Shown(v, i)
    BY <1>1, SettledEach DEF InboxInv, Shown, Belongs
  <2>2. CASE s \in reached /\ i \in d.ids
    <3>0. v = d.u
      BY <1>0, <1>1, <2>2
    <3>1. view'[s][i] = d.shade
      BY <1>1, <2>2
    <3>2. <<v, i>> \in d.over \/ <<v, i>> \in strays \/ d.shade = Shown(v, i)
      BY <1>2, <2>2, <3>0 DEF DeltaRight
    <3>3. QED BY <1>1, <2>1, <3>1, <3>2 DEF Settled
  <2>3. CASE v = d.u /\ s \notin reached /\ i \in d.ids
    <3>1. <<s, i>> \in missed'
      BY <1>1, <2>3
    <3>2. QED BY <3>1 DEF Settled
  <2>4. CASE ~(v = d.u /\ i \in d.ids)
    <3>0. <<s, i>> \in missed => <<s, i>> \in missed'
      BY <1>0, <1>1, <2>4
    <3>1. view'[s][i] = view[s][i]
      BY <1>1, <2>4
    <3>2. <<v, i>> \in outdated => <<v, i>> \in outdated'
      BY <1>1, <2>4 DEF Concerns
    <3>3. Underway(v, i) => Underway(v, i)'
      BY <1>3, <2>4 DEF Underway, OthersKeepUnder, KeepsUnder
    <3>4. QED BY <1>1, <2>1, <3>0, <3>1, <3>2, <3>3 DEF Settled
  <2>5. QED BY <2>2, <2>3, <2>4
<1>8. QED
  BY <1>4, <1>5, <1>6, <1>7, PairIndexedEachNext, SettledEachNext DEF InboxInv

\* A notification has at most one owner.
LEMMA OneOwner ==
  ASSUME NEW i \in Notifications, NEW u, NEW v, Belongs(i, u), Belongs(i, v)
  PROVE  u = v
BY DEF Belongs

\* A notification is created where there was none.
LEMMA CreateInboxStep ==
  ASSUME InboxInv, NEW r \in Requests, CreateInboxNotification(r)
  PROVE  InboxInv'
<1>0. PICK i, u : i = req[r].arg.i /\ u = req[r].arg.u
  OBVIOUS
<1>1. /\ CanExec(r, "Trigger")
      /\ record' = [record EXCEPT ![i] = [user |-> {u}, read |-> FALSE]]
      /\ inbox' = [inbox EXCEPT ![u] = inbox[u] \cup {i}]
      /\ unread' = [unread EXCEPT ![u] = unread[u] \cup {i}]
      /\ req' = Committed(r, {NotificationKey(i)}, Delta(u, {i}, Shade(FALSE)))
      /\ UNCHANGED <<view, strays, outdated, missed>>
  BY <1>0 DEF CreateInboxNotification
<1>2. i \in Notifications /\ u \in Owners /\ record[i] = NoRecord
  BY <1>0, <1>1 DEF CanExec, At, InboxInv, InboxRequestSound, InboxArguments
<1>3. req[r].stage = "exec" /\ req[r].op \in InboxOps
  BY <1>1 DEF CanExec, At, InboxOps
<1>4. /\ record'[i] = [user |-> {u}, read |-> FALSE] /\ inbox'[u] = inbox[u] \cup {i}
      /\ unread'[u] = unread[u] \cup {i}
      /\ \A j \in Notifications \ {i} : record'[j] = record[j]
      /\ \A v \in Owners \ {u} : inbox'[v] = inbox[v] /\ unread'[v] = unread[v]
  BY <1>1, <1>2 DEF InboxInv, InboxTypes
<1>5. InboxTypes'
  <2>1. record' \in [Notifications -> [user : SUBSET Owners, read : BOOLEAN]]
    BY <1>1, <1>2 DEF InboxInv, InboxTypes
  <2>2. ASSUME NEW j \in Notifications
        PROVE  record'[j] = NoRecord \/ \E o \in Owners : record'[j].user = {o}
    BY <1>2, <1>4 DEF InboxInv, InboxTypes, Belongs
  <2>3. inbox' \in [Owners -> SUBSET Notifications] /\ unread' \in [Owners -> SUBSET Notifications]
    BY <1>1, <1>2 DEF InboxInv, InboxTypes
  <2>4. QED BY <2>1, <2>2, <2>3 DEF InboxTypes, Belongs
<1>6. \A v \in Owners : ~Belongs(i, v)
  BY <1>2 DEF Belongs, NoRecord
<1>7. \A v \in Owners : Belongs(i, v)' <=> v = u
  BY <1>2, <1>4 DEF Belongs
<1>8. ASSUME NEW v \in Owners, NEW j \in Notifications
      PROVE  PairIndexed(v, j)' /\ ((v = u /\ j = i) \/ Shown(v, j)' = Shown(v, j))
  <2>1. PairIndexed(v, j)
    BY PairIndexedEach DEF InboxInv
  <2>2. CASE j # i
    BY <1>1, <1>4, <2>1, <2>2 DEF PairIndexed, Belongs, Shown
  <2>3. CASE j = i /\ v # u
    BY <1>1, <1>4, <1>6, <1>7, <2>1, <2>3 DEF PairIndexed, Shown
  <2>4. CASE j = i /\ v = u
    BY <1>1, <1>4, <1>7, <2>4 DEF PairIndexed
  <2>5. QED BY <2>2, <2>3, <2>4
<1>9. Shown(u, i)' = Shade(FALSE)
  BY <1>2, <1>4, <1>7 DEF Shown, Shade
<1>10. \A j \in Notifications : NotificationKey(j) \notin {NotificationKey(i)} => record'[j] = record[j]
  BY <1>4
<1> DEFINE ids == {i}
           shade == Shade(FALSE)
           keys == {NotificationKey(i)}
<1>11. /\ ids \in SUBSET Notifications /\ \A j \in ids : shade = Shown(u, j)'
       /\ \A v \in Owners, j \in Notifications : (v = u /\ j \in ids) \/ Shown(v, j)' = Shown(v, j)
  BY <1>2, <1>8, <1>9
<1>12. req' = Committed(r, keys, Delta(u, ids, shade))
  BY <1>1
<1>13. \A j \in Notifications : NotificationKey(j) \notin keys => record'[j] = record[j]
  BY <1>10
<1>14. \A v \in Owners, j \in Notifications : PairIndexed(v, j)'
  BY <1>8
<1>15. \A v \in Owners, j \in Notifications :
          (v = u /\ j \in ids) \/ <<v, j>> \in strays' \/ Shown(v, j)' = Shown(v, j)
  BY <1>8
<1>16. /\ req[r].stage \in {"exec", "multi"} /\ strays \subseteq strays'
       /\ UNCHANGED <<view, outdated, missed>> /\ u \in Owners
  BY <1>1, <1>2, <1>3
<1> HIDE DEF ids, shade, keys
<1>17. \A j \in ids : <<u, j>> \in strays' \/ shade = Shown(u, j)'
  BY <1>11
<1>18. ids \in SUBSET Notifications
  BY <1>11
<1>19. QED BY <1>3, <1>5, <1>12, <1>13, <1>14, <1>15, <1>16, <1>17, <1>18, CommitSound

\* A notification is marked read, in the record and out of the unread inbox.
LEMMA MarkReadStep ==
  ASSUME InboxInv, NEW r \in Requests, MarkInboxNotificationRead(r)
  PROVE  InboxInv'
<1>0. PICK i, u : i = req[r].arg.i /\ u = (CHOOSE o \in Owners : req[r].got.user = {o})
  OBVIOUS
<1>1. /\ CanExec(r, "MarkRead")
      /\ record' = [record EXCEPT ![i] = [user |-> record[i].user, read |-> TRUE]]
      /\ unread' = [unread EXCEPT ![u] = unread[u] \ {i}]
      /\ req' = Committed(r, {NotificationKey(i)}, Delta(u, {i}, Shade(TRUE)))
      /\ UNCHANGED <<inbox, view, strays, outdated, missed>>
  BY <1>0 DEF MarkInboxNotificationRead
<1>2. i \in Notifications /\ record[i] # NoRecord /\ req[r].got = record[i]
  BY <1>0, <1>1 DEF CanExec, At, InboxInv, InboxRequestSound, InboxArguments
<1>3. req[r].stage = "exec" /\ req[r].op \in InboxOps
  BY <1>1 DEF CanExec, At, InboxOps
<1>4. PICK w \in Owners : Belongs(i, w)
  BY <1>2 DEF InboxInv, InboxTypes
<1>5. u \in Owners /\ Belongs(i, u)
  <2>1. req[r].got.user = {w}
    BY <1>2, <1>4 DEF Belongs
  <2>2. u = w
    BY <1>0, <2>1, OnlyOwner
  <2>3. QED BY <2>2, <1>4
<1>6. /\ record'[i] = [user |-> {u}, read |-> TRUE] /\ unread'[u] = unread[u] \ {i}
      /\ \A j \in Notifications \ {i} : record'[j] = record[j]
      /\ \A v \in Owners \ {u} : unread'[v] = unread[v]
  BY <1>1, <1>2, <1>5 DEF InboxInv, InboxTypes, Belongs
<1>7. InboxTypes'
  <2>1. record' \in [Notifications -> [user : SUBSET Owners, read : BOOLEAN]]
    BY <1>1, <1>2 DEF InboxInv, InboxTypes
  <2>2. ASSUME NEW j \in Notifications
        PROVE  record'[j] = NoRecord \/ \E o \in Owners : record'[j].user = {o}
    BY <1>5, <1>6 DEF InboxInv, InboxTypes, Belongs
  <2>3. inbox' \in [Owners -> SUBSET Notifications] /\ unread' \in [Owners -> SUBSET Notifications]
    BY <1>1, <1>5 DEF InboxInv, InboxTypes
  <2>4. QED BY <2>1, <2>2, <2>3 DEF InboxTypes, Belongs
<1>8. \A v \in Owners : (Belongs(i, v) <=> v = u) /\ (Belongs(i, v)' <=> v = u)
  BY <1>5, <1>6 DEF Belongs
<1>9. ASSUME NEW v \in Owners, NEW j \in Notifications
      PROVE  PairIndexed(v, j)' /\ ((v = u /\ j = i) \/ Shown(v, j)' = Shown(v, j))
  <2>1. PairIndexed(v, j)
    BY PairIndexedEach DEF InboxInv
  <2>2. CASE j # i
    BY <1>1, <1>6, <2>1, <2>2 DEF PairIndexed, Belongs, Shown
  <2>3. CASE j = i /\ v # u
    BY <1>1, <1>6, <1>8, <2>1, <2>3 DEF PairIndexed, Shown
  <2>4. CASE j = i /\ v = u
    BY <1>1, <1>6, <1>8, <2>1, <2>4 DEF PairIndexed
  <2>5. QED BY <2>2, <2>3, <2>4
<1>10. Shown(u, i)' = Shade(TRUE)
  BY <1>5, <1>6, <1>8 DEF Shown, Shade
<1> DEFINE ids == {i}
           shade == Shade(TRUE)
           keys == {NotificationKey(i)}
<1>11. /\ ids \in SUBSET Notifications /\ \A j \in ids : shade = Shown(u, j)'
       /\ \A v \in Owners, j \in Notifications : (v = u /\ j \in ids) \/ Shown(v, j)' = Shown(v, j)
  BY <1>2, <1>9, <1>10
<1>12. req' = Committed(r, keys, Delta(u, ids, shade))
  BY <1>1
<1>13. \A j \in Notifications : NotificationKey(j) \notin keys => record'[j] = record[j]
  BY <1>6
<1>14. \A v \in Owners, j \in Notifications : PairIndexed(v, j)'
  BY <1>9
<1>15. \A v \in Owners, j \in Notifications :
          (v = u /\ j \in ids) \/ <<v, j>> \in strays' \/ Shown(v, j)' = Shown(v, j)
  BY <1>9
<1>16. /\ req[r].stage \in {"exec", "multi"} /\ strays \subseteq strays'
       /\ UNCHANGED <<view, outdated, missed>> /\ u \in Owners
  BY <1>1, <1>3, <1>5
<1> HIDE DEF ids, shade, keys
<1>17. \A j \in ids : <<u, j>> \in strays' \/ shade = Shown(u, j)'
  BY <1>11
<1>18. ids \in SUBSET Notifications
  BY <1>11
<1>19. QED BY <1>3, <1>7, <1>12, <1>13, <1>14, <1>15, <1>16, <1>17, <1>18, CommitSound

\* A notification is deleted. If it is another user's by now, it is torn
\* apart from its indexes.
LEMMA DeleteInboxStep ==
  ASSUME InboxInv, NEW r \in Requests, DeleteInboxNotification(r)
  PROVE  InboxInv'
<1>0. PICK i, u, keys : /\ i = req[r].arg.i /\ u = req[r].arg.u
                        /\ keys = IF record[i] = NoRecord THEN {} ELSE {NotificationKey(i)}
  OBVIOUS
<1>1. /\ At(r, "Delete", "multi")
      /\ strays' = strays \cup {<<o, i>> : o \in {o \in Owners \ {u} : Belongs(i, o)}}
      /\ record' = [record EXCEPT ![i] = NoRecord]
      /\ inbox' = [inbox EXCEPT ![u] = inbox[u] \ {i}]
      /\ unread' = [unread EXCEPT ![u] = unread[u] \ {i}]
      /\ req' = Committed(r, keys, Delta(u, {i}, Hidden))
      /\ UNCHANGED <<view, outdated, missed>>
  BY <1>0 DEF DeleteInboxNotification
<1>2. i \in Notifications /\ u \in Owners
  BY <1>0, <1>1 DEF At, InboxInv, InboxRequestSound, InboxArguments
<1>3. req[r].stage = "multi" /\ req[r].op \in InboxOps
  BY <1>1 DEF At, InboxOps
<1>4. /\ record'[i] = NoRecord /\ inbox'[u] = inbox[u] \ {i} /\ unread'[u] = unread[u] \ {i}
      /\ \A j \in Notifications \ {i} : record'[j] = record[j]
      /\ \A v \in Owners \ {u} : inbox'[v] = inbox[v] /\ unread'[v] = unread[v]
  BY <1>1, <1>2 DEF InboxInv, InboxTypes
<1>5. InboxTypes'
  <2>1. NoRecord \in [user : SUBSET Owners, read : BOOLEAN]
    BY DEF NoRecord
  <2>2. record' \in [Notifications -> [user : SUBSET Owners, read : BOOLEAN]]
    BY <1>1, <1>2, <2>1 DEF InboxInv, InboxTypes
  <2>3. ASSUME NEW j \in Notifications
        PROVE  record'[j] = NoRecord \/ \E o \in Owners : record'[j].user = {o}
    BY <1>4 DEF InboxInv, InboxTypes, Belongs
  <2>4. inbox' \in [Owners -> SUBSET Notifications] /\ unread' \in [Owners -> SUBSET Notifications]
    BY <1>1, <1>2 DEF InboxInv, InboxTypes
  <2>5. QED BY <2>2, <2>3, <2>4 DEF InboxTypes, Belongs
<1>6. \A v \in Owners : ~Belongs(i, v)'
  BY <1>4 DEF Belongs, NoRecord
<1>7. strays \subseteq strays' /\ \A v \in Owners \ {u} : Belongs(i, v) => <<v, i>> \in strays'
  BY <1>1
<1>8. ASSUME NEW v \in Owners, NEW j \in Notifications
      PROVE  /\ PairIndexed(v, j)'
             /\ (v = u /\ j = i) \/ <<v, j>> \in strays' \/ Shown(v, j)' = Shown(v, j)
  <2>1. PairIndexed(v, j)
    BY PairIndexedEach DEF InboxInv
  <2>2. CASE j # i
    BY <1>4, <1>7, <2>1, <2>2 DEF PairIndexed, Belongs, Shown
  <2>3. CASE j = i /\ v # u
    BY <1>4, <1>6, <1>7, <2>1, <2>3 DEF PairIndexed, Shown
  <2>4. CASE j = i /\ v = u
    BY <1>4, <1>6, <2>4 DEF PairIndexed
  <2>5. QED BY <2>2, <2>3, <2>4
<1>9. Shown(u, i)' = Hidden
  BY <1>2, <1>6 DEF Shown
<1> DEFINE ids == {i}
<1>10. /\ ids \in SUBSET Notifications /\ \A j \in ids : Hidden = Shown(u, j)'
       /\ \A v \in Owners, j \in Notifications :
             (v = u /\ j \in ids) \/ <<v, j>> \in strays' \/ Shown(v, j)' = Shown(v, j)
  BY <1>2, <1>8, <1>9
<1>11. req' = Committed(r, keys, Delta(u, ids, Hidden))
  BY <1>1
<1>12. \A j \in Notifications : NotificationKey(j) \notin keys => record'[j] = record[j]
  BY <1>0, <1>4
<1>13. \A v \in Owners, j \in Notifications : PairIndexed(v, j)'
  BY <1>8
<1>14. \A v \in Owners, j \in Notifications :
          (v = u /\ j \in ids) \/ <<v, j>> \in strays' \/ Shown(v, j)' = Shown(v, j)
  BY <1>8
<1>15. /\ req[r].stage \in {"exec", "multi"} /\ strays \subseteq strays'
       /\ UNCHANGED <<view, outdated, missed>> /\ u \in Owners
  BY <1>1, <1>2, <1>3, <1>7
<1> HIDE DEF ids
<1>16. \A j \in ids : <<u, j>> \in strays' \/ Hidden = Shown(u, j)'
  BY <1>10
<1>17. ids \in SUBSET Notifications
  BY <1>10
<1>18. QED BY <1>3, <1>5, <1>11, <1>12, <1>13, <1>14, <1>15, <1>16, <1>17, CommitSound

\* A user's notifications are deleted: the records of those that were listed,
\* and what the indexes list by now.
LEMMA DeleteAllInboxStep ==
  ASSUME InboxInv, NEW r \in Requests, DeleteAllInboxNotifications(r)
  PROVE  InboxInv'
<1>0. PICK u, ids, keys :
        /\ u = req[r].arg.u /\ ids = req[r].got.ids
        /\ keys = {NotificationKey(i) : i \in {i \in ids : record[i] # NoRecord}}
  OBVIOUS
<1>1. /\ At(r, "DeleteAll", "multi")
      /\ record' = [i \in Notifications |-> IF i \in ids THEN NoRecord ELSE record[i]]
      /\ inbox' = [inbox EXCEPT ![u] = {}]
      /\ unread' = [unread EXCEPT ![u] = {}]
      /\ req' = Committed(r, keys, Delta(u, Notifications, Hidden))
      /\ UNCHANGED <<view, outdated, missed>>
  BY <1>0 DEF DeleteAllInboxNotifications
<1>2. strays' = strays
         \cup {p \in (Owners \ {u}) \X ids : Belongs(p[2], p[1])}
         \cup {<<u, i>> : i \in {i \in Notifications \ ids : Belongs(i, u)}}
  BY <1>0 DEF DeleteAllInboxNotifications
<1>3. u \in Owners /\ ids \subseteq Notifications
  BY <1>0, <1>1 DEF At, InboxInv, InboxRequestSound, InboxArguments
<1>4. req[r].stage = "multi" /\ req[r].op \in InboxOps
  BY <1>1 DEF At, InboxOps
<1>5. /\ inbox'[u] = {} /\ unread'[u] = {}
      /\ \A j \in ids : record'[j] = NoRecord
      /\ \A j \in Notifications \ ids : record'[j] = record[j]
      /\ \A v \in Owners \ {u} : inbox'[v] = inbox[v] /\ unread'[v] = unread[v]
  BY <1>1, <1>3 DEF InboxInv, InboxTypes
<1>6. InboxTypes'
  <2>1. NoRecord \in [user : SUBSET Owners, read : BOOLEAN]
    BY DEF NoRecord
  <2>2. record' \in [Notifications -> [user : SUBSET Owners, read : BOOLEAN]]
    BY <1>1, <2>1 DEF InboxInv, InboxTypes
  <2>3. ASSUME NEW j \in Notifications
        PROVE  record'[j] = NoRecord \/ \E o \in Owners : record'[j].user = {o}
    BY <1>5 DEF InboxInv, InboxTypes, Belongs
  <2>4. inbox' \in [Owners -> SUBSET Notifications] /\ unread' \in [Owners -> SUBSET Notifications]
    BY <1>1, <1>3 DEF InboxInv, InboxTypes
  <2>5. QED BY <2>2, <2>3, <2>4 DEF InboxTypes, Belongs
<1>7. \A j \in ids, v \in Owners : ~Belongs(j, v)'
  BY <1>5 DEF Belongs, NoRecord
<1>8. strays \subseteq strays'
  BY <1>2
<1>9. ASSUME NEW v \in Owners \ {u}, NEW j \in ids, Belongs(j, v)
      PROVE  <<v, j>> \in strays'
  BY <1>2, <1>9
<1>10. ASSUME NEW j \in Notifications \ ids, Belongs(j, u)
       PROVE  <<u, j>> \in strays'
  BY <1>2, <1>10
<1>11. ASSUME NEW v \in Owners, NEW j \in Notifications
       PROVE  /\ PairIndexed(v, j)'
              /\ v = u \/ <<v, j>> \in strays' \/ Shown(v, j)' = Shown(v, j)
  <2>1. PairIndexed(v, j)
    BY PairIndexedEach DEF InboxInv
  <2>2. CASE j \in ids /\ v # u
    BY <1>5, <1>7, <1>8, <1>9, <2>1, <2>2 DEF PairIndexed, Shown
  <2>3. CASE j \in ids /\ v = u
    BY <1>5, <1>7, <2>3 DEF PairIndexed
  <2>4. CASE j \notin ids /\ v # u
    BY <1>5, <1>8, <2>1, <2>4 DEF PairIndexed, Belongs, Shown
  <2>5. CASE j \notin ids /\ v = u
    BY <1>5, <1>10, <2>5 DEF PairIndexed, Belongs
  <2>6. QED BY <2>2, <2>3, <2>4, <2>5
<1>12. ASSUME NEW j \in Notifications PROVE <<u, j>> \in strays' \/ Hidden = Shown(u, j)'
  <2>1. CASE j \in ids
    BY <1>3, <1>7, <2>1 DEF Shown
  <2>2. CASE j \notin ids
    BY <1>5, <1>10, <2>2 DEF Shown, Belongs
  <2>3. QED BY <2>1, <2>2
<1>13. ASSUME NEW j \in Notifications, NotificationKey(j) \notin keys
       PROVE  record'[j] = record[j]
  <2>1. j \in ids => record[j] = NoRecord
    BY <1>0, <1>13
  <2>2. QED BY <1>5, <2>1
<1>14. Notifications \in SUBSET Notifications
  OBVIOUS
<1>15. \A v \in Owners, i \in Notifications : PairIndexed(v, i)'
  BY <1>11
<1>16. \A v \in Owners, i \in Notifications :
          \/ v = u /\ i \in Notifications
          \/ <<v, i>> \in strays'
          \/ Shown(v, i)' = Shown(v, i)
  BY <1>11
<1>17. \A i \in Notifications : NotificationKey(i) \notin keys => record'[i] = record[i]
  BY <1>13
<1>18. UNCHANGED <<view, outdated, missed>>
  BY <1>1
<1>19. \A i \in Notifications : <<u, i>> \in strays' \/ Hidden = Shown(u, i)'
  BY <1>12
<1>20. req' = Committed(r, keys, Delta(u, Notifications, Hidden))
  BY <1>1
<1>21. req[r].stage \in {"exec", "multi"}
  BY <1>4
<1>22. QED
  BY <1>3, <1>4, <1>6, <1>8, <1>14, <1>15, <1>16, <1>17, <1>18, <1>19, <1>20, <1>21, CommitSound

\* Every step keeps the invariant.
LEMMA InboxStep ==
  ASSUME InboxInv, InboxNext
  PROVE  InboxInv'
<1>1. ASSUME NEW r \in Requests, InboxRequest(r) /\ UNCHANGED inboxVars PROVE InboxInv'
  BY <1>1, InboxRequestStep
<1>2. ASSUME NEW r \in Requests, loadInboxNotification(r) \/ ListInbox(r) PROVE InboxInv'
  BY <1>2, InboxLoadStep
<1>3. ASSUME NEW r \in Requests, WatchTrigger(r) PROVE InboxInv'
  BY <1>3, WatchTriggerStep
<1>4. ASSUME NEW r \in Requests, WatchMarkRead(r) PROVE InboxInv'
  BY <1>4, WatchMarkReadStep
<1>5. ASSUME NEW r \in Requests, CreateInboxNotification(r) PROVE InboxInv'
  BY <1>5, CreateInboxStep
<1>6. ASSUME NEW r \in Requests, MarkInboxNotificationRead(r) PROVE InboxInv'
  BY <1>6, MarkReadStep
<1>7. ASSUME NEW r \in Requests, DeleteInboxNotification(r) PROVE InboxInv'
  BY <1>7, DeleteInboxStep
<1>8. ASSUME NEW r \in Requests, DeleteAllInboxNotifications(r) PROVE InboxInv'
  BY <1>8, DeleteAllInboxStep
<1>9. ASSUME NEW r \in Requests, publishNotificationEvent(r) \/ NotificationFanoutFails(r)
      PROVE  InboxInv'
  BY <1>9, PublishDeltaStep
<1>10. ASSUME NEW r \in Requests, InboxCallFails(r) \/ InboxExecRefused(r) PROVE InboxInv'
  BY <1>10, InboxFailsStep
<1>11. QED
  BY <1>1, <1>2, <1>3, <1>4, <1>5, <1>6, <1>7, <1>8, <1>9, <1>10 DEF InboxNext

\* The invariant holds of whatever notifications there were before.
LEMMA InboxInitially ==
  ASSUME RequestInit, NEW ids \in SUBSET Notifications, NEW old \in [ids -> Owners], InboxInit(old)
  PROVE  InboxInv
<1>1. /\ \A i \in ids : record[i].user = {old[i]} /\ record[i].read = FALSE
      /\ \A i \in Notifications \ ids : record[i] = NoRecord
      /\ \A i \in ids : old[i] \in Owners
      /\ \A u \in Owners : /\ inbox[u] = {i \in ids : old[i] = u}
                           /\ unread[u] = {i \in ids : old[i] = u}
      /\ \A s \in Sockets, i \in Notifications : view[s][i] = Shown(Subject[s], i)
  BY DEF InboxInit
<1>2. InboxTypes
  <2>1. record \in [Notifications -> [user : SUBSET Owners, read : BOOLEAN]]
    BY DEF InboxInit, NoRecord
  <2>2. ASSUME NEW i \in Notifications
        PROVE  record[i] = NoRecord \/ \E u \in Owners : Belongs(i, u)
    <3>1. CASE i \in ids
      <4>1. record[i].user = {old[i]} /\ old[i] \in Owners
        BY <1>1, <3>1
      <4>2. QED BY <4>1 DEF Belongs
    <3>2. CASE i \notin ids
      BY <1>1, <3>2
    <3>3. QED BY <3>1, <3>2
  <2>3. inbox \in [Owners -> SUBSET Notifications] /\ unread \in [Owners -> SUBSET Notifications]
    BY DEF InboxInit
  <2>4. QED BY <2>1, <2>2, <2>3 DEF InboxTypes
<1>3. DOMAIN req = Requests /\ \A q \in Requests : req[q].stage = "idle"
  BY DEF RequestInit, Unused, RequestAt
<1>4. \A q \in Requests : InboxRequestSound(q)
  BY <1>3 DEF InboxRequestSound, InboxStages
<1>5. ASSUME NEW u \in Owners, NEW i \in Notifications PROVE PairIndexed(u, i)
  <2>1. i \in inbox[u] <=> i \in ids /\ old[i] = u
    BY <1>1
  <2>2. i \in unread[u] <=> i \in ids /\ old[i] = u
    BY <1>1
  <2>3. CASE i \in ids
    <3>1. record[i].user = {old[i]} /\ record[i].read = FALSE
      BY <1>1, <2>3
    <3>2. QED BY <2>1, <2>2, <2>3, <3>1 DEF PairIndexed, Belongs
  <2>4. CASE i \notin ids
    <3>1. record[i].user = {}
      BY <1>1, <2>4 DEF NoRecord
    <3>2. QED BY <2>1, <2>2, <2>4, <3>1 DEF PairIndexed, Belongs
  <2>5. QED BY <2>3, <2>4
<1>6. DeltasAgree
  BY <1>1 DEF DeltasAgree
<1>7. QED BY <1>2, <1>3, <1>4, <1>5, <1>6, PairIndexedEach DEF InboxInv

\* The inductive invariant of the inbox.
THEOREM InboxInvariant == InboxSpec => []InboxInv
<1>1. (RequestInit /\ \E ids \in SUBSET Notifications : \E old \in [ids -> Owners] : InboxInit(old))
        => InboxInv
  BY InboxInitially
<1>2. InboxInv /\ [InboxNext]_<<requestVars, inboxVars>> => InboxInv'
  <2>1. CASE InboxNext
    BY <2>1, InboxStep
  <2>2. CASE UNCHANGED <<requestVars, inboxVars>>
    <3>1. UNCHANGED <<req, record, inbox, unread, view, strays, outdated, missed>>
      BY <2>2 DEF requestVars, inboxVars
    <3>2. InboxInv => InboxInv'
      BY <3>1 DEF InboxInv, InboxTypes, InboxRequestSound, InboxArguments, DeltaRight,
         InboxIndexed, DeltasAgree, Belongs, Shown, Concerns
    <3>3. QED BY <3>2
  <2>3. QED BY <2>1, <2>2
<1>3. QED BY <1>1, <1>2, PTL DEF InboxSpec

\* Both indexes of a user list exactly the user's notifications, but for those
\* a delete tore apart.
THEOREM IndexesExact == InboxSpec => []InboxIndexed
BY InboxInvariant, PTL DEF InboxInv

\* A client that follows the deltas shows what the store holds, but for
\* notifications whose latest delta was overtaken, lost, still on its way, or
\* not sent to it by a fan-out that a full queue ended.
THEOREM ClientsFollow == InboxSpec => []DeltasAgree
BY InboxInvariant, PTL DEF InboxInv
-----------------------------------------------------------------------------
(* Resume sessions.                                                        *)

SoundCursors(cursor) ==
    /\ DOMAIN cursor \subseteq SessionRooms
    /\ \A x \in DOMAIN cursor : cursor[x] \in Nat

SoundRecord(rec) == SoundCursors(rec.cursor) /\ rec.expires \in Nat

\* Cursors that are nowhere behind the highest that were written.
Covers(cursor) ==
    \A x \in SessionRooms : IF x \in DOMAIN cursor THEN best[x] <= cursor[x] ELSE best[x] = 0

\* Cursors that are exactly the highest that were written.
Highest(cursor) ==
    \A x \in SessionRooms : IF x \in DOMAIN cursor THEN cursor[x] = best[x] ELSE best[x] = 0

SessionTypes ==
    /\ passed \in Nat /\ expiry \in Nat /\ shared \in BOOLEAN
    /\ best \in [SessionRooms -> Nat]
    /\ SoundRecord(session)
    /\ DOMAIN conn = Connections
    /\ \A c \in Connections : SoundRecord(conn[c].copy)

\* One connection holds a copy, and the copy is not behind the record.
SingleHolder ==
    /\ \A c, d \in Holders : c = d
    /\ ~Absent => Highest(session.cursor) /\ \A c \in Holders : Covers(conn[c].copy.cursor)

SessionInv == SessionTypes /\ SessionExpires /\ (~shared => SingleHolder)

\* What a client resumes from is sound because of it.
LEMMA SessionIsSound ==
  ASSUME SessionInv
  PROVE  SessionsSound
<1>1. ASSUME ~shared, ~Absent, NEW x \in DOMAIN session.cursor
      PROVE  session.cursor[x] = best[x]
  BY <1>1 DEF SessionInv, SessionTypes, SoundRecord, SoundCursors, SingleHolder, Highest
<1>2. QED BY <1>1 DEF SessionsSound, CursorsKept, SessionInv

\* A record is written, with its expiry: it is what was written, or gone at
\* once, and the highest cursors are those of it and of before.
LEMMA UpsertSessionStep ==
  ASSUME SessionTypes, NEW rec, SoundRecord(rec), UpsertResumeSession(rec), passed' = passed
  PROVE  /\ SessionExpires' /\ SoundRecord(session') /\ best' \in [SessionRooms -> Nat]
         /\ ~Absent' => /\ session' = rec
                        /\ \A x \in SessionRooms :
                              LET now == IF x \in DOMAIN rec.cursor THEN rec.cursor[x] ELSE 0 IN
                              best'[x] = IF Absent \/ now > best[x] THEN now ELSE best[x]
<1>1. /\ session' = ExpireAt(rec, passed) /\ roomIndex' = roomIndex \cup DOMAIN rec.cursor
      /\ best' = [x \in SessionRooms |->
            LET now == IF x \in DOMAIN rec.cursor THEN rec.cursor[x] ELSE 0 IN
            IF session' = NoSession THEN 0
            ELSE IF Absent \/ now > best[x] THEN now ELSE best[x]]
  BY DEF UpsertResumeSession
<1>2. SoundRecord(NoSession)
  BY DEF SoundRecord, SoundCursors, NoSession, NoCursors
<1>3. CASE rec.expires <= passed
  <2>1. session' = NoSession
    BY <1>1, <1>3 DEF ExpireAt
  <2>2. QED BY <1>1, <1>2, <2>1 DEF SessionExpires, Absent, SessionTypes
<1>4. CASE ~(rec.expires <= passed)
  <2>1. session' = rec /\ rec.expires > passed
    BY <1>1, <1>4 DEF ExpireAt, SessionTypes, SoundRecord
  <2>2. SessionExpires' /\ SoundRecord(session')
    BY <1>1, <2>1 DEF SessionExpires
  <2>3. best' \in [SessionRooms -> Nat]
    BY <1>1 DEF SessionTypes, SoundRecord, SoundCursors
  <2>4. ~Absent' => session' # NoSession
    BY DEF Absent
  <2>5. QED BY <1>1, <2>1, <2>2, <2>3, <2>4
<1>5. QED BY <1>3, <1>4

\* A step that changes neither the record nor what was written to it, but one
\* connection, which holds no copy or one that is not behind.
LEMMA ConnStep ==
  ASSUME SessionInv, NEW c \in Connections, NEW new, conn' = [conn EXCEPT ![c] = new],
         UNCHANGED <<session, roomIndex, passed, best>>, expiry' \in Nat, shared' \in BOOLEAN,
         SoundRecord(new.copy), ~shared' => ~shared,
         \/ new.stage \notin {"open", "upsert", "create"}
         \/ ~shared' => /\ Holders \subseteq {c}
                        /\ ~Absent => Covers(new.copy.cursor)
  PROVE  SessionInv'
<1>1. /\ conn'[c] = new /\ DOMAIN conn' = Connections
      /\ \A d \in Connections \ {c} : conn'[d] = conn[d]
  BY DEF SessionInv, SessionTypes
<1>2. SessionTypes'
  <2>1. \A d \in Connections : SoundRecord(conn'[d].copy)
    BY <1>1 DEF SessionInv, SessionTypes
  <2>2. QED BY <1>1, <2>1 DEF SessionInv, SessionTypes, SoundRecord, SoundCursors
<1>3. SessionExpires'
  BY DEF SessionInv, SessionExpires, Absent
<1>4. ASSUME ~shared' PROVE SingleHolder'
  <2>1. SingleHolder
    BY <1>4 DEF SessionInv
  <2>2. Holders' \subseteq Holders \cup {c}
    BY <1>1 DEF Holders
  <2>3. new.stage \notin {"open", "upsert", "create"} => Holders' \subseteq Holders \ {c}
    BY <1>1 DEF Holders
  <2>4. \A d, e \in Holders' : d = e
    BY <1>4, <2>1, <2>2, <2>3 DEF SingleHolder
  <2>5. ASSUME ~Absent' PROVE Highest(session.cursor)'
    BY <2>1, <2>5 DEF SingleHolder, Highest, Absent
  <2>6. ASSUME ~Absent', NEW d \in Holders' PROVE Covers(conn[d].copy.cursor)'
    <3>1. CASE d = c
      <4>1. Covers(new.copy.cursor)
        BY <1>4, <2>3, <2>6, <3>1 DEF Absent
      <4>2. QED BY <1>1, <3>1, <4>1 DEF Covers
    <3>2. CASE d # c
      <4>1. d \in Holders /\ d \in Connections /\ conn'[d] = conn[d]
        BY <1>1, <2>2, <2>6, <3>2 DEF Holders
      <4>2. Covers(conn[d].copy.cursor)
        BY <2>1, <2>6, <4>1 DEF SingleHolder, Absent
      <4>3. QED BY <4>1, <4>2 DEF Covers
    <3>3. QED BY <3>1, <3>2
  <2>7. QED BY <2>4, <2>5, <2>6 DEF SingleHolder
<1>5. QED BY <1>2, <1>3, <1>4 DEF SessionInv

\* A connection opens, or closes.
LEMMA OpenCloseStep ==
  ASSUME SessionInv, NEW c \in Connections, handleWS(c) \/ CloseConn(c)
  PROVE  SessionInv'
<1>1. SoundRecord(NoSession)
  BY DEF SoundRecord, SoundCursors, NoSession, NoCursors
<1>2. PICK stage \in {"get", "closed"} :
        conn' = [conn EXCEPT ![c] = [stage |-> stage, copy |-> NoSession]]
  BY DEF handleWS, CloseConn, Closed
<1>3. UNCHANGED <<session, roomIndex, passed, best, expiry, shared>>
  BY DEF handleWS, CloseConn
<1> DEFINE new == [stage |-> stage, copy |-> NoSession]
<1>4. new.stage \notin {"open", "upsert", "create"} /\ new.copy = NoSession
  OBVIOUS
<1>5. conn' = [conn EXCEPT ![c] = new]
  BY <1>2
<1>6. shared' \in BOOLEAN /\ expiry' \in Nat /\ (~shared' => ~shared)
  BY <1>3 DEF SessionInv, SessionTypes
<1> HIDE DEF new
<1>7. QED BY <1>1, <1>3, <1>4, <1>5, <1>6, ConnStep

\* A connection copies the record, or makes one; if another holds a copy, the
\* record is shared from then on.
LEMMA CopySessionStep ==
  ASSUME SessionInv, NEW c \in Connections, resumeSessionFromRequest(c)
  PROVE  SessionInv'
<1>1. /\ expiry' = (IF Absent THEN expiry + 1 ELSE expiry)
      /\ shared' = (shared \/ Holders # {})
      /\ UNCHANGED <<session, roomIndex, passed, best>>
  BY DEF resumeSessionFromRequest
<1>2. PICK new : /\ conn' = [conn EXCEPT ![c] = new]
                 /\ new = CASE Absent -> [stage |-> "create", copy |->
                             [cursor |-> NoCursors, scoped |-> c \in Scoped, expires |-> expiry + 1]]
                       [] ~Absent /\ ~session.scoped /\ c \in Scoped ->
                             [stage |-> "create", copy |->
                                 [cursor |-> session.cursor, scoped |-> TRUE,
                                  expires |-> session.expires]]
                       [] OTHER -> [stage |-> "open", copy |-> session]
  BY DEF resumeSessionFromRequest
<1>3. Absent => new.copy.cursor = NoCursors /\ new.copy.expires = expiry + 1
  BY <1>2
<1>4. ~Absent => new.copy.cursor = session.cursor /\ new.copy.expires = session.expires
  BY <1>2
<1>5. SoundRecord(new.copy)
  BY <1>3, <1>4 DEF SessionInv, SessionTypes, SoundRecord, SoundCursors, NoCursors
<1>6. expiry' \in Nat
  BY <1>1 DEF SessionInv, SessionTypes
<1>7. shared' \in BOOLEAN /\ (~shared' => ~shared /\ Holders = {})
  BY <1>1
<1>8. ASSUME ~shared', ~Absent PROVE Covers(new.copy.cursor)
  <2>1. Highest(session.cursor) /\ new.copy.cursor = session.cursor
    BY <1>4, <1>7, <1>8 DEF SessionInv, SingleHolder
  <2>2. best \in [SessionRooms -> Nat]
    BY DEF SessionInv, SessionTypes
  <2>3. QED BY <2>1, <2>2 DEF Highest, Covers
<1>9. ~shared' => Holders \subseteq {c}
  BY <1>7
<1>10. QED BY <1>1, <1>2, <1>5, <1>6, <1>7, <1>8, <1>9, ConnStep

\* A room or an acknowledgement is added to a connection's copy.
LEMMA ChangeCopyStep ==
  ASSUME SessionInv, NEW c \in Connections, NEW x \in SessionRooms,
         \/ touchResumeSessionRoom(c, x)
         \/ \E n \in 1..MaxSequence : persistResumeSessionCursor(c, x, n)
  PROVE  SessionInv'
<1>1. conn[c].stage = "open" /\ UNCHANGED <<session, roomIndex, expiry, passed, best, shared>>
  BY DEF touchResumeSessionRoom, persistResumeSessionCursor
<1>2. PICK old : old = conn[c].copy
  OBVIOUS
<1>3. SoundRecord(old)
  BY <1>2 DEF SessionInv, SessionTypes
<1>4. c \in Holders
  BY <1>1 DEF Holders
<1>5. ~shared /\ ~Absent => Covers(old.cursor)
  BY <1>2, <1>4 DEF SessionInv, SingleHolder
<1>6. best \in [SessionRooms -> Nat]
  BY DEF SessionInv, SessionTypes
<1>7. PICK cursor : /\ conn' = CopyChanged(c, cursor) /\ SoundCursors(cursor)
                    /\ Covers(old.cursor) => Covers(cursor)
  <2>1. CASE touchResumeSessionRoom(c, x)
    <3>1. PICK new : new = WithRoom(old.cursor, x)
      OBVIOUS
    <3>2. conn' = CopyChanged(c, new)
      BY <1>2, <2>1, <3>1 DEF touchResumeSessionRoom
    <3>3. /\ DOMAIN new = DOMAIN old.cursor \cup {x}
          /\ \A y \in DOMAIN new : new[y] = IF y \in DOMAIN old.cursor THEN old.cursor[y] ELSE 0
      BY <3>1 DEF WithRoom
    <3>4. SoundCursors(new)
      BY <1>3, <3>3 DEF SoundRecord, SoundCursors
    <3>5. Covers(old.cursor) => Covers(new)
      BY <1>3, <1>6, <3>3 DEF Covers, SoundRecord, SoundCursors
    <3>6. QED BY <3>2, <3>4, <3>5
  <2>2. ASSUME NEW n \in 1..MaxSequence, persistResumeSessionCursor(c, x, n)
        PROVE  \E cursor : /\ conn' = CopyChanged(c, cursor) /\ SoundCursors(cursor)
                           /\ Covers(old.cursor) => Covers(cursor)
    <3>1. PICK new : new = [old.cursor EXCEPT ![x] = n]
      OBVIOUS
    <3>2. conn' = CopyChanged(c, new) /\ x \in DOMAIN old.cursor /\ n > old.cursor[x]
      BY <1>2, <2>2, <3>1 DEF persistResumeSessionCursor, Higher
    <3>3. /\ DOMAIN new = DOMAIN old.cursor
          /\ \A y \in DOMAIN new : new[y] = IF y = x THEN n ELSE old.cursor[y]
      BY <3>1
    <3>4. n \in Nat
      BY SessionAssumption
    <3>5. SoundCursors(new)
      BY <1>3, <3>3, <3>4 DEF SoundRecord, SoundCursors
    <3>6. Covers(old.cursor) => Covers(new)
      BY <1>3, <1>6, <3>2, <3>3, <3>4 DEF Covers, SoundRecord, SoundCursors
    <3>7. QED BY <3>2, <3>5, <3>6
  <2>3. QED BY <2>1, <2>2
<1> DEFINE new == [stage |-> "upsert", copy |->
                     [cursor |-> cursor, scoped |-> old.scoped, expires |-> old.expires]]
<1>8. conn' = [conn EXCEPT ![c] = new]
  BY <1>2, <1>7 DEF CopyChanged
<1>9. SoundRecord(new.copy) /\ new.copy.cursor = cursor
  BY <1>3, <1>7 DEF SoundRecord
<1> HIDE DEF new
<1>10. ~shared' => Holders \subseteq {c} /\ (~Absent => Covers(new.copy.cursor))
  BY <1>1, <1>4, <1>5, <1>7, <1>9 DEF SessionInv, SingleHolder
<1>11. shared' \in BOOLEAN /\ expiry' \in Nat /\ (~shared' => ~shared)
  BY <1>1 DEF SessionInv, SessionTypes
<1>12. QED BY <1>1, <1>8, <1>9, <1>10, <1>11, ConnStep

\* A copy is written back.
LEMMA UpsertConnStep ==
  ASSUME SessionInv, NEW c \in Connections, upsertConnResumeSession(c)
  PROVE  SessionInv'
<1>1. PICK rec : rec = conn[c].copy
  OBVIOUS
<1>2. /\ conn[c].stage \in {"upsert", "create"} /\ UpsertResumeSession(rec)
      /\ shared' = (shared \/ (conn[c].stage = "upsert" /\ Absent))
      /\ conn' = [conn EXCEPT ![c] = [stage |-> "open", copy |-> rec]]
      /\ UNCHANGED <<expiry, passed>>
  BY <1>1 DEF upsertConnResumeSession
<1>3. SessionTypes /\ SoundRecord(rec) /\ c \in Holders
  BY <1>1, <1>2 DEF SessionInv, SessionTypes, Holders
<1>4. /\ SessionExpires' /\ SoundRecord(session') /\ best' \in [SessionRooms -> Nat]
      /\ ~Absent' => /\ session' = rec
                     /\ \A x \in SessionRooms :
                           LET now == IF x \in DOMAIN rec.cursor THEN rec.cursor[x] ELSE 0 IN
                           best'[x] = IF Absent \/ now > best[x] THEN now ELSE best[x]
  BY <1>2, <1>3, UpsertSessionStep
<1>5. /\ conn'[c].stage = "open" /\ conn'[c].copy = rec /\ DOMAIN conn' = Connections
      /\ \A d \in Connections \ {c} : conn'[d] = conn[d]
  BY <1>2, <1>3 DEF SessionTypes
<1>6. shared' \in BOOLEAN /\ (~shared' => ~shared)
  BY <1>2
<1>7. SessionTypes'
  <2>1. \A d \in Connections : SoundRecord(conn'[d].copy)
    BY <1>3, <1>5 DEF SessionTypes
  <2>2. QED BY <1>2, <1>3, <1>4, <1>5, <1>6, <2>1 DEF SessionTypes
<1>8. ASSUME ~shared' PROVE SingleHolder'
  <2>1. SingleHolder
    BY <1>6, <1>8 DEF SessionInv
  <2>2. Holders' \subseteq {c}
    BY <1>3, <1>5, <2>1 DEF SingleHolder, Holders
  <2>3. ASSUME ~Absent' PROVE Highest(session.cursor)' /\ Covers(conn[c].copy.cursor)'
    <3>1. ~Absent => Covers(rec.cursor)
      BY <1>1, <1>3, <2>1 DEF SingleHolder
    <3>2. ASSUME NEW x \in SessionRooms
          PROVE  best'[x] = IF x \in DOMAIN rec.cursor THEN rec.cursor[x] ELSE 0
      <4>1. best[x] \in Nat /\ (x \in DOMAIN rec.cursor => rec.cursor[x] \in Nat)
        BY <1>3 DEF SessionTypes, SoundRecord, SoundCursors
      <4>2. best'[x] = LET now == IF x \in DOMAIN rec.cursor THEN rec.cursor[x] ELSE 0 IN
                       IF Absent \/ now > best[x] THEN now ELSE best[x]
        BY <1>4, <2>3
      <4>3. CASE Absent
        BY <4>2, <4>3
      <4>4. CASE ~Absent
        <5>1. IF x \in DOMAIN rec.cursor THEN best[x] <= rec.cursor[x] ELSE best[x] = 0
          BY <3>1, <4>4 DEF Covers
        <5>2. QED BY <4>1, <4>2, <4>4, <5>1
      <4>5. QED BY <4>3, <4>4
    <3>3. session' = rec /\ conn'[c].copy = rec
      BY <1>4, <1>5, <2>3
    <3>4. \A x \in DOMAIN rec.cursor : rec.cursor[x] \in Nat
      BY <1>3 DEF SoundRecord, SoundCursors
    <3>5. QED BY <3>2, <3>3, <3>4 DEF Highest, Covers
  <2>4. \A d, e \in Holders' : d = e
    BY <2>2
  <2>5. ~Absent' => \A d \in Holders' : Covers(conn[d].copy.cursor)'
    <3>1. ASSUME ~Absent', NEW d \in Holders' PROVE Covers(conn[d].copy.cursor)'
      <4>1. d = c
        BY <2>2, <3>1
      <4>2. QED BY <2>3, <3>1, <4>1
    <3>2. QED BY <3>1
  <2>6. QED BY <2>3, <2>4, <2>5 DEF SingleHolder
<1>9. QED BY <1>4, <1>7, <1>8 DEF SessionInv

\* The record is gone: whatever copies there are, the next record starts anew.
LEMMA SessionGoneStep ==
  ASSUME SessionInv, session' = NoSession, best' = [x \in SessionRooms |-> 0],
         passed' \in Nat, UNCHANGED <<roomIndex, conn, expiry, shared>>
  PROVE  SessionInv'
<1>1. SoundRecord(NoSession)
  BY DEF SoundRecord, SoundCursors, NoSession, NoCursors
<1>2. SessionTypes'
  BY <1>1 DEF SessionInv, SessionTypes
<1>3. Absent'
  BY DEF Absent
<1>4. ~shared' => \A c, d \in Holders' : c = d
  BY DEF SessionInv, SingleHolder, Holders
<1>5. QED BY <1>2, <1>3, <1>4 DEF SessionInv, SessionExpires, SingleHolder

\* Time passes.
LEMMA ExpireStep ==
  ASSUME SessionInv, Expire
  PROVE  SessionInv'
<1>1. /\ passed' = passed + 1 /\ session' = ExpireAt(session, passed + 1)
      /\ best' = (IF session' = NoSession THEN [x \in SessionRooms |-> 0] ELSE best)
      /\ UNCHANGED <<roomIndex, conn, expiry, shared>>
  BY DEF Expire
<1>2. passed' \in Nat
  BY <1>1 DEF SessionInv, SessionTypes
<1>3. CASE session' = NoSession
  BY <1>1, <1>2, <1>3, SessionGoneStep
<1>4. CASE session' # NoSession
  <2>1. session' = session /\ session.expires > passed + 1 /\ best' = best
    BY <1>1, <1>4 DEF ExpireAt, SessionInv, SessionTypes, SoundRecord
  <2>2. SessionTypes'
    BY <1>1, <1>2, <2>1 DEF SessionInv, SessionTypes
  <2>3. SessionExpires'
    BY <1>1, <1>4, <2>1 DEF SessionInv, SessionExpires, Absent
  <2>4. ~shared' => SingleHolder'
    BY <1>1, <2>1 DEF SessionInv, SingleHolder, Holders, Absent, Highest, Covers
  <2>5. QED BY <2>2, <2>3, <2>4 DEF SessionInv
<1>5. QED BY <1>3, <1>4

\* The admin API writes a record of its own, or deletes the record.
LEMMA AdminSessionStep ==
  ASSUME SessionInv, NEW r \in Requests, AdminUpsert(r) \/ DeleteResumeSession(r),
         At(r, "UpsertSession", "started") => req[r].arg.x \in SessionRooms
  PROVE  SessionInv'
<1>1. CASE AdminUpsert(r)
  <2>1. PICK rec : rec = [cursor |-> WithRoom(NoCursors, req[r].arg.x), scoped |-> TRUE,
                          expires |-> expiry + 1]
    OBVIOUS
  <2>2. /\ UpsertResumeSession(rec) /\ expiry' = expiry + 1 /\ shared' = TRUE
        /\ UNCHANGED <<conn, passed>> /\ req[r].arg.x \in SessionRooms
    BY <1>1, <2>1 DEF AdminUpsert
  <2>3. SoundRecord(rec)
    <3>1. SoundCursors(rec.cursor)
      BY <2>1, <2>2 DEF SoundCursors, WithRoom, NoCursors
    <3>2. rec.expires \in Nat
      BY <2>1 DEF SessionInv, SessionTypes
    <3>3. QED BY <3>1, <3>2 DEF SoundRecord
  <2>4. SessionTypes
    BY DEF SessionInv
  <2>5. SessionExpires' /\ SoundRecord(session') /\ best' \in [SessionRooms -> Nat]
    BY <2>2, <2>3, <2>4, UpsertSessionStep
  <2>6. SessionTypes'
    BY <2>2, <2>4, <2>5 DEF SessionTypes
  <2>7. QED BY <2>2, <2>5, <2>6 DEF SessionInv
<1>2. CASE DeleteResumeSession(r)
  <2>1. UNCHANGED <<roomIndex, conn, expiry, passed, shared>>
    BY <1>2 DEF DeleteResumeSession
  <2>2. passed' \in Nat
    BY <2>1 DEF SessionInv, SessionTypes
  <2>3. CASE session' = NoSession /\ best' = [x \in SessionRooms |-> 0]
    BY <2>1, <2>2, <2>3, SessionGoneStep
  <2>4. CASE UNCHANGED <<session, best>>
    BY <2>1, <2>4 DEF SessionInv, SessionTypes, SessionExpires, SingleHolder, Holders, Absent,
       Highest, Covers
  <2>5. QED BY <1>2, <2>3, <2>4 DEF DeleteResumeSession
<1>3. QED BY <1>1, <1>2

\* A step of the ledger, or none.
LEMMA SessionStays ==
  ASSUME SessionInv, UNCHANGED sessionVars
  PROVE  SessionInv'
BY DEF SessionInv, SessionTypes, SessionExpires, SingleHolder, Holders, Absent, Highest, Covers,
   sessionVars

\* The session's requests: an upsert names a room.
SessionRequestSound(q) ==
    /\ req[q].stage \in {"idle", "started", "done"} \cup LedgerStages
    /\ req[q].stage = "started" =>
         /\ req[q].op \in {"UpsertSession", "DeleteSession"}
         /\ req[q].op = "UpsertSession" => req[q].arg.x \in SessionRooms

SessionRequests == DOMAIN req = Requests /\ \A q \in Requests : SessionRequestSound(q)

\* A step of r leaves the other requests sound.
LEMMA SessionRequestMoves ==
  ASSUME SessionRequests, NEW r \in Requests, NEW keys, OthersKeepUnder(r, keys),
         SessionRequestSound(r)'
  PROVE  SessionRequests'
BY DEF SessionRequests, SessionRequestSound, OthersKeepUnder, KeepsUnder

\* A request is accepted.
LEMMA SessionAccepted ==
  ASSUME SessionInv, LedgerInv, SessionRequests, NEW r \in Requests,
         handleResumeSession(r) \/ \E x \in SessionRooms : handleUpsertResumeSession(r, x)
  PROVE  (SessionInv /\ LedgerInv /\ SessionRequests)'
<1>1. PICK op, arg :
        /\ op \in {"UpsertSession", "DeleteSession"} /\ Accepted(r, op, arg)
        /\ op = "UpsertSession" => arg.x \in SessionRooms
  <2>1. CASE handleResumeSession(r)
    <3>1. Accepted(r, "DeleteSession", Nothing)
      BY <2>1 DEF handleResumeSession
    <3>2. PICK op, arg : op = "DeleteSession" /\ arg = Nothing
      OBVIOUS
    <3>3. op # "UpsertSession" /\ op \in {"UpsertSession", "DeleteSession"} /\ Accepted(r, op, arg)
      BY <3>1, <3>2
    <3>4. QED BY <3>3, Zenon
  <2>2. ASSUME NEW x \in SessionRooms, handleUpsertResumeSession(r, x)
        PROVE  \E op, arg :
                   /\ op \in {"UpsertSession", "DeleteSession"} /\ Accepted(r, op, arg)
                   /\ op = "UpsertSession" => arg.x \in SessionRooms
    <3>1. PICK arg : arg = [x |-> x]
      OBVIOUS
    <3>2. Accepted(r, "UpsertSession", arg) /\ arg.x \in SessionRooms
      BY <2>2, <3>1 DEF handleUpsertResumeSession
    <3>3. QED BY <3>2
  <2>3. QED BY <2>1, <2>2
<1>2. /\ Start(r, op, arg)
      /\ UNCHANGED <<ledgerVars, session, roomIndex, conn, expiry, passed, best, shared>>
  BY <1>1 DEF Accepted
<1>3. /\ req[r].stage = "idle" /\ req'[r].op = op /\ req'[r].stage = "started"
      /\ req'[r].arg = arg /\ OthersKeepUnder(r, {})
  BY <1>2, StartStep DEF LedgerInv
<1>4. SessionInv'
  BY <1>2 DEF SessionInv, SessionTypes, SessionExpires, SingleHolder, Holders, Absent, Highest,
     Covers
<1>5. LedgerInv'
  BY <1>2, <1>3, LedgerQuiet DEF LedgerStages
<1>6. SessionRequestSound(r)'
  BY <1>1, <1>3 DEF SessionRequestSound
<1>7. QED BY <1>3, <1>4, <1>5, <1>6, SessionRequestMoves

\* The admin API's changes are accounted for.
LEMMA AdminAccounted ==
  ASSUME LedgerInv, SessionRequests, NEW r \in Requests, AdminUpsert(r) \/ DeleteResumeSession(r)
  PROVE  (LedgerInv /\ SessionRequests)'
<1>1. req[r].stage = "started"
  BY DEF AdminUpsert, DeleteResumeSession, At
<1>2. CASE req' = Audited(r) /\ Owes(r)
  <2>1. req'[r].stage = "audit" /\ OthersKeepUnder(r, {})
    BY <1>2, AdvanceStep DEF Audited, Becomes, LedgerInv
  <2>2. LedgerInv'
    BY <1>1, <1>2, <2>1, LedgerCommits DEF LedgerStages
  <2>3. QED BY <2>1, <2>2, SessionRequestMoves DEF SessionRequestSound, LedgerStages
<1>3. CASE req' = Finished(r) /\ UNCHANGED ledgerVars
  <2>1. req'[r].stage = "done" /\ OthersKeepUnder(r, {})
    BY <1>3, FinishedStep DEF Becomes, LedgerInv
  <2>2. LedgerInv'
    BY <1>1, <1>3, <2>1, LedgerQuiet DEF LedgerStages
  <2>3. QED BY <2>1, <2>2, SessionRequestMoves DEF SessionRequestSound
<1>4. QED BY <1>2, <1>3 DEF AdminUpsert, DeleteResumeSession

\* The session's and the ledger's invariants hold together.
LEMMA SessionInvariant == SessionSpec => [](SessionInv /\ LedgerInv /\ SessionRequests)
<1> DEFINE Inv == SessionInv /\ LedgerInv /\ SessionRequests
<1>1. RequestInit /\ LedgerInit /\ SessionInit => Inv
  <2> SUFFICES ASSUME RequestInit, LedgerInit, SessionInit PROVE Inv
    OBVIOUS
  <2>1. SoundRecord(NoSession)
    BY DEF SoundRecord, SoundCursors, NoSession, NoCursors
  <2>2. SessionTypes
    BY <2>1 DEF SessionInit, SessionTypes, Closed
  <2>3. Absent /\ Holders = {}
    BY DEF SessionInit, Absent, Holders, Closed
  <2>4. SessionInv
    BY <2>2, <2>3 DEF SessionInv, SessionExpires, SingleHolder
  <2>5. SessionRequests
    BY DEF SessionRequests, SessionRequestSound, RequestInit, Unused, RequestAt
  <2>6. QED BY <2>4, <2>5, LedgerInitSound
<1>2. ASSUME Inv, UNCHANGED <<requestVars, ledgerVars>> PROVE LedgerInv' /\ SessionRequests'
  <2>1. LedgerInv'
    BY <1>2 DEF LedgerInv, LedgerTypes, LedgerRequestSound, LedgerComplete, UsageExact,
       AuditComplete, ledgerVars, requestVars
  <2>2. SessionRequests'
    BY <1>2 DEF SessionRequests, SessionRequestSound, requestVars
  <2>3. QED BY <2>1, <2>2
<1>3. ASSUME Inv, NEW c \in Connections, RuntimeSession(c), UNCHANGED <<requestVars, ledgerVars>>
      PROVE  Inv'
  <2>1. SessionInv'
    BY <1>3, OpenCloseStep, CopySessionStep, ChangeCopyStep, UpsertConnStep DEF RuntimeSession
  <2>2. QED BY <1>2, <1>3, <2>1
<1>4. ASSUME Inv, Expire, UNCHANGED <<requestVars, ledgerVars>> PROVE Inv'
  BY <1>2, <1>4, ExpireStep
<1>5. ASSUME Inv, NEW r \in Requests,
             handleResumeSession(r) \/ \E x \in SessionRooms : handleUpsertResumeSession(r, x)
      PROVE  Inv'
  BY <1>5, SessionAccepted
<1>6. ASSUME Inv, NEW r \in Requests, AdminUpsert(r) \/ DeleteResumeSession(r) PROVE Inv'
  <2>1. At(r, "UpsertSession", "started") => req[r].arg.x \in SessionRooms
    BY <1>6 DEF SessionRequests, SessionRequestSound, At
  <2>2. QED BY <1>6, <2>1, AdminSessionStep, AdminAccounted
<1>7. ASSUME Inv, NEW r \in Requests, LedgerStep(r) /\ UNCHANGED sessionVars PROVE Inv'
  <2>1. /\ req'[r].stage \in {"counted", "audit", "done"} /\ OthersKeepUnder(r, {})
    BY <1>7, LedgerStepMoves DEF LedgerInv
  <2>2. SessionRequests'
    BY <1>7, <2>1, SessionRequestMoves DEF SessionRequestSound, LedgerStages
  <2>3. QED BY <1>7, <2>2, LedgerStepSound, SessionStays
<1>8. ASSUME Inv, NEW r \in Requests, ChangeCallFails(r, {"started"}) /\ UNCHANGED sessionVars
      PROVE  Inv'
  <2>1. CallFails(r) /\ req[r].stage = "started" /\ UNCHANGED ledgerVars
    BY <1>8 DEF ChangeCallFails
  <2>2. req'[r].stage = "done" /\ OthersKeepUnder(r, {})
    BY <1>8, <2>1, RefusedStep DEF Becomes, LedgerInv
  <2>3. SessionRequests'
    BY <1>8, <2>2, SessionRequestMoves DEF SessionRequestSound
  <2>4. LedgerInv'
    BY <1>8, <2>1, LedgerRefused DEF LedgerStages
  <2>5. QED BY <1>8, <2>3, <2>4, SessionStays
<1>9. Inv /\ [SessionNext]_<<requestVars, ledgerVars, sessionVars>> => Inv'
  <2>1. Inv /\ UNCHANGED <<requestVars, ledgerVars, sessionVars>> => Inv'
    BY <1>2, SessionStays
  <2>2. Inv /\ SessionNext => Inv'
    BY <1>3, <1>4, <1>5, <1>6, <1>7, <1>8 DEF SessionNext
  <2>3. QED BY <2>1, <2>2
<1>10. QED BY <1>1, <1>9, PTL DEF SessionSpec

\* What a client resumes from is sound: the session ends when it should, and
\* held by one connection at a time it carries the highest acknowledgements
\* (UpsertResumeSession, persistResumeSessionCursor).
THEOREM SessionsAreSound == SessionSpec => []SessionsSound
BY SessionInvariant, SessionIsSound, PTL

\* A session the admin API wrote or deleted is in the audit log.
THEOREM SessionsAccounted == SessionSpec => []LedgerComplete
BY SessionInvariant, PTL DEF LedgerInv
-----------------------------------------------------------------------------
(* Webhook deliveries.                                                     *)

DeliveryIds == Requests \X Nat
Statuses == {"pending", "failed", "delivered", "dead"}
Final == {"delivered", "dead"}
DeliveryRecords == [status : Statuses, attempts : Nat]
Copies == [id : DeliveryIds, rec : DeliveryRecords]
HoldStages == {"create", "index", "post", "update", "mark"}

\* What a record of id says is true, as far as it goes.
TrueRecord(id, rec) ==
    /\ rec.status \in Statuses /\ rec.attempts \in Nat
    /\ rec.status = "delivered" => id \in accepted
    /\ rec.attempts <= Sent(id)
    /\ rec.status = "dead" => Sent(id) >= DeadAfter \/ id \in buried

\* One attempt more than rec tells of has been made.
Attempted(id, rec, ok) ==
    /\ rec.attempts + 1 <= Sent(id)
    /\ ok \in BOOLEAN /\ ok => id \in accepted

\* A request's operation and stage, and the copy it holds.
DeliveryRequestSound(q) ==
    /\ req[q].stage \in HoldStages \cup {"idle", "started", "audit", "done"}
    /\ req[q].stage \notin {"idle", "done"} => req[q].op \in WebhookOps
    /\ req[q].stage \in {"create", "index"} => req[q].op = "Dispatch"
    /\ req[q].stage \in {"post", "update"} => req[q].op \in {"Dispatch", "Retry"}
    /\ req[q].stage = "mark" => req[q].op = "DeadLetter"
    /\ req[q].stage = "started" /\ req[q].op # "Dispatch" => req[q].arg.id \in DOMAIN deliveries
    /\ req[q].stage \in HoldStages =>
         /\ req[q].got.id \in DeliveryIds /\ TrueRecord(req[q].got.id, req[q].got.rec)
         /\ req[q].op = "Dispatch" => req[q].got.id[1] = q
         /\ req[q].op # "Dispatch" => req[q].got.id \in DOMAIN deliveries
    /\ req[q].stage \in {"create", "index"} => req[q].got.rec = [status |-> "pending", attempts |-> 0]
    /\ req[q].stage = "update" => Attempted(req[q].got.id, req[q].got.rec, req[q].got.ok)

\* A worker's list, and the copies it holds.
WorkerSound(w) ==
    /\ worker[w].ids \in Seq(DeliveryIds)
    /\ \A i \in 1..Len(worker[w].ids) : worker[w].ids[i] \in ToSet(deliveryIndex)
    /\ worker[w].todo \in Seq(Copies)
    /\ \A i \in 1..Len(worker[w].todo) :
          /\ TrueRecord(worker[w].todo[i].id, worker[w].todo[i].rec)
          /\ worker[w].todo[i].id \in DOMAIN deliveries
          /\ worker[w].todo[i].id \in ToSet(deliveryIndex)
    /\ worker[w].posted =>
         /\ worker[w].ids = << >> /\ worker[w].todo # << >>
         /\ Attempted(worker[w].todo[1].id, worker[w].todo[1].rec, worker[w].ok)

DeliveryTypes ==
    /\ DOMAIN req = Requests /\ DOMAIN worker = Workers
    /\ \A id \in DOMAIN posts : posts[id] \in Nat
    /\ deliveryIndex \in Seq(DeliveryIds)
    /\ DOMAIN deliveries \subseteq DeliveryIds
    /\ \A id \in DOMAIN deliveries :
          deliveries[id] \in DeliveryRecords /\ TrueRecord(id, deliveries[id])

TruthInv ==
    /\ DeliveryTypes
    /\ \A q \in Requests : DeliveryRequestSound(q)
    /\ \A w \in Workers : WorkerSound(w)

\* A record is in the index, or its dispatcher still has to put it there, or
\* was cut off.
Listed(id) ==
    \/ id \in ToSet(deliveryIndex)
    \/ id \in interrupted
    \/ \E r \in Requests : req[r].stage = "index" /\ req[r].got.id = id

\* A record is final, or marked failed in the index, or a request that will
\* write it again, or leave its mark if it is cut off, holds a copy.
Anchored(id) ==
    \/ deliveries[id].status \in Final
    \/ deliveries[id].status = "failed" /\ id \in ToSet(deliveryIndex)
    \/ id \in interrupted
    \/ \E r \in Requests : req[r].stage \in HoldStages \ {"mark"} /\ req[r].got.id = id

AnchorInv == \A id \in DOMAIN deliveries : Listed(id) /\ Anchored(id)

\* Requests and workers that hold a copy of the record of id.
RequestHolds(q, id) == req[q].stage \in HoldStages /\ req[q].got.id = id
WorkerHolds(w, i, id) == i \in 1..Len(worker[w].todo) /\ worker[w].todo[i].id = id

\* A record of id that is not contested has one holder, and is open while a
\* dispatcher or a worker is the one.
Uncontested(id) ==
    /\ \A q \in Requests : RequestHolds(q, id) =>
          /\ req[q].op # "Retry"
          /\ req[q].op = "Dispatch" /\ id \in DOMAIN deliveries => deliveries[id].status \notin Final
          /\ \A p \in Requests : RequestHolds(p, id) => p = q
          /\ \A w \in Workers, i \in Nat : ~WorkerHolds(w, i, id)
    /\ \A w \in Workers, i \in Nat : WorkerHolds(w, i, id) =>
          /\ id \in DOMAIN deliveries => deliveries[id].status \notin Final
          /\ \A v \in Workers, j \in Nat : WorkerHolds(v, j, id) => v = w /\ j = i

\* A dispatcher creates its records one after the other.
Created(q) ==
    \A u \in Nat : <<q, u>> \in DOMAIN deliveries =>
        /\ req[q].op = "Dispatch" /\ req[q].stage \in HoldStages \cup {"done"}
        /\ req[q].stage = "create" => u < req[q].got.id[2]
        /\ req[q].stage \in HoldStages => u <= req[q].got.id[2]

HandsInv ==
    /\ \A id \in DeliveryIds \ contested : Uncontested(id)
    /\ \A q \in Requests : Created(q)

WebhookInv == TruthInv /\ AnchorInv /\ HandsInv

\* What is in the index is among what a scan lists, or behind it.
LEMMA IndexedIsScanned ==
  ASSUME WebhookInv
  PROVE  ToSet(deliveryIndex) \subseteq ToSet(Scanned) \cup OutOfReach
<1>1. PICK s : s = deliveryIndex
  OBVIOUS
<1>2. s \in Seq(DeliveryIds) /\ ScanWindow \in Nat
  BY <1>1, WebhookAssumption DEF WebhookInv, TruthInv, DeliveryTypes
<1>3. ASSUME NEW i \in 1..Len(s) PROVE s[i] \in ToSet(Scanned) \cup OutOfReach
  <2>1. CASE i > ScanWindow
    BY <1>1, <1>2, <2>1 DEF OutOfReach
  <2>2. CASE Len(s) <= ScanWindow
    BY <1>1, <1>2, <2>2 DEF Scanned, ToSet
  <2>3. CASE i <= ScanWindow /\ ~(Len(s) <= ScanWindow)
    <3>1. PICK t : t = SubSeq(s, 1, ScanWindow)
      OBVIOUS
    <3>2. DOMAIN t = 1..ScanWindow /\ i \in 1..ScanWindow /\ t[i] = s[i]
      BY <1>2, <2>3, <3>1
    <3>3. Scanned = t
      BY <1>1, <2>3, <3>1 DEF Scanned
    <3>4. QED BY <3>2, <3>3 DEF ToSet
  <2>4. QED BY <1>2, <2>1, <2>2, <2>3
<1>4. QED BY <1>1, <1>2, <1>3 DEF ToSet

\* What the deliveries' properties say of a state.
LEMMA DeliveriesInState ==
  ASSUME WebhookInv
  PROVE  DeliveriesTruthful /\ NothingStranded
<1>1. DeliveriesTruthful
  BY DEF WebhookInv, TruthInv, DeliveryTypes, TrueRecord, DeliveriesTruthful
<1>2. ASSUME NEW id \in DOMAIN deliveries PROVE
        \/ deliveries[id].status \in {"delivered", "dead"}
        \/ InHands(id)
        \/ deliveries[id].status = "failed" /\ id \in ToSet(Scanned) \cup OutOfReach
        \/ id \in interrupted
  <2>1. Anchored(id)
    BY DEF WebhookInv, AnchorInv
  <2>2. ASSUME NEW r \in Requests, req[r].stage \in HoldStages \ {"mark"}, req[r].got.id = id
        PROVE  InHands(id)
    <3>1. req[r].op \in WebhookOps
      BY <2>2 DEF WebhookInv, TruthInv, DeliveryRequestSound, HoldStages
    <3>2. QED BY <2>2, <3>1 DEF InHands, HeldByRequest, HoldStages
  <2>3. QED BY <2>1, <2>2, IndexedIsScanned DEF Anchored, Final
<1>3. QED BY <1>1, <1>2 DEF NothingStranded

\* What was sent, answered and buried only grows, and so does the index.
Grows ==
    /\ \A id : Sent(id) \in Nat /\ Sent(id)' \in Nat /\ Sent(id) <= Sent(id)'
    /\ accepted \subseteq accepted' /\ buried \subseteq buried'
    /\ ToSet(deliveryIndex) \subseteq ToSet(deliveryIndex)'
    /\ DOMAIN deliveries \subseteq DOMAIN deliveries'

\* What is true of a record stays true.
LEMMA TrueRecordStays ==
  ASSUME Grows, NEW id, NEW rec, TrueRecord(id, rec)
  PROVE  TrueRecord(id, rec)'
<1>1. Sent(id) \in Nat /\ Sent(id)' \in Nat /\ Sent(id) <= Sent(id)'
  BY DEF Grows
<1>2. /\ rec.status \in Statuses /\ rec.attempts \in Nat
      /\ rec.status = "delivered" => id \in accepted'
      /\ rec.attempts <= Sent(id)'
  BY <1>1 DEF TrueRecord, Grows
<1>3. rec.status = "dead" => Sent(id)' >= DeadAfter \/ id \in buried'
  BY <1>1, WebhookAssumption DEF TrueRecord, Grows
<1>4. QED BY <1>2, <1>3 DEF TrueRecord

\* What was attempted stays so.
LEMMA AttemptedStays ==
  ASSUME Grows, NEW id, NEW rec, NEW ok, rec.attempts \in Nat, Attempted(id, rec, ok)
  PROVE  Attempted(id, rec, ok)'
<1>1. Sent(id) \in Nat /\ Sent(id)' \in Nat /\ Sent(id) <= Sent(id)'
  BY DEF Grows
<1>2. rec.attempts + 1 <= Sent(id)'
  BY <1>1 DEF Attempted
<1>3. QED BY <1>2 DEF Attempted, Grows

\* A request that another's step leaves alone stays sound.
LEMMA DeliveryOthersSound ==
  ASSUME NEW q \in Requests, DeliveryRequestSound(q), Grows,
         KeepsUnder(q, {}) \/ req'[q] = req[q]
  PROVE  DeliveryRequestSound(q)'
<1>1. /\ req'[q].op = req[q].op /\ req'[q].stage = req[q].stage
      /\ req'[q].arg = req[q].arg /\ req'[q].got = req[q].got
  BY DEF KeepsUnder
<1>2. PICK h : h = req[q].got
  OBVIOUS
<1>3. DOMAIN deliveries \subseteq DOMAIN deliveries'
  BY DEF Grows
<1>4. req[q].stage \in HoldStages => TrueRecord(h.id, h.rec) /\ TrueRecord(h.id, h.rec)'
  BY <1>2, TrueRecordStays DEF DeliveryRequestSound
<1>5. req[q].stage = "update" => Attempted(h.id, h.rec, h.ok)'
  BY <1>2, <1>4, AttemptedStays DEF DeliveryRequestSound, HoldStages, TrueRecord
<1>6. QED BY <1>1, <1>2, <1>3, <1>4, <1>5 DEF DeliveryRequestSound

\* A worker that another's step leaves alone stays sound.
LEMMA WorkerOthersSound ==
  ASSUME NEW w \in Workers, WorkerSound(w), Grows, worker'[w] = worker[w]
  PROVE  WorkerSound(w)'
<1>1. PICK k : k = worker[w]
  OBVIOUS
<1>2. ToSet(deliveryIndex) \subseteq ToSet(deliveryIndex)' /\ DOMAIN deliveries \subseteq DOMAIN deliveries'
  BY DEF Grows
<1>3. k.ids \in Seq(DeliveryIds) /\ \A i \in 1..Len(k.ids) : k.ids[i] \in ToSet(deliveryIndex)'
  BY <1>1, <1>2 DEF WorkerSound
<1>4. k.todo \in Seq(Copies)
  BY <1>1 DEF WorkerSound
<1>5. ASSUME NEW i \in 1..Len(k.todo)
      PROVE  /\ TrueRecord(k.todo[i].id, k.todo[i].rec)'
             /\ k.todo[i].id \in DOMAIN deliveries' /\ k.todo[i].id \in ToSet(deliveryIndex)'
  <2>1. /\ TrueRecord(k.todo[i].id, k.todo[i].rec)
        /\ k.todo[i].id \in DOMAIN deliveries /\ k.todo[i].id \in ToSet(deliveryIndex)
    BY <1>1 DEF WorkerSound
  <2>2. QED BY <1>2, <2>1, TrueRecordStays
<1>6. ASSUME k.posted
      PROVE  k.ids = << >> /\ k.todo # << >> /\ Attempted(k.todo[1].id, k.todo[1].rec, k.ok)'
  <2>1. k.ids = << >> /\ k.todo # << >> /\ Attempted(k.todo[1].id, k.todo[1].rec, k.ok)
    BY <1>1, <1>6 DEF WorkerSound
  <2>2. 1 \in 1..Len(k.todo)
    BY <1>4, <2>1
  <2>3. k.todo[1].rec.attempts \in Nat
    BY <1>5, <2>2 DEF TrueRecord
  <2>4. QED BY <2>1, <2>3, AttemptedStays
<1>7. worker'[w] = k
  BY <1>1
<1>8. QED BY <1>3, <1>4, <1>5, <1>6, <1>7 DEF WorkerSound

\* A step of a request.
LEMMA TruthRequestStep ==
  ASSUME TruthInv, NEW r \in Requests, OthersKeepUnder(r, {}), worker' = worker, Grows,
         DeliveryTypes', DeliveryRequestSound(r)'
  PROVE  TruthInv'
<1>1. ASSUME NEW q \in Requests \ {r} PROVE DeliveryRequestSound(q)'
  BY DeliveryOthersSound DEF TruthInv, OthersKeepUnder
<1>2. ASSUME NEW w \in Workers PROVE WorkerSound(w)'
  BY WorkerOthersSound DEF TruthInv
<1>3. QED BY <1>1, <1>2 DEF TruthInv

\* A step of a worker.
LEMMA TruthWorkerStep ==
  ASSUME TruthInv, NEW w \in Workers, req' = req, Grows, DeliveryTypes', WorkerSound(w)',
         \A v \in Workers \ {w} : worker'[v] = worker[v]
  PROVE  TruthInv'
<1>1. ASSUME NEW q \in Requests PROVE DeliveryRequestSound(q)'
  BY DeliveryOthersSound DEF TruthInv
<1>2. ASSUME NEW v \in Workers \ {w} PROVE WorkerSound(v)'
  BY WorkerOthersSound DEF TruthInv
<1>3. QED BY <1>1, <1>2 DEF TruthInv

\* Nothing that is written down changes.
LEMMA NothingGrows ==
  ASSUME DeliveryTypes, UNCHANGED <<posts, accepted, buried, deliveryIndex>>,
         DOMAIN deliveries \subseteq DOMAIN deliveries'
  PROVE  Grows
BY DEF Grows, Sent, DeliveryTypes

\* An attempt is made.
LEMMA PostGrows ==
  ASSUME DeliveryTypes, NEW id, NEW ok \in BOOLEAN, Post(id, ok), UNCHANGED <<buried, deliveryIndex, deliveries>>
  PROVE  /\ Grows /\ Sent(id)' = Sent(id) + 1 /\ (ok => id \in accepted')
         /\ \A x \in DOMAIN posts' : posts'[x] \in Nat
<1>1. PICK n : n = Sent(id) + 1
  OBVIOUS
<1>2. posts' = Put(posts, id, n)
  BY <1>1 DEF Post
<1>3. Sent(id) \in Nat
  BY DEF Sent, DeliveryTypes
<1>4. /\ DOMAIN posts' = DOMAIN posts \cup {id} /\ posts'[id] = n
      /\ \A x \in DOMAIN posts \ {id} : posts'[x] = posts[x]
  BY <1>2 DEF Put
<1>5. \A x \in DOMAIN posts' : posts'[x] \in Nat
  BY <1>1, <1>3, <1>4 DEF DeliveryTypes
<1>6. Sent(id)' = n
  BY <1>4 DEF Sent
<1>7. ASSUME NEW x PROVE Sent(x) \in Nat /\ Sent(x)' \in Nat /\ Sent(x) <= Sent(x)'
  BY <1>1, <1>3, <1>4, <1>6 DEF Sent, DeliveryTypes
<1>8. QED BY <1>1, <1>5, <1>6, <1>7 DEF Grows, Post

\* A record that is written is true.
LEMMA DeliveryTypesStay ==
  ASSUME DeliveryTypes, Grows, DOMAIN req' = Requests, DOMAIN worker' = Workers,
         \A x \in DOMAIN posts' : posts'[x] \in Nat, deliveryIndex' \in Seq(DeliveryIds),
         \A id \in DOMAIN deliveries' :
            \/ id \in DOMAIN deliveries /\ deliveries'[id] = deliveries[id]
            \/ id \in DeliveryIds
               /\ \E rec \in DeliveryRecords : deliveries'[id] = rec /\ TrueRecord(id, rec)'
  PROVE  DeliveryTypes'
<1>1. ASSUME NEW id \in DOMAIN deliveries'
      PROVE  id \in DeliveryIds
             /\ \E rec \in DeliveryRecords : deliveries'[id] = rec /\ TrueRecord(id, rec)'
  <2>1. CASE id \in DOMAIN deliveries /\ deliveries'[id] = deliveries[id]
    <3>1. PICK rec : rec = deliveries[id]
      OBVIOUS
    <3>2. id \in DeliveryIds /\ rec \in DeliveryRecords /\ TrueRecord(id, rec)
      BY <2>1, <3>1 DEF DeliveryTypes
    <3>3. TrueRecord(id, rec)'
      BY <3>2, TrueRecordStays
    <3>4. QED BY <2>1, <3>1, <3>2, <3>3
  <2>2. QED BY <1>1, <2>1
<1>2. DOMAIN deliveries' \subseteq DeliveryIds
  BY <1>1
<1>3. \A id \in DOMAIN deliveries' : deliveries'[id] \in DeliveryRecords /\ TrueRecord(id, deliveries[id])'
  BY <1>1
<1>4. QED BY <1>2, <1>3 DEF DeliveryTypes

\* Nothing is written.
LEMMA DeliveriesStay ==
  ASSUME DeliveryTypes, DOMAIN req' = Requests, DOMAIN worker' = Workers,
         UNCHANGED <<posts, accepted, buried, deliveryIndex, deliveries>>
  PROVE  Grows /\ DeliveryTypes'
<1>1. Grows
  BY NothingGrows
<1>2. \A x \in DOMAIN posts' : posts'[x] \in Nat
  BY DEF DeliveryTypes
<1>3. deliveryIndex' \in Seq(DeliveryIds)
  BY DEF DeliveryTypes
<1>4. QED BY <1>1, <1>2, <1>3, DeliveryTypesStay

\* What an attempt leaves is true.
LEMMA UpdatedTrue ==
  ASSUME DeliveryTypes, NEW id, NEW rec, NEW ok, rec.attempts \in Nat, Attempted(id, rec, ok)
  PROVE  /\ updateWebhookDeliveryRecord(rec, ok) \in DeliveryRecords
         /\ TrueRecord(id, updateWebhookDeliveryRecord(rec, ok))
         /\ updateWebhookDeliveryRecord(rec, ok).status \in Final \cup {"failed"}
<1>1. PICK n : n = rec.attempts + 1
  OBVIOUS
<1>2. PICK status : status = IF ok THEN "delivered" ELSE FailedStatus(rec.status, n)
  OBVIOUS
<1>3. PICK new : new = [attempts |-> n, status |-> status]
  OBVIOUS
<1>4. updateWebhookDeliveryRecord(rec, ok) = new
  BY <1>1, <1>2, <1>3 DEF updateWebhookDeliveryRecord
<1>5. n \in Nat /\ n <= Sent(id) /\ Sent(id) \in Nat
  BY <1>1 DEF Attempted, Sent, DeliveryTypes
<1>6. /\ status \in {"delivered", "dead", "failed"} /\ (status = "delivered" => ok)
      /\ (status = "dead" => n >= DeadAfter)
  BY <1>2 DEF FailedStatus, Attempted
<1>7. status = "dead" => Sent(id) >= DeadAfter
  BY <1>5, <1>6, WebhookAssumption
<1>8. new.attempts = n /\ new.status = status
  BY <1>3
<1>9. new \in DeliveryRecords
  BY <1>3, <1>5, <1>6 DEF DeliveryRecords, Statuses
<1>10. TrueRecord(id, new)
  BY <1>5, <1>6, <1>7, <1>8 DEF TrueRecord, Statuses, Attempted
<1>11. new.status \in Final \cup {"failed"}
  BY <1>6, <1>8 DEF Final
<1>12. QED BY <1>4, <1>9, <1>10, <1>11

\* A true record is written over the one of id.
LEMMA UpdateWrites ==
  ASSUME DeliveryTypes, NEW id, NEW rec \in DeliveryRecords, TrueRecord(id, rec)',
         UpdateWebhookDelivery(id, rec), DOMAIN req' = Requests, DOMAIN worker' = Workers,
         UNCHANGED <<posts, accepted, deliveryIndex>>, buried \subseteq buried'
  PROVE  /\ Grows /\ DeliveryTypes' /\ DOMAIN deliveries' = DOMAIN deliveries
         /\ \A d \in DOMAIN deliveries : deliveries'[d] = IF d = id THEN rec ELSE deliveries[d]
<1>1. /\ DOMAIN deliveries' = DOMAIN deliveries
      /\ \A d \in DOMAIN deliveries : deliveries'[d] = IF d = id THEN rec ELSE deliveries[d]
  BY DEF UpdateWebhookDelivery
<1>2. Grows
  BY <1>1 DEF Grows, Sent, DeliveryTypes
<1>3. \A x \in DOMAIN posts' : posts'[x] \in Nat
  BY DEF DeliveryTypes
<1>4. deliveryIndex' \in Seq(DeliveryIds)
  BY DEF DeliveryTypes
<1>5. ASSUME NEW d \in DOMAIN deliveries'
      PROVE  \/ d \in DOMAIN deliveries /\ deliveries'[d] = deliveries[d]
             \/ d \in DeliveryIds
                /\ \E new \in DeliveryRecords : deliveries'[d] = new /\ TrueRecord(d, new)'
  BY <1>1, <1>5 DEF DeliveryTypes
<1>6. DeliveryTypes'
  BY <1>2, <1>3, <1>4, <1>5, DeliveryTypesStay
<1>7. QED BY <1>1, <1>2, <1>6

\* A request that holds a copy is sound.
LEMMA HolderSound ==
  ASSUME NEW r \in Requests, NEW id \in DeliveryIds, NEW rec, NEW ok,
         NEW stage \in HoldStages, NEW op \in WebhookOps,
         req'[r].op = op, req'[r].stage = stage,
         req'[r].got.id = id, req'[r].got.rec = rec, req'[r].got.ok = ok,
         TrueRecord(id, rec)', op = "Dispatch" => id[1] = r,
         op # "Dispatch" => id \in DOMAIN deliveries',
         stage \in {"create", "index"} => op = "Dispatch" /\ rec = [status |-> "pending", attempts |-> 0],
         stage \in {"post", "update"} => op # "DeadLetter", stage = "mark" => op = "DeadLetter",
         stage = "update" => Attempted(id, rec, ok)'
  PROVE  DeliveryRequestSound(r)'
BY DEF DeliveryRequestSound, HoldStages, WebhookOps

\* A request that holds none is sound.
LEMMA FreeSound ==
  ASSUME NEW r \in Requests, req'[r].stage \in {"audit", "done"}, req'[r].op \in WebhookOps
  PROVE  DeliveryRequestSound(r)'
BY DEF DeliveryRequestSound, HoldStages

\* What a request that holds a copy knows.
LEMMA HolderKnows ==
  ASSUME TruthInv, NEW r \in Requests, req[r].stage \in HoldStages
  PROVE  /\ req[r].op \in WebhookOps
         /\ req[r].got.id \in DeliveryIds /\ TrueRecord(req[r].got.id, req[r].got.rec)
         /\ req[r].op = "Dispatch" => req[r].got.id[1] = r
         /\ req[r].op # "Dispatch" => req[r].got.id \in DOMAIN deliveries
         /\ req[r].stage \in {"create", "index"} => req[r].got.rec = [status |-> "pending", attempts |-> 0]
         /\ req[r].stage = "update" => Attempted(req[r].got.id, req[r].got.rec, req[r].got.ok)
         /\ req[r].stage \in {"create", "index"} => req[r].op = "Dispatch"
         /\ req[r].stage \in {"post", "update"} => req[r].op \in {"Dispatch", "Retry"}
         /\ req[r].stage = "mark" => req[r].op = "DeadLetter"
BY DEF TruthInv, DeliveryRequestSound, HoldStages

\* A dispatcher takes on the delivery to a URL.
LEMMA ForURLStep ==
  ASSUME DOMAIN req = Requests, NEW r \in Requests, NEW u, req' = ForURL(r, u)
  PROVE  /\ req'[r].op = req[r].op /\ req'[r].stage = "create"
         /\ req'[r].got.id = <<r, u>> /\ req'[r].got.ok = FALSE
         /\ req'[r].got.rec = [status |-> "pending", attempts |-> 0]
         /\ OthersKeepUnder(r, {})
<1>1. PICK got : got = [id |-> <<r, u>>, rec |-> [status |-> "pending", attempts |-> 0], ok |-> FALSE]
  OBVIOUS
<1>2. req' = Advance(r, "create", got)
  BY <1>1 DEF ForURL
<1>3. Becomes(r, "create", req[r].arg, got) /\ OthersKeepUnder(r, {})
  BY <1>2, AdvanceStep
<1>4. QED BY <1>1, <1>3 DEF Becomes

\* A new record is true of a delivery.
LEMMA PendingTrue ==
  ASSUME Grows, NEW id
  PROVE  TrueRecord(id, [status |-> "pending", attempts |-> 0])'
<1>1. Sent(id)' \in Nat
  BY DEF Grows
<1>2. PICK rec : rec = [status |-> "pending", attempts |-> 0]
  OBVIOUS
<1>3. TrueRecord(id, rec)'
  BY <1>1, <1>2 DEF TrueRecord, Statuses
<1>4. QED BY <1>2, <1>3

\* Taking on a delivery keeps what is true.
LEMMA ForURLTruth ==
  ASSUME TruthInv, NEW r \in Requests, NEW u \in Nat, req' = ForURL(r, u), req[r].op = "Dispatch",
         worker' = worker, Grows, DeliveryTypes'
  PROVE  TruthInv'
<1>1. /\ req'[r].op = "Dispatch" /\ req'[r].stage = "create"
      /\ req'[r].got.id = <<r, u>> /\ req'[r].got.ok = FALSE
      /\ req'[r].got.rec = [status |-> "pending", attempts |-> 0]
      /\ OthersKeepUnder(r, {})
  BY ForURLStep DEF TruthInv, DeliveryTypes
<1>2. <<r, u>> \in DeliveryIds /\ <<r, u>>[1] = r
  BY DEF DeliveryIds
<1>3. TrueRecord(<<r, u>>, [status |-> "pending", attempts |-> 0])'
  BY PendingTrue
<1>4. "create" \in HoldStages /\ "Dispatch" \in WebhookOps
  BY DEF HoldStages, WebhookOps
<1>5. DeliveryRequestSound(r)'
  BY <1>1, <1>2, <1>3, <1>4, HolderSound
<1>6. QED BY <1>1, <1>5, TruthRequestStep

\* Where a request goes after its attempt.
LEMMA AfterAttemptStep ==
  ASSUME TruthInv, NEW r \in Requests, req[r].stage = "update", req' = AfterAttempt(r)
  PROVE  \/ /\ req[r].op = "Retry" /\ req'[r].op = "Retry" /\ req'[r].stage = "audit"
            /\ OthersKeepUnder(r, {})
         \/ /\ req[r].op = "Dispatch" /\ req'[r].op = "Dispatch" /\ req'[r].stage = "done"
            /\ OthersKeepUnder(r, {})
         \/ /\ req[r].op = "Dispatch" /\ req[r].got.id[2] + 1 \in Nat
            /\ req' = ForURL(r, req[r].got.id[2] + 1)
<1>1. req[r].got.id \in DeliveryIds /\ req[r].op \in {"Dispatch", "Retry"} /\ DOMAIN req = Requests
  BY HolderKnows DEF HoldStages, TruthInv, DeliveryTypes
<1>2. req[r].got.id[2] + 1 \in Nat
  BY <1>1 DEF DeliveryIds
<1>3. CASE req[r].op = "Retry"
  <2>1. req' = Advance(r, "audit", Nothing)
    BY <1>3 DEF AfterAttempt, Audited
  <2>2. Becomes(r, "audit", req[r].arg, Nothing) /\ OthersKeepUnder(r, {})
    BY <1>1, <2>1, AdvanceStep
  <2>3. QED BY <1>3, <2>2 DEF Becomes
<1>4. CASE req[r].op = "Dispatch" /\ req' = Finished(r)
  BY <1>1, <1>4, FinishedStep DEF Becomes
<1>5. CASE req[r].op = "Dispatch" /\ req' = ForURL(r, req[r].got.id[2] + 1)
  BY <1>2, <1>5
<1>6. QED BY <1>1, <1>3, <1>4, <1>5 DEF AfterAttempt

\* After an attempt, what is true stays so.
LEMMA AfterAttemptTruth ==
  ASSUME TruthInv, NEW r \in Requests, req[r].stage = "update", req' = AfterAttempt(r),
         worker' = worker, Grows, DeliveryTypes'
  PROVE  TruthInv'
<1>1. CASE /\ req'[r].op \in {"Retry", "Dispatch"} /\ req'[r].stage \in {"audit", "done"}
           /\ OthersKeepUnder(r, {})
  <2>1. DeliveryRequestSound(r)'
    BY <1>1, FreeSound DEF WebhookOps
  <2>2. QED BY <1>1, <2>1, TruthRequestStep
<1>2. CASE /\ req[r].op = "Dispatch" /\ req[r].got.id[2] + 1 \in Nat
           /\ req' = ForURL(r, req[r].got.id[2] + 1)
  BY <1>2, ForURLTruth
<1>3. QED BY <1>1, <1>2, AfterAttemptStep

\* A request starts.
LEMMA TruthStarts ==
  ASSUME TruthInv, NEW r \in Requests, UNCHANGED webhookVars,
         \/ dispatchWebhook(r)
         \/ \E op \in {"Retry", "DeadLetter"}, id \in DOMAIN deliveries : handleWebhookDeliveryAction(r, op, id)
  PROVE  /\ TruthInv' /\ Grows /\ OthersKeepUnder(r, {}) /\ req[r].stage = "idle"
         /\ req'[r].stage = "started" /\ req'[r].op \in WebhookOps
<1>1. DOMAIN req = Requests
  BY DEF TruthInv, DeliveryTypes
<1>2. /\ req[r].stage = "idle" /\ req'[r].stage = "started" /\ req'[r].op \in WebhookOps
      /\ OthersKeepUnder(r, {}) /\ DeliveryRequestSound(r)'
  <2>1. CASE dispatchWebhook(r)
    <3>1. Start(r, "Dispatch", Nothing)
      BY <2>1 DEF dispatchWebhook
    <3>2. req[r].stage = "idle" /\ req'[r].stage = "started" /\ req'[r].op = "Dispatch" /\ OthersKeepUnder(r, {})
      BY <1>1, <3>1, StartStep
    <3>3. QED BY <3>2 DEF DeliveryRequestSound, WebhookOps, HoldStages
  <2>2. ASSUME NEW op \in {"Retry", "DeadLetter"}, NEW id \in DOMAIN deliveries,
               handleWebhookDeliveryAction(r, op, id)
        PROVE  /\ req[r].stage = "idle" /\ req'[r].stage = "started" /\ req'[r].op \in WebhookOps
               /\ OthersKeepUnder(r, {}) /\ DeliveryRequestSound(r)'
    <3>1. PICK arg : arg = [id |-> id]
      OBVIOUS
    <3>2. Start(r, op, arg)
      BY <2>2, <3>1 DEF handleWebhookDeliveryAction
    <3>3. /\ req[r].stage = "idle" /\ req'[r].stage = "started" /\ req'[r].op = op
          /\ req'[r].arg = arg /\ OthersKeepUnder(r, {})
      BY <1>1, <3>2, StartStep
    <3>4. req'[r].arg.id \in DOMAIN deliveries'
      BY <3>1, <3>3 DEF webhookVars
    <3>5. QED BY <3>3, <3>4 DEF DeliveryRequestSound, WebhookOps, HoldStages
  <2>3. QED BY <2>1, <2>2
<1>3. Grows /\ DeliveryTypes'
  BY <1>2, DeliveriesStay DEF TruthInv, DeliveryTypes, OthersKeepUnder, webhookVars
<1>4. worker' = worker
  BY DEF webhookVars
<1>5. QED BY <1>2, <1>3, <1>4, TruthRequestStep

\* A dispatcher creates its record.
LEMMA TruthCreates ==
  ASSUME TruthInv, NEW r \in Requests, CreateWebhookDelivery(r)
  PROVE  /\ TruthInv' /\ Grows /\ OthersKeepUnder(r, {})
         /\ req'[r].op = "Dispatch" /\ req'[r].stage = "index" /\ req'[r].got = req[r].got
<1>1. PICK got : got = req[r].got
  OBVIOUS
<1>2. DOMAIN req = Requests /\ req[r].stage = "create" /\ req[r].op = "Dispatch"
  BY DEF CreateWebhookDelivery, At, TruthInv, DeliveryTypes
<1>3. Becomes(r, "index", req[r].arg, got) /\ OthersKeepUnder(r, {})
  BY <1>1, <1>2, AdvanceStep DEF CreateWebhookDelivery
<1>4. /\ got.id \in DeliveryIds /\ TrueRecord(got.id, got.rec) /\ got.id[1] = r
      /\ got.rec = [status |-> "pending", attempts |-> 0]
  BY <1>1, <1>2, HolderKnows DEF HoldStages
<1>5. /\ DOMAIN deliveries' = DOMAIN deliveries \cup {got.id} /\ deliveries'[got.id] = got.rec
      /\ \A id \in DOMAIN deliveries \ {got.id} : deliveries'[id] = deliveries[id]
  BY <1>1 DEF CreateWebhookDelivery, Put
<1>6. UNCHANGED <<posts, accepted, buried, deliveryIndex, worker>>
  BY DEF CreateWebhookDelivery, historyVars
<1>7. Grows
  BY <1>5, <1>6, NothingGrows DEF TruthInv
<1>8. TrueRecord(got.id, got.rec)'
  BY <1>4, <1>7, TrueRecordStays
<1>9. got.rec \in DeliveryRecords
  BY <1>4 DEF DeliveryRecords, Statuses
<1>10. /\ \A x \in DOMAIN posts' : posts'[x] \in Nat
       /\ deliveryIndex' \in Seq(DeliveryIds)
       /\ DOMAIN req' = Requests /\ DOMAIN worker' = Workers
  BY <1>3, <1>6 DEF TruthInv, DeliveryTypes, OthersKeepUnder
<1>11. DeliveryTypes'
  BY <1>4, <1>5, <1>7, <1>8, <1>9, <1>10, DeliveryTypesStay DEF TruthInv
<1>12. req'[r].op = "Dispatch" /\ req'[r].stage = "index" /\ req'[r].got = got
  BY <1>2, <1>3 DEF Becomes
<1>13. DeliveryRequestSound(r)'
  BY <1>4, <1>8, <1>12, HolderSound DEF HoldStages, WebhookOps
<1>14. QED BY <1>1, <1>3, <1>6, <1>7, <1>11, <1>12, <1>13, TruthRequestStep

\* An element put into a sequence moves those behind it on by one.
LEMMA PutIntoSequence ==
  ASSUME NEW S, NEW s \in Seq(S), NEW x \in S, NEW k \in 1..Len(s) + 1
  PROVE  /\ InsertAt(s, k, x) \in Seq(S) /\ Len(InsertAt(s, k, x)) = Len(s) + 1
         /\ InsertAt(s, k, x)[k] = x
         /\ \A i \in 1..Len(s) : InsertAt(s, k, x)[IF i < k THEN i ELSE i + 1] = s[i]
<1>1. PICK a, b : a = SubSeq(s, 1, k - 1) /\ b = SubSeq(s, k, Len(s))
  OBVIOUS
<1>2. /\ a \in Seq(S) /\ Len(a) = k - 1 /\ \A i \in 1..k - 1 : a[i] = s[i]
      /\ b \in Seq(S) /\ Len(b) = Len(s) + 1 - k
      /\ \A i \in 1..Len(s) + 1 - k : b[i] = s[i + k - 1]
  BY <1>1
<1>3. PICK c : c = a \o <<x>>
  OBVIOUS
<1>4. /\ c \in Seq(S) /\ Len(c) = k /\ c[k] = x /\ \A i \in 1..k - 1 : c[i] = s[i]
  BY <1>2, <1>3
<1>5. PICK t : t = c \o b
  OBVIOUS
<1>6. /\ t \in Seq(S) /\ Len(t) = Len(s) + 1 /\ \A i \in 1..k : t[i] = c[i]
      /\ \A i \in 1..Len(s) + 1 - k : t[i + k] = b[i]
  BY <1>2, <1>4, <1>5
<1>7. ASSUME NEW i \in 1..Len(s) PROVE t[IF i < k THEN i ELSE i + 1] = s[i]
  <2>1. CASE i < k
    BY <1>4, <1>6, <2>1
  <2>2. CASE ~(i < k)
    <3>1. PICK j \in 1..Len(s) + 1 - k : i = j + k - 1
      <4>1. i - k + 1 \in 1..Len(s) + 1 - k /\ i = (i - k + 1) + k - 1
        BY <2>2
      <4>2. QED BY <4>1
    <3>2. t[j + k] = b[j] /\ b[j] = s[i] /\ j + k = i + 1
      BY <1>2, <1>6, <3>1
    <3>3. QED BY <2>2, <3>2
  <2>3. QED BY <2>1, <2>2
<1>8. t = InsertAt(s, k, x)
  BY <1>1, <1>3, <1>5 DEF InsertAt
<1>9. QED BY <1>4, <1>6, <1>7, <1>8

\* A dispatcher puts its record into the index.
LEMMA TruthIndexes ==
  ASSUME TruthInv, NEW r \in Requests, IndexWebhookDelivery(r)
  PROVE  /\ TruthInv' /\ Grows /\ OthersKeepUnder(r, {}) /\ req[r].got.id \in ToSet(deliveryIndex')
         /\ req'[r].op = "Dispatch" /\ req'[r].stage = "post" /\ req'[r].got = req[r].got
<1>1. PICK got : got = req[r].got
  OBVIOUS
<1>2. DOMAIN req = Requests /\ req[r].stage = "index" /\ req[r].op = "Dispatch"
  BY DEF IndexWebhookDelivery, At, TruthInv, DeliveryTypes
<1>3. Becomes(r, "post", req[r].arg, got) /\ OthersKeepUnder(r, {})
  BY <1>1, <1>2, AdvanceStep DEF IndexWebhookDelivery
<1>4. got.id \in DeliveryIds /\ TrueRecord(got.id, got.rec) /\ got.id[1] = r
  BY <1>1, <1>2, HolderKnows DEF HoldStages
<1>5. UNCHANGED <<posts, accepted, buried, deliveries, worker>>
  BY DEF IndexWebhookDelivery, historyVars
<1>6. /\ deliveryIndex' \in Seq(DeliveryIds) /\ got.id \in ToSet(deliveryIndex')
      /\ ToSet(deliveryIndex) \subseteq ToSet(deliveryIndex')
  <2>1. PICK x, s : x = got.id /\ s = deliveryIndex
    OBVIOUS
  <2>2. s \in Seq(DeliveryIds) /\ x \in DeliveryIds
    BY <1>4, <2>1 DEF TruthInv, DeliveryTypes
  <2>3. PICK k \in 1..Len(s) + 1 : deliveryIndex' = InsertAt(s, k, x)
    BY <1>1, <2>1 DEF IndexWebhookDelivery
  <2>4. /\ deliveryIndex' \in Seq(DeliveryIds) /\ Len(deliveryIndex') = Len(s) + 1
        /\ deliveryIndex'[k] = x
        /\ \A i \in 1..Len(s) : deliveryIndex'[IF i < k THEN i ELSE i + 1] = s[i]
    BY <2>2, <2>3, PutIntoSequence
  <2>5. ASSUME NEW y \in ToSet(s) PROVE y \in ToSet(deliveryIndex')
    <3>1. PICK i \in 1..Len(s) : s[i] = y
      BY <2>2 DEF ToSet
    <3>2. PICK j : j = IF i < k THEN i ELSE i + 1
      OBVIOUS
    <3>3. j \in DOMAIN deliveryIndex' /\ deliveryIndex'[j] = y
      BY <2>2, <2>3, <2>4, <3>1, <3>2
    <3>4. QED BY <3>3 DEF ToSet
  <2>6. x \in ToSet(deliveryIndex')
    <3>1. k \in DOMAIN deliveryIndex'
      BY <2>2, <2>3, <2>4
    <3>2. QED BY <2>4, <3>1 DEF ToSet
  <2>7. QED BY <2>1, <2>4, <2>5, <2>6
<1>7. Grows
  BY <1>5, <1>6 DEF Grows, Sent, TruthInv, DeliveryTypes
<1>8. TrueRecord(got.id, got.rec)'
  BY <1>4, <1>7, TrueRecordStays
<1>9. /\ \A x \in DOMAIN posts' : posts'[x] \in Nat
      /\ DOMAIN req' = Requests /\ DOMAIN worker' = Workers
  BY <1>3, <1>5 DEF TruthInv, DeliveryTypes, OthersKeepUnder
<1>10. DeliveryTypes'
  BY <1>5, <1>6, <1>7, <1>9, DeliveryTypesStay DEF TruthInv
<1>11. req'[r].op = "Dispatch" /\ req'[r].stage = "post" /\ req'[r].got = got
  BY <1>2, <1>3 DEF Becomes
<1>12. DeliveryRequestSound(r)'
  BY <1>4, <1>8, <1>11, HolderSound DEF HoldStages, WebhookOps
<1>13. QED BY <1>1, <1>3, <1>5, <1>6, <1>7, <1>10, <1>11, <1>12, TruthRequestStep

\* Creating a record fails, and the dispatcher goes on.
LEMMA TruthCreateFails ==
  ASSUME TruthInv, NEW r \in Requests, CreateFails(r)
  PROVE  /\ TruthInv' /\ Grows /\ OthersKeepUnder(r, {})
         /\ req'[r].op = "Dispatch" /\ req'[r].stage = "post" /\ req'[r].got = req[r].got
<1>1. PICK got : got = req[r].got
  OBVIOUS
<1>2. DOMAIN req = Requests /\ req[r].stage \in HoldStages /\ req[r].op = "Dispatch"
  BY DEF CreateFails, TruthInv, DeliveryTypes, HoldStages
<1>3. Becomes(r, "post", req[r].arg, got) /\ OthersKeepUnder(r, {})
  BY <1>1, <1>2, AdvanceStep DEF CreateFails
<1>4. got.id \in DeliveryIds /\ TrueRecord(got.id, got.rec) /\ got.id[1] = r
  BY <1>1, <1>2, HolderKnows
<1>5. UNCHANGED <<posts, accepted, buried, deliveryIndex, deliveries, worker>>
  BY DEF CreateFails
<1>6. Grows /\ DeliveryTypes'
  BY <1>3, <1>5, DeliveriesStay DEF TruthInv, DeliveryTypes, OthersKeepUnder
<1>7. TrueRecord(got.id, got.rec)'
  BY <1>4, <1>6, TrueRecordStays
<1>8. req'[r].op = "Dispatch" /\ req'[r].stage = "post" /\ req'[r].got = got
  BY <1>2, <1>3 DEF Becomes
<1>9. DeliveryRequestSound(r)'
  BY <1>4, <1>7, <1>8, HolderSound DEF HoldStages, WebhookOps
<1>10. QED BY <1>1, <1>3, <1>5, <1>6, <1>8, <1>9, TruthRequestStep

\* A request sends the event.
LEMMA TruthPosts ==
  ASSUME TruthInv, NEW r \in Requests, NEW ok \in BOOLEAN, PostOfRequest(r, ok)
  PROVE  /\ TruthInv' /\ Grows /\ OthersKeepUnder(r, {})
         /\ req'[r].op = req[r].op /\ req'[r].stage = "update" /\ req'[r].got.id = req[r].got.id
<1>1. PICK id, rec : id = req[r].got.id /\ rec = req[r].got.rec
  OBVIOUS
<1>2. PICK got : got = [id |-> id, rec |-> rec, ok |-> ok]
  OBVIOUS
<1>3. DOMAIN req = Requests /\ req[r].stage = "post"
  BY DEF PostOfRequest, TruthInv, DeliveryTypes
<1>4. req' = Advance(r, "update", got)
  BY <1>1, <1>2 DEF PostOfRequest, IsSuccess
<1>5. Becomes(r, "update", req[r].arg, got) /\ OthersKeepUnder(r, {})
  BY <1>3, <1>4, AdvanceStep
<1>6. /\ id \in DeliveryIds /\ TrueRecord(id, rec) /\ req[r].op \in {"Dispatch", "Retry"}
      /\ req[r].op = "Dispatch" => id[1] = r
      /\ req[r].op # "Dispatch" => id \in DOMAIN deliveries
  BY <1>1, <1>3, HolderKnows DEF HoldStages
<1>7. Post(id, ok) /\ UNCHANGED <<buried, deliveryIndex, deliveries, worker>>
  BY <1>1 DEF PostOfRequest
<1>8. /\ Grows /\ Sent(id)' = Sent(id) + 1 /\ (ok => id \in accepted')
      /\ \A x \in DOMAIN posts' : posts'[x] \in Nat
  BY <1>7, PostGrows DEF TruthInv
<1>9. TrueRecord(id, rec)'
  BY <1>6, <1>8, TrueRecordStays
<1>10. Attempted(id, rec, ok)'
  <2>1. Sent(id) \in Nat /\ rec.attempts \in Nat /\ rec.attempts <= Sent(id)
    BY <1>6, <1>8 DEF TrueRecord, Grows
  <2>2. rec.attempts + 1 <= Sent(id)'
    BY <1>8, <2>1
  <2>3. QED BY <1>8, <2>2 DEF Attempted
<1>11. /\ deliveryIndex' \in Seq(DeliveryIds)
       /\ DOMAIN req' = Requests /\ DOMAIN worker' = Workers
  BY <1>5, <1>7 DEF TruthInv, DeliveryTypes, OthersKeepUnder
<1>12. DeliveryTypes'
  BY <1>7, <1>8, <1>11, DeliveryTypesStay DEF TruthInv
<1>13. /\ req'[r].op = req[r].op /\ req'[r].stage = "update"
       /\ req'[r].got.id = id /\ req'[r].got.rec = rec /\ req'[r].got.ok = ok
  BY <1>2, <1>5 DEF Becomes
<1>14. PICK op : op = req[r].op
  OBVIOUS
<1>15. op \in WebhookOps /\ op # "DeadLetter" /\ "update" \in HoldStages
  BY <1>6, <1>14 DEF WebhookOps, HoldStages
<1>16. DeliveryRequestSound(r)'
  BY <1>6, <1>7, <1>9, <1>10, <1>13, <1>14, <1>15, HolderSound
<1>17. QED BY <1>1, <1>5, <1>7, <1>8, <1>12, <1>13, <1>16, TruthRequestStep

\* A request writes its copy back.
LEMMA TruthUpdates ==
  ASSUME TruthInv, NEW r \in Requests, UpdateOfRequest(r)
  PROVE  /\ TruthInv' /\ Grows /\ DOMAIN deliveries' = DOMAIN deliveries
         /\ \A d \in DOMAIN deliveries :
               \/ d # req[r].got.id /\ deliveries'[d] = deliveries[d]
               \/ d = req[r].got.id /\ deliveries'[d].status \in Final \cup {"failed"}
<1>1. PICK id, rec, ok : id = req[r].got.id /\ rec = req[r].got.rec /\ ok = req[r].got.ok
  OBVIOUS
<1>2. PICK new : new = updateWebhookDeliveryRecord(rec, ok)
  OBVIOUS
<1>3. req[r].stage = "update" /\ req' = AfterAttempt(r) /\ UpdateWebhookDelivery(id, new)
      /\ UNCHANGED <<posts, accepted, buried, deliveryIndex, worker>>
  BY <1>1, <1>2 DEF UpdateOfRequest, historyVars
<1>4. rec.attempts \in Nat /\ Attempted(id, rec, ok)
  BY <1>1, <1>3, HolderKnows DEF HoldStages, TrueRecord
<1>5. new \in DeliveryRecords /\ TrueRecord(id, new) /\ new.status \in Final \cup {"failed"}
  BY <1>2, <1>4, UpdatedTrue DEF TruthInv
<1>6. TrueRecord(id, new)'
  <2>1. UNCHANGED <<posts, accepted, buried>>
    BY <1>3
  <2>2. QED BY <1>5, <2>1 DEF TrueRecord, Sent
<1>7. DOMAIN req' = Requests /\ DOMAIN worker' = Workers
  <2>1. DOMAIN req' = DOMAIN req
    BY <1>3 DEF AfterAttempt, Audited, ForURL, Finished, Advance
  <2>2. QED BY <1>3, <2>1 DEF TruthInv, DeliveryTypes
<1>8. /\ Grows /\ DeliveryTypes' /\ DOMAIN deliveries' = DOMAIN deliveries
      /\ \A d \in DOMAIN deliveries : deliveries'[d] = IF d = id THEN new ELSE deliveries[d]
  <2>1. UNCHANGED <<posts, accepted, deliveryIndex>> /\ buried \subseteq buried'
    BY <1>3
  <2>2. QED BY <1>3, <1>5, <1>6, <1>7, <2>1, UpdateWrites DEF TruthInv
<1>9. TruthInv'
  BY <1>3, <1>8, AfterAttemptTruth
<1>10. QED BY <1>1, <1>5, <1>8, <1>9

\* Writing the copy back fails.
LEMMA TruthUpdateFails ==
  ASSUME TruthInv, NEW r \in Requests, UpdateFails(r)
  PROVE  TruthInv' /\ Grows
<1>1. req[r].stage = "update" /\ req' = AfterAttempt(r)
      /\ UNCHANGED <<posts, accepted, buried, deliveryIndex, deliveries, worker>>
  BY DEF UpdateFails
<1>2. DOMAIN req' = DOMAIN req
  BY <1>1 DEF AfterAttempt, Audited, ForURL, Finished, Advance
<1>3. Grows /\ DeliveryTypes'
  BY <1>1, <1>2, DeliveriesStay DEF TruthInv, DeliveryTypes
<1>4. QED BY <1>1, <1>3, AfterAttemptTruth

\* A request is cut off.
LEMMA TruthCancelled ==
  ASSUME TruthInv, NEW r \in Requests, Cancelled(r)
  PROVE  /\ TruthInv' /\ Grows /\ OthersKeepUnder(r, {}) /\ req'[r].stage = "done"
         /\ req'[r].op = req[r].op /\ req[r].stage \in HoldStages \cup {"started"}
<1>1. CallFails(r) /\ req[r].op \in WebhookOps /\ req[r].stage # "audit"
      /\ UNCHANGED <<posts, accepted, buried, deliveryIndex, deliveries, worker>>
  BY DEF Cancelled
<1>2. DOMAIN req = Requests
  BY DEF TruthInv, DeliveryTypes
<1>3. /\ req[r].stage \notin {"idle", "done"}
      /\ Becomes(r, "done", Nothing, Nothing) /\ OthersKeepUnder(r, {})
  BY <1>1, <1>2, RefusedStep
<1>4. req'[r].op = req[r].op /\ req'[r].stage = "done"
  BY <1>3 DEF Becomes
<1>5. Grows /\ DeliveryTypes'
  BY <1>1, <1>3, DeliveriesStay DEF TruthInv, DeliveryTypes, OthersKeepUnder
<1>6. DeliveryRequestSound(r)'
  BY <1>1, <1>4, FreeSound
<1>7. req[r].stage \in HoldStages \cup {"started"}
  BY <1>1, <1>3 DEF TruthInv, DeliveryRequestSound
<1>8. QED BY <1>1, <1>3, <1>4, <1>5, <1>6, <1>7, TruthRequestStep

\* A request by hand reads the record.
LEMMA TruthGets ==
  ASSUME TruthInv, NEW r \in Requests, GetWebhookDelivery(r)
  PROVE  /\ TruthInv' /\ Grows /\ OthersKeepUnder(r, {})
         /\ req'[r].op = req[r].op /\ req[r].op \in {"Retry", "DeadLetter"}
         /\ req'[r].stage = IF req[r].op = "Retry" THEN "post" ELSE "mark"
         /\ req'[r].got.id = req[r].arg.id
<1>1. PICK id, op : id = req[r].arg.id /\ op = req[r].op
  OBVIOUS
<1>2. PICK rec, stage : rec = deliveries[id] /\ stage = IF op = "Retry" THEN "post" ELSE "mark"
  OBVIOUS
<1>3. PICK got : got = [id |-> id, rec |-> rec, ok |-> FALSE]
  OBVIOUS
<1>4. DOMAIN req = Requests /\ req[r].stage = "started" /\ op \in {"Retry", "DeadLetter"}
  BY <1>1 DEF GetWebhookDelivery, TruthInv, DeliveryTypes
<1>5. req' = Advance(r, stage, got)
  BY <1>1, <1>2, <1>3 DEF GetWebhookDelivery
<1>6. Becomes(r, stage, req[r].arg, got) /\ OthersKeepUnder(r, {})
  BY <1>4, <1>5, AdvanceStep
<1>7. UNCHANGED <<posts, accepted, buried, deliveryIndex, deliveries, worker>>
  BY DEF GetWebhookDelivery
<1>8. Grows /\ DeliveryTypes'
  BY <1>6, <1>7, DeliveriesStay DEF TruthInv, DeliveryTypes, OthersKeepUnder
<1>9. id \in DOMAIN deliveries
  BY <1>1, <1>4 DEF TruthInv, DeliveryRequestSound
<1>10. id \in DeliveryIds /\ TrueRecord(id, rec)
  BY <1>2, <1>9 DEF TruthInv, DeliveryTypes
<1>11. TrueRecord(id, rec)' /\ id \in DOMAIN deliveries'
  BY <1>7, <1>8, <1>9, <1>10, TrueRecordStays
<1>12. /\ req'[r].op = op /\ req'[r].stage = stage
       /\ req'[r].got.id = id /\ req'[r].got.rec = rec /\ req'[r].got.ok = FALSE
  BY <1>1, <1>3, <1>6 DEF Becomes
<1>13. stage \in HoldStages /\ op \in WebhookOps /\ op # "Dispatch"
  BY <1>2, <1>4 DEF HoldStages, WebhookOps
<1>14. /\ stage \notin {"create", "index", "update"}
       /\ stage = "post" => op # "DeadLetter"
       /\ stage = "mark" => op = "DeadLetter"
  BY <1>2, <1>4
<1>15. DeliveryRequestSound(r)'
  BY <1>10, <1>11, <1>12, <1>13, <1>14, HolderSound
<1>16. QED BY <1>1, <1>2, <1>4, <1>6, <1>7, <1>8, <1>12, <1>15, TruthRequestStep

\* A delivery is dead-lettered.
LEMMA TruthDeadLetters ==
  ASSUME TruthInv, NEW r \in Requests, DeadLetter(r)
  PROVE  /\ TruthInv' /\ Grows /\ OthersKeepUnder(r, {}) /\ DOMAIN deliveries' = DOMAIN deliveries
         /\ req[r].stage = "mark" /\ req'[r].stage = "audit" /\ req'[r].op = req[r].op
         /\ \A d \in DOMAIN deliveries :
               \/ d # req[r].got.id /\ deliveries'[d] = deliveries[d]
               \/ d = req[r].got.id /\ deliveries'[d].status = "dead"
<1>1. PICK id, rec : id = req[r].got.id /\ rec = req[r].got.rec
  OBVIOUS
<1>2. PICK new : new = [attempts |-> rec.attempts, status |-> "dead"]
  OBVIOUS
<1>3. /\ req[r].stage = "mark" /\ req[r].op = "DeadLetter" /\ DOMAIN req = Requests
      /\ UpdateWebhookDelivery(id, new) /\ req' = Advance(r, "audit", Nothing)
  BY <1>1, <1>2 DEF DeadLetter, At, Audited, TruthInv, DeliveryTypes
<1>4. UNCHANGED <<posts, accepted, deliveryIndex, worker>> /\ buried' = buried \cup {id}
  BY <1>1 DEF DeadLetter
<1>5. Becomes(r, "audit", req[r].arg, Nothing) /\ OthersKeepUnder(r, {})
  BY <1>3, AdvanceStep
<1>6. TrueRecord(id, rec)
  BY <1>1, <1>3, HolderKnows DEF HoldStages
<1>7. new.attempts = rec.attempts /\ new.status = "dead" /\ new \in DeliveryRecords
  BY <1>2, <1>6 DEF TrueRecord, DeliveryRecords, Statuses
<1>8. TrueRecord(id, new)'
  BY <1>4, <1>6, <1>7 DEF TrueRecord, Sent, Statuses
<1>9. /\ Grows /\ DeliveryTypes' /\ DOMAIN deliveries' = DOMAIN deliveries
      /\ \A d \in DOMAIN deliveries : deliveries'[d] = IF d = id THEN new ELSE deliveries[d]
  <2>1. DOMAIN req' = Requests /\ DOMAIN worker' = Workers
    BY <1>4, <1>5 DEF TruthInv, DeliveryTypes, OthersKeepUnder
  <2>2. UNCHANGED <<posts, accepted, deliveryIndex>> /\ buried \subseteq buried'
    BY <1>4
  <2>3. QED BY <1>3, <1>7, <1>8, <2>1, <2>2, UpdateWrites DEF TruthInv
<1>10. req'[r].stage = "audit" /\ req'[r].op = req[r].op
  BY <1>5 DEF Becomes
<1>11. DeliveryRequestSound(r)'
  BY <1>3, <1>10, FreeSound DEF WebhookOps
<1>12. QED BY <1>1, <1>3, <1>4, <1>5, <1>7, <1>9, <1>10, <1>11, TruthRequestStep

\* A request is accounted for.
LEMMA TruthLedger ==
  ASSUME TruthInv, NEW r \in Requests, LedgerStep(r), UNCHANGED webhookVars
  PROVE  /\ TruthInv' /\ Grows /\ OthersKeepUnder(r, {})
         /\ req[r].stage = "audit" /\ req'[r].stage = "done" /\ req'[r].op = req[r].op
<1>1. /\ req[r].stage \in LedgerStages /\ req'[r].stage \in {"counted", "audit", "done"}
      /\ req'[r].op = req[r].op /\ OthersKeepUnder(r, {})
  BY LedgerStepMoves DEF TruthInv, DeliveryTypes
<1>2. req[r].stage = "audit" /\ req[r].op \in WebhookOps
  BY <1>1 DEF TruthInv, DeliveryRequestSound, HoldStages, LedgerStages
<1>3. req'[r].stage = "done"
  BY <1>2 DEF LedgerStep, recordUsage, IncrementUsage, StoreUsage, RecordAuditLog, LedgerCallFails,
     Finished, RequestAt, TruthInv, DeliveryTypes
<1>4. Grows /\ DeliveryTypes'
  BY <1>1, DeliveriesStay DEF TruthInv, DeliveryTypes, OthersKeepUnder, webhookVars
<1>5. DeliveryRequestSound(r)'
  BY <1>1, <1>2, <1>3, FreeSound
<1>6. worker' = worker
  BY DEF webhookVars
<1>7. QED BY <1>1, <1>2, <1>3, <1>4, <1>5, <1>6, TruthRequestStep

\* A worker's step, and the other workers stay.
LEMMA WorkerAt ==
  ASSUME DOMAIN worker = Workers, NEW w \in Workers, NEW ids, NEW todo, NEW posted, NEW ok,
         worker' = Working(w, ids, todo, posted, ok)
  PROVE  /\ worker'[w].ids = ids /\ worker'[w].todo = todo
         /\ worker'[w].posted = posted /\ worker'[w].ok = ok
         /\ DOMAIN worker' = Workers /\ \A v \in Workers \ {w} : worker'[v] = worker[v]
BY DEF Working

\* A worker that has not sent its first event is sound.
LEMMA UnsentSound ==
  ASSUME NEW w \in Workers, NEW ids \in Seq(DeliveryIds), NEW todo \in Seq(Copies),
         worker'[w].ids = ids, worker'[w].todo = todo, worker'[w].posted = FALSE,
         \A i \in 1..Len(ids) : ids[i] \in ToSet(deliveryIndex)',
         \A i \in 1..Len(todo) :
             /\ TrueRecord(todo[i].id, todo[i].rec)'
             /\ todo[i].id \in DOMAIN deliveries' /\ todo[i].id \in ToSet(deliveryIndex)'
  PROVE  WorkerSound(w)'
BY DEF WorkerSound

\* What a worker's copies say stays true.
LEMMA CopiesStay ==
  ASSUME TruthInv, NEW w \in Workers, Grows
  PROVE  /\ worker[w].ids \in Seq(DeliveryIds) /\ worker[w].todo \in Seq(Copies)
         /\ \A i \in 1..Len(worker[w].ids) : worker[w].ids[i] \in ToSet(deliveryIndex)'
         /\ \A i \in 1..Len(worker[w].todo) :
             /\ TrueRecord(worker[w].todo[i].id, worker[w].todo[i].rec)
             /\ worker[w].todo[i].id \in DOMAIN deliveries
             /\ worker[w].todo[i].id \in ToSet(deliveryIndex)
<1>1. WorkerSound(w)
  BY DEF TruthInv
<1>2. QED BY <1>1 DEF WorkerSound, Grows

\* A copy that was true stays true.
LEMMA CopyStays ==
  ASSUME Grows, NEW c, TrueRecord(c.id, c.rec), c.id \in DOMAIN deliveries, c.id \in ToSet(deliveryIndex)
  PROVE  TrueRecord(c.id, c.rec)' /\ c.id \in DOMAIN deliveries' /\ c.id \in ToSet(deliveryIndex)'
<1>1. TrueRecord(c.id, c.rec)'
  BY TrueRecordStays
<1>2. QED BY <1>1 DEF Grows

\* A worker is done with its first copy.
LEMMA HeadDone ==
  ASSUME TruthInv, NEW w \in Workers, Grows, Retrying(w), worker' = WithoutHead(w)
  PROVE  /\ WorkerSound(w)' /\ DOMAIN worker' = Workers
         /\ \A v \in Workers \ {w} : worker'[v] = worker[v]
         /\ worker'[w].todo = Tail(worker[w].todo)
<1>1. PICK todo : todo = worker[w].todo
  OBVIOUS
<1>2. /\ todo \in Seq(Copies) /\ todo # << >>
      /\ \A i \in 1..Len(todo) : /\ TrueRecord(todo[i].id, todo[i].rec)
                                 /\ todo[i].id \in DOMAIN deliveries /\ todo[i].id \in ToSet(deliveryIndex)
  BY <1>1, CopiesStay DEF Retrying
<1>3. PICK tail : tail = Tail(todo)
  OBVIOUS
<1>4. tail \in Seq(Copies) /\ \A i \in 1..Len(tail) : i + 1 \in 1..Len(todo) /\ tail[i] = todo[i + 1]
  BY <1>2, <1>3
<1>5. ASSUME NEW i \in 1..Len(tail)
      PROVE  /\ TrueRecord(tail[i].id, tail[i].rec)'
             /\ tail[i].id \in DOMAIN deliveries' /\ tail[i].id \in ToSet(deliveryIndex)'
  <2>1. PICK c : c = tail[i]
    OBVIOUS
  <2>2. TrueRecord(c.id, c.rec) /\ c.id \in DOMAIN deliveries /\ c.id \in ToSet(deliveryIndex)
    BY <1>2, <1>4, <2>1
  <2>3. TrueRecord(c.id, c.rec)' /\ c.id \in DOMAIN deliveries' /\ c.id \in ToSet(deliveryIndex)'
    BY <2>2, CopyStays
  <2>4. QED BY <2>1, <2>3
<1>6. worker' = Working(w, << >>, tail, FALSE, FALSE)
  BY <1>1, <1>3 DEF WithoutHead
<1>7. DOMAIN worker = Workers
  BY DEF TruthInv, DeliveryTypes
<1>8. /\ worker'[w].ids = << >> /\ worker'[w].todo = tail /\ worker'[w].posted = FALSE
      /\ DOMAIN worker' = Workers /\ \A v \in Workers \ {w} : worker'[v] = worker[v]
  <2>1. PICK f : f = FALSE
    OBVIOUS
  <2>2. worker' = Working(w, << >>, tail, f, f)
    BY <1>6, <2>1
  <2>3. QED BY <1>7, <2>1, <2>2, WorkerAt
<1>9. << >> \in Seq(DeliveryIds) /\ \A i \in 1..Len(<< >>) : << >>[i] \in ToSet(deliveryIndex)'
  OBVIOUS
<1>10. WorkerSound(w)'
  BY <1>4, <1>5, <1>8, <1>9, UnsentSound
<1>11. QED BY <1>1, <1>3, <1>8, <1>10

\* A worker that lost its work is sound.
LEMMA IdleSound ==
  ASSUME NEW w \in Workers, worker'[w] = NoWork
  PROVE  WorkerSound(w)' /\ worker'[w].todo = << >>
<1>1. worker'[w].ids = << >> /\ worker'[w].todo = << >> /\ worker'[w].posted = FALSE
  BY DEF NoWork
<1>2. << >> \in Seq(DeliveryIds) /\ << >> \in Seq(Copies)
  OBVIOUS
<1>3. QED BY <1>1, <1>2 DEF WorkerSound

\* A worker scans the index.
LEMMA TruthLists ==
  ASSUME TruthInv, NEW w \in Workers, ListWebhookDeliveries(w)
  PROVE  /\ TruthInv' /\ Grows /\ worker'[w].todo = << >>
         /\ \A v \in Workers \ {w} : worker'[v] = worker[v]
<1>1. PICK s, last : s = deliveryIndex /\ last = ScanWindow
  OBVIOUS
<1>2. PICK ids : ids = IF Len(s) <= last THEN s ELSE SubSeq(s, 1, last)
  OBVIOUS
<1>3. s \in Seq(DeliveryIds) /\ last \in Nat
  BY <1>1, WebhookAssumption DEF TruthInv, DeliveryTypes
<1>4. ids \in Seq(DeliveryIds) /\ \A i \in 1..Len(ids) : i \in 1..Len(s) /\ ids[i] = s[i]
  <2>1. CASE Len(s) <= last
    BY <1>2, <1>3, <2>1
  <2>2. CASE ~(Len(s) <= last)
    <3>1. ids = SubSeq(s, 1, last) /\ last <= Len(s)
      BY <1>2, <1>3, <2>2
    <3>2. Len(ids) = last /\ \A i \in 1..last : ids[i] = s[i]
      BY <1>3, <3>1
    <3>3. ids \in Seq(DeliveryIds)
      BY <1>3, <3>1
    <3>4. QED BY <1>3, <3>1, <3>2, <3>3
  <2>3. QED BY <2>1, <2>2
<1>5. worker' = Working(w, ids, << >>, FALSE, FALSE)
  BY <1>1, <1>2 DEF ListWebhookDeliveries, Scanned
<1>6. UNCHANGED <<req, posts, accepted, buried, deliveryIndex, deliveries>>
  BY DEF ListWebhookDeliveries, requestVars, historyVars
<1>7. /\ worker'[w].ids = ids /\ worker'[w].todo = << >> /\ worker'[w].posted = FALSE
      /\ DOMAIN worker' = Workers /\ \A v \in Workers \ {w} : worker'[v] = worker[v]
  <2>1. DOMAIN worker = Workers
    BY DEF TruthInv, DeliveryTypes
  <2>2. PICK f : f = FALSE
    OBVIOUS
  <2>3. worker' = Working(w, ids, << >>, f, f)
    BY <1>5, <2>2
  <2>4. QED BY <2>1, <2>2, <2>3, WorkerAt
<1>8. Grows /\ DeliveryTypes'
  BY <1>6, <1>7, DeliveriesStay DEF TruthInv, DeliveryTypes
<1>9. \A i \in 1..Len(ids) : ids[i] \in ToSet(deliveryIndex)'
  BY <1>1, <1>3, <1>4, <1>6 DEF ToSet
<1>10. << >> \in Seq(Copies)
  OBVIOUS
<1>11. WorkerSound(w)'
  <2>1. \A i \in 1..Len(<< >>) :
           /\ TrueRecord(<< >>[i].id, << >>[i].rec)'
           /\ << >>[i].id \in DOMAIN deliveries' /\ << >>[i].id \in ToSet(deliveryIndex)'
    OBVIOUS
  <2>2. QED BY <1>4, <1>7, <1>9, <1>10, <2>1, UnsentSound
<1>12. QED BY <1>6, <1>7, <1>8, <1>11, TruthWorkerStep

\* A worker reads the next record of its list.
LEMMA TruthLoads ==
  ASSUME TruthInv, NEW w \in Workers, loadWebhookDeliveryRecord(w)
  PROVE  /\ TruthInv' /\ Grows /\ worker[w].ids # << >>
         /\ \A v \in Workers \ {w} : worker'[v] = worker[v]
         /\ \/ worker'[w].todo = worker[w].todo
            \/ \E rec : /\ Head(worker[w].ids) \in DOMAIN deliveries
                        /\ deliveries[Head(worker[w].ids)].status = "failed"
                        /\ worker'[w].todo = Append(worker[w].todo, [id |-> Head(worker[w].ids), rec |-> rec])
                        /\ (InHands(Head(worker[w].ids)) => Head(worker[w].ids) \in contested')
<1>1. PICK s, old, id : s = worker[w].ids /\ old = worker[w].todo /\ id = Head(s)
  OBVIOUS
<1>2. PICK rec : rec = deliveries[id]
  OBVIOUS
<1>3. PICK copy : copy = [id |-> id, rec |-> rec]
  OBVIOUS
<1>4. PICK todo : todo = IF id \in DOMAIN deliveries /\ Takes(deliveries[id]) THEN Append(old, copy) ELSE old
  OBVIOUS
<1>5. PICK ids : ids = IF Len(todo) >= ScanLimit THEN << >> ELSE Tail(s)
  OBVIOUS
<1>6. /\ s # << >> /\ UNCHANGED <<req, posts, accepted, buried, deliveryIndex, deliveries>>
      /\ \E f : f = FALSE /\ worker' = Working(w, ids, todo, f, f)
  BY <1>1, <1>2, <1>3, <1>4, <1>5 DEF loadWebhookDeliveryRecord, requestVars
<1>7. id \in DOMAIN deliveries /\ Takes(deliveries[id]) /\ InHands(id) => id \in contested'
  BY <1>1 DEF loadWebhookDeliveryRecord
<1>8. DOMAIN worker = Workers
  BY DEF TruthInv, DeliveryTypes
<1>9. /\ worker'[w].ids = ids /\ worker'[w].todo = todo /\ worker'[w].posted = FALSE
      /\ DOMAIN worker' = Workers /\ \A v \in Workers \ {w} : worker'[v] = worker[v]
  BY <1>6, <1>8, WorkerAt
<1>10. Grows /\ DeliveryTypes'
  BY <1>6, <1>9, DeliveriesStay DEF TruthInv, DeliveryTypes
<1>11. /\ s \in Seq(DeliveryIds) /\ old \in Seq(Copies)
       /\ \A i \in 1..Len(s) : s[i] \in ToSet(deliveryIndex)'
       /\ \A i \in 1..Len(old) : /\ TrueRecord(old[i].id, old[i].rec)
                                 /\ old[i].id \in DOMAIN deliveries /\ old[i].id \in ToSet(deliveryIndex)
  BY <1>1, <1>10, CopiesStay
<1>12. /\ ids \in Seq(DeliveryIds) /\ \A i \in 1..Len(ids) : ids[i] \in ToSet(deliveryIndex)'
  <2>1. CASE ids = << >>
    BY <2>1
  <2>2. CASE ids = Tail(s)
    <3>1. ids \in Seq(DeliveryIds) /\ \A i \in 1..Len(ids) : i + 1 \in 1..Len(s) /\ ids[i] = s[i + 1]
      BY <1>6, <1>11, <2>2
    <3>2. QED BY <1>11, <3>1
  <2>3. QED BY <1>5, <2>1, <2>2
<1>13. id \in DeliveryIds /\ id \in ToSet(deliveryIndex)
  <2>1. id = s[1] /\ 1 \in 1..Len(s)
    BY <1>1, <1>6, <1>11
  <2>2. QED BY <1>6, <1>11, <2>1
<1>14. /\ todo \in Seq(Copies)
       /\ \A i \in 1..Len(todo) : /\ TrueRecord(todo[i].id, todo[i].rec)
                                  /\ todo[i].id \in DOMAIN deliveries /\ todo[i].id \in ToSet(deliveryIndex)
  <2>1. CASE todo = old
    BY <1>11, <2>1
  <2>2. CASE todo = Append(old, copy) /\ id \in DOMAIN deliveries
    <3>1. rec \in DeliveryRecords /\ TrueRecord(id, rec)
      BY <1>2, <2>2 DEF TruthInv, DeliveryTypes
    <3>2. copy.id = id /\ copy.rec = rec /\ copy \in Copies
      BY <1>3, <1>13, <3>1 DEF Copies
    <3>3. todo \in Seq(Copies)
          /\ \A i \in 1..Len(todo) : todo[i] = copy \/ (i \in 1..Len(old) /\ todo[i] = old[i])
      BY <1>11, <2>2, <3>2
    <3>4. ASSUME NEW i \in 1..Len(todo)
          PROVE  /\ TrueRecord(todo[i].id, todo[i].rec)
                 /\ todo[i].id \in DOMAIN deliveries /\ todo[i].id \in ToSet(deliveryIndex)
      <4>1. CASE todo[i] = copy
        BY <1>13, <2>2, <3>1, <3>2, <4>1
      <4>2. CASE i \in 1..Len(old) /\ todo[i] = old[i]
        BY <1>11, <4>2
      <4>3. QED BY <3>3, <4>1, <4>2
    <3>5. QED BY <3>3, <3>4
  <2>3. QED BY <1>4, <2>1, <2>2
<1>15. ASSUME NEW i \in 1..Len(todo)
       PROVE  /\ TrueRecord(todo[i].id, todo[i].rec)'
              /\ todo[i].id \in DOMAIN deliveries' /\ todo[i].id \in ToSet(deliveryIndex)'
  <2>1. PICK c : c = todo[i]
    OBVIOUS
  <2>2. TrueRecord(c.id, c.rec) /\ c.id \in DOMAIN deliveries /\ c.id \in ToSet(deliveryIndex)
    BY <1>14, <2>1
  <2>3. TrueRecord(c.id, c.rec)' /\ c.id \in DOMAIN deliveries' /\ c.id \in ToSet(deliveryIndex)'
    BY <1>10, <2>2, CopyStays
  <2>4. QED BY <2>1, <2>3
<1>16. WorkerSound(w)'
  BY <1>9, <1>12, <1>14, <1>15, UnsentSound
<1>17. TruthInv'
  BY <1>6, <1>9, <1>10, <1>16, TruthWorkerStep
<1>18. \/ todo = old
       \/ /\ id \in DOMAIN deliveries /\ deliveries[id].status = "failed"
          /\ todo = Append(old, [id |-> id, rec |-> rec])
          /\ (InHands(id) => id \in contested')
  BY <1>3, <1>4, <1>7 DEF Takes
<1>19. QED BY <1>1, <1>6, <1>9, <1>10, <1>17, <1>18

\* A worker sends the event again.
LEMMA TruthRetries ==
  ASSUME TruthInv, NEW w \in Workers, NEW ok \in BOOLEAN, retryWebhookDelivery(w, ok)
  PROVE  /\ TruthInv' /\ Grows /\ worker'[w].todo = worker[w].todo
         /\ \A v \in Workers \ {w} : worker'[v] = worker[v]
<1>1. PICK todo, id, rec : todo = worker[w].todo /\ id = todo[1].id /\ rec = todo[1].rec
  OBVIOUS
<1>2. todo # << >> /\ UNCHANGED <<req, buried, deliveryIndex, deliveries>>
  BY <1>1 DEF retryWebhookDelivery, Retrying, requestVars
<1>3. DOMAIN worker = Workers /\ WorkerSound(w)
  BY DEF TruthInv, DeliveryTypes
<1>4. todo \in Seq(Copies) /\ Head(todo) = todo[1] /\ 1 \in 1..Len(todo)
  <2>1. todo \in Seq(Copies)
    BY <1>1, <1>3 DEF WorkerSound
  <2>2. QED BY <1>2, <2>1
<1>5. Post(id, ok) /\ \E t : t = TRUE /\ worker' = Working(w, << >>, todo, t, ok)
  BY <1>1, <1>4 DEF retryWebhookDelivery, IsSuccess
<1>6. /\ Grows /\ Sent(id)' = Sent(id) + 1 /\ (ok => id \in accepted')
      /\ \A x \in DOMAIN posts' : posts'[x] \in Nat
  <2>1. UNCHANGED <<buried, deliveryIndex, deliveries>>
    BY <1>2
  <2>2. QED BY <1>5, <2>1, PostGrows DEF TruthInv
<1>7. /\ worker'[w].ids = << >> /\ worker'[w].todo = todo /\ worker'[w].ok = ok
      /\ DOMAIN worker' = Workers /\ \A v \in Workers \ {w} : worker'[v] = worker[v]
  <2>1. PICK t : t = TRUE /\ worker' = Working(w, << >>, todo, t, ok)
    BY <1>5
  <2>2. PICK k : k = ok
    OBVIOUS
  <2>3. worker' = Working(w, << >>, todo, t, k)
    BY <2>1, <2>2
  <2>4. QED BY <1>3, <2>2, <2>3, WorkerAt
<1>8. DeliveryTypes'
  <2>1. DOMAIN req' = Requests /\ deliveryIndex' \in Seq(DeliveryIds)
    BY <1>2 DEF TruthInv, DeliveryTypes
  <2>2. QED BY <1>2, <1>6, <1>7, <2>1, DeliveryTypesStay DEF TruthInv
<1>9. \A i \in 1..Len(todo) : /\ TrueRecord(todo[i].id, todo[i].rec)
                              /\ todo[i].id \in DOMAIN deliveries /\ todo[i].id \in ToSet(deliveryIndex)
  BY <1>1, <1>3 DEF WorkerSound
<1>10. ASSUME NEW i \in 1..Len(todo)
       PROVE  /\ TrueRecord(todo[i].id, todo[i].rec)'
              /\ todo[i].id \in DOMAIN deliveries' /\ todo[i].id \in ToSet(deliveryIndex)'
  <2>1. PICK c : c = todo[i]
    OBVIOUS
  <2>2. TrueRecord(c.id, c.rec) /\ c.id \in DOMAIN deliveries /\ c.id \in ToSet(deliveryIndex)
    BY <1>9, <2>1
  <2>3. TrueRecord(c.id, c.rec)' /\ c.id \in DOMAIN deliveries' /\ c.id \in ToSet(deliveryIndex)'
    BY <1>6, <2>2, CopyStays
  <2>4. QED BY <2>1, <2>3
<1>11. Attempted(id, rec, ok)'
  <2>1. TrueRecord(id, rec)
    BY <1>1, <1>4, <1>9
  <2>2. Sent(id) \in Nat /\ rec.attempts \in Nat /\ rec.attempts <= Sent(id)
    BY <1>6, <2>1 DEF TrueRecord, Grows
  <2>3. rec.attempts + 1 <= Sent(id)'
    BY <1>6, <2>2
  <2>4. QED BY <1>6, <2>3 DEF Attempted
<1>12. WorkerSound(w)'
  BY <1>1, <1>2, <1>4, <1>7, <1>10, <1>11 DEF WorkerSound
<1>13. QED BY <1>1, <1>2, <1>6, <1>7, <1>8, <1>12, TruthWorkerStep

\* A worker passes over a delivery that is not due.
LEMMA TruthSkips ==
  ASSUME TruthInv, NEW w \in Workers, SkipNotDue(w)
  PROVE  /\ TruthInv' /\ Grows /\ worker'[w].todo = Tail(worker[w].todo) /\ worker[w].todo # << >>
         /\ \A v \in Workers \ {w} : worker'[v] = worker[v]
<1>1. /\ Retrying(w) /\ worker' = WithoutHead(w)
      /\ UNCHANGED <<req, posts, accepted, buried, deliveryIndex, deliveries>>
  BY DEF SkipNotDue, requestVars, historyVars
<1>2. DOMAIN worker' = Workers
  BY <1>1 DEF WithoutHead, Working, TruthInv, DeliveryTypes
<1>3. Grows /\ DeliveryTypes'
  BY <1>1, <1>2, DeliveriesStay DEF TruthInv, DeliveryTypes
<1>4. /\ WorkerSound(w)' /\ worker'[w].todo = Tail(worker[w].todo)
      /\ \A v \in Workers \ {w} : worker'[v] = worker[v]
  BY <1>1, <1>3, HeadDone
<1>5. worker[w].todo # << >>
  BY <1>1 DEF Retrying
<1>6. QED BY <1>1, <1>3, <1>4, <1>5, TruthWorkerStep

\* A worker writes its copy back.
LEMMA TruthWorkerUpdates ==
  ASSUME TruthInv, NEW w \in Workers, UpdateOfWorker(w)
  PROVE  /\ TruthInv' /\ Grows /\ DOMAIN deliveries' = DOMAIN deliveries
         /\ worker'[w].todo = Tail(worker[w].todo) /\ worker[w].todo # << >>
         /\ \A v \in Workers \ {w} : worker'[v] = worker[v]
         /\ \A d \in DOMAIN deliveries :
               \/ d # worker[w].todo[1].id /\ deliveries'[d] = deliveries[d]
               \/ /\ d = worker[w].todo[1].id /\ deliveries'[d].status \in Final \cup {"failed"}
                  /\ d \in ToSet(deliveryIndex')
<1>1. PICK todo, id, rec, ok :
        todo = worker[w].todo /\ id = todo[1].id /\ rec = todo[1].rec /\ ok = worker[w].ok
  OBVIOUS
<1>2. PICK new : new = updateWebhookDeliveryRecord(rec, ok)
  OBVIOUS
<1>3. /\ Retrying(w) /\ worker[w].posted /\ worker' = WithoutHead(w)
      /\ UNCHANGED <<req, posts, accepted, buried, deliveryIndex>>
  BY DEF UpdateOfWorker, requestVars, historyVars
<1>4. WorkerSound(w) /\ todo # << >>
  BY <1>1, <1>3 DEF TruthInv, Retrying
<1>5. todo \in Seq(Copies) /\ Head(todo) = todo[1] /\ 1 \in 1..Len(todo)
  <2>1. todo \in Seq(Copies)
    BY <1>1, <1>4 DEF WorkerSound
  <2>2. QED BY <1>4, <2>1
<1>6. UpdateWebhookDelivery(id, new)
  BY <1>1, <1>2, <1>5 DEF UpdateOfWorker
<1>7. /\ TrueRecord(id, rec) /\ Attempted(id, rec, ok) /\ id \in ToSet(deliveryIndex)
  BY <1>1, <1>3, <1>4, <1>5 DEF WorkerSound
<1>8. new \in DeliveryRecords /\ TrueRecord(id, new) /\ new.status \in Final \cup {"failed"}
  BY <1>2, <1>7, UpdatedTrue DEF TruthInv, TrueRecord
<1>9. TrueRecord(id, new)'
  BY <1>3, <1>8 DEF TrueRecord, Sent
<1>10. /\ Grows /\ DeliveryTypes' /\ DOMAIN deliveries' = DOMAIN deliveries
       /\ \A d \in DOMAIN deliveries : deliveries'[d] = IF d = id THEN new ELSE deliveries[d]
  <2>1. DOMAIN req' = Requests /\ DOMAIN worker' = Workers
    BY <1>3 DEF TruthInv, DeliveryTypes, WithoutHead, Working
  <2>2. UNCHANGED <<posts, accepted, deliveryIndex>> /\ buried \subseteq buried'
    BY <1>3
  <2>3. QED BY <1>6, <1>8, <1>9, <2>1, <2>2, UpdateWrites DEF TruthInv
<1>11. /\ WorkerSound(w)' /\ worker'[w].todo = Tail(worker[w].todo)
       /\ \A v \in Workers \ {w} : worker'[v] = worker[v]
  BY <1>3, <1>10, HeadDone
<1>12. TruthInv'
  BY <1>3, <1>10, <1>11, TruthWorkerStep
<1>13. id \in ToSet(deliveryIndex')
  BY <1>3, <1>7
<1>14. QED BY <1>1, <1>4, <1>8, <1>10, <1>11, <1>12, <1>13

\* A worker's call fails.
LEMMA TruthWorkerFails ==
  ASSUME TruthInv, NEW w \in Workers, WorkerFails(w)
  PROVE  /\ TruthInv' /\ Grows
         /\ \/ worker'[w].todo = << >>
            \/ worker'[w].todo = Tail(worker[w].todo) /\ worker[w].todo # << >>
         /\ \A v \in Workers \ {w} : worker'[v] = worker[v]
<1>1. UNCHANGED <<req, posts, accepted, buried, deliveryIndex, deliveries>>
  BY DEF WorkerFails, historyVars
<1>2. DOMAIN worker = Workers
  BY DEF TruthInv, DeliveryTypes
<1>3. CASE worker' = [worker EXCEPT ![w] = NoWork]
  <2>1. /\ worker'[w] = NoWork /\ DOMAIN worker' = Workers
        /\ \A v \in Workers \ {w} : worker'[v] = worker[v]
    BY <1>2, <1>3
  <2>2. WorkerSound(w)' /\ worker'[w].todo = << >>
    BY <2>1, IdleSound
  <2>3. Grows /\ DeliveryTypes'
    BY <1>1, <2>1, DeliveriesStay DEF TruthInv, DeliveryTypes
  <2>4. QED BY <1>1, <2>1, <2>2, <2>3, TruthWorkerStep
<1>4. CASE worker[w].posted /\ worker' = WithoutHead(w)
  <2>1. worker[w].ids = << >> /\ worker[w].todo # << >>
    BY <1>4 DEF TruthInv, WorkerSound
  <2>2. Retrying(w)
    BY <2>1 DEF Retrying
  <2>3. DOMAIN worker' = Workers
    BY <1>2, <1>4 DEF WithoutHead, Working
  <2>4. Grows /\ DeliveryTypes'
    BY <1>1, <2>3, DeliveriesStay DEF TruthInv, DeliveryTypes
  <2>5. /\ WorkerSound(w)' /\ worker'[w].todo = Tail(worker[w].todo)
        /\ \A v \in Workers \ {w} : worker'[v] = worker[v]
    BY <1>4, <2>2, <2>4, HeadDone
  <2>6. QED BY <1>1, <2>1, <2>4, <2>5, TruthWorkerStep
<1>5. QED BY <1>3, <1>4 DEF WorkerFails

\* A record that was listed stays listed while r puts its own into the index.
LEMMA ListedStays ==
  ASSUME NEW r \in Requests, OthersKeepUnder(r, {}), Grows, interrupted \subseteq interrupted',
         NEW id, Listed(id),
         req[r].stage = "index" /\ req[r].got.id = id =>
            id \in ToSet(deliveryIndex') \/ id \in interrupted'
  PROVE  Listed(id)'
<1>1. CASE id \in ToSet(deliveryIndex) \/ id \in interrupted
  BY <1>1 DEF Listed, Grows
<1>2. ASSUME NEW q \in Requests \ {r}, req[q].stage = "index", req[q].got.id = id
      PROVE  Listed(id)'
  BY <1>2 DEF Listed, OthersKeepUnder, KeepsUnder
<1>3. QED BY <1>1, <1>2 DEF Listed

\* A record that r leaves alone stays anchored while r holds on to its copy.
LEMMA AnchoredStays ==
  ASSUME NEW r \in Requests, OthersKeepUnder(r, {}), Grows, interrupted \subseteq interrupted',
         NEW id, Anchored(id), deliveries'[id] = deliveries[id],
         req[r].stage \in HoldStages \ {"mark"} /\ req[r].got.id = id =>
            \/ req'[r].stage \in HoldStages \ {"mark"} /\ req'[r].got.id = id
            \/ id \in interrupted'
  PROVE  Anchored(id)'
<1>1. CASE \/ deliveries[id].status \in Final
           \/ deliveries[id].status = "failed" /\ id \in ToSet(deliveryIndex)
           \/ id \in interrupted
  BY <1>1 DEF Anchored, Grows
<1>2. ASSUME NEW q \in Requests \ {r}, req[q].stage \in HoldStages \ {"mark"}, req[q].got.id = id
      PROVE  Anchored(id)'
  BY <1>2 DEF Anchored, OthersKeepUnder, KeepsUnder
<1>3. QED BY <1>1, <1>2 DEF Anchored

\* A request that holds on to its copy keeps the records anchored.
LEMMA AnchorsStay ==
  ASSUME AnchorInv, NEW r \in Requests, OthersKeepUnder(r, {}), Grows,
         interrupted \subseteq interrupted', deliveries' = deliveries,
         req[r].stage = "index" =>
            req[r].got.id \in ToSet(deliveryIndex') \/ req[r].got.id \in interrupted',
         req[r].stage \in HoldStages \ {"mark"} =>
            \/ req'[r].stage \in HoldStages \ {"mark"} /\ req'[r].got.id = req[r].got.id
            \/ req[r].got.id \in interrupted'
  PROVE  AnchorInv'
<1>1. ASSUME NEW id \in DOMAIN deliveries PROVE Listed(id)' /\ Anchored(id)'
  <2>1. Listed(id) /\ Anchored(id)
    BY DEF AnchorInv
  <2>2. Listed(id)'
    BY <2>1, ListedStays
  <2>3. deliveries'[id] = deliveries[id]
    OBVIOUS
  <2>4. QED BY <2>1, <2>2, <2>3, AnchoredStays
<1>2. QED BY <1>1 DEF AnchorInv

\* A request that has put its record into the index releases it when the
\* record is settled or failed.
LEMMA AnchorsReleased ==
  ASSUME AnchorInv, NEW r \in Requests, OthersKeepUnder(r, {}), Grows,
         interrupted' = interrupted, req[r].stage \in {"update", "mark"},
         DOMAIN deliveries' = DOMAIN deliveries,
         \A d \in DOMAIN deliveries :
            \/ d # req[r].got.id /\ deliveries'[d] = deliveries[d]
            \/ d = req[r].got.id /\ deliveries'[d].status \in Final \cup {"failed"}
  PROVE  AnchorInv'
<1>1. ASSUME NEW id \in DOMAIN deliveries PROVE Listed(id)' /\ Anchored(id)'
  <2>1. Listed(id) /\ Anchored(id) /\ interrupted \subseteq interrupted'
    BY DEF AnchorInv
  <2>2. Listed(id)'
    BY <2>1, ListedStays
  <2>3. CASE id # req[r].got.id /\ deliveries'[id] = deliveries[id]
    BY <2>1, <2>2, <2>3, AnchoredStays
  <2>4. CASE deliveries'[id].status \in Final \cup {"failed"}
    <3>1. CASE id \in ToSet(deliveryIndex') \/ id \in interrupted'
      BY <2>2, <2>4, <3>1 DEF Anchored
    <3>2. ASSUME NEW q \in Requests, req'[q].stage = "index", req'[q].got.id = id
          PROVE  Listed(id)' /\ Anchored(id)'
      BY <2>2, <3>2 DEF Anchored, HoldStages
    <3>3. QED BY <2>2, <3>1, <3>2 DEF Listed
  <2>5. QED BY <2>2, <2>3, <2>4
<1>2. QED BY <1>1 DEF AnchorInv

\* A worker writes only what is in the index, and settled or failed.
LEMMA AnchorsWorked ==
  ASSUME AnchorInv, Grows, UNCHANGED <<req, interrupted>>, DOMAIN deliveries' = DOMAIN deliveries,
         \A d \in DOMAIN deliveries :
            \/ deliveries'[d] = deliveries[d]
            \/ deliveries'[d].status \in Final \cup {"failed"} /\ d \in ToSet(deliveryIndex')
  PROVE  AnchorInv'
<1>1. ASSUME NEW id \in DOMAIN deliveries PROVE Listed(id)' /\ Anchored(id)'
  <2>1. Listed(id) /\ Anchored(id)
    BY DEF AnchorInv
  <2>2. Listed(id)'
    BY <2>1 DEF Listed, Grows
  <2>3. CASE deliveries'[id] = deliveries[id]
    BY <2>1, <2>2, <2>3 DEF Anchored, Grows
  <2>4. CASE deliveries'[id].status \in Final \cup {"failed"} /\ id \in ToSet(deliveryIndex')
    BY <2>2, <2>4 DEF Anchored
  <2>5. QED BY <2>2, <2>3, <2>4
<1>2. QED BY <1>1 DEF AnchorInv

\* Nobody holds a copy of the record of id.
Unheld(id) ==
    /\ \A q \in Requests : ~RequestHolds(q, id)
    /\ \A w \in Workers, i \in Nat : ~WorkerHolds(w, i, id)

\* A record that is in nobody's hands has no holder.
LEMMA NotInHands ==
  ASSUME TruthInv, NEW id, ~InHands(id)
  PROVE  Unheld(id)
<1>1. ASSUME NEW q \in Requests PROVE ~RequestHolds(q, id)
  BY HolderKnows DEF RequestHolds, InHands, HeldByRequest, HoldStages
<1>2. ASSUME NEW w \in Workers, NEW i \in Nat PROVE ~WorkerHolds(w, i, id)
  <2>1. worker[w].todo \in Seq(Copies)
    BY DEF TruthInv, WorkerSound
  <2>2. QED BY <2>1 DEF WorkerHolds, InHands, HeldByWorker
<1>3. QED BY <1>1, <1>2 DEF Unheld

\* A dispatcher's delivery that was not created has no holder but it.
LEMMA NotCreated ==
  ASSUME TruthInv, NEW r \in Requests, NEW u, <<r, u>> \notin DOMAIN deliveries,
         ~RequestHolds(r, <<r, u>>)
  PROVE  Unheld(<<r, u>>)
<1>1. PICK id : id = <<r, u>>
  OBVIOUS
<1>2. id[1] = r
  BY <1>1
<1>3. ASSUME NEW q \in Requests, RequestHolds(q, id) PROVE FALSE
  <2>1. req[q].stage \in HoldStages /\ req[q].got.id = id
    BY <1>3 DEF RequestHolds
  <2>2. id[1] = q
    BY <1>1, <2>1, HolderKnows
  <2>3. QED BY <1>1, <1>2, <1>3, <2>2
<1>4. ASSUME NEW w \in Workers, NEW i \in Nat PROVE ~WorkerHolds(w, i, id)
  BY <1>1 DEF TruthInv, WorkerSound, WorkerHolds
<1>5. QED BY <1>1, <1>3, <1>4 DEF Unheld

\* A request's step leaves a record that is not contested with one holder.
LEMMA RequestHandsOver ==
  ASSUME NEW r \in Requests, OthersKeepUnder(r, {}), worker' = worker, NEW id, Uncontested(id),
         RequestHolds(r, id)' =>
            \/ RequestHolds(r, id) /\ req'[r].op = req[r].op
            \/ /\ req'[r].op # "Retry" /\ Unheld(id)
               /\ req'[r].op = "Dispatch" => id \notin DOMAIN deliveries',
         id \in DOMAIN deliveries' =>
            \/ id \in DOMAIN deliveries /\ deliveries'[id] = deliveries[id]
            \/ deliveries'[id].status \notin Final
            \/ RequestHolds(r, id) /\ ~RequestHolds(r, id)'
  PROVE  Uncontested(id)'
<1>1. \A q \in Requests \ {r} : req'[q].op = req[q].op /\ (RequestHolds(q, id)' <=> RequestHolds(q, id))
  BY DEF OthersKeepUnder, KeepsUnder, RequestHolds
<1>2. \A w \in Workers, i \in Nat : WorkerHolds(w, i, id)' <=> WorkerHolds(w, i, id)
  BY DEF WorkerHolds
<1>3. /\ \A q \in Requests : RequestHolds(q, id) =>
            /\ req[q].op # "Retry"
            /\ req[q].op = "Dispatch" /\ id \in DOMAIN deliveries => deliveries[id].status \notin Final
            /\ \A p \in Requests : RequestHolds(p, id) => p = q
            /\ \A w \in Workers, i \in Nat : ~WorkerHolds(w, i, id)
      /\ \A w \in Workers, i \in Nat : WorkerHolds(w, i, id) =>
            /\ id \in DOMAIN deliveries => deliveries[id].status \notin Final
            /\ \A v \in Workers, j \in Nat : WorkerHolds(v, j, id) => v = w /\ j = i
  BY DEF Uncontested
<1>4. ASSUME NEW q \in Requests, RequestHolds(q, id)'
      PROVE  /\ req'[q].op # "Retry"
             /\ req'[q].op = "Dispatch" /\ id \in DOMAIN deliveries' => deliveries'[id].status \notin Final
             /\ \A p \in Requests : RequestHolds(p, id)' => p = q
             /\ \A w \in Workers, i \in Nat : ~WorkerHolds(w, i, id)'
  <2>1. CASE RequestHolds(q, id) /\ req'[q].op = req[q].op
    <3>1. req'[q].op # "Retry" /\ \A w \in Workers, i \in Nat : ~WorkerHolds(w, i, id)'
      BY <1>2, <1>3, <2>1
    <3>2. \A p \in Requests : RequestHolds(p, id)' => RequestHolds(p, id)
      BY <1>1, <2>1 DEF Unheld
    <3>3. \A p \in Requests : RequestHolds(p, id)' => p = q
      BY <1>3, <2>1, <3>2
    <3>4. ASSUME req'[q].op = "Dispatch", id \in DOMAIN deliveries' PROVE deliveries'[id].status \notin Final
      <4>1. ~(RequestHolds(r, id) /\ ~RequestHolds(r, id)')
        BY <1>3, <1>4, <2>1
      <4>2. QED BY <1>3, <2>1, <3>4, <4>1
    <3>5. QED BY <3>1, <3>3, <3>4
  <2>2. CASE /\ q = r /\ req'[r].op # "Retry" /\ Unheld(id)
             /\ req'[r].op = "Dispatch" => id \notin DOMAIN deliveries'
    <3>1. \A p \in Requests : RequestHolds(p, id)' => p = r
      BY <1>1, <2>2 DEF Unheld
    <3>2. \A w \in Workers, i \in Nat : ~WorkerHolds(w, i, id)'
      BY <1>2, <2>2 DEF Unheld
    <3>3. QED BY <2>2, <3>1, <3>2
  <2>3. QED BY <1>1, <1>4, <2>1, <2>2
<1>5. ASSUME NEW w \in Workers, NEW i \in Nat, WorkerHolds(w, i, id)'
      PROVE  /\ id \in DOMAIN deliveries' => deliveries'[id].status \notin Final
             /\ \A v \in Workers, j \in Nat : WorkerHolds(v, j, id)' => v = w /\ j = i
  <2>1. WorkerHolds(w, i, id)
    BY <1>2, <1>5
  <2>2. ~RequestHolds(r, id)
    BY <1>3, <2>1
  <2>3. QED BY <1>2, <1>3, <2>1, <2>2
<1>6. QED BY <1>4, <1>5 DEF Uncontested

\* And so does a worker's.
LEMMA WorkerHandsOver ==
  ASSUME NEW w \in Workers, req' = req, \A v \in Workers \ {w} : worker'[v] = worker[v],
         NEW id, Uncontested(id),
         \/ \E k \in {0, 1} : \A j \in Nat : WorkerHolds(w, j, id)' => WorkerHolds(w, j + k, id)
         \/ /\ Unheld(id) /\ \A i, j \in Nat : WorkerHolds(w, i, id)' /\ WorkerHolds(w, j, id)' => i = j
            /\ id \in DOMAIN deliveries' => deliveries'[id].status \notin Final,
         id \in DOMAIN deliveries' =>
            \/ id \in DOMAIN deliveries /\ deliveries'[id] = deliveries[id]
            \/ deliveries'[id].status \notin Final
            \/ (\E i \in Nat : WorkerHolds(w, i, id)) /\ \A j \in Nat : ~WorkerHolds(w, j, id)'
  PROVE  Uncontested(id)'
<1>1. \A q \in Requests : RequestHolds(q, id)' <=> RequestHolds(q, id)
  BY DEF RequestHolds
<1>2. \A v \in Workers \ {w}, i \in Nat : WorkerHolds(v, i, id)' <=> WorkerHolds(v, i, id)
  BY DEF WorkerHolds
<1>3. /\ \A q \in Requests : RequestHolds(q, id) =>
            /\ req[q].op # "Retry"
            /\ req[q].op = "Dispatch" /\ id \in DOMAIN deliveries => deliveries[id].status \notin Final
            /\ \A p \in Requests : RequestHolds(p, id) => p = q
            /\ \A v \in Workers, i \in Nat : ~WorkerHolds(v, i, id)
      /\ \A v \in Workers, i \in Nat : WorkerHolds(v, i, id) =>
            /\ id \in DOMAIN deliveries => deliveries[id].status \notin Final
            /\ \A y \in Workers, j \in Nat : WorkerHolds(y, j, id) => y = v /\ j = i
  BY DEF Uncontested
<1>4. CASE \E k \in {0, 1} : \A j \in Nat : WorkerHolds(w, j, id)' => WorkerHolds(w, j + k, id)
  <2>1. PICK k \in {0, 1} : \A j \in Nat : WorkerHolds(w, j, id)' => WorkerHolds(w, j + k, id)
    BY <1>4
  <2>2. \A v \in Workers, i \in Nat : WorkerHolds(v, i, id)' => \E n \in Nat : WorkerHolds(v, n, id)
    BY <1>2, <2>1
  <2>3. ASSUME NEW q \in Requests, RequestHolds(q, id)'
        PROVE  /\ req'[q].op # "Retry"
               /\ req'[q].op = "Dispatch" /\ id \in DOMAIN deliveries' => deliveries'[id].status \notin Final
               /\ \A p \in Requests : RequestHolds(p, id)' => p = q
               /\ \A v \in Workers, i \in Nat : ~WorkerHolds(v, i, id)'
    <3>1. RequestHolds(q, id) /\ \A v \in Workers, i \in Nat : ~WorkerHolds(v, i, id)
      BY <1>1, <1>3, <2>3
    <3>2. QED BY <1>1, <1>3, <2>2, <3>1
  <2>4. ASSUME NEW v \in Workers, NEW i \in Nat, WorkerHolds(v, i, id)'
        PROVE  /\ id \in DOMAIN deliveries' => deliveries'[id].status \notin Final
               /\ \A y \in Workers, j \in Nat : WorkerHolds(y, j, id)' => y = v /\ j = i
    <3>1. PICK n \in Nat : WorkerHolds(v, n, id)
      BY <2>2, <2>4
    <3>2. ASSUME NEW y \in Workers, NEW j \in Nat, WorkerHolds(y, j, id)' PROVE y = v /\ j = i
      <4>1. PICK m \in Nat : WorkerHolds(y, m, id)
        BY <2>2, <3>2
      <4>2. y = v
        BY <1>3, <3>1, <4>1
      <4>3. CASE v = w
        <5>1. WorkerHolds(w, i + k, id) /\ WorkerHolds(w, j + k, id)
          BY <2>1, <2>4, <3>2, <4>2, <4>3
        <5>2. i + k \in Nat /\ j + k \in Nat
          OBVIOUS
        <5>3. i + k = j + k
          BY <1>3, <5>1, <5>2
        <5>4. QED BY <4>2, <5>3
      <4>4. CASE v # w
        BY <1>2, <1>3, <2>4, <3>2, <4>2, <4>4
      <4>5. QED BY <4>3, <4>4
    <3>3. ASSUME id \in DOMAIN deliveries' PROVE deliveries'[id].status \notin Final
      <4>1. ASSUME NEW m \in Nat, WorkerHolds(w, m, id), \A j \in Nat : ~WorkerHolds(w, j, id)'
            PROVE  FALSE
        <5>1. v = w
          BY <1>3, <3>1, <4>1
        <5>2. QED BY <2>4, <4>1, <5>1
      <4>2. QED BY <1>3, <3>1, <3>3, <4>1
    <3>4. QED BY <3>2, <3>3
  <2>5. QED BY <2>3, <2>4 DEF Uncontested
<1>5. CASE /\ Unheld(id) /\ \A i, j \in Nat : WorkerHolds(w, i, id)' /\ WorkerHolds(w, j, id)' => i = j
           /\ id \in DOMAIN deliveries' => deliveries'[id].status \notin Final
  <2>1. \A q \in Requests : ~RequestHolds(q, id)'
    BY <1>1, <1>5 DEF Unheld
  <2>2. \A v \in Workers, i \in Nat : WorkerHolds(v, i, id)' => v = w
    BY <1>2, <1>5 DEF Unheld
  <2>3. QED BY <1>5, <2>1, <2>2 DEF Uncontested
<1>6. QED BY <1>4, <1>5

\* The hands after a request's step.
LEMMA HandsAfter ==
  ASSUME HandsInv, NEW r \in Requests, OthersKeepUnder(r, {}),
         \A id \in DeliveryIds \ contested' : Uncontested(id)',
         \A q \in Requests \ {r}, u \in Nat : <<q, u>> \in DOMAIN deliveries' => <<q, u>> \in DOMAIN deliveries,
         Created(r)'
  PROVE  HandsInv'
<1>1. ASSUME NEW q \in Requests \ {r} PROVE Created(q)'
  BY DEF HandsInv, Created, OthersKeepUnder, KeepsUnder
<1>2. QED BY <1>1 DEF HandsInv

\* The hands after a step of a request that takes on no other delivery.
LEMMA HandsKept ==
  ASSUME HandsInv, NEW r \in Requests, OthersKeepUnder(r, {}), worker' = worker,
         contested \subseteq contested', req'[r].op = req[r].op,
         \A id : RequestHolds(r, id)' => RequestHolds(r, id),
         \A id \in DOMAIN deliveries' :
            \/ id \in DOMAIN deliveries /\ deliveries'[id] = deliveries[id]
            \/ deliveries'[id].status \notin Final
            \/ RequestHolds(r, id) /\ ~RequestHolds(r, id)',
         \A q \in Requests \ {r}, u \in Nat : <<q, u>> \in DOMAIN deliveries' => <<q, u>> \in DOMAIN deliveries,
         Created(r)'
  PROVE  HandsInv'
<1>1. ASSUME NEW id \in DeliveryIds \ contested' PROVE Uncontested(id)'
  <2>1. Uncontested(id)
    BY DEF HandsInv
  <2>2. RequestHolds(r, id)' => RequestHolds(r, id) /\ req'[r].op = req[r].op
    OBVIOUS
  <2>3. QED BY <2>1, <2>2, RequestHandsOver
<1>2. QED BY <1>1, HandsAfter

\* The hands after a step of a request that writes nothing, and holds on to
\* its copy or lets it go.
LEMMA HandsIdle ==
  ASSUME HandsInv, NEW r \in Requests, OthersKeepUnder(r, {}), UNCHANGED <<worker, deliveries>>,
         contested \subseteq contested',
         \/ req[r].stage = "idle" /\ req'[r].stage = "started"
         \/ req'[r].op = req[r].op /\ req'[r].stage = "done"
         \/ /\ req'[r].op = req[r].op /\ req'[r].stage \in HoldStages \ {"create"}
            /\ req[r].stage \in HoldStages /\ req'[r].got.id = req[r].got.id
            /\ req[r].stage = "create" => req[r].got.id \in DeliveryIds
  PROVE  HandsInv'
<1>1. \A id : RequestHolds(r, id)' => RequestHolds(r, id) /\ req'[r].op = req[r].op
  BY DEF RequestHolds, HoldStages
<1>2. Created(r)'
  <2>1. Created(r) /\ DOMAIN deliveries' = DOMAIN deliveries
    BY DEF HandsInv
  <2>2. ASSUME NEW u \in Nat, <<r, u>> \in DOMAIN deliveries
        PROVE  /\ req'[r].op = "Dispatch" /\ req'[r].stage \in HoldStages \cup {"done"}
               /\ req'[r].stage = "create" => u < req'[r].got.id[2]
               /\ req'[r].stage \in HoldStages => u <= req'[r].got.id[2]
    BY <2>1, <2>2 DEF Created, HoldStages
  <2>3. QED BY <2>1, <2>2 DEF Created
<1>3. ASSUME NEW id \in DeliveryIds \ contested' PROVE Uncontested(id)'
  <2>1. Uncontested(id)
    BY DEF HandsInv
  <2>2. id \in DOMAIN deliveries' => id \in DOMAIN deliveries /\ deliveries'[id] = deliveries[id]
    OBVIOUS
  <2>3. QED BY <1>1, <2>1, <2>2, RequestHandsOver
<1>4. \A q \in Requests \ {r}, u \in Nat : <<q, u>> \in DOMAIN deliveries' => <<q, u>> \in DOMAIN deliveries
  OBVIOUS
<1>5. QED BY <1>2, <1>3, <1>4, HandsAfter

\* The hands after a dispatcher went on to the next URL; it may have written
\* the record of the one before.
LEMMA HandsForURL ==
  ASSUME TruthInv, HandsInv, NEW r \in Requests, NEW u \in Nat, req' = ForURL(r, u),
         req[r].op = "Dispatch", worker' = worker, contested \subseteq contested',
         \/ req[r].stage = "started"
         \/ req[r].stage = "update" /\ u = req[r].got.id[2] + 1,
         DOMAIN deliveries' = DOMAIN deliveries,
         \A id \in DOMAIN deliveries : deliveries'[id] = deliveries[id] \/ RequestHolds(r, id)
  PROVE  HandsInv'
<1>1. /\ req'[r].op = "Dispatch" /\ req'[r].stage = "create"
      /\ req'[r].got.id = <<r, u>> /\ OthersKeepUnder(r, {})
  BY ForURLStep DEF TruthInv, DeliveryTypes
<1>2. ASSUME NEW v \in Nat, <<r, v>> \in DOMAIN deliveries PROVE v < u
  <2>1. Created(r)
    BY DEF HandsInv
  <2>2. req[r].stage = "update" /\ v <= req[r].got.id[2]
    BY <1>2, <2>1 DEF Created, HoldStages
  <2>3. req[r].got.id \in DeliveryIds
    BY <2>2, HolderKnows DEF HoldStages
  <2>4. req[r].got.id[2] \in Nat
    BY <2>3 DEF DeliveryIds
  <2>5. QED BY <2>2, <2>4
<1>3. <<r, u>> \notin DOMAIN deliveries
  BY <1>2
<1>4. ~RequestHolds(r, <<r, u>>)
  <2>1. ASSUME req[r].stage = "update", req[r].got.id = <<r, u>> PROVE FALSE
    <3>1. req[r].got.id[2] = u
      BY <2>1
    <3>2. QED BY <2>1, <3>1
  <2>2. QED BY <2>1 DEF RequestHolds, HoldStages
<1>5. Unheld(<<r, u>>)
  BY <1>3, <1>4, NotCreated
<1>6. ASSUME NEW id \in DeliveryIds \ contested' PROVE Uncontested(id)'
  <2>1. Uncontested(id)
    BY DEF HandsInv
  <2>2. RequestHolds(r, id)' => id = <<r, u>>
    BY <1>1 DEF RequestHolds
  <2>3. RequestHolds(r, id)' =>
            /\ req'[r].op # "Retry" /\ Unheld(id)
            /\ req'[r].op = "Dispatch" => id \notin DOMAIN deliveries'
    BY <1>1, <1>3, <1>5, <2>2
  <2>4. RequestHolds(r, id) => ~RequestHolds(r, id)'
    BY <1>4, <2>2
  <2>5. id \in DOMAIN deliveries' =>
            \/ id \in DOMAIN deliveries /\ deliveries'[id] = deliveries[id]
            \/ RequestHolds(r, id) /\ ~RequestHolds(r, id)'
    BY <2>4
  <2>6. QED BY <1>1, <2>1, <2>3, <2>5, RequestHandsOver
<1>7. Created(r)'
  <2>1. PICK n : n = u
    OBVIOUS
  <2>2. req'[r].got.id[2] = n
    BY <1>1, <2>1
  <2>3. \A v \in Nat : <<r, v>> \in DOMAIN deliveries' => v < n /\ v <= n
    BY <1>2, <2>1
  <2>4. QED BY <1>1, <2>2, <2>3 DEF Created, HoldStages
<1>8. \A q \in Requests \ {r}, v \in Nat : <<q, v>> \in DOMAIN deliveries' => <<q, v>> \in DOMAIN deliveries
  OBVIOUS
<1>9. QED BY <1>1, <1>6, <1>7, <1>8, HandsAfter

\* A request starts.
LEMMA WebhookStarts ==
  ASSUME WebhookInv, NEW r \in Requests, UNCHANGED webhookVars,
         \/ dispatchWebhook(r)
         \/ \E op \in {"Retry", "DeadLetter"}, id \in DOMAIN deliveries : handleWebhookDeliveryAction(r, op, id)
  PROVE  WebhookInv'
<1>1. /\ TruthInv' /\ Grows /\ OthersKeepUnder(r, {}) /\ req[r].stage = "idle"
      /\ req'[r].stage = "started"
  BY TruthStarts DEF WebhookInv
<1>2. UNCHANGED <<worker, deliveries, interrupted, contested>>
  BY DEF webhookVars
<1>3. AnchorInv'
  BY <1>1, <1>2, AnchorsStay DEF WebhookInv, HoldStages
<1>4. HandsInv'
  BY <1>1, <1>2, HandsIdle DEF WebhookInv
<1>5. QED BY <1>1, <1>3, <1>4 DEF WebhookInv

\* A dispatcher takes on its first delivery.
LEMMA WebhookFirstURL ==
  ASSUME WebhookInv, NEW r \in Requests, FirstURL(r)
  PROVE  WebhookInv'
<1>1. /\ req[r].op = "Dispatch" /\ req[r].stage = "started" /\ req' = ForURL(r, 1)
      /\ UNCHANGED <<worker, deliveries, deliveryIndex, posts, accepted, buried, interrupted, contested>>
  BY DEF FirstURL, At, webhookVars
<1>2. OthersKeepUnder(r, {})
  BY <1>1, ForURLStep DEF WebhookInv, TruthInv, DeliveryTypes
<1>3. Grows /\ DeliveryTypes'
  BY <1>1, <1>2, DeliveriesStay DEF WebhookInv, TruthInv, DeliveryTypes, OthersKeepUnder
<1>4. TruthInv'
  BY <1>1, <1>3, ForURLTruth DEF WebhookInv
<1>5. AnchorInv'
  BY <1>1, <1>2, <1>3, AnchorsStay DEF WebhookInv, HoldStages
<1>6. HandsInv'
  BY <1>1, HandsForURL DEF WebhookInv
<1>7. QED BY <1>4, <1>5, <1>6 DEF WebhookInv

\* A dispatcher creates its record.
LEMMA WebhookCreates ==
  ASSUME WebhookInv, NEW r \in Requests, CreateWebhookDelivery(r)
  PROVE  WebhookInv'
<1>1. /\ TruthInv' /\ Grows /\ OthersKeepUnder(r, {})
      /\ req'[r].op = "Dispatch" /\ req'[r].stage = "index" /\ req'[r].got = req[r].got
  BY TruthCreates DEF WebhookInv
<1>2. PICK id : id = req[r].got.id
  OBVIOUS
<1>3. /\ req[r].stage = "create" /\ req[r].op = "Dispatch"
      /\ UNCHANGED <<worker, deliveryIndex, interrupted, contested>>
  BY DEF CreateWebhookDelivery, At, historyVars
<1>4. /\ id \in DeliveryIds /\ id[1] = r
      /\ req[r].got.rec = [status |-> "pending", attempts |-> 0]
  BY <1>2, <1>3, HolderKnows DEF WebhookInv, HoldStages
<1>5. /\ DOMAIN deliveries' = DOMAIN deliveries \cup {id} /\ deliveries'[id].status = "pending"
      /\ \A d \in DOMAIN deliveries \ {id} : deliveries'[d] = deliveries[d]
  BY <1>2, <1>4 DEF CreateWebhookDelivery, Put
<1>6. AnchorInv'
  <2>1. ASSUME NEW d \in DOMAIN deliveries \ {id} PROVE Listed(d)' /\ Anchored(d)'
    <3>1. Listed(d) /\ Anchored(d) /\ interrupted \subseteq interrupted' /\ deliveries'[d] = deliveries[d]
      BY <1>3, <1>5 DEF WebhookInv, AnchorInv
    <3>2. Listed(d)'
      BY <1>1, <1>3, <3>1, ListedStays
    <3>3. Anchored(d)'
      BY <1>1, <1>2, <1>3, <3>1, AnchoredStays
    <3>4. QED BY <3>2, <3>3
  <2>2. Listed(id)' /\ Anchored(id)'
    BY <1>1, <1>2 DEF Listed, Anchored, HoldStages
  <2>3. QED BY <1>5, <2>1, <2>2 DEF AnchorInv
<1>7. HandsInv'
  <2>1. \A d : RequestHolds(r, d)' => RequestHolds(r, d)
    BY <1>1, <1>3 DEF RequestHolds, HoldStages
  <2>2. \A d \in DOMAIN deliveries' :
            \/ d \in DOMAIN deliveries /\ deliveries'[d] = deliveries[d]
            \/ deliveries'[d].status \notin Final
    BY <1>5 DEF Final
  <2>3. \A q \in Requests \ {r}, u \in Nat : <<q, u>> \in DOMAIN deliveries' => <<q, u>> \in DOMAIN deliveries
    <3>1. ASSUME NEW q \in Requests \ {r}, NEW u \in Nat, <<q, u>> = id PROVE FALSE
      <4>1. id[1] = q
        BY <3>1
      <4>2. QED BY <1>4, <4>1
    <3>2. QED BY <1>5, <3>1
  <2>4. Created(r)'
    <3>1. PICK n \in Nat : id = <<r, n>>
      BY <1>4 DEF DeliveryIds
    <3>2. req[r].got.id[2] = n /\ req'[r].got.id[2] = n
      BY <1>1, <1>2, <3>1
    <3>3. \A u \in Nat : <<r, u>> \in DOMAIN deliveries => u < n
      BY <1>3, <3>2 DEF WebhookInv, HandsInv, Created
    <3>4. ASSUME NEW u \in Nat, <<r, u>> \in DOMAIN deliveries' PROVE u <= n
      <4>1. CASE <<r, u>> \in DOMAIN deliveries
        BY <3>3, <4>1
      <4>2. CASE <<r, u>> = id
        <5>1. u = n
          BY <3>1, <4>2
        <5>2. QED BY <5>1
      <4>3. QED BY <1>5, <3>4, <4>1, <4>2
    <3>5. QED BY <1>1, <3>2, <3>4 DEF Created, HoldStages
  <2>5. worker' = worker /\ contested \subseteq contested' /\ req'[r].op = req[r].op
    BY <1>1, <1>3
  <2>6. QED BY <1>1, <2>1, <2>2, <2>3, <2>4, <2>5, HandsKept DEF WebhookInv
<1>8. QED BY <1>1, <1>6, <1>7 DEF WebhookInv

\* A dispatcher puts its record into the index, or gives that up.
LEMMA WebhookIndexes ==
  ASSUME WebhookInv, NEW r \in Requests, IndexWebhookDelivery(r) \/ CreateFails(r)
  PROVE  WebhookInv'
<1>1. /\ TruthInv' /\ Grows /\ OthersKeepUnder(r, {})
      /\ req'[r].op = "Dispatch" /\ req'[r].stage = "post" /\ req'[r].got = req[r].got
  BY TruthIndexes, TruthCreateFails DEF WebhookInv
<1>2. /\ req[r].stage \in {"create", "index"} /\ req[r].op = "Dispatch"
      /\ UNCHANGED <<worker, deliveries, contested>> /\ interrupted \subseteq interrupted'
      /\ req[r].got.id \in ToSet(deliveryIndex') \/ req[r].got.id \in interrupted'
  BY TruthIndexes DEF WebhookInv, IndexWebhookDelivery, CreateFails, At, historyVars
<1>3. req[r].got.id \in DeliveryIds
  BY <1>2, HolderKnows DEF WebhookInv, HoldStages
<1>4. AnchorInv'
  BY <1>1, <1>2, AnchorsStay DEF WebhookInv, HoldStages
<1>5. HandsInv'
  BY <1>1, <1>2, <1>3, HandsIdle DEF WebhookInv, HoldStages
<1>6. QED BY <1>1, <1>4, <1>5 DEF WebhookInv

\* A request sends the event.
LEMMA WebhookPosts ==
  ASSUME WebhookInv, NEW r \in Requests, NEW ok \in BOOLEAN, PostOfRequest(r, ok)
  PROVE  WebhookInv'
<1>1. /\ TruthInv' /\ Grows /\ OthersKeepUnder(r, {})
      /\ req'[r].op = req[r].op /\ req'[r].stage = "update" /\ req'[r].got.id = req[r].got.id
  BY TruthPosts DEF WebhookInv
<1>2. req[r].stage = "post" /\ UNCHANGED <<worker, deliveries, interrupted, contested>>
  BY DEF PostOfRequest
<1>3. AnchorInv'
  BY <1>1, <1>2, AnchorsStay DEF WebhookInv, HoldStages
<1>4. HandsInv'
  BY <1>1, <1>2, HandsIdle DEF WebhookInv, HoldStages
<1>5. QED BY <1>1, <1>3, <1>4 DEF WebhookInv

\* The hands after a request let its copy go.
LEMMA HandsReleased ==
  ASSUME TruthInv, HandsInv, NEW r \in Requests, OthersKeepUnder(r, {}), worker' = worker,
         contested' = contested, req'[r].op = req[r].op, req[r].stage \in HoldStages,
         \/ req'[r].stage = "audit" /\ req[r].op # "Dispatch"
         \/ req'[r].stage = "done",
         DOMAIN deliveries' = DOMAIN deliveries,
         \A id \in DOMAIN deliveries : id = req[r].got.id \/ deliveries'[id] = deliveries[id]
  PROVE  HandsInv'
<1>1. \A id : ~RequestHolds(r, id)'
  BY DEF RequestHolds, HoldStages
<1>2. \A id \in DOMAIN deliveries' :
        \/ id \in DOMAIN deliveries /\ deliveries'[id] = deliveries[id]
        \/ RequestHolds(r, id) /\ ~RequestHolds(r, id)'
  BY <1>1 DEF RequestHolds
<1>3. Created(r)'
  BY DEF HandsInv, Created, HoldStages
<1>4. \A q \in Requests \ {r}, u \in Nat : <<q, u>> \in DOMAIN deliveries' => <<q, u>> \in DOMAIN deliveries
  OBVIOUS
<1>5. QED BY <1>1, <1>2, <1>3, <1>4, HandsKept

\* A request is done with its delivery, which it wrote or failed to write.
LEMMA HandsAfterAttempt ==
  ASSUME TruthInv, HandsInv, NEW r \in Requests, req[r].stage = "update", req' = AfterAttempt(r),
         worker' = worker, contested' = contested, DOMAIN deliveries' = DOMAIN deliveries,
         \A id \in DOMAIN deliveries : id = req[r].got.id \/ deliveries'[id] = deliveries[id]
  PROVE  HandsInv' /\ OthersKeepUnder(r, {})
<1>1. CASE /\ req'[r].op = req[r].op /\ OthersKeepUnder(r, {})
           /\ \/ req'[r].stage = "audit" /\ req[r].op # "Dispatch"
              \/ req'[r].stage = "done"
  BY <1>1, HandsReleased DEF HoldStages
<1>2. CASE /\ req[r].op = "Dispatch" /\ req[r].got.id[2] + 1 \in Nat
           /\ req' = ForURL(r, req[r].got.id[2] + 1)
  <2>1. OthersKeepUnder(r, {})
    BY <1>2, ForURLStep DEF TruthInv, DeliveryTypes
  <2>2. \A id \in DOMAIN deliveries : deliveries'[id] = deliveries[id] \/ RequestHolds(r, id)
    BY DEF RequestHolds, HoldStages
  <2>3. PICK u \in Nat : u = req[r].got.id[2] + 1
    BY <1>2
  <2>4. req' = ForURL(r, u)
    BY <1>2, <2>3
  <2>5. HandsInv'
    BY <1>2, <2>2, <2>3, <2>4, HandsForURL
  <2>6. QED BY <2>1, <2>5
<1>3. QED BY <1>1, <1>2, AfterAttemptStep

\* A request writes its copy back.
LEMMA WebhookUpdates ==
  ASSUME WebhookInv, NEW r \in Requests, UpdateOfRequest(r)
  PROVE  WebhookInv'
<1>1. /\ TruthInv' /\ Grows /\ DOMAIN deliveries' = DOMAIN deliveries
      /\ \A d \in DOMAIN deliveries :
            \/ d # req[r].got.id /\ deliveries'[d] = deliveries[d]
            \/ d = req[r].got.id /\ deliveries'[d].status \in Final \cup {"failed"}
  BY TruthUpdates DEF WebhookInv
<1>2. /\ req[r].stage = "update" /\ req' = AfterAttempt(r)
      /\ UNCHANGED <<worker, interrupted, contested>>
  BY DEF UpdateOfRequest, historyVars
<1>3. \A id \in DOMAIN deliveries : id = req[r].got.id \/ deliveries'[id] = deliveries[id]
  BY <1>1
<1>4. HandsInv' /\ OthersKeepUnder(r, {})
  BY <1>1, <1>2, <1>3, HandsAfterAttempt DEF WebhookInv
<1>5. AnchorInv'
  BY <1>1, <1>2, <1>4, AnchorsReleased DEF WebhookInv
<1>6. QED BY <1>1, <1>4, <1>5 DEF WebhookInv

\* Writing the copy back fails.
LEMMA WebhookUpdateFails ==
  ASSUME WebhookInv, NEW r \in Requests, UpdateFails(r)
  PROVE  WebhookInv'
<1>1. TruthInv' /\ Grows
  BY TruthUpdateFails DEF WebhookInv
<1>2. /\ req[r].stage = "update" /\ req' = AfterAttempt(r)
      /\ UNCHANGED <<worker, deliveries, contested>>
      /\ interrupted \subseteq interrupted' /\ req[r].got.id \in interrupted'
  BY DEF UpdateFails
<1>3. HandsInv' /\ OthersKeepUnder(r, {})
  BY <1>2, HandsAfterAttempt DEF WebhookInv
<1>4. AnchorInv'
  BY <1>1, <1>2, <1>3, AnchorsStay DEF WebhookInv
<1>5. QED BY <1>1, <1>3, <1>4 DEF WebhookInv

\* A request is cut off.
LEMMA WebhookCancelled ==
  ASSUME WebhookInv, NEW r \in Requests, Cancelled(r)
  PROVE  WebhookInv'
<1>1. /\ TruthInv' /\ Grows /\ OthersKeepUnder(r, {}) /\ req'[r].stage = "done"
      /\ req'[r].op = req[r].op
  BY TruthCancelled DEF WebhookInv
<1>2. /\ UNCHANGED <<worker, deliveries, contested>> /\ interrupted \subseteq interrupted'
      /\ req[r].stage \in HoldStages \ {"mark"} => req[r].got.id \in interrupted'
  BY DEF Cancelled, HoldStages
<1>3. AnchorInv'
  BY <1>1, <1>2, AnchorsStay DEF WebhookInv, HoldStages
<1>4. HandsInv'
  BY <1>1, <1>2, HandsIdle DEF WebhookInv
<1>5. QED BY <1>1, <1>3, <1>4 DEF WebhookInv

\* A request by hand reads the record.
LEMMA WebhookGets ==
  ASSUME WebhookInv, NEW r \in Requests, GetWebhookDelivery(r)
  PROVE  WebhookInv'
<1>1. /\ TruthInv' /\ Grows /\ OthersKeepUnder(r, {})
      /\ req'[r].op = req[r].op /\ req[r].op \in {"Retry", "DeadLetter"}
      /\ req'[r].stage = IF req[r].op = "Retry" THEN "post" ELSE "mark"
      /\ req'[r].got.id = req[r].arg.id
  BY TruthGets DEF WebhookInv
<1>2. req[r].stage = "started" /\ UNCHANGED <<worker, deliveries, interrupted>>
  BY DEF GetWebhookDelivery
<1>3. /\ contested \subseteq contested'
      /\ req[r].arg.id \notin contested' => req[r].op # "Retry" /\ ~InHands(req[r].arg.id)
  BY DEF GetWebhookDelivery
<1>4. AnchorInv'
  BY <1>1, <1>2, AnchorsStay DEF WebhookInv, HoldStages
<1>5. ASSUME NEW id \in DeliveryIds \ contested' PROVE Uncontested(id)'
  <2>1. Uncontested(id)
    BY <1>3 DEF WebhookInv, HandsInv
  <2>2. RequestHolds(r, id)' => id = req[r].arg.id
    BY <1>1 DEF RequestHolds
  <2>3. id = req[r].arg.id => req[r].op = "DeadLetter" /\ Unheld(id)
    BY <1>1, <1>3, <1>5, NotInHands DEF WebhookInv
  <2>4. RequestHolds(r, id)' =>
            /\ req'[r].op # "Retry" /\ Unheld(id)
            /\ req'[r].op = "Dispatch" => id \notin DOMAIN deliveries'
    BY <1>1, <2>2, <2>3
  <2>5. id \in DOMAIN deliveries' => id \in DOMAIN deliveries /\ deliveries'[id] = deliveries[id]
    BY <1>2
  <2>6. QED BY <1>1, <1>2, <2>1, <2>4, <2>5, RequestHandsOver
<1>6. Created(r)'
  BY <1>1, <1>2 DEF WebhookInv, HandsInv, Created
<1>7. \A q \in Requests \ {r}, u \in Nat : <<q, u>> \in DOMAIN deliveries' => <<q, u>> \in DOMAIN deliveries
  BY <1>2
<1>8. HandsInv'
  BY <1>1, <1>5, <1>6, <1>7, HandsAfter DEF WebhookInv
<1>9. QED BY <1>1, <1>4, <1>8 DEF WebhookInv

\* A delivery is dead-lettered.
LEMMA WebhookDeadLetters ==
  ASSUME WebhookInv, NEW r \in Requests, DeadLetter(r)
  PROVE  WebhookInv'
<1>1. /\ TruthInv' /\ Grows /\ OthersKeepUnder(r, {}) /\ DOMAIN deliveries' = DOMAIN deliveries
      /\ req[r].stage = "mark" /\ req'[r].stage = "audit" /\ req'[r].op = req[r].op
      /\ \A d \in DOMAIN deliveries :
            \/ d # req[r].got.id /\ deliveries'[d] = deliveries[d]
            \/ d = req[r].got.id /\ deliveries'[d].status = "dead"
  BY TruthDeadLetters DEF WebhookInv
<1>2. req[r].op = "DeadLetter" /\ UNCHANGED <<worker, interrupted, contested>>
  BY DEF DeadLetter, At
<1>3. /\ \A d \in DOMAIN deliveries :
            \/ d # req[r].got.id /\ deliveries'[d] = deliveries[d]
            \/ d = req[r].got.id /\ deliveries'[d].status \in Final \cup {"failed"}
      /\ \A d \in DOMAIN deliveries : d = req[r].got.id \/ deliveries'[d] = deliveries[d]
  BY <1>1 DEF Final
<1>4. AnchorInv'
  BY <1>1, <1>2, <1>3, AnchorsReleased DEF WebhookInv
<1>5. HandsInv'
  BY <1>1, <1>2, <1>3, HandsReleased DEF WebhookInv, HoldStages
<1>6. QED BY <1>1, <1>4, <1>5 DEF WebhookInv

\* A request is accounted for.
LEMMA WebhookLedger ==
  ASSUME WebhookInv, NEW r \in Requests, LedgerStep(r), UNCHANGED webhookVars
  PROVE  WebhookInv'
<1>1. /\ TruthInv' /\ Grows /\ OthersKeepUnder(r, {})
      /\ req[r].stage = "audit" /\ req'[r].stage = "done" /\ req'[r].op = req[r].op
  BY TruthLedger DEF WebhookInv
<1>2. UNCHANGED <<worker, deliveries, interrupted, contested>>
  BY DEF webhookVars
<1>3. AnchorInv'
  BY <1>1, <1>2, AnchorsStay DEF WebhookInv, HoldStages
<1>4. HandsInv'
  BY <1>1, <1>2, HandsIdle DEF WebhookInv
<1>5. QED BY <1>1, <1>3, <1>4 DEF WebhookInv

\* What a worker holds after it dropped the first of its copies.
LEMMA TailHolds ==
  ASSUME TruthInv, NEW w \in Workers, worker[w].todo # << >>, worker'[w].todo = Tail(worker[w].todo)
  PROVE  /\ \A id : \A j \in Nat : WorkerHolds(w, j, id)' => WorkerHolds(w, j + 1, id)
         /\ WorkerHolds(w, 1, worker[w].todo[1].id)
<1>1. PICK todo : todo = worker[w].todo
  OBVIOUS
<1>2. todo \in Seq(Copies) /\ todo # << >> /\ worker'[w].todo = Tail(todo)
  BY <1>1 DEF TruthInv, WorkerSound
<1>3. 1 \in 1..Len(todo) /\ \A j \in 1..Len(Tail(todo)) : j + 1 \in 1..Len(todo) /\ Tail(todo)[j] = todo[j + 1]
  BY <1>2
<1>4. QED BY <1>1, <1>2, <1>3 DEF WorkerHolds

\* The hands after a step of a worker that takes on nothing.
LEMMA HandsWorked ==
  ASSUME TruthInv, HandsInv, NEW w \in Workers, UNCHANGED <<req, contested>>,
         \A v \in Workers \ {w} : worker'[v] = worker[v],
         \/ worker'[w].todo = << >> /\ deliveries' = deliveries
         \/ worker'[w].todo = worker[w].todo /\ deliveries' = deliveries
         \/ /\ worker[w].todo # << >> /\ worker'[w].todo = Tail(worker[w].todo)
            /\ DOMAIN deliveries' = DOMAIN deliveries
            /\ \A d \in DOMAIN deliveries : d = worker[w].todo[1].id \/ deliveries'[d] = deliveries[d]
  PROVE  HandsInv'
<1>1. ASSUME NEW id \in DeliveryIds \ contested' PROVE Uncontested(id)'
  <2>1. Uncontested(id)
    BY DEF HandsInv
  <2>2. CASE worker'[w].todo = << >> /\ deliveries' = deliveries
    <3>1. \A j \in Nat : WorkerHolds(w, j, id)' => WorkerHolds(w, j + 0, id)
      BY <2>2 DEF WorkerHolds
    <3>2. id \in DOMAIN deliveries' => id \in DOMAIN deliveries /\ deliveries'[id] = deliveries[id]
      BY <2>2
    <3>3. QED BY <2>1, <3>1, <3>2, WorkerHandsOver
  <2>3. CASE worker'[w].todo = worker[w].todo /\ deliveries' = deliveries
    <3>1. \A j \in Nat : WorkerHolds(w, j, id)' => WorkerHolds(w, j + 0, id)
      BY <2>3 DEF WorkerHolds
    <3>2. id \in DOMAIN deliveries' => id \in DOMAIN deliveries /\ deliveries'[id] = deliveries[id]
      BY <2>3
    <3>3. QED BY <2>1, <3>1, <3>2, WorkerHandsOver
  <2>4. CASE /\ worker[w].todo # << >> /\ worker'[w].todo = Tail(worker[w].todo)
             /\ DOMAIN deliveries' = DOMAIN deliveries
             /\ \A d \in DOMAIN deliveries : d = worker[w].todo[1].id \/ deliveries'[d] = deliveries[d]
    <3>1. /\ \A j \in Nat : WorkerHolds(w, j, id)' => WorkerHolds(w, j + 1, id)
          /\ WorkerHolds(w, 1, worker[w].todo[1].id)
      BY <2>4, TailHolds
    <3>2. id = worker[w].todo[1].id =>
              (\E i \in Nat : WorkerHolds(w, i, id)) /\ \A j \in Nat : ~WorkerHolds(w, j, id)'
      <4>1. ASSUME id = worker[w].todo[1].id, NEW j \in Nat, WorkerHolds(w, j, id)' PROVE FALSE
        <5>1. WorkerHolds(w, 1, id) /\ WorkerHolds(w, j + 1, id) /\ 1 \in Nat /\ j + 1 \in Nat
          BY <3>1, <4>1
        <5>2. j + 1 = 1
          BY <2>1, <5>1 DEF Uncontested
        <5>3. j = 0
          BY <5>2
        <5>4. QED BY <4>1, <5>3 DEF WorkerHolds
      <4>2. QED BY <3>1, <4>1
    <3>3. id \in DOMAIN deliveries' =>
            \/ id \in DOMAIN deliveries /\ deliveries'[id] = deliveries[id]
            \/ (\E i \in Nat : WorkerHolds(w, i, id)) /\ \A j \in Nat : ~WorkerHolds(w, j, id)'
      BY <2>4, <3>2
    <3>4. QED BY <2>1, <3>1, <3>3, WorkerHandsOver
  <2>5. QED BY <2>2, <2>3, <2>4
<1>2. ASSUME NEW q \in Requests PROVE Created(q)'
  <2>1. Created(q) /\ req' = req /\ DOMAIN deliveries' = DOMAIN deliveries
    BY DEF HandsInv
  <2>2. QED BY <2>1 DEF Created
<1>3. QED BY <1>1, <1>2 DEF HandsInv

\* A worker takes on no delivery.
LEMMA WebhookWorks ==
  ASSUME WebhookInv, NEW w \in Workers,
         \/ ListWebhookDeliveries(w) \/ SkipNotDue(w) \/ UpdateOfWorker(w) \/ WorkerFails(w)
         \/ \E ok \in BOOLEAN : retryWebhookDelivery(w, ok)
  PROVE  WebhookInv'
<1>1. CASE UpdateOfWorker(w)
  <2>1. /\ TruthInv' /\ Grows /\ DOMAIN deliveries' = DOMAIN deliveries
        /\ worker'[w].todo = Tail(worker[w].todo) /\ worker[w].todo # << >>
        /\ \A v \in Workers \ {w} : worker'[v] = worker[v]
        /\ \A d \in DOMAIN deliveries :
              \/ d # worker[w].todo[1].id /\ deliveries'[d] = deliveries[d]
              \/ /\ d = worker[w].todo[1].id /\ deliveries'[d].status \in Final \cup {"failed"}
                 /\ d \in ToSet(deliveryIndex')
    BY <1>1, TruthWorkerUpdates DEF WebhookInv
  <2>2. UNCHANGED <<req, interrupted, contested>>
    BY <1>1 DEF UpdateOfWorker, requestVars, historyVars
  <2>3. /\ \A d \in DOMAIN deliveries : d = worker[w].todo[1].id \/ deliveries'[d] = deliveries[d]
        /\ \A d \in DOMAIN deliveries :
              \/ deliveries'[d] = deliveries[d]
              \/ deliveries'[d].status \in Final \cup {"failed"} /\ d \in ToSet(deliveryIndex')
    BY <2>1
  <2>4. AnchorInv'
    BY <2>1, <2>2, <2>3, AnchorsWorked DEF WebhookInv
  <2>5. HandsInv'
    BY <2>1, <2>2, <2>3, HandsWorked DEF WebhookInv
  <2>6. QED BY <2>1, <2>4, <2>5 DEF WebhookInv
<1>2. CASE \/ ListWebhookDeliveries(w) \/ SkipNotDue(w) \/ WorkerFails(w)
           \/ \E ok \in BOOLEAN : retryWebhookDelivery(w, ok)
  <2>1. /\ TruthInv' /\ Grows /\ \A v \in Workers \ {w} : worker'[v] = worker[v]
        /\ \/ worker'[w].todo = << >> \/ worker'[w].todo = worker[w].todo
           \/ worker'[w].todo = Tail(worker[w].todo) /\ worker[w].todo # << >>
    BY <1>2, TruthLists, TruthSkips, TruthWorkerFails, TruthRetries DEF WebhookInv
  <2>2. UNCHANGED <<req, interrupted, contested, deliveries>>
    BY <1>2 DEF ListWebhookDeliveries, SkipNotDue, WorkerFails, retryWebhookDelivery, requestVars,
       historyVars
  <2>3. AnchorInv'
    BY <2>1, <2>2, AnchorsWorked DEF WebhookInv
  <2>4. HandsInv'
    BY <2>1, <2>2, HandsWorked DEF WebhookInv
  <2>5. QED BY <2>1, <2>3, <2>4 DEF WebhookInv
<1>3. QED BY <1>1, <1>2

\* A worker reads the next record of its list, and may take it on.
LEMMA WebhookLoads ==
  ASSUME WebhookInv, NEW w \in Workers, loadWebhookDeliveryRecord(w)
  PROVE  WebhookInv'
<1>1. PICK head, old : head = Head(worker[w].ids) /\ old = worker[w].todo
  OBVIOUS
<1>2. /\ TruthInv' /\ Grows /\ \A v \in Workers \ {w} : worker'[v] = worker[v]
      /\ \/ worker'[w].todo = old
         \/ \E rec : /\ head \in DOMAIN deliveries /\ deliveries[head].status = "failed"
                     /\ worker'[w].todo = Append(old, [id |-> head, rec |-> rec])
                     /\ (InHands(head) => head \in contested')
  BY <1>1, TruthLoads DEF WebhookInv
<1>3. UNCHANGED <<req, interrupted, deliveries>> /\ contested \subseteq contested'
  BY DEF loadWebhookDeliveryRecord, requestVars
<1>4. AnchorInv'
  BY <1>2, <1>3, AnchorsWorked DEF WebhookInv
<1>5. ASSUME NEW id \in DeliveryIds \ contested' PROVE Uncontested(id)'
  <2>1. Uncontested(id)
    BY <1>3 DEF WebhookInv, HandsInv
  <2>2. id \in DOMAIN deliveries' => id \in DOMAIN deliveries /\ deliveries'[id] = deliveries[id]
    BY <1>3
  <2>3. CASE worker'[w].todo = old
    <3>1. \A j \in Nat : WorkerHolds(w, j, id)' => WorkerHolds(w, j + 0, id)
      BY <1>1, <2>3 DEF WorkerHolds
    <3>2. QED BY <1>2, <1>3, <2>1, <2>2, <3>1, WorkerHandsOver
  <2>4. ASSUME NEW rec, head \in DOMAIN deliveries, deliveries[head].status = "failed",
               worker'[w].todo = Append(old, [id |-> head, rec |-> rec]),
               InHands(head) => head \in contested'
        PROVE  Uncontested(id)'
    <3>1. PICK copy : copy = [id |-> head, rec |-> rec]
      OBVIOUS
    <3>2. worker'[w].todo = Append(old, copy) /\ copy.id = head
      BY <2>4, <3>1
    <3>3. old \in Seq(Copies)
      BY <1>1 DEF WebhookInv, TruthInv, WorkerSound
    <3>4. PICK new : new = Append(old, copy)
      OBVIOUS
    <3>5. \A j \in 1..Len(new) : (j \in 1..Len(old) /\ new[j] = old[j]) \/ (j = Len(old) + 1 /\ new[j] = copy)
      BY <3>3, <3>4
    <3>6. \A j \in Nat : WorkerHolds(w, j, id)' =>
                WorkerHolds(w, j, id) \/ (j = Len(old) + 1 /\ id = head)
      BY <1>1, <3>2, <3>4, <3>5 DEF WorkerHolds
    <3>7. CASE id # head
      <4>1. \A j \in Nat : WorkerHolds(w, j, id)' => WorkerHolds(w, j + 0, id)
        BY <3>6, <3>7
      <4>2. QED BY <1>2, <1>3, <2>1, <2>2, <4>1, WorkerHandsOver
    <3>8. CASE id = head
      <4>1. Unheld(id)
        BY <1>5, <2>4, <3>8, NotInHands DEF WebhookInv
      <4>2. \A i, j \in Nat : WorkerHolds(w, i, id)' /\ WorkerHolds(w, j, id)' => i = j
        BY <3>6, <4>1 DEF Unheld
      <4>3. id \in DOMAIN deliveries' => deliveries'[id].status \notin Final
        BY <1>3, <2>4, <3>8 DEF Final
      <4>4. QED BY <1>2, <1>3, <2>1, <2>2, <4>1, <4>2, <4>3, WorkerHandsOver
    <3>9. QED BY <3>7, <3>8
  <2>5. QED BY <1>2, <2>3, <2>4
<1>6. ASSUME NEW q \in Requests PROVE Created(q)'
  <2>1. Created(q) /\ req' = req /\ DOMAIN deliveries' = DOMAIN deliveries
    BY <1>3 DEF WebhookInv, HandsInv
  <2>2. QED BY <2>1 DEF Created
<1>7. HandsInv'
  BY <1>5, <1>6 DEF HandsInv
<1>8. QED BY <1>2, <1>4, <1>7 DEF WebhookInv

\* A request's step accounts for what it changed.
LEMMA WebhookAccounts ==
  ASSUME WebhookInv, LedgerInv, NEW r \in Requests,
         \/ dispatchWebhook(r) \/ FirstURL(r) \/ CreateWebhookDelivery(r) \/ IndexWebhookDelivery(r)
         \/ CreateFails(r) \/ Cancelled(r) \/ \E ok \in BOOLEAN : PostOfRequest(r, ok)
         \/ \E op \in {"Retry", "DeadLetter"}, id \in DOMAIN deliveries : handleWebhookDeliveryAction(r, op, id)
         \/ GetWebhookDelivery(r)
  PROVE  LedgerInv'
<1>1. UNCHANGED ledgerVars
  BY DEF dispatchWebhook, FirstURL, CreateWebhookDelivery, IndexWebhookDelivery, CreateFails, Cancelled,
     PostOfRequest, handleWebhookDeliveryAction, GetWebhookDelivery
<1>2. CASE \/ dispatchWebhook(r)
           \/ \E op \in {"Retry", "DeadLetter"}, id \in DOMAIN deliveries : handleWebhookDeliveryAction(r, op, id)
  <2>1. UNCHANGED webhookVars
    BY <1>2 DEF dispatchWebhook, handleWebhookDeliveryAction
  <2>2. OthersKeepUnder(r, {}) /\ req[r].stage = "idle" /\ req'[r].stage = "started"
    BY <1>2, <2>1, TruthStarts DEF WebhookInv
  <2>3. QED BY <1>1, <2>2, LedgerQuiet DEF LedgerStages
<1>3. CASE FirstURL(r)
  <2>1. req[r].stage = "started" /\ req' = ForURL(r, 1)
    BY <1>3 DEF FirstURL, At
  <2>2. OthersKeepUnder(r, {}) /\ req'[r].stage = "create"
    BY <2>1, ForURLStep DEF LedgerInv
  <2>3. QED BY <1>1, <2>1, <2>2, LedgerQuiet DEF LedgerStages
<1>4. CASE CreateWebhookDelivery(r) \/ IndexWebhookDelivery(r) \/ CreateFails(r)
  <2>1. OthersKeepUnder(r, {}) /\ req'[r].stage \in {"index", "post"}
    BY <1>4, TruthCreates, TruthIndexes, TruthCreateFails DEF WebhookInv
  <2>2. req[r].stage \in {"create", "index"}
    BY <1>4 DEF CreateWebhookDelivery, IndexWebhookDelivery, CreateFails, At
  <2>3. QED BY <1>1, <2>1, <2>2, LedgerQuiet DEF LedgerStages
<1>5. CASE \E ok \in BOOLEAN : PostOfRequest(r, ok)
  <2>1. OthersKeepUnder(r, {}) /\ req'[r].stage = "update"
    BY <1>5, TruthPosts DEF WebhookInv
  <2>2. req[r].stage = "post"
    BY <1>5 DEF PostOfRequest
  <2>3. QED BY <1>1, <2>1, <2>2, LedgerQuiet DEF LedgerStages
<1>6. CASE GetWebhookDelivery(r)
  <2>1. OthersKeepUnder(r, {}) /\ req'[r].stage \in {"post", "mark"}
    BY <1>6, TruthGets DEF WebhookInv
  <2>2. req[r].stage = "started"
    BY <1>6 DEF GetWebhookDelivery
  <2>3. QED BY <1>1, <2>1, <2>2, LedgerQuiet DEF LedgerStages
<1>7. CASE Cancelled(r)
  <2>1. OthersKeepUnder(r, {}) /\ req'[r].stage = "done" /\ req[r].stage \in HoldStages \cup {"started"}
    BY <1>7, TruthCancelled DEF WebhookInv
  <2>2. QED BY <1>1, <2>1, LedgerQuiet DEF LedgerStages, HoldStages
<1>8. QED BY <1>2, <1>3, <1>4, <1>5, <1>6, <1>7

\* A retry and a dead-letter by hand owe an audit log entry.
LEMMA WebhookCommits ==
  ASSUME WebhookInv, LedgerInv, NEW r \in Requests, UpdateOfRequest(r) \/ UpdateFails(r) \/ DeadLetter(r)
  PROVE  LedgerInv'
<1>1. CASE UpdateOfRequest(r) \/ UpdateFails(r)
  <2>1. req[r].stage = "update" /\ req' = AfterAttempt(r) /\ OwesAttempt(r)
    BY <1>1 DEF UpdateOfRequest, UpdateFails
  <2>2. CASE req[r].op = "Retry" /\ req'[r].stage = "audit" /\ OthersKeepUnder(r, {})
    <3>1. Owes(r)
      BY <2>1, <2>2 DEF OwesAttempt
    <3>2. QED BY <2>1, <2>2, <3>1, LedgerCommits DEF LedgerStages
  <2>3. CASE req[r].op = "Dispatch" /\ req'[r].stage \in {"done", "create"} /\ OthersKeepUnder(r, {})
    <3>1. UNCHANGED ledgerVars
      BY <2>1, <2>3 DEF OwesAttempt
    <3>2. QED BY <2>1, <2>3, <3>1, LedgerQuiet DEF LedgerStages
  <2>4. CASE req[r].op = "Dispatch" /\ req' = ForURL(r, req[r].got.id[2] + 1)
    <3>1. req'[r].stage = "create" /\ OthersKeepUnder(r, {})
      BY <2>4, ForURLStep DEF LedgerInv
    <3>2. QED BY <2>3, <2>4, <3>1
  <2>5. QED BY <2>1, <2>2, <2>3, <2>4, AfterAttemptStep DEF WebhookInv
<1>2. CASE DeadLetter(r)
  <2>1. OthersKeepUnder(r, {}) /\ req[r].stage = "mark" /\ req'[r].stage = "audit"
    BY <1>2, TruthDeadLetters DEF WebhookInv
  <2>2. Owes(r)
    BY <1>2 DEF DeadLetter
  <2>3. QED BY <2>1, <2>2, LedgerCommits DEF LedgerStages
<1>3. QED BY <1>1, <1>2

\* The deliveries' and the ledger's invariants hold together.
LEMMA WebhookInvariant == WebhookSpec => [](WebhookInv /\ LedgerInv)
<1>1. RequestInit /\ LedgerInit /\ WebhookInit => WebhookInv /\ LedgerInv
  <2> SUFFICES ASSUME RequestInit, LedgerInit, WebhookInit PROVE WebhookInv /\ LedgerInv
    OBVIOUS
  <2>1. /\ DOMAIN req = Requests /\ DOMAIN worker = Workers /\ DOMAIN deliveries = {}
        /\ DOMAIN posts = {} /\ deliveryIndex = << >>
        /\ \A q \in Requests : req[q].stage = "idle"
        /\ \A w \in Workers : worker[w].ids = << >> /\ worker[w].todo = << >> /\ worker[w].posted = FALSE
    BY DEF RequestInit, WebhookInit, NoDeliveries, NoWork, Unused, RequestAt
  <2>2. DeliveryTypes
    BY <2>1 DEF DeliveryTypes
  <2>3. \A q \in Requests : DeliveryRequestSound(q)
    BY <2>1 DEF DeliveryRequestSound, HoldStages
  <2>4. ASSUME NEW w \in Workers PROVE WorkerSound(w)
    <3>1. << >> \in Seq(DeliveryIds) /\ << >> \in Seq(Copies)
      OBVIOUS
    <3>2. /\ worker[w].ids = << >> /\ worker[w].todo = << >> /\ ~worker[w].posted
          /\ Len(<< >>) = 0
      BY DEF WebhookInit, NoWork
    <3>3. QED BY <3>1, <3>2 DEF WorkerSound
  <2>5. AnchorInv
    BY <2>1 DEF AnchorInv
  <2>6. HandsInv
    BY <2>1 DEF HandsInv, Uncontested, Created, RequestHolds, WorkerHolds, HoldStages
  <2>7. QED BY <2>2, <2>3, <2>4, <2>5, <2>6, LedgerInitSound DEF WebhookInv, TruthInv
<1>2. ASSUME WebhookInv, UNCHANGED <<req, webhookVars>> PROVE WebhookInv'
  <2>1. UNCHANGED <<req, worker, deliveries, deliveryIndex, posts, accepted, interrupted, contested, buried>>
    BY <1>2 DEF webhookVars
  <2>2. \A id, rec : TrueRecord(id, rec) <=> TrueRecord(id, rec)'
    BY <2>1 DEF TrueRecord, Sent
  <2>3. \A id, rec, ok : Attempted(id, rec, ok) <=> Attempted(id, rec, ok)'
    BY <2>1 DEF Attempted, Sent
  <2>4. DeliveryTypes'
    <3>1. DeliveryTypes
      BY <1>2 DEF WebhookInv, TruthInv
    <3>2. QED BY <2>1, <2>2, <3>1 DEF DeliveryTypes
  <2>5. ASSUME NEW q \in Requests PROVE DeliveryRequestSound(q)'
    <3>1. DeliveryRequestSound(q)
      BY <1>2 DEF WebhookInv, TruthInv
    <3>2. PICK now : now = req[q]
      OBVIOUS
    <3>3. req'[q] = now
      BY <2>1, <3>2
    <3>4. QED BY <2>1, <2>2, <2>3, <3>1, <3>2, <3>3 DEF DeliveryRequestSound
  <2>6. ASSUME NEW w \in Workers PROVE WorkerSound(w)'
    <3>1. WorkerSound(w)
      BY <1>2 DEF WebhookInv, TruthInv
    <3>2. PICK now : now = worker[w]
      OBVIOUS
    <3>3. worker'[w] = now
      BY <2>1, <3>2
    <3>4. QED BY <2>1, <2>2, <2>3, <3>1, <3>2, <3>3 DEF WorkerSound
  <2>7. AnchorInv'
    <3>1. ASSUME NEW id PROVE Listed(id) = Listed(id)' /\ Anchored(id) = Anchored(id)'
      BY <2>1 DEF Listed, Anchored
    <3>2. AnchorInv
      BY <1>2 DEF WebhookInv
    <3>3. QED BY <2>1, <3>1, <3>2 DEF AnchorInv
  <2>8. HandsInv'
    <3>1. ASSUME NEW id \in DeliveryIds \ contested' PROVE Uncontested(id)'
      <4>1. Uncontested(id)
        BY <1>2, <2>1 DEF WebhookInv, HandsInv
      <4>2. QED BY <2>1, <4>1 DEF Uncontested, RequestHolds, WorkerHolds
    <3>2. ASSUME NEW q \in Requests PROVE Created(q)'
      <4>1. Created(q)
        BY <1>2 DEF WebhookInv, HandsInv
      <4>2. QED BY <2>1, <4>1 DEF Created
    <3>3. QED BY <3>1, <3>2 DEF HandsInv
  <2>9. QED BY <2>4, <2>5, <2>6, <2>7, <2>8 DEF WebhookInv, TruthInv
<1>3. ASSUME LedgerInv, UNCHANGED <<req, ledgerVars>> PROVE LedgerInv'
  BY <1>3 DEF LedgerInv, LedgerTypes, LedgerRequestSound, LedgerComplete, UsageExact, AuditComplete,
     ledgerVars
<1>4. ASSUME WebhookInv, LedgerInv, NEW r \in Requests,
             \/ dispatchWebhook(r) \/ FirstURL(r) \/ CreateWebhookDelivery(r) \/ IndexWebhookDelivery(r)
             \/ CreateFails(r) \/ Cancelled(r) \/ \E ok \in BOOLEAN : PostOfRequest(r, ok)
             \/ \E op \in {"Retry", "DeadLetter"}, id \in DOMAIN deliveries : handleWebhookDeliveryAction(r, op, id)
             \/ GetWebhookDelivery(r)
      PROVE  (WebhookInv /\ LedgerInv)'
  <2>1. LedgerInv'
    BY <1>4, WebhookAccounts
  <2>2. CASE \/ dispatchWebhook(r)
             \/ \E op \in {"Retry", "DeadLetter"}, id \in DOMAIN deliveries : handleWebhookDeliveryAction(r, op, id)
    <3>1. UNCHANGED webhookVars
      BY <2>2 DEF dispatchWebhook, handleWebhookDeliveryAction
    <3>2. QED BY <1>4, <2>1, <2>2, <3>1, WebhookStarts
  <2>3. CASE \/ FirstURL(r) \/ CreateWebhookDelivery(r) \/ IndexWebhookDelivery(r) \/ CreateFails(r)
             \/ Cancelled(r) \/ GetWebhookDelivery(r)
    BY <1>4, <2>1, <2>3, WebhookFirstURL, WebhookCreates, WebhookIndexes, WebhookCancelled, WebhookGets
  <2>4. CASE \E ok \in BOOLEAN : PostOfRequest(r, ok)
    BY <1>4, <2>1, <2>4, WebhookPosts
  <2>5. QED BY <1>4, <2>2, <2>3, <2>4
<1>5. ASSUME WebhookInv, LedgerInv, NEW r \in Requests, UpdateOfRequest(r) \/ UpdateFails(r) \/ DeadLetter(r)
      PROVE  (WebhookInv /\ LedgerInv)'
  BY <1>5, WebhookCommits, WebhookUpdates, WebhookUpdateFails, WebhookDeadLetters
<1>6. ASSUME WebhookInv, LedgerInv, NEW r \in Requests, LedgerStep(r) /\ UNCHANGED webhookVars
      PROVE  (WebhookInv /\ LedgerInv)'
  BY <1>6, LedgerStepSound, WebhookLedger
<1>7. ASSUME WebhookInv, LedgerInv, NEW w \in Workers,
             \/ ListWebhookDeliveries(w) \/ loadWebhookDeliveryRecord(w) \/ SkipNotDue(w)
             \/ UpdateOfWorker(w) \/ WorkerFails(w) \/ \E ok \in BOOLEAN : retryWebhookDelivery(w, ok)
      PROVE  (WebhookInv /\ LedgerInv)'
  <2>1. UNCHANGED <<req, ledgerVars>>
    BY <1>7 DEF ListWebhookDeliveries, loadWebhookDeliveryRecord, SkipNotDue, UpdateOfWorker, WorkerFails,
       retryWebhookDelivery, requestVars
  <2>2. LedgerInv'
    BY <1>3, <1>7, <2>1
  <2>3. QED BY <1>7, <2>2, WebhookWorks, WebhookLoads
<1>8. WebhookInv /\ LedgerInv /\ [WebhookNext]_<<requestVars, ledgerVars, webhookVars>>
          => (WebhookInv /\ LedgerInv)'
  <2>1. WebhookInv /\ LedgerInv /\ UNCHANGED <<requestVars, ledgerVars, webhookVars>>
            => (WebhookInv /\ LedgerInv)'
    BY <1>2, <1>3 DEF requestVars
  <2>2. WebhookInv /\ LedgerInv /\ WebhookNext => (WebhookInv /\ LedgerInv)'
    BY <1>4, <1>5, <1>6, <1>7 DEF WebhookNext
  <2>3. QED BY <2>1, <2>2
<1>9. QED BY <1>1, <1>8, PTL DEF WebhookSpec

\* A record that is settled and not contested is only dead-lettered by hand.
LEMMA SettledStays ==
  ASSUME WebhookInv, WebhookNext, NEW id \in DOMAIN deliveries \ contested,
         deliveries[id].status \in {"delivered", "dead"}
  PROVE  deliveries'[id].status \in {deliveries[id].status, "dead"}
<1>1. deliveries[id].status \in Final /\ id \in DeliveryIds
  BY DEF Final, WebhookInv, TruthInv, DeliveryTypes
<1>2. Uncontested(id)
  BY <1>1 DEF WebhookInv, HandsInv
<1>3. ASSUME NEW q \in Requests, RequestHolds(q, id) PROVE req[q].op = "DeadLetter"
  <2>1. req[q].op \in WebhookOps
    BY <1>3, HolderKnows DEF RequestHolds, WebhookInv
  <2>2. QED BY <1>1, <1>2, <1>3, <2>1 DEF Uncontested, WebhookOps
<1>4. \A w \in Workers, i \in Nat : ~WorkerHolds(w, i, id)
  BY <1>1, <1>2 DEF Uncontested
<1>5. ASSUME NEW r \in Requests, CreateWebhookDelivery(r) PROVE deliveries'[id] = deliveries[id]
  <2>1. req[r].stage = "create" /\ req[r].op = "Dispatch"
    BY <1>5 DEF CreateWebhookDelivery, At
  <2>2. req[r].got.id # id
    BY <1>3, <2>1 DEF RequestHolds, HoldStages
  <2>3. QED BY <1>5, <2>2 DEF CreateWebhookDelivery, Put
<1>6. ASSUME NEW r \in Requests, UpdateOfRequest(r) PROVE deliveries'[id] = deliveries[id]
  <2>1. req[r].stage = "update" /\ req[r].op \in {"Dispatch", "Retry"}
    BY <1>6, HolderKnows DEF UpdateOfRequest, WebhookInv, HoldStages
  <2>2. req[r].got.id # id
    BY <1>3, <2>1 DEF RequestHolds, HoldStages
  <2>3. QED BY <1>6, <2>2, TruthUpdates DEF WebhookInv
<1>7. ASSUME NEW r \in Requests, DeadLetter(r)
      PROVE  deliveries'[id] = deliveries[id] \/ deliveries'[id].status = "dead"
  BY <1>7, TruthDeadLetters DEF WebhookInv
<1>8. ASSUME NEW w \in Workers, UpdateOfWorker(w) PROVE deliveries'[id] = deliveries[id]
  <2>1. /\ worker[w].todo # << >> /\ worker'[w].todo = Tail(worker[w].todo)
        /\ \A d \in DOMAIN deliveries : d # worker[w].todo[1].id => deliveries'[d] = deliveries[d]
    BY <1>8, TruthWorkerUpdates DEF WebhookInv
  <2>2. WorkerHolds(w, 1, worker[w].todo[1].id)
    BY <2>1, TailHolds DEF WebhookInv
  <2>3. worker[w].todo[1].id # id
    BY <1>4, <2>2
  <2>4. QED BY <2>1, <2>3
<1>9. ASSUME NEW r \in Requests,
             \/ dispatchWebhook(r) \/ FirstURL(r) \/ IndexWebhookDelivery(r) \/ CreateFails(r)
             \/ UpdateFails(r) \/ Cancelled(r) \/ \E ok \in BOOLEAN : PostOfRequest(r, ok)
             \/ \E op \in {"Retry", "DeadLetter"}, d \in DOMAIN deliveries : handleWebhookDeliveryAction(r, op, d)
             \/ GetWebhookDelivery(r)
             \/ LedgerStep(r) /\ UNCHANGED webhookVars
      PROVE  deliveries'[id] = deliveries[id]
  BY <1>9 DEF dispatchWebhook, FirstURL, IndexWebhookDelivery, CreateFails, UpdateFails, Cancelled,
     PostOfRequest, handleWebhookDeliveryAction, GetWebhookDelivery, webhookVars
<1>10. ASSUME NEW w \in Workers,
              \/ ListWebhookDeliveries(w) \/ loadWebhookDeliveryRecord(w) \/ SkipNotDue(w) \/ WorkerFails(w)
              \/ \E ok \in BOOLEAN : retryWebhookDelivery(w, ok)
       PROVE  deliveries'[id] = deliveries[id]
  BY <1>10 DEF ListWebhookDeliveries, loadWebhookDeliveryRecord, SkipNotDue, WorkerFails,
     retryWebhookDelivery
<1> DEFINE Kept == deliveries'[id] = deliveries[id] \/ deliveries'[id].status = "dead"
<1>11. ASSUME NEW r \in Requests,
              \/ dispatchWebhook(r) \/ FirstURL(r) \/ CreateWebhookDelivery(r) \/ IndexWebhookDelivery(r)
              \/ CreateFails(r) \/ UpdateOfRequest(r) \/ UpdateFails(r) \/ Cancelled(r)
              \/ \E ok \in BOOLEAN : PostOfRequest(r, ok)
              \/ \E op \in {"Retry", "DeadLetter"}, d \in DOMAIN deliveries : handleWebhookDeliveryAction(r, op, d)
              \/ GetWebhookDelivery(r) \/ DeadLetter(r)
              \/ LedgerStep(r) /\ UNCHANGED webhookVars
       PROVE  Kept
  <2>1. CASE CreateWebhookDelivery(r)
    BY <1>5, <2>1
  <2>2. CASE UpdateOfRequest(r)
    BY <1>6, <2>2
  <2>3. CASE DeadLetter(r)
    BY <1>7, <2>3
  <2>4. CASE \/ dispatchWebhook(r) \/ FirstURL(r) \/ IndexWebhookDelivery(r) \/ CreateFails(r)
             \/ UpdateFails(r) \/ Cancelled(r) \/ \E ok \in BOOLEAN : PostOfRequest(r, ok)
             \/ \E op \in {"Retry", "DeadLetter"}, d \in DOMAIN deliveries : handleWebhookDeliveryAction(r, op, d)
             \/ GetWebhookDelivery(r)
             \/ LedgerStep(r) /\ UNCHANGED webhookVars
    <3>1. deliveries'[id] = deliveries[id]
      BY <1>9, <2>4
    <3>2. QED BY <3>1
  <2> HIDE DEF Kept
  <2>5. QED BY <1>11, <2>1, <2>2, <2>3, <2>4
<1>12. ASSUME NEW w \in Workers,
              \/ ListWebhookDeliveries(w) \/ loadWebhookDeliveryRecord(w) \/ SkipNotDue(w)
              \/ UpdateOfWorker(w) \/ WorkerFails(w)
              \/ \E ok \in BOOLEAN : retryWebhookDelivery(w, ok)
       PROVE  Kept
  BY <1>8, <1>10, <1>12
<1> HIDE DEF Kept
<1>13. Kept
  BY <1>11, <1>12 DEF WebhookNext
<1>14. QED BY <1>13 DEF Kept

\* Delivery records are truthful, a settled one is not reopened, and none is
\* forgotten but by an interrupted dispatch: a failed one is among what every
\* worker scans, or newer ones have put it out of reach (dispatchWebhook,
\* retryDueWebhookDeliveries, handleWebhookDeliveryAction,
\* ListWebhookDeliveries).
THEOREM DeliveriesAreSound == WebhookSpec => DeliveriesSound
<1> DEFINE StaysSettled ==
        \A id \in DOMAIN deliveries \ contested :
            deliveries[id].status \in {"delivered", "dead"} =>
                deliveries'[id].status \in {deliveries[id].status, "dead"}
<1>1. WebhookInv => DeliveriesTruthful /\ NothingStranded
  BY DeliveriesInState
<1>2. WebhookInv /\ [WebhookNext]_<<requestVars, ledgerVars, webhookVars>> => [StaysSettled]_webhookVars
  BY SettledStays
<1> HIDE DEF StaysSettled
<1>3. WebhookSpec => [][StaysSettled]_webhookVars
  BY <1>2, WebhookInvariant, PTL DEF WebhookSpec
<1>4. WebhookSpec => SettledIsFinal
  BY <1>3 DEF SettledIsFinal, StaysSettled
<1>5. QED BY <1>1, <1>4, WebhookInvariant, PTL DEF DeliveriesSound

\* Retries and dead-letters by hand are in the audit log
\* (handleWebhookDeliveryAction).
THEOREM DeliveriesAccounted == WebhookSpec => []LedgerComplete
BY WebhookInvariant, PTL DEF LedgerInv
=============================================================================
