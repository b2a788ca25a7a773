----------------------------- MODULE ThreadStore -----------------------------
(***************************************************************************)
(* Comment threads of a room: the admin API's handlers                     *)
(* (server/internal/admin/service.go) over the Redis store                 *)
(* (server/internal/cluster/redis.go). A thread is a header hash, a list   *)
(* of comments and a hash of read marks, and its id is in the room's set.  *)
(* Writes are WATCH transactions; most handlers then load the thread again *)
(* by two round trips and publish what they loaded.                        *)
(* A field's value is the request that wrote it. The room is fixed.        *)
(***************************************************************************)
EXTENDS AdminRequests, Sequences, SequencesExt

CONSTANTS
    ThreadIDs, CommentIDs, Readers,
    HeaderFields,   \* metadata, resolved
    CommentFields,  \* body, metadata, mentions, reactions
    MaxComments     \* bound: comments of a thread

VARIABLES
    clock,     \* the latest timestamp: requests take theirs as they start
    header,    \* header[t]: [updated, fields], or NoHeader
    index,     \* the set of the room's thread ids
    comments,  \* comments[t]: the list, << >> when the key does not exist
    readAt,    \* readAt[t][u]: the read mark of u, or NoMark
    seen,      \* history: seen[t], who marked t read after its latest change
    news       \* history: news[t], whether the latest change was published

threadVars == <<clock, header, index, comments, readAt, seen, news>>

NoHeader == [updated |-> 0]
NoMark == 0
ThreadKey(t) == <<"thread", t>>
CommentsKey(t) == <<"comments", t>>
ReadStateKey(t) == <<"reads", t>>

ThreadOps == {"CreateThread", "UpdateThread", "DeleteThread", "AddComment",
              "UpdateComment", "MarkThreadRead", "MarkThreadUnread"}

NewHeader(w, now) == [updated |-> now, fields |-> [f \in HeaderFields |-> w]]
NewComment(w, c) == [id |-> c, fields |-> [f \in CommentFields |-> w]]

Exists(t) == header[t] # NoHeader
IndexOf(t, c) == SelectInSeq(comments[t], LAMBDA x : x.id = c)

\* The threads of old were created, with a comment c, by an earlier request.
ThreadInit(old, c) ==
    /\ clock = 1
    /\ header = [t \in ThreadIDs |-> IF t \in old THEN NewHeader(Earlier, 1) ELSE NoHeader]
    /\ index = old
    /\ comments = [t \in ThreadIDs |-> IF t \in old THEN <<NewComment(Earlier, c)>> ELSE << >>]
    /\ readAt = [t \in ThreadIDs |-> [u \in Readers |-> NoMark]]
    /\ seen = [t \in ThreadIDs |-> {}]
    /\ news = [t \in ThreadIDs |-> [author |-> {}, state |-> "published"]]

-----------------------------------------------------------------------------
(* Handlers: a request that is authenticated, permitted and valid.         *)

\* The timestamp is taken before the first round trip.
StartThread(r, op, arg) ==
    /\ Start(r, op, arg)
    /\ clock' = clock + 1
    /\ UNCHANGED <<header, index, comments, readAt, seen, news>>

handleCreateThread(r, t, c) ==
    StartThread(r, "CreateThread", [t |-> t, c |-> c, now |-> clock + 1])

handleUpdateThread(r, t, fs) ==
    StartThread(r, "UpdateThread", [t |-> t, fs |-> fs, now |-> clock + 1])

handleDeleteThread(r, t) ==
    StartThread(r, "DeleteThread", [t |-> t, now |-> clock + 1])

handleAddComment(r, t, c) ==
    StartThread(r, "AddComment", [t |-> t, c |-> c, now |-> clock + 1])

handleUpdateComment(r, t, c, fs) ==
    StartThread(r, "UpdateComment", [t |-> t, c |-> c, fs |-> fs, now |-> clock + 1])

handleThreadReadStateMutation(r, t, u, read) ==
    StartThread(r, IF read THEN "MarkThreadRead" ELSE "MarkThreadUnread",
                [t |-> t, u |-> u, now |-> clock + 1])

\* An update names at least one field (validateThreadUpdateRequest,
\* validateCommentUpdateRequest).
FieldSets(fields) == SUBSET fields \ {{}}

ThreadRequest(r) ==
    \E t \in ThreadIDs :
        \/ \E c \in CommentIDs :
            \/ handleCreateThread(r, t, c)
            \/ handleAddComment(r, t, c)
            \/ \E fs \in FieldSets(CommentFields) : handleUpdateComment(r, t, c, fs)
        \/ \E fs \in FieldSets(HeaderFields) : handleUpdateThread(r, t, fs)
        \/ handleDeleteThread(r, t)
        \/ \E u \in Readers, read \in BOOLEAN : handleThreadReadStateMutation(r, t, u, read)

-----------------------------------------------------------------------------
(* The store. Each operation first watches its keys and reads.             *)

\* Faulty variant: the edit of a comment watches nothing.
WatchNothingToEdit(op, t) == IF op = "UpdateComment" THEN {} ELSE {ThreadKey(t)}

WatchedKeys(op, t) ==
    CASE op = "DeleteThread" -> {ThreadKey(t), CommentsKey(t), ReadStateKey(t)}
      [] op \in {"MarkThreadRead", "MarkThreadUnread"} -> {ThreadKey(t), ReadStateKey(t)}
      [] op = "UpdateComment" -> {ThreadKey(t), CommentsKey(t)}
      [] OTHER -> {ThreadKey(t)}

\* ErrThreadAlreadyExists, ErrThreadNotFound, ErrCommentNotFound.
Refused(r) ==
    LET t == req[r].arg.t IN
    CASE req[r].op = "CreateThread" -> Exists(t)
      [] req[r].op = "UpdateComment" -> ~Exists(t) \/ IndexOf(t, req[r].arg.c) = 0
      [] OTHER -> ~Exists(t)

\* What the transaction keeps of its reads.
Read(r) ==
    LET t == req[r].arg.t IN
    CASE req[r].op = "UpdateComment" ->
            LET i == IndexOf(t, req[r].arg.c) IN [index |-> i, comment |-> comments[t][i]]
      [] req[r].op = "MarkThreadRead" -> [updated |-> header[t].updated]
      [] OTHER -> Nothing

WatchThread(r) ==
    /\ req[r].stage = "started" /\ req[r].op \in ThreadOps
    /\ req' = IF Refused(r) THEN Finished(r)
              ELSE Watching(r, WatchedKeys(req[r].op, req[r].arg.t), Read(r))
    /\ UNCHANGED <<failures, threadVars>>

\* The change of t that r committed has still to be published.
Changed(r, t) ==
    /\ news' = [news EXCEPT ![t] = [author |-> {r}, state |-> "due"]]
    /\ seen' = [seen EXCEPT ![t] = {}]
    /\ UNCHANGED <<clock, failures>>

\* The headers after r changed a comment of t: t's time of update is r's.
Touched(r, t) ==
    [header EXCEPT ![t] = [updated |-> req[r].arg.now, fields |-> header[t].fields]]

CreateThread(r) ==
    LET t == req[r].arg.t
        list == <<NewComment(r, req[r].arg.c)>> IN
    /\ CanExec(r, "CreateThread")
    /\ header' = [header EXCEPT ![t] = NewHeader(r, req[r].arg.now)]
    /\ index' = index \cup {t}
    /\ comments' = [comments EXCEPT ![t] = @ \o list]
    /\ req' = Written(Advance(r, "publish", [header |-> NewHeader(r, req[r].arg.now), comments |-> list]),
                      {ThreadKey(t), CommentsKey(t)})
    /\ Changed(r, t)
    /\ UNCHANGED readAt

UpdateThread(r) ==
    LET t == req[r].arg.t IN
    /\ CanExec(r, "UpdateThread")
    /\ header' = [header EXCEPT ![t] =
            [updated |-> req[r].arg.now,
             fields |-> [f \in HeaderFields |->
                            IF f \in req[r].arg.fs THEN r ELSE header[t].fields[f]]]]
    /\ req' = Written(Advance(r, "reload", Nothing), {ThreadKey(t)})
    /\ Changed(r, t)
    /\ UNCHANGED <<index, comments, readAt>>

\* Faulty variant: the read marks stay.
DeleteThreadKeepsMarks(r) ==
    LET t == req[r].arg.t IN
    /\ CanExec(r, "DeleteThread")
    /\ header' = [header EXCEPT ![t] = NoHeader]
    /\ index' = index \ {t}
    /\ comments' = [comments EXCEPT ![t] = << >>]
    /\ req' = Written(Advance(r, "publish", Nothing), {ThreadKey(t), CommentsKey(t)})
    /\ Changed(r, t)
    /\ UNCHANGED readAt

DeleteThread(r) ==
    LET t == req[r].arg.t IN
    /\ CanExec(r, "DeleteThread")
    /\ header' = [header EXCEPT ![t] = NoHeader]
    /\ index' = index \ {t}
    /\ comments' = [comments EXCEPT ![t] = << >>]
    /\ readAt' = [readAt EXCEPT ![t] = [u \in Readers |-> NoMark]]
    /\ req' = Written(Advance(r, "publish", Nothing),
                      {ThreadKey(t), CommentsKey(t), ReadStateKey(t)})
    /\ Changed(r, t)

\* Comment ids are not checked: a second comment with the same id is added.
AddComment(r) ==
    LET t == req[r].arg.t IN
    /\ CanExec(r, "AddComment")
    /\ Len(comments[t]) < MaxComments
    /\ header' = Touched(r, t)
    /\ comments' = [comments EXCEPT ![t] = Append(@, NewComment(r, req[r].arg.c))]
    /\ req' = Written(Advance(r, "reload", Nothing), {ThreadKey(t), CommentsKey(t)})
    /\ Changed(r, t)
    /\ UNCHANGED <<index, readAt>>

\* The whole comment is written back at the index it was read from.
UpdateComment(r) ==
    LET t == req[r].arg.t
        old == req[r].got.comment
        new == [id |-> old.id,
                fields |-> [f \in CommentFields |->
                                IF f \in req[r].arg.fs THEN r ELSE old.fields[f]]] IN
    /\ CanExec(r, "UpdateComment")
    /\ req[r].got.index \in DOMAIN comments[t]   \* LSET, index out of range
    /\ header' = Touched(r, t)
    /\ comments' = [comments EXCEPT ![t] = [@ EXCEPT ![req[r].got.index] = new]]
    /\ req' = Written(Advance(r, "reload", Nothing), {ThreadKey(t), CommentsKey(t)})
    /\ Changed(r, t)
    /\ UNCHANGED <<index, readAt>>

\* Faulty variant: the time of the request, also when the thread is newer.
ReadAtNow(now, updated) == now

ReadAt(now, updated) == IF now < updated THEN updated ELSE now

MarkThreadRead(r) ==
    LET t == req[r].arg.t
        u == req[r].arg.u IN
    /\ CanExec(r, "MarkThreadRead")
    /\ readAt' = [readAt EXCEPT ![t][u] = ReadAt(req[r].arg.now, req[r].got.updated)]
    /\ seen' = [seen EXCEPT ![t] = @ \cup {u}]
    /\ req' = Written(Finished(r), {ReadStateKey(t)})
    /\ UNCHANGED <<clock, failures, header, index, comments, news>>

\* HDEL of a field that is not there writes nothing.
MarkThreadUnread(r) ==
    LET t == req[r].arg.t
        u == req[r].arg.u IN
    /\ CanExec(r, "MarkThreadUnread")
    /\ readAt' = [readAt EXCEPT ![t][u] = NoMark]
    /\ seen' = [seen EXCEPT ![t] = @ \ {u}]
    /\ req' = Written(Finished(r), IF readAt[t][u] = NoMark THEN {} ELSE {ReadStateKey(t)})
    /\ UNCHANGED <<clock, failures, header, index, comments, news>>

-----------------------------------------------------------------------------
(* Loading the thread again, and publishing what was loaded.               *)

loadThreadHeader(r) ==
    LET t == req[r].arg.t IN
    /\ req[r].stage = "reload" /\ req[r].op \in ThreadOps
    /\ req' = IF Exists(t) THEN Advance(r, "comments", [header |-> header[t]])
              ELSE Finished(r)
    /\ UNCHANGED <<failures, threadVars>>

\* Faulty variant: the comments are not loaded.
loadThreadHeaderOnly(r) ==
    /\ req[r].stage = "comments" /\ req[r].op \in ThreadOps
    /\ req' = Advance(r, "publish", [header |-> req[r].got.header, comments |-> << >>])
    /\ UNCHANGED <<failures, threadVars>>

loadThreadRecord(r) ==
    LET t == req[r].arg.t IN
    /\ req[r].stage = "comments" /\ req[r].op \in ThreadOps
    /\ req' = Advance(r, "publish", [header |-> req[r].got.header, comments |-> comments[t]])
    /\ UNCHANGED <<failures, threadVars>>

\* What r publishes is the thread as it is stored now.
Carries(r, t) ==
    IF req[r].op = "DeleteThread" THEN ~Exists(t)
    ELSE req[r].got = [header |-> header[t], comments |-> comments[t]]

publishCommentEvent(r) ==
    LET t == req[r].arg.t IN
    /\ req[r].stage = "publish" /\ req[r].op \in ThreadOps
    /\ news' = IF Carries(r, t) THEN [news EXCEPT ![t].state = "published"] ELSE news
    /\ req' = Finished(r)
    /\ UNCHANGED <<clock, failures, header, index, comments, readAt, seen>>

\* A call fails; if r had committed the latest change, it stays unpublished.
ThreadCallFails(r) ==
    /\ req[r].op \in ThreadOps
    /\ CallFails(r)
    /\ news' = [t \in ThreadIDs |->
            IF news[t].author = {r} /\ news[t].state = "due"
            THEN [news[t] EXCEPT !.state = "lost"] ELSE news[t]]
    /\ UNCHANGED <<clock, header, index, comments, readAt, seen>>

ThreadExecRefused(r) ==
    req[r].op \in ThreadOps /\ ExecRefused(r) /\ UNCHANGED threadVars

ThreadNext ==
    \E r \in Requests :
        \/ ThreadRequest(r)
        \/ WatchThread(r)
        \/ CreateThread(r) \/ UpdateThread(r) \/ DeleteThread(r)
        \/ AddComment(r) \/ UpdateComment(r)
        \/ MarkThreadRead(r) \/ MarkThreadUnread(r)
        \/ loadThreadHeader(r) \/ loadThreadRecord(r) \/ publishCommentEvent(r)
        \/ ThreadCallFails(r) \/ ThreadExecRefused(r)

ThreadSpec ==
    /\ RequestInit
    /\ \E old \in SUBSET ThreadIDs, c \in CommentIDs : ThreadInit(old, c)
    /\ [][ThreadNext]_<<requestVars, threadVars>>

-----------------------------------------------------------------------------
(* Properties.                                                             *)

\* What GET /threads lists: the ids of the set whose header can be loaded.
ListThreads == {t \in index : Exists(t)}

\* threadReadState: a thread is unread without a mark or after a change.
Unread(t, u) == readAt[t][u] = NoMark \/ readAt[t][u] < header[t].updated

\* The keys of a thread live and die together: a listed thread is exactly one
\* that exists and has comments, and neither comments nor read marks outlive
\* it, so that a thread created again under the same id starts empty and
\* unread.
ThreadsWhole ==
    /\ index = ListThreads
    /\ \A t \in ThreadIDs :
        /\ Exists(t) <=> t \in index
        /\ Exists(t) <=> comments[t] # << >>
        /\ ~Exists(t) => \A u \in Readers : readAt[t][u] = NoMark

\* A user who marked a thread read, with no change committed since, sees it as
\* read, however the timestamps of the requests were ordered.
ReadStaysRead ==
    \A t \in ListThreads : \A u \in seen[t] : ~Unread(t, u)

\* When no request is running, the latest change of every thread was published
\* as it is stored, unless the request that made it failed after its commit.
ChangesPublished ==
    Quiet => \A t \in ThreadIDs : news[t].state # "due"

\* A step changes a field of a stored comment or header only on behalf of a
\* request that named the field: concurrent edits of different fields are both
\* kept although a comment is read, changed and written back as a whole.
FieldsSurvive ==
    [][\A t \in ThreadIDs :
        Exists(t) /\ header'[t] # NoHeader =>
            /\ \A f \in HeaderFields :
                LET w == header'[t].fields[f] IN
                w # header[t].fields[f] =>
                    /\ w \in Requests
                    /\ req[w].stage = "exec" /\ req[w].op = "UpdateThread"
                    /\ f \in req[w].arg.fs
            /\ \A i \in DOMAIN comments[t], f \in CommentFields :
                LET w == comments'[t][i].fields[f] IN
                w # comments[t][i].fields[f] =>
                    /\ w \in Requests
                    /\ req[w].stage = "exec" /\ req[w].op = "UpdateComment"
                    /\ f \in req[w].arg.fs
      ]_<<requestVars, threadVars>>
=============================================================================
