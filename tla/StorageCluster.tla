--------------------------- MODULE StorageCluster ---------------------------
(***************************************************************************)
(* Room storage across the cluster, for one room whose connections have    *)
(* all joined it:                                                          *)
(*  - the optimistic transactions of server/internal/cluster/redis.go      *)
(*    (SetStorageWithResult, ApplyStoragePatchWithResult,                  *)
(*    DeleteStorageWithOptions): WATCH and read, then EXEC;                *)
(*  - handleStorageSet and handleStoragePatch of                           *)
(*    server/internal/runtime/service.go, which commit to Redis, record    *)
(*    the sequence in the node's engine, publish, fan out and acknowledge; *)
(*  - the admin service's storage writes, which commit and publish;        *)
(*  - the client's optimistic copy of the document                         *)
(*    (packages/client/src/index.ts).                                      *)
(*                                                                         *)
(* A connection's goroutine takes its requests in order; the goroutines of *)
(* different connections, the admin's requests and the nodes' subscribers  *)
(* interleave. Clients read their queue in order, so a message takes       *)
(* effect at the client when it is enqueued. An enqueue fails on a closed  *)
(* socket and on a full queue, whose socket it closes; the first that      *)
(* fails ends the fan-out, and with it the handler and the connection of   *)
(* the sender. A client that connects again is another connection.         *)
(***************************************************************************)
EXTENDS StorageDocument, FiniteSets

CONSTANTS
    Conns,      \* joined connections
    Nodes, NodeOf,
    Admin,      \* the writer of admin requests
    Writer,     \* Writer[o]: the connection that sends o, or Admin
    Cas,        \* mutations sent with the client's sequence as expected_seq
    MaxSends,   \* bound: times a mutation is sent (retries of its op id)
    MaxFailures, \* bound: failed publishes of a behaviour
    MaxClosures \* bound: sockets closed by their peer or for a full queue

ASSUME ClusterAssumption ==
    /\ NodeOf \in [Conns -> Nodes]
    /\ Admin \notin Conns
    /\ Writer \in [Ops -> Conns \cup {Admin}]
    /\ Cas \subseteq {o \in Ops : Writer[o] # Admin}
    /\ MaxSends \in Nat /\ MaxFailures \in Nat /\ MaxClosures \in Nat

VARIABLES
    redisDoc, redisSeq, \* Redis: the document and its sequence
    record,             \* Redis: record[o], what o did, kept under its op id
    engineSeq,          \* engineSeq[n]: storageSeq of node n's engine
    inbox,              \* inbox[c]: requests c's goroutine has not read yet
    stage,              \* stage[o]: where the request for o is
    result,             \* result[o]: what the request for o has read or written
    sends,              \* sends[o]: times o was sent
    expected,           \* expected[o]: expected_seq of o
    channel,            \* channel[n]: published mutations n has not handled yet
    relay,              \* relay[n]: mutation n has recorded but not fanned out
    shown,              \* shown[c]: the document client c displays
    clientSeq,          \* clientSeq[c]: the client's storage sequence
    pending,            \* pending[c]: mutations the client awaits an answer for
    previous,           \* previous[o]: what the client displayed when it sent o
    socket,             \* socket[c]: "open", "closed" for a full queue while c's
                        \* goroutine goes on, "ending" when it no longer reads,
                        \* or "gone" from the room and the node's table
    failures, closures, \* counters for the bounds
    committed,          \* history: mutations in the order they committed
    answered,           \* history: answered[o], the last answer to o
    unpublished,        \* history: a committed mutation was not published
    missed              \* history: <<c, seq>>, the fan-out of seq ended before c

redisVars  == <<redisDoc, redisSeq, record, committed>>
nodeVars   == <<engineSeq, channel, relay>>
clientVars == <<shown, clientSeq, pending, previous>>
reqVars    == <<inbox, sends, expected>>
workVars   == <<stage, result>>
bookVars   == <<failures, answered, unpublished>>
socketVars == <<socket, closures, missed>>

storageVars == <<redisVars, nodeVars, clientVars, reqVars, workVars, bookVars, socketVars>>

A == INSTANCE StorageSpec WITH doc <- redisDoc, log <- committed

-----------------------------------------------------------------------------
Stages == {"idle", "queued", "exec", "record", "publish", "broadcast", "ack",
           "error", "conflict", "repair"}

Result == [seq : Nat, doc : Documents, dup : BOOLEAN]

NoResult == [seq |-> 0, doc |-> NoDoc, dup |-> FALSE]

Mutation == [op : Ops, seq : Nat, doc : Documents]

Answers == {"none", "ack", "error", "conflict"}

NoAnswer == [kind |-> "none", seq |-> 0, doc |-> NoDoc]

SocketStates == {"open", "closed", "ending", "gone"}

RuntimeOps == {o \in Ops : Writer[o] # Admin}

TypeOK ==
    /\ redisDoc \in Documents /\ redisSeq \in Nat
    /\ record \in [Ops -> Result]
    /\ committed \in Seq(Ops)
    /\ engineSeq \in [Nodes -> Nat]
    /\ inbox \in [Conns -> Seq(Ops)]
    /\ stage \in [Ops -> Stages]
    /\ result \in [Ops -> Result]
    /\ sends \in [Ops -> 0..MaxSends]
    /\ expected \in [Ops -> Nat \cup {NoSequence}]
    /\ channel \in [Nodes -> Seq(Mutation)]
    /\ relay \in [Nodes -> Seq(Mutation)]
    /\ \A n \in Nodes : Len(relay[n]) <= 1
    /\ shown \in [Conns -> Documents]
    /\ clientSeq \in [Conns -> Nat]
    /\ pending \in [Conns -> Seq(Ops)]
    /\ previous \in [Ops -> Documents]
    /\ failures \in 0..MaxFailures
    /\ answered \in [Ops -> [kind : Answers, seq : Nat, doc : Documents]]
    /\ unpublished \in BOOLEAN
    /\ socket \in [Conns -> SocketStates] /\ closures \in 0..MaxClosures
    /\ missed \subseteq Conns \X Nat

Init ==
    /\ redisDoc = NoDoc /\ redisSeq = 0
    /\ record = [o \in Ops |-> NoResult]
    /\ committed = << >>
    /\ engineSeq = [n \in Nodes |-> 0]
    /\ inbox = [c \in Conns |-> << >>]
    /\ stage = [o \in Ops |-> "idle"]
    /\ result = [o \in Ops |-> NoResult]
    /\ sends = [o \in Ops |-> 0]
    /\ expected = [o \in Ops |-> NoSequence]
    /\ channel = [n \in Nodes |-> << >>]
    /\ relay = [n \in Nodes |-> << >>]
    /\ shown = [c \in Conns |-> NoDoc]
    /\ clientSeq = [c \in Conns |-> 0]
    /\ pending = [c \in Conns |-> << >>]
    /\ previous = [o \in Ops |-> NoDoc]
    /\ failures = 0 /\ unpublished = FALSE
    /\ answered = [o \in Ops |-> NoAnswer]
    /\ socket = [c \in Conns |-> "open"] /\ closures = 0 /\ missed = {}

-----------------------------------------------------------------------------
(* The client's copy                                                       *)

Without(ops, o) == SelectSeq(ops, LAMBDA p : p # o)

\* reapplyPendingStorageMutations: the pending mutations on top of base.
Rebased(base, ops) ==
    LET f[i \in 0..Len(ops)] == IF i = 0 THEN base ELSE ApplyOp(ops[i], f[i - 1])
    IN  f[Len(ops)]

\* Only the first pending mutation can fail: a patch without a document.
RebaseFails(base, ops) == base = NoDoc /\ ops # << >> /\ Kind[ops[1]] = "patch"

\* base is displayed, then the pending mutations on top of it; one that
\* fails is dropped, and then base stays.
Display(c, base, ops) ==
    IF RebaseFails(base, ops)
    THEN /\ shown' = [shown EXCEPT ![c] = base]
         /\ pending' = [pending EXCEPT ![c] = Tail(ops)]
    ELSE /\ shown' = [shown EXCEPT ![c] = Rebased(base, ops)]
         /\ pending' = [pending EXCEPT ![c] = ops]

\* applyAuthoritativeStorageMessage: a sequence that is not newer is ignored.
Authoritative(c, seq, doc, ops) ==
    IF seq <= clientSeq[c]
    THEN /\ pending' = [pending EXCEPT ![c] = ops]
         /\ UNCHANGED <<shown, clientSeq>>
    ELSE /\ clientSeq' = [clientSeq EXCEPT ![c] = seq]
         /\ Display(c, doc, ops)

\* rollbackStorageMutation, of a mutation that is still pending.
Rollback(c, o) ==
    /\ IF \E i \in DOMAIN pending[c] : pending[c][i] = o
       THEN Display(c, previous[o], Without(pending[c], o))
       ELSE UNCHANGED <<shown, pending>>
    /\ UNCHANGED clientSeq

\* setStorage, patchStorage, and a retry under the same op id once the
\* first answer is in. A patch is displayed at once only if the client has
\* a document.
Send(c, o) ==
    /\ Writer[o] = c /\ Kind[o] # "delete"
    /\ stage[o] = "idle" /\ socket[c] = "open"
    /\ sends[o] < MaxSends /\ answered[o].kind # "ack"
    /\ sends' = [sends EXCEPT ![o] = @ + 1]
    /\ expected' = IF o \in Cas /\ sends[o] = 0
                   THEN [expected EXCEPT ![o] = clientSeq[c]] ELSE expected
    /\ stage' = [stage EXCEPT ![o] = "queued"]
    /\ inbox' = [inbox EXCEPT ![c] = Append(@, o)]
    /\ previous' = [previous EXCEPT ![o] = shown[c]]
    /\ pending' = [pending EXCEPT ![c] = Append(@, o)]
    /\ shown' = IF Applicable(o, shown[c])
                THEN [shown EXCEPT ![c] = ApplyOp(o, @)] ELSE shown
    /\ answered' = [answered EXCEPT ![o] = NoAnswer]
    /\ UNCHANGED <<redisVars, nodeVars, clientSeq, result, failures, unpublished, socketVars>>

\* An admin request: no op id, no expected sequence, no retry.
AdminSend(o) ==
    /\ Writer[o] = Admin
    /\ sends[o] = 0 /\ sends[o] < MaxSends
    /\ sends' = [sends EXCEPT ![o] = 1]
    /\ stage' = [stage EXCEPT ![o] = "queued"]
    /\ UNCHANGED <<redisVars, nodeVars, clientVars, inbox, expected, result, bookVars, socketVars>>

-----------------------------------------------------------------------------
(* Redis                                                                   *)

\* The connection's goroutine is busy with the request at the head of its
\* inbox; admin requests have a goroutine each.
Running(o, s) ==
    /\ stage[o] = s
    /\ Writer[o] # Admin => inbox[Writer[o]] # << >> /\ Head(inbox[Writer[o]]) = o

To(o, s) == stage' = [stage EXCEPT ![o] = s]

\* Faulty variant: a repeated op id is answered with the current document.
RecordedNow(o) == [seq |-> record[o].seq, doc |-> redisDoc, dup |-> TRUE]

\* redisStorageOperation: what the first request under this op id did.
Recorded(o) == [record[o] EXCEPT !.dup = TRUE]

\* WATCH and the reads of the transaction: a recorded op id is answered from
\* the record, otherwise the checks in the code's order.
Watch(o) ==
    /\ Running(o, "queued")
    /\ \/ /\ record[o].seq > 0
          /\ result' = [result EXCEPT ![o] = Recorded(o)]
          /\ To(o, "ack")
       \/ /\ record[o].seq = 0
          /\ ~Applicable(o, redisDoc)
          /\ To(o, "error") /\ UNCHANGED result
       \/ /\ record[o].seq = 0 /\ Applicable(o, redisDoc)
          /\ expected[o] \notin {NoSequence, redisSeq}
          /\ To(o, "conflict") /\ UNCHANGED result
       \/ /\ record[o].seq = 0 /\ Applicable(o, redisDoc)
          /\ expected[o] \in {NoSequence, redisSeq}
          /\ result' = [result EXCEPT ![o] =
                          [seq |-> redisSeq + 1, doc |-> ApplyOp(o, redisDoc), dup |-> FALSE]]
          /\ To(o, "exec")
    /\ UNCHANGED <<redisVars, nodeVars, clientVars, reqVars, bookVars, socketVars>>

\* Faulty variant: the keys are not watched.
NeverLost(o) == FALSE

\* A watched key changed since it was read; every write changes the sequence.
LostRace(o) == redisSeq + 1 # result[o].seq

\* EXEC fails if a watched key changed since. An admin write goes on to publish without an engine.
Exec(o) ==
    /\ Running(o, "exec")
    /\ \/ /\ ~LostRace(o)
          /\ redisDoc' = result[o].doc
          /\ redisSeq' = result[o].seq
          /\ record' = IF Writer[o] = Admin THEN record
                       ELSE [record EXCEPT ![o] = result[o]]
          /\ committed' = Append(committed, o)
          /\ To(o, IF Writer[o] = Admin THEN "publish" ELSE "record")
       \/ /\ LostRace(o)
          /\ To(o, "error") /\ UNCHANGED redisVars
    /\ UNCHANGED <<nodeVars, clientVars, reqVars, result, bookVars, socketVars>>

-----------------------------------------------------------------------------
(* Runtime                                                                 *)

\* Faulty variant: a sequence the engine is past is never answered.
RecordInOrder(o) ==
    /\ Running(o, "record")
    /\ LET n == NodeOf[Writer[o]] IN
         /\ result[o].seq > engineSeq[n]
         /\ engineSeq' = [engineSeq EXCEPT ![n] = result[o].seq]
    /\ To(o, "publish")
    /\ UNCHANGED <<redisVars, channel, relay, clientVars, reqVars, result, bookVars, socketVars>>

\* RecordStorageMutation: the engine refuses a sequence it is already past.
RecordMutation(o) ==
    /\ Running(o, "record")
    /\ LET n == NodeOf[Writer[o]] IN
       \/ /\ result[o].seq > engineSeq[n]
          /\ engineSeq' = [engineSeq EXCEPT ![n] = result[o].seq]
          /\ To(o, "publish")
       \/ /\ result[o].seq <= engineSeq[n]
          /\ To(o, "conflict")
          /\ UNCHANGED engineSeq
    /\ UNCHANGED <<redisVars, channel, relay, clientVars, reqVars, result, bookVars, socketVars>>

PublishEvent(o) ==
    /\ Running(o, "publish")
    /\ channel' = [n \in Nodes |->
                     IF Writer[o] # Admin /\ n = NodeOf[Writer[o]] THEN channel[n]
                     ELSE Append(channel[n],
                                 [op |-> o, seq |-> result[o].seq, doc |-> result[o].doc])]
    /\ To(o, IF Writer[o] = Admin THEN "idle" ELSE "broadcast")
    /\ UNCHANGED <<redisVars, engineSeq, relay, clientVars, reqVars, result, bookVars, socketVars>>

PublishFails(o) ==
    /\ Running(o, "publish")
    /\ failures < MaxFailures
    /\ failures' = failures + 1
    /\ unpublished' = TRUE
    /\ To(o, "error")
    /\ UNCHANGED <<redisVars, nodeVars, clientVars, reqVars, result, answered, socketVars>>

Open == {c \in Conns : socket[c] = "open"}

\* STORAGE_UPDATE to a set of connections.
Update(targets, seq, doc) ==
    LET fresh == {c \in targets \cap Open : seq > clientSeq[c]}
        bad   == {c \in fresh : RebaseFails(doc, pending[c])}
    IN  /\ clientSeq' = [c \in Conns |-> IF c \in fresh THEN seq ELSE clientSeq[c]]
        /\ shown' = [c \in Conns |-> IF c \in bad THEN doc
                                     ELSE IF c \in fresh THEN Rebased(doc, pending[c])
                                     ELSE shown[c]]
        /\ pending' = [c \in Conns |-> IF c \in bad THEN Tail(pending[c]) ELSE pending[c]]
        /\ UNCHANGED previous

LocalConns(n) == {c \in Conns : NodeOf[c] = n /\ socket[c] # "gone"}

\* The socket of d fails an enqueue: it is being closed, or its queue is full
\* and that closes it.
Refuses(d) ==
    \/ socket[d] \in {"closed", "ending"} /\ UNCHANGED closures
    \/ socket[d] = "open" /\ closures < MaxClosures /\ closures' = closures + 1

Closed(d) == IF socket[d] = "open" THEN "closed" ELSE socket[d]

\* A fan-out that ends at d: some were reached before, the others miss it.
EndedAt(d, targets, seq, doc) ==
    \E reached \in SUBSET ((targets \cap Open) \ {d}) :
        /\ Update(reached, seq, doc)
        /\ missed' = missed \cup {<<c, seq>> : c \in ((targets \cap Open) \ reached) \ {d}}

\* The read loop of c ends, after the request in cut if there is one: what c
\* has sent and the loop has not read is lost.
LoopEnds(c, cut) ==
    /\ inbox' = [inbox EXCEPT ![c] = << >>]
    /\ stage' = [o \in Ops |-> IF o \in cut \/ (Writer[o] = c /\ stage[o] = "queued")
                               THEN "idle" ELSE stage[o]]

\* A closing socket may also accept what nobody will write.
BroadcastStorageFanout(o) ==
    /\ Running(o, "broadcast")
    /\ Update(LocalConns(NodeOf[Writer[o]]) \ {Writer[o]}, result[o].seq, result[o].doc)
    /\ To(o, "ack")
    /\ UNCHANGED <<redisVars, nodeVars, reqVars, result, bookVars, socketVars>>

\* The handler returns the error: no acknowledgement, and the sender is
\* disconnected.
BroadcastFails(o, d) ==
    LET c == Writer[o] IN
    /\ Running(o, "broadcast")
    /\ d \in LocalConns(NodeOf[c]) \ {c} /\ Refuses(d)
    /\ EndedAt(d, LocalConns(NodeOf[c]) \ {c}, result[o].seq, result[o].doc)
    /\ LoopEnds(c, {o})
    /\ socket' = [socket EXCEPT ![d] = Closed(d), ![c] = "ending"]
    /\ UNCHANGED <<redisVars, nodeVars, sends, expected, result, bookVars>>

\* Faulty variant: a gap in the sequence is waited out.
NextEvent(m, n) == m.seq = engineSeq[n] + 1

\* RecordStorageEvent drops what is not newer.
NewerEvent(m, n) == m.seq > engineSeq[n]

\* Subscribe handles one event at a time.
SubscriberFree(n) == relay[n] = << >>

\* handleClusterEvent, first half: the engine records the sequence.
HandleClusterEvent(n) ==
    /\ channel[n] # << >> /\ SubscriberFree(n)
    /\ channel' = [channel EXCEPT ![n] = Tail(@)]
    /\ LET m == Head(channel[n]) IN
       \/ /\ NewerEvent(m, n)
          /\ engineSeq' = [engineSeq EXCEPT ![n] = m.seq]
          /\ relay' = [relay EXCEPT ![n] = Append(@, m)]
       \/ ~NewerEvent(m, n) /\ UNCHANGED <<engineSeq, relay>>
    /\ UNCHANGED <<redisVars, clientVars, reqVars, workVars, bookVars, socketVars>>

\* Second half: the fan-out on the node.
FanOutClusterEvent(n) ==
    /\ relay[n] # << >>
    /\ Update(LocalConns(n), relay[n][1].seq, relay[n][1].doc)
    /\ relay' = [relay EXCEPT ![n] = Tail(@)]
    /\ UNCHANGED <<redisVars, engineSeq, channel, reqVars, workVars, bookVars, socketVars>>

\* The subscriber ignores the error and takes the next event.
ClusterFanOutFails(n, d) ==
    /\ relay[n] # << >>
    /\ d \in LocalConns(n) /\ Refuses(d)
    /\ EndedAt(d, LocalConns(n), relay[n][1].seq, relay[n][1].doc)
    /\ socket' = [socket EXCEPT ![d] = Closed(d)]
    /\ relay' = [relay EXCEPT ![n] = Tail(@)]
    /\ UNCHANGED <<redisVars, engineSeq, channel, reqVars, workVars, bookVars>>

-----------------------------------------------------------------------------
(* Answers, to a client that is still there.                               *)

CanAnswer(o) == Writer[o] # Admin => socket[Writer[o]] = "open"

Answer(o, kind, seq, doc) ==
    /\ CanAnswer(o)
    /\ answered' = [answered EXCEPT ![o] = [kind |-> kind, seq |-> seq, doc |-> doc]]
    /\ To(o, "idle")
    /\ inbox' = IF Writer[o] = Admin THEN inbox
                ELSE [inbox EXCEPT ![Writer[o]] = Tail(@)]
    /\ UNCHANGED <<redisVars, nodeVars, sends, expected, result, previous, failures, unpublished, socketVars>>

Ack(o) ==
    /\ Running(o, "ack")
    /\ Authoritative(Writer[o], result[o].seq, result[o].doc, Without(pending[Writer[o]], o))
    /\ Answer(o, "ack", result[o].seq, result[o].doc)

Error(o) ==
    /\ Running(o, "error")
    /\ IF Writer[o] = Admin THEN UNCHANGED <<shown, clientSeq, pending>>
       ELSE Rollback(Writer[o], o)
    /\ Answer(o, "error", 0, NoDoc)

\* storageErrorMessage reads the snapshot for the repair with two GETs of a
\* pipeline that is no transaction: first the document,
ReadRepair(o) ==
    /\ Running(o, "conflict")
    /\ result' = [result EXCEPT ![o].doc = redisDoc]
    /\ To(o, "repair")
    /\ UNCHANGED <<redisVars, nodeVars, clientVars, reqVars, bookVars, socketVars>>

\* then its sequence. applyStorageConflictRepair: a repair that is not older
\* replaces the copy, an older or a missing one rolls the mutation back.
Repair(o) ==
    LET c == Writer[o] IN
    /\ Running(o, "repair")
    /\ \/ /\ result[o].doc # NoDoc /\ redisSeq >= clientSeq[c]
          /\ clientSeq' = [clientSeq EXCEPT ![c] = redisSeq]
          /\ Display(c, result[o].doc, Without(pending[c], o))
       \/ /\ result[o].doc = NoDoc \/ redisSeq < clientSeq[c]
          /\ Rollback(c, o)
    /\ Answer(o, "conflict", redisSeq, result[o].doc)

\* On a closed socket the answer is an error or lost.
AnswerLost(o) ==
    LET c == Writer[o] IN
    /\ \E s \in {"ack", "error", "repair"} : Running(o, s)
    /\ c # Admin /\ socket[c] = "closed"
    /\ \/ LoopEnds(c, {o}) /\ socket' = [socket EXCEPT ![c] = "ending"]
       \/ /\ To(o, "idle") /\ inbox' = [inbox EXCEPT ![c] = Tail(@)]
          /\ UNCHANGED socket
    /\ UNCHANGED <<redisVars, nodeVars, clientVars, sends, expected, result, bookVars, closures, missed>>

\* The sender's own queue is full.
AnswerOverflows(o) ==
    LET c == Writer[o] IN
    /\ \E s \in {"ack", "error", "repair"} : Running(o, s)
    /\ c # Admin /\ socket[c] = "open"
    /\ closures < MaxClosures /\ closures' = closures + 1
    /\ LoopEnds(c, {o}) /\ socket' = [socket EXCEPT ![c] = "ending"]
    /\ UNCHANGED <<redisVars, nodeVars, clientVars, sends, expected, result, bookVars, missed>>

-----------------------------------------------------------------------------
(* Connections end.                                                        *)

\* c's goroutine is between two requests.
Reading(c) == \A o \in Ops : Writer[o] = c => stage[o] \in {"idle", "queued"}

\* The peer hangs up, which ends the read loop.
Hangup(c) ==
    /\ socket[c] = "open" /\ Reading(c)
    /\ closures < MaxClosures /\ closures' = closures + 1
    /\ LoopEnds(c, {}) /\ socket' = [socket EXCEPT ![c] = "ending"]
    /\ UNCHANGED <<redisVars, nodeVars, clientVars, sends, expected, result, bookVars, missed>>

\* Nothing more is read from a closed socket.
ReadFails(c) ==
    /\ socket[c] = "closed" /\ Reading(c)
    /\ LoopEnds(c, {}) /\ socket' = [socket EXCEPT ![c] = "ending"]
    /\ UNCHANGED <<redisVars, nodeVars, clientVars, sends, expected, result, bookVars, closures, missed>>

unregisterConn(c) ==
    /\ socket[c] = "ending" /\ socket' = [socket EXCEPT ![c] = "gone"]
    /\ UNCHANGED <<redisVars, nodeVars, clientVars, reqVars, workVars, bookVars, closures, missed>>

-----------------------------------------------------------------------------
Serve(o) ==
    \/ Watch(o) \/ Exec(o) \/ RecordMutation(o) \/ PublishEvent(o)
    \/ BroadcastStorageFanout(o) \/ Ack(o) \/ Error(o) \/ ReadRepair(o) \/ Repair(o)
    \/ AnswerLost(o)

Next ==
    \/ \E c \in Conns, o \in Ops : Send(c, o)
    \/ \E o \in Ops : AdminSend(o) \/ Serve(o) \/ PublishFails(o) \/ AnswerOverflows(o)
    \/ \E n \in Nodes : HandleClusterEvent(n) \/ FanOutClusterEvent(n)
    \/ \E o \in Ops, d \in Conns : BroadcastFails(o, d)
    \/ \E n \in Nodes, d \in Conns : ClusterFanOutFails(n, d)
    \/ \E c \in Conns : Hangup(c) \/ ReadFails(c) \/ unregisterConn(c)

Spec == Init /\ [][Next]_storageVars

\* Goroutines that can run do, and Redis answers.
Fairness ==
    /\ \A o \in Ops : WF_storageVars(Serve(o))
    /\ \A n \in Nodes : WF_storageVars(HandleClusterEvent(n) \/ FanOutClusterEvent(n))
    /\ \A c \in Conns : WF_storageVars(ReadFails(c) \/ unregisterConn(c))

FairSpec == Spec /\ Fairness

-----------------------------------------------------------------------------
(* Properties                                                              *)

\* The WATCH transactions of concurrent connections and admin requests,
\* retries included, make one register: every commit applies one new
\* mutation to the latest document at the expected sequence.
StorageIsRegister == A!AbstractStorage

\* DocAfter(i): the document after the first i commits.
DocAfter(i) ==
    LET f[k \in 0..Len(committed)] ==
          IF k = 0 THEN NoDoc ELSE ApplyOp(committed[k], f[k - 1])
    IN  f[i]

\* An acknowledgement, first or repeated, tells the truth: the mutation is
\* the one committed at the acknowledged sequence, and the document in it is
\* the document right after that commit.
AcksMatchCommits ==
    \A o \in Ops :
        answered[o].kind = "ack" =>
            LET s == answered[o].seq IN
            /\ s \in 1..Len(committed)
            /\ committed[s] = o
            /\ answered[o].doc = DocAfter(s)

Quiet ==
    /\ \A o \in Ops : stage[o] = "idle"
    /\ \A n \in Nodes : channel[n] = << >> /\ relay[n] = << >>

Silent(c) == \A o \in Ops : Writer[o] = c => sends[o] = 0

\* When nothing is under way and every commit was published, every client
\* that is connected has reached the authoritative sequence, however
\* publishes, fan-outs and false conflicts were ordered; and one that sent
\* nothing displays the authoritative document. Left out is the client that
\* the last commit's fan-out did not get to because another socket failed
\* before it: nothing sends it that document again.
ClientsReachLatest ==
    Quiet /\ ~unpublished =>
        \A c \in Open : <<c, redisSeq>> \notin missed =>
            /\ clientSeq[c] = redisSeq
            /\ Silent(c) => shown[c] = redisDoc

\* The documentation's promise about conflicts: a mutation that is answered
\* with STORAGE_CONFLICT has not changed the document.
ConflictMeansUnchanged ==
    \A o \in Ops :
        answered[o].kind = "conflict" => \A i \in DOMAIN committed : committed[i] # o

Answered(o) ==
    stage[o] = "idle" /\ (sends[o] > 0 => answered[o].kind # "none" \/ Writer[o] \notin Open)

\* The requests of the clients, each sent at most MaxSends times, are all
\* answered in the end, whatever else commits meanwhile and whichever sockets
\* fail, but for those of a connection that is closed.
RequestsAnswered ==
    (\E o \in RuntimeOps : stage[o] # "idle") ~> (\A o \in RuntimeOps : Answered(o))
=============================================================================
