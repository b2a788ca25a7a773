---------------------------- MODULE StorageProofs ----------------------------
(***************************************************************************)
(* Proofs about StorageCluster, for any number of nodes, connections and   *)
(* mutations, any retries, any failed publishes and any failing sockets:   *)
(*  - the WATCH transactions implement the register of StorageSpec;        *)
(*  - an acknowledgement, first or repeated, tells what was committed;     *)
(*  - when all is quiet and every commit was published, every connected    *)
(*    client has reached the latest one, but for those that came after a   *)
(*    failing socket in its fan-out.                                       *)
(*                                                                         *)
(* StoreInv is the inductive invariant: what the records in Redis, the     *)
(* requests under way and the messages in flight say about the mutations   *)
(* that have committed. The document after each commit is given by         *)
(* recursion over the committed mutations; that the recursion has exactly  *)
(* one solution is a part of the invariant (Replayable), so that the       *)
(* induction over commits is the induction over steps.                     *)
(***************************************************************************)
EXTENDS StorageCluster, TLAPS

-----------------------------------------------------------------------------
(* The documents a sequence of mutations goes through.                     *)

\* History(s)[i]: the document after the first i mutations of s.
History(s) ==
    LET f[k \in 0..Len(s)] == IF k = 0 THEN NoDoc ELSE ApplyOp(s[k], f[k - 1])
    IN  f

\* f solves the recursion of History.
Unfolds(f, s) ==
    f = [k \in 0..Len(s) |-> IF k = 0 THEN NoDoc ELSE ApplyOp(s[k], f[k - 1])]

\* The recursion has exactly one solution.
Replayable(s) == \E f : Unfolds(f, s) /\ \A g : Unfolds(g, s) => g = f

\* History is the chosen solution of its recursion.
LEMMA HistoryChoice == \A s : History(s) = CHOOSE f : Unfolds(f, s)
  BY DEF History, Unfolds

\* If the recursion has one solution, History is that one.
LEMMA HistoryUnfolds ==
  ASSUME NEW s, Replayable(s)
  PROVE  Unfolds(History(s), s) /\ \A g : Unfolds(g, s) => g = History(s)
  BY HistoryChoice DEF Replayable

\* The DocAfter of the properties is the History of the commits.
LEMMA DocAfterIs == \A i : DocAfter(i) = History(committed)[i]
  BY DEF DocAfter, History

\* No mutation, no document: where Redis starts.
LEMMA HistoryEmpty == Replayable(<< >>) /\ History(<< >>)[0] = NoDoc
<1> DEFINE f == [k \in 0..0 |-> NoDoc]
<1>1. Unfolds(f, << >>)
  BY DEF Unfolds
<1>2. ASSUME NEW g, Unfolds(g, << >>) PROVE g = f
  BY <1>2 DEF Unfolds
<1>3. Replayable(<< >>)
  BY <1>1, <1>2 DEF Replayable
<1>4. QED BY <1>3, <1>1, HistoryUnfolds

\* One more commit leaves the earlier documents alone and applies the mutation
\* to the last one, which is what Exec writes to Redis.
LEMMA HistoryAppend ==
  ASSUME NEW s \in Seq(Ops), NEW o \in Ops, Replayable(s)
  PROVE  /\ Replayable(Append(s, o))
         /\ \A i \in 0..Len(s) : History(Append(s, o))[i] = History(s)[i]
         /\ History(Append(s, o))[Len(s) + 1] = ApplyOp(o, History(s)[Len(s)])
<1> DEFINE t == Append(s, o)
           h == History(s)
           f == [k \in 0..Len(s) + 1 |-> IF k = Len(s) + 1 THEN ApplyOp(o, h[Len(s)]) ELSE h[k]]
<1>1. /\ Len(t) = Len(s) + 1 /\ Len(s) \in Nat
      /\ t[Len(s) + 1] = o /\ \A k \in 1..Len(s) : t[k] = s[k]
  OBVIOUS
<1>2. Unfolds(h, s) /\ \A g : Unfolds(g, s) => g = h
  BY HistoryUnfolds
<1>h. \A k \in 0..Len(s) : h[k] = IF k = 0 THEN NoDoc ELSE ApplyOp(s[k], h[k - 1])
  BY <1>2 DEF Unfolds
<1>3. Unfolds(f, t)
  <2>1. ASSUME NEW k \in 0..Len(t)
        PROVE  f[k] = IF k = 0 THEN NoDoc ELSE ApplyOp(t[k], f[k - 1])
    <3>1. CASE k = Len(s) + 1
      BY <1>1, <3>1
    <3>2. CASE k \in 1..Len(s)
      <4>1. f[k] = h[k] /\ f[k - 1] = h[k - 1]
        BY <1>1, <3>2
      <4>2. QED BY <1>1, <3>2, <4>1, <1>h
    <3>3. CASE k = 0
      BY <1>1, <3>3, <1>h
    <3>4. QED BY <1>1, <3>1, <3>2, <3>3
  <2>2. QED BY <2>1, <1>1 DEF Unfolds
<1>4. ASSUME NEW g, Unfolds(g, t) PROVE g = f
  <2> DEFINE r == [k \in 0..Len(s) |-> g[k]]
  <2>0. g = [k \in 0..Len(s) + 1 |-> g[k]]
    BY <1>4, <1>1 DEF Unfolds
  <2>1. \A k \in 0..Len(s) + 1 : g[k] = IF k = 0 THEN NoDoc ELSE ApplyOp(t[k], g[k - 1])
    BY <1>4, <1>1 DEF Unfolds
  <2>2. \A k \in 0..Len(s) : r[k] = IF k = 0 THEN NoDoc ELSE ApplyOp(s[k], r[k - 1])
    <3>1. TAKE k \in 0..Len(s)
    <3>2. CASE k = 0
      BY <3>2, <2>1, <1>1
    <3>3. CASE k # 0
      BY <3>3, <2>1, <1>1
    <3>4. QED BY <3>2, <3>3
  <2>3. Unfolds(r, s)
    BY <2>2 DEF Unfolds
  <2>4. r = h
    BY <2>3, <1>2
  <2>5. \A k \in 0..Len(s) : g[k] = h[k]
    BY <2>4
  <2>6. g[Len(s) + 1] = ApplyOp(o, h[Len(s)])
    BY <2>1, <2>5, <1>1
  <2>7. \A k \in 0..Len(s) + 1 : g[k] = f[k]
    BY <2>5, <2>6, <1>1
  <2>8. f = [k \in 0..Len(s) + 1 |-> f[k]]
    OBVIOUS
  <2> HIDE DEF f
  <2>9. QED BY <2>0, <2>7, <2>8
<1>5. Replayable(t)
  BY <1>3, <1>4 DEF Replayable
<1>6. History(t) = f
  BY <1>5, <1>3, HistoryUnfolds
<1>7. QED BY <1>5, <1>6, <1>1

-----------------------------------------------------------------------------
(* The inductive invariant.                                                *)

\* Types, and how much a relay holds.
StoreTyped ==
    /\ redisDoc \in Documents /\ redisSeq \in Nat
    /\ record \in [Ops -> Result]
    /\ committed \in Seq(Ops)
    /\ engineSeq \in [Nodes -> Nat]
    /\ stage \in [Ops -> Stages]
    /\ result \in [Ops -> Result]
    /\ sends \in [Ops -> Nat]
    /\ expected \in [Ops -> Nat \cup {NoSequence}]
    /\ channel \in [Nodes -> Seq(Mutation)]
    /\ relay \in [Nodes -> Seq(Mutation)]
    /\ \A n \in Nodes : Len(relay[n]) <= 1
    /\ clientSeq \in [Conns -> Nat]
    /\ DOMAIN shown = Conns /\ DOMAIN pending = Conns
    /\ answered \in [Ops -> [kind : Answers, seq : Nat, doc : Documents]]
    /\ DOMAIN socket = Conns

\* o has not committed.
Fresh(o) == \A i \in DOMAIN committed : committed[i] # o

\* The expected sequence of o is the one in Redis.
Expects(o) == expected[o] \in {NoSequence, redisSeq}

\* What Redis knows: the document and its sequence are those of the commits,
\* an op id without a record has not committed, and a transaction that is
\* not stale still holds what it would read now.
StoreSound ==
    /\ redisSeq = Len(committed)
    /\ redisDoc = History(committed)[redisSeq]
    /\ \A o \in Ops : sends[o] = 0 => stage[o] = "idle" /\ Fresh(o)
    /\ \A o \in Ops : Writer[o] = Admin /\ stage[o] = "queued" => Fresh(o)
    /\ \A o \in Ops : Writer[o] # Admin /\ record[o].seq = 0 => Fresh(o)
    /\ \A o \in Ops : stage[o] = "exec" =>
        /\ Fresh(o) /\ result[o].seq \in 1..redisSeq + 1
        /\ ~LostRace(o) =>
            Applicable(o, redisDoc) /\ Expects(o) /\ result[o].doc = ApplyOp(o, redisDoc)

\* o is the mutation that committed at sequence s, and made the document d.
Landed(log, o, s, d) ==
    s \in 1..Len(log) /\ log[s] = o /\ d = History(log)[s]

\* Stages at which the result of a request is a commit.
Told == {"record", "publish", "broadcast", "ack"}

\* Records, results, answers and messages in flight tell of commits.
AnswersSound ==
    /\ \A o \in Ops : record[o].seq > 0 => Landed(committed, o, record[o].seq, record[o].doc)
    /\ \A o \in Ops : stage[o] \in Told => Landed(committed, o, result[o].seq, result[o].doc)
    /\ \A o \in Ops : answered[o].kind = "ack" => Landed(committed, o, answered[o].seq, answered[o].doc)
    /\ \A n \in Nodes : \A i \in DOMAIN channel[n] :
        Landed(committed, channel[n][i].op, channel[n][i].seq, channel[n][i].doc)
    /\ \A n \in Nodes : \A i \in DOMAIN relay[n] :
        Landed(committed, relay[n][i].op, relay[n][i].seq, relay[n][i].doc)

\* Nobody is ahead of Redis, and a client that sent nothing displays the
\* document of its sequence.
CopiesBehind ==
    /\ \A c \in Conns : clientSeq[c] <= redisSeq
    /\ \A n \in Nodes : engineSeq[n] <= redisSeq
    /\ \A c \in Conns : Silent(c) =>
        pending[c] = << >> /\ shown[c] = History(committed)[clientSeq[c]]

\* What the request for o did is the latest commit.
Latest(o) == redisSeq > 0 /\ result[o].seq = redisSeq

\* Before the latest commit is published nobody else can have heard of it.
Unannounced ==
    \A o \in Ops : Latest(o) /\ stage[o] \in {"record", "publish"} =>
        \A n \in Nodes :
            /\ \A i \in DOMAIN channel[n] : channel[n][i].seq < redisSeq
            /\ \/ engineSeq[n] < redisSeq
               \/ stage[o] = "publish" /\ Writer[o] # Admin /\ n = NodeOf[Writer[o]]

\* Something under way will bring the latest commit to c.
Coming(c) ==
    \/ \E o \in Ops :
        /\ Latest(o)
        /\ \/ stage[o] \in {"record", "publish"}
           \/ stage[o] = "broadcast" /\ NodeOf[c] = NodeOf[Writer[o]]
           \/ stage[o] = "ack" /\ Writer[o] = c
    \/ \E i \in DOMAIN relay[NodeOf[c]] : relay[NodeOf[c]][i].seq = redisSeq
    \/ /\ engineSeq[NodeOf[c]] < redisSeq
       /\ \E i \in DOMAIN channel[NodeOf[c]] : channel[NodeOf[c]][i].seq = redisSeq

\* c is closed, or the fan-out of the latest commit ended before it.
Excused(c) == socket[c] # "open" \/ <<c, redisSeq>> \in missed

\* Every client has the latest commit, or it is coming to it, or it is excused.
LatestReaches ==
    /\ Unannounced
    /\ \A o \in Ops : stage[o] \in {"record", "broadcast"} => Writer[o] # Admin
    /\ \A c \in Conns : unpublished \/ clientSeq[c] = redisSeq \/ Coming(c) \/ Excused(c)

\* The inductive invariant.
StoreInv ==
    /\ StoreTyped /\ Replayable(committed) /\ StoreSound
    /\ AnswersSound /\ CopiesBehind /\ LatestReaches

\* A mutation that applies to a document makes a document.
LEMMA ApplyOpTyped ==
  ASSUME NEW o \in Ops, NEW d \in Documents, Applicable(o, d)
  PROVE  ApplyOp(o, d) \in Documents
  BY DocumentAssumption DEF Applicable, ApplyOp, Documents

\* The answer to a repeated op id keeps the recorded sequence and document.
LEMMA RecordedKeeps ==
  ASSUME NEW r \in Result
  PROVE  LET q == [r EXCEPT !.dup = TRUE]
         IN  q \in Result /\ q.seq = r.seq /\ q.doc = r.doc
  BY DEF Result

\* A result takes the document of a conflict's repair.
LEMMA RepairedTyped ==
  \A r \in Result, d \in Documents : [r EXCEPT !.doc = d] \in Result
  BY DEF Result

\* The fields of a published mutation.
LEMMA MutationFields ==
  \A m \in Mutation : m.op \in Ops /\ m.seq \in Nat /\ m.doc \in Documents
  BY DEF Mutation

\* The fields of a result.
LEMMA ResultFields == \A r \in Result : r.seq \in Nat /\ r.doc \in Documents
  BY DEF Result

\* Append stays within a set of sequences.
LEMMA AppendTyped ==
  ASSUME NEW S, NEW s \in Seq(S), NEW e \in S
  PROVE  Append(s, e) \in Seq(S)
  OBVIOUS

\* The end of a read loop leaves the other requests where they are.
LEMMA LoopEndsStages ==
  ASSUME stage \in [Ops -> Stages], NEW c, NEW cut, LoopEnds(c, cut)
  PROVE  /\ stage' \in [Ops -> Stages]
         /\ \A p \in Ops : \/ stage'[p] = stage[p]
                           \/ stage'[p] = "idle" /\ (p \in cut \/ stage[p] = "queued")
<1>1. stage' = [p \in Ops |-> IF p \in cut \/ (Writer[p] = c /\ stage[p] = "queued")
                             THEN "idle" ELSE stage[p]]
  BY DEF LoopEnds
<1>2. "idle" \in Stages
  BY DEF Stages
<1>3. QED BY <1>1, <1>2

\* What an update leaves of the clients' copies.
LEMMA UpdateTyped ==
  ASSUME clientSeq \in [Conns -> Nat], NEW targets, NEW seq \in Nat, NEW doc,
         Update(targets, seq, doc)
  PROVE  clientSeq' \in [Conns -> Nat] /\ DOMAIN shown' = Conns /\ DOMAIN pending' = Conns
  BY DEF Update

\* Who is reached by an update, and of a fan-out that ends at d.
LEMMA EndedAtReaches ==
  ASSUME clientSeq \in [Conns -> Nat], NEW targets, NEW seq \in Nat, NEW doc, NEW d,
         EndedAt(d, targets, seq, doc)
  PROVE  /\ missed \subseteq missed'
         /\ \A c \in Conns : clientSeq'[c] = clientSeq[c]
                             \/ (seq > clientSeq[c] /\ clientSeq'[c] = seq)
         /\ \A c \in targets \cap Open : c # d =>
              clientSeq'[c] >= seq \/ <<c, seq>> \in missed'
<1>1. PICK reached \in SUBSET ((targets \cap Open) \ {d}) :
        /\ Update(reached, seq, doc)
        /\ missed' = missed \cup {<<c, seq>> : c \in ((targets \cap Open) \ reached) \ {d}}
  BY DEF EndedAt
<1>2. \A c \in Conns : clientSeq'[c] =
        IF c \in reached \cap Open /\ seq > clientSeq[c] THEN seq ELSE clientSeq[c]
  BY <1>1 DEF Update
<1>3. ASSUME NEW c \in targets \cap Open, c # d
      PROVE  clientSeq'[c] >= seq \/ <<c, seq>> \in missed'
  <2>1. CASE c \in reached
    <3>1. c \in Conns /\ clientSeq[c] \in Nat
      BY <1>3 DEF Open
    <3>2. QED BY <1>2, <1>3, <2>1, <3>1
  <2>2. CASE c \notin reached
    BY <1>1, <1>3, <2>2
  <2>3. QED BY <2>1, <2>2
<1>4. QED BY <1>1, <1>2, <1>3

-----------------------------------------------------------------------------
(* It holds at first and every step keeps it.                              *)

\* An empty room satisfies the invariant.
LEMMA InitSound == Init => StoreInv
<1> SUFFICES ASSUME Init PROVE StoreInv
  OBVIOUS
<1> USE DEF Init, NoResult
<1>1. StoreTyped
  BY DEF StoreTyped, Result, Mutation, Documents, Stages, Answers, NoAnswer
<1>2. Replayable(committed) /\ History(committed)[0] = NoDoc
  BY HistoryEmpty
<1>3. StoreSound
  BY <1>2 DEF StoreSound, Fresh
<1>4. AnswersSound
  BY DEF AnswersSound, Told, NoAnswer
<1>5. CopiesBehind
  BY <1>2 DEF CopiesBehind, Silent
<1>6. LatestReaches
  BY DEF LatestReaches, Unannounced, Latest, Coming
<1>7. QED BY <1>1, <1>2, <1>3, <1>4, <1>5, <1>6 DEF StoreInv

\* Every step keeps the types.
LEMMA StoreTypedKept == StoreTyped /\ [Next]_storageVars => StoreTyped'
<1> SUFFICES ASSUME StoreTyped, [Next]_storageVars PROVE StoreTyped'
  OBVIOUS
<1> USE DocumentAssumption, ClusterAssumption
    DEF StoreTyped, redisVars, nodeVars, clientVars, reqVars, workVars, bookVars, socketVars
<1>1. ASSUME NEW c \in Conns, NEW o \in Ops, Send(c, o) PROVE StoreTyped'
  <2>1. stage' \in [Ops -> Stages]
    BY <1>1 DEF Send, Stages
  <2>2. sends' \in [Ops -> Nat]
    BY <1>1 DEF Send
  <2>3. expected' \in [Ops -> Nat \cup {NoSequence}]
    BY <1>1 DEF Send
  <2>4. DOMAIN shown' = Conns /\ DOMAIN pending' = Conns
    BY <1>1 DEF Send
  <2>5. answered' \in [Ops -> [kind : Answers, seq : Nat, doc : Documents]]
    BY <1>1 DEF Send, NoAnswer, Answers, Documents
  <2>6. QED BY <1>1, <2>1, <2>2, <2>3, <2>4, <2>5 DEF Send
<1>2. ASSUME NEW o \in Ops, AdminSend(o) PROVE StoreTyped'
  BY <1>2 DEF AdminSend, Stages
<1>3. ASSUME NEW o \in Ops, Watch(o) PROVE StoreTyped'
  <2>1. stage' \in [Ops -> Stages]
    BY <1>3 DEF Watch, To, Stages
  <2>2. Recorded(o) \in Result
    BY RecordedKeeps DEF Recorded
  <2>3. Applicable(o, redisDoc) =>
          [seq |-> redisSeq + 1, doc |-> ApplyOp(o, redisDoc), dup |-> FALSE] \in Result
    BY ApplyOpTyped DEF Result
  <2>4. result' \in [Ops -> Result]
    BY <1>3, <2>2, <2>3 DEF Watch
  <2>5. QED BY <1>3, <2>1, <2>4 DEF Watch
<1>4. ASSUME NEW o \in Ops, Exec(o) PROVE StoreTyped'
  <2>1. result[o].doc \in Documents /\ result[o].seq \in Nat /\ result[o] \in Result
    BY ResultFields
  <2>2. stage' \in [Ops -> Stages]
    BY <1>4 DEF Exec, To, Stages
  <2>5. committed' \in Seq(Ops)
    <3>1. committed' = committed \/ committed' = Append(committed, o)
      BY <1>4 DEF Exec
    <3>2. committed \in Seq(Ops)
      OBVIOUS
    <3>3. Append(committed, o) \in Seq(Ops)
      BY <3>2, AppendTyped
    <3>4. CASE committed' = committed
      BY <3>2, <3>4
    <3>5. CASE committed' = Append(committed, o)
      BY <3>3, <3>5
    <3>6. QED BY <3>1, <3>4, <3>5
  <2>3. record' \in [Ops -> Result]
    <3>1. CASE record' = record
      BY <1>4, <3>1 DEF Exec
    <3>2. CASE record' = [record EXCEPT ![o] = result[o]]
      BY <1>4, <2>1, <3>2 DEF Exec
    <3>3. QED BY <1>4, <3>1, <3>2 DEF Exec
  <2>4. QED BY <1>4, <2>1, <2>2, <2>3, <2>5 DEF Exec
<1>5. ASSUME NEW o \in Ops, RecordMutation(o) PROVE StoreTyped'
  BY <1>5, ZenonT(60) DEF RecordMutation, To, Stages, Result
<1>6. ASSUME NEW o \in Ops, PublishEvent(o) PROVE StoreTyped'
  <2>1. [op |-> o, seq |-> result[o].seq, doc |-> result[o].doc] \in Mutation
    BY DEF Mutation, Result
  <2>2. channel' \in [Nodes -> Seq(Mutation)]
    BY <1>6, <2>1 DEF PublishEvent
  <2>3. stage' \in [Ops -> Stages]
    BY <1>6 DEF PublishEvent, To, Stages
  <2>4. QED BY <1>6, <2>2, <2>3 DEF PublishEvent
<1>7. ASSUME NEW o \in Ops, PublishFails(o) PROVE StoreTyped'
  BY <1>7 DEF PublishFails, To, Stages
<1>8. ASSUME NEW o \in Ops, BroadcastStorageFanout(o) PROVE StoreTyped'
  BY <1>8 DEF BroadcastStorageFanout, Update, To, Stages, Result
<1>9. ASSUME NEW o \in Ops, Ack(o) PROVE StoreTyped'
  <2>1. stage' \in [Ops -> Stages]
    BY <1>9 DEF Ack, Answer, To, Stages
  <2>2. answered' \in [Ops -> [kind : Answers, seq : Nat, doc : Documents]]
    BY <1>9, ResultFields DEF Ack, Answer, Answers
  <2>3. DOMAIN shown' = Conns /\ DOMAIN pending' = Conns
    BY <1>9 DEF Ack, Authoritative, Display
  <2>4. clientSeq' \in [Conns -> Nat]
    <3>1. result[o].seq \in Nat
      BY ResultFields
    <3>2. clientSeq' = clientSeq \/ clientSeq' = [clientSeq EXCEPT ![Writer[o]] = result[o].seq]
      BY <1>9 DEF Ack, Authoritative
    <3>3. QED BY <3>1, <3>2
  <2>5. QED BY <1>9, <2>1, <2>2, <2>3, <2>4 DEF Ack, Answer
<1>10. ASSUME NEW o \in Ops, Error(o) PROVE StoreTyped'
  <2>1. stage' \in [Ops -> Stages]
    BY <1>10 DEF Error, Answer, To, Stages
  <2>2. answered' \in [Ops -> [kind : Answers, seq : Nat, doc : Documents]]
    BY <1>10, ResultFields DEF Error, Answer, Answers, Documents
  <2>3. DOMAIN shown' = Conns /\ DOMAIN pending' = Conns
    BY <1>10 DEF Error, Rollback, Display
  <2>4. clientSeq' \in [Conns -> Nat]
    BY <1>10, ResultFields DEF Error, Rollback, Display
  <2>5. QED BY <1>10, <2>1, <2>2, <2>3, <2>4 DEF Error, Answer
<1>11. ASSUME NEW o \in Ops, ReadRepair(o) PROVE StoreTyped'
  <2>1. stage' \in [Ops -> Stages]
    BY <1>11 DEF ReadRepair, To, Stages
  <2>2. result' \in [Ops -> Result]
    <3>1. result' = [result EXCEPT ![o] = [result[o] EXCEPT !.doc = redisDoc]]
      BY <1>11 DEF ReadRepair
    <3>2. [result[o] EXCEPT !.doc = redisDoc] \in Result
      BY RepairedTyped
    <3>3. QED BY <3>1, <3>2
  <2>3. QED BY <1>11, <2>1, <2>2 DEF ReadRepair
<1>12. ASSUME NEW o \in Ops, Repair(o) PROVE StoreTyped'
  <2>1. stage' \in [Ops -> Stages]
    BY <1>12 DEF Repair, Answer, To, Stages
  <2>2. answered' \in [Ops -> [kind : Answers, seq : Nat, doc : Documents]]
    BY <1>12, ResultFields DEF Repair, Answer, Answers
  <2>3. DOMAIN shown' = Conns /\ DOMAIN pending' = Conns
    BY <1>12 DEF Repair, Rollback, Display
  <2>4. clientSeq' \in [Conns -> Nat]
    BY <1>12, ResultFields DEF Repair, Rollback, Display
  <2>5. QED BY <1>12, <2>1, <2>2, <2>3, <2>4 DEF Repair, Answer
<1>13. ASSUME NEW n \in Nodes, HandleClusterEvent(n) PROVE StoreTyped'
  <2> DEFINE m == Head(channel[n])
  <2>1. m \in Mutation /\ m.seq \in Nat /\ Tail(channel[n]) \in Seq(Mutation)
    <3>1. m \in Mutation /\ Tail(channel[n]) \in Seq(Mutation)
      BY <1>13 DEF HandleClusterEvent
    <3>2. QED BY <3>1, MutationFields
  <2>2. channel' \in [Nodes -> Seq(Mutation)]
    BY <1>13, <2>1 DEF HandleClusterEvent
  <2> HIDE DEF m
  <2>3. /\ relay' \in [Nodes -> Seq(Mutation)] /\ engineSeq' \in [Nodes -> Nat]
        /\ \A k \in Nodes : Len(relay'[k]) <= 1
    <3>1. CASE engineSeq' = [engineSeq EXCEPT ![n] = m.seq] /\ relay' = [relay EXCEPT ![n] = Append(@, m)]
      <4>1. Append(relay[n], m) \in Seq(Mutation) /\ Len(Append(relay[n], m)) = 1
        BY <1>13, <2>1 DEF HandleClusterEvent, SubscriberFree
      <4>2. QED BY <3>1, <4>1, <2>1
    <3>2. CASE UNCHANGED <<engineSeq, relay>>
      BY <3>2
    <3>3. QED BY <1>13, <3>1, <3>2 DEF HandleClusterEvent, m
  <2>4. QED BY <1>13, <2>2, <2>3 DEF HandleClusterEvent
<1>14. ASSUME NEW n \in Nodes, FanOutClusterEvent(n) PROVE StoreTyped'
  <2>1. /\ relay[n][1] \in Mutation /\ relay[n][1].seq \in Nat
        /\ Tail(relay[n]) \in Seq(Mutation) /\ Len(Tail(relay[n])) <= 1
    <3>1. /\ relay[n][1] \in Mutation /\ Tail(relay[n]) \in Seq(Mutation)
          /\ Len(Tail(relay[n])) <= 1
      BY <1>14 DEF FanOutClusterEvent
    <3>2. QED BY <3>1, MutationFields
  <2>2. relay' \in [Nodes -> Seq(Mutation)] /\ \A k \in Nodes : Len(relay'[k]) <= 1
    BY <1>14, <2>1 DEF FanOutClusterEvent
  <2>3. QED BY <1>14, <2>1, <2>2 DEF FanOutClusterEvent, Update
<1>15. ASSUME NEW o \in Ops, NEW d \in Conns, BroadcastFails(o, d) PROVE StoreTyped'
  <2>1. clientSeq' \in [Conns -> Nat] /\ DOMAIN shown' = Conns /\ DOMAIN pending' = Conns
    BY <1>15, ResultFields, UpdateTyped DEF BroadcastFails, EndedAt
  <2>2. stage' \in [Ops -> Stages]
    BY <1>15, LoopEndsStages DEF BroadcastFails
  <2>3. QED BY <1>15, <2>1, <2>2 DEF BroadcastFails
<1>16. ASSUME NEW n \in Nodes, NEW d \in Conns, ClusterFanOutFails(n, d) PROVE StoreTyped'
  <2>1. /\ relay[n][1] \in Mutation
        /\ Tail(relay[n]) \in Seq(Mutation) /\ Len(Tail(relay[n])) <= 1
    BY <1>16 DEF ClusterFanOutFails
  <2>2. relay[n][1].seq \in Nat
    BY <2>1, MutationFields
  <2>3. relay' \in [Nodes -> Seq(Mutation)] /\ \A k \in Nodes : Len(relay'[k]) <= 1
    BY <1>16, <2>1 DEF ClusterFanOutFails
  <2>4. clientSeq' \in [Conns -> Nat] /\ DOMAIN shown' = Conns /\ DOMAIN pending' = Conns
    BY <1>16, <2>2, UpdateTyped DEF ClusterFanOutFails, EndedAt
  <2>5. QED BY <1>16, <2>3, <2>4 DEF ClusterFanOutFails
<1>17. ASSUME NEW o \in Ops, AnswerLost(o) \/ AnswerOverflows(o) PROVE StoreTyped'
  <2>1. stage' \in [Ops -> Stages]
    BY <1>17, LoopEndsStages DEF AnswerLost, AnswerOverflows, To, Stages
  <2>2. QED BY <1>17, <2>1 DEF AnswerLost, AnswerOverflows
<1>18. ASSUME NEW c \in Conns, Hangup(c) \/ ReadFails(c) \/ unregisterConn(c) PROVE StoreTyped'
  <2>1. stage' \in [Ops -> Stages]
    BY <1>18, LoopEndsStages DEF Hangup, ReadFails, unregisterConn
  <2>2. QED BY <1>18, <2>1 DEF Hangup, ReadFails, unregisterConn
<1>19. CASE UNCHANGED storageVars
  BY <1>19 DEF storageVars
<1>20. QED
  BY <1>1, <1>2, <1>3, <1>4, <1>5, <1>6, <1>7, <1>8, <1>9, <1>10, <1>11, <1>12, <1>13,
     <1>14, <1>15, <1>16, <1>17, <1>18, <1>19 DEF Next, Serve

\* A socket that fails stays so, and a client that missed an update missed it.
LEMMA SocketsKept ==
  ASSUME StoreTyped, [Next]_storageVars
  PROVE  /\ missed \subseteq missed'
         /\ \A c \in Conns : socket[c] # "open" => socket'[c] # "open"
<1>0. DOMAIN socket = Conns /\ clientSeq \in [Conns -> Nat]
  BY DEF StoreTyped
<1>1. ASSUME UNCHANGED socketVars
      PROVE  missed \subseteq missed' /\ \A c \in Conns : socket[c] # "open" => socket'[c] # "open"
  BY <1>1 DEF socketVars
<1>2. ASSUME NEW o \in Ops,
             \/ AdminSend(o) \/ PublishFails(o) \/ \E c \in Conns : Send(c, o)
      PROVE  UNCHANGED socketVars
  BY <1>2 DEF AdminSend, PublishFails, Send
<1>3. ASSUME NEW o \in Ops,
             \/ Watch(o) \/ Exec(o) \/ RecordMutation(o) \/ PublishEvent(o) \/ BroadcastStorageFanout(o)
             \/ Ack(o) \/ Error(o) \/ ReadRepair(o) \/ Repair(o)
      PROVE  UNCHANGED socketVars
  BY <1>3 DEF Watch, Exec, RecordMutation, PublishEvent, BroadcastStorageFanout, Ack, Error,
     ReadRepair, Repair, Answer
<1>4. ASSUME NEW n \in Nodes, HandleClusterEvent(n) \/ FanOutClusterEvent(n) PROVE UNCHANGED socketVars
  BY <1>4 DEF HandleClusterEvent, FanOutClusterEvent
<1>5. ASSUME NEW o \in Ops, NEW d \in Conns, BroadcastFails(o, d)
      PROVE  missed \subseteq missed' /\ \A c \in Conns : socket[c] # "open" => socket'[c] # "open"
  BY <1>0, <1>5 DEF BroadcastFails, EndedAt, Closed
<1>6. ASSUME NEW n \in Nodes, NEW d \in Conns, ClusterFanOutFails(n, d)
      PROVE  missed \subseteq missed' /\ \A c \in Conns : socket[c] # "open" => socket'[c] # "open"
  BY <1>0, <1>6 DEF ClusterFanOutFails, EndedAt, Closed
<1>7. ASSUME NEW o \in Ops, AnswerLost(o) \/ AnswerOverflows(o)
      PROVE  missed \subseteq missed' /\ \A c \in Conns : socket[c] # "open" => socket'[c] # "open"
  BY <1>0, <1>7 DEF AnswerLost, AnswerOverflows
<1>8. ASSUME NEW b \in Conns, Hangup(b) \/ ReadFails(b) \/ unregisterConn(b)
      PROVE  missed \subseteq missed' /\ \A c \in Conns : socket[c] # "open" => socket'[c] # "open"
  BY <1>0, <1>8 DEF Hangup, ReadFails, unregisterConn
<1>9. CASE UNCHANGED storageVars
  BY <1>9, <1>1 DEF storageVars
<1>10. QED BY <1>1, <1>2, <1>3, <1>4, <1>5, <1>6, <1>7, <1>8, <1>9 DEF Next, Serve

\* An EXEC that is not refused commits exactly its mutation, on the document
\* that is stored when it executes.
LEMMA ExecCommits ==
  ASSUME StoreInv, NEW o \in Ops, Exec(o), ~LostRace(o)
  PROVE  /\ redisDoc' = ApplyOp(o, redisDoc) /\ redisSeq' = redisSeq + 1
         /\ result[o].seq = redisSeq + 1 /\ result[o].doc = redisDoc'
         /\ committed' = Append(committed, o) /\ committed' \in Seq(Ops)
         /\ Len(committed') = Len(committed) + 1 /\ Len(committed) = redisSeq
         /\ committed'[redisSeq'] = o
         /\ \A i \in 1..Len(committed) : committed'[i] = committed[i]
         /\ Replayable(committed')
         /\ \A i \in 0..Len(committed) : History(committed')[i] = History(committed)[i]
         /\ History(committed')[redisSeq'] = redisDoc'
<1>1. /\ committed \in Seq(Ops) /\ redisSeq \in Nat /\ Len(committed) = redisSeq
      /\ redisDoc = History(committed)[redisSeq] /\ Replayable(committed)
  BY DEF StoreInv, StoreTyped, StoreSound
<1>2. /\ result[o].seq = redisSeq + 1
      /\ result[o].doc = ApplyOp(o, redisDoc)
  <2>1. stage[o] = "exec" /\ result[o] \in Result
    BY DEF Exec, Running, StoreInv, StoreTyped
  <2>2. QED BY <2>1, ResultFields DEF LostRace, StoreInv, StoreSound
<1>3. /\ redisDoc' = result[o].doc /\ redisSeq' = result[o].seq
      /\ committed' = Append(committed, o)
  BY DEF Exec
<1>4. /\ Append(committed, o) \in Seq(Ops) /\ Len(Append(committed, o)) = Len(committed) + 1
      /\ Append(committed, o)[Len(committed) + 1] = o
      /\ \A i \in 1..Len(committed) : Append(committed, o)[i] = committed[i]
  BY <1>1
<1>5. /\ Replayable(Append(committed, o))
      /\ \A i \in 0..Len(committed) : History(Append(committed, o))[i] = History(committed)[i]
      /\ History(Append(committed, o))[Len(committed) + 1] = ApplyOp(o, History(committed)[Len(committed)])
  BY <1>1, HistoryAppend
<1>6. QED BY <1>1, <1>2, <1>3, <1>4, <1>5

\* No other step of a handler, a subscriber or a client writes to Redis.
LEMMA OnlyExecCommits ==
  ASSUME [Next]_storageVars,
         ~ \E o \in Ops : Exec(o) /\ ~LostRace(o)
  PROVE  redisDoc' = redisDoc /\ redisSeq' = redisSeq /\ record' = record /\ committed' = committed
<1> SUFFICES UNCHANGED redisVars
  BY DEF redisVars
<1>1. ASSUME NEW o \in Ops,
             \/ AdminSend(o) \/ PublishFails(o) \/ \E c \in Conns : Send(c, o)
      PROVE  UNCHANGED redisVars
  BY <1>1 DEF AdminSend, PublishFails, Send
<1>2. ASSUME NEW o \in Ops,
             \/ Watch(o) \/ RecordMutation(o) \/ PublishEvent(o) \/ BroadcastStorageFanout(o)
             \/ Ack(o) \/ Error(o) \/ ReadRepair(o) \/ Repair(o)
      PROVE  UNCHANGED redisVars
  BY <1>2 DEF Watch, RecordMutation, PublishEvent, BroadcastStorageFanout, Ack, Error, ReadRepair,
     Repair, Answer
<1>3. ASSUME NEW o \in Ops, Exec(o) PROVE UNCHANGED redisVars
  BY <1>3 DEF Exec
<1>4. ASSUME NEW n \in Nodes, HandleClusterEvent(n) \/ FanOutClusterEvent(n) PROVE UNCHANGED redisVars
  BY <1>4 DEF HandleClusterEvent, FanOutClusterEvent
<1>5. ASSUME NEW o \in Ops, NEW d \in Conns, BroadcastFails(o, d) PROVE UNCHANGED redisVars
  BY <1>5 DEF BroadcastFails
<1>9. ASSUME NEW n \in Nodes, NEW d \in Conns, ClusterFanOutFails(n, d) PROVE UNCHANGED redisVars
  BY <1>9 DEF ClusterFanOutFails
<1>6. ASSUME NEW o \in Ops, AnswerLost(o) \/ AnswerOverflows(o) PROVE UNCHANGED redisVars
  BY <1>6 DEF AnswerLost, AnswerOverflows
<1>7. ASSUME NEW c \in Conns, Hangup(c) \/ ReadFails(c) \/ unregisterConn(c) PROVE UNCHANGED redisVars
  BY <1>7 DEF Hangup, ReadFails, unregisterConn
<1>8. CASE UNCHANGED storageVars
  BY <1>8 DEF storageVars
<1>10. QED BY <1>1, <1>2, <1>3, <1>4, <1>5, <1>6, <1>7, <1>8, <1>9 DEF Next, Serve

\* Every step keeps what Redis knows.
LEMMA StoreSoundKept == StoreInv /\ [Next]_storageVars => StoreSound'
<1> SUFFICES ASSUME StoreInv, [Next]_storageVars PROVE StoreSound'
  OBVIOUS
<1>a. /\ StoreTyped /\ StoreSound
      /\ redisSeq \in Nat /\ stage \in [Ops -> Stages] /\ sends \in [Ops -> Nat]
      /\ result \in [Ops -> Result] /\ record \in [Ops -> Result]
      /\ expected \in [Ops -> Nat \cup {NoSequence}]
      /\ committed \in Seq(Ops)
  BY DEF StoreInv, StoreTyped
<1>1. ASSUME NEW o \in Ops, Exec(o), ~LostRace(o) PROVE StoreSound'
  <2>1. /\ UNCHANGED <<sends, expected, result>>
        /\ stage' = [stage EXCEPT ![o] = IF Writer[o] = Admin THEN "publish" ELSE "record"]
        /\ stage[o] = "exec"
        /\ record' = IF Writer[o] = Admin THEN record ELSE [record EXCEPT ![o] = result[o]]
    BY <1>1 DEF Exec, To, reqVars, Running
  <2>2. /\ redisSeq' = redisSeq + 1 /\ Len(committed') = redisSeq' /\ result[o].seq = redisSeq + 1
        /\ History(committed')[redisSeq'] = redisDoc'
    BY <1>1, <1>a, ExecCommits
  <2>3. ASSUME NEW p \in Ops, Fresh(p), p # o PROVE Fresh(p)'
    <3>1. DOMAIN committed' = 1..Len(committed) + 1 /\ DOMAIN committed = 1..Len(committed)
      BY <1>1, <1>a, ExecCommits
    <3>2. /\ committed'[Len(committed) + 1] = o /\ Len(committed) \in Nat
          /\ \A i \in 1..Len(committed) : committed'[i] = committed[i]
      BY <1>1, <1>a, ExecCommits
    <3>3. QED BY <2>3, <3>1, <3>2 DEF Fresh
  <2>4. \A p \in Ops : p # o => stage'[p] = stage[p] /\ record'[p] = record[p]
    BY <2>1, <1>a
  <2>5. stage'[o] \in {"publish", "record"} /\ sends[o] # 0
    BY <2>1, <1>a DEF StoreSound
  <2>6. Writer[o] # Admin => record'[o].seq = redisSeq + 1
    BY <2>1, <2>2, <1>a
  <2>7. ASSUME NEW p \in Ops, stage'[p] = "exec"
        PROVE  /\ Fresh(p)' /\ result'[p].seq \in 1..redisSeq' + 1
               /\ LostRace(p)'
    BY <2>7, <2>1, <2>2, <2>3, <2>4, <2>5, <1>a, ResultFields DEF StoreSound, LostRace
  <2>8. QED BY <2>1, <2>2, <2>3, <2>4, <2>5, <2>6, <2>7, <1>a DEF StoreSound
<1>2. ASSUME ~ \E o \in Ops : Exec(o) /\ ~LostRace(o) PROVE StoreSound'
  <2>1. redisDoc' = redisDoc /\ redisSeq' = redisSeq /\ record' = record /\ committed' = committed
    BY <1>2, OnlyExecCommits
  <2>2. \A o \in Ops : (Fresh(o)' <=> Fresh(o))
    BY <2>1 DEF Fresh
  <2>3. ASSUME NEW c \in Conns, NEW o \in Ops, Send(c, o) PROVE StoreSound'
    <3>1. Writer[o] # Admin /\ stage[o] = "idle" /\ result' = result
      BY <2>3, ClusterAssumption DEF Send
    <3>2. stage'[o] = "queued" /\ sends'[o] = sends[o] + 1
      BY <2>3, <1>a DEF Send
    <3>3. \A p \in Ops : p # o =>
            stage'[p] = stage[p] /\ sends'[p] = sends[p] /\ expected'[p] = expected[p]
      BY <2>3, <1>a DEF Send
    <3>4. QED BY <2>1, <2>2, <3>1, <3>2, <3>3, <1>a DEF StoreSound, LostRace, Expects
  <2>4. ASSUME NEW o \in Ops, AdminSend(o) PROVE StoreSound'
    BY <2>1, <2>2, <2>4, <1>a DEF AdminSend, StoreSound, LostRace, Expects
  <2>5. ASSUME NEW o \in Ops, Watch(o) PROVE StoreSound'
    <3>1. sends[o] # 0 /\ UNCHANGED <<sends, expected>>
      BY <2>5, <1>a DEF Watch, Running, StoreSound, reqVars
    <3>2. \A p \in Ops : p # o => stage'[p] = stage[p] /\ result'[p] = result[p]
      BY <2>5, <1>a DEF Watch, To
    <3>3. stage'[o] # "queued" /\ stage'[o] # "idle"
      BY <2>5, <1>a DEF Watch, To
    <3>4. stage'[o] = "exec" =>
            /\ record[o].seq = 0 /\ Applicable(o, redisDoc) /\ Expects(o)
            /\ result'[o].seq = redisSeq + 1 /\ result'[o].doc = ApplyOp(o, redisDoc)
      BY <2>5, <1>a DEF Watch, To, Expects
    <3>5. record[o].seq = 0 => Fresh(o)
      BY <2>5, <1>a DEF StoreSound, Watch, Running
    <3>6. QED BY <2>1, <2>2, <3>1, <3>2, <3>3, <3>4, <3>5, <1>a DEF StoreSound, LostRace, Expects
  <2>6. ASSUME NEW o \in Ops, NEW s \in Stages \ {"queued", "exec", "idle"},
               UNCHANGED <<sends, expected, result>>,
               stage[o] # "idle", To(o, s)
        PROVE  StoreSound'
    BY <2>1, <2>2, <2>6, <1>a DEF To, StoreSound, LostRace, Expects
  <2>7. ASSUME NEW o \in Ops, UNCHANGED <<sends, expected, result>>,
               stage[o] # "idle", To(o, "idle")
        PROVE  StoreSound'
    BY <2>1, <2>2, <2>7, <1>a DEF To, StoreSound, LostRace, Expects
  <2>8. ASSUME UNCHANGED <<sends, expected, stage, result>> PROVE StoreSound'
    BY <2>1, <2>2, <2>8, <1>a DEF StoreSound, LostRace, Expects
  <2>9. ASSUME NEW o \in Ops, ReadRepair(o) PROVE StoreSound'
    BY <2>1, <2>2, <2>9, <1>a DEF ReadRepair, Running, To, reqVars, StoreSound, LostRace, Expects
  <2>10. ASSUME NEW o \in Ops,
                Exec(o) \/ RecordMutation(o) \/ PublishFails(o) \/ BroadcastStorageFanout(o)
         PROVE  StoreSound'
    BY <2>10, <2>6, <1>2 DEF Exec, RecordMutation, PublishFails, BroadcastStorageFanout, Running,
       reqVars, Stages
  <2>11. ASSUME NEW o \in Ops, Ack(o) \/ Error(o) \/ Repair(o) PROVE StoreSound'
    BY <2>11, <2>7 DEF Ack, Error, Repair, Answer, Running
  <2>12. ASSUME NEW o \in Ops, PublishEvent(o) PROVE StoreSound'
    BY <2>12, <2>6, <2>7 DEF PublishEvent, Running, Stages, reqVars
  <2>13. ASSUME NEW n \in Nodes, HandleClusterEvent(n) \/ FanOutClusterEvent(n) PROVE StoreSound'
    BY <2>13, <2>8 DEF HandleClusterEvent, FanOutClusterEvent, reqVars, workVars
  <2>14. CASE UNCHANGED storageVars
    BY <2>14, <2>8 DEF storageVars, reqVars, workVars
  <2>15. ASSUME UNCHANGED <<sends, expected, result>>,
                \A p \in Ops : stage'[p] = stage[p] \/ stage'[p] = "idle"
         PROVE  StoreSound'
    BY <2>1, <2>2, <2>15, <1>a DEF StoreSound, LostRace, Expects
  <2>16. ASSUME NEW o \in Ops, NEW d \in Conns, BroadcastFails(o, d) PROVE StoreSound'
    BY <2>15, <2>16, <1>a, LoopEndsStages DEF BroadcastFails
  <2>17. ASSUME NEW n \in Nodes, NEW d \in Conns, ClusterFanOutFails(n, d) PROVE StoreSound'
    BY <2>8, <2>17 DEF ClusterFanOutFails, reqVars, workVars
  <2>18. ASSUME NEW o \in Ops, AnswerLost(o) \/ AnswerOverflows(o) PROVE StoreSound'
    <3>1. \A p \in Ops : stage'[p] = stage[p] \/ stage'[p] = "idle"
      BY <2>18, <1>a, LoopEndsStages DEF AnswerLost, AnswerOverflows, To
    <3>2. QED BY <2>15, <2>18, <3>1 DEF AnswerLost, AnswerOverflows
  <2>19. ASSUME NEW c \in Conns, Hangup(c) \/ ReadFails(c) PROVE StoreSound'
    <3>1. \A p \in Ops : stage'[p] = stage[p] \/ stage'[p] = "idle"
      BY <2>19, <1>a, LoopEndsStages DEF Hangup, ReadFails
    <3>2. QED BY <2>15, <2>19, <3>1 DEF Hangup, ReadFails
  <2>20. ASSUME NEW c \in Conns, unregisterConn(c) PROVE StoreSound'
    BY <2>8, <2>20 DEF unregisterConn, reqVars, workVars
  <2>21. QED
    BY <2>3, <2>4, <2>5, <2>9, <2>10, <2>11, <2>12, <2>13, <2>14, <2>16, <2>17, <2>18, <2>19, <2>20
       DEF Next, Serve
<1>3. QED BY <1>1, <1>2

\* What has committed stays committed, at its sequence and with its document.
LEMMA LandedKept ==
  ASSUME StoreInv, [Next]_storageVars
  PROVE  \A o, s, d : Landed(committed, o, s, d) => Landed(committed', o, s, d)
<1>1. CASE \E o \in Ops : Exec(o) /\ ~LostRace(o)
  <2>1. PICK o \in Ops : Exec(o) /\ ~LostRace(o)
    BY <1>1
  <2>2. /\ Len(committed) \in Nat /\ Len(committed') = Len(committed) + 1
        /\ \A i \in 1..Len(committed) : committed'[i] = committed[i]
        /\ \A i \in 0..Len(committed) : History(committed')[i] = History(committed)[i]
    <3>1. Len(committed) \in Nat
      BY DEF StoreInv, StoreTyped
    <3>2. QED BY <2>1, <3>1, ExecCommits
  <2>3. QED BY <2>2 DEF Landed
<1>2. CASE ~ \E o \in Ops : Exec(o) /\ ~LostRace(o)
  BY <1>2, OnlyExecCommits
<1>3. QED BY <1>1, <1>2

\* Every step keeps records, results, answers and messages true.
LEMMA AnswersSoundKept == StoreInv /\ [Next]_storageVars => AnswersSound'
<1> SUFFICES ASSUME StoreInv, [Next]_storageVars PROVE AnswersSound'
  OBVIOUS
<1>a. /\ AnswersSound /\ StoreTyped
      /\ stage \in [Ops -> Stages] /\ result \in [Ops -> Result] /\ record \in [Ops -> Result]
      /\ answered \in [Ops -> [kind : Answers, seq : Nat, doc : Documents]]
      /\ channel \in [Nodes -> Seq(Mutation)] /\ relay \in [Nodes -> Seq(Mutation)]
  BY DEF StoreInv, StoreTyped
<1>b. \A o, s, d : Landed(committed, o, s, d) => Landed(committed', o, s, d)
  BY LandedKept
<1> DEFINE OpsOK(o) ==
      /\ record'[o].seq > 0 => Landed(committed', o, record'[o].seq, record'[o].doc)
      /\ stage'[o] \in Told => Landed(committed', o, result'[o].seq, result'[o].doc)
      /\ answered'[o].kind = "ack" => Landed(committed', o, answered'[o].seq, answered'[o].doc)
    ChannelOK(n) == \A i \in DOMAIN channel'[n] :
      Landed(committed', channel'[n][i].op, channel'[n][i].seq, channel'[n][i].doc)
    RelayOK(n) == \A i \in DOMAIN relay'[n] :
      Landed(committed', relay'[n][i].op, relay'[n][i].seq, relay'[n][i].doc)
<1>c. (\A o \in Ops : OpsOK(o)) /\ (\A n \in Nodes : ChannelOK(n) /\ RelayOK(n)) => AnswersSound'
  BY DEF AnswersSound
<1>d. ASSUME UNCHANGED <<channel, relay>> PROVE \A n \in Nodes : ChannelOK(n) /\ RelayOK(n)
  BY <1>a, <1>b, <1>d DEF AnswersSound
<1>e. ASSUME NEW p \in Ops, record'[p] = record[p], answered'[p] = answered[p],
             result'[p] = result[p], stage'[p] = stage[p] \/ stage'[p] \notin Told
      PROVE  OpsOK(p)
  BY <1>a, <1>b, <1>e DEF AnswersSound
<1> HIDE DEF OpsOK, ChannelOK, RelayOK
<1>1. ASSUME NEW c \in Conns, NEW o \in Ops, Send(c, o) PROVE AnswersSound'
  <2>1. /\ UNCHANGED <<record, result, channel, relay>>
        /\ \A p \in Ops : p # o => stage'[p] = stage[p] /\ answered'[p] = answered[p]
        /\ stage'[o] = "queued" /\ answered'[o].kind # "ack"
    BY <1>1, <1>a DEF Send, redisVars, nodeVars, NoAnswer
  <2>2. OpsOK(o)
    BY <2>1, <1>a, <1>b DEF AnswersSound, OpsOK, Told
  <2>3. QED BY <2>1, <2>2, <1>c, <1>d, <1>e
<1>2. ASSUME NEW o \in Ops, AdminSend(o) PROVE AnswersSound'
  <2>1. /\ UNCHANGED <<record, answered, result, channel, relay>>
        /\ \A p \in Ops : stage'[p] = stage[p] \/ stage'[p] \notin Told
    BY <1>2, <1>a DEF AdminSend, redisVars, bookVars, nodeVars, Told
  <2>2. QED BY <2>1, <1>c, <1>d, <1>e
<1>3. ASSUME NEW o \in Ops, Watch(o) PROVE AnswersSound'
  <2>1. /\ UNCHANGED <<record, answered, channel, relay>>
        /\ \A p \in Ops : p # o => stage'[p] = stage[p] /\ result'[p] = result[p]
    BY <1>3, <1>a DEF Watch, To, redisVars, bookVars, nodeVars
  <2>2. stage'[o] \in Told => record[o].seq > 0 /\ result'[o] = Recorded(o)
    BY <1>3, <1>a DEF Watch, To, Told
  <2>3. Recorded(o).seq = record[o].seq /\ Recorded(o).doc = record[o].doc
    BY <1>a, RecordedKeeps DEF Recorded
  <2>4. OpsOK(o)
    BY <2>1, <2>2, <2>3, <1>a, <1>b DEF AnswersSound, OpsOK
  <2>5. QED BY <2>1, <2>4, <1>c, <1>d, <1>e
<1>4. ASSUME NEW o \in Ops, Exec(o) PROVE AnswersSound'
  <2>1. /\ UNCHANGED <<answered, result, channel, relay>>
        /\ \A p \in Ops : p # o => stage'[p] = stage[p] /\ record'[p] = record[p]
    BY <1>4, <1>a DEF Exec, To, bookVars, nodeVars, redisVars
  <2>2. CASE LostRace(o)
    <3>1. record' = record /\ stage'[o] \notin Told
      BY <1>4, <1>a, <2>2 DEF Exec, To, redisVars, Told
    <3>2. QED BY <2>1, <3>1, <1>c, <1>d, <1>e
  <2>3. CASE ~LostRace(o)
    <3>1. Landed(committed', o, result[o].seq, result[o].doc)
      <4>1. /\ redisSeq \in Nat /\ Len(committed') = redisSeq + 1 /\ result[o].seq = redisSeq + 1
            /\ committed'[redisSeq + 1] = o /\ History(committed')[redisSeq + 1] = result[o].doc
        <5>1. redisSeq \in Nat
          BY <1>a DEF StoreTyped
        <5>2. QED BY <1>4, <2>3, <5>1, ExecCommits
      <4>2. QED BY <4>1 DEF Landed
    <3>2. record'[o] = record[o] \/ record'[o] = result[o]
      BY <1>4, <1>a, <2>3 DEF Exec
    <3>3. OpsOK(o)
      BY <2>1, <3>1, <3>2, <1>a, <1>b DEF AnswersSound, OpsOK
    <3>4. QED BY <2>1, <3>3, <1>c, <1>d, <1>e
  <2>4. QED BY <2>2, <2>3
<1>5. ASSUME NEW o \in Ops, RecordMutation(o) \/ PublishFails(o) \/ BroadcastStorageFanout(o)
      PROVE  AnswersSound'
  <2>1. /\ UNCHANGED <<record, answered, result, channel, relay>>
        /\ \A p \in Ops : p # o => stage'[p] = stage[p]
        /\ stage[o] \in Told
    BY <1>5, <1>a DEF RecordMutation, PublishFails, BroadcastStorageFanout, Running, To, redisVars,
       bookVars, nodeVars, Told
  <2>2. OpsOK(o)
    BY <2>1, <1>a, <1>b DEF AnswersSound, OpsOK
  <2>3. QED BY <2>1, <2>2, <1>c, <1>d, <1>e
<1>6. ASSUME NEW o \in Ops, PublishEvent(o) PROVE AnswersSound'
  <2> DEFINE m == [op |-> o, seq |-> result[o].seq, doc |-> result[o].doc]
  <2>1. /\ UNCHANGED <<record, answered, result, relay>>
        /\ \A p \in Ops : p # o => stage'[p] = stage[p]
        /\ stage[o] \in Told
    BY <1>6, <1>a DEF PublishEvent, Running, To, redisVars, bookVars, Told
  <2>2. \A p \in Ops : OpsOK(p)
    BY <2>1, <1>a, <1>b DEF AnswersSound, OpsOK
  <2>3. Landed(committed', m.op, m.seq, m.doc)
    BY <2>1, <1>a, <1>b DEF AnswersSound
  <2> HIDE DEF m
  <2>4. ASSUME NEW n \in Nodes PROVE ChannelOK(n)
    <3>1. channel'[n] = channel[n] \/ channel'[n] = Append(channel[n], m)
      BY <1>6 DEF PublishEvent, m
    <3>2. \A i \in DOMAIN channel[n] :
            Landed(committed', channel[n][i].op, channel[n][i].seq, channel[n][i].doc)
      BY <1>a, <1>b DEF AnswersSound
    <3>3. m \in Mutation /\ channel[n] \in Seq(Mutation)
      BY <1>a, ResultFields DEF m, Mutation
    <3>4. ASSUME NEW i \in DOMAIN Append(channel[n], m)
          PROVE  \/ Append(channel[n], m)[i] = m
                 \/ i \in DOMAIN channel[n] /\ Append(channel[n], m)[i] = channel[n][i]
      BY <3>3
    <3>5. QED BY <3>1, <3>2, <3>4, <2>3 DEF ChannelOK
  <2>5. \A n \in Nodes : RelayOK(n)
    BY <2>1, <1>a, <1>b DEF AnswersSound, RelayOK
  <2>6. QED BY <2>2, <2>4, <2>5, <1>c
<1>7. ASSUME NEW o \in Ops, Ack(o) PROVE AnswersSound'
  <2>1. /\ UNCHANGED <<record, result, channel, relay>>
        /\ \A p \in Ops : p # o => stage'[p] = stage[p] /\ answered'[p] = answered[p]
        /\ stage[o] \in Told /\ stage'[o] = "idle"
        /\ answered'[o].seq = result[o].seq /\ answered'[o].doc = result[o].doc
    BY <1>7, <1>a DEF Ack, Answer, Running, To, redisVars, nodeVars, Told
  <2>2. OpsOK(o)
    BY <2>1, <1>a, <1>b DEF AnswersSound, OpsOK, Told
  <2>3. QED BY <2>1, <2>2, <1>c, <1>d, <1>e
<1>8. ASSUME NEW o \in Ops, Error(o) \/ Repair(o) PROVE AnswersSound'
  <2>1. /\ UNCHANGED <<record, result, channel, relay>>
        /\ \A p \in Ops : p # o => stage'[p] = stage[p] /\ answered'[p] = answered[p]
        /\ stage'[o] = "idle" /\ answered'[o].kind # "ack"
    BY <1>8, <1>a DEF Error, Repair, Answer, To, redisVars, nodeVars
  <2>2. OpsOK(o)
    BY <2>1, <1>a, <1>b DEF AnswersSound, OpsOK, Told
  <2>3. QED BY <2>1, <2>2, <1>c, <1>d, <1>e
<1>9. ASSUME NEW o \in Ops, ReadRepair(o) PROVE AnswersSound'
  <2>1. /\ UNCHANGED <<record, answered, channel, relay>>
        /\ \A p \in Ops : p # o => stage'[p] = stage[p] /\ result'[p] = result[p]
        /\ stage'[o] = "repair"
    BY <1>9, <1>a DEF ReadRepair, To, redisVars, nodeVars, bookVars
  <2>2. OpsOK(o)
    BY <2>1, <1>a, <1>b DEF AnswersSound, OpsOK, Told
  <2>3. QED BY <2>1, <2>2, <1>c, <1>d, <1>e
<1>10. ASSUME NEW n \in Nodes, HandleClusterEvent(n) PROVE AnswersSound'
  <2>1. UNCHANGED <<record, answered, result, stage>>
    BY <1>10 DEF HandleClusterEvent, redisVars, bookVars, workVars
  <2>2. ASSUME NEW k \in Nodes, k # n PROVE ChannelOK(k) /\ RelayOK(k)
    <3>1. channel'[k] = channel[k] /\ relay'[k] = relay[k]
      BY <1>10, <1>a, <2>2 DEF HandleClusterEvent
    <3>2. QED BY <3>1, <1>a, <1>b DEF AnswersSound, ChannelOK, RelayOK
  <2>3. channel[n] \in Seq(Mutation) /\ channel[n] # << >> /\ relay[n] = << >>
    BY <1>10, <1>a DEF HandleClusterEvent, SubscriberFree
  <2>4. /\ 1 \in DOMAIN channel[n] /\ channel[n][1] = Head(channel[n]) /\ Head(channel[n]) \in Mutation
        /\ \A i \in DOMAIN Tail(channel[n]) :
             i + 1 \in DOMAIN channel[n] /\ Tail(channel[n])[i] = channel[n][i + 1]
    BY <2>3
  <2>5. \A i \in DOMAIN channel[n] :
          Landed(committed', channel[n][i].op, channel[n][i].seq, channel[n][i].doc)
    BY <1>a, <1>b DEF AnswersSound
  <2>6. ChannelOK(n)
    <3>1. channel'[n] = Tail(channel[n])
      BY <1>10, <1>a DEF HandleClusterEvent
    <3>2. QED BY <3>1, <2>4, <2>5 DEF ChannelOK
  <2>7. RelayOK(n)
    <3>1. relay'[n] = << >> \/ relay'[n] = Append(<< >>, Head(channel[n]))
      BY <1>10, <1>a, <2>3 DEF HandleClusterEvent
    <3>2. \A i \in DOMAIN Append(<< >>, Head(channel[n])) :
            Append(<< >>, Head(channel[n]))[i] = channel[n][1]
      BY <2>4
    <3>3. QED BY <3>1, <3>2, <2>4, <2>5 DEF RelayOK
  <2>8. QED BY <2>1, <2>2, <2>6, <2>7, <1>c, <1>e
<1>11. ASSUME NEW n \in Nodes, FanOutClusterEvent(n) PROVE AnswersSound'
  <2>1. UNCHANGED <<record, answered, result, stage, channel>>
    BY <1>11 DEF FanOutClusterEvent, redisVars, bookVars, workVars
  <2>2. ASSUME NEW k \in Nodes PROVE ChannelOK(k)
    BY <2>1, <1>a, <1>b DEF AnswersSound, ChannelOK
  <2>3. ASSUME NEW k \in Nodes, k # n PROVE RelayOK(k)
    <3>1. relay'[k] = relay[k]
      BY <1>11, <1>a, <2>3 DEF FanOutClusterEvent
    <3>2. QED BY <3>1, <1>a, <1>b DEF AnswersSound, RelayOK
  <2>4. RelayOK(n)
    <3>1. relay[n] \in Seq(Mutation) /\ relay[n] # << >> /\ Len(relay[n]) <= 1
      BY <1>11, <1>a DEF FanOutClusterEvent, StoreTyped
    <3>2. DOMAIN Tail(relay[n]) = {}
      BY <3>1
    <3>3. relay'[n] = Tail(relay[n])
      BY <1>11, <1>a DEF FanOutClusterEvent
    <3>4. QED BY <3>2, <3>3 DEF RelayOK
  <2>5. QED BY <2>1, <2>2, <2>3, <2>4, <1>c, <1>e
<1>12. ASSUME NEW n \in Nodes, NEW d \in Conns, ClusterFanOutFails(n, d) PROVE AnswersSound'
  <2>1. UNCHANGED <<record, answered, result, stage, channel>>
    BY <1>12 DEF ClusterFanOutFails, redisVars, bookVars, workVars
  <2>2. ASSUME NEW k \in Nodes PROVE ChannelOK(k)
    BY <2>1, <1>a, <1>b DEF AnswersSound, ChannelOK
  <2>3. ASSUME NEW k \in Nodes, k # n PROVE RelayOK(k)
    <3>1. relay'[k] = relay[k]
      BY <1>12, <1>a, <2>3 DEF ClusterFanOutFails
    <3>2. QED BY <3>1, <1>a, <1>b DEF AnswersSound, RelayOK
  <2>4. RelayOK(n)
    <3>1. relay[n] \in Seq(Mutation) /\ relay[n] # << >> /\ Len(relay[n]) <= 1
      BY <1>12, <1>a DEF ClusterFanOutFails, StoreTyped
    <3>2. DOMAIN Tail(relay[n]) = {}
      BY <3>1
    <3>3. relay'[n] = Tail(relay[n])
      BY <1>12, <1>a DEF ClusterFanOutFails
    <3>4. QED BY <3>2, <3>3 DEF RelayOK
  <2>5. QED BY <2>1, <2>2, <2>3, <2>4, <1>c, <1>e
<1>13. ASSUME UNCHANGED <<record, answered, result, channel, relay>>,
              \A p \in Ops : stage'[p] = stage[p] \/ stage'[p] = "idle"
       PROVE  AnswersSound'
  <2>1. "idle" \notin Told
    BY DEF Told
  <2>2. QED BY <1>13, <2>1, <1>c, <1>d, <1>e
<1>14. ASSUME NEW o \in Ops, NEW d \in Conns, BroadcastFails(o, d) PROVE AnswersSound'
  <2>1. \A p \in Ops : stage'[p] = stage[p] \/ stage'[p] = "idle"
    BY <1>14, <1>a, LoopEndsStages DEF BroadcastFails
  <2>2. UNCHANGED <<record, answered, result, channel, relay>>
    BY <1>14 DEF BroadcastFails, redisVars, bookVars, nodeVars
  <2>3. QED BY <2>1, <2>2, <1>13
<1>15. ASSUME NEW o \in Ops, AnswerLost(o) \/ AnswerOverflows(o) PROVE AnswersSound'
  <2>1. \A p \in Ops : stage'[p] = stage[p] \/ stage'[p] = "idle"
    BY <1>15, <1>a, LoopEndsStages DEF AnswerLost, AnswerOverflows, To
  <2>2. UNCHANGED <<record, answered, result, channel, relay>>
    BY <1>15 DEF AnswerLost, AnswerOverflows, redisVars, bookVars, nodeVars
  <2>3. QED BY <2>1, <2>2, <1>13
<1>16. ASSUME NEW c \in Conns, Hangup(c) \/ ReadFails(c) \/ unregisterConn(c) PROVE AnswersSound'
  <2>1. \A p \in Ops : stage'[p] = stage[p] \/ stage'[p] = "idle"
    BY <1>16, <1>a, LoopEndsStages DEF Hangup, ReadFails, unregisterConn, workVars
  <2>2. UNCHANGED <<record, answered, result, channel, relay>>
    BY <1>16 DEF Hangup, ReadFails, unregisterConn, redisVars, bookVars, nodeVars, workVars
  <2>3. QED BY <2>1, <2>2, <1>13
<1>17. CASE UNCHANGED storageVars
  <2>1. UNCHANGED <<record, answered, result, stage, channel, relay>>
    BY <1>17 DEF storageVars, redisVars, nodeVars, workVars, bookVars
  <2>2. QED BY <2>1, <1>c, <1>d, <1>e
<1>18. QED
  BY <1>1, <1>2, <1>3, <1>4, <1>5, <1>6, <1>7, <1>8, <1>9, <1>10, <1>11, <1>12, <1>14, <1>15,
     <1>16, <1>17 DEF Next, Serve

\* A client with nothing pending displays the document it is given.
LEMMA RebasedEmpty == \A d : Rebased(d, << >>) = d
<1> TAKE d
<1> DEFINE U(f) == f = [i \in 0..0 |-> IF i = 0 THEN d ELSE ApplyOp(<< >>[i], f[i - 1])]
<1>1. U([i \in 0..0 |-> d])
  OBVIOUS
<1>2. \A f : U(f) => f[0] = d
  OBVIOUS
<1>3. Rebased(d, << >>) = (CHOOSE f : U(f))[0]
  BY DEF Rebased
<1> HIDE DEF U
<1>4. QED BY <1>1, <1>2, <1>3

\* The sequence never decreases and earlier documents stay.
LEMMA HistoryKept ==
  ASSUME StoreInv, [Next]_storageVars
  PROVE  /\ redisSeq \in Nat /\ redisSeq' \in Nat /\ redisSeq <= redisSeq'
         /\ \A i \in 0..redisSeq : History(committed')[i] = History(committed)[i]
<1>0. redisSeq \in Nat /\ Len(committed) = redisSeq
  BY DEF StoreInv, StoreTyped, StoreSound
<1>1. CASE \E o \in Ops : Exec(o) /\ ~LostRace(o)
  BY <1>0, <1>1, ExecCommits
<1>2. CASE ~ \E o \in Ops : Exec(o) /\ ~LostRace(o)
  BY <1>0, <1>2, OnlyExecCommits
<1>3. QED BY <1>1, <1>2

\* Only a client's or an administrator's call counts as sent and fixes what it expects.
LEMMA RequestVarsKept ==
  ASSUME [Next]_storageVars
  PROVE  \/ UNCHANGED <<sends, expected>>
         \/ \E c \in Conns, o \in Ops : Send(c, o)
         \/ \E o \in Ops : AdminSend(o) /\ UNCHANGED expected
<1>1. ASSUME NEW o \in Ops, Serve(o) \/ PublishFails(o) \/ AnswerOverflows(o)
      PROVE  UNCHANGED <<sends, expected>>
  BY <1>1 DEF Serve, Watch, Exec, RecordMutation, PublishEvent, PublishFails,
         BroadcastStorageFanout, Ack, Error, ReadRepair, Repair, Answer, AnswerLost,
         AnswerOverflows, reqVars
<1>2. ASSUME NEW n \in Nodes, HandleClusterEvent(n) \/ FanOutClusterEvent(n)
      PROVE  UNCHANGED <<sends, expected>>
  BY <1>2 DEF HandleClusterEvent, FanOutClusterEvent, reqVars
<1>3. ASSUME NEW o \in Ops, NEW d \in Conns, BroadcastFails(o, d) PROVE UNCHANGED <<sends, expected>>
  BY <1>3 DEF BroadcastFails
<1>4. ASSUME NEW n \in Nodes, NEW d \in Conns, ClusterFanOutFails(n, d)
      PROVE  UNCHANGED <<sends, expected>>
  BY <1>4 DEF ClusterFanOutFails, reqVars
<1>5. ASSUME NEW c \in Conns, Hangup(c) \/ ReadFails(c) \/ unregisterConn(c)
      PROVE  UNCHANGED <<sends, expected>>
  BY <1>5 DEF Hangup, ReadFails, unregisterConn, reqVars
<1>6. CASE UNCHANGED storageVars
  BY <1>6 DEF storageVars, reqVars
<1>7. ASSUME NEW o \in Ops, AdminSend(o) PROVE UNCHANGED expected
  BY <1>7 DEF AdminSend
<1>8. QED BY <1>1, <1>2, <1>3, <1>4, <1>5, <1>6, <1>7 DEF Next

\* A client that has not sent was silent before, and a request under way is
\* not one of a silent client.
LEMMA SilentKept ==
  ASSUME StoreInv, [Next]_storageVars
  PROVE  /\ \A c \in Conns : Silent(c)' => Silent(c)
         /\ \A o \in Ops : stage[o] # "idle" => ~Silent(Writer[o])
<1>0. sends \in [Ops -> Nat] /\ \A o \in Ops : sends[o] = 0 => stage[o] = "idle"
  BY DEF StoreInv, StoreTyped, StoreSound
<1>1. CASE UNCHANGED sends
  BY <1>0, <1>1 DEF Silent
<1>2. ASSUME NEW c \in Conns, NEW o \in Ops, Send(c, o) PROVE \A p \in Ops : sends'[p] = 0 => sends[p] = 0
  BY <1>0, <1>2 DEF Send
<1>3. ASSUME NEW o \in Ops, AdminSend(o) PROVE \A p \in Ops : sends'[p] = 0 => sends[p] = 0
  BY <1>0, <1>3 DEF AdminSend
<1>4. UNCHANGED sends \/ (\E c \in Conns, o \in Ops : Send(c, o)) \/ (\E o \in Ops : AdminSend(o))
  BY RequestVarsKept
<1>5. \A p \in Ops : sends'[p] = 0 => sends[p] = 0
  BY <1>1, <1>2, <1>3, <1>4
<1>6. QED BY <1>0, <1>5 DEF Silent

\* Every step keeps the copies at or behind Redis.
LEMMA CopiesBehindKept == StoreInv /\ [Next]_storageVars => CopiesBehind'
<1> SUFFICES ASSUME StoreInv, [Next]_storageVars PROVE CopiesBehind'
  OBVIOUS
<1>a. /\ CopiesBehind /\ AnswersSound /\ Len(committed) = redisSeq
      /\ clientSeq \in [Conns -> Nat] /\ engineSeq \in [Nodes -> Nat]
      /\ DOMAIN shown = Conns /\ DOMAIN pending = Conns
      /\ result \in [Ops -> Result] /\ stage \in [Ops -> Stages]
      /\ channel \in [Nodes -> Seq(Mutation)] /\ relay \in [Nodes -> Seq(Mutation)]
  BY DEF StoreInv, StoreTyped, StoreSound
<1>b. /\ redisSeq \in Nat /\ redisSeq' \in Nat /\ redisSeq <= redisSeq'
      /\ \A i \in 0..redisSeq : History(committed')[i] = History(committed)[i]
  BY HistoryKept
<1>s. /\ \A c \in Conns : Silent(c)' => Silent(c)
      /\ \A o \in Ops : stage[o] # "idle" => ~Silent(Writer[o])
  BY SilentKept
<1>i. /\ \A c \in Conns : clientSeq[c] \in 0..redisSeq /\ clientSeq[c] <= redisSeq'
      /\ \A n \in Nodes : engineSeq[n] <= redisSeq'
  <2>1. ASSUME NEW c \in Conns PROVE clientSeq[c] \in 0..redisSeq /\ clientSeq[c] <= redisSeq'
    <3>1. clientSeq[c] \in Nat /\ clientSeq[c] <= redisSeq
      BY <1>a DEF CopiesBehind
    <3>2. QED BY <3>1, <1>b
  <2>2. ASSUME NEW n \in Nodes PROVE engineSeq[n] <= redisSeq'
    <3>1. engineSeq[n] \in Nat /\ engineSeq[n] <= redisSeq
      BY <1>a DEF CopiesBehind
    <3>2. QED BY <3>1, <1>b
  <2>3. QED BY <2>1, <2>2
<1> DEFINE CopyOK(c) ==
      /\ clientSeq'[c] <= redisSeq'
      /\ Silent(c)' => pending'[c] = << >> /\ shown'[c] = History(committed')[clientSeq'[c]]
    EngineOK(n) == engineSeq'[n] <= redisSeq'
<1>c. (\A c \in Conns : CopyOK(c)) /\ (\A n \in Nodes : EngineOK(n)) => CopiesBehind'
  BY DEF CopiesBehind
<1>d. ASSUME UNCHANGED engineSeq PROVE \A n \in Nodes : EngineOK(n)
  BY <1>a, <1>b, <1>d DEF CopiesBehind
<1>e. ASSUME NEW c \in Conns, clientSeq'[c] = clientSeq[c],
             Silent(c) => shown'[c] = shown[c] /\ pending'[c] = pending[c]
      PROVE  CopyOK(c)
  <2>1. clientSeq'[c] <= redisSeq'
    BY <1>e, <1>i
  <2>2. ASSUME Silent(c)' PROVE pending'[c] = << >> /\ shown'[c] = History(committed')[clientSeq'[c]]
    <3>1. Silent(c) /\ pending[c] = << >> /\ shown[c] = History(committed)[clientSeq[c]]
      BY <1>a, <1>s, <2>2 DEF CopiesBehind
    <3>2. History(committed')[clientSeq[c]] = History(committed)[clientSeq[c]]
      BY <1>b, <1>i
    <3>3. QED BY <1>e, <3>1, <3>2
  <2>3. QED BY <2>1, <2>2
<1>f. ASSUME NEW o, NEW s, NEW d, Landed(committed, o, s, d)
      PROVE  s \in Nat /\ s <= redisSeq /\ d = History(committed')[s] /\ s <= redisSeq'
  BY <1>a, <1>b, <1>f DEF Landed
<1>g. ASSUME NEW o \in Ops, NEW c \in Conns, c # Writer[o] \/ stage[o] # "idle",
             \A b \in Conns : b # Writer[o] =>
               clientSeq'[b] = clientSeq[b] /\ shown'[b] = shown[b] /\ pending'[b] = pending[b],
             Writer[o] = c => clientSeq'[c] <= redisSeq'
      PROVE  CopyOK(c)
  <2>1. CASE c = Writer[o]
    <3>1. ~Silent(c)'
      BY <1>g, <1>s, <2>1
    <3>2. QED BY <1>g, <2>1, <3>1
  <2>2. CASE c # Writer[o]
    BY <1>g, <1>e, <2>2
  <2>3. QED BY <2>1, <2>2
<1>u. ASSUME NEW targets \in SUBSET Conns, NEW o, NEW s, NEW d, Landed(committed, o, s, d),
             Update(targets, s, d), NEW c \in Conns
      PROVE  CopyOK(c)
  <2>0. s \in Nat /\ s <= redisSeq' /\ d = History(committed')[s]
    BY <1>f, <1>u
  <2>1. CASE c \in targets \cap Open /\ s > clientSeq[c]
    <3>1. clientSeq'[c] = s
      BY <1>u, <2>1 DEF Update
    <3>2. ASSUME Silent(c)' PROVE pending'[c] = << >> /\ shown'[c] = d
      <4>1. pending[c] = << >>
        BY <3>2, <1>s, <1>a DEF CopiesBehind
      <4>2. ~RebaseFails(d, pending[c]) /\ Rebased(d, pending[c]) = d
        BY <4>1, RebasedEmpty DEF RebaseFails
      <4>3. QED BY <1>u, <2>1, <4>1, <4>2 DEF Update
    <3>3. QED BY <2>0, <3>1, <3>2
  <2>2. CASE ~(c \in targets \cap Open /\ s > clientSeq[c])
    <3>1. clientSeq'[c] = clientSeq[c] /\ shown'[c] = shown[c] /\ pending'[c] = pending[c]
      BY <1>u, <2>2 DEF Update
    <3>2. QED BY <3>1, <1>e
  <2>3. QED BY <2>1, <2>2
<1>v. ASSUME NEW targets \in SUBSET Conns, NEW o, NEW s, NEW d, NEW b, Landed(committed, o, s, d),
             EndedAt(b, targets, s, d), NEW c \in Conns
      PROVE  CopyOK(c)
  <2>1. PICK reached \in SUBSET ((targets \cap Open) \ {b}) : Update(reached, s, d)
    BY <1>v DEF EndedAt
  <2>2. reached \in SUBSET Conns
    BY <1>v
  <2>3. QED BY <1>v, <1>u, <2>1, <2>2
<1> HIDE DEF CopyOK, EngineOK
<1>1. ASSUME NEW c \in Conns, NEW o \in Ops, Send(c, o) PROVE CopiesBehind'
  <2>1. UNCHANGED <<clientSeq, engineSeq>>
    BY <1>1 DEF Send, nodeVars
  <2>2. ~Silent(c)'
    <3>1. sends \in [Ops -> Nat]
      BY DEF StoreInv, StoreTyped
    <3>2. QED BY <1>1, <3>1 DEF Send, Silent
  <2>3. \A b \in Conns : b # c => shown'[b] = shown[b] /\ pending'[b] = pending[b]
    BY <1>1, <1>a DEF Send
  <2>4. CopyOK(c)
    BY <2>1, <2>2, <1>a, <1>b DEF CopyOK, CopiesBehind
  <2>5. QED BY <2>1, <2>3, <2>4, <1>c, <1>d, <1>e
<1>2. CASE UNCHANGED <<clientSeq, shown, pending, engineSeq>>
  BY <1>2, <1>c, <1>d, <1>e
<1>3. ASSUME NEW o \in Ops, RecordMutation(o) PROVE CopiesBehind'
  <2>1. UNCHANGED <<clientSeq, shown, pending>>
    BY <1>3 DEF RecordMutation, clientVars
  <2>2. result[o].seq \in Nat /\ result[o].seq <= redisSeq'
    BY <1>3, <1>a, <1>f DEF RecordMutation, Running, AnswersSound, Told
  <2>3. \A n \in Nodes : engineSeq'[n] = engineSeq[n] \/ engineSeq'[n] = result[o].seq
    BY <1>3, <1>a DEF RecordMutation
  <2>4. \A n \in Nodes : EngineOK(n)
    BY <2>2, <2>3, <1>i DEF EngineOK
  <2>5. QED BY <2>1, <2>4, <1>c, <1>e
<1>4. ASSUME NEW o \in Ops, BroadcastStorageFanout(o) PROVE CopiesBehind'
  <2>1. Landed(committed, o, result[o].seq, result[o].doc)
    BY <1>4, <1>a DEF BroadcastStorageFanout, Running, AnswersSound, Told
  <2>2. UNCHANGED engineSeq
    BY <1>4 DEF BroadcastStorageFanout, nodeVars
  <2>3. LocalConns(NodeOf[Writer[o]]) \ {Writer[o]} \in SUBSET Conns
    BY DEF LocalConns
  <2>4. \A c \in Conns : CopyOK(c)
    BY <1>4, <2>1, <2>3, <1>u DEF BroadcastStorageFanout
  <2>5. QED BY <2>2, <2>4, <1>c, <1>d
<1>5. ASSUME NEW o \in Ops, Ack(o) PROVE CopiesBehind'
  <2>1. stage[o] = "ack" /\ UNCHANGED engineSeq
    BY <1>5 DEF Ack, Running, Answer, nodeVars
  <2>2. result[o].seq \in Nat /\ result[o].seq <= redisSeq'
    BY <2>1, <1>a, <1>f DEF AnswersSound, Told
  <2>3. \A b \in Conns : b # Writer[o] =>
          clientSeq'[b] = clientSeq[b] /\ shown'[b] = shown[b] /\ pending'[b] = pending[b]
    BY <1>5, <1>a DEF Ack, Authoritative, Display
  <2>4. ASSUME NEW c \in Conns, Writer[o] = c PROVE clientSeq'[c] <= redisSeq'
    BY <1>5, <1>a, <1>b, <2>2, <2>4 DEF Ack, Authoritative, CopiesBehind
  <2>5. QED BY <2>1, <2>3, <2>4, <1>c, <1>d, <1>g
<1>6. ASSUME NEW o \in Ops, Error(o) PROVE CopiesBehind'
  <2>1. stage[o] = "error" /\ UNCHANGED <<engineSeq, clientSeq>>
    BY <1>6 DEF Error, Running, Answer, Rollback, nodeVars
  <2>2. \A b \in Conns : b # Writer[o] => shown'[b] = shown[b] /\ pending'[b] = pending[b]
    BY <1>6, <1>a DEF Error, Rollback, Display
  <2>3. \A c \in Conns : clientSeq'[c] <= redisSeq'
    BY <2>1, <1>a, <1>b DEF CopiesBehind
  <2>4. QED BY <2>1, <2>2, <2>3, <1>c, <1>d, <1>g
<1>7. ASSUME NEW o \in Ops, Repair(o) PROVE CopiesBehind'
  <2>1. stage[o] = "repair" /\ UNCHANGED engineSeq
    BY <1>7 DEF Repair, Running, Answer, nodeVars
  <2>2. \A b \in Conns : b # Writer[o] =>
          clientSeq'[b] = clientSeq[b] /\ shown'[b] = shown[b] /\ pending'[b] = pending[b]
    BY <1>7, <1>a DEF Repair, Rollback, Display
  <2>3. \A c \in Conns : clientSeq'[c] = clientSeq[c] \/ clientSeq'[c] = redisSeq
    BY <1>7, <1>a DEF Repair, Rollback
  <2>4. \A c \in Conns : clientSeq'[c] <= redisSeq'
    BY <2>3, <1>i, <1>b
  <2>5. QED BY <2>1, <2>2, <2>4, <1>c, <1>d, <1>g
<1>8. ASSUME NEW n \in Nodes, HandleClusterEvent(n) PROVE CopiesBehind'
  <2>1. UNCHANGED <<clientSeq, shown, pending>>
    BY <1>8 DEF HandleClusterEvent, clientVars
  <2>2. 1 \in DOMAIN channel[n] /\ Head(channel[n]) = channel[n][1]
    BY <1>8, <1>a DEF HandleClusterEvent
  <2>3. Head(channel[n]).seq \in Nat /\ Head(channel[n]).seq <= redisSeq'
    BY <2>2, <1>a, <1>f DEF AnswersSound
  <2>4. \A k \in Nodes : engineSeq'[k] = engineSeq[k] \/ engineSeq'[k] = Head(channel[n]).seq
    BY <1>8, <1>a DEF HandleClusterEvent
  <2>5. \A k \in Nodes : EngineOK(k)
    BY <2>3, <2>4, <1>i DEF EngineOK
  <2>6. QED BY <2>1, <2>5, <1>c, <1>e
<1>9. ASSUME NEW n \in Nodes, FanOutClusterEvent(n) PROVE CopiesBehind'
  <2>1. 1 \in DOMAIN relay[n] /\ UNCHANGED engineSeq
    BY <1>9, <1>a DEF FanOutClusterEvent
  <2>2. Landed(committed, relay[n][1].op, relay[n][1].seq, relay[n][1].doc)
    BY <2>1, <1>a DEF AnswersSound
  <2>3. LocalConns(n) \in SUBSET Conns
    BY DEF LocalConns
  <2>4. \A c \in Conns : CopyOK(c)
    BY <1>9, <2>2, <2>3, <1>u DEF FanOutClusterEvent
  <2>5. QED BY <2>1, <2>4, <1>c, <1>d
<1>10. ASSUME NEW o \in Ops,
              AdminSend(o) \/ Watch(o) \/ Exec(o) \/ PublishEvent(o) \/ PublishFails(o) \/ ReadRepair(o)
       PROVE  UNCHANGED <<clientSeq, shown, pending, engineSeq>>
  BY <1>10 DEF AdminSend, Watch, Exec, PublishEvent, PublishFails, ReadRepair, clientVars, nodeVars
<1>11. CASE UNCHANGED storageVars
  BY <1>11, <1>2 DEF storageVars, clientVars, nodeVars
<1>12. ASSUME NEW o \in Ops, NEW d \in Conns, BroadcastFails(o, d) PROVE CopiesBehind'
  <2>1. Landed(committed, o, result[o].seq, result[o].doc)
    BY <1>12, <1>a DEF BroadcastFails, Running, AnswersSound, Told
  <2>2. UNCHANGED engineSeq
    BY <1>12 DEF BroadcastFails, nodeVars
  <2>3. LocalConns(NodeOf[Writer[o]]) \ {Writer[o]} \in SUBSET Conns
    BY DEF LocalConns
  <2>4. EndedAt(d, LocalConns(NodeOf[Writer[o]]) \ {Writer[o]}, result[o].seq, result[o].doc)
    BY <1>12 DEF BroadcastFails
  <2>5. \A c \in Conns : CopyOK(c)
    BY <2>1, <2>3, <2>4, <1>v
  <2>6. QED BY <2>2, <2>5, <1>c, <1>d
<1>13. ASSUME NEW n \in Nodes, NEW d \in Conns, ClusterFanOutFails(n, d) PROVE CopiesBehind'
  <2>1. 1 \in DOMAIN relay[n] /\ UNCHANGED engineSeq
    BY <1>13, <1>a DEF ClusterFanOutFails
  <2>2. Landed(committed, relay[n][1].op, relay[n][1].seq, relay[n][1].doc)
    BY <2>1, <1>a DEF AnswersSound
  <2>3. LocalConns(n) \in SUBSET Conns
    BY DEF LocalConns
  <2>4. EndedAt(d, LocalConns(n), relay[n][1].seq, relay[n][1].doc)
    BY <1>13 DEF ClusterFanOutFails
  <2>5. \A c \in Conns : CopyOK(c)
    BY <2>2, <2>3, <2>4, <1>v
  <2>6. QED BY <2>1, <2>5, <1>c, <1>d
<1>14. ASSUME NEW o \in Ops, AnswerLost(o) \/ AnswerOverflows(o)
       PROVE  UNCHANGED <<clientSeq, shown, pending, engineSeq>>
  BY <1>14 DEF AnswerLost, AnswerOverflows, clientVars, nodeVars
<1>15. ASSUME NEW c \in Conns, Hangup(c) \/ ReadFails(c) \/ unregisterConn(c)
       PROVE  UNCHANGED <<clientSeq, shown, pending, engineSeq>>
  BY <1>15 DEF Hangup, ReadFails, unregisterConn, clientVars, nodeVars
<1>16. QED
  BY <1>1, <1>2, <1>3, <1>4, <1>5, <1>6, <1>7, <1>8, <1>9, <1>10, <1>11, <1>12, <1>13, <1>14, <1>15
     DEF Next, Serve

\* No drop of an old event, late fan-out or false conflict loses the latest
\* commit on its way to a client.
LEMMA LatestReachesKept == StoreInv /\ [Next]_storageVars => LatestReaches'
<1> SUFFICES ASSUME StoreInv, [Next]_storageVars PROVE LatestReaches'
  OBVIOUS
<1>a. /\ LatestReaches /\ CopiesBehind /\ AnswersSound /\ Len(committed) = redisSeq
      /\ redisSeq \in Nat
      /\ clientSeq \in [Conns -> Nat] /\ engineSeq \in [Nodes -> Nat]
      /\ result \in [Ops -> Result] /\ stage \in [Ops -> Stages]
      /\ channel \in [Nodes -> Seq(Mutation)] /\ relay \in [Nodes -> Seq(Mutation)]
      /\ \A c \in Conns : NodeOf[c] \in Nodes /\ c # Admin
      /\ \A o \in Ops : Writer[o] # Admin => Writer[o] \in Conns
  BY ClusterAssumption DEF StoreInv, StoreTyped, StoreSound
\* In flight and at the clients nothing is newer than the latest commit.
<1>b. /\ \A n \in Nodes : \A i \in DOMAIN channel[n] :
            channel[n][i].seq \in Nat /\ channel[n][i].seq <= redisSeq
      /\ \A o \in Ops : stage[o] \in Told => result[o].seq \in 1..redisSeq
      /\ \A n \in Nodes : engineSeq[n] <= redisSeq
      /\ \A c \in Conns : clientSeq[c] <= redisSeq
  BY <1>a DEF AnswersSound, Landed, CopiesBehind
<1>l. \A o, p \in Ops : Latest(o) /\ Latest(p) /\ stage[o] \in Told /\ stage[p] \in Told => o = p
  BY <1>a DEF Latest, AnswersSound, Landed
<1> DEFINE Reached(c) == unpublished' \/ clientSeq'[c] = redisSeq' \/ Coming(c)' \/ Excused(c)'
<1>c. ASSUME Unannounced',
             \A o \in Ops : stage'[o] \in {"record", "broadcast"} => Writer[o] # Admin,
             \A c \in Conns : Reached(c)
      PROVE  LatestReaches'
  BY <1>c DEF LatestReaches
<1> HIDE DEF Reached
<1>1. ASSUME NEW o \in Ops, Exec(o), ~LostRace(o) PROVE LatestReaches'
  <2>1. /\ redisSeq' = redisSeq + 1 /\ result[o].seq = redisSeq + 1
    BY <1>1, ExecCommits
  <2>2. /\ UNCHANGED <<channel, engineSeq, result>>
        /\ stage' = [stage EXCEPT ![o] = IF Writer[o] = Admin THEN "publish" ELSE "record"]
    BY <1>1 DEF Exec, To, nodeVars
  <2>3. Unannounced'
    <3>1. ASSUME NEW n \in Nodes
          PROVE  /\ engineSeq[n] < redisSeq + 1
                 /\ \A i \in DOMAIN channel[n] : channel[n][i].seq < redisSeq + 1
      <4>1. engineSeq[n] \in Nat /\ engineSeq[n] <= redisSeq
        BY <1>a, <1>b
      <4>2. QED BY <4>1, <1>a, <1>b
    <3>2. QED BY <2>1, <2>2, <3>1 DEF Unannounced
  <2>4. \A p \in Ops : stage'[p] \in {"record", "broadcast"} => Writer[p] # Admin
    BY <2>2, <1>a DEF LatestReaches
  <2>5. stage'[o] \in {"record", "publish"} /\ Latest(o)'
    BY <2>1, <2>2, <1>a DEF Latest
  <2>6. \A c \in Conns : Reached(c)
    BY <2>5 DEF Reached, Coming
  <2>7. QED BY <2>3, <2>4, <2>6, <1>c
<1>2. ASSUME ~ \E o \in Ops : Exec(o) /\ ~LostRace(o) PROVE LatestReaches'
  <2>1. redisSeq' = redisSeq
    BY <1>2, OnlyExecCommits
  <2>2. \A c \in Conns : clientSeq'[c] <= redisSeq
    BY CopiesBehindKept, <2>1 DEF CopiesBehind
  <2>3. clientSeq' \in [Conns -> Nat] /\ engineSeq' \in [Nodes -> Nat]
    BY StoreTypedKept DEF StoreTyped, StoreInv
  <2>x. \A c \in Conns : Excused(c) => Excused(c)'
    BY <2>1, SocketsKept DEF StoreInv, Excused
  \* Steps that neither begin, carry on nor end the announcement of a commit.
  <2>4. ASSUME UNCHANGED <<channel, relay, engineSeq, unpublished>>,
               \A p \in Ops : \/ stage'[p] = stage[p] /\ result'[p] = result[p]
                              \/ /\ stage[p] \notin Told
                                 /\ stage'[p] \notin {"record", "publish", "broadcast"},
               \A c \in Conns : clientSeq'[c] = clientSeq[c] \/ clientSeq'[c] = redisSeq
        PROVE  LatestReaches'
    <3>1. Unannounced'
      BY <2>1, <2>4, <1>a DEF Unannounced, Latest, LatestReaches
    <3>2. \A p \in Ops : stage'[p] \in {"record", "broadcast"} => Writer[p] # Admin
      BY <2>4, <1>a DEF LatestReaches
    <3>3. \A c \in Conns : Coming(c) => Coming(c)'
      BY <2>1, <2>4 DEF Coming, Latest, Told
    <3>4. \A c \in Conns : Reached(c)
      BY <2>1, <2>4, <2>x, <3>3, <1>a DEF LatestReaches, Reached
    <3>5. QED BY <3>1, <3>2, <3>4, <1>c
  <2>5. ASSUME NEW c \in Conns, NEW o \in Ops, Send(c, o) PROVE LatestReaches'
    <3>1. /\ UNCHANGED <<channel, relay, engineSeq, unpublished, clientSeq, result>>
          /\ \A p \in Ops : p # o => stage'[p] = stage[p]
          /\ stage[o] = "idle" /\ stage'[o] = "queued"
      BY <2>5, <1>a DEF Send, nodeVars
    <3>2. QED BY <3>1, <2>4 DEF Told
  <2>6. ASSUME NEW o \in Ops, AdminSend(o) PROVE LatestReaches'
    <3>1. sends[o] = 0 => stage[o] = "idle"
      BY DEF StoreInv, StoreSound
    <3>2. QED BY <2>4, <2>6, <3>1, <1>a DEF AdminSend, nodeVars, bookVars, clientVars, Told
  <2>7. ASSUME NEW o \in Ops, Watch(o) PROVE LatestReaches'
    <3>1. /\ UNCHANGED <<channel, relay, engineSeq, unpublished, clientSeq>>
          /\ \A p \in Ops : p # o => stage'[p] = stage[p] /\ result'[p] = result[p]
          /\ stage[o] \notin Told /\ stage'[o] \notin {"record", "publish", "broadcast"}
      BY <2>7, <1>a DEF Watch, Running, To, nodeVars, bookVars, clientVars, Told
    <3>2. QED BY <3>1, <2>4
  <2>8. ASSUME NEW o \in Ops, Exec(o) PROVE LatestReaches'
    <3>1. /\ UNCHANGED <<channel, relay, engineSeq, unpublished, clientSeq, result>>
          /\ \A p \in Ops : p # o => stage'[p] = stage[p]
          /\ stage[o] \notin Told /\ stage'[o] = "error"
      BY <2>8, <1>2, <1>a DEF Exec, Running, To, nodeVars, bookVars, clientVars, Told
    <3>2. QED BY <3>1, <2>4
  <2>9. ASSUME NEW o \in Ops, ReadRepair(o) PROVE LatestReaches'
    <3>1. /\ UNCHANGED <<channel, relay, engineSeq, unpublished, clientSeq>>
          /\ \A p \in Ops : p # o => stage'[p] = stage[p] /\ result'[p] = result[p]
          /\ stage[o] \notin Told /\ stage'[o] = "repair"
      BY <2>9, <1>a DEF ReadRepair, Running, To, nodeVars, bookVars, clientVars, Told
    <3>2. QED BY <3>1, <2>4
  <2>10. ASSUME NEW o \in Ops, Error(o) \/ Repair(o) PROVE LatestReaches'
    <3>1. /\ UNCHANGED <<channel, relay, engineSeq, unpublished, result>>
          /\ \A p \in Ops : p # o => stage'[p] = stage[p]
          /\ stage[o] \notin Told /\ stage'[o] = "idle"
      BY <2>10, <1>a DEF Error, Repair, Answer, Running, To, nodeVars, Told
    <3>2. \A c \in Conns : clientSeq'[c] = clientSeq[c] \/ clientSeq'[c] = redisSeq
      BY <2>10, <1>a DEF Error, Repair, Rollback
    <3>3. QED BY <3>1, <3>2, <2>4
  <2>11. CASE UNCHANGED storageVars
    BY <2>4, <2>11 DEF storageVars, nodeVars, bookVars, clientVars, workVars
  <2>12. ASSUME NEW o \in Ops, RecordMutation(o) PROVE LatestReaches'
    <3> DEFINE n == NodeOf[Writer[o]]
    <3>1. /\ UNCHANGED <<channel, relay, clientSeq, unpublished, result>>
          /\ \A p \in Ops : p # o => stage'[p] = stage[p]
          /\ stage[o] = "record" /\ o \in Ops
      BY <2>12, <1>a DEF RecordMutation, Running, To, clientVars, bookVars
    <3>2. Writer[o] # Admin /\ n \in Nodes /\ result[o].seq \in 1..redisSeq
      BY <3>1, <1>a, <1>b DEF LatestReaches, Told
    <3>3. \/ /\ engineSeq' = [engineSeq EXCEPT ![n] = result[o].seq]
             /\ stage'[o] = "publish"
          \/ /\ result[o].seq <= engineSeq[n] /\ engineSeq' = engineSeq
             /\ stage'[o] = "conflict"
      BY <2>12, <1>a DEF RecordMutation, To
    <3>4. \A p \in Ops : stage'[p] \in {"record", "broadcast"} => Writer[p] # Admin
      BY <3>1, <3>3, <1>a DEF LatestReaches
    <3> HIDE DEF n
    <3>5. CASE Latest(o)
      <4>1. /\ \A k \in Nodes : engineSeq[k] < redisSeq
            /\ \A k \in Nodes : \A i \in DOMAIN channel[k] : channel[k][i].seq < redisSeq
        BY <3>1, <3>5, <1>a DEF LatestReaches, Unannounced
      <4>2. /\ engineSeq' = [engineSeq EXCEPT ![n] = redisSeq] /\ stage'[o] = "publish"
        <5>1. engineSeq[n] \in Nat /\ engineSeq[n] < redisSeq /\ result[o].seq = redisSeq
          BY <3>2, <3>5, <4>1, <1>a DEF Latest
        <5>2. QED BY <3>3, <5>1, <1>a
      <4>3. ASSUME NEW p \in Ops, Latest(p)', stage'[p] \in {"record", "publish"} PROVE p = o
        BY <3>1, <3>5, <4>3, <2>1, <1>l DEF Latest, Told
      <4>4. Unannounced'
        BY <2>1, <3>1, <3>2, <4>1, <4>2, <4>3, <1>a DEF Unannounced, n
      <4>5. Latest(o)'
        BY <2>1, <3>1, <3>5 DEF Latest
      <4>6. \A c \in Conns : Reached(c)
        BY <4>2, <4>5 DEF Reached, Coming
      <4>7. QED BY <3>4, <4>4, <4>6, <1>c
    <3>6. CASE ~Latest(o)
      <4>1. result[o].seq < redisSeq
        BY <3>2, <3>6, <1>a DEF Latest
      <4>2. \A k \in Nodes : engineSeq[k] < redisSeq => engineSeq'[k] < redisSeq
        BY <3>3, <4>1, <1>a
      <4>3. ~Latest(o)' /\ \A p \in Ops : Latest(p)' <=> Latest(p)
        BY <2>1, <3>1, <3>6 DEF Latest
      <4>4. Unannounced'
        BY <2>1, <3>1, <4>2, <4>3, <1>a DEF Unannounced, LatestReaches
      <4>5. \A c \in Conns : Coming(c) => Coming(c)'
        BY <2>1, <3>1, <4>2, <4>3, <1>a DEF Coming
      <4>6. \A c \in Conns : Reached(c)
        BY <2>1, <2>x, <3>1, <4>5, <1>a DEF LatestReaches, Reached
      <4>7. QED BY <3>4, <4>4, <4>6, <1>c
    <3>7. QED BY <3>5, <3>6
  <2>13. ASSUME NEW o \in Ops, PublishEvent(o) PROVE LatestReaches'
    <3> DEFINE m == [op |-> o, seq |-> result[o].seq, doc |-> result[o].doc]
               local(n) == Writer[o] # Admin /\ n = NodeOf[Writer[o]]
    <3>1. /\ UNCHANGED <<engineSeq, relay, clientSeq, unpublished, result>>
          /\ \A p \in Ops : p # o => stage'[p] = stage[p]
          /\ stage[o] = "publish"
          /\ stage'[o] = IF Writer[o] = Admin THEN "idle" ELSE "broadcast"
      BY <2>13, <1>a DEF PublishEvent, Running, To, clientVars, bookVars
    <3>2. result[o].seq \in 1..redisSeq /\ m.seq = result[o].seq /\ m \in Mutation
      BY <3>1, <1>a, <1>b, ResultFields DEF Told, Mutation
    <3>3. \A n \in Nodes : channel'[n] = IF local(n) THEN channel[n] ELSE Append(channel[n], m)
      BY <2>13 DEF PublishEvent
    <3>4. \A p \in Ops : stage'[p] \in {"record", "broadcast"} => Writer[p] # Admin
      BY <3>1, <1>a DEF LatestReaches
    <3> HIDE DEF m
    <3>5. ASSUME NEW n \in Nodes
          PROVE  /\ \A i \in DOMAIN channel[n] :
                      i \in DOMAIN Append(channel[n], m) /\ Append(channel[n], m)[i] = channel[n][i]
                 /\ \A i \in DOMAIN Append(channel[n], m) :
                      \/ i \in DOMAIN channel[n] /\ Append(channel[n], m)[i] = channel[n][i]
                      \/ Append(channel[n], m)[i] = m
                 /\ \E i \in DOMAIN Append(channel[n], m) : Append(channel[n], m)[i] = m
      <4>1. channel[n] \in Seq(Mutation)
        BY <1>a
      <4>2. DOMAIN Append(channel[n], m) = 1..Len(channel[n]) + 1 /\ DOMAIN channel[n] = 1..Len(channel[n])
        BY <4>1, <3>2
      <4>3. Append(channel[n], m)[Len(channel[n]) + 1] = m /\ Len(channel[n]) \in Nat
        BY <4>1, <3>2
      <4>4. QED BY <4>1, <4>2, <4>3, <3>2
    <3> HIDE DEF local
    <3>6. \A n \in Nodes : \A i \in DOMAIN channel[n] :
            i \in DOMAIN channel'[n] /\ channel'[n][i] = channel[n][i]
      BY <3>3, <3>5
    <3>7. CASE Latest(o)
      <4>1. ASSUME NEW p \in Ops, Latest(p)' PROVE stage'[p] \notin {"record", "publish"}
        <5>1. Latest(p)
          BY <2>1, <3>1, <4>1 DEF Latest
        <5>2. CASE p = o
          BY <3>1, <5>2
        <5>3. CASE p # o
          BY <3>1, <3>7, <5>1, <5>3, <1>l DEF Told
        <5>4. QED BY <5>2, <5>3
      <4>2. Unannounced'
        BY <4>1 DEF Unannounced
      <4>3. \A n \in Nodes : ~local(n) => engineSeq[n] < redisSeq
        BY <3>1, <3>7, <1>a DEF LatestReaches, Unannounced, local
      <4>4. ASSUME NEW c \in Conns PROVE Coming(c)'
        <5>1. CASE local(NodeOf[c])
          BY <2>1, <3>1, <3>7, <5>1 DEF Coming, Latest, local
        <5>2. CASE ~local(NodeOf[c])
          <6>1. /\ NodeOf[c] \in Nodes
                /\ \E i \in DOMAIN channel'[NodeOf[c]] : channel'[NodeOf[c]][i].seq = redisSeq
            <7>1. NodeOf[c] \in Nodes /\ m.seq = redisSeq
              BY <3>2, <3>7, <1>a DEF Latest
            <7>2. channel'[NodeOf[c]] = Append(channel[NodeOf[c]], m)
              BY <3>3, <5>2, <7>1
            <7>3. \E i \in DOMAIN Append(channel[NodeOf[c]], m) : Append(channel[NodeOf[c]], m)[i] = m
              BY <3>5, <7>1
            <7>4. QED BY <7>1, <7>2, <7>3
          <6>2. QED BY <2>1, <3>1, <4>3, <5>2, <6>1 DEF Coming
        <5>3. QED BY <5>1, <5>2
      <4>5. QED BY <3>4, <4>2, <4>4, <1>c DEF Reached
    <3>8. CASE ~Latest(o)
      <4>1. m.seq < redisSeq
        BY <3>2, <3>8, <1>a DEF Latest
      <4>2. \A p \in Ops : Latest(p)' => Latest(p) /\ p # o
        BY <2>1, <3>1, <3>8 DEF Latest
      <4>3. Unannounced'
        <5> SUFFICES ASSUME NEW p \in Ops, Latest(p), p # o, stage[p] \in {"record", "publish"},
                            NEW n \in Nodes
                     PROVE  /\ \A i \in DOMAIN channel'[n] : channel'[n][i].seq < redisSeq
                            /\ \/ engineSeq[n] < redisSeq
                               \/ stage[p] = "publish" /\ Writer[p] # Admin /\ n = NodeOf[Writer[p]]
          BY <2>1, <3>1, <4>2 DEF Unannounced
        <5>1. /\ \A i \in DOMAIN channel[n] : channel[n][i].seq < redisSeq
              /\ \/ engineSeq[n] < redisSeq
                 \/ stage[p] = "publish" /\ Writer[p] # Admin /\ n = NodeOf[Writer[p]]
          BY <1>a DEF Unannounced, LatestReaches
        <5>2. channel'[n] = channel[n] \/ channel'[n] = Append(channel[n], m)
          BY <3>3
        <5>3. \A i \in DOMAIN Append(channel[n], m) : Append(channel[n], m)[i].seq < redisSeq
          BY <3>5, <4>1, <5>1
        <5>4. QED BY <5>1, <5>2, <5>3
      <4>4. ASSUME NEW c \in Conns, Coming(c) PROVE Coming(c)'
        <5>1. NodeOf[c] \in Nodes /\ \A p \in Ops : Latest(p) => Latest(p)' /\ p # o
          BY <2>1, <3>1, <3>8, <1>a DEF Latest
        <5>2. QED BY <2>1, <3>1, <3>6, <4>4, <5>1 DEF Coming
      <4>5. \A c \in Conns : Reached(c)
        BY <2>1, <2>x, <3>1, <4>4, <1>a DEF LatestReaches, Reached
      <4>6. QED BY <3>4, <4>3, <4>5, <1>c
    <3>9. QED BY <3>7, <3>8
  <2>14. ASSUME NEW o \in Ops, PublishFails(o) PROVE LatestReaches'
    <3>1. /\ UNCHANGED <<channel, relay, engineSeq, result>> /\ unpublished' = TRUE
          /\ \A p \in Ops : stage'[p] = stage[p] \/ stage'[p] = "error"
      BY <2>14, <1>a DEF PublishFails, To, nodeVars
    <3>2. Unannounced'
      BY <2>1, <3>1, <1>a DEF LatestReaches, Unannounced, Latest
    <3>3. QED BY <3>1, <3>2, <1>a, <1>c DEF LatestReaches, Reached
  <2>15. ASSUME NEW o \in Ops, BroadcastStorageFanout(o) PROVE LatestReaches'
    <3>1. /\ UNCHANGED <<channel, relay, engineSeq, unpublished, result>>
          /\ \A p \in Ops : p # o => stage'[p] = stage[p]
          /\ stage[o] = "broadcast" /\ stage'[o] = "ack"
      BY <2>15, <1>a DEF BroadcastStorageFanout, Running, To, nodeVars, bookVars
    <3>2. result[o].seq \in 1..redisSeq /\ Writer[o] # Admin
      BY <3>1, <1>a, <1>b DEF LatestReaches, Told
    <3>3. \A c \in Conns : clientSeq'[c] =
            IF NodeOf[c] = NodeOf[Writer[o]] /\ c # Writer[o] /\ socket[c] = "open"
                 /\ result[o].seq > clientSeq[c]
            THEN result[o].seq ELSE clientSeq[c]
      BY <2>15 DEF BroadcastStorageFanout, Update, LocalConns, Open
    <3>4. Unannounced'
      BY <2>1, <3>1, <1>a DEF LatestReaches, Unannounced, Latest
    <3>5. ASSUME NEW c \in Conns PROVE Reached(c)
      <4>0. clientSeq[c] \in Nat /\ clientSeq[c] <= redisSeq
        BY <1>a, <1>b
      <4>1. CASE clientSeq[c] = redisSeq
        BY <2>1, <3>2, <3>3, <4>1, <1>a DEF Reached
      <4>7. CASE Excused(c)
        BY <2>x, <4>7 DEF Reached
      <4>2. CASE Latest(o) /\ NodeOf[c] = NodeOf[Writer[o]] /\ c # Writer[o] /\ ~Excused(c)
        BY <2>1, <3>3, <4>0, <4>2, <1>a DEF Reached, Latest, Excused
      <4>3. CASE Latest(o) /\ c = Writer[o]
        <5>1. Latest(o)'
          BY <2>1, <3>1, <4>3 DEF Latest
        <5>2. QED BY <3>1, <4>3, <5>1 DEF Coming, Reached
      <4>4. CASE Coming(c) /\ ~(Latest(o) /\ NodeOf[c] = NodeOf[Writer[o]])
        <5>1. \A p \in Ops : Latest(p)' <=> Latest(p)
          BY <2>1, <3>1 DEF Latest
        <5>2. Coming(c)'
          BY <2>1, <3>1, <4>4, <5>1 DEF Coming
        <5>3. QED BY <5>2 DEF Reached
      <4>5. CASE unpublished
        BY <3>1, <4>5 DEF Reached
      <4>6. QED BY <4>1, <4>2, <4>3, <4>4, <4>5, <4>7, <1>a DEF LatestReaches
    <3>6. QED BY <3>1, <3>4, <3>5, <1>a, <1>c DEF LatestReaches
  <2>16. ASSUME NEW o \in Ops, Ack(o) PROVE LatestReaches'
    <3>1. /\ UNCHANGED <<channel, relay, engineSeq, unpublished, result>>
          /\ \A p \in Ops : p # o => stage'[p] = stage[p]
          /\ stage[o] = "ack" /\ stage'[o] = "idle"
      BY <2>16, <1>a DEF Ack, Answer, Running, To, nodeVars
    <3>2. result[o].seq \in 1..redisSeq
      BY <3>1, <1>b DEF Told
    <3>3. \A c \in Conns : clientSeq'[c] =
            IF c = Writer[o] /\ result[o].seq > clientSeq[c] THEN result[o].seq ELSE clientSeq[c]
      <4>1. CASE result[o].seq <= clientSeq[Writer[o]]
        BY <2>16, <3>2, <4>1, <1>a DEF Ack, Authoritative
      <4>2. CASE ~(result[o].seq <= clientSeq[Writer[o]])
        BY <2>16, <3>2, <4>2, <1>a DEF Ack, Authoritative
      <4>3. QED BY <4>1, <4>2
    <3>4. Unannounced'
      BY <2>1, <3>1, <1>a DEF LatestReaches, Unannounced, Latest
    <3>5. ASSUME NEW c \in Conns PROVE Reached(c)
      <4>0. clientSeq[c] \in Nat /\ clientSeq[c] <= redisSeq
        BY <1>a, <1>b
      <4>1. CASE clientSeq[c] = redisSeq
        BY <2>1, <3>2, <3>3, <4>1, <1>a DEF Reached
      <4>2. CASE Latest(o) /\ c = Writer[o]
        BY <2>1, <3>3, <4>0, <4>2, <1>a DEF Reached, Latest
      <4>3. CASE Coming(c) /\ ~(Latest(o) /\ c = Writer[o])
        <5>1. \A p \in Ops : Latest(p)' <=> Latest(p)
          BY <2>1, <3>1 DEF Latest
        <5>2. Coming(c)'
          BY <2>1, <3>1, <4>3, <5>1 DEF Coming
        <5>3. QED BY <5>2 DEF Reached
      <4>4. CASE unpublished
        BY <3>1, <4>4 DEF Reached
      <4>5. CASE Excused(c)
        BY <2>x, <4>5 DEF Reached
      <4>6. QED BY <4>1, <4>2, <4>3, <4>4, <4>5, <1>a DEF LatestReaches
    <3>6. QED BY <3>1, <3>4, <3>5, <1>a, <1>c DEF LatestReaches
  <2>17. ASSUME NEW n \in Nodes, HandleClusterEvent(n) PROVE LatestReaches'
    <3> DEFINE m == Head(channel[n])
    <3>1. UNCHANGED <<stage, result, clientSeq, unpublished>>
      BY <2>17 DEF HandleClusterEvent, clientVars, workVars, bookVars
    <3>2. channel[n] \in Seq(Mutation) /\ channel[n] # << >> /\ relay[n] = << >>
      BY <2>17, <1>a DEF HandleClusterEvent, SubscriberFree
    <3>3. /\ channel'[n] = Tail(channel[n])
          /\ \A k \in Nodes : k # n => channel'[k] = channel[k] /\ relay'[k] = relay[k]
                                       /\ engineSeq'[k] = engineSeq[k]
      BY <2>17, <1>a DEF HandleClusterEvent
    <3>4. \/ m.seq > engineSeq[n] /\ engineSeq'[n] = m.seq /\ relay'[n] = Append(<< >>, m)
          \/ ~(m.seq > engineSeq[n]) /\ engineSeq' = engineSeq /\ relay' = relay
      BY <2>17, <3>2, <1>a DEF HandleClusterEvent, NewerEvent
    <3>5. /\ 1 \in DOMAIN channel[n] /\ m = channel[n][1]
          /\ \A i \in DOMAIN channel[n] :
               i = 1 \/ (i - 1 \in DOMAIN Tail(channel[n]) /\ Tail(channel[n])[i - 1] = channel[n][i])
          /\ \A i \in DOMAIN Tail(channel[n]) :
               i + 1 \in DOMAIN channel[n] /\ Tail(channel[n])[i] = channel[n][i + 1]
      BY <3>2
    <3>6. m.seq \in Nat /\ m.seq <= redisSeq /\ engineSeq[n] \in Nat /\ engineSeq[n] <= redisSeq
      BY <3>5, <1>a, <1>b
    <3> HIDE DEF m
    <3>7. \A p \in Ops : Latest(p)' <=> Latest(p)
      BY <2>1, <3>1 DEF Latest
    <3>8. Unannounced'
      <4> SUFFICES ASSUME NEW p \in Ops, Latest(p), stage[p] \in {"record", "publish"}, NEW k \in Nodes
                   PROVE  /\ \A i \in DOMAIN channel'[k] : channel'[k][i].seq < redisSeq
                          /\ \/ engineSeq'[k] < redisSeq
                             \/ stage[p] = "publish" /\ Writer[p] # Admin /\ k = NodeOf[Writer[p]]
        BY <2>1, <3>1, <3>7 DEF Unannounced
      <4>1. /\ \A i \in DOMAIN channel[k] : channel[k][i].seq < redisSeq
            /\ \/ engineSeq[k] < redisSeq
               \/ stage[p] = "publish" /\ Writer[p] # Admin /\ k = NodeOf[Writer[p]]
        BY <1>a DEF LatestReaches, Unannounced
      <4>2. CASE k # n
        BY <3>3, <4>1, <4>2
      <4>3. CASE k = n
        <5>1. m.seq < redisSeq
          BY <3>5, <4>1, <4>3
        <5>2. \A i \in DOMAIN channel'[k] : channel'[k][i].seq < redisSeq
          <6>1. \A i \in DOMAIN channel[n] : channel[n][i].seq < redisSeq
            BY <4>1, <4>3
          <6>2. \A i \in DOMAIN Tail(channel[n]) : Tail(channel[n])[i].seq < redisSeq
            BY <3>5, <6>1
          <6>3. channel'[k] = Tail(channel[n])
            BY <3>3, <4>3
          <6>4. QED BY <6>2, <6>3
        <5>3. engineSeq'[k] = engineSeq[k] \/ engineSeq'[k] = m.seq
          BY <3>4, <4>3
        <5>4. QED BY <4>1, <5>1, <5>2, <5>3
      <4>4. QED BY <4>2, <4>3
    <3>9. ASSUME NEW c \in Conns, Coming(c) PROVE Coming(c)'
      <4>1. CASE NodeOf[c] # n
        BY <2>1, <3>1, <3>3, <3>7, <3>9, <4>1, <1>a DEF Coming
      <4>2. CASE \E o \in Ops :
                   /\ Latest(o)
                   /\ \/ stage[o] \in {"record", "publish"}
                      \/ stage[o] = "broadcast" /\ NodeOf[c] = NodeOf[Writer[o]]
                      \/ stage[o] = "ack" /\ Writer[o] = c
        BY <3>1, <3>7, <4>2 DEF Coming
      <4>3. CASE NodeOf[c] = n /\ engineSeq[n] < redisSeq
                 /\ \E i \in DOMAIN channel[n] : channel[n][i].seq = redisSeq
        <5>1. PICK i \in DOMAIN channel[n] : channel[n][i].seq = redisSeq
          BY <4>3
        <5>2. CASE m.seq = redisSeq
          <6>1. relay'[n] = Append(<< >>, m)
            BY <3>4, <3>6, <4>3, <5>2
          <6>2. 1 \in DOMAIN Append(<< >>, m) /\ Append(<< >>, m)[1] = m
            BY <3>2, <3>5
          <6>3. QED BY <2>1, <4>3, <5>2, <6>1, <6>2 DEF Coming
        <5>3. CASE m.seq # redisSeq
          <6>1. i # 1
            BY <3>5, <5>1, <5>3
          <6>2. \E j \in DOMAIN channel'[n] : channel'[n][j].seq = redisSeq
            BY <3>3, <3>5, <5>1, <6>1
          <6>3. engineSeq'[n] < redisSeq
            BY <3>4, <3>6, <4>3, <5>3, <1>a
          <6>4. QED BY <2>1, <4>3, <6>2, <6>3 DEF Coming
        <5>4. QED BY <5>2, <5>3
      <4>4. CASE NodeOf[c] = n /\ \E i \in DOMAIN relay[n] : relay[n][i].seq = redisSeq
        BY <3>2, <4>4
      <4>5. QED BY <3>9, <4>1, <4>2, <4>3, <4>4 DEF Coming
    <3>10. \A c \in Conns : Reached(c)
      BY <2>1, <2>x, <3>1, <3>9, <1>a DEF LatestReaches, Reached
    <3>11. QED BY <3>1, <3>8, <3>10, <1>a, <1>c DEF LatestReaches
  <2>18. ASSUME NEW n \in Nodes, FanOutClusterEvent(n) PROVE LatestReaches'
    <3>1. UNCHANGED <<stage, result, channel, engineSeq, unpublished>>
      BY <2>18 DEF FanOutClusterEvent, workVars, bookVars
    <3>2. /\ relay[n] \in Seq(Mutation) /\ relay[n] # << >> /\ Len(relay[n]) <= 1
      BY <2>18, <1>a DEF FanOutClusterEvent, StoreInv, StoreTyped
    <3>3. 1 \in DOMAIN relay[n] /\ (\A i \in DOMAIN relay[n] : i = 1) /\ relay[n][1] \in Mutation
      BY <3>2
    <3>4. relay[n][1].seq \in Nat /\ relay[n][1].seq <= redisSeq
      BY <3>3, <1>a, MutationFields DEF AnswersSound, Landed
    <3>5. \A k \in Nodes : k # n => relay'[k] = relay[k]
      BY <2>18, <1>a DEF FanOutClusterEvent
    <3>6. \A c \in Conns : clientSeq'[c] =
            IF NodeOf[c] = n /\ socket[c] = "open" /\ relay[n][1].seq > clientSeq[c]
            THEN relay[n][1].seq ELSE clientSeq[c]
      BY <2>18 DEF FanOutClusterEvent, Update, LocalConns, Open
    <3>7. \A p \in Ops : Latest(p)' <=> Latest(p)
      BY <2>1, <3>1 DEF Latest
    <3>8. Unannounced'
      BY <2>1, <3>1, <3>7, <1>a DEF LatestReaches, Unannounced
    <3>9. ASSUME NEW c \in Conns PROVE Reached(c)
      <4>0. clientSeq[c] \in Nat /\ clientSeq[c] <= redisSeq
        BY <1>a, <1>b
      <4>1. CASE clientSeq[c] = redisSeq
        BY <2>1, <3>4, <3>6, <4>1, <1>a DEF Reached
      <4>6. CASE Excused(c)
        BY <2>x, <4>6 DEF Reached
      <4>2. CASE NodeOf[c] = n /\ relay[n][1].seq = redisSeq /\ ~Excused(c)
        BY <2>1, <3>6, <4>0, <4>2, <1>a DEF Reached, Excused
      <4>3. CASE Coming(c) /\ ~(NodeOf[c] = n /\ relay[n][1].seq = redisSeq)
        <5>1. Coming(c)'
          BY <2>1, <3>1, <3>3, <3>5, <3>7, <4>3, <1>a DEF Coming
        <5>2. QED BY <5>1 DEF Reached
      <4>4. CASE unpublished
        BY <3>1, <4>4 DEF Reached
      <4>5. QED BY <4>1, <4>2, <4>3, <4>4, <4>6, <1>a DEF LatestReaches
    <3>10. QED BY <3>1, <3>8, <3>9, <1>a, <1>c DEF LatestReaches
  <2>19. ASSUME NEW o \in Ops, NEW d \in Conns, BroadcastFails(o, d) PROVE LatestReaches'
    <3> DEFINE targets == LocalConns(NodeOf[Writer[o]]) \ {Writer[o]}
    <3>1. /\ UNCHANGED <<channel, relay, engineSeq, unpublished, result>>
          /\ stage[o] = "broadcast" /\ EndedAt(d, targets, result[o].seq, result[o].doc)
          /\ LoopEnds(Writer[o], {o})
          /\ socket' = [socket EXCEPT ![d] = Closed(d), ![Writer[o]] = "ending"] /\ Refuses(d)
      BY <2>19 DEF BroadcastFails, Running, nodeVars, bookVars
    <3>2. \A p \in Ops : \/ stage'[p] = stage[p]
                         \/ stage'[p] = "idle" /\ (p = o \/ stage[p] = "queued")
      BY <3>1, <1>a, LoopEndsStages
    <3>3. result[o].seq \in 1..redisSeq /\ Writer[o] # Admin
      BY <3>1, <1>a, <1>b DEF LatestReaches, Told
    <3>4. \A p \in Ops : Latest(p)' <=> Latest(p)
      BY <2>1, <3>1 DEF Latest
    <3>5. Unannounced'
      BY <2>1, <3>1, <3>2, <3>4, <1>a DEF LatestReaches, Unannounced
    <3>6. \A p \in Ops : stage'[p] \in {"record", "broadcast"} => Writer[p] # Admin
      BY <3>2, <1>a DEF LatestReaches
    <3>7. /\ \A c \in Conns : clientSeq'[c] = clientSeq[c]
                             \/ (result[o].seq > clientSeq[c] /\ clientSeq'[c] = result[o].seq)
          /\ \A c \in targets \cap Open : c # d =>
               clientSeq'[c] >= result[o].seq \/ <<c, result[o].seq>> \in missed'
      <4>1. result[o].seq \in Nat /\ EndedAt(d, targets, result[o].seq, result[o].doc)
        BY <3>1, <3>3
      <4>2. PICK s \in Nat : s = result[o].seq
        BY <4>1
      <4>3. PICK e, T : e = result[o].doc /\ T = targets
        OBVIOUS
      <4> HIDE DEF targets
      <4>4. EndedAt(d, T, s, e)
        BY <4>1, <4>2, <4>3
      <4>5. /\ \A c \in Conns : clientSeq'[c] = clientSeq[c] \/ (s > clientSeq[c] /\ clientSeq'[c] = s)
            /\ \A c \in T \cap Open : c # d => clientSeq'[c] >= s \/ <<c, s>> \in missed'
        BY <4>4, <1>a, EndedAtReaches
      <4>6. QED BY <4>2, <4>3, <4>5
    <3>8. \A c \in {d, Writer[o]} \cap Conns : socket'[c] # "open"
      BY <3>1 DEF StoreInv, StoreTyped, Closed, Refuses
    <3>9. \A c \in Conns : NodeOf[c] = NodeOf[Writer[o]] /\ c # Writer[o] /\ socket[c] = "open" =>
            c \in targets \cap Open
      BY DEF LocalConns, Open
    <3> HIDE DEF targets
    <3>10. ASSUME NEW c \in Conns PROVE Reached(c)
      <4>0. clientSeq[c] \in Nat /\ clientSeq[c] <= redisSeq /\ clientSeq'[c] <= redisSeq
        BY <1>a, <1>b, <2>2
      <4>1. CASE clientSeq[c] = redisSeq
        BY <2>1, <3>3, <3>7, <4>0, <4>1, <1>a DEF Reached
      <4>2. CASE Excused(c)
        BY <2>x, <4>2 DEF Reached
      <4>3. CASE c \in {d, Writer[o]}
        BY <3>8, <4>3 DEF Reached, Excused
      <4>4. CASE Latest(o) /\ NodeOf[c] = NodeOf[Writer[o]] /\ c \notin {d, Writer[o]} /\ ~Excused(c)
        <5>1. clientSeq'[c] >= redisSeq \/ <<c, redisSeq>> \in missed'
          BY <3>7, <3>9, <4>4 DEF Latest, Excused
        <5>2. clientSeq'[c] \in Nat
          BY <2>3
        <5>3. QED BY <2>1, <4>0, <5>1, <5>2, <1>a DEF Reached, Excused
      <4>5. CASE Coming(c) /\ ~(Latest(o) /\ NodeOf[c] = NodeOf[Writer[o]])
        <5>1. Coming(c)'
          BY <2>1, <3>1, <3>2, <3>4, <4>5 DEF Coming
        <5>2. QED BY <5>1 DEF Reached
      <4>6. CASE unpublished
        BY <3>1, <4>6 DEF Reached
      <4>7. QED BY <4>1, <4>2, <4>3, <4>4, <4>5, <4>6, <1>a DEF LatestReaches
    <3>11. QED BY <3>5, <3>6, <3>10, <1>c
  <2>20. ASSUME NEW n \in Nodes, NEW d \in Conns, ClusterFanOutFails(n, d) PROVE LatestReaches'
    <3> DEFINE m == relay[n][1]
    <3>1. /\ UNCHANGED <<stage, result, channel, engineSeq, unpublished>>
          /\ EndedAt(d, LocalConns(n), m.seq, m.doc) /\ Refuses(d)
          /\ socket' = [socket EXCEPT ![d] = Closed(d)]
          /\ relay' = [relay EXCEPT ![n] = Tail(@)]
      BY <2>20 DEF ClusterFanOutFails, workVars, bookVars
    <3>2. relay[n] \in Seq(Mutation) /\ relay[n] # << >> /\ Len(relay[n]) <= 1
      BY <2>20, <1>a DEF ClusterFanOutFails, StoreInv, StoreTyped
    <3>3. 1 \in DOMAIN relay[n] /\ (\A i \in DOMAIN relay[n] : i = 1) /\ m \in Mutation
      BY <3>2
    <3>4. m.seq \in Nat /\ m.seq <= redisSeq
      BY <3>3, <1>a, MutationFields DEF AnswersSound, Landed
    <3>5. \A k \in Nodes : k # n => relay'[k] = relay[k]
      BY <3>1, <1>a
    <3>6. /\ \A c \in Conns : clientSeq'[c] = clientSeq[c]
                             \/ (m.seq > clientSeq[c] /\ clientSeq'[c] = m.seq)
          /\ \A c \in LocalConns(n) \cap Open : c # d =>
               clientSeq'[c] >= m.seq \/ <<c, m.seq>> \in missed'
      <4>1. EndedAt(d, LocalConns(n), m.seq, m.doc)
        BY <3>1
      <4>2. PICK s \in Nat : s = m.seq
        BY <3>4
      <4>a. PICK e : e = m.doc
        OBVIOUS
      <4> HIDE DEF m
      <4>3. EndedAt(d, LocalConns(n), s, e)
        BY <4>1, <4>2, <4>a
      <4>4. /\ \A c \in Conns : clientSeq'[c] = clientSeq[c] \/ (s > clientSeq[c] /\ clientSeq'[c] = s)
            /\ \A c \in LocalConns(n) \cap Open : c # d => clientSeq'[c] >= s \/ <<c, s>> \in missed'
        BY <4>3, <1>a, EndedAtReaches
      <4>5. QED BY <4>2, <4>4
    <3>7. \A p \in Ops : Latest(p)' <=> Latest(p)
      BY <2>1, <3>1 DEF Latest
    <3>8. Unannounced'
      BY <2>1, <3>1, <3>7, <1>a DEF LatestReaches, Unannounced
    <3>9. \A c \in Conns : NodeOf[c] = n /\ socket[c] = "open" => c \in LocalConns(n) \cap Open
      BY DEF LocalConns, Open
    <3>10. socket'[d] # "open"
      BY <3>1 DEF StoreInv, StoreTyped, Closed, Refuses
    <3> HIDE DEF m
    <3>11. ASSUME NEW c \in Conns PROVE Reached(c)
      <4>0. clientSeq[c] \in Nat /\ clientSeq[c] <= redisSeq /\ clientSeq'[c] <= redisSeq
        BY <1>a, <1>b, <2>2
      <4>1. CASE clientSeq[c] = redisSeq
        BY <2>1, <3>4, <3>6, <4>0, <4>1, <1>a DEF Reached
      <4>2. CASE Excused(c)
        BY <2>x, <4>2 DEF Reached
      <4>3. CASE c = d
        BY <3>10, <4>3 DEF Reached, Excused
      <4>4. CASE NodeOf[c] = n /\ m.seq = redisSeq /\ c # d /\ ~Excused(c)
        <5>1. clientSeq'[c] >= redisSeq \/ <<c, redisSeq>> \in missed'
          BY <3>6, <3>9, <4>4 DEF Excused
        <5>2. clientSeq'[c] \in Nat
          BY <2>3
        <5>3. QED BY <2>1, <4>0, <5>1, <5>2, <1>a DEF Reached, Excused
      <4>5. CASE Coming(c) /\ ~(NodeOf[c] = n /\ m.seq = redisSeq)
        <5>1. Coming(c)'
          BY <2>1, <3>1, <3>3, <3>5, <3>7, <4>5, <1>a DEF Coming, m
        <5>2. QED BY <5>1 DEF Reached
      <4>6. CASE unpublished
        BY <3>1, <4>6 DEF Reached
      <4>7. QED BY <4>1, <4>2, <4>3, <4>4, <4>5, <4>6, <1>a DEF LatestReaches
    <3>12. QED BY <3>1, <3>8, <3>11, <1>a, <1>c DEF LatestReaches
  \* An answer that is lost was the writer's own, and its socket is closed.
  <2>21. ASSUME NEW o \in Ops, AnswerLost(o) \/ AnswerOverflows(o) PROVE LatestReaches'
    <3>1. /\ UNCHANGED <<channel, relay, engineSeq, unpublished, result, clientSeq>>
          /\ stage[o] \in {"ack", "error", "repair"} /\ Writer[o] # Admin
      BY <2>21 DEF AnswerLost, AnswerOverflows, Running, nodeVars, bookVars, clientVars
    <3>2. \A p \in Ops : \/ stage'[p] = stage[p]
                         \/ stage'[p] = "idle" /\ (p = o \/ stage[p] = "queued")
      BY <2>21, <1>a, LoopEndsStages DEF AnswerLost, AnswerOverflows, To
    <3>3. socket'[Writer[o]] # "open"
      BY <2>21, <3>1, <1>a DEF AnswerLost, AnswerOverflows, StoreInv, StoreTyped
    <3>4. \A p \in Ops : Latest(p)' <=> Latest(p)
      BY <2>1, <3>1 DEF Latest
    <3>5. Unannounced'
      BY <2>1, <3>1, <3>2, <3>4, <1>a DEF LatestReaches, Unannounced
    <3>6. \A p \in Ops : stage'[p] \in {"record", "broadcast"} => Writer[p] # Admin
      BY <3>2, <1>a DEF LatestReaches
    <3>7. ASSUME NEW c \in Conns PROVE Reached(c)
      <4>1. CASE c = Writer[o]
        BY <3>3, <4>1 DEF Reached, Excused
      <4>2. CASE Coming(c) /\ c # Writer[o]
        <5>1. Coming(c)'
          BY <2>1, <3>1, <3>2, <3>4, <4>2 DEF Coming
        <5>2. QED BY <5>1 DEF Reached
      <4>3. CASE ~Coming(c)
        BY <2>1, <2>x, <3>1, <4>3, <1>a DEF Reached, LatestReaches
      <4>4. QED BY <4>1, <4>2, <4>3
    <3>8. QED BY <3>5, <3>6, <3>7, <1>c
  <2>22. ASSUME NEW c \in Conns, Hangup(c) \/ ReadFails(c) \/ unregisterConn(c) PROVE LatestReaches'
    <3>1. UNCHANGED <<channel, relay, engineSeq, unpublished, result, clientSeq>>
      BY <2>22 DEF Hangup, ReadFails, unregisterConn, nodeVars, bookVars, clientVars, workVars
    <3>2. \A p \in Ops : stage'[p] = stage[p] \/ (stage'[p] = "idle" /\ stage[p] = "queued")
      BY <2>22, <1>a, LoopEndsStages DEF Hangup, ReadFails, unregisterConn, workVars
    <3>3. QED BY <3>1, <3>2, <2>4 DEF Told
  <2>23. QED
    BY <2>5, <2>6, <2>7, <2>8, <2>9, <2>10, <2>11, <2>12, <2>13, <2>14, <2>15, <2>16, <2>17, <2>18,
       <2>19, <2>20, <2>21, <2>22 DEF Next, Serve
<1>3. QED BY <1>1, <1>2

\* Every step keeps the recursion over the commits solvable in one way.
LEMMA ReplayableKept == StoreInv /\ [Next]_storageVars => Replayable(committed')
<1> SUFFICES ASSUME StoreInv, [Next]_storageVars PROVE Replayable(committed')
  OBVIOUS
<1>1. CASE \E o \in Ops : Exec(o) /\ ~LostRace(o)
  BY <1>1, ExecCommits
<1>2. CASE ~ \E o \in Ops : Exec(o) /\ ~LostRace(o)
  BY <1>2, OnlyExecCommits DEF StoreInv
<1>3. QED BY <1>1, <1>2

-----------------------------------------------------------------------------
(* The theorems.                                                           *)

\* StoreInv holds in every reachable state of the cluster.
THEOREM StorageInvariant == Spec => []StoreInv
<1>1. StoreInv /\ [Next]_storageVars => StoreInv'
  BY StoreTypedKept, ReplayableKept, StoreSoundKept, AnswersSoundKept, CopiesBehindKept,
     LatestReachesKept DEF StoreInv
<1>2. QED BY InitSound, <1>1, PTL DEF Spec

\* Acknowledgements, first and repeated, name the sequence at which the
\* mutation committed and the document right after it.
THEOREM AcknowledgementsTrue == Spec => []AcksMatchCommits
<1>1. StoreInv => AcksMatchCommits
  BY DocAfterIs DEF StoreInv, AnswersSound, AcksMatchCommits, Landed
<1>2. QED BY <1>1, StorageInvariant, PTL

\* Once handlers and subscribers are done and every publish succeeded, every
\* connected client is at the sequence of Redis, and one that sent nothing
\* displays its document: the order of publishes and fan-outs loses nothing.
\* What does lose it is named: another socket failed before this one in the
\* fan-out of the last commit, on this client's node.
THEOREM QuietClientsLatest == Spec => []ClientsReachLatest
<1>1. ASSUME StoreInv, Quiet, ~unpublished, NEW c \in Conns, ~Excused(c)
      PROVE  clientSeq[c] = redisSeq /\ (Silent(c) => shown[c] = redisDoc)
  <2>1. NodeOf[c] \in Nodes
    BY ClusterAssumption
  <2>2. ~Coming(c)
    BY <1>1, <2>1 DEF Coming, Quiet
  <2>3. clientSeq[c] = redisSeq
    BY <1>1, <2>2 DEF StoreInv, LatestReaches
  <2>4. QED BY <1>1, <2>3 DEF StoreInv, CopiesBehind, StoreSound
<1>2. StoreInv => ClientsReachLatest
  BY <1>1 DEF ClientsReachLatest, Open, Excused
<1>3. QED BY <1>2, StorageInvariant, PTL

\* The transactions of all nodes and of the admin service implement the
\* register of the protocol: each step is a request, a commit or a stutter.
THEOREM ClusterIsRegister == Spec => StorageIsRegister
<1>1. Init => A!SpecInit
  BY DEF Init, A!SpecInit
<1>2. ASSUME StoreInv, [Next]_storageVars
      PROVE  [A!SpecNext]_<<redisDoc, committed, expected>>
  <2>a. /\ Len(committed) = redisSeq /\ redisSeq \in Nat
        /\ expected \in [Ops -> Nat \cup {NoSequence}]
    BY <1>2 DEF StoreInv, StoreTyped, StoreSound
  <2>1. ASSUME NEW o \in Ops, Exec(o), ~LostRace(o)
        PROVE  A!Commit(o)
    <3>1. Fresh(o) /\ Applicable(o, redisDoc) /\ Expects(o)
      BY <1>2, <2>1 DEF StoreInv, StoreSound, Exec, Running
    <3>2. /\ redisDoc' = ApplyOp(o, redisDoc) /\ committed' = Append(committed, o)
          /\ expected' = expected
      BY <1>2, <2>1, ExecCommits DEF Exec, reqVars
    <3>3. /\ A!Applicable(o, redisDoc) <=> Applicable(o, redisDoc)
          /\ A!ApplyOp(o, redisDoc) = ApplyOp(o, redisDoc)
      BY DEF A!Applicable, Applicable, A!ApplyOp, ApplyOp
    <3>4. QED BY <2>a, <3>1, <3>2, <3>3 DEF A!Commit, Fresh, Expects
  <2>2. ASSUME ~ \E o \in Ops : Exec(o) /\ ~LostRace(o)
        PROVE  \/ UNCHANGED <<redisDoc, committed, expected>>
               \/ \E o \in Ops, s \in 0..Len(committed) : A!Request(o, s)
    <3>1. redisDoc' = redisDoc /\ committed' = committed
      BY <1>2, <2>2, OnlyExecCommits
    <3>2. ASSUME NEW c \in Conns, NEW o \in Ops, Send(c, o), expected' # expected
          PROVE  A!Request(o, clientSeq[c]) /\ clientSeq[c] \in 0..Len(committed)
      <4>1. sends[o] = 0 /\ expected' = [expected EXCEPT ![o] = clientSeq[c]]
        BY <3>2 DEF Send
      <4>2. Fresh(o)
        BY <1>2, <4>1 DEF StoreInv, StoreSound
      <4>3. clientSeq[c] \in Nat /\ clientSeq[c] <= redisSeq
        BY <1>2 DEF StoreInv, StoreTyped, CopiesBehind
      <4>4. QED BY <2>a, <3>1, <4>1, <4>2, <4>3 DEF A!Request, Fresh
    <3>3. (\E c \in Conns, o \in Ops : Send(c, o)) \/ expected' = expected
      BY <1>2, RequestVarsKept
    <3>4. QED BY <3>1, <3>2, <3>3
  <2>3. QED BY <2>1, <2>2 DEF A!SpecNext
<1>3. QED BY <1>1, <1>2, StorageInvariant, PTL DEF Spec, StorageIsRegister, A!AbstractStorage
=============================================================================
