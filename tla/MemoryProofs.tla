---------------------------- MODULE MemoryProofs ----------------------------
(***************************************************************************)
(* Proofs about MemoryStorage, for any members, mutations, shared op ids   *)
(* and retries: the engine implements the register of StorageSpec, its     *)
(* acknowledgements are true, and when nothing is under way every member   *)
(* that is connected shows the latest document, unless its fan-out ended   *)
(* at another socket.                                                      *)
(*                                                                         *)
(* MemoryInv ties what the engine keeps under its mutex (the document, its *)
(* sequence, the op records) and what the calls carry after they released  *)
(* it (a document and a sequence each) to the mutations that happened.     *)
(***************************************************************************)
EXTENDS MemoryStorage, TLAPS

-----------------------------------------------------------------------------
(* The inductive invariant.                                                *)

\* Where a call can be.
CallStages == {"idle", "received", "ack", "refused", "fanout", "acked", "lost"}

\* What a call carries.
Call == [stage : CallStages, tries : Nat, todo : SUBSET Members, doc : Documents, seq : Nat]

\* What the engine remembers of an op id.
OpRecord == [op : Ops, doc : Documents, seq : Nat]

\* Types.
MemoryTyped ==
    /\ storage \in Documents /\ storageSeq \in Nat
    /\ \A id \in DOMAIN storageOps : storageOps[id] \in OpRecord
    /\ call \in [Ops -> Call]
    /\ expectedSeq \in [Ops -> Nat \cup {NoSequence}]
    /\ memberView \in [Members -> [doc : Documents, seq : Nat]]
    /\ docs \in Seq(Documents) /\ done \in Seq(Ops)
    /\ socket \in [Members -> {"open", "closed", "gone"}]

\* Mutation o took effect at sequence s and made the document d.
Happened(log, made, o, d, s) == s \in 1..Len(log) /\ log[s] = o /\ made[s] = d

\* The engine: its document is the last one made, its op records tell what
\* happened, and each mutation that happened is the one its op id records.
EngineSound ==
    /\ storageSeq = Len(done) /\ storageSeq = Len(docs)
    /\ storage = IF storageSeq = 0 THEN NoDoc ELSE docs[storageSeq]
    /\ \A id \in DOMAIN storageOps : LET r == storageOps[id] IN
          OpID[r.op] = id /\ Happened(done, docs, r.op, r.doc, r.seq)
    /\ \A i \in 1..Len(done) : /\ OpID[done[i]] \in DOMAIN storageOps
                               /\ storageOps[OpID[done[i]]].seq = i

\* A call that answers or fans out carries what its mutation did, and a
\* mutation that was never sent did not happen.
CallsSound ==
    \A o \in Ops :
        /\ call[o].stage \in {"ack", "fanout", "acked"} => Happened(done, docs, o, call[o].doc, call[o].seq)
        /\ call[o].tries = 0 => call[o].stage = "idle" /\ \A i \in DOMAIN done : done[i] # o

\* A member shows a document that was made, under its sequence.
ViewsSound ==
    \A c \in Members :
        /\ memberView[c].seq <= storageSeq
        /\ memberView[c].doc = IF memberView[c].seq = 0 THEN NoDoc ELSE docs[memberView[c].seq]

\* A call under way will bring the latest document to c.
OnItsWay(c) ==
    \E o \in Ops : /\ call[o].stage = "fanout" /\ call[o].seq = storageSeq
                   /\ c \in call[o].todo \cup {Origin[o]}

\* Nothing is promised to c: its socket is not open, or the latest fan-out
\* ended before it.
Excused(c) == socket[c] # "open" \/ <<c, storageSeq>> \in missed

\* Every member shows the latest document, it is coming, or it is excused.
LatestComes ==
    \A c \in Members : Excused(c) \/ memberView[c].seq = storageSeq \/ OnItsWay(c)

\* The inductive invariant.
MemoryInv == MemoryTyped /\ EngineSound /\ CallsSound /\ ViewsSound /\ LatestComes

-----------------------------------------------------------------------------
(* What the actions do.                                                    *)

\* A mutation that applies to a document makes a document.
LEMMA MutationApplies ==
  ASSUME NEW o \in Ops, NEW d \in Documents, Applicable(o, d)
  PROVE  ApplyOp(o, d) \in Documents
  BY DocumentAssumption DEF Applicable, ApplyOp, Documents

\* The fields of a call.
LEMMA CallFields ==
  \A k \in Call : /\ k.stage \in CallStages /\ k.tries \in Nat /\ k.todo \subseteq Members
                  /\ k.doc \in Documents /\ k.seq \in Nat
  BY DEF Call

\* The updates of a call that the actions make leave it a call.
LEMMA CallUpdates ==
  ASSUME NEW k \in Call, NEW st \in CallStages
  PROVE  /\ [k EXCEPT !.stage = st, !.tries = @ + 1] \in Call
         /\ [k EXCEPT !.stage = st] \in Call
         /\ \A c : [k EXCEPT !.todo = @ \ {c}] \in Call
         /\ \A d \in Documents, s \in Nat : [k EXCEPT !.stage = st, !.doc = d, !.seq = s] \in Call
         /\ \A t \in SUBSET Members, d \in Documents, s \in Nat :
              [k EXCEPT !.stage = st, !.doc = d, !.seq = s, !.todo = t] \in Call
<1>1. [k EXCEPT !.stage = st, !.tries = @ + 1] \in Call
  <2>1. k.tries + 1 \in Nat
    BY CallFields
  <2>2. \A t \in Nat : [k EXCEPT !.stage = st, !.tries = t] \in Call
    BY DEF Call
  <2>3. QED BY <2>1, <2>2
<1>2. [k EXCEPT !.stage = st] \in Call
  BY DEF Call
<1>3. \A c : [k EXCEPT !.todo = @ \ {c}] \in Call
  BY DEF Call
<1>4. \A d \in Documents, s \in Nat : [k EXCEPT !.stage = st, !.doc = d, !.seq = s] \in Call
  BY DEF Call
<1>5. \A t \in SUBSET Members, d \in Documents, s \in Nat :
        [k EXCEPT !.stage = st, !.doc = d, !.seq = s, !.todo = t] \in Call
  BY DEF Call
<1>6. QED BY <1>1, <1>2, <1>3, <1>4, <1>5

\* Under the mutex a request is answered from the record, refused, or takes
\* effect because its op id is new, its document fits and its sequence is met.
LEMMA EngineCalls ==
  ASSUME NEW o \in Ops, setStorageMutation(o) \/ applyStoragePatchMutation(o)
  PROVE  /\ call[o].stage = "received"
         /\ \/ AnswerKnown(o)
            \/ Refuse(o)
            \/ ~Known(o) /\ ExpectedMet(o) /\ Applicable(o, storage) /\ Mutate(o)
  BY DEF setStorageMutation, applyStoragePatchMutation, Applicable

\* A mutation adds one document and one entry to what happened, and changes
\* nothing before them.
LEMMA MutateAppends ==
  ASSUME MemoryInv, NEW o \in Ops, Applicable(o, storage), Mutate(o)
  PROVE  /\ storage' \in Documents /\ storageSeq' = storageSeq + 1 /\ storageSeq \in Nat
         /\ docs' \in Seq(Documents) /\ done' \in Seq(Ops)
         /\ Len(docs') = storageSeq + 1 /\ Len(done') = storageSeq + 1
         /\ docs'[storageSeq + 1] = storage' /\ done'[storageSeq + 1] = o
         /\ Len(docs) = storageSeq /\ Len(done) = storageSeq
         /\ \A i \in 1..storageSeq : docs'[i] = docs[i] /\ done'[i] = done[i]
<1>1. /\ storageSeq \in Nat /\ docs \in Seq(Documents) /\ done \in Seq(Ops) /\ storage \in Documents
      /\ Len(docs) = storageSeq /\ Len(done) = storageSeq
  BY DEF MemoryInv, MemoryTyped, EngineSound
<1>2. /\ storage' = ApplyOp(o, storage) /\ storageSeq' = storageSeq + 1
      /\ docs' = Append(docs, storage') /\ done' = Append(done, o)
  BY DEF Mutate
<1>3. storage' \in Documents
  BY <1>1, <1>2, MutationApplies
<1>4. /\ Append(docs, storage') \in Seq(Documents) /\ Len(Append(docs, storage')) = Len(docs) + 1
      /\ Append(docs, storage')[Len(docs) + 1] = storage'
      /\ \A i \in 1..Len(docs) : Append(docs, storage')[i] = docs[i]
  BY <1>1, <1>3
<1>5. /\ Append(done, o) \in Seq(Ops) /\ Len(Append(done, o)) = Len(done) + 1
      /\ Append(done, o)[Len(done) + 1] = o
      /\ \A i \in 1..Len(done) : Append(done, o)[i] = done[i]
  BY <1>1
<1>6. QED BY <1>1, <1>2, <1>3, <1>4, <1>5

\* A mutation adds the record of its op id and keeps the others.
LEMMA MutateRecords ==
  ASSUME NEW o \in Ops, Mutate(o)
  PROVE  /\ DOMAIN storageOps' = DOMAIN storageOps \cup {OpID[o]}
         /\ storageOps'[OpID[o]] = [op |-> o, doc |-> storage', seq |-> storageSeq + 1]
         /\ \A id \in DOMAIN storageOps : id # OpID[o] => storageOps'[id] = storageOps[id]
<1> DEFINE r == [op |-> o, doc |-> storage', seq |-> storageSeq + 1]
<1>1. storageOps' = [id \in DOMAIN storageOps \cup {OpID[o]} |->
                       IF id = OpID[o] THEN r ELSE storageOps[id]]
  BY DEF Mutate
<1> HIDE DEF r
<1>2. QED BY <1>1 DEF r

-----------------------------------------------------------------------------
(* It holds at first and every step keeps it.                              *)

\* An empty engine satisfies the invariant.
LEMMA MemoryStarts == MemoryInit => MemoryInv
<1> SUFFICES ASSUME MemoryInit PROVE MemoryInv
  OBVIOUS
<1>1. MemoryTyped
  BY DEF MemoryInit, MemoryTyped, Documents, Call, CallStages, Idle0, OpRecord
<1>2. EngineSound /\ CallsSound /\ ViewsSound /\ LatestComes
  BY DEF MemoryInit, EngineSound, CallsSound, ViewsSound, LatestComes, Idle0
<1>3. QED BY <1>1, <1>2 DEF MemoryInv

\* Every step keeps the types.
LEMMA MemoryTypedKept == MemoryInv /\ [MemoryNext]_memoryVars => MemoryTyped'
<1> SUFFICES ASSUME MemoryInv, [MemoryNext]_memoryVars PROVE MemoryTyped'
  OBVIOUS
<1>a. /\ call \in [Ops -> Call] /\ storage \in Documents /\ storageSeq \in Nat
      /\ \A id \in DOMAIN storageOps : storageOps[id] \in OpRecord
      /\ expectedSeq \in [Ops -> Nat \cup {NoSequence}]
      /\ memberView \in [Members -> [doc : Documents, seq : Nat]]
      /\ docs \in Seq(Documents) /\ done \in Seq(Ops)
      /\ socket \in [Members -> {"open", "closed", "gone"}]
  BY DEF MemoryInv, MemoryTyped
<1>b. \A o \in Ops : Origin[o] \in Members
  BY MemoryAssumption
<1>c. ASSUME NEW c \in Members, NEW d \in Documents, NEW s \in Nat
      PROVE  MemberShows(c, d, s) \in [Members -> [doc : Documents, seq : Nat]]
  BY <1>a DEF MemberShows
<1>d. \A r \in OpRecord : r.op \in Ops /\ r.doc \in Documents /\ r.seq \in Nat
  BY DEF OpRecord
<1>1. ASSUME NEW o \in Ops, SendStorage(o) PROVE MemoryTyped'
  <2>1. call' \in [Ops -> Call]
    <3>1. call' = [call EXCEPT ![o] = [call[o] EXCEPT !.stage = "received", !.tries = @ + 1]]
      BY <1>1 DEF SendStorage, engineVars
    <3>2. QED BY <3>1, <1>a, CallUpdates DEF CallStages
  <2>2. memberView[Origin[o]].seq \in Nat
    BY <1>a, <1>b
  <2>3. expectedSeq' \in [Ops -> Nat \cup {NoSequence}]
    BY <1>1, <1>a, <2>2 DEF SendStorage, engineVars
  <2>4. QED BY <1>1, <1>a, <2>1, <2>3 DEF SendStorage, engineVars, socketVars, MemoryTyped
<1>2. ASSUME NEW o \in Ops, Known(o), AnswerKnown(o) PROVE MemoryTyped'
  <2>1. storageOps[OpID[o]] \in OpRecord
    BY <1>2, <1>a DEF Known
  <2>2. call' \in [Ops -> Call]
    <3>1. \E st \in {"ack", "refused"} :
            call' = [call EXCEPT ![o] = [call[o] EXCEPT !.stage = st,
                       !.doc = storageOps[OpID[o]].doc, !.seq = storageOps[OpID[o]].seq]]
      BY <1>2 DEF AnswerKnown, storageOpMutationLocked, engineVars
    <3>2. storageOps[OpID[o]].doc \in Documents /\ storageOps[OpID[o]].seq \in Nat
      BY <2>1, <1>d
    <3>3. ASSUME NEW st \in {"ack", "refused"}
          PROVE  [call[o] EXCEPT !.stage = st, !.doc = storageOps[OpID[o]].doc,
                                 !.seq = storageOps[OpID[o]].seq] \in Call
      <4>1. PICK k, d, s : k = call[o] /\ d = storageOps[OpID[o]].doc /\ s = storageOps[OpID[o]].seq
        OBVIOUS
      <4>2. k \in Call /\ d \in Documents /\ s \in Nat /\ st \in CallStages
        BY <3>2, <4>1, <1>a DEF CallStages
      <4>3. [k EXCEPT !.stage = st, !.doc = d, !.seq = s] \in Call
        BY <4>2, CallUpdates
      <4>4. QED BY <4>1, <4>3
    <3>4. QED BY <3>1, <3>3, <1>a
  <2>3. QED BY <1>2, <1>a, <2>2 DEF AnswerKnown, engineVars, socketVars, MemoryTyped
<1>3. ASSUME NEW o \in Ops, Refuse(o) PROVE MemoryTyped'
  <2>1. call' \in [Ops -> Call]
    <3>1. call' = [call EXCEPT ![o] = [call[o] EXCEPT !.stage = "refused"]]
      BY <1>3 DEF Refuse, engineVars
    <3>2. QED BY <3>1, <1>a, CallUpdates DEF CallStages
  <2>2. QED BY <1>3, <1>a, <2>1 DEF Refuse, engineVars, socketVars, MemoryTyped
<1>4. ASSUME NEW o \in Ops, Applicable(o, storage), Mutate(o) PROVE MemoryTyped'
  <2>1. /\ storage' \in Documents /\ storageSeq' = storageSeq + 1
        /\ docs' \in Seq(Documents) /\ done' \in Seq(Ops)
    BY <1>4, MutateAppends
  <2>2. call' \in [Ops -> Call]
    <3>1. call' = [call EXCEPT ![o] = [call[o] EXCEPT !.stage = "fanout", !.doc = storage',
                                         !.seq = storageSeq + 1, !.todo = InRoom \ {Origin[o]}]]
      BY <1>4 DEF Mutate
    <3>2. storageSeq + 1 \in Nat /\ InRoom \ {Origin[o]} \in SUBSET Members /\ "fanout" \in CallStages
      BY <1>a DEF CallStages, InRoom
    <3>3. [call[o] EXCEPT !.stage = "fanout", !.doc = storage',
                          !.seq = storageSeq + 1, !.todo = InRoom \ {Origin[o]}] \in Call
      BY <3>2, <2>1, <1>a, CallUpdates
    <3>4. QED BY <3>1, <3>3, <1>a
  <2>3. \A id \in DOMAIN storageOps' : storageOps'[id] \in OpRecord
    <3>1. [op |-> o, doc |-> storage', seq |-> storageSeq + 1] \in OpRecord
      BY <2>1, <1>a DEF OpRecord
    <3>2. storageOps'[OpID[o]] \in OpRecord
      BY <3>1, <1>4, MutateRecords
    <3>3. \A id \in DOMAIN storageOps : id # OpID[o] => storageOps'[id] \in OpRecord
      BY <1>4, <1>a, MutateRecords
    <3>4. DOMAIN storageOps' = DOMAIN storageOps \cup {OpID[o]}
      BY <1>4, MutateRecords
    <3>5. QED BY <3>2, <3>3, <3>4
  <2>4. UNCHANGED <<expectedSeq, memberView, socket>> /\ storageSeq' \in Nat
    BY <1>4, <1>a DEF Mutate, socketVars
  <2>5. QED BY <1>a, <2>1, <2>2, <2>3, <2>4 DEF MemoryTyped
<1>5. ASSUME NEW o \in Ops, NEW c \in Members, broadcastStorageFanout(o, c) PROVE MemoryTyped'
  <2>1. call' \in [Ops -> Call]
    <3>1. call' = [call EXCEPT ![o] = [call[o] EXCEPT !.todo = @ \ {c}]]
      BY <1>5 DEF broadcastStorageFanout, engineVars
    <3>2. QED BY <3>1, <1>a, CallUpdates DEF CallStages
  <2>2. call[o].doc \in Documents /\ call[o].seq \in Nat
    BY <1>a, CallFields
  <2>3. QED BY <1>5, <1>a, <1>c, <2>1, <2>2 DEF broadcastStorageFanout, engineVars, socketVars, MemoryTyped
<1>6. ASSUME NEW o \in Ops, storageAckMessage(o) PROVE MemoryTyped'
  <2>1. call' \in [Ops -> Call]
    <3>1. call' = [call EXCEPT ![o] = [call[o] EXCEPT !.stage = "acked"]]
      BY <1>6 DEF storageAckMessage, engineVars
    <3>2. QED BY <3>1, <1>a, CallUpdates DEF CallStages
  <2>2. call[o].doc \in Documents /\ call[o].seq \in Nat
    BY <1>a, CallFields
  <2>3. QED BY <1>6, <1>a, <1>b, <1>c, <2>1, <2>2 DEF storageAckMessage, engineVars, socketVars, MemoryTyped
<1>7. ASSUME NEW o \in Ops, call' = [call EXCEPT ![o].stage = "lost"],
             NEW cs, CloseSockets(cs), UNCHANGED <<engineVars, expectedSeq, memberView>>
      PROVE  MemoryTyped'
  <2>1. call' \in [Ops -> Call]
    <3>1. call' = [call EXCEPT ![o] = [call[o] EXCEPT !.stage = "lost"]]
      BY <1>7
    <3>2. QED BY <3>1, <1>a, CallUpdates DEF CallStages
  <2>2. socket' \in [Members -> {"open", "closed", "gone"}]
    BY <1>7, <1>a DEF CloseSockets
  <2>3. QED BY <1>7, <1>a, <2>1, <2>2 DEF engineVars, MemoryTyped
<1>8. ASSUME NEW c \in Members, unregisterConn(c) PROVE MemoryTyped'
  <2>1. call' \in [Ops -> Call]
    <3>1. ASSUME NEW o \in Ops PROVE [call[o] EXCEPT !.stage = "lost"] \in Call
      BY <1>a, CallUpdates DEF CallStages
    <3>2. QED BY <3>1, <1>8, <1>a DEF unregisterConn
  <2>2. socket' \in [Members -> {"open", "closed", "gone"}]
    BY <1>8, <1>a DEF unregisterConn
  <2>3. QED BY <1>8, <1>a, <2>1, <2>2 DEF unregisterConn, engineVars, MemoryTyped
<1>9. CASE UNCHANGED memoryVars
  BY <1>9, <1>a DEF memoryVars, engineVars, socketVars, MemoryTyped
<1>10. ASSUME NEW o \in Ops, AnswerKnown(o) PROVE Known(o)
  BY <1>10 DEF AnswerKnown
<1>11. ASSUME NEW o \in Ops, NEW d, FanoutFails(o, d) \/ AckFails(o) PROVE MemoryTyped'
  BY <1>7, <1>11 DEF FanoutFails, AckFails
<1>12. QED
  BY <1>1, <1>2, <1>3, <1>4, <1>5, <1>6, <1>8, <1>9, <1>10, <1>11, EngineCalls DEF MemoryNext

\* What happened stays, and the sequence never decreases.
LEMMA HappenedKept ==
  ASSUME MemoryInv, [MemoryNext]_memoryVars
  PROVE  /\ \A o, d, s : Happened(done, docs, o, d, s) => Happened(done', docs', o, d, s)
         /\ \A s \in 1..storageSeq : docs'[s] = docs[s]
         /\ storageSeq \in Nat /\ storageSeq' \in Nat /\ storageSeq <= storageSeq'
<1>0. storageSeq \in Nat /\ Len(done) = storageSeq
  BY DEF MemoryInv, MemoryTyped, EngineSound
<1>1. ASSUME NEW o \in Ops, Applicable(o, storage), Mutate(o)
      PROVE  /\ storageSeq' = storageSeq + 1 /\ Len(done') = storageSeq + 1
             /\ \A i \in 1..storageSeq : docs'[i] = docs[i] /\ done'[i] = done[i]
  BY <1>1, MutateAppends
<1>2. CASE UNCHANGED <<docs, done, storageSeq>>
  BY <1>0, <1>2 DEF Happened
<1>3. UNCHANGED <<docs, done, storageSeq>> \/ \E o \in Ops : Applicable(o, storage) /\ Mutate(o)
  BY EngineCalls DEF MemoryNext, SendStorage, AnswerKnown, Refuse, broadcastStorageFanout,
     storageAckMessage, FanoutFails, AckFails, unregisterConn, memoryVars, engineVars
<1>4. QED BY <1>0, <1>1, <1>2, <1>3 DEF Happened

\* Every step keeps what the engine knows.
LEMMA EngineSoundKept == MemoryInv /\ [MemoryNext]_memoryVars => EngineSound'
<1> SUFFICES ASSUME MemoryInv, [MemoryNext]_memoryVars PROVE EngineSound'
  OBVIOUS
<1>1. CASE UNCHANGED <<storage, storageSeq, storageOps, docs, done>>
  BY <1>1 DEF MemoryInv, EngineSound, Happened
<1>2. ASSUME NEW o \in Ops, ~Known(o), Applicable(o, storage), Mutate(o) PROVE EngineSound'
  <2>1. /\ storageSeq' = storageSeq + 1 /\ storageSeq \in Nat
        /\ Len(docs') = storageSeq + 1 /\ Len(done') = storageSeq + 1
        /\ docs'[storageSeq + 1] = storage' /\ done'[storageSeq + 1] = o
        /\ Len(done) = storageSeq
        /\ \A i \in 1..storageSeq : docs'[i] = docs[i] /\ done'[i] = done[i]
    BY <1>2, MutateAppends
  <2>2. /\ DOMAIN storageOps' = DOMAIN storageOps \cup {OpID[o]} /\ OpID[o] \notin DOMAIN storageOps
        /\ storageOps'[OpID[o]].op = o /\ storageOps'[OpID[o]].doc = storage'
        /\ storageOps'[OpID[o]].seq = storageSeq + 1
        /\ \A id \in DOMAIN storageOps : storageOps'[id] = storageOps[id]
    <3> DEFINE r == [op |-> o, doc |-> storage', seq |-> storageSeq + 1]
    <3>1. r.op = o /\ r.doc = storage' /\ r.seq = storageSeq + 1
      OBVIOUS
    <3>2. storageOps'[OpID[o]] = r
      BY <1>2, MutateRecords
    <3> HIDE DEF r
    <3>3. /\ DOMAIN storageOps' = DOMAIN storageOps \cup {OpID[o]}
          /\ \A id \in DOMAIN storageOps : id # OpID[o] => storageOps'[id] = storageOps[id]
      BY <1>2, MutateRecords
    <3>4. OpID[o] \notin DOMAIN storageOps
      BY <1>2 DEF Known
    <3>5. QED BY <3>1, <3>2, <3>3, <3>4
  <2>3. /\ \A id \in DOMAIN storageOps : LET r == storageOps[id] IN
              OpID[r.op] = id /\ Happened(done, docs, r.op, r.doc, r.seq)
        /\ \A i \in 1..storageSeq : /\ OpID[done[i]] \in DOMAIN storageOps
                                    /\ storageOps[OpID[done[i]]].seq = i
    BY <2>1 DEF MemoryInv, EngineSound
  <2>4. ASSUME NEW id \in DOMAIN storageOps'
        PROVE  LET r == storageOps'[id] IN
               /\ OpID[r.op] = id
               /\ Happened(done', docs', r.op, r.doc, r.seq)
    <3>1. CASE id = OpID[o]
      BY <2>1, <2>2, <3>1 DEF Happened
    <3>2. CASE id \in DOMAIN storageOps
      BY <2>2, <2>3, <3>2, HappenedKept
    <3>3. QED BY <2>2, <3>1, <3>2
  <2>5. ASSUME NEW i \in 1..Len(done')
        PROVE  OpID[done'[i]] \in DOMAIN storageOps' /\ storageOps'[OpID[done'[i]]].seq = i
    <3>1. CASE i = storageSeq + 1
      BY <2>1, <2>2, <3>1
    <3>2. CASE i \in 1..storageSeq
      BY <2>1, <2>2, <2>3, <3>2
    <3>3. QED BY <2>1, <3>1, <3>2
  <2>6. QED BY <2>1, <2>4, <2>5 DEF EngineSound, Happened
<1>3. ASSUME ~ \E o \in Ops : ~Known(o) /\ Applicable(o, storage) /\ Mutate(o)
      PROVE  UNCHANGED <<storage, storageSeq, storageOps, docs, done>>
  BY <1>3, EngineCalls DEF MemoryNext, SendStorage, AnswerKnown, Refuse, broadcastStorageFanout,
     storageAckMessage, FanoutFails, AckFails, unregisterConn, memoryVars, engineVars
<1>4. QED BY <1>1, <1>2, <1>3

\* Every step keeps what the calls carry: the engine may go on, but a call
\* keeps its own document and sequence.
LEMMA CallsSoundKept == MemoryInv /\ [MemoryNext]_memoryVars => CallsSound'
<1> SUFFICES ASSUME MemoryInv, [MemoryNext]_memoryVars PROVE CallsSound'
  OBVIOUS
<1>a. /\ call \in [Ops -> Call] /\ CallsSound /\ EngineSound
      /\ \A o \in Ops : call[o].tries \in Nat
  <2>1. call \in [Ops -> Call]
    BY DEF MemoryInv, MemoryTyped
  <2>2. QED BY <2>1, CallFields DEF MemoryInv
<1>b. \A o, d, s : Happened(done, docs, o, d, s) => Happened(done', docs', o, d, s)
  BY HappenedKept
<1> DEFINE CallOK(o) ==
      /\ call'[o].stage \in {"ack", "fanout", "acked"} => Happened(done', docs', o, call'[o].doc, call'[o].seq)
      /\ call'[o].tries = 0 => call'[o].stage = "idle" /\ \A i \in DOMAIN done' : done'[i] # o
<1>1. (\A o \in Ops : CallOK(o)) => CallsSound'
  BY DEF CallsSound
<1>2. ASSUME NEW o \in Ops, call'[o] = call[o], done' = done PROVE CallOK(o)
  BY <1>2, <1>a, <1>b DEF CallsSound
<1>3. CASE UNCHANGED <<call, done>>
  BY <1>1, <1>2, <1>3
<1> HIDE DEF CallOK
<1>4. ASSUME NEW o \in Ops, SendStorage(o) PROVE CallsSound'
  <2>1. /\ \A p \in Ops : p # o => call'[p] = call[p]
        /\ done' = done /\ call'[o].stage = "received" /\ call'[o].tries = call[o].tries + 1
    <3>1. call' = [call EXCEPT ![o] = [call[o] EXCEPT !.stage = "received", !.tries = @ + 1]]
      BY <1>4 DEF SendStorage, engineVars
    <3>2. /\ [call[o] EXCEPT !.stage = "received", !.tries = @ + 1].stage = "received"
          /\ [call[o] EXCEPT !.stage = "received", !.tries = @ + 1].tries = call[o].tries + 1
      BY <1>a DEF Call
    <3>3. QED BY <1>4, <1>a, <3>1, <3>2 DEF SendStorage, engineVars
  <2>2. CallOK(o)
    BY <1>a, <2>1 DEF CallOK
  <2>3. QED BY <1>1, <1>2, <2>1, <2>2
\* What the engine and the answers do to the call: its tries stay, and it
\* has been sent.
<1>5. ASSUME NEW o \in Ops, call[o].stage # "idle", NEW k, call' = [call EXCEPT ![o] = k],
             k.tries = call[o].tries, done' = done,
             k.stage \in {"ack", "fanout", "acked"} => Happened(done', docs', o, k.doc, k.seq)
      PROVE  CallsSound'
  <2>1. CallOK(o)
    BY <1>5, <1>a DEF CallOK, CallsSound
  <2>2. QED BY <1>1, <1>2, <1>5, <1>a, <2>1
<1>6. ASSUME NEW o \in Ops, call[o].stage = "received", Known(o), AnswerKnown(o) PROVE CallsSound'
  <2> DEFINE r == storageOps[OpID[o]]
             k == [call[o] EXCEPT !.stage = IF r.op = o THEN "ack" ELSE "refused",
                                  !.doc = r.doc, !.seq = r.seq]
  <2>1. call' = [call EXCEPT ![o] = k] /\ done' = done
    BY <1>6 DEF AnswerKnown, storageOpMutationLocked, engineVars
  <2>2. /\ k.tries = call[o].tries /\ k.doc = r.doc /\ k.seq = r.seq
        /\ k.stage = IF r.op = o THEN "ack" ELSE "refused"
    BY <1>a DEF Call
  <2>3. Happened(done', docs', r.op, r.doc, r.seq)
    BY <1>6, <1>a, <1>b DEF EngineSound, Known
  <2> HIDE DEF k, r
  <2>4. QED BY <1>5, <1>6, <2>1, <2>2, <2>3
<1>7. ASSUME NEW o \in Ops, call[o].stage = "received", Refuse(o) PROVE CallsSound'
  <2> DEFINE k == [call[o] EXCEPT !.stage = "refused"]
  <2>1. call' = [call EXCEPT ![o] = k] /\ done' = done
    BY <1>7 DEF Refuse, engineVars
  <2>2. k.tries = call[o].tries /\ k.stage = "refused"
    BY <1>a DEF Call
  <2> HIDE DEF k
  <2>3. QED BY <1>5, <1>7, <2>1, <2>2
<1>8. ASSUME NEW o \in Ops, call[o].stage = "received", Applicable(o, storage), Mutate(o)
      PROVE  CallsSound'
  <2> DEFINE k == [call[o] EXCEPT !.stage = "fanout", !.doc = storage', !.seq = storageSeq + 1,
                                  !.todo = InRoom \ {Origin[o]}]
  <2>1. call' = [call EXCEPT ![o] = k]
    BY <1>8 DEF Mutate
  <2>2. k.tries = call[o].tries /\ k.doc = storage' /\ k.seq = storageSeq + 1
    BY <1>a DEF Call
  <2>3. /\ storageSeq \in Nat /\ Len(done') = storageSeq + 1 /\ done' \in Seq(Ops)
        /\ docs'[storageSeq + 1] = storage' /\ done'[storageSeq + 1] = o
        /\ done \in Seq(Ops) /\ Len(done) = storageSeq
        /\ \A i \in 1..storageSeq : done'[i] = done[i]
    <3>1. done \in Seq(Ops)
      BY DEF MemoryInv, MemoryTyped
    <3>2. QED BY <1>8, <3>1, MutateAppends
  <2> HIDE DEF k
  <2>4. CallOK(o)
    <3>1. Happened(done', docs', o, storage', storageSeq + 1)
      BY <2>3 DEF Happened
    <3>2. call'[o] = k /\ call[o].tries # 0
      BY <1>8, <1>a, <2>1 DEF CallsSound
    <3>3. QED BY <2>2, <3>1, <3>2 DEF CallOK
  <2>5. ASSUME NEW p \in Ops, p # o PROVE CallOK(p)
    <3>1. call'[p] = call[p]
      BY <1>a, <2>1, <2>5
    <3>2. (\A i \in DOMAIN done : done[i] # p) => \A i \in DOMAIN done' : done'[i] # p
      <4>1. DOMAIN done = 1..storageSeq /\ DOMAIN done' = 1..storageSeq + 1
        BY <2>3
      <4>2. QED BY <2>3, <2>5, <4>1
    <3>3. QED BY <1>a, <1>b, <3>1, <3>2 DEF CallOK, CallsSound
  <2>6. QED BY <1>1, <2>4, <2>5
<1>9. ASSUME NEW o \in Ops, NEW c \in Members, broadcastStorageFanout(o, c) PROVE CallsSound'
  <2> DEFINE k == [call[o] EXCEPT !.todo = @ \ {c}]
  <2>1. call' = [call EXCEPT ![o] = k] /\ done' = done /\ call[o].stage = "fanout"
    BY <1>9 DEF broadcastStorageFanout, engineVars
  <2>2. k.tries = call[o].tries /\ k.doc = call[o].doc /\ k.seq = call[o].seq
    BY <1>a DEF Call
  <2>3. Happened(done', docs', o, call[o].doc, call[o].seq)
    BY <1>a, <1>b, <2>1 DEF CallsSound
  <2> HIDE DEF k
  <2>4. QED BY <1>5, <2>1, <2>2, <2>3
<1>10. ASSUME NEW o \in Ops, storageAckMessage(o) PROVE CallsSound'
  <2> DEFINE k == [call[o] EXCEPT !.stage = "acked"]
  <2>1. call' = [call EXCEPT ![o] = k] /\ done' = done /\ call[o].stage \in {"ack", "fanout"}
    BY <1>10 DEF storageAckMessage, Answering, engineVars
  <2>2. k.tries = call[o].tries /\ k.doc = call[o].doc /\ k.seq = call[o].seq
    BY <1>a DEF Call
  <2>3. Happened(done', docs', o, call[o].doc, call[o].seq)
    BY <1>a, <1>b, <2>1 DEF CallsSound
  <2> HIDE DEF k
  <2>4. QED BY <1>5, <2>1, <2>2, <2>3
<1>11. ASSUME NEW o \in Ops, AnswerKnown(o) PROVE Known(o)
  BY <1>11 DEF AnswerKnown, engineVars
<1>12. ASSUME NEW o \in Ops, NEW d, FanoutFails(o, d) \/ AckFails(o) PROVE CallsSound'
  <2> DEFINE k == [call[o] EXCEPT !.stage = "lost"]
  <2>1. call' = [call EXCEPT ![o] = k] /\ done' = done /\ call[o].stage \in {"ack", "fanout"}
    BY <1>12 DEF FanoutFails, AckFails, Answering, engineVars
  <2>2. k.tries = call[o].tries /\ k.stage = "lost"
    BY <1>a DEF Call
  <2> HIDE DEF k
  <2>3. QED BY <1>5, <2>1, <2>2
\* A call that was not read yet has been sent.
<1>13. ASSUME NEW c \in Members, unregisterConn(c) PROVE CallsSound'
  <2>1. ASSUME NEW o \in Ops PROVE CallOK(o)
    <3>1. done' = done
      BY <1>13 DEF unregisterConn, engineVars
    <3>2. CASE Origin[o] = c /\ call[o].stage = "received"
      <4>1. call'[o] = [call[o] EXCEPT !.stage = "lost"]
        BY <1>13, <3>2 DEF unregisterConn
      <4>2. call'[o].stage = "lost" /\ call'[o].tries = call[o].tries
        BY <4>1, <1>a DEF Call
      <4>3. QED BY <1>a, <3>2, <4>2 DEF CallOK, CallsSound
    <3>3. CASE ~(Origin[o] = c /\ call[o].stage = "received")
      <4>1. call'[o] = call[o]
        BY <1>13, <3>3 DEF unregisterConn
      <4>2. QED BY <1>2, <3>1, <4>1
    <3>4. QED BY <3>2, <3>3
  <2>2. QED BY <1>1, <2>1
<1>14. CASE UNCHANGED memoryVars
  BY <1>3, <1>14 DEF memoryVars, engineVars
<1>15. QED
  BY <1>4, <1>6, <1>7, <1>8, <1>9, <1>10, <1>11, <1>12, <1>13, <1>14, EngineCalls DEF MemoryNext

\* What a message does to the views.
LEMMA ViewsShow ==
  ASSUME MemoryInv, NEW o \in Ops, NEW c \in Members,
         memberView' = MemberShows(c, call[o].doc, call[o].seq)
  PROVE  /\ \A m \in Members : m # c => memberView'[m] = memberView[m]
         /\ IF socket[c] = "open" /\ call[o].seq > memberView[c].seq
            THEN memberView'[c].doc = call[o].doc /\ memberView'[c].seq = call[o].seq
            ELSE memberView'[c] = memberView[c]
<1>1. memberView \in [Members -> [doc : Documents, seq : Nat]]
  BY DEF MemoryInv, MemoryTyped
<1>2. CASE socket[c] = "open" /\ call[o].seq > memberView[c].seq
  <2>1. memberView' = [memberView EXCEPT ![c] = [doc |-> call[o].doc, seq |-> call[o].seq]]
    BY <1>2 DEF MemberShows, IsNewer
  <2>2. QED BY <1>1, <1>2, <2>1
<1>3. CASE ~(socket[c] = "open" /\ call[o].seq > memberView[c].seq)
  BY <1>3 DEF MemberShows, IsNewer
<1>4. QED BY <1>2, <1>3

\* Every step keeps the views sound, in whatever order messages arrive.
LEMMA ViewsSoundKept == MemoryInv /\ [MemoryNext]_memoryVars => ViewsSound'
<1> SUFFICES ASSUME MemoryInv, [MemoryNext]_memoryVars PROVE ViewsSound'
  OBVIOUS
<1>a. /\ ViewsSound /\ CallsSound /\ storageSeq = Len(done)
      /\ \A m \in Members : memberView[m].seq \in Nat
  BY DEF MemoryInv, MemoryTyped, EngineSound
<1>b. /\ \A s \in 1..storageSeq : docs'[s] = docs[s]
      /\ storageSeq \in Nat /\ storageSeq' \in Nat /\ storageSeq <= storageSeq'
  BY HappenedKept
<1> DEFINE ViewOK(c) ==
      /\ memberView'[c].seq <= storageSeq'
      /\ memberView'[c].doc = IF memberView'[c].seq = 0 THEN NoDoc ELSE docs'[memberView'[c].seq]
<1>1. ASSUME NEW c \in Members, memberView'[c] = memberView[c] PROVE ViewOK(c)
  <2>1. memberView[c].seq \in 0..storageSeq
    BY <1>a, <1>b DEF ViewsSound
  <2>2. memberView[c].seq # 0 => docs'[memberView[c].seq] = docs[memberView[c].seq]
    BY <1>b, <2>1
  <2>3. QED BY <1>1, <1>a, <1>b, <2>1, <2>2 DEF ViewsSound
<1>2. ASSUME NEW o \in Ops, NEW c \in Members, call[o].stage \in {"fanout", "ack"},
             memberView' = MemberShows(c, call[o].doc, call[o].seq)
      PROVE  ViewsSound'
  <2>1. Happened(done, docs, o, call[o].doc, call[o].seq)
    BY <1>2, <1>a DEF CallsSound
  <2>2. call[o].seq \in 1..storageSeq /\ docs'[call[o].seq] = call[o].doc
    BY <2>1, <1>a, <1>b DEF Happened
  <2>3. ViewOK(c)
    <3>1. CASE socket[c] = "open" /\ call[o].seq > memberView[c].seq
      BY <1>2, <1>b, <2>2, <3>1, ViewsShow
    <3>2. CASE ~(socket[c] = "open" /\ call[o].seq > memberView[c].seq)
      BY <1>1, <1>2, <3>2, ViewsShow
    <3>3. QED BY <3>1, <3>2
  <2>4. \A m \in Members : m # c => ViewOK(m)
    BY <1>1, <1>2, ViewsShow
  <2>5. QED BY <2>3, <2>4 DEF ViewsSound
<1>3. CASE UNCHANGED memberView
  BY <1>1, <1>3 DEF ViewsSound
<1>4. \/ UNCHANGED memberView
      \/ \E o \in Ops, c \in Members :
            /\ call[o].stage \in {"fanout", "ack"}
            /\ memberView' = MemberShows(c, call[o].doc, call[o].seq)
  BY EngineCalls, MemoryAssumption DEF MemoryNext, SendStorage, AnswerKnown, Refuse, Mutate,
     broadcastStorageFanout, storageAckMessage, Answering, FanoutFails, AckFails, unregisterConn,
     memoryVars
<1>5. QED BY <1>2, <1>3, <1>4

\* No step loses the latest document on its way to a member.
LEMMA LatestComesKept == MemoryInv /\ [MemoryNext]_memoryVars => LatestComes'
<1> SUFFICES ASSUME MemoryInv, [MemoryNext]_memoryVars PROVE LatestComes'
  OBVIOUS
<1>a. /\ LatestComes /\ ViewsSound /\ call \in [Ops -> Call] /\ storageSeq \in Nat
      /\ \A m \in Members : memberView[m].seq \in Nat /\ memberView[m].seq <= storageSeq
      /\ \A o \in Ops : Origin[o] \in Members /\ call[o].seq \in Nat
  <2>1. call \in [Ops -> Call]
    BY DEF MemoryInv, MemoryTyped
  <2>2. QED BY <2>1, CallFields, MemoryAssumption DEF MemoryInv, MemoryTyped, ViewsSound
\* Who is excused from a document stays excused.
<1>b. ASSUME NEW m \in Members, Excused(m), storageSeq' = storageSeq PROVE Excused(m)'
  <2>1. socket \in [Members -> {"open", "closed", "gone"}]
    BY DEF MemoryInv, MemoryTyped
  <2>2. socket[m] # "open" => socket'[m] # "open"
    BY <2>1, EngineCalls DEF MemoryNext, SendStorage, AnswerKnown, Refuse, Mutate,
       broadcastStorageFanout, storageAckMessage, FanoutFails, AckFails, CloseSockets,
       unregisterConn, memoryVars, socketVars
  <2>3. missed \subseteq missed'
    BY EngineCalls DEF MemoryNext, SendStorage, AnswerKnown, Refuse, Mutate,
       broadcastStorageFanout, storageAckMessage, FanoutFails, AckFails, unregisterConn,
       memoryVars, socketVars
  <2>4. QED BY <1>b, <2>2, <2>3 DEF Excused
<1> HIDE DEF Excused
\* A call that announces nothing before the step announces nothing new.
<1>1. ASSUME UNCHANGED <<storageSeq, memberView>>, NEW o \in Ops,
             \A p \in Ops : p # o => call'[p] = call[p],
             call[o].stage # "fanout"
      PROVE  LatestComes'
  BY <1>1, <1>a, <1>b DEF LatestComes, OnItsWay
<1>2. ASSUME NEW o \in Ops, SendStorage(o) PROVE LatestComes'
  <2>1. /\ UNCHANGED <<storageSeq, memberView>> /\ \A p \in Ops : p # o => call'[p] = call[p]
        /\ call[o].stage # "fanout"
    BY <1>2, <1>a DEF SendStorage, engineVars
  <2>2. QED BY <1>1, <2>1
<1>3. ASSUME NEW o \in Ops, call[o].stage = "received", AnswerKnown(o) \/ Refuse(o) PROVE LatestComes'
  <2>1. /\ UNCHANGED <<storageSeq, memberView>> /\ \A p \in Ops : p # o => call'[p] = call[p]
    BY <1>3, <1>a DEF AnswerKnown, Refuse, engineVars
  <2>2. QED BY <1>1, <1>3, <2>1
<1>4. ASSUME NEW o \in Ops, Mutate(o) PROVE LatestComes'
  <2> DEFINE k == [call[o] EXCEPT !.stage = "fanout", !.doc = storage', !.seq = storageSeq + 1,
                                  !.todo = InRoom \ {Origin[o]}]
  <2>1. call' = [call EXCEPT ![o] = k] /\ storageSeq' = storageSeq + 1
    BY <1>4 DEF Mutate
  <2>2. k.stage = "fanout" /\ k.todo = InRoom \ {Origin[o]} /\ k.seq = storageSeq + 1
    BY <1>a DEF Call
  <2> HIDE DEF k
  <2>3. call'[o] = k
    BY <2>1, <1>a
  <2>4. \A m \in Members : socket'[m] = "open" => m \in k.todo \cup {Origin[o]}
    BY <1>4, <2>2 DEF Mutate, InRoom, socketVars
  <2>5. QED BY <2>1, <2>2, <2>3, <2>4, <1>a DEF LatestComes, OnItsWay, Excused
<1>5. ASSUME NEW o \in Ops, NEW c \in Members, call[o].stage \in {"fanout", "ack"},
             memberView' = MemberShows(c, call[o].doc, call[o].seq), storageSeq' = storageSeq,
             \A p \in Ops : p # o => call'[p] = call[p],
             UNCHANGED socketVars,
             \A m \in Members : call[o].stage = "fanout" /\ m \in call[o].todo \cup {Origin[o]} /\ m # c
               => /\ call'[o].stage = "fanout" /\ call'[o].seq = call[o].seq
                  /\ m \in call'[o].todo \cup {Origin[o]}
      PROVE  LatestComes'
  <2> SUFFICES ASSUME NEW m \in Members
               PROVE  Excused(m)' \/ memberView'[m].seq = storageSeq \/ OnItsWay(m)'
    BY <1>5 DEF LatestComes
  <2>0. call[o].seq <= storageSeq
    <3>1. Happened(done, docs, o, call[o].doc, call[o].seq) /\ storageSeq = Len(done)
      BY <1>5 DEF MemoryInv, CallsSound, EngineSound
    <3>2. QED BY <3>1, <1>a DEF Happened
  <2>1. CASE memberView[m].seq = storageSeq
    <3>1. CASE m = c
      BY <1>5, <1>a, <2>0, <2>1, <3>1, ViewsShow
    <3>2. CASE m # c
      BY <1>5, <2>1, <3>2, ViewsShow
    <3>3. QED BY <3>1, <3>2
  <2>2. ASSUME NEW p \in Ops, call[p].stage = "fanout", call[p].seq = storageSeq,
               m \in call[p].todo \cup {Origin[p]}
        PROVE  Excused(m)' \/ memberView'[m].seq = storageSeq \/ OnItsWay(m)'
    <3>1. CASE p # o
      BY <1>5, <2>2, <3>1 DEF OnItsWay
    <3>2. CASE p = o /\ m # c
      BY <1>5, <2>2, <3>2 DEF OnItsWay
    <3>3. CASE p = o /\ m = c
      BY <1>5, <1>a, <2>2, <3>3, ViewsShow DEF Excused, socketVars
    <3>4. QED BY <3>1, <3>2, <3>3
  <2>3. QED BY <1>5, <2>1, <2>2, <1>a, <1>b DEF LatestComes, OnItsWay
<1>6. ASSUME NEW o \in Ops, NEW c \in Members, broadcastStorageFanout(o, c) PROVE LatestComes'
  <2> DEFINE k == [call[o] EXCEPT !.todo = @ \ {c}]
  <2>1. /\ call' = [call EXCEPT ![o] = k] /\ storageSeq' = storageSeq
        /\ memberView' = MemberShows(c, call[o].doc, call[o].seq) /\ call[o].stage = "fanout" /\ UNCHANGED socketVars
    BY <1>6 DEF broadcastStorageFanout, engineVars
  <2>2. k.stage = call[o].stage /\ k.todo = call[o].todo \ {c} /\ k.seq = call[o].seq
    BY <1>a DEF Call
  <2> HIDE DEF k
  <2>3. call'[o] = k /\ \A p \in Ops : p # o => call'[p] = call[p]
    BY <2>1, <1>a
  <2>4. QED BY <1>5, <2>1, <2>2, <2>3
<1>7. ASSUME NEW o \in Ops, storageAckMessage(o) PROVE LatestComes'
  <2>1. /\ \A p \in Ops : p # o => call'[p] = call[p]
        /\ storageSeq' = storageSeq /\ call[o].stage \in {"fanout", "ack"}
        /\ call[o].stage = "fanout" => call[o].todo = {}
        /\ memberView' = MemberShows(Origin[o], call[o].doc, call[o].seq) /\ UNCHANGED socketVars
    BY <1>7, <1>a DEF storageAckMessage, Answering, engineVars
  <2>2. Origin[o] \in Members
    BY <1>a
  <2>3. QED BY <1>5, <2>1, <2>2
\* A call that ends early: whom it had yet to tell is excused.
<1>8. ASSUME NEW o \in Ops, UNCHANGED <<storageSeq, memberView>>,
             \A p \in Ops : p # o => call'[p] = call[p],
             \A m \in Members : call[o].stage = "fanout" /\ m \in call[o].todo \cup {Origin[o]} =>
               socket'[m] # "open" \/ <<m, call[o].seq>> \in missed'
      PROVE  LatestComes'
  <2> SUFFICES ASSUME NEW m \in Members
               PROVE  Excused(m)' \/ memberView[m].seq = storageSeq \/ OnItsWay(m)'
    BY <1>8 DEF LatestComes
  <2>1. ASSUME NEW p \in Ops, call[p].stage = "fanout", call[p].seq = storageSeq,
               m \in call[p].todo \cup {Origin[p]}
        PROVE  Excused(m)' \/ OnItsWay(m)'
    <3>1. CASE p # o
      BY <1>8, <2>1, <3>1 DEF OnItsWay
    <3>2. CASE p = o
      BY <1>8, <2>1, <3>2 DEF Excused
    <3>3. QED BY <3>1, <3>2
  <2>2. QED BY <1>8, <1>a, <1>b, <2>1 DEF LatestComes, OnItsWay
<1>9. ASSUME NEW o \in Ops, NEW d \in Members, FanoutFails(o, d) PROVE LatestComes'
  <2>1. /\ \A p \in Ops : p # o => call'[p] = call[p]
        /\ UNCHANGED <<storageSeq, memberView>>
    BY <1>9, <1>a DEF FanoutFails, engineVars
  <2>2. socket'[d] # "open" /\ socket'[Origin[o]] # "open"
    BY <1>9, <1>a DEF FanoutFails, CloseSockets
  <2>3. \A m \in call[o].todo : m = d \/ <<m, call[o].seq>> \in missed'
    BY <1>9 DEF FanoutFails
  <2>4. QED BY <1>8, <2>1, <2>2, <2>3
<1>10. ASSUME NEW o \in Ops, AckFails(o) PROVE LatestComes'
  <2>1. /\ \A p \in Ops : p # o => call'[p] = call[p]
        /\ UNCHANGED <<storageSeq, memberView>>
        /\ call[o].stage = "fanout" => call[o].todo = {}
    BY <1>10, <1>a DEF AckFails, Answering, engineVars
  <2>2. socket'[Origin[o]] # "open"
    BY <1>10, <1>a DEF AckFails, CloseSockets
  <2>3. QED BY <1>8, <2>1, <2>2
\* The calls that announce something are not those of a connection that ends.
<1>11. ASSUME NEW c \in Members, unregisterConn(c) PROVE LatestComes'
  <2>1. /\ \A p \in Ops : call[p].stage = "fanout" => call'[p] = call[p]
        /\ UNCHANGED <<storageSeq, memberView>>
    BY <1>11, <1>a DEF unregisterConn, engineVars
  <2>2. QED BY <2>1, <1>a, <1>b DEF LatestComes, OnItsWay
<1>12. CASE UNCHANGED memoryVars
  BY <1>12, <1>a, <1>b DEF memoryVars, engineVars, LatestComes, OnItsWay
<1>13. QED
  BY <1>2, <1>3, <1>4, <1>6, <1>7, <1>9, <1>10, <1>11, <1>12, EngineCalls DEF MemoryNext

-----------------------------------------------------------------------------
(* The theorems.                                                           *)

\* MemoryInv holds in every reachable state.
THEOREM MemoryInvariant == MemorySpec => []MemoryInv
<1>1. MemoryInv /\ [MemoryNext]_memoryVars => MemoryInv'
  BY MemoryTypedKept, EngineSoundKept, CallsSoundKept, ViewsSoundKept, LatestComesKept DEF MemoryInv
<1>2. QED BY MemoryStarts, <1>1, PTL DEF MemorySpec

\* Acknowledgements, also of retries, tell what the mutation did; no op id
\* takes effect twice; and when all is quiet every connected member shows
\* the latest document, although the fan-outs of two handlers interleave, but
\* for one that the latest fan-out did not get to.
THEOREM MemberAnswersTrue == MemorySpec => []MemoryAnswers
<1>1. MemoryInv => AcksRepeat
  <2> SUFFICES ASSUME MemoryInv PROVE AcksRepeat
    OBVIOUS
  <2>1. DOMAIN done = 1..Len(done)
    BY DEF MemoryInv, MemoryTyped
  <2>2. ASSUME NEW o \in Ops, call[o].stage = "acked"
        PROVE  call[o].seq \in DOMAIN done /\ done[call[o].seq] = o /\ docs[call[o].seq] = call[o].doc
    BY <2>1, <2>2 DEF MemoryInv, CallsSound, Happened
  <2>3. ASSUME NEW i \in DOMAIN done, NEW j \in DOMAIN done, OpID[done[i]] = OpID[done[j]]
        PROVE  i = j
    BY <2>1, <2>3 DEF MemoryInv, EngineSound
  <2>4. QED BY <2>2, <2>3 DEF AcksRepeat
<1>2. MemoryInv => MembersReachLatest
  <2> SUFFICES ASSUME MemoryInv, \A o \in Ops : call[o].stage \in {"idle", "acked", "refused", "lost"},
                      NEW c \in Members, socket[c] = "open", <<c, storageSeq>> \notin missed
               PROVE  memberView[c] = [doc |-> storage, seq |-> storageSeq]
    BY DEF MembersReachLatest
  <2>1. memberView[c].seq = storageSeq
    BY DEF MemoryInv, LatestComes, OnItsWay, Excused
  <2>2. memberView[c].doc = storage
    BY <2>1 DEF MemoryInv, ViewsSound, EngineSound
  <2>3. memberView[c] \in [doc : Documents, seq : Nat]
    BY DEF MemoryInv, MemoryTyped
  <2>4. QED BY <2>1, <2>2, <2>3
<1>3. QED BY <1>1, <1>2, MemoryInvariant, PTL DEF MemoryAnswers

\* The engine implements the register of the protocol: each step is a
\* request, a commit or a stutter.
THEOREM EngineIsRegister == MemorySpec => MemoryIsRegister
<1>1. MemoryInit => Abstract!SpecInit
  BY DEF MemoryInit, Abstract!SpecInit
<1>2. ASSUME MemoryInv, [MemoryNext]_memoryVars
      PROVE  [Abstract!SpecNext]_<<storage, done, expectedSeq>>
  <2>a. /\ storageSeq = Len(done) /\ storageSeq \in Nat /\ done \in Seq(Ops)
        /\ expectedSeq \in [Ops -> Nat \cup {NoSequence}]
    BY <1>2 DEF MemoryInv, MemoryTyped, EngineSound
  <2>1. ASSUME NEW o \in Ops, SendStorage(o) PROVE [Abstract!SpecNext]_<<storage, done, expectedSeq>>
    <3> DEFINE s == memberView[Origin[o]].seq
    <3>1. UNCHANGED <<storage, done>>
      BY <2>1 DEF SendStorage, engineVars
    <3>2. CASE o \in Cautious /\ call[o].tries = 0
      <4>1. expectedSeq' = [expectedSeq EXCEPT ![o] = s]
        BY <2>1, <3>2 DEF SendStorage, engineVars
      <4>2. \A i \in DOMAIN done : done[i] # o
        BY <1>2, <3>2 DEF MemoryInv, CallsSound
      <4>3. s \in 0..Len(done)
        BY <1>2, <2>a, MemoryAssumption DEF MemoryInv, MemoryTyped, ViewsSound
      <4>4. Abstract!Request(o, s)
        BY <3>1, <4>1, <4>2 DEF Abstract!Request
      <4>5. QED BY <4>3, <4>4 DEF Abstract!SpecNext
    <3>3. CASE ~(o \in Cautious /\ call[o].tries = 0)
      BY <2>1, <2>a, <3>1, <3>3 DEF SendStorage, engineVars
    <3>4. QED BY <3>2, <3>3
  <2>2. ASSUME NEW o \in Ops, ~Known(o), ExpectedMet(o), Applicable(o, storage), Mutate(o)
        PROVE  Abstract!Commit(o)
    <3>1. \A i \in DOMAIN done : done[i] # o
      BY <1>2, <2>2, <2>a DEF MemoryInv, EngineSound, Known
    <3>2. /\ storage' = ApplyOp(o, storage) /\ done' = Append(done, o) /\ expectedSeq' = expectedSeq
      BY <2>2 DEF Mutate
    <3>3. /\ Abstract!Applicable(o, storage) <=> Applicable(o, storage)
          /\ Abstract!ApplyOp(o, storage) = ApplyOp(o, storage)
      BY DEF Abstract!Applicable, Applicable, Abstract!ApplyOp, ApplyOp
    <3>4. QED BY <2>2, <2>a, <3>1, <3>2, <3>3 DEF Abstract!Commit, ExpectedMet
  <2>3. \/ UNCHANGED <<storage, done, expectedSeq>>
        \/ \E o \in Ops : SendStorage(o)
        \/ \E o \in Ops : ~Known(o) /\ ExpectedMet(o) /\ Applicable(o, storage) /\ Mutate(o)
    BY <1>2, EngineCalls DEF MemoryNext, AnswerKnown, Refuse, broadcastStorageFanout,
       storageAckMessage, FanoutFails, AckFails, unregisterConn, memoryVars, engineVars
  <2>4. QED BY <2>1, <2>2, <2>3 DEF Abstract!SpecNext
<1>3. QED
  BY <1>1, <1>2, MemoryInvariant, PTL DEF MemorySpec, MemoryIsRegister, Abstract!AbstractStorage
=============================================================================
