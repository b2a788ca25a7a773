---------------------------- MODULE MemoryStorage ----------------------------
(***************************************************************************)
(* The storage of a room in a runtime without Redis: the engine keeps the  *)
(* document, its sequence and what every op id did, and changes them under *)
(* its mutex (server/internal/roomengine/engine.go, setStorageMutation and *)
(* applyStoragePatchMutation). The fan-out and the answer come after the   *)
(* mutex is released, so those of two connections interleave               *)
(* (server/internal/runtime/service.go, handleStorageSet and               *)
(* handleStoragePatch). The engine's delete is called by no handler.       *)
(* Documents are StorageDocument's. A member's client shows the document   *)
(* with the highest sequence it was sent. An enqueue fails on a closed     *)
(* socket and on a full queue, whose socket it closes; the first that      *)
(* fails ends the fan-out, the handler and the sender's connection.        *)
(***************************************************************************)
EXTENDS StorageDocument, FiniteSets

CONSTANTS
    Members,    \* connections in the room
    OpID,       \* OpID[o]: the op id of a mutation; two may share one
    Origin,     \* Origin[o]: the connection that sends it
    Cautious,   \* mutations with an expected sequence
    MaxTries,   \* bound: times a mutation is sent
    MaxClosures \* bound: sockets closed by their peer or for a full queue

ASSUME MemoryAssumption ==
    /\ Origin \in [Ops -> Members] /\ Cautious \subseteq Ops
    /\ MaxTries \in Nat /\ MaxClosures \in Nat

VARIABLES
    storage, storageSeq, \* the document and its sequence
    storageOps,          \* op id :> [op, doc, seq] of what it did
    call,                \* call[o]: [stage, tries, todo, doc, seq]
    expectedSeq,         \* expectedSeq[o]
    memberView,          \* memberView[c]: [doc, seq] the client shows
    socket,              \* socket[c]: "open", "closed", or "gone" from the room
    closures,            \* counter for the bound
    docs,                \* history: the documents, one for each sequence
    done,                \* history: the mutations that took effect, in order
    missed               \* history: <<c, seq>>, the fan-out of seq ended before c

engineVars == <<storage, storageSeq, storageOps, docs, done>>
socketVars == <<socket, closures, missed>>

memoryVars == <<engineVars, call, expectedSeq, memberView, socketVars>>

Idle0 == [stage |-> "idle", tries |-> 0, todo |-> {}, doc |-> NoDoc, seq |-> 0]

MemoryInit ==
    /\ storage = NoDoc /\ storageSeq = 0
    /\ storageOps = [id \in {} |-> 0]
    /\ call = [o \in Ops |-> Idle0]
    /\ expectedSeq = [o \in Ops |-> NoSequence]
    /\ memberView = [c \in Members |-> [doc |-> NoDoc, seq |-> 0]]
    /\ socket = [c \in Members |-> "open"] /\ closures = 0
    /\ docs = << >> /\ done = << >> /\ missed = {}

\* A connection reads its next message when it is done with the last one. A
\* client sends a mutation again with the sequence it gave it first.
SendStorage(o) ==
    /\ socket[Origin[o]] = "open"
    /\ \A p \in Ops : Origin[p] = Origin[o] => call[p].stage \in {"idle", "acked", "refused"}
    /\ call[o].tries < MaxTries
    /\ call' = [call EXCEPT ![o].stage = "received", ![o].tries = @ + 1]
    /\ expectedSeq' = [expectedSeq EXCEPT ![o] =
            IF o \in Cautious /\ call[o].tries = 0 THEN memberView[Origin[o]].seq ELSE @]
    /\ UNCHANGED <<engineVars, memberView, socketVars>>

-----------------------------------------------------------------------------
(* The engine, under its mutex.                                            *)

\* Faulty variant: a retry is answered with the document there is.
CurrentAnswer(o) == [op |-> o, doc |-> storage, seq |-> storageSeq]

\* What the op id of o did, kept by rememberStorageOpLocked.
storageOpMutationLocked(o) == storageOps[OpID[o]]

Known(o) == OpID[o] \in DOMAIN storageOps

\* Faulty variant: the expected sequence is not looked at.
ExpectedIgnored(o) == TRUE

ExpectedMet(o) == expectedSeq[o] \in {NoSequence, storageSeq}

\* A known op id is answered again, or refused to another mutation.
AnswerKnown(o) ==
    /\ Known(o)
    /\ call' = [call EXCEPT
            ![o].stage = IF storageOps[OpID[o]].op = o THEN "ack" ELSE "refused",
            ![o].doc = storageOpMutationLocked(o).doc,
            ![o].seq = storageOpMutationLocked(o).seq]
    /\ UNCHANGED <<engineVars, expectedSeq, memberView, socketVars>>

Refuse(o) ==
    /\ call' = [call EXCEPT ![o].stage = "refused"]
    /\ UNCHANGED <<engineVars, expectedSeq, memberView, socketVars>>

InRoom == {c \in Members : socket[c] # "gone"}

\* The mutation, its op record, and the plan of its fan-out: the members then.
Mutate(o) ==
    LET new == ApplyOp(o, storage) IN
    /\ storage' = new /\ storageSeq' = storageSeq + 1
    /\ storageOps' = [id \in DOMAIN storageOps \cup {OpID[o]} |->
            IF id = OpID[o] THEN [op |-> o, doc |-> new, seq |-> storageSeq + 1] ELSE storageOps[id]]
    /\ call' = [call EXCEPT ![o].stage = "fanout", ![o].doc = new, ![o].seq = storageSeq + 1,
                 ![o].todo = InRoom \ {Origin[o]}]
    /\ docs' = Append(docs, new) /\ done' = Append(done, o)
    /\ UNCHANGED <<expectedSeq, memberView, socketVars>>

setStorageMutation(o) ==
    /\ call[o].stage = "received" /\ Kind[o] = "set"
    /\ \/ AnswerKnown(o)
       \/ ~Known(o) /\ ~ExpectedMet(o) /\ Refuse(o)
       \/ ~Known(o) /\ ExpectedMet(o) /\ Mutate(o)

applyStoragePatchMutation(o) ==
    /\ call[o].stage = "received" /\ Kind[o] = "patch"
    /\ \/ AnswerKnown(o)
       \/ ~Known(o) /\ (~Applicable(o, storage) \/ ~ExpectedMet(o)) /\ Refuse(o)
       \/ ~Known(o) /\ Applicable(o, storage) /\ ExpectedMet(o) /\ Mutate(o)

-----------------------------------------------------------------------------
(* After the mutex: STORAGE_UPDATE to the others, then STORAGE_ACK.        *)

IsNewer(seq, shown) == seq > shown

MemberShows(c, doc, seq) ==
    IF socket[c] = "open" /\ IsNewer(seq, memberView[c].seq)
    THEN [memberView EXCEPT ![c] = [doc |-> doc, seq |-> seq]] ELSE memberView

\* A socket that is not open may accept what nobody will write, or have left
\* the node's table.
broadcastStorageFanout(o, c) ==
    /\ call[o].stage = "fanout" /\ c \in call[o].todo
    /\ memberView' = MemberShows(c, call[o].doc, call[o].seq)
    /\ call' = [call EXCEPT ![o].todo = @ \ {c}]
    /\ UNCHANGED <<engineVars, expectedSeq, socketVars>>

\* A duplicate is acknowledged without a fan-out.
Answering(o) == call[o].stage = "ack" \/ (call[o].stage = "fanout" /\ call[o].todo = {})

storageAckMessage(o) ==
    /\ Answering(o) /\ socket[Origin[o]] = "open"
    /\ memberView' = MemberShows(Origin[o], call[o].doc, call[o].seq)
    /\ call' = [call EXCEPT ![o].stage = "acked"]
    /\ UNCHANGED <<engineVars, expectedSeq, socketVars>>

-----------------------------------------------------------------------------
(* Sockets fail.                                                           *)

\* An enqueue to d fails: it is closed, or its queue is full.
Refuses(d) ==
    \/ socket[d] # "open" /\ UNCHANGED closures
    \/ socket[d] = "open" /\ closures < MaxClosures /\ closures' = closures + 1

CloseSockets(cs) ==
    socket' = [c \in Members |-> IF c \in cs /\ socket[c] = "open" THEN "closed" ELSE socket[c]]

\* The fan-out ends at d and the handler returns the error: no
\* acknowledgement, and the read loop of the sender ends.
FanoutFails(o, d) ==
    /\ call[o].stage = "fanout" /\ d \in call[o].todo /\ Refuses(d)
    /\ CloseSockets({d, Origin[o]})
    /\ missed' = missed \cup {<<c, call[o].seq>> : c \in call[o].todo \ {d}}
    /\ call' = [call EXCEPT ![o].stage = "lost"]
    /\ UNCHANGED <<engineVars, expectedSeq, memberView>>

\* The acknowledgement fails, or is not written any more.
AckFails(o) ==
    /\ Answering(o) /\ Refuses(Origin[o])
    /\ CloseSockets({Origin[o]})
    /\ call' = [call EXCEPT ![o].stage = "lost"]
    /\ UNCHANGED <<engineVars, expectedSeq, memberView, missed>>

\* The read loop of c ends, on a closed socket or because the peer hung up.
\* What was sent and not read is lost.
unregisterConn(c) ==
    /\ \A o \in Ops : Origin[o] = c => call[o].stage \notin {"ack", "fanout"}
    /\ socket[c] # "gone" /\ Refuses(c)
    /\ socket' = [socket EXCEPT ![c] = "gone"]
    /\ call' = [o \in Ops |-> IF Origin[o] = c /\ call[o].stage = "received"
                              THEN [call[o] EXCEPT !.stage = "lost"] ELSE call[o]]
    /\ UNCHANGED <<engineVars, expectedSeq, memberView, missed>>

MemoryNext ==
    \/ \E o \in Ops :
        \/ SendStorage(o) \/ setStorageMutation(o) \/ applyStoragePatchMutation(o)
        \/ storageAckMessage(o) \/ AckFails(o)
        \/ \E c \in Members : broadcastStorageFanout(o, c) \/ FanoutFails(o, c)
    \/ \E c \in Members : unregisterConn(c)

MemorySpec == MemoryInit /\ [][MemoryNext]_memoryVars

-----------------------------------------------------------------------------
Abstract == INSTANCE StorageSpec WITH doc <- storage, log <- done, expected <- expectedSeq

\* The engine implements the register the protocol promises: it takes the
\* mutations one at a time, each at most once and at its expected sequence.
MemoryIsRegister == Abstract!AbstractStorage

\* An acknowledgement tells what the mutation did when it took effect, its
\* document and its sequence, however late it was sent again and whatever was
\* committed since; and no op id takes effect twice, whoever uses it.
AcksRepeat ==
    /\ \A o \in Ops : call[o].stage = "acked" =>
            call[o].seq \in DOMAIN done /\ done[call[o].seq] = o /\ docs[call[o].seq] = call[o].doc
    /\ \A i, j \in DOMAIN done : OpID[done[i]] = OpID[done[j]] => i = j

\* Once all is quiet every connected member shows the latest document,
\* although the fan-outs of two mutations may reach it in the other order.
\* Left out is one the latest fan-out did not get to because another socket
\* failed before it: nothing sends it that document again.
MembersReachLatest ==
    (\A o \in Ops : call[o].stage \in {"idle", "acked", "refused", "lost"}) =>
        \A c \in Members :
            socket[c] = "open" /\ <<c, storageSeq>> \notin missed =>
                memberView[c] = [doc |-> storage, seq |-> storageSeq]

\* Clients of a runtime without Redis are told the truth: the sender by its
\* acknowledgement, also of a retry, and the members by the fan-outs.
MemoryAnswers == AcksRepeat /\ MembersReachLatest
=============================================================================
