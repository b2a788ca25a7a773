----------------------------- MODULE YjsProofs -----------------------------
(***************************************************************************)
(* Proofs about YjsLog, for any clients, nodes, edits and limits: the      *)
(* slots of a room are those of its sockets; with at most one compactor a  *)
(* stored edit stays in the document unless a compactor overtook it, and   *)
(* when nothing is under way every open client has every stored edit that  *)
(* was neither overtaken nor cut short.                                    *)
(***************************************************************************)
EXTENDS YjsLog, FiniteSetTheorems, WellFoundedInduction, TLAPS

-----------------------------------------------------------------------------
(* The inductive invariants.                                               *)

\* The engine's slots and the runtime's connections, by the handlers' stages.
SlotsFollow ==
    /\ yjsRooms = {c \in Clients : stage[c] # "off"}
    /\ yjsConns = {c \in Clients : Online(c)}

\* The limit on a node's sockets.
WithinLimit ==
    RoomConnections > 0 =>
        \A n \in Nodes : Cardinality({c \in yjsRooms : NodeOf[c] = n}) <= RoomConnections

\* Nothing has a sequence that was not drawn, and a sequence drawn for an
\* update that is still to be added belongs to that update only.
SequencesDrawn ==
    /\ snapshot.checkpoint <= sequence
    /\ \A k \in Compactors : cload[k].checkpoint <= sequence
    /\ \A u \in updates : u.seq <= sequence
    /\ \A c \in Clients : stage[c] = "append" =>
          /\ work[c].seq <= sequence
          /\ \A u \in updates : u.seq # work[c].seq
          /\ \A d \in Clients : stage[d] = "append" /\ work[d].seq = work[c].seq => d = c

\* An outstanding update is above a checkpoint, or counted as overtaken.
AboveOrOvertaken(checkpoint) ==
    \A c \in Clients : stage[c] = "append" =>
        work[c].seq > checkpoint \/ work[c].edits \subseteq overtaken

\* What the compactor holds: the snapshot it read, then a document that with
\* the updates above its checkpoint has everything stored.
CompactorSound ==
    \A k \in Compactors :
        /\ cstage[k] = "snapshot" => cload[k] = snapshot
        /\ cstage[k] = "store" =>
             /\ stored \ overtaken \subseteq cload[k].edits \cup Merged(After(cload[k].checkpoint))
             /\ AboveOrOvertaken(cload[k].checkpoint)

\* A client has what it sends.
OwnEdits ==
    \A c \in Clients :
        /\ \A i \in 1..Len(inflight[c]) : inflight[c][i] \subseteq doc[c]
        /\ stage[c] \in {"append", "relay", "publish"} => work[c].edits \subseteq doc[c]

\* Between the two round trips of a load that no compaction ran through, the
\* snapshot that was read is the one that is stored.
LoadsCurrent ==
    \A c \in Clients : stage[c] = "replay" /\ c \notin torn =>
        work[c].seq = snapshot.checkpoint /\ work[c].edits = snapshot.edits

\* Edit e of another handler is about to be fanned out to client c: on the
\* origin's node, or on the others.
Carries(d, c, e) ==
    /\ d # c /\ e \in work[d].edits
    /\ \/ stage[d] = "relay"
       \/ stage[d] = "publish" /\ NodeOf[d] # NodeOf[c]

\* Edit e waits in the channel of c's node.
Published(c, e) == \E i \in 1..Len(channel[NodeOf[c]]) : e \in channel[NodeOf[c]][i]

Reaches(c, e) ==
    \/ e \in doc[c]
    \/ stage[c] = "send" /\ e \in work[c].edits
    \/ \E d \in Clients : Carries(d, c, e)
    \/ Published(c, e)

\* The clients that have loaded, by a load that was not torn.
Loaded(c) == stage[c] \in {"send", "open", "append", "relay", "publish"} /\ c \notin torn \cup down

\* Each stored edit is with the client, in what it loaded, or on its way.
EditsReach ==
    \A c \in Clients : Loaded(c) => \A e \in stored \ (overtaken \cup cut) : Reaches(c, e)

SlotsInv == TypeOK /\ SlotsFollow /\ WithinLimit

LogInv == SequencesDrawn /\ StoredSurvives /\ AboveOrOvertaken(snapshot.checkpoint) /\ CompactorSound

ReachInv == OwnEdits /\ LoadsCurrent /\ EditsReach

YjsInv == SlotsInv /\ LogInv /\ ReachInv

-----------------------------------------------------------------------------
(* Sequences, sets of naturals and the operators of the log.               *)

\* The first element and the rest of a sequence.
LEMMA HeadAndTail ==
  ASSUME NEW S, NEW s \in Seq(S), s # << >>
  PROVE  /\ Head(s) \in S /\ Tail(s) \in Seq(S)
         /\ Len(s) \in Nat /\ Len(s) > 0 /\ Head(s) = s[1]
         /\ Len(Tail(s)) = Len(s) - 1
         /\ \A i \in 2..Len(s) : i - 1 \in 1..Len(Tail(s)) /\ Tail(s)[i - 1] = s[i]
         /\ \A i \in 1..Len(Tail(s)) : i + 1 \in 1..Len(s) /\ Tail(s)[i] = s[i + 1]
OBVIOUS

\* A sequence with one more element.
LEMMA Appended ==
  ASSUME NEW S, NEW s \in Seq(S), NEW x \in S
  PROVE  /\ Append(s, x) \in Seq(S)
         /\ Len(Append(s, x)) = Len(s) + 1 /\ Len(s) \in Nat
         /\ Append(s, x)[Len(s) + 1] = x
         /\ \A i \in 1..Len(s) : Append(s, x)[i] = s[i]
OBVIOUS

\* The order of the naturals, as a relation.
LEMMA NatOrder == IsWellFoundedOn({ss \in Nat \X Nat : ss[1] < ss[2]}, Nat)
BY NatLessThanWellFounded DEF OpToRel

\* A nonempty bounded set of naturals contains its maximum.
LEMMA MaxIsMember ==
  ASSUME NEW S \in SUBSET Nat, S # {}, NEW b \in Nat, \A s \in S : s <= b
  PROVE  Max(S) \in S
<1> DEFINE R == {ss \in Nat \X Nat : ss[1] < ss[2]}
           T == {b - s : s \in S}
<1>1. T \subseteq Nat /\ T # {}
  <2>1. \A s \in S : b - s \in Nat
    OBVIOUS
  <2>2. PICK s \in S : TRUE
    OBVIOUS
  <2>3. b - s \in T
    OBVIOUS
  <2>4. QED BY <2>1, <2>3
<1>2. PICK x \in T : \A y \in T : ~ (<<y, x>> \in R)
  <2> HIDE DEF T
  <2>1. IsWellFoundedOn(R, Nat)
    BY NatOrder
  <2> HIDE DEF R
  <2>2. QED BY <1>1, <2>1, WFMin
<1>3. PICK s \in S : x = b - s
  OBVIOUS
<1>4. ASSUME NEW r \in S PROVE s >= r
  <2>1. b - r \in T /\ ~(<<b - r, x>> \in R)
    BY <1>2
  <2>2. QED BY <1>3, <2>1
<1>5. QED BY <1>4 DEF Max

\* Merging updates makes no edit up.
LEMMA MergedEdits ==
  ASSUME NEW us \in SUBSET Update
  PROVE  Merged(us) \subseteq Edits
BY DEF Merged, Update

\* The fields of what Redis, a handler and a compactor hold.
LEMMA LogTypes ==
  ASSUME TypeOK
  PROVE  /\ Document \subseteq Edits
         /\ \A n \in Nat : After(n) \subseteq updates /\ Merged(After(n)) \subseteq Edits
         /\ snapshot.checkpoint \in Nat /\ snapshot.edits \subseteq Edits
         /\ \A u \in updates : u.seq \in Nat /\ u.edits \subseteq Edits
         /\ \A c \in Clients : work[c].seq \in Nat /\ work[c].edits \subseteq Edits
         /\ \A k \in Compactors : cload[k].checkpoint \in Nat /\ cload[k].edits \subseteq Edits
<1>1. \A n \in Nat : After(n) \subseteq updates /\ Merged(After(n)) \subseteq Edits
  BY MergedEdits DEF TypeOK, After
<1>2. snapshot.checkpoint \in Nat /\ snapshot.edits \subseteq Edits
  BY DEF TypeOK, Snapshot
<1>3. /\ \A u \in updates : u.seq \in Nat /\ u.edits \subseteq Edits
      /\ \A c \in Clients : work[c].seq \in Nat /\ work[c].edits \subseteq Edits
      /\ \A k \in Compactors : cload[k].checkpoint \in Nat /\ cload[k].edits \subseteq Edits
  BY DEF TypeOK, Update, Snapshot
<1>4. QED BY <1>1, <1>2, <1>3 DEF Document

\* A compaction's checkpoint is the sequence of an update it merged.
LEMMA CheckpointMerged ==
  ASSUME TypeOK, SequencesDrawn, NEW n \in Nat, After(n) # {}
  PROVE  /\ \E u \in After(n) : Checkpoint(After(n)) = u.seq
         /\ Checkpoint(After(n)) \in Nat /\ Checkpoint(After(n)) <= sequence
<1> DEFINE S == {u.seq : u \in After(n)}
<1>1. S \subseteq Nat /\ S # {} /\ \A s \in S : s <= sequence
  BY LogTypes DEF SequencesDrawn
<1>2. Max(S) \in S
  <2> HIDE DEF S
  <2>1. QED BY <1>1, MaxIsMember DEF TypeOK
<1>3. QED BY <1>1, <1>2 DEF Checkpoint

\* What a provider sends when its socket opens is part of its document.
LEMMA FlushedState ==
  ASSUME TypeOK, NEW c \in Clients
  PROVE  /\ Flush(c) \in Seq(SUBSET Edits)
         /\ \A i \in 1..Len(Flush(c)) : Flush(c)[i] \subseteq doc[c]
<1> DEFINE state(es) == IF dirty[c] \cap es = {} THEN << >> ELSE <<doc[c] \cap es>>
<1>1. ASSUME NEW es \in SUBSET Edits PROVE state(es) \in Seq(SUBSET doc[c])
  <2>1. doc[c] \cap es \in SUBSET doc[c]
    OBVIOUS
  <2>2. \A D : << >> \in Seq(D) /\ \A x \in D : <<x>> \in Seq(D)
    OBVIOUS
  <2>3. QED BY <2>1, <2>2
<1>2. Flush(c) = state(Edits \ Subdocs) \o state(Subdocs)
  BY DEF Flush
<1>3. Subdocs \in SUBSET Edits /\ Edits \ Subdocs \in SUBSET Edits
  BY YjsAssumption
<1> HIDE DEF state
<1>4. Flush(c) \in Seq(SUBSET doc[c])
  BY <1>1, <1>2, <1>3
<1>5. ASSUME NEW s \in Seq(SUBSET doc[c])
      PROVE  s \in Seq(SUBSET Edits) /\ \A i \in 1..Len(s) : s[i] \subseteq doc[c]
  BY DEF TypeOK
<1>6. QED BY <1>4, <1>5

-----------------------------------------------------------------------------
(* What a fan-out and a step can be.                                       *)

\* No client loses an edit.
Grows == \A c \in Clients : doc[c] \subseteq doc'[c]

\* A fan-out that ends reaches every socket it goes to that is not closed.
LEMMA FanOutDelivers ==
  ASSUME TypeOK, NEW n, NEW edits \in SUBSET Edits, NEW origin, FanOut(n, edits, origin)
  PROVE  /\ doc' \in [Clients -> SUBSET Edits] /\ Grows
         /\ \A c \in Targets(n, origin) \ down : edits \subseteq doc'[c]
         /\ UNCHANGED <<connects, failures, cut>>
<1> DEFINE cs == Targets(n, origin) \ down
<1>1. cs \subseteq Clients
  BY DEF TypeOK, Targets
<1>2. doc' = [c \in Clients |-> IF c \in cs THEN doc[c] \cup edits ELSE doc[c]]
  BY DEF FanOut, Deliver
<1> HIDE DEF cs
<1>3. /\ doc' \in [Clients -> SUBSET Edits] /\ Grows
      /\ \A c \in cs : edits \subseteq doc'[c]
  BY <1>1, <1>2 DEF TypeOK, Grows
<1>4. QED BY <1>3 DEF cs, FanOut, countVars

\* A fan-out that stops at an error may reach some of them; its edits are
\* counted as cut.
LEMMA FanOutCuts ==
  ASSUME TypeOK, NEW n, NEW edits \in SUBSET Edits, NEW origin, NEW closed \in SUBSET Clients,
         FanOutFails(n, edits, origin, closed)
  PROVE  /\ doc' \in [Clients -> SUBSET Edits] /\ Grows
         /\ cut' = cut \cup edits /\ closed \subseteq yjsConns /\ closed \cap down = {}
         /\ connects' \in 0..MaxConnects /\ failures' \in 0..MaxFailures
<1>1. PICK got \in SUBSET (Targets(n, origin) \ (down \cup closed)) : Deliver(got, edits)
  BY DEF FanOutFails
<1>2. doc' \in [Clients -> SUBSET Edits] /\ Grows
  BY <1>1 DEF TypeOK, Deliver, Grows
<1>3. connects' \in 0..MaxConnects /\ failures' \in 0..MaxFailures
  BY YjsAssumption DEF FanOutFails, Failure, TypeOK, countVars
<1>4. closed \subseteq yjsConns /\ closed \cap down = {}
  BY DEF FanOutFails, Targets
<1>5. QED BY <1>2, <1>3, <1>4 DEF FanOutFails

\* The disjuncts of Next.
LEMMA YjsSteps ==
  ASSUME TypeOK, Next
  PROVE  \/ \E c \in Clients :
              \/ Register(c) \/ LoadSnapshot(c) \/ LoadUpdates(c) \/ SendInitialYJSDocument(c)
              \/ Receive(c) \/ StoreUpdate(c) \/ Relay(c) \/ PublishYJSEvent(c)
              \/ Reserve(c) \/ UpgradeFails(c) \/ Drop(c) \/ StoreFails(c) \/ PublishFails(c)
         \/ \E c \in Clients, closed \in SUBSET Clients : RelayFails(c, closed)
         \/ \E c, d \in Clients : Sync(c, d)
         \/ \E c \in Clients, e \in Edits : Edit(c, e)
         \/ \E n \in Nodes : HandleClusterYJSEvent(n)
         \/ \E k \in Compactors : ReadSnapshot(k) \/ ReadUpdates(k) \/ Compact(k) \/ CompactFails(k)
<1>1. ASSUME NEW closed \in {{}} \cup {{d} : d \in Clients} PROVE closed \in SUBSET Clients
  OBVIOUS
<1>2. QED BY <1>1 DEF Next, Handler

\* A node takes the first frame of its channel and fans it out, or fails to.
LEMMA HandledFrame ==
  ASSUME TypeOK, NEW n \in Nodes, HandleClusterYJSEvent(n)
  PROVE  /\ channel[n] \in Seq(SUBSET Edits) /\ channel[n] # << >>
         /\ channel' = [channel EXCEPT ![n] = Tail(@)]
         /\ Head(channel[n]) \in SUBSET Edits
         /\ \/ FanOut(n, Head(channel[n]), {}) /\ UNCHANGED down
            \/ \E closed \in SUBSET Clients :
                 FanOutFails(n, Head(channel[n]), {}, closed) /\ down' = down \cup closed
<1>1. channel[n] \in Seq(SUBSET Edits) /\ channel[n] # << >>
  BY DEF TypeOK, HandleClusterYJSEvent
<1>2. Head(channel[n]) \in SUBSET Edits
  BY <1>1, HeadAndTail
<1>3. ASSUME NEW closed \in {{}} \cup {{d} : d \in Clients} PROVE closed \in SUBSET Clients
  OBVIOUS
<1>4. QED BY <1>1, <1>2, <1>3 DEF HandleClusterYJSEvent

-----------------------------------------------------------------------------
(* Types.                                                                  *)

\* The end of a socket keeps the types.
LEMMA Unregistered ==
  ASSUME TypeOK, NEW c \in Clients, Unregister(c)
  PROVE  /\ yjsConns' \subseteq yjsRooms' /\ yjsRooms' \subseteq Clients
         /\ yjsConns' = yjsConns \ {c} /\ yjsRooms' = yjsRooms \ {c}
         /\ stage' \in [Clients -> Stages] /\ work' \in [Clients -> Update]
         /\ inflight' \in [Clients -> Seq(SUBSET Edits)]
         /\ torn' \subseteq Clients
<1>1. NoUpdate \in Update
  BY DEF NoUpdate, Update
<1>2. QED BY <1>1 DEF Unregister, TypeOK, Stages

\* Every step keeps the types.
LEMMA TypeStep ==
  ASSUME TypeOK, SlotsFollow, SequencesDrawn, [Next]_yjsVars
  PROVE  TypeOK'
<1> USE YjsAssumption DEF TypeOK, Update, Snapshot, Stages, NoUpdate, NoSnap
<1>1. ASSUME NEW c \in Clients, Register(c) PROVE TypeOK'
  <2>1. inflight' \in [Clients -> Seq(SUBSET Edits)]
    BY <1>1, FlushedState DEF Register
  <2>2. QED BY <1>1, <2>1 DEF Register, SlotsFollow, redisVars, compVars, countVars, histVars
<1>2. ASSUME NEW c \in Clients, LoadSnapshot(c) PROVE TypeOK'
  BY <1>2 DEF LoadSnapshot, redisVars, sockVars, provVars, compVars, countVars, histVars
<1>3. ASSUME NEW c \in Clients, LoadUpdates(c) PROVE TypeOK'
  <2>1. work[c].edits \cup Merged(After(work[c].seq)) \in SUBSET Edits
    BY LogTypes
  <2>2. work' \in [Clients -> Update]
    <3>1. \A u \in Update, es \in SUBSET Edits : [u EXCEPT !.edits = es] \in Update
      OBVIOUS
    <3>2. work' = [work EXCEPT ![c] = [work[c] EXCEPT !.edits = work[c].edits \cup Merged(After(work[c].seq))]]
      BY <1>3 DEF LoadUpdates
    <3>3. work[c] \in Update
      BY DEF TypeOK
    <3>4. [work[c] EXCEPT !.edits = work[c].edits \cup Merged(After(work[c].seq))] \in Update
      BY <2>1, <3>1, <3>3
    <3>5. QED BY <3>2, <3>4
  <2>3. QED BY <1>3, <2>2 DEF LoadUpdates, redisVars, sockVars, provVars, compVars, countVars, histVars
<1>4. ASSUME NEW c \in Clients, SendInitialYJSDocument(c) PROVE TypeOK'
  BY <1>4 DEF SendInitialYJSDocument, redisVars, sockVars, compVars, countVars, histVars
<1>5. ASSUME NEW c \in Clients, Receive(c) PROVE TypeOK'
  BY <1>5 DEF Receive, sockVars, compVars, countVars, histVars
<1>6. ASSUME NEW c \in Clients, StoreUpdate(c) PROVE TypeOK'
  BY <1>6 DEF StoreUpdate, AppendYJSUpdate, sockVars, provVars, compVars, countVars
<1>7. ASSUME NEW c \in Clients, Relay(c) PROVE TypeOK'
  <2>1. /\ doc' \in [Clients -> SUBSET Edits] /\ UNCHANGED <<connects, failures, cut>>
    BY <1>7, LogTypes, FanOutDelivers DEF Relay
  <2>2. QED BY <1>7, <2>1 DEF Relay, redisVars, sockVars, compVars
<1>8. ASSUME NEW c \in Clients, PublishYJSEvent(c) PROVE TypeOK'
  BY <1>8 DEF PublishYJSEvent, redisVars, sockVars, provVars, compVars, countVars, histVars
<1>9. ASSUME NEW c \in Clients, Reserve(c) PROVE TypeOK'
  BY <1>9 DEF Reserve, redisVars, provVars, compVars, histVars
<1>10. ASSUME NEW c \in Clients, UpgradeFails(c) PROVE TypeOK'
  <2>1. yjsConns' \subseteq yjsRooms'
    BY <1>10 DEF UpgradeFails, SlotsFollow, Online
  <2>2. QED BY <1>10, <2>1 DEF UpgradeFails, redisVars, provVars, compVars, countVars, histVars
<1>11. ASSUME NEW c \in Clients, Drop(c) PROVE TypeOK'
  BY <1>11 DEF Drop, Unregister, redisVars, compVars, countVars
<1>12. ASSUME NEW c \in Clients, StoreFails(c) PROVE TypeOK'
  BY <1>12 DEF StoreFails, Unregister, Failure, AppendYJSUpdate, compVars
<1>13. ASSUME NEW c \in Clients, PublishFails(c) PROVE TypeOK'
  BY <1>13 DEF PublishFails, Unregister, Failure, redisVars, compVars
<1>14. ASSUME NEW c \in Clients, NEW closed \in SUBSET Clients, RelayFails(c, closed) PROVE TypeOK'
  <2>1. /\ doc' \in [Clients -> SUBSET Edits] /\ cut' = cut \cup work[c].edits /\ closed \subseteq yjsConns
        /\ connects' \in 0..MaxConnects /\ failures' \in 0..MaxFailures
    BY <1>14, LogTypes, FanOutCuts DEF RelayFails
  <2>2. cut' \subseteq Edits /\ down' \subseteq yjsConns'
    BY <1>14, <2>1, LogTypes DEF RelayFails, Unregister
  <2>3. UNCHANGED <<redisVars, channel, dirty, compVars, stored, overtaken>> /\ Unregister(c)
    BY <1>14 DEF RelayFails
  <2>4. QED BY <2>1, <2>2, <2>3, Unregistered DEF redisVars, compVars
<1>15. ASSUME NEW c \in Clients, NEW d \in Clients, Sync(c, d) PROVE TypeOK'
  BY <1>15 DEF Sync, redisVars, nodeVars, compVars, countVars, histVars, sockVars
<1>16. ASSUME NEW c \in Clients, NEW e \in Edits, Edit(c, e) PROVE TypeOK'
  <2>1. doc' \in [Clients -> SUBSET Edits]
    BY <1>16 DEF Edit
  <2>2. dirty' \in [Clients -> SUBSET Edits]
    <3>1. dirty' = dirty \/ dirty' = [dirty EXCEPT ![c] = dirty[c] \cup {e}]
      BY <1>16 DEF Edit
    <3>2. dirty[c] \cup {e} \in SUBSET Edits
      OBVIOUS
    <3>3. QED BY <3>1, <3>2, ZenonT(60)
  <2>3. inflight' \in [Clients -> Seq(SUBSET Edits)]
    <3>1. Append(inflight[c], {e}) \in Seq(SUBSET Edits)
      OBVIOUS
    <3>2. QED BY <1>16, <3>1 DEF Edit
  <2>4. QED BY <1>16, <2>1, <2>2, <2>3 DEF Edit, redisVars, nodeVars, sockVars, compVars, countVars, histVars
<1>17. ASSUME NEW n \in Nodes, HandleClusterYJSEvent(n) PROVE TypeOK'
  <2>1. channel' \in [Nodes -> Seq(SUBSET Edits)]
    <3>1. channel' = [channel EXCEPT ![n] = Tail(channel[n])]
      BY <1>17, HandledFrame
    <3>2. Tail(channel[n]) \in Seq(SUBSET Edits)
      BY <1>17, HandledFrame, HeadAndTail
    <3>3. QED BY <3>1, <3>2
  <2>2. /\ doc' \in [Clients -> SUBSET Edits] /\ down' \subseteq yjsConns /\ cut' \subseteq Edits
        /\ connects' \in 0..MaxConnects /\ failures' \in 0..MaxFailures
    <3> DEFINE frame == Head(channel[n])
    <3>1. frame \in SUBSET Edits
      BY <1>17, HandledFrame
    <3>2. CASE FanOut(n, frame, {}) /\ UNCHANGED down
      BY <3>1, <3>2, FanOutDelivers
    <3>3. ASSUME NEW closed \in SUBSET Clients, FanOutFails(n, frame, {}, closed), down' = down \cup closed
          PROVE  /\ doc' \in [Clients -> SUBSET Edits] /\ down' \subseteq yjsConns /\ cut' \subseteq Edits
                 /\ connects' \in 0..MaxConnects /\ failures' \in 0..MaxFailures
      <4>1. /\ doc' \in [Clients -> SUBSET Edits] /\ cut' = cut \cup frame /\ closed \subseteq yjsConns
            /\ connects' \in 0..MaxConnects /\ failures' \in 0..MaxFailures
        BY <3>1, <3>3, FanOutCuts
      <4>2. QED BY <3>1, <3>3, <4>1
    <3>4. QED BY <1>17, <3>2, <3>3, HandledFrame
  <2>3. QED
    BY <1>17, <2>1, <2>2 DEF HandleClusterYJSEvent, redisVars, compVars
<1>18. ASSUME NEW k \in Compactors, ReadSnapshot(k) PROVE TypeOK'
  BY <1>18 DEF ReadSnapshot, redisVars, nodeVars, provVars, countVars, histVars, sockVars
<1>19. ASSUME NEW k \in Compactors, ReadUpdates(k) PROVE TypeOK'
  <2>1. cload' \in [Compactors -> Snapshot] /\ cstage' \in [Compactors -> {"idle", "snapshot", "store"}]
    <3> DEFINE us == After(cload[k].checkpoint)
    <3>1. cload[k].edits \cup Merged(us) \in SUBSET Edits
      BY LogTypes
    <3>2. us # {} => Checkpoint(us) \in Nat
      BY LogTypes, CheckpointMerged
    <3>3. CASE Compactable(us) /\ cload' = [cload EXCEPT ![k] = [checkpoint |-> Checkpoint(us),
                                                               edits |-> @.edits \cup Merged(us)]]
      <4>1. [checkpoint |-> Checkpoint(us), edits |-> cload[k].edits \cup Merged(us)] \in Snapshot
        BY <3>1, <3>2, <3>3 DEF Compactable
      <4>2. QED BY <1>19, <3>3, <4>1 DEF ReadUpdates
    <3>4. CASE cload' = [cload EXCEPT ![k] = NoSnap]
      BY <1>19, <3>4 DEF ReadUpdates
    <3>5. QED BY <1>19, <3>3, <3>4 DEF ReadUpdates
  <2>2. overtaken' \subseteq Edits
    <3> DEFINE late(n) == {work[c] : c \in {d \in Clients : stage[d] = "append" /\ work[d].seq < n}}
    <3>1. ASSUME NEW n PROVE late(n) \in SUBSET Update
      OBVIOUS
    <3>2. ASSUME NEW n PROVE Merged(late(n)) \subseteq Edits
      <4> HIDE DEF late
      <4>1. QED BY <3>1, MergedEdits
    <3>3. overtaken' = overtaken \/ \E n : overtaken' = overtaken \cup Merged(late(n))
      BY <1>19 DEF ReadUpdates
    <3> HIDE DEF late
    <3>4. QED BY <3>2, <3>3
  <2>3. QED
    BY <1>19, <2>1, <2>2 DEF ReadUpdates, redisVars, nodeVars, sockVars, provVars, countVars
<1>20. ASSUME NEW k \in Compactors, Compact(k) PROVE TypeOK'
  <2>1. snapshot' \in Snapshot /\ updates' \subseteq Update
    BY <1>20 DEF Compact, After
  <2>2. QED BY <1>20, <2>1 DEF Compact, nodeVars, sockVars, provVars, countVars
<1>21. ASSUME NEW k \in Compactors, CompactFails(k) PROVE TypeOK'
  BY <1>21 DEF CompactFails, Failure, redisVars, nodeVars, provVars, histVars, sockVars
<1>22. CASE UNCHANGED yjsVars
  BY <1>22 DEF yjsVars, redisVars, nodeVars, sockVars, provVars, compVars, countVars, histVars
<1>23. QED
  BY YjsSteps, <1>1, <1>2, <1>3, <1>4, <1>5, <1>6, <1>7, <1>8, <1>9, <1>10, <1>11, <1>12, <1>13, <1>14, <1>15, <1>16, <1>17, <1>18, <1>19, <1>20, <1>21, <1>22

-----------------------------------------------------------------------------
(* Slots.                                                                  *)

\* A slot is taken and released, and a socket registered and unregistered,
\* in the step that changes the handler's stage.
LEMMA SlotsStep ==
  ASSUME TypeOK, SlotsFollow, [Next]_yjsVars
  PROVE  SlotsFollow'
<1> USE DEF TypeOK, SlotsFollow, Online
<1>1. ASSUME NEW c \in Clients, Register(c) PROVE SlotsFollow'
  BY <1>1 DEF Register
<1>2. ASSUME NEW c \in Clients, \/ LoadSnapshot(c) \/ LoadUpdates(c) \/ SendInitialYJSDocument(c)
                                \/ Receive(c) \/ StoreUpdate(c) \/ Relay(c) \/ PublishYJSEvent(c)
      PROVE  SlotsFollow'
  BY <1>2 DEF LoadSnapshot, LoadUpdates, SendInitialYJSDocument, Receive, StoreUpdate, Relay,
     PublishYJSEvent, sockVars
<1>3. ASSUME NEW c \in Clients, Reserve(c) PROVE SlotsFollow'
  BY <1>3 DEF Reserve
<1>4. ASSUME NEW c \in Clients, UpgradeFails(c) PROVE SlotsFollow'
  BY <1>4 DEF UpgradeFails
<1>5. ASSUME NEW c \in Clients, Unregister(c) PROVE SlotsFollow'
  BY <1>5 DEF Unregister
<1>6. CASE UNCHANGED <<yjsRooms, yjsConns, stage>>
  BY <1>6
<1>7. CASE UNCHANGED yjsVars
  BY <1>6, <1>7 DEF yjsVars, nodeVars, sockVars
<1>8. CASE Next
  <2>1. ASSUME NEW c \in Clients, Drop(c) \/ StoreFails(c) \/ PublishFails(c)
        PROVE  Unregister(c)
    BY <2>1 DEF Drop, StoreFails, PublishFails
  <2>2. ASSUME NEW c \in Clients, NEW closed, RelayFails(c, closed)
        PROVE  Unregister(c)
    BY <2>2 DEF RelayFails
  <2>3. ASSUME NEW c \in Clients, NEW x, Sync(c, x) \/ Edit(c, x)
        PROVE  UNCHANGED <<yjsRooms, yjsConns, stage>>
    BY <2>3 DEF Sync, Edit, nodeVars, sockVars
  <2>4. ASSUME NEW n \in Nodes, HandleClusterYJSEvent(n)
        PROVE  UNCHANGED <<yjsRooms, yjsConns, stage>>
    BY <2>4 DEF HandleClusterYJSEvent
  <2>5. ASSUME NEW k \in Compactors, ReadSnapshot(k) \/ ReadUpdates(k) \/ Compact(k) \/ CompactFails(k)
        PROVE  UNCHANGED <<yjsRooms, yjsConns, stage>>
    BY <2>5 DEF ReadSnapshot, ReadUpdates, Compact, CompactFails, nodeVars, sockVars
  <2> HIDE DEF TypeOK, SlotsFollow, Online
  <2>6. QED BY <1>1, <1>2, <1>3, <1>4, <1>5, <1>6, <1>8, <2>1, <2>2, <2>3, <2>4, <2>5, YjsSteps
<1>9. QED BY <1>7, <1>8

\* Only Reserve takes a slot, and it counts those of its node first.
LEMMA LimitStep ==
  ASSUME TypeOK, SlotsFollow, WithinLimit, [Next]_yjsVars
  PROVE  WithinLimit'
<1> SUFFICES ASSUME RoomConnections > 0, NEW n \in Nodes
             PROVE  Cardinality({d \in yjsRooms' : NodeOf[d] = n}) <= RoomConnections
  BY DEF WithinLimit
<1> DEFINE held == {d \in yjsRooms : NodeOf[d] = n}
           heldNext == {d \in yjsRooms' : NodeOf[d] = n}
<1>1. IsFiniteSet(held) /\ Cardinality(held) \in Nat /\ Cardinality(held) <= RoomConnections
  <2>1. held \in SUBSET Clients
    BY DEF TypeOK
  <2>2. Cardinality(held) <= RoomConnections
    BY DEF WithinLimit
  <2> HIDE DEF held
  <2>3. QED BY <2>1, <2>2, FS_Subset, FS_CardinalityType, YjsAssumption
<1>2. CASE yjsRooms' \subseteq yjsRooms
  <2>1. heldNext \in SUBSET held
    BY <1>2
  <2> HIDE DEF held, heldNext
  <2>2. Cardinality(heldNext) <= Cardinality(held) /\ Cardinality(heldNext) \in Nat
    BY <1>1, <2>1, FS_Subset, FS_CardinalityType
  <2>3. QED BY <1>1, <2>2, YjsAssumption DEF heldNext
<1>3. ASSUME NEW c \in Clients, Reserve(c) PROVE Cardinality(heldNext) <= RoomConnections
  <2>1. CASE NodeOf[c] # n
    <3>1. heldNext = held
      BY <1>3, <2>1 DEF Reserve
    <3>2. QED BY <1>1, <3>1
  <2>2. CASE NodeOf[c] = n
    <3>1. heldNext = held \cup {c} /\ Below(RoomConnections, Cardinality(held))
      BY <1>3, <2>2 DEF Reserve
    <3> HIDE DEF held, heldNext
    <3>2. Cardinality(heldNext) <= Cardinality(held) + 1
      BY <1>1, <3>1, FS_AddElement, SMTT(30)
    <3>3. Cardinality(held) + 1 <= RoomConnections
      BY <1>1, <3>1, YjsAssumption DEF Below
    <3>4. Cardinality(heldNext) \in Nat
      BY <1>1, <3>1, FS_AddElement, SMTT(30)
    <3>5. QED BY <1>1, <3>2, <3>3, <3>4, YjsAssumption
  <2>3. QED BY <2>1, <2>2
<1>4. ASSUME Next, \A c \in Clients : ~Reserve(c)
      PROVE  yjsRooms' \subseteq yjsRooms
  <2>1. ASSUME NEW c \in Clients,
               \/ Register(c) \/ LoadSnapshot(c) \/ LoadUpdates(c) \/ SendInitialYJSDocument(c)
               \/ Receive(c) \/ StoreUpdate(c) \/ Relay(c) \/ PublishYJSEvent(c)
               \/ UpgradeFails(c) \/ Drop(c) \/ StoreFails(c) \/ PublishFails(c)
        PROVE  yjsRooms' \subseteq yjsRooms
    BY <2>1 DEF Register, LoadSnapshot, LoadUpdates, SendInitialYJSDocument, Receive, StoreUpdate,
       Relay, PublishYJSEvent, UpgradeFails, Drop, StoreFails, PublishFails, Unregister, sockVars
  <2>2. ASSUME NEW c \in Clients, NEW closed, RelayFails(c, closed) PROVE yjsRooms' \subseteq yjsRooms
    BY <2>2 DEF RelayFails, Unregister
  <2>3. ASSUME NEW c \in Clients, NEW x, Sync(c, x) \/ Edit(c, x) PROVE yjsRooms' \subseteq yjsRooms
    BY <2>3 DEF Sync, Edit, nodeVars, sockVars
  <2>4. ASSUME NEW m \in Nodes, HandleClusterYJSEvent(m) PROVE yjsRooms' \subseteq yjsRooms
    BY <2>4 DEF HandleClusterYJSEvent
  <2>5. ASSUME NEW k \in Compactors, ReadSnapshot(k) \/ ReadUpdates(k) \/ Compact(k) \/ CompactFails(k)
        PROVE  yjsRooms' \subseteq yjsRooms
    BY <2>5 DEF ReadSnapshot, ReadUpdates, Compact, CompactFails, nodeVars, sockVars
  <2>6. QED BY <1>4, <2>1, <2>2, <2>3, <2>4, <2>5, YjsSteps
<1>5. CASE UNCHANGED yjsVars
  BY <1>2, <1>5 DEF yjsVars, nodeVars, sockVars
<1>6. QED BY <1>2, <1>3, <1>4, <1>5

-----------------------------------------------------------------------------
(* The log.                                                                *)

\* No update becomes outstanding.
NoNewAppend == \A c \in Clients : stage'[c] = "append" => stage[c] = "append" /\ work'[c] = work[c]

\* The steps of the log and of the compactor; every other step leaves the log
\* alone.
LogSteps ==
    \/ \E c \in Clients : Receive(c)
    \/ /\ \E c \in Clients : /\ stage[c] = "append" /\ stage'[c] # "append"
                             /\ AppendYJSUpdate(c)
       /\ NoNewAppend /\ UNCHANGED <<sequence, snapshot, compVars, overtaken>>
    \/ \E k \in Compactors : ReadSnapshot(k) \/ ReadUpdates(k) \/ Compact(k) \/ CompactFails(k)
    \/ NoNewAppend /\ UNCHANGED <<redisVars, compVars, stored, overtaken>>

\* What a step does to the log.
LEMMA LogCases == ASSUME TypeOK, [Next]_yjsVars PROVE LogSteps
<1>1. ASSUME NEW c \in Clients, Register(c) \/ LoadSnapshot(c) \/ LoadUpdates(c) \/ SendInitialYJSDocument(c)
                               \/ Relay(c) \/ PublishYJSEvent(c) \/ Reserve(c) \/ UpgradeFails(c)
      PROVE  NoNewAppend /\ UNCHANGED <<redisVars, compVars, stored, overtaken>>
  BY <1>1 DEF TypeOK, NoNewAppend, Register, LoadSnapshot, LoadUpdates, SendInitialYJSDocument,
     Relay, PublishYJSEvent, Reserve, UpgradeFails, histVars
<1>2. ASSUME NEW c \in Clients, Unregister(c) PROVE NoNewAppend /\ stage'[c] # "append"
  BY <1>2 DEF TypeOK, NoNewAppend, Unregister
<1>3. ASSUME NEW c \in Clients, Drop(c) \/ PublishFails(c)
      PROVE  NoNewAppend /\ UNCHANGED <<redisVars, compVars, stored, overtaken>>
  BY <1>2, <1>3 DEF Drop, PublishFails
<1>4. ASSUME NEW c \in Clients, NEW closed, RelayFails(c, closed)
      PROVE  NoNewAppend /\ UNCHANGED <<redisVars, compVars, stored, overtaken>>
  BY <1>2, <1>4 DEF RelayFails
<1>5. ASSUME NEW c \in Clients, StoreUpdate(c) PROVE LogSteps
  BY <1>5 DEF TypeOK, NoNewAppend, StoreUpdate, LogSteps
<1>6. ASSUME NEW c \in Clients, StoreFails(c) PROVE LogSteps
  BY <1>2, <1>6 DEF StoreFails, LogSteps, redisVars
<1>7. ASSUME NEW c \in Clients, NEW x, Sync(c, x) \/ Edit(c, x)
      PROVE  NoNewAppend /\ UNCHANGED <<redisVars, compVars, stored, overtaken>>
  BY <1>7 DEF NoNewAppend, Sync, Edit, nodeVars, histVars
<1>8. ASSUME NEW n \in Nodes, HandleClusterYJSEvent(n)
      PROVE  NoNewAppend /\ UNCHANGED <<redisVars, compVars, stored, overtaken>>
  BY <1>8 DEF NoNewAppend, HandleClusterYJSEvent
<1>9. CASE UNCHANGED yjsVars
  BY <1>9 DEF LogSteps, NoNewAppend, yjsVars, nodeVars, histVars
<1>10. CASE Next
  BY <1>1, <1>3, <1>4, <1>5, <1>6, <1>7, <1>8, <1>10, YjsSteps DEF LogSteps
<1>11. QED BY <1>9, <1>10

\* INCR draws a sequence for one update only.
LEMMA SequencesStep ==
  ASSUME TypeOK, SequencesDrawn, [Next]_yjsVars
  PROVE  SequencesDrawn'
<1> USE LogTypes DEF SequencesDrawn
<1>1. ASSUME NEW c \in Clients, Receive(c) PROVE SequencesDrawn'
  <2>1. /\ sequence' = sequence + 1 /\ sequence \in Nat
        /\ UNCHANGED <<updates, snapshot, cload>>
    BY <1>1 DEF Receive, compVars, TypeOK
  <2>2. /\ work'[c].seq = sequence + 1 /\ stage'[c] = "append"
        /\ \A d \in Clients \ {c} : work'[d] = work[d] /\ stage'[d] = stage[d]
    BY <1>1 DEF Receive, TypeOK
  <2>3. ASSUME NEW d \in Clients, stage'[d] = "append"
        PROVE  /\ work'[d].seq <= sequence'
               /\ \A u \in updates' : u.seq # work'[d].seq
               /\ \A e \in Clients : stage'[e] = "append" /\ work'[e].seq = work'[d].seq => e = d
    BY <2>1, <2>2, <2>3
  <2>4. QED BY <2>1, <2>3
<1>2. ASSUME NEW c \in Clients, stage[c] = "append", stage'[c] # "append", AppendYJSUpdate(c),
             NoNewAppend, UNCHANGED <<sequence, snapshot, compVars>>
      PROVE  SequencesDrawn'
  BY <1>2 DEF AppendYJSUpdate, NoNewAppend, compVars, TypeOK
<1>3. ASSUME NEW k \in Compactors, ReadSnapshot(k) PROVE SequencesDrawn'
  BY <1>3 DEF ReadSnapshot, TypeOK, redisVars, nodeVars
<1>4. ASSUME NEW k \in Compactors, ReadUpdates(k) PROVE SequencesDrawn'
  <2>1. UNCHANGED <<sequence, updates, snapshot, stage, work>>
    BY <1>4 DEF ReadUpdates, redisVars, nodeVars
  <2>2. \/ After(cload[k].checkpoint) # {} /\ cload'[k].checkpoint = Checkpoint(After(cload[k].checkpoint))
        \/ cload'[k].checkpoint = 0
    BY <1>4 DEF ReadUpdates, Compactable, NoSnap, TypeOK
  <2>3. \A j \in Compactors \ {k} : cload'[j] = cload[j]
    BY <1>4 DEF ReadUpdates, TypeOK
  <2>4. cload'[k].checkpoint <= sequence
    BY <2>2, CheckpointMerged DEF TypeOK
  <2>5. QED BY <2>1, <2>3, <2>4
<1>5. ASSUME NEW k \in Compactors, Compact(k) PROVE SequencesDrawn'
  <2>1. /\ UNCHANGED <<sequence, stage, work>> /\ snapshot' = cload[k] /\ updates' \subseteq updates
        /\ \A j \in Compactors : cload'[j] = cload[j] \/ cload'[j].checkpoint = 0
    BY <1>5 DEF Compact, After, NoSnap, nodeVars, TypeOK
  <2>2. 0 <= sequence
    BY DEF TypeOK
  <2>3. \A j \in Compactors : cload'[j].checkpoint <= sequence
    BY <2>1, <2>2
  <2>4. QED BY <2>1, <2>3
<1>6. ASSUME NEW k \in Compactors, CompactFails(k) PROVE SequencesDrawn'
  <2>1. /\ UNCHANGED <<sequence, updates, snapshot, stage, work>>
        /\ \A j \in Compactors : cload'[j] = cload[j] \/ cload'[j].checkpoint = 0
    BY <1>6 DEF CompactFails, NoSnap, redisVars, nodeVars, TypeOK
  <2>2. 0 <= sequence
    BY DEF TypeOK
  <2>3. \A j \in Compactors : cload'[j].checkpoint <= sequence
    BY <2>1, <2>2
  <2>4. QED BY <2>1, <2>3
<1>7. CASE NoNewAppend /\ UNCHANGED <<redisVars, compVars>>
  BY <1>7 DEF NoNewAppend, redisVars, compVars
<1>8. QED
  BY <1>1, <1>2, <1>3, <1>4, <1>5, <1>6, <1>7, LogCases DEF LogSteps

\* What the document keeps, whichever snapshot and updates it is made of.
Kept(es, snap, us, checkpoint) == es \subseteq snap \cup UNION {u.edits : u \in {v \in us : v.seq > checkpoint}}

\* StoredSurvives and the compactor's part are both of the form Kept.
LEMMA KeptByLog ==
  /\ StoredSurvives <=> Kept(stored \ overtaken, snapshot.edits, updates, snapshot.checkpoint)
  /\ \A s, n : stored \ overtaken \subseteq s \cup Merged(After(n)) <=> Kept(stored \ overtaken, s, updates, n)
BY DEF StoredSurvives, Document, Merged, After, Kept

\* An update that is added either counts, or was overtaken.
LEMMA KeptWithUpdate ==
  ASSUME NEW st, NEW ot, NEW snap, NEW us, NEW n \in Nat, NEW u, u.seq > n \/ u.edits \subseteq ot,
         Kept(st \ ot, snap, us, n)
  PROVE  Kept((st \cup u.edits) \ ot, snap, us \cup {u}, n)
<1>1. SUFFICES ASSUME NEW e \in (st \cup u.edits) \ ot, e \notin snap
               PROVE  \E v \in us \cup {u} : v.seq > n /\ e \in v.edits
  BY DEF Kept
<1>2. CASE e \in u.edits
  BY <1>1, <1>2
<1>3. CASE e \notin u.edits
  BY <1>1, <1>3 DEF Kept
<1>4. QED BY <1>2, <1>3

\* The log, with one compactor.
LEMMA LogStep ==
  ASSUME TypeOK, LogInv, [Next]_yjsVars, \A j, k \in Compactors : j = k
  PROVE  LogInv'
<1>1. SequencesDrawn'
  BY SequencesStep DEF LogInv
<1>2. ASSUME NEW c \in Clients, Receive(c) PROVE LogInv'
  <2>1. /\ UNCHANGED <<updates, snapshot, compVars, stored, overtaken>> /\ sequence \in Nat
        /\ work'[c].seq = sequence + 1
        /\ \A d \in Clients \ {c} : work'[d] = work[d] /\ stage'[d] = stage[d]
    BY <1>2 DEF Receive, histVars, TypeOK
  <2>2. StoredSurvives'
    BY <2>1 DEF LogInv, StoredSurvives, Document, Merged, After
  <2>3. ASSUME NEW n \in Nat, n <= sequence, AboveOrOvertaken(n)
        PROVE  AboveOrOvertaken(n)'
    BY <2>1, <2>3 DEF AboveOrOvertaken
  <2>4. AboveOrOvertaken(snapshot.checkpoint)'
    BY <2>1, <2>3, LogTypes DEF LogInv, SequencesDrawn
  <2>5. CompactorSound'
    <3>1. ASSUME NEW k \in Compactors, cstage[k] = "store" PROVE AboveOrOvertaken(cload[k].checkpoint)'
      BY <2>1, <2>3, <3>1, LogTypes DEF LogInv, SequencesDrawn, CompactorSound, compVars
    <3>2. QED BY <2>1, <3>1 DEF LogInv, CompactorSound, Merged, After, compVars
  <2>6. QED BY <1>1, <2>2, <2>4, <2>5 DEF LogInv
<1>3. ASSUME NEW c \in Clients, stage[c] = "append", AppendYJSUpdate(c), NoNewAppend,
             UNCHANGED <<sequence, snapshot, compVars, overtaken>>
      PROVE  LogInv'
  <2>1. /\ updates' = updates \cup {work[c]} /\ stored' = stored \cup work[c].edits
        /\ UNCHANGED <<sequence, snapshot, cstage, cload, overtaken>>
    BY <1>3 DEF AppendYJSUpdate, compVars
  <2>2. ASSUME NEW n \in Nat, AboveOrOvertaken(n) PROVE AboveOrOvertaken(n)'
    BY <1>3, <2>1, <2>2 DEF AboveOrOvertaken, NoNewAppend
  <2>3. ASSUME NEW n \in Nat, AboveOrOvertaken(n), NEW s, Kept(stored \ overtaken, s, updates, n)
        PROVE  Kept(stored' \ overtaken', s, updates', n)
    BY <1>3, <2>1, <2>3, KeptWithUpdate DEF AboveOrOvertaken
  <2>4. StoredSurvives' /\ AboveOrOvertaken(snapshot.checkpoint)'
    <3>1. Kept(stored' \ overtaken', snapshot.edits, updates', snapshot.checkpoint)
      BY <2>3, KeptByLog, LogTypes DEF LogInv
    <3>2. QED BY <2>1, <2>2, <3>1, LogTypes DEF LogInv, StoredSurvives, Document, Merged, After, Kept
  <2>5. CompactorSound'
    <3>1. ASSUME NEW k \in Compactors, cstage[k] = "store"
          PROVE  /\ Kept(stored' \ overtaken', cload[k].edits, updates', cload[k].checkpoint)
                 /\ AboveOrOvertaken(cload[k].checkpoint)'
      BY <2>1, <2>2, <2>3, <3>1, KeptByLog, LogTypes DEF LogInv, CompactorSound
    <3>2. QED BY <2>1, <3>1 DEF LogInv, CompactorSound, Merged, After, Kept
  <2>6. QED BY <1>1, <2>4, <2>5 DEF LogInv
<1>4. ASSUME NEW k \in Compactors, ReadSnapshot(k) PROVE LogInv'
  <2>1. /\ UNCHANGED <<sequence, updates, snapshot, stage, work, stored, overtaken>>
        /\ cload'[k] = snapshot /\ cstage'[k] = "snapshot"
    BY <1>4 DEF ReadSnapshot, redisVars, nodeVars, histVars, TypeOK
  <2>2. StoredSurvives' /\ AboveOrOvertaken(snapshot.checkpoint)'
    BY <2>1 DEF LogInv, StoredSurvives, Document, Merged, After, AboveOrOvertaken
  <2>3. \A j \in Compactors : cload'[j] = snapshot' /\ cstage'[j] = "snapshot"
    BY <2>1
  <2>4. CompactorSound'
    BY <2>3 DEF CompactorSound
  <2>5. QED BY <1>1, <2>2, <2>4 DEF LogInv
<1>5. ASSUME NEW k \in Compactors, ReadUpdates(k) PROVE LogInv'
  <2> DEFINE us == After(snapshot.checkpoint)
  <2>1. /\ UNCHANGED <<sequence, updates, snapshot, stage, work, stored>>
        /\ cload[k] = snapshot
    BY <1>5 DEF ReadUpdates, redisVars, nodeVars, LogInv, CompactorSound
  <2>2. CASE cstage'[k] = "idle" /\ UNCHANGED overtaken
    <3>1. StoredSurvives' /\ AboveOrOvertaken(snapshot.checkpoint)'
      BY <2>1, <2>2 DEF LogInv, StoredSurvives, Document, Merged, After, AboveOrOvertaken
    <3>2. CompactorSound'
      <4>1. \A j \in Compactors : cstage'[j] = "idle"
        BY <2>2
      <4>2. QED BY <4>1 DEF CompactorSound
    <3>3. QED BY <1>1, <3>1, <3>2 DEF LogInv
  <2>3. ASSUME us # {}, cstage'[k] = "store", cload'[k].checkpoint = Checkpoint(us),
               cload'[k].edits = snapshot.edits \cup Merged(us),
               overtaken' = overtaken \cup
                   Merged({work[c] : c \in {d \in Clients : stage[d] = "append" /\ work[d].seq < Checkpoint(us)}})
        PROVE  LogInv'
    <3>1. /\ overtaken \subseteq overtaken'
          /\ \A c \in Clients : stage[c] = "append" /\ work[c].seq < Checkpoint(us) => work[c].edits \subseteq overtaken'
      BY <2>3 DEF Merged
    <3>2. StoredSurvives' /\ AboveOrOvertaken(snapshot.checkpoint)'
      BY <2>1, <3>1 DEF LogInv, StoredSurvives, Document, Merged, After, AboveOrOvertaken
    <3>3. \A c \in Clients : stage[c] = "append" => work[c].seq # Checkpoint(us)
      <4>1. PICK u \in updates : Checkpoint(us) = u.seq
        BY <2>3, CheckpointMerged, LogTypes DEF LogInv, After
      <4>2. QED BY <4>1 DEF LogInv, SequencesDrawn
    <3>4. AboveOrOvertaken(Checkpoint(us))'
      <4>1. Checkpoint(us) \in Nat
        BY <2>3, CheckpointMerged, LogTypes DEF LogInv
      <4>2. Checkpoint(us)' = Checkpoint(us)
        BY <2>1 DEF Checkpoint, After
      <4>3. \A c \in Clients : stage'[c] = "append" => work'[c].seq > Checkpoint(us) \/ work'[c].edits \subseteq overtaken'
        BY <2>1, <3>1, <3>3, <4>1, LogTypes
      <4>4. QED BY <4>2, <4>3 DEF AboveOrOvertaken
    <3>5. stored' \ overtaken' \subseteq cload'[k].edits
      BY <2>1, <2>3, <3>1 DEF LogInv, StoredSurvives, Document
    <3>6. \A j \in Compactors : j = k
      OBVIOUS
    <3>7. CompactorSound'
      <4>1. AboveOrOvertaken(cload[k].checkpoint)'
        BY <2>1, <2>3, <3>4 DEF AboveOrOvertaken, Checkpoint, After
      <4>2. QED BY <2>3, <3>5, <3>6, <4>1 DEF CompactorSound
    <3>8. QED BY <1>1, <3>2, <3>7 DEF LogInv
  <2>4. QED
    BY <1>5, <2>1, <2>2, <2>3 DEF ReadUpdates, Compactable, TypeOK
<1>6. ASSUME NEW k \in Compactors, Compact(k) PROVE LogInv'
  <2>1. /\ UNCHANGED <<sequence, stage, work, stored, overtaken>>
        /\ snapshot' = cload[k] /\ updates' = After(cload[k].checkpoint) /\ cstage'[k] = "idle"
        /\ cstage[k] = "store"
    BY <1>6 DEF Compact, nodeVars, TypeOK
  <2>2. Kept(stored \ overtaken, cload[k].edits, updates', cload[k].checkpoint)
    BY <2>1 DEF LogInv, CompactorSound, Merged, After, Kept
  <2>3. StoredSurvives'
    BY <2>1, <2>2 DEF StoredSurvives, Document, Merged, After, Kept
  <2>4. AboveOrOvertaken(snapshot.checkpoint)'
    BY <2>1 DEF LogInv, CompactorSound, AboveOrOvertaken
  <2>5. CompactorSound'
    <3>1. \A j \in Compactors : cstage'[j] = "idle"
      BY <2>1
    <3>2. QED BY <3>1 DEF CompactorSound
  <2>6. QED BY <1>1, <2>3, <2>4, <2>5 DEF LogInv
<1>7. ASSUME NEW k \in Compactors, CompactFails(k) PROVE LogInv'
  <2>1. UNCHANGED <<sequence, updates, snapshot, stage, work, stored, overtaken>> /\ cstage'[k] = "idle"
    BY <1>7 DEF CompactFails, redisVars, nodeVars, histVars, TypeOK
  <2>2. StoredSurvives' /\ AboveOrOvertaken(snapshot.checkpoint)'
    BY <2>1 DEF LogInv, StoredSurvives, Document, Merged, After, AboveOrOvertaken
  <2>3. CompactorSound'
    <3>1. \A j \in Compactors : cstage'[j] = "idle"
      BY <2>1
    <3>2. QED BY <3>1 DEF CompactorSound
  <2>4. QED BY <1>1, <2>2, <2>3 DEF LogInv
<1>8. CASE NoNewAppend /\ UNCHANGED <<redisVars, compVars, stored, overtaken>>
  <2>1. ASSUME NEW n, AboveOrOvertaken(n) PROVE \A c \in Clients : stage'[c] = "append" =>
           work'[c].seq > n \/ work'[c].edits \subseteq overtaken'
    BY <1>8, <2>1 DEF AboveOrOvertaken, NoNewAppend
  <2>2. UNCHANGED <<sequence, updates, snapshot, cstage, cload, stored, overtaken>>
    BY <1>8 DEF redisVars, compVars
  <2>3. StoredSurvives' /\ AboveOrOvertaken(snapshot.checkpoint)'
    BY <2>1, <2>2 DEF LogInv, StoredSurvives, Document, Merged, After, AboveOrOvertaken
  <2>4. CompactorSound'
    BY <2>1, <2>2 DEF LogInv, CompactorSound, Merged, After, AboveOrOvertaken
  <2>5. QED BY <1>1, <2>3, <2>4 DEF LogInv
<1>9. QED
  BY <1>2, <1>3, <1>4, <1>5, <1>6, <1>7, <1>8, LogCases DEF LogSteps

-----------------------------------------------------------------------------
(* Clients and loads.                                                      *)

\* The stages in which a handler holds an update of its client.
Sending == {"append", "relay", "publish"}

\* No client gets a new frame to read or a new update to store.
NoNewFrames ==
    \A c \in Clients : /\ inflight'[c] = inflight[c] \/ inflight'[c] = << >>
                       /\ stage'[c] \in Sending => stage[c] \in Sending /\ work'[c] = work[c]

\* The general step of OwnEdits.
LEMMA OwnEditsKept ==
  ASSUME OwnEdits, Grows, NoNewFrames
  PROVE  OwnEdits'
<1>1. ASSUME NEW c \in Clients, NEW i \in 1..Len(inflight'[c]) PROVE inflight'[c][i] \subseteq doc'[c]
  <2>1. i \in 1..Len(inflight[c]) /\ inflight'[c] = inflight[c]
    <3>1. CASE inflight'[c] = << >>
      BY <1>1, <3>1
    <3>2. CASE inflight'[c] = inflight[c]
      BY <1>1, <3>2
    <3>3. QED BY <3>1, <3>2 DEF NoNewFrames
  <2>2. QED BY <2>1 DEF OwnEdits, Grows
<1>2. ASSUME NEW c \in Clients, stage'[c] \in Sending PROVE work'[c].edits \subseteq doc'[c]
  BY <1>2 DEF NoNewFrames, OwnEdits, Grows, Sending
<1>3. QED BY <1>1, <1>2 DEF OwnEdits, Sending

\* What a provider sends it has in its document, and keeps it there.
LEMMA OwnEditsStep ==
  ASSUME TypeOK, OwnEdits, [Next]_yjsVars
  PROVE  OwnEdits'
<1>1. ASSUME NEW c \in Clients, Register(c) PROVE OwnEdits'
  <2>1. /\ UNCHANGED <<doc, work>> /\ inflight' = [inflight EXCEPT ![c] = Flush(c)]
        /\ \A d \in Clients : stage'[d] \in Sending => stage[d] = stage'[d]
    BY <1>1 DEF Register, Sending, TypeOK
  <2>2. ASSUME NEW d \in Clients, NEW i \in 1..Len(inflight'[d]) PROVE inflight'[d][i] \subseteq doc[d]
    <3>1. CASE d = c
      BY <2>1, <2>2, <3>1, FlushedState DEF TypeOK
    <3>2. CASE d # c
      BY <2>1, <2>2, <3>2 DEF OwnEdits, TypeOK
    <3>3. QED BY <3>1, <3>2
  <2>3. QED BY <2>1, <2>2 DEF OwnEdits, Sending
<1>2. ASSUME NEW c \in Clients, Receive(c) PROVE OwnEdits'
  <2>1. inflight[c] \in Seq(SUBSET Edits) /\ inflight[c] # << >>
    BY <1>2 DEF Receive, TypeOK
  <2>2. /\ UNCHANGED doc /\ inflight' = [inflight EXCEPT ![c] = Tail(inflight[c])]
        /\ work'[c].edits = Head(inflight[c])
        /\ \A d \in Clients \ {c} : work'[d] = work[d] /\ stage'[d] = stage[d]
    BY <1>2 DEF Receive, TypeOK
  <2>3. ASSUME NEW d \in Clients, NEW i \in 1..Len(inflight'[d]) PROVE inflight'[d][i] \subseteq doc[d]
    <3>1. CASE d = c
      <4>1. inflight'[d] = Tail(inflight[c])
        BY <2>2, <3>1 DEF TypeOK
      <4>2. i \in 1..Len(Tail(inflight[c])) /\ i + 1 \in 1..Len(inflight[c])
            /\ Tail(inflight[c])[i] = inflight[c][i + 1]
        BY <2>1, <2>3, <4>1, HeadAndTail
      <4>3. QED BY <3>1, <4>1, <4>2 DEF OwnEdits
    <3>2. CASE d # c
      BY <2>2, <2>3, <3>2 DEF OwnEdits, TypeOK
    <3>3. QED BY <3>1, <3>2
  <2>4. ASSUME NEW d \in Clients, stage'[d] \in Sending PROVE work'[d].edits \subseteq doc[d]
    <3>1. CASE d = c
      <4>1. 1 \in 1..Len(inflight[c]) /\ Head(inflight[c]) = inflight[c][1]
        BY <2>1, HeadAndTail
      <4>2. QED BY <2>2, <3>1, <4>1 DEF OwnEdits
    <3>2. CASE d # c
      BY <2>2, <2>4, <3>2 DEF OwnEdits, Sending
    <3>3. QED BY <3>1, <3>2
  <2>5. QED BY <2>2, <2>3, <2>4 DEF OwnEdits, Sending
<1>3. ASSUME NEW c \in Clients, NEW e \in Edits, Edit(c, e) PROVE OwnEdits'
  <2>1. Grows /\ e \in doc'[c] /\ UNCHANGED <<stage, work>>
    BY <1>3 DEF Edit, Grows, TypeOK, nodeVars
  <2>2. CASE UNCHANGED inflight
    BY <2>1, <2>2, OwnEditsKept DEF NoNewFrames
  <2>3. CASE inflight' = [inflight EXCEPT ![c] = Append(@, {e})]
    <3>1. ASSUME NEW d \in Clients, NEW i \in 1..Len(inflight'[d]) PROVE inflight'[d][i] \subseteq doc'[d]
      <4>1. CASE d = c
        <5>1. inflight[c] \in Seq(SUBSET Edits) /\ inflight'[d] = Append(inflight[c], {e})
          BY <2>3, <4>1 DEF TypeOK
        <5>2. {e} \in SUBSET Edits
          OBVIOUS
        <5>3. \/ i = Len(inflight[c]) + 1 /\ inflight'[d][i] = {e}
              \/ i \in 1..Len(inflight[c]) /\ inflight'[d][i] = inflight[c][i]
          BY <3>1, <5>1, <5>2, Appended
        <5>4. QED BY <2>1, <4>1, <5>3 DEF OwnEdits, Grows
      <4>2. CASE d # c
        BY <2>1, <2>3, <3>1, <4>2 DEF OwnEdits, Grows, TypeOK
      <4>3. QED BY <4>1, <4>2
    <3>2. QED BY <2>1, <3>1 DEF OwnEdits, Grows
  <2>4. QED BY <1>3, <2>2, <2>3 DEF Edit
<1>4. ASSUME Grows, NoNewFrames PROVE OwnEdits'
  BY <1>4, OwnEditsKept
<1>5. ASSUME NEW c \in Clients, LoadSnapshot(c) \/ LoadUpdates(c) \/ SendInitialYJSDocument(c) \/ StoreUpdate(c)
                               \/ PublishYJSEvent(c) \/ Reserve(c) \/ UpgradeFails(c)
      PROVE  Grows /\ NoNewFrames
  <2>1. Grows
    BY <1>5 DEF LoadSnapshot, LoadUpdates, SendInitialYJSDocument, StoreUpdate, PublishYJSEvent, Reserve,
       UpgradeFails, Grows, TypeOK, provVars
  <2>2. /\ UNCHANGED inflight /\ \A d \in Clients \ {c} : stage'[d] = stage[d] /\ work'[d] = work[d]
        /\ stage'[c] \in Sending => stage[c] \in Sending /\ work'[c] = work[c]
    BY <1>5 DEF LoadSnapshot, LoadUpdates, SendInitialYJSDocument, StoreUpdate, PublishYJSEvent, Reserve,
       UpgradeFails, Sending, TypeOK, provVars
  <2>3. NoNewFrames
    BY <2>2 DEF NoNewFrames
  <2>4. QED BY <2>1, <2>3
<1>6. ASSUME NEW c \in Clients, Relay(c) PROVE Grows /\ NoNewFrames
  <2>1. Grows
    BY <1>6, LogTypes, FanOutDelivers DEF Relay
  <2>2. NoNewFrames
    <3>1. UNCHANGED <<work, inflight>> /\ stage[c] \in Sending /\ \A d \in Clients \ {c} : stage'[d] = stage[d]
      BY <1>6 DEF Relay, Sending, TypeOK
    <3>2. QED BY <3>1 DEF NoNewFrames
  <2>3. QED BY <2>1, <2>2
<1>7. ASSUME NEW c \in Clients, Unregister(c) PROVE NoNewFrames
  <2>1. /\ stage'[c] \notin Sending /\ inflight'[c] = << >>
        /\ \A d \in Clients \ {c} : stage'[d] = stage[d] /\ work'[d] = work[d] /\ inflight'[d] = inflight[d]
    BY <1>7 DEF Unregister, Sending, TypeOK
  <2>2. QED BY <2>1 DEF NoNewFrames
<1>8. ASSUME NEW c \in Clients, Drop(c) \/ StoreFails(c) \/ PublishFails(c) PROVE Grows /\ NoNewFrames
  BY <1>7, <1>8 DEF Drop, StoreFails, PublishFails, Grows
<1>9. ASSUME NEW c \in Clients, NEW closed \in SUBSET Clients, RelayFails(c, closed) PROVE Grows /\ NoNewFrames
  BY <1>7, <1>9, LogTypes, FanOutCuts DEF RelayFails
<1>10. ASSUME NEW c \in Clients, NEW d \in Clients, Sync(c, d) PROVE Grows /\ NoNewFrames
  BY <1>10 DEF Sync, Grows, NoNewFrames, nodeVars, TypeOK
<1>11. ASSUME NEW n \in Nodes, HandleClusterYJSEvent(n) PROVE Grows /\ NoNewFrames
  <2>1. Grows
    BY <1>11, HandledFrame, FanOutDelivers, FanOutCuts
  <2>2. QED BY <1>11, <2>1 DEF HandleClusterYJSEvent, NoNewFrames
<1>12. ASSUME NEW k \in Compactors, ReadSnapshot(k) \/ ReadUpdates(k) \/ Compact(k) \/ CompactFails(k)
      PROVE  Grows /\ NoNewFrames
  BY <1>12 DEF ReadSnapshot, ReadUpdates, Compact, CompactFails, Grows, NoNewFrames, nodeVars, provVars
<1>13. CASE UNCHANGED yjsVars
  BY <1>4, <1>13 DEF Grows, NoNewFrames, yjsVars, nodeVars, provVars
<1>14. CASE Next
  BY <1>1, <1>2, <1>3, <1>4, <1>5, <1>6, <1>8, <1>9, <1>10, <1>11, <1>12, <1>14, YjsSteps
<1>15. QED BY <1>13, <1>14

\* Only a compaction replaces the snapshot, and it tears the loads under way.
LEMMA LoadsStep ==
  ASSUME TypeOK, LoadsCurrent, [Next]_yjsVars
  PROVE  LoadsCurrent'
<1> DEFINE Same == /\ UNCHANGED snapshot
                   /\ \A c \in Clients : stage'[c] = "replay" /\ c \notin torn' =>
                                         stage[c] = "replay" /\ c \notin torn /\ work'[c] = work[c]
<1>1. ASSUME Same PROVE LoadsCurrent'
  BY <1>1 DEF LoadsCurrent
<1>2. ASSUME NEW c \in Clients, LoadSnapshot(c) PROVE LoadsCurrent'
  BY <1>2 DEF LoadSnapshot, LoadsCurrent, TypeOK, redisVars, histVars
<1>3. ASSUME NEW k \in Compactors, Compact(k) PROVE LoadsCurrent'
  <2>1. \A c \in Clients : stage'[c] = "replay" => c \in torn'
    BY <1>3 DEF Compact, nodeVars
  <2>2. QED BY <2>1 DEF LoadsCurrent
<1>4. ASSUME NEW c \in Clients, \/ Register(c) \/ LoadUpdates(c) \/ SendInitialYJSDocument(c)
                                \/ Receive(c) \/ StoreUpdate(c) \/ Relay(c) \/ PublishYJSEvent(c)
                                \/ Reserve(c) \/ UpgradeFails(c)
      PROVE  Same
  <2>1. /\ UNCHANGED <<snapshot, torn>> /\ stage'[c] # "replay"
        /\ \A d \in Clients \ {c} : stage'[d] = stage[d] /\ work'[d] = work[d]
    BY <1>4 DEF Register, LoadUpdates, SendInitialYJSDocument, Receive, StoreUpdate, Relay, PublishYJSEvent,
       Reserve, UpgradeFails, TypeOK, redisVars, histVars
  <2>2. QED BY <2>1
<1>5. ASSUME NEW c \in Clients, Unregister(c), UNCHANGED snapshot PROVE Same
  BY <1>5 DEF Unregister, TypeOK
<1>6. ASSUME NEW c \in Clients, Drop(c) \/ StoreFails(c) \/ PublishFails(c) PROVE Same
  BY <1>5, <1>6 DEF Drop, StoreFails, PublishFails, redisVars
<1>7. ASSUME NEW c \in Clients, NEW closed, RelayFails(c, closed) PROVE Same
  BY <1>5, <1>7 DEF RelayFails, redisVars
<1>8. ASSUME NEW c \in Clients, NEW x, Sync(c, x) \/ Edit(c, x) PROVE Same
  BY <1>8 DEF Sync, Edit, redisVars, nodeVars, histVars
<1>9. ASSUME NEW n \in Nodes, HandleClusterYJSEvent(n) PROVE Same
  BY <1>9 DEF HandleClusterYJSEvent, redisVars
<1>10. ASSUME NEW k \in Compactors, ReadSnapshot(k) \/ ReadUpdates(k) \/ CompactFails(k) PROVE Same
  BY <1>10 DEF ReadSnapshot, ReadUpdates, CompactFails, redisVars, nodeVars, histVars
<1>11. CASE UNCHANGED yjsVars
  <2>1. Same
    BY <1>11 DEF yjsVars, redisVars, nodeVars, histVars
  <2>2. QED BY <1>1, <2>1
<1> HIDE DEF Same
<1>12. CASE Next
  BY <1>1, <1>2, <1>3, <1>4, <1>6, <1>7, <1>8, <1>9, <1>10, <1>12, YjsSteps
<1>13. QED BY <1>11, <1>12

\* The general step of EditsReach: no client comes to be loaded, a loaded one
\* keeps what it is to be sent, nothing new counts as stored, and no edit
\* loses the handler that carries it without being counted as cut.
NothingLost ==
    /\ Grows /\ UNCHANGED channel
    /\ stored' \ (overtaken' \cup cut') \subseteq stored \ (overtaken \cup cut)
    /\ \A c \in Clients : Loaded(c)' => /\ Loaded(c)
                                        /\ stage[c] = "send" => stage'[c] = "send" /\ work'[c] = work[c]
    /\ \A d \in Clients : stage[d] \in {"relay", "publish"} =>
          \/ stage'[d] = stage[d] /\ work'[d] = work[d]
          \/ work[d].edits \subseteq cut'

\* A step that loses nothing keeps EditsReach.
LEMMA ReachKept ==
  ASSUME EditsReach, NothingLost
  PROVE  EditsReach'
<1> SUFFICES ASSUME NEW c \in Clients, Loaded(c)', NEW e \in (stored \ (overtaken \cup cut))'
             PROVE  Reaches(c, e)'
  BY DEF EditsReach
<1>1. Loaded(c) /\ Reaches(c, e) /\ e \notin cut'
  BY DEF EditsReach, NothingLost
<1>2. CASE e \in doc[c]
  BY <1>2 DEF NothingLost, Grows, Reaches
<1>3. CASE stage[c] = "send" /\ e \in work[c].edits
  BY <1>1, <1>3 DEF NothingLost, Reaches
<1>4. CASE \E d \in Clients : Carries(d, c, e)
  BY <1>1, <1>4 DEF NothingLost, Reaches, Carries
<1>5. CASE Published(c, e)
  BY <1>5 DEF NothingLost, Reaches, Published
<1>6. QED BY <1>1, <1>2, <1>3, <1>4, <1>5 DEF Reaches

\* A loaded client is registered for live frames.
LEMMA LoadedOnline ==
  ASSUME SlotsFollow, NEW c \in Clients, Loaded(c)
  PROVE  c \in yjsConns \ down
BY DEF SlotsFollow, Loaded, Online

\* Each stored edit stays with the client or on its way to it: appending
\* makes the handler its carrier, the relay and the published frame take
\* over, and a load takes the whole document.
LEMMA ReachStep ==
  ASSUME TypeOK, SlotsFollow, StoredSurvives, OwnEdits, LoadsCurrent, EditsReach, [Next]_yjsVars
  PROVE  EditsReach'
<1> DEFINE kept == stored \ (overtaken \cup cut)
<1>1. ASSUME NEW c \in Clients, Register(c) \/ LoadSnapshot(c) \/ Reserve(c) \/ UpgradeFails(c)
      PROVE  NothingLost
  <2>1. /\ UNCHANGED <<doc, channel, down, stored, overtaken, cut, torn>>
        /\ \A d \in Clients \ {c} : stage'[d] = stage[d] /\ work'[d] = work[d]
        /\ stage[c] \in {"off", "reserved", "loading"} /\ stage'[c] \in {"off", "reserved", "loading", "replay"}
    <3>1. CASE Register(c)
      BY <3>1 DEF TypeOK, Register, histVars
    <3>2. CASE LoadSnapshot(c)
      BY <3>2 DEF TypeOK, LoadSnapshot, sockVars, provVars, histVars
    <3>3. CASE Reserve(c)
      BY <3>3 DEF TypeOK, Reserve, provVars, histVars
    <3>4. CASE UpgradeFails(c)
      BY <3>4 DEF TypeOK, UpgradeFails, provVars, histVars
    <3>5. QED BY <1>1, <3>1, <3>2, <3>3, <3>4
  <2>2. QED BY <2>1 DEF NothingLost, Grows, Loaded
<1>2. ASSUME NEW c \in Clients, LoadUpdates(c) PROVE EditsReach'
  <2>1. /\ UNCHANGED <<doc, channel, down, stored, overtaken, cut, torn>>
        /\ \A d \in Clients \ {c} : stage'[d] = stage[d] /\ work'[d] = work[d]
        /\ stage[c] = "replay" /\ stage'[c] = "send"
        /\ work'[c].edits = work[c].edits \cup Merged(After(work[c].seq))
    BY <1>2 DEF TypeOK, LoadUpdates, Update, sockVars, provVars, histVars
  <2>2. ASSUME c \notin torn PROVE kept \subseteq work'[c].edits
    BY <2>1, <2>2 DEF LoadsCurrent, StoredSurvives, Document
  <2>3. ASSUME NEW d \in Clients, Loaded(d)', NEW e \in kept PROVE Reaches(d, e)'
    <3>1. CASE d = c
      BY <2>1, <2>2, <2>3, <3>1 DEF Loaded, Reaches
    <3>2. CASE d # c
      <4>1. Reaches(d, e)
        BY <2>1, <2>3, <3>2 DEF EditsReach, Loaded
      <4>2. ASSUME NEW x \in Clients, Carries(x, d, e) PROVE Carries(x, d, e)'
        BY <2>1, <4>2 DEF Carries
      <4>3. QED BY <2>1, <3>2, <4>1, <4>2 DEF Reaches, Published
    <3>3. QED BY <3>1, <3>2
  <2>4. QED BY <2>1, <2>3 DEF EditsReach
<1>3. ASSUME NEW c \in Clients, SendInitialYJSDocument(c) PROVE EditsReach'
  <2>1. /\ UNCHANGED <<channel, down, stored, overtaken, cut, torn>>
        /\ \A d \in Clients \ {c} : stage'[d] = stage[d] /\ work'[d] = work[d]
        /\ stage[c] = "send" /\ stage'[c] = "open" /\ Grows
        /\ c \notin down => work[c].edits \subseteq doc'[c]
    BY <1>3 DEF TypeOK, SendInitialYJSDocument, Grows, sockVars, histVars
  <2>2. ASSUME NEW d \in Clients, Loaded(d)', NEW e \in kept PROVE Reaches(d, e)'
    <3>1. Reaches(d, e)
      BY <2>1, <2>2 DEF EditsReach, Loaded
    <3>2. ASSUME NEW x \in Clients, Carries(x, d, e) PROVE Carries(x, d, e)'
      BY <2>1, <3>2 DEF Carries
    <3>3. CASE stage[d] = "send" /\ e \in work[d].edits
      BY <2>1, <2>2, <3>3 DEF Loaded, Reaches
    <3>4. QED BY <2>1, <3>1, <3>2, <3>3 DEF Reaches, Published, Grows
  <2>3. QED BY <2>1, <2>2 DEF EditsReach
<1>4. ASSUME NEW c \in Clients, Receive(c) PROVE NothingLost
  <2>1. /\ UNCHANGED <<doc, channel, down, stored, overtaken, cut, torn>>
        /\ \A d \in Clients \ {c} : stage'[d] = stage[d] /\ work'[d] = work[d]
        /\ stage[c] = "open" /\ stage'[c] = "append"
    BY <1>4 DEF TypeOK, Receive, sockVars, histVars
  <2>2. QED BY <2>1 DEF NothingLost, Grows, Loaded
<1>5. ASSUME NEW c \in Clients, StoreUpdate(c) PROVE EditsReach'
  <2>1. /\ UNCHANGED <<doc, channel, down, work, overtaken, cut, torn>> /\ stored' = stored \cup work[c].edits
        /\ \A d \in Clients \ {c} : stage'[d] = stage[d]
        /\ stage[c] = "append" /\ stage'[c] = "relay"
    BY <1>5 DEF TypeOK, StoreUpdate, AppendYJSUpdate, sockVars, provVars
  <2>2. ASSUME NEW d \in Clients, Loaded(d)', NEW e \in (stored \ (overtaken \cup cut))' PROVE Reaches(d, e)'
    <3>1. CASE e \in work[c].edits
      <4>1. CASE d = c
        BY <2>1, <3>1, <4>1 DEF OwnEdits, Reaches
      <4>2. CASE d # c
        BY <2>1, <3>1, <4>2 DEF Reaches, Carries
      <4>3. QED BY <4>1, <4>2
    <3>2. CASE e \notin work[c].edits
      <4>1. Reaches(d, e)
        BY <2>1, <2>2, <3>2 DEF EditsReach, Loaded
      <4>2. ASSUME NEW x \in Clients, Carries(x, d, e) PROVE Carries(x, d, e)'
        BY <2>1, <3>2, <4>2 DEF Carries
      <4>3. QED BY <2>1, <4>1, <4>2 DEF Reaches, Published
    <3>3. QED BY <3>1, <3>2
  <2>3. QED BY <2>2 DEF EditsReach
<1>6. ASSUME NEW c \in Clients, Relay(c) PROVE EditsReach'
  <2>1. /\ UNCHANGED <<yjsConns, channel, down, work, stored, overtaken, torn>>
        /\ \A d \in Clients \ {c} : stage'[d] = stage[d]
        /\ stage[c] = "relay" /\ stage'[c] = "publish"
    BY <1>6 DEF TypeOK, Relay, sockVars
  <2>2. /\ Grows /\ UNCHANGED cut
        /\ \A d \in Targets(NodeOf[c], {c}) \ down : work[c].edits \subseteq doc'[d]
    BY <1>6, LogTypes, FanOutDelivers DEF Relay
  <2>3. ASSUME NEW d \in Clients, Loaded(d)', NEW e \in kept PROVE Reaches(d, e)'
    <3>1. Loaded(d) /\ Reaches(d, e)
      BY <2>1, <2>3 DEF EditsReach, Loaded
    <3>2. ASSUME NEW x \in Clients, Carries(x, d, e) PROVE Reaches(d, e)'
      <4>1. CASE x # c
        BY <2>1, <3>2, <4>1 DEF Carries, Reaches
      <4>2. CASE x = c /\ NodeOf[d] # NodeOf[c]
        BY <2>1, <3>2, <4>2 DEF Carries, Reaches
      <4>3. CASE x = c /\ NodeOf[d] = NodeOf[c]
        <5>1. d \in Targets(NodeOf[c], {c}) \ down
          BY <3>1, <3>2, <4>3, LoadedOnline DEF Carries, Targets
        <5>2. QED BY <2>2, <3>2, <4>3, <5>1 DEF Carries, Reaches
      <4>4. QED BY <4>1, <4>2, <4>3
    <3>3. CASE stage[d] = "send" /\ e \in work[d].edits
      BY <2>1, <3>3 DEF Reaches
    <3>4. QED BY <2>1, <2>2, <3>1, <3>2, <3>3 DEF Reaches, Published, Grows
  <2>4. QED BY <2>1, <2>2, <2>3 DEF EditsReach
<1>7. ASSUME NEW c \in Clients, PublishYJSEvent(c) PROVE EditsReach'
  <2>1. /\ UNCHANGED <<doc, down, stored, overtaken, cut, torn>>
        /\ \A d \in Clients \ {c} : stage'[d] = stage[d] /\ work'[d] = work[d]
        /\ stage[c] = "publish" /\ stage'[c] = "open"
        /\ channel' = [n \in Nodes |-> IF n = NodeOf[c] THEN channel[n] ELSE Append(channel[n], work[c].edits)]
    BY <1>7 DEF TypeOK, PublishYJSEvent, sockVars, provVars, histVars
  <2>2. ASSUME NEW d \in Clients, Loaded(d)', NEW e \in kept PROVE Reaches(d, e)'
    <3> DEFINE n == NodeOf[d]
    <3>1. Reaches(d, e)
      BY <2>1, <2>2 DEF EditsReach, Loaded
    <3>2. n \in Nodes /\ channel[n] \in Seq(SUBSET Edits) /\ work[c].edits \in SUBSET Edits
      BY YjsAssumption, LogTypes DEF TypeOK
    <3>3. /\ channel'[n] = channel[n] \/ channel'[n] = Append(channel[n], work[c].edits)
          /\ n # NodeOf[c] => channel'[n] = Append(channel[n], work[c].edits)
      BY <2>1, <3>2
    <3>4. CASE Published(d, e)
      <4>1. PICK i \in 1..Len(channel[n]) : e \in channel[n][i]
        BY <3>4 DEF Published
      <4>2. i \in 1..Len(channel'[n]) /\ channel'[n][i] = channel[n][i]
        BY <3>2, <3>3, Appended
      <4>3. QED BY <4>1, <4>2 DEF Reaches, Published
    <3>5. ASSUME NEW x \in Clients, Carries(x, d, e) PROVE Reaches(d, e)'
      <4>1. CASE x # c
        BY <2>1, <3>5, <4>1 DEF Carries, Reaches
      <4>2. CASE x = c
        <5>1. e \in work[c].edits /\ channel'[n] = Append(channel[n], work[c].edits)
          BY <2>1, <3>3, <3>5, <4>2 DEF Carries
        <5>2. /\ Len(channel[n]) + 1 \in 1..Len(channel'[n])
              /\ channel'[n][Len(channel[n]) + 1] = work[c].edits
          BY <3>2, <5>1, Appended
        <5>3. QED BY <5>1, <5>2 DEF Reaches, Published
      <4>3. QED BY <4>1, <4>2
    <3>6. CASE stage[d] = "send" /\ e \in work[d].edits
      BY <2>1, <3>6 DEF Reaches
    <3>7. QED BY <2>1, <3>1, <3>4, <3>5, <3>6 DEF Reaches
  <2>3. QED BY <2>1, <2>2 DEF EditsReach
<1>8. ASSUME NEW n \in Nodes, HandleClusterYJSEvent(n) PROVE EditsReach'
  <2> DEFINE frame == Head(channel[n])
  <2>1. /\ UNCHANGED <<yjsConns, stage, work, stored, overtaken, torn>>
    BY <1>8 DEF HandleClusterYJSEvent
  <2>2. /\ Grows /\ cut \subseteq cut' /\ down \subseteq down'
        /\ \/ frame \subseteq cut'
           \/ \A d \in Targets(n, {}) \ down : frame \subseteq doc'[d]
    <3>1. frame \in SUBSET Edits
      BY <1>8, HandledFrame
    <3>2. CASE FanOut(n, frame, {}) /\ UNCHANGED down
      BY <3>1, <3>2, FanOutDelivers
    <3>3. ASSUME NEW closed \in SUBSET Clients, FanOutFails(n, frame, {}, closed), down' = down \cup closed
          PROVE  Grows /\ frame \subseteq cut' /\ cut \subseteq cut' /\ down \subseteq down'
      <4>1. Grows /\ cut' = cut \cup frame
        BY <3>1, <3>3, FanOutCuts
      <4>2. QED BY <3>3, <4>1
    <3>4. QED BY <1>8, <3>2, <3>3, HandledFrame
  <2>4. ASSUME NEW d \in Clients, Loaded(d)', NEW e \in kept, e \notin cut' PROVE Reaches(d, e)'
    <3>1. Loaded(d) /\ Reaches(d, e)
      BY <2>1, <2>2, <2>4 DEF EditsReach, Loaded
    <3>2. CASE Published(d, e)
      <4>1. PICK i \in 1..Len(channel[NodeOf[d]]) : e \in channel[NodeOf[d]][i]
        BY <3>2 DEF Published
      <4>2. CASE NodeOf[d] # n
        BY <1>8, <3>2, <4>2, YjsAssumption, HandledFrame DEF TypeOK, Published, Reaches
      <4>3. CASE NodeOf[d] = n /\ i = 1
        <5>1. e \in frame
          BY <1>8, <4>1, <4>3, HandledFrame, HeadAndTail
        <5>2. d \in Targets(n, {}) \ down
          BY <3>1, <4>3, LoadedOnline DEF Targets
        <5>3. QED BY <2>2, <2>4, <5>1, <5>2 DEF Reaches
      <4>4. CASE NodeOf[d] = n /\ i # 1
        <5>1. channel'[n] = Tail(channel[n])
          BY <1>8, HandledFrame DEF TypeOK
        <5>2. channel[n] \in Seq(SUBSET Edits) /\ channel[n] # << >> /\ i \in 2..Len(channel[n])
          BY <1>8, <4>1, <4>4, HandledFrame, HeadAndTail
        <5>3. i - 1 \in 1..Len(channel'[n]) /\ channel'[n][i - 1] = channel[n][i]
          BY <5>1, <5>2, HeadAndTail
        <5>4. QED BY <4>1, <4>4, <5>3 DEF Reaches, Published
      <4>5. QED BY <4>2, <4>3, <4>4
    <3>3. ASSUME NEW x \in Clients, Carries(x, d, e) PROVE Carries(x, d, e)'
      BY <2>1, <3>3 DEF Carries
    <3>4. QED BY <2>1, <2>2, <3>1, <3>2, <3>3 DEF Reaches, Grows
  <2>5. QED BY <2>1, <2>2, <2>4 DEF EditsReach
<1>9. ASSUME NEW c \in Clients, Drop(c) \/ StoreFails(c) \/ PublishFails(c) PROVE NothingLost
  <2>1. /\ UNCHANGED <<doc, channel, overtaken>> /\ stage'[c] = "off" /\ down' = down \ {c} /\ torn' = torn \ {c}
        /\ \A d \in Clients \ {c} : stage'[d] = stage[d] /\ work'[d] = work[d]
        /\ stage[c] \in {"relay", "publish"} => work[c].edits \subseteq cut'
        /\ cut \subseteq cut'
        /\ stored' = stored \/ (stored' = stored \cup work[c].edits /\ work[c].edits \subseteq cut')
    <3>1. CASE Drop(c)
      <4>1. UNCHANGED <<doc, channel, overtaken, cut, stored>> /\ stage[c] \notin {"relay", "publish"}
        BY <3>1 DEF Drop
      <4>2. QED BY <3>1, <4>1 DEF TypeOK, Drop, Unregister
    <3>2. CASE StoreFails(c)
      <4>1. stored' = stored \/ stored' = stored \cup work[c].edits
        BY <3>2 DEF StoreFails, AppendYJSUpdate
      <4>2. QED BY <3>2, <4>1 DEF TypeOK, StoreFails, Unregister
    <3>3. CASE PublishFails(c)
      BY <3>3 DEF TypeOK, PublishFails, Unregister
    <3>4. QED BY <1>9, <3>1, <3>2, <3>3
  <2>2. QED BY <2>1 DEF NothingLost, Grows, Loaded
<1>10. ASSUME NEW c \in Clients, NEW closed \in SUBSET Clients, RelayFails(c, closed) PROVE NothingLost
  <2>1. /\ UNCHANGED <<channel, overtaken, stored>> /\ stage'[c] = "off" /\ torn' = torn \ {c}
        /\ down \ {c} \subseteq down'
        /\ \A d \in Clients \ {c} : stage'[d] = stage[d] /\ work'[d] = work[d]
    BY <1>10 DEF TypeOK, RelayFails, Unregister
  <2>2. Grows /\ cut' = cut \cup work[c].edits
    BY <1>10, LogTypes, FanOutCuts DEF RelayFails
  <2>3. QED BY <2>1, <2>2 DEF NothingLost, Loaded
<1>11. ASSUME NEW c \in Clients, NEW d \in Clients, Sync(c, d) PROVE NothingLost
  BY <1>11 DEF TypeOK, Sync, NothingLost, Grows, Loaded, nodeVars, sockVars, histVars
<1>12. ASSUME NEW c \in Clients, NEW e \in Edits, Edit(c, e) PROVE NothingLost
  BY <1>12 DEF TypeOK, Edit, NothingLost, Grows, Loaded, nodeVars, sockVars, histVars
<1>13. ASSUME NEW k \in Compactors, ReadSnapshot(k) \/ ReadUpdates(k) \/ Compact(k) \/ CompactFails(k)
      PROVE  NothingLost
  <2>1. /\ UNCHANGED <<doc, channel, down, stage, work, stored, cut>>
        /\ overtaken \subseteq overtaken' /\ torn \subseteq torn'
    BY <1>13 DEF ReadSnapshot, ReadUpdates, Compact, CompactFails, nodeVars, sockVars, provVars, histVars
  <2>2. QED BY <2>1 DEF NothingLost, Grows, Loaded
<1>14. CASE UNCHANGED yjsVars
  <2>1. NothingLost
    BY <1>14 DEF NothingLost, Grows, Loaded, yjsVars, nodeVars, sockVars, provVars, histVars
  <2>2. QED BY <2>1, ReachKept
<1>15. CASE Next
  BY <1>1, <1>2, <1>3, <1>4, <1>5, <1>6, <1>7, <1>8, <1>9, <1>10, <1>11, <1>12, <1>13, <1>15, YjsSteps, ReachKept
<1>16. QED BY <1>14, <1>15

-----------------------------------------------------------------------------
(* The theorems.                                                           *)

\* The invariant holds initially.
LEMMA YjsInitially == Init => YjsInv
<1> SUFFICES ASSUME Init PROVE YjsInv
  OBVIOUS
<1>1. TypeOK
  <2>1. NoUpdate \in Update /\ NoSnap \in Snapshot
    BY DEF NoUpdate, Update, NoSnap, Snapshot
  <2>2. QED BY <2>1, YjsAssumption DEF Init, TypeOK, Stages
<1>2. SlotsFollow
  BY DEF Init, SlotsFollow, Online
<1>3. WithinLimit
  <2>1. ASSUME NEW n \in Nodes PROVE Cardinality({c \in yjsRooms : NodeOf[c] = n}) = 0
    BY FS_EmptySet DEF Init
  <2>2. QED BY <2>1, YjsAssumption DEF WithinLimit
<1>4. LogInv
  BY DEF Init, LogInv, SequencesDrawn, StoredSurvives, AboveOrOvertaken, CompactorSound, NoSnap
<1>5. ReachInv
  BY DEF Init, ReachInv, OwnEdits, LoadsCurrent, EditsReach
<1>6. QED BY <1>1, <1>2, <1>3, <1>4, <1>5 DEF YjsInv, SlotsInv

\* In every state, whatever the number of compactors: the slots taken are
\* those of the sockets being set up or served, within the limit.
THEOREM SlotsSound == Spec => []SlotsMatchSockets
<1> DEFINE Inv == SlotsInv /\ SequencesDrawn
<1>1. Init => Inv
  BY YjsInitially DEF YjsInv, LogInv
<1>2. Inv /\ [Next]_yjsVars => Inv'
  BY TypeStep, SlotsStep, LimitStep, SequencesStep DEF SlotsInv
<1>3. Inv => SlotsMatchSockets
  BY DEF SlotsInv, SlotsFollow, WithinLimit, SlotsMatchSockets
<1>4. QED BY <1>1, <1>2, <1>3, PTL DEF Spec

\* With at most one compactor, the whole invariant holds in every state.
THEOREM YjsInvariant ==
  ASSUME \A j, k \in Compactors : j = k
  PROVE  Spec => []YjsInv
<1>1. Init => YjsInv
  BY YjsInitially
<1>2. YjsInv /\ [Next]_yjsVars => YjsInv'
  BY TypeStep, SlotsStep, LimitStep, LogStep, OwnEditsStep, LoadsStep, ReachStep
     DEF YjsInv, SlotsInv, LogInv, ReachInv
<1>3. QED BY <1>1, <1>2, PTL DEF Spec

\* A stored edit stays in the document, through every append, load and
\* compaction that runs into it, unless its append was outstanding when the
\* compactor read a higher sequence.
THEOREM DocumentKeepsStored ==
  ASSUME \A j, k \in Compactors : j = k
  PROVE  Spec => []StoredSurvives
<1>1. YjsInv => StoredSurvives
  BY DEF YjsInv, LogInv
<1>2. QED BY <1>1, YjsInvariant, PTL

\* When no frame is under way, every open client has every stored edit, those
\* appended during its load included, except the ones a compactor overtook or
\* whose fan-out was cut short, and clients whose load was torn.
THEOREM OpenClientsHaveStored ==
  ASSUME \A j, k \in Compactors : j = k
  PROVE  Spec => []OpenClientsComplete
<1>1. ASSUME YjsInv, Quiet, NEW c \in Clients, stage[c] = "open", c \notin torn,
             NEW e \in stored \ (overtaken \cup cut)
      PROVE  e \in doc[c]
  <2>1. Reaches(c, e)
    BY <1>1 DEF YjsInv, ReachInv, EditsReach, Loaded, Quiet
  <2>2. ASSUME NEW d \in Clients PROVE ~Carries(d, c, e)
    BY <1>1 DEF Quiet, Carries
  <2>3. ~Published(c, e)
    BY <1>1, YjsAssumption DEF Quiet, Published
  <2>4. QED BY <1>1, <2>1, <2>2, <2>3 DEF Reaches
<1>2. YjsInv => OpenClientsComplete
  BY <1>1 DEF OpenClientsComplete
<1>3. QED BY <1>2, YjsInvariant, PTL
=============================================================================
