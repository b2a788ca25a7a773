---------------------------- MODULE EventProofs ----------------------------
(***************************************************************************)
(* Proofs about EventLog, for any clients, nodes, users, events and log    *)
(* sizes: replay and live events meet without a gap, acknowledgements      *)
(* reach the durable cursor, and the cursor never moves back.              *)
(*                                                                         *)
(* The invariant follows each published sequence and each acknowledgement  *)
(* through the hands that carry it: the handler, the channel, the fan-out, *)
(* the replay and the client's inbox.                                      *)
(***************************************************************************)
EXTENDS EventLog, TLAPS

-----------------------------------------------------------------------------
(* The inductive invariant.                                                *)

EventTypes ==
    /\ counter \in Nat /\ log \subseteq Entry /\ published \subseteq 1..counter
    /\ durable \in [Users -> Nat]
    /\ members \subseteq Clients
    /\ stage \in [Clients \cup {Admin} -> Stages]
    /\ inbox \in [Clients -> Seq(Message)]
    /\ work \in [Clients \cup {Admin} -> Entry]
    /\ after \in [Clients -> Nat] /\ from \in [Clients -> Nat]
    /\ replay \in [Clients -> SUBSET Entry]
    /\ watched \in [Clients -> [Users -> Nat]]
    /\ channel \in [Nodes -> Seq(Entry)]
    /\ msg \in [Procs -> Entry] /\ out \in [Procs -> SUBSET Clients]
    /\ last \in [Clients -> Nat]
    /\ got \in [Clients -> SUBSET Nat] /\ session \in [Clients -> SUBSET Nat]
    /\ refused \in [Clients -> SUBSET Nat] /\ beyond \in [Clients -> SUBSET Nat]
    /\ updates \in Nat

\* What the goroutine q holds at each stage.
HandlerHolds(q) ==
    /\ stage[q] = "publish" => work[q].seq \in 1..counter
    /\ q \in Clients =>
          /\ q \in members => stage[q] # "off"
          /\ out[q] # {} => stage[q] = "fanout" /\ work[q] = NoEntry
          /\ stage[q] = "exec" => watched[q][UserOf[q]] < work[q].seq
          /\ stage[q] = "list" => from[q] = after[q]

HandlersSound == \A q \in Clients \cup {Admin} : HandlerHolds(q)

\* A client's acknowledgement of s: in its inbox, or being stored.
AckComing(c, s) ==
    \/ \E i \in 1..Len(inbox[c]) : inbox[c][i].t = "EVENT_ACK" /\ inbox[c][i].entry.seq = s
    \/ stage[c] \in {"watch", "exec"} /\ work[c].seq = s

\* What c has accepted on its socket.
AcksOf(c) ==
    stage[c] \notin {"off", "closing"} =>
        \A s \in session[c] : s <= durable[UserOf[c]] \/ AckComing(c, s)

AcksFollow == \A c \in Clients : AcksOf(c)

\* The event published as s is on its way to client c: c has still to read the
\* log or to send what it read, the node of c has still to handle the event, a
\* fan-out has still to enqueue it, or its publisher has still to start one.
Replaying(c, s) ==
    \/ stage[c] = "list"
    \/ stage[c] = "replay" /\ \E x \in replay[c] : x.seq = s

Queued(c, s) ==
    \E i \in 1..Len(channel[NodeOf[c]]) : channel[NodeOf[c]][i].seq = s

Targeted(c, s) == \E p \in Procs : c \in out[p] /\ msg[p].seq = s

Publishing(q) == stage[q] = "fanout" /\ work[q] # NoEntry

FanningOut(c, s) ==
    \E q \in Clients : Publishing(q) /\ work[q].seq = s /\ NodeOf[q] = NodeOf[c]

EventComing(c, s) ==
    Replaying(c, s) \/ Queued(c, s) \/ Targeted(c, s) \/ FanningOut(c, s)

\* What a joined client is owed.
Owed(c) == {s \in published : s > from[c]} \ (beyond[c] \cup cut)

EventsOf(c) ==
    c \in members /\ stage[c] # "closing" =>
        \A s \in Owed(c) : s \in got[c] \cup refused[c] \/ EventComing(c, s)

EventsFollow == \A c \in Clients : EventsOf(c)

EventInv == EventTypes /\ HandlersSound /\ AcksFollow /\ EventsFollow

-----------------------------------------------------------------------------
(* Sequences, cursors and records.                                         *)

\* The first message of a nonempty sequence and the rest.
LEMMA HeadAndTail ==
  ASSUME NEW S, NEW s \in Seq(S), s # << >>
  PROVE  /\ Head(s) \in S /\ Tail(s) \in Seq(S)
         /\ Len(s) \in Nat /\ Len(s) > 0 /\ Head(s) = s[1]
         /\ Len(Tail(s)) = Len(s) - 1
         /\ \A i \in 2..Len(s) : i - 1 \in 1..Len(Tail(s)) /\ Tail(s)[i - 1] = s[i]
OBVIOUS

\* A sequence with one more element.
LEMMA Appended ==
  ASSUME NEW S, NEW s \in Seq(S), NEW x \in S
  PROVE  /\ Append(s, x) \in Seq(S)
         /\ Len(Append(s, x)) = Len(s) + 1 /\ Len(s) \in Nat
         /\ Append(s, x)[Len(s) + 1] = x
         /\ \A i \in 1..Len(s) : Append(s, x)[i] = s[i]
OBVIOUS

\* The newer of two cursors is one of them.
LEMMA NewerCursor ==
  ASSUME NEW a \in Nat, NEW b \in Nat
  PROVE  Max({a, b}) \in Nat
<1>1. PICK m \in {a, b} : \A y \in {a, b} : m >= y
  OBVIOUS
<1>2. Max({a, b}) \in {a, b}
  BY <1>1 DEF Max
<1>3. QED BY <1>2

\* Log entries and messages with other fields.
LEMMA Records ==
  /\ NoEntry \in Entry
  /\ \A x \in Entry : x.seq \in Nat
  /\ \A x \in Entry, s \in Nat : [x EXCEPT !.seq = s] \in Entry /\ [x EXCEPT !.seq = s].seq = s
  /\ \A e \in Events : [NoEntry EXCEPT !.ev = e] \in Entry
  /\ \A s \in Nat : [seq |-> s, ev |-> Storage] \in Entry
  /\ \A m \in Message : m.entry \in Entry
  /\ \A t \in {"JOIN", "EMIT", "EVENT_ACK"}, x \in Entry : [t |-> t, entry |-> x] \in Message
BY DEF NoEntry, Entry, Message

\* A function with another value in its range.
LEMMA Updated ==
  ASSUME NEW D, NEW R, NEW f \in [D -> R], NEW d, NEW x \in R
  PROVE  [f EXCEPT ![d] = x] \in [D -> R]
OBVIOUS

\* The types after a client has handled an event.
LEMMA AcceptTypes ==
  ASSUME EventTypes, NEW c \in Clients, NEW s \in Nat, Accept(c, s)
  PROVE  /\ last' \in [Clients -> Nat] /\ inbox' \in [Clients -> Seq(Message)]
         /\ got' \in [Clients -> SUBSET Nat] /\ session' \in [Clients -> SUBSET Nat]
         /\ refused' \in [Clients -> SUBSET Nat]
<1> DEFINE m == [t |-> "EVENT_ACK", entry |-> [NoEntry EXCEPT !.seq = s]]
<1>1. m \in Message
  BY Records
<1>2. /\ inbox[c] \in Seq(Message) /\ got[c] \in SUBSET Nat
      /\ session[c] \in SUBSET Nat /\ refused[c] \in SUBSET Nat
  BY DEF EventTypes
<1>3. /\ Append(inbox[c], m) \in Seq(Message)
      /\ got[c] \cup {s} \in SUBSET Nat /\ session[c] \cup {s} \in SUBSET Nat
      /\ refused[c] \cup ({s} \ got[c]) \in SUBSET Nat
  BY <1>1, <1>2, Appended
<1>4. CASE s <= last[c]
  <2>1. /\ refused' = [refused EXCEPT ![c] = refused[c] \cup ({s} \ got[c])]
        /\ UNCHANGED <<last, got, session, inbox>>
    BY <1>4 DEF Accept
  <2>2. QED BY <1>3, <2>1, Updated DEF EventTypes
<1>5. CASE ~(s <= last[c])
  <2>1. /\ last' = [last EXCEPT ![c] = s]
        /\ got' = [got EXCEPT ![c] = got[c] \cup {s}]
        /\ session' = [session EXCEPT ![c] = session[c] \cup {s}]
        /\ inbox' = [inbox EXCEPT ![c] = Append(inbox[c], m)]
        /\ UNCHANGED refused
    BY <1>5 DEF Accept
  <2> HIDE DEF m
  <2>2. QED BY <1>3, <2>1, Updated DEF EventTypes
<1>6. QED BY <1>4, <1>5

\* The types after a move to another stage.
LEMMA GotoTypes ==
  ASSUME EventTypes, NEW q, NEW s \in Stages, Goto(q, s)
  PROVE  stage' \in [Clients \cup {Admin} -> Stages]
BY Updated DEF Goto, EventTypes

\* The types after the targets of a fan-out were resolved.
LEMMA ResolveTypes ==
  ASSUME EventTypes, NEW p, NEW n, NEW x \in Entry, Resolve(p, n, x)
  PROVE  msg' \in [Procs -> Entry] /\ out' \in [Procs -> SUBSET Clients]
<1>1. EventFanout(n) \in SUBSET Clients
  BY DEF EventFanout, EventTypes
<1>2. QED BY <1>1, Updated DEF Resolve, EventTypes

\* The types after a handler has returned.
LEMMA ReturnTypes ==
  ASSUME EventTypes, NEW c \in Clients, Return(c)
  PROVE  /\ work' \in [Clients \cup {Admin} -> Entry]
         /\ after' \in [Clients -> Nat] /\ replay' \in [Clients -> SUBSET Entry]
         /\ watched' \in [Clients -> [Users -> Nat]]
<1>1. NoAcks \in [Users -> Nat]
  BY DEF NoAcks
<1>2. QED BY <1>1, Records DEF Return, EventTypes

\* The types after an event was logged and published.
LEMMA PublishTypes ==
  ASSUME EventTypes, NEW q \in Clients \cup {Admin}, work[q].seq \in 1..counter, LogAndPublish(q)
  PROVE  /\ log' \subseteq Entry /\ published' \subseteq 1..counter
         /\ channel' \in [Nodes -> Seq(Entry)]
<1>1. work[q] \in Entry
  BY DEF EventTypes
<1>2. log' \subseteq Entry
  BY <1>1 DEF LogAndPublish, Logged, EventTypes
<1>3. published' \subseteq 1..counter
  BY DEF LogAndPublish, EventTypes
<1>4. channel' \in [Nodes -> Seq(Entry)]
  BY <1>1, Appended DEF LogAndPublish, EventTypes
<1>5. QED BY <1>2, <1>3, <1>4

-----------------------------------------------------------------------------
(* Types and handlers.                                                     *)

\* Every step keeps the types.
LEMMA TypesStep ==
  ASSUME EventTypes, HandlersSound, [Next]_eventVars
  PROVE  EventTypes'
<1> USE EventAssumption
<1>1. ASSUME NEW c \in Clients, NEW cursor \in {0, last[c]}, Connect(c, cursor) PROVE EventTypes'
  <2>1. cursor \in Nat
    BY DEF EventTypes
  <2>2. JoinMessage(cursor) \in Message
    BY <2>1, Records DEF JoinMessage
  <2>3. <<JoinMessage(cursor)>> \in Seq(Message)
    BY <2>2
  <2>4. stage' \in [Clients \cup {Admin} -> Stages]
    BY <1>1 DEF Connect, JoinMessage, EventTypes, Stages
  <2>5. inbox' \in [Clients -> Seq(Message)]
    BY <1>1, <2>3, Updated DEF Connect, EventTypes
  <2>6. last' \in [Clients -> Nat]
    BY <1>1, <2>1, Updated DEF Connect, EventTypes
  <2>7. session' \in [Clients -> SUBSET Nat]
    BY <1>1, Updated DEF Connect, EventTypes
  <2>8. UNCHANGED <<counter, log, published, durable, members, work, after, from, replay,
                    watched, channel, msg, out, got, refused, beyond, updates>>
    BY <1>1 DEF Connect, redisVars, handlerVars, fanVars, oweVars
  <2>9. QED BY <2>4, <2>5, <2>6, <2>7, <2>8 DEF EventTypes
<1>2. ASSUME NEW c \in Clients, NEW e \in Events, Broadcast(c, e) PROVE EventTypes'
  <2>1. [t |-> "EMIT", entry |-> [NoEntry EXCEPT !.ev = e]] \in Message /\ inbox[c] \in Seq(Message)
    BY Records DEF EventTypes
  <2>2. Append(inbox[c], [t |-> "EMIT", entry |-> [NoEntry EXCEPT !.ev = e]]) \in Seq(Message)
    BY <2>1, Appended
  <2>3. inbox' \in [Clients -> Seq(Message)]
    BY <1>2, <2>2, Updated DEF Broadcast, EventTypes
  <2>4. UNCHANGED <<counter, log, published, durable, members, stage, work, after, from,
                    replay, watched, channel, msg, out, last, got, session, refused,
                    beyond, updates>>
    BY <1>2 DEF Broadcast, redisVars, handlerVars, fanVars, clientVars, countVars, oweVars
  <2>5. QED BY <2>3, <2>4 DEF EventTypes
<1>3. ASSUME NEW c \in Clients, Read(c) PROVE EventTypes'
  <2>1. inbox[c] \in Seq(Message) /\ inbox[c] # << >>
    BY <1>3 DEF Read, EventTypes
  <2>2. /\ Head(inbox[c]).entry \in Entry /\ Head(inbox[c]).entry.seq \in Nat
        /\ Tail(inbox[c]) \in Seq(Message)
    BY <2>1, HeadAndTail, Records
  <2>3. \E s \in Stages : Goto(c, s)
    BY <1>3 DEF Read, Stages
  <2>4. after' = after \/ after' = [after EXCEPT ![c] = Head(inbox[c]).entry.seq]
    BY <1>3 DEF Read
  <2>5. work' = work \/ work' = [work EXCEPT ![c] = Head(inbox[c]).entry]
    BY <1>3 DEF Read
  <2>6. stage' \in [Clients \cup {Admin} -> Stages]
    BY <2>3, GotoTypes
  <2>7. inbox' \in [Clients -> Seq(Message)]
    BY <1>3, <2>2, Updated DEF Read, EventTypes
  <2>8. work' \in [Clients \cup {Admin} -> Entry]
    BY <2>2, <2>5, Updated DEF EventTypes
  <2>9. after' \in [Clients -> Nat]
    BY <2>2, <2>4, Updated DEF EventTypes
  <2>10. UNCHANGED <<counter, log, published, durable, members, from, replay, watched,
                     channel, msg, out, last, got, session, refused, beyond, updates>>
    BY <1>3 DEF Read, redisVars, fanVars, clientVars, countVars, oweVars
  <2>11. QED BY <2>6, <2>7, <2>8, <2>9, <2>10 DEF EventTypes
<1>4. ASSUME NEW c \in Clients, JoinCursor(c) PROVE EventTypes'
  <2>1. after[c] \in Nat /\ durable[UserOf[c]] \in Nat
    BY DEF EventTypes
  <2>2. stage' \in [Clients \cup {Admin} -> Stages]
    BY <1>4 DEF JoinCursor, Goto, EventTypes, Stages
  <2>3. after' \in [Clients -> Nat]
    BY <1>4, <2>1, NewerCursor, Updated DEF JoinCursor, EventTypes
  <2>4. UNCHANGED <<counter, log, published, durable, members, inbox, work, from, replay,
                    watched, channel, msg, out, last, got, session, refused, beyond,
                    updates>>
    BY <1>4 DEF JoinCursor, redisVars, fanVars, clientVars, countVars, oweVars
  <2>5. QED BY <2>2, <2>3, <2>4 DEF EventTypes
<1>5. ASSUME NEW c \in Clients, JoinEngine(c) PROVE EventTypes'
  <2>1. members' \subseteq Clients
    BY <1>5 DEF JoinEngine, Goto, EventTypes
  <2>2. stage' \in [Clients \cup {Admin} -> Stages]
    BY <1>5 DEF JoinEngine, Goto, EventTypes, Stages
  <2>3. from' \in [Clients -> Nat]
    BY <1>5 DEF JoinEngine, Goto, EventTypes
  <2>4. beyond' \in [Clients -> SUBSET Nat]
    BY <1>5 DEF JoinEngine, Goto, EventTypes
  <2>5. UNCHANGED <<counter, log, published, durable, inbox, work, after, replay, watched,
                    channel, msg, out, last, got, session, refused, updates>>
    BY <1>5 DEF JoinEngine, redisVars, handlerVars, fanVars, clientVars, countVars
  <2>6. QED BY <2>1, <2>2, <2>3, <2>4, <2>5 DEF EventTypes
<1>6. ASSUME NEW c \in Clients, ListPublishedEvents(c) PROVE EventTypes'
  <2>1. PICK S \in SUBSET {x \in log : x.seq > after[c]} :
           replay' = [replay EXCEPT ![c] = {x \in S : x.ev # Storage}]
    BY <1>6 DEF ListPublishedEvents
  <2>2. {x \in S : x.ev # Storage} \in SUBSET Entry
    BY DEF EventTypes
  <2>3. \A R : {s \in published : s > after[c]} \ R \in SUBSET (1..counter)
    BY DEF EventTypes
  <2>4. counter \in Nat /\ 1..counter \subseteq Nat
    BY DEF EventTypes
  <2>5. beyond' = [beyond EXCEPT ![c] =
                     {s \in published : s > after[c]} \ {x.seq : x \in replay'[c]}]
    BY <1>6 DEF ListPublishedEvents
  <2>6. stage' \in [Clients \cup {Admin} -> Stages]
    BY <1>6 DEF ListPublishedEvents, Goto, EventTypes, Stages
  <2>7. replay' \in [Clients -> SUBSET Entry]
    BY <2>1, <2>2, Updated DEF EventTypes
  <2>8. beyond' \in [Clients -> SUBSET Nat]
    BY <2>3, <2>4, <2>5, Updated DEF EventTypes
  <2>9. UNCHANGED <<counter, log, published, durable, members, inbox, work, after, from,
                    watched, channel, msg, out, last, got, session, refused, updates>>
    BY <1>6 DEF ListPublishedEvents, redisVars, fanVars, clientVars, countVars
  <2>10. QED BY <2>6, <2>7, <2>8, <2>9 DEF EventTypes
<1>7. ASSUME NEW c \in Clients, ReplayDone(c) PROVE EventTypes'
  <2>1. stage' \in [Clients \cup {Admin} -> Stages]
    BY <1>7 DEF ReplayDone, Return, Goto, EventTypes, Stages
  <2>2. work' \in [Clients \cup {Admin} -> Entry]
    BY <1>7, ReturnTypes DEF ReplayDone
  <2>3. after' \in [Clients -> Nat]
    BY <1>7, ReturnTypes DEF ReplayDone
  <2>4. replay' \in [Clients -> SUBSET Entry]
    BY <1>7, ReturnTypes DEF ReplayDone
  <2>5. watched' \in [Clients -> [Users -> Nat]]
    BY <1>7, ReturnTypes DEF ReplayDone
  <2>6. UNCHANGED <<counter, log, published, durable, members, inbox, from, channel, msg,
                    out, last, got, session, refused, beyond, updates>>
    BY <1>7 DEF ReplayDone, redisVars, fanVars, clientVars, countVars, oweVars
  <2>7. QED BY <2>1, <2>2, <2>3, <2>4, <2>5, <2>6 DEF EventTypes
<1>8. ASSUME NEW c \in Clients, NEW x \in replay[c], SendReplayEvent(c, x) PROVE EventTypes'
  <2>1. x \in Entry /\ Accept(c, x.seq)
    BY <1>8 DEF SendReplayEvent, EventTypes
  <2>2. x.seq \in Nat
    BY <2>1, Records
  <2>3. inbox' \in [Clients -> Seq(Message)]
    BY <2>1, <2>2, AcceptTypes
  <2>4. replay' \in [Clients -> SUBSET Entry]
    BY <1>8, Records DEF SendReplayEvent, Accept, EventTypes
  <2>5. last' \in [Clients -> Nat]
    BY <2>1, <2>2, AcceptTypes
  <2>6. got' \in [Clients -> SUBSET Nat]
    BY <2>1, <2>2, AcceptTypes
  <2>7. session' \in [Clients -> SUBSET Nat]
    BY <2>1, <2>2, AcceptTypes
  <2>8. refused' \in [Clients -> SUBSET Nat]
    BY <2>1, <2>2, AcceptTypes
  <2>9. UNCHANGED <<counter, log, published, durable, members, stage, work, after, from,
                    watched, channel, msg, out, beyond, updates>>
    BY <1>8 DEF SendReplayEvent, redisVars, fanVars, countVars, oweVars
  <2>10. QED BY <2>3, <2>4, <2>5, <2>6, <2>7, <2>8, <2>9 DEF EventTypes
<1>9. ASSUME NEW c \in Clients, BroadcastEvent(c) PROVE EventTypes'
  <2>1. work[c] \in Entry /\ Resolve(c, NodeOf[c], work[c])
    BY <1>9 DEF BroadcastEvent, EventTypes
  <2>2. work' \in [Clients \cup {Admin} -> Entry]
    BY <1>9, Records, Updated DEF BroadcastEvent, EventTypes
  <2>3. msg' \in [Procs -> Entry]
    BY <2>1, ResolveTypes
  <2>4. out' \in [Procs -> SUBSET Clients]
    BY <2>1, ResolveTypes
  <2>5. UNCHANGED <<counter, log, published, durable, members, stage, inbox, after, from,
                    replay, watched, channel, last, got, session, refused, beyond, updates>>
    BY <1>9 DEF BroadcastEvent, redisVars, clientVars, countVars, oweVars
  <2>6. QED BY <2>2, <2>3, <2>4, <2>5 DEF EventTypes
<1>10. ASSUME NEW c \in Clients, BroadcastDone(c) PROVE EventTypes'
  <2>1. stage' \in [Clients \cup {Admin} -> Stages]
    BY <1>10 DEF BroadcastDone, Goto, EventTypes, Stages
  <2>2. UNCHANGED <<counter, log, published, durable, members, inbox, work, after, from,
                    replay, watched, channel, msg, out, last, got, session, refused,
                    beyond, updates>>
    BY <1>10 DEF BroadcastDone, redisVars, handlerVars, fanVars, clientVars, countVars,
       oweVars
  <2>3. QED BY <2>1, <2>2 DEF EventTypes
<1>11. ASSUME NEW c \in Clients, AckWatch(c) PROVE EventTypes'
  <2>1. \/ Goto(c, "ready") /\ Return(c)
        \/ /\ Goto(c, "exec") /\ watched' = [watched EXCEPT ![c] = durable]
           /\ UNCHANGED <<work, after, replay>>
    BY <1>11 DEF AckWatch
  <2>2. stage' \in [Clients \cup {Admin} -> Stages]
    BY <2>1, GotoTypes DEF Stages
  <2>3. work' \in [Clients \cup {Admin} -> Entry]
    BY <2>1, ReturnTypes, Updated DEF EventTypes
  <2>4. after' \in [Clients -> Nat]
    BY <2>1, ReturnTypes, Updated DEF EventTypes
  <2>5. replay' \in [Clients -> SUBSET Entry]
    BY <2>1, ReturnTypes, Updated DEF EventTypes
  <2>6. watched' \in [Clients -> [Users -> Nat]]
    BY <2>1, ReturnTypes, Updated DEF EventTypes
  <2>7. UNCHANGED <<counter, log, published, durable, members, inbox, from, channel, msg,
                    out, last, got, session, refused, beyond, updates>>
    BY <1>11 DEF AckWatch, redisVars, fanVars, clientVars, countVars, oweVars
  <2>8. QED BY <2>2, <2>3, <2>4, <2>5, <2>6, <2>7 DEF EventTypes
<1>12. ASSUME NEW c \in Clients, AckStore(c) PROVE EventTypes'
  <2>1. work[c].seq \in Nat
    BY Records DEF EventTypes
  <2>2. Goto(c, "ready") /\ Return(c) /\ durable' = [durable EXCEPT ![UserOf[c]] = work[c].seq]
    BY <1>12 DEF AckStore
  <2>3. durable' \in [Users -> Nat]
    BY <2>1, <2>2, Updated DEF EventTypes
  <2>4. stage' \in [Clients \cup {Admin} -> Stages]
    BY <1>12 DEF AckStore, Return, Goto, EventTypes, Stages
  <2>5. work' \in [Clients \cup {Admin} -> Entry]
    BY <2>2, ReturnTypes
  <2>6. after' \in [Clients -> Nat]
    BY <2>2, ReturnTypes
  <2>7. replay' \in [Clients -> SUBSET Entry]
    BY <2>2, ReturnTypes
  <2>8. watched' \in [Clients -> [Users -> Nat]]
    BY <2>2, ReturnTypes
  <2>9. UNCHANGED <<counter, log, published, members, inbox, from, channel, msg, out, last,
                    got, session, refused, beyond, updates>>
    BY <1>12 DEF AckStore, fanVars, clientVars, countVars, oweVars
  <2>10. QED BY <2>3, <2>4, <2>5, <2>6, <2>7, <2>8, <2>9 DEF EventTypes
<1>13. ASSUME NEW c \in Clients, AckRetry(c) PROVE EventTypes'
  <2>1. stage' \in [Clients \cup {Admin} -> Stages]
    BY <1>13 DEF AckRetry, Goto, EventTypes, Stages
  <2>2. UNCHANGED <<counter, log, published, durable, members, inbox, work, after, from,
                    replay, watched, channel, msg, out, last, got, session, refused,
                    beyond, updates>>
    BY <1>13 DEF AckRetry, redisVars, fanVars, clientVars, countVars, oweVars
  <2>3. QED BY <2>1, <2>2 DEF EventTypes
<1>14. ASSUME NEW c \in Clients, Disconnect(c) PROVE EventTypes'
  <2>1. Return(c)
    BY <1>14 DEF Disconnect
  <2>2. PICK stop : /\ out' = [p \in Procs |-> IF p \in stop THEN {} ELSE out[p] \ {c}]
                  /\ stage' = [q \in Clients \cup {Admin} |->
                                IF q = c THEN "off"
                                ELSE IF q \in stop THEN "closing" ELSE stage[q]]
    BY <1>14 DEF Disconnect
  <2>3. members' \subseteq Clients
    BY <1>14 DEF Disconnect, Return, EventTypes
  <2>4. stage' \in [Clients \cup {Admin} -> Stages]
    BY <2>2 DEF EventTypes, Stages
  <2>5. inbox' \in [Clients -> Seq(Message)]
    BY <1>14, Updated DEF Disconnect, EventTypes
  <2>6. work' \in [Clients \cup {Admin} -> Entry]
    BY <2>1, ReturnTypes
  <2>7. after' \in [Clients -> Nat]
    BY <2>1, ReturnTypes
  <2>8. replay' \in [Clients -> SUBSET Entry]
    BY <2>1, ReturnTypes
  <2>9. watched' \in [Clients -> [Users -> Nat]]
    BY <2>1, ReturnTypes
  <2>10. out' \in [Procs -> SUBSET Clients]
    BY <2>2 DEF EventTypes
  <2>11. UNCHANGED <<counter, log, published, durable, from, channel, msg, last, got,
                     session, refused, beyond, updates>>
    BY <1>14 DEF Disconnect, redisVars, clientVars, countVars, oweVars
  <2>12. QED BY <2>3, <2>4, <2>5, <2>6, <2>7, <2>8, <2>9, <2>10, <2>11 DEF EventTypes
<1>15. ASSUME NEW e \in Events, AdminPublish(e) PROVE EventTypes'
  <2>1. stage' \in [Clients \cup {Admin} -> Stages]
    BY <1>15 DEF AdminPublish, Goto, EventTypes, Stages
  <2>2. work' \in [Clients \cup {Admin} -> Entry]
    BY <1>15, Records DEF AdminPublish, Goto, EventTypes
  <2>3. UNCHANGED <<counter, log, published, durable, members, inbox, after, from, replay,
                    watched, channel, msg, out, last, got, session, refused, beyond,
                    updates>>
    BY <1>15 DEF AdminPublish, redisVars, fanVars, clientVars, countVars, oweVars
  <2>4. QED BY <2>1, <2>2, <2>3 DEF EventTypes
<1>16. ASSUME NEW q \in Clients \cup {Admin}, DrawSequence(q) PROVE EventTypes'
  <2>1. work' = [work EXCEPT ![q] = [work[q] EXCEPT !.seq = counter + 1]]
    BY <1>16 DEF DrawSequence
  <2>2. /\ work[q] \in Entry /\ counter \in Nat /\ published \subseteq 1..counter
        /\ counter' = counter + 1 /\ published' = published
    BY <1>16 DEF DrawSequence, EventTypes
  <2>3. counter + 1 \in Nat /\ 1..counter \subseteq 1..(counter + 1)
    BY <2>2
  <2>4. [work[q] EXCEPT !.seq = counter + 1] \in Entry
    BY <2>2, <2>3, Records
  <2>5. published' \subseteq 1..counter'
    BY <2>2, <2>3
  <2>6. counter' \in Nat
    BY <2>2, <2>3
  <2>7. stage' \in [Clients \cup {Admin} -> Stages]
    BY <1>16 DEF DrawSequence, Goto, EventTypes, Stages
  <2>8. work' \in [Clients \cup {Admin} -> Entry]
    BY <2>1, <2>4, Updated DEF EventTypes
  <2>9. UNCHANGED <<log, durable, members, inbox, after, from, replay, watched, channel,
                    msg, out, last, got, session, refused, beyond, updates>>
    BY <1>16 DEF DrawSequence, fanVars, clientVars, countVars, oweVars
  <2>10. QED BY <2>6, <2>7, <2>8, <2>5, <2>9 DEF EventTypes
<1>17. ASSUME NEW q \in Clients \cup {Admin}, PublishEvent(q) PROVE EventTypes'
  <2>1. work[q].seq \in 1..counter
    BY <1>17 DEF PublishEvent, HandlersSound, HandlerHolds
  <2>2. LogAndPublish(q) /\ counter' = counter
    BY <1>17 DEF PublishEvent, LogAndPublish
  <2>3. counter' \in Nat
    BY <1>17 DEF PublishEvent, LogAndPublish, Goto, EventTypes
  <2>4. log' \subseteq Entry
    BY <2>1, <2>2, PublishTypes
  <2>5. published' \subseteq 1..counter'
    BY <2>1, <2>2, PublishTypes
  <2>6. durable' \in [Users -> Nat]
    BY <1>17 DEF PublishEvent, LogAndPublish, Goto, EventTypes
  <2>7. stage' \in [Clients \cup {Admin} -> Stages]
    BY <1>17 DEF PublishEvent, LogAndPublish, Goto, EventTypes, Stages
  <2>8. channel' \in [Nodes -> Seq(Entry)]
    BY <2>1, <2>2, PublishTypes
  <2>9. UNCHANGED <<members, inbox, work, after, from, replay, watched, msg, out, last,
                    got, session, refused, beyond, updates>>
    BY <1>17 DEF PublishEvent, handlerVars, clientVars, countVars, oweVars
  <2>10. QED BY <2>3, <2>4, <2>5, <2>6, <2>7, <2>8, <2>9 DEF EventTypes
<1>18. ASSUME NEW q \in Clients \cup {Admin}, RedisFails(q) PROVE EventTypes'
  <2>1. \/ stage[q] = "publish" /\ LogAndPublish(q)
        \/ UNCHANGED <<redisVars, channel>>
    BY <1>18 DEF RedisFails
  <2>2. stage[q] = "publish" => work[q].seq \in 1..counter
    BY DEF HandlersSound, HandlerHolds
  <2>3. UNCHANGED <<counter, durable>>
    BY <2>1 DEF LogAndPublish, redisVars
  <2>4. counter' \in Nat
    BY <2>3 DEF EventTypes
  <2>5. log' \subseteq Entry
    BY <2>1, <2>2, <2>3, PublishTypes DEF redisVars, EventTypes
  <2>6. published' \subseteq 1..counter'
    BY <2>1, <2>2, <2>3, PublishTypes DEF redisVars, EventTypes
  <2>7. durable' \in [Users -> Nat]
    BY <2>3 DEF EventTypes
  <2>8. stage' \in [Clients \cup {Admin} -> Stages]
    BY <1>18 DEF RedisFails, LogAndPublish, Goto, EventTypes, Stages
  <2>9. channel' \in [Nodes -> Seq(Entry)]
    BY <2>1, <2>2, <2>3, PublishTypes DEF redisVars, EventTypes
  <2>10. UNCHANGED <<members, inbox, work, after, from, replay, watched, msg, out, last,
                     got, session, refused, beyond, updates>>
    BY <1>18 DEF RedisFails, redisVars, handlerVars, clientVars, oweVars
  <2>11. QED BY <2>4, <2>5, <2>6, <2>7, <2>8, <2>9, <2>10 DEF EventTypes
<1>19. ASSUME PublishStorageEvent PROVE EventTypes'
  <2>1. log' \subseteq Entry
    BY <1>19, Records DEF PublishStorageEvent, Logged, EventTypes
  <2>2. updates' \in Nat
    BY <1>19 DEF PublishStorageEvent, Logged, EventTypes
  <2>3. UNCHANGED <<counter, published, durable, members, stage, inbox, work, after, from,
                    replay, watched, channel, msg, out, last, got, session, refused,
                    beyond>>
    BY <1>19 DEF PublishStorageEvent, handlerVars, fanVars, clientVars, oweVars
  <2>4. QED BY <2>1, <2>2, <2>3 DEF EventTypes
<1>20. ASSUME NEW n \in Nodes, HandleClusterEvent(n) PROVE EventTypes'
  <2>1. channel[n] \in Seq(Entry) /\ channel[n] # << >>
    BY <1>20 DEF HandleClusterEvent, EventTypes
  <2>2. Head(channel[n]) \in Entry /\ Tail(channel[n]) \in Seq(Entry) /\ Resolve(n, n, Head(channel[n]))
    BY <1>20, <2>1, HeadAndTail DEF HandleClusterEvent
  <2>3. channel' \in [Nodes -> Seq(Entry)]
    BY <1>20, <2>2, Updated DEF HandleClusterEvent, EventTypes
  <2>4. msg' \in [Procs -> Entry]
    BY <2>2, ResolveTypes
  <2>5. out' \in [Procs -> SUBSET Clients]
    BY <2>2, ResolveTypes
  <2>6. UNCHANGED <<counter, log, published, durable, members, stage, inbox, work, after,
                    from, replay, watched, last, got, session, refused, beyond, updates>>
    BY <1>20 DEF HandleClusterEvent, redisVars, handlerVars, clientVars, countVars, oweVars
  <2>7. QED BY <2>3, <2>4, <2>5, <2>6 DEF EventTypes
<1>21. ASSUME NEW p \in Procs, NEW c \in out[p], Enqueue(p, c) PROVE EventTypes'
  <2>1. c \in Clients /\ msg[p] \in Entry /\ Accept(c, msg[p].seq)
    BY <1>21 DEF Enqueue, EventTypes
  <2>2. msg[p].seq \in Nat
    BY <2>1, Records
  <2>3. inbox' \in [Clients -> Seq(Message)]
    BY <2>1, <2>2, AcceptTypes
  <2>4. out' \in [Procs -> SUBSET Clients]
    BY <1>21 DEF Enqueue, Accept, EventTypes
  <2>5. last' \in [Clients -> Nat]
    BY <2>1, <2>2, AcceptTypes
  <2>6. got' \in [Clients -> SUBSET Nat]
    BY <2>1, <2>2, AcceptTypes
  <2>7. session' \in [Clients -> SUBSET Nat]
    BY <2>1, <2>2, AcceptTypes
  <2>8. refused' \in [Clients -> SUBSET Nat]
    BY <2>1, <2>2, AcceptTypes
  <2>9. UNCHANGED <<counter, log, published, durable, members, stage, work, after, from,
                    replay, watched, channel, msg, beyond, updates>>
    BY <1>21 DEF Enqueue, redisVars, handlerVars, countVars, oweVars
  <2>10. QED BY <2>3, <2>4, <2>5, <2>6, <2>7, <2>8, <2>9 DEF EventTypes
<1>22. CASE UNCHANGED eventVars
  BY <1>22 DEF eventVars, EventTypes, redisVars, handlerVars, fanVars, clientVars,
     countVars, oweVars
<1> HIDE EventAssumption
<1>23. QED
  BY <1>1, <1>2, <1>3, <1>4, <1>5, <1>6, <1>7, <1>8, <1>9, <1>10, <1>11, <1>12, <1>13,
     <1>14, <1>15, <1>16, <1>17, <1>18, <1>19, <1>20, <1>21, <1>22 DEF Next, Join


\* The goroutines other than q, and their rooms, stay as they are.
OthersKeep(q) ==
    /\ \A d \in (Clients \cup {Admin}) \ {q} : stage'[d] = stage[d] /\ work'[d] = work[d]
    /\ \A d \in Clients \ {q} : /\ out'[d] = out[d] /\ watched'[d] = watched[d]
                                /\ from'[d] = from[d] /\ after'[d] = after[d]
                                /\ (d \in members' <=> d \in members)

\* A goroutine moves on, and the others stay where they are.
LEMMA GotoStep ==
  ASSUME EventTypes, NEW q \in Clients \cup {Admin}, NEW s, Goto(q, s)
  PROVE  stage'[q] = s /\ \A d \in (Clients \cup {Admin}) \ {q} : stage'[d] = stage[d]
BY DEF EventTypes, Goto

\* HandlersSound, one goroutine at a time.
LEMMA HandlerStep ==
  ASSUME EventTypes, HandlersSound, NEW q, OthersKeep(q),
         counter' \in Nat, counter <= counter',
         q \in Clients \cup {Admin} => HandlerHolds(q)'
  PROVE  HandlersSound'
<1> SUFFICES ASSUME NEW d \in Clients \cup {Admin} PROVE HandlerHolds(d)'
  BY DEF HandlersSound
<1>1. CASE d = q
  BY <1>1
<1>2. CASE d # q
  <2>1. stage'[d] = stage[d] /\ work'[d] = work[d]
    BY <1>2 DEF OthersKeep
  <2>2. d \in Clients => /\ out'[d] = out[d] /\ watched'[d] = watched[d]
                         /\ from'[d] = from[d] /\ after'[d] = after[d]
                         /\ (d \in members' <=> d \in members)
    BY <1>2 DEF OthersKeep
  <2>3. 1..counter \subseteq 1..counter'
    BY DEF EventTypes
  <2>4. QED BY <2>1, <2>2, <2>3 DEF HandlersSound, HandlerHolds
<1>3. QED BY <1>1, <1>2

\* A handler's stage tells what it holds.
LEMMA HandlersStep ==
  ASSUME EventTypes, EventTypes', HandlersSound, [Next]_eventVars
  PROVE  HandlersSound'
<1> USE EventAssumption
<1>1. ASSUME NEW c \in Clients, NEW cursor \in {0, last[c]}, Connect(c, cursor) PROVE HandlersSound'
  <2>1. UNCHANGED <<members, work, out, watched, from, after, counter>>
    BY <1>1 DEF Connect, JoinMessage, redisVars, handlerVars, fanVars, oweVars
  <2>2. OthersKeep(c)
    BY <1>1, <2>1 DEF Connect, JoinMessage, EventTypes, OthersKeep
  <2>3. HandlerHolds(c)'
    BY <1>1, <2>1 DEF Connect, JoinMessage, EventTypes, HandlersSound, HandlerHolds
  <2>4. counter' \in Nat /\ counter <= counter'
    BY <2>1 DEF EventTypes
  <2>5. QED BY <2>2, <2>3, <2>4, HandlerStep
<1>2. ASSUME NEW c \in Clients, NEW e \in Events, Broadcast(c, e) PROVE HandlersSound'
  <2>1. UNCHANGED <<members, stage, work, out, watched, from, after, counter>>
    BY <1>2 DEF Broadcast, redisVars, handlerVars, fanVars, clientVars, countVars, oweVars
  <2>2. OthersKeep(c)
    BY <1>2, <2>1 DEF Broadcast, EventTypes, OthersKeep
  <2>3. HandlerHolds(c)'
    BY <1>2, <2>1 DEF Broadcast, EventTypes, HandlersSound, HandlerHolds
  <2>4. counter' \in Nat /\ counter <= counter'
    BY <2>1 DEF EventTypes
  <2>5. QED BY <2>2, <2>3, <2>4, HandlerStep
<1>3. ASSUME NEW c \in Clients, Read(c) PROVE HandlersSound'
  <2>1. UNCHANGED <<members, out, watched, from, counter>>
    BY <1>3 DEF Read, Goto, redisVars, fanVars, clientVars, countVars, oweVars
  <2>2. OthersKeep(c)
    <3>1. \A d \in (Clients \cup {Admin}) \ {c} : stage'[d] = stage[d]
      BY <1>3, GotoStep DEF Read
    <3>2. /\ \A d \in (Clients \cup {Admin}) \ {c} : work'[d] = work[d]
          /\ \A d \in Clients \ {c} : after'[d] = after[d]
      BY <1>3 DEF Read, EventTypes
    <3>3. QED BY <2>1, <3>1, <3>2 DEF OthersKeep
  <2>3. HandlerHolds(c)'
    <3>1. stage[c] = "ready" /\ stage'[c] \in {"cursor", "incr", "watch"}
      BY <1>3 DEF Read, Goto, EventTypes
    <3>2. HandlerHolds(c)
      BY DEF HandlersSound
    <3>3. QED BY <2>1, <3>1, <3>2 DEF HandlerHolds
  <2>4. counter' \in Nat /\ counter <= counter'
    BY <2>1 DEF EventTypes
  <2>5. QED BY <2>2, <2>3, <2>4, HandlerStep
<1>4. ASSUME NEW c \in Clients, JoinCursor(c) PROVE HandlersSound'
  <2>1. UNCHANGED <<members, work, out, watched, from, counter>>
    BY <1>4 DEF JoinCursor, Goto, redisVars, fanVars, clientVars, countVars, oweVars
  <2>2. OthersKeep(c)
    BY <1>4, <2>1 DEF JoinCursor, Goto, EventTypes, OthersKeep
  <2>3. HandlerHolds(c)'
    BY <1>4, <2>1 DEF JoinCursor, Goto, EventTypes, HandlersSound, HandlerHolds
  <2>4. counter' \in Nat /\ counter <= counter'
    BY <2>1 DEF EventTypes
  <2>5. QED BY <2>2, <2>3, <2>4, HandlerStep
<1>5. ASSUME NEW c \in Clients, JoinEngine(c) PROVE HandlersSound'
  <2>1. UNCHANGED <<work, out, watched, after, counter>>
    BY <1>5 DEF JoinEngine, Goto, redisVars, handlerVars, fanVars, clientVars, countVars
  <2>2. OthersKeep(c)
    <3>1. \A d \in (Clients \cup {Admin}) \ {c} : stage'[d] = stage[d]
      BY <1>5, GotoStep DEF JoinEngine
    <3>2. \A d \in Clients \ {c} : from'[d] = from[d] /\ (d \in members' <=> d \in members)
      BY <1>5 DEF JoinEngine, EventTypes
    <3>3. QED BY <2>1, <3>1, <3>2 DEF OthersKeep
  <2>3. HandlerHolds(c)'
    <3>1. stage[c] = "engine" /\ stage'[c] = IF after[c] > 0 THEN "list" ELSE "ready"
      BY <1>5, GotoStep DEF JoinEngine
    <3>2. from'[c] = IF after[c] > 0 THEN after[c] ELSE counter
      BY <1>5 DEF JoinEngine, EventTypes
    <3>3. HandlerHolds(c)
      BY DEF HandlersSound
    <3>4. QED BY <2>1, <3>1, <3>2, <3>3 DEF HandlerHolds
  <2>4. counter' \in Nat /\ counter <= counter'
    BY <2>1 DEF EventTypes
  <2>5. QED BY <2>2, <2>3, <2>4, HandlerStep
<1>6. ASSUME NEW c \in Clients, ListPublishedEvents(c) PROVE HandlersSound'
  <2>1. UNCHANGED <<members, work, out, watched, from, after, counter>>
    BY <1>6 DEF ListPublishedEvents, Goto, redisVars, fanVars, clientVars, countVars
  <2>2. OthersKeep(c)
    BY <1>6, <2>1 DEF ListPublishedEvents, Goto, EventTypes, OthersKeep
  <2>3. HandlerHolds(c)'
    BY <1>6, <2>1 DEF ListPublishedEvents, Goto, EventTypes, HandlersSound, HandlerHolds
  <2>4. counter' \in Nat /\ counter <= counter'
    BY <2>1 DEF EventTypes
  <2>5. QED BY <2>2, <2>3, <2>4, HandlerStep
<1>7. ASSUME NEW c \in Clients, ReplayDone(c) PROVE HandlersSound'
  <2>1. UNCHANGED <<members, out, from, counter>>
    BY <1>7 DEF ReplayDone, Return, Goto, redisVars, fanVars, clientVars, countVars, oweVars
  <2>2. OthersKeep(c)
    BY <1>7, <2>1 DEF ReplayDone, Return, Goto, EventTypes, OthersKeep
  <2>3. HandlerHolds(c)'
    BY <1>7, <2>1 DEF ReplayDone, Return, Goto, EventTypes, HandlersSound, HandlerHolds
  <2>4. counter' \in Nat /\ counter <= counter'
    BY <2>1 DEF EventTypes
  <2>5. QED BY <2>2, <2>3, <2>4, HandlerStep
<1>8. ASSUME NEW c \in Clients, NEW x \in replay[c], SendReplayEvent(c, x) PROVE HandlersSound'
  <2>1. UNCHANGED <<members, stage, work, out, watched, from, after, counter>>
    BY <1>8 DEF SendReplayEvent, Accept, redisVars, fanVars, countVars, oweVars
  <2>2. OthersKeep(c)
    BY <1>8, <2>1 DEF SendReplayEvent, Accept, EventTypes, OthersKeep
  <2>3. HandlerHolds(c)'
    BY <1>8, <2>1 DEF SendReplayEvent, Accept, EventTypes, HandlersSound, HandlerHolds
  <2>4. counter' \in Nat /\ counter <= counter'
    BY <2>1 DEF EventTypes
  <2>5. QED BY <2>2, <2>3, <2>4, HandlerStep
<1>9. ASSUME NEW c \in Clients, BroadcastEvent(c) PROVE HandlersSound'
  <2>1. UNCHANGED <<members, stage, watched, from, after, counter>>
    BY <1>9 DEF BroadcastEvent, Resolve, redisVars, clientVars, countVars, oweVars
  <2>2. OthersKeep(c)
    BY <1>9, <2>1 DEF BroadcastEvent, Resolve, EventTypes, OthersKeep
  <2>3. HandlerHolds(c)'
    BY <1>9, <2>1 DEF BroadcastEvent, Resolve, EventTypes, HandlersSound, HandlerHolds
  <2>4. counter' \in Nat /\ counter <= counter'
    BY <2>1 DEF EventTypes
  <2>5. QED BY <2>2, <2>3, <2>4, HandlerStep
<1>10. ASSUME NEW c \in Clients, BroadcastDone(c) PROVE HandlersSound'
  <2>1. UNCHANGED <<members, work, out, watched, from, after, counter>>
    BY <1>10 DEF BroadcastDone, Goto, redisVars, handlerVars, fanVars, clientVars,
       countVars, oweVars
  <2>2. OthersKeep(c)
    BY <1>10, <2>1 DEF BroadcastDone, Goto, EventTypes, OthersKeep
  <2>3. HandlerHolds(c)'
    BY <1>10, <2>1 DEF BroadcastDone, Goto, EventTypes, HandlersSound, HandlerHolds
  <2>4. counter' \in Nat /\ counter <= counter'
    BY <2>1 DEF EventTypes
  <2>5. QED BY <2>2, <2>3, <2>4, HandlerStep
<1>11. ASSUME NEW c \in Clients, AckWatch(c) PROVE HandlersSound'
  <2>1. UNCHANGED <<members, out, from, counter>>
    BY <1>11 DEF AckWatch, Return, Goto, redisVars, fanVars, clientVars, countVars, oweVars
  <2>2. OthersKeep(c)
    BY <1>11, <2>1, ZenonT(60) DEF AckWatch, Return, Goto, EventTypes, OthersKeep
  <2>3. HandlerHolds(c)'
    BY <1>11, <2>1, ZenonT(60) DEF AckWatch, Return, Goto, EventTypes, HandlersSound, HandlerHolds
  <2>4. counter' \in Nat /\ counter <= counter'
    BY <2>1 DEF EventTypes
  <2>5. QED BY <2>2, <2>3, <2>4, HandlerStep
<1>12. ASSUME NEW c \in Clients, AckStore(c) PROVE HandlersSound'
  <2>1. UNCHANGED <<members, out, from, counter>>
    BY <1>12 DEF AckStore, Return, Goto, fanVars, clientVars, countVars, oweVars
  <2>2. OthersKeep(c)
    BY <1>12, <2>1 DEF AckStore, Return, Goto, EventTypes, OthersKeep
  <2>3. HandlerHolds(c)'
    BY <1>12, <2>1 DEF AckStore, Return, Goto, EventTypes, HandlersSound, HandlerHolds
  <2>4. counter' \in Nat /\ counter <= counter'
    BY <2>1 DEF EventTypes
  <2>5. QED BY <2>2, <2>3, <2>4, HandlerStep
<1>13. ASSUME NEW c \in Clients, AckRetry(c) PROVE HandlersSound'
  <2>1. UNCHANGED <<members, work, out, watched, from, after, counter>>
    BY <1>13 DEF AckRetry, Goto, redisVars, fanVars, clientVars, countVars, oweVars
  <2>2. OthersKeep(c)
    BY <1>13, <2>1 DEF AckRetry, Goto, EventTypes, OthersKeep
  <2>3. HandlerHolds(c)'
    BY <1>13, <2>1 DEF AckRetry, Goto, EventTypes, HandlersSound, HandlerHolds
  <2>4. counter' \in Nat /\ counter <= counter'
    BY <2>1 DEF EventTypes
  <2>5. QED BY <2>2, <2>3, <2>4, HandlerStep
<1>14. ASSUME NEW c \in Clients, Disconnect(c) PROVE HandlersSound'
  <2>1. PICK stop \in SUBSET {p \in Procs : c \in out[p]} :
           /\ out' = [p \in Procs |-> IF p \in stop THEN {} ELSE out[p] \ {c}]
           /\ stage' = [q \in Clients \cup {Admin} |->
                         IF q = c THEN "off"
                         ELSE IF q \in stop THEN "closing" ELSE stage[q]]
    BY <1>14 DEF Disconnect
  <2>2. /\ members' = members \ {c} /\ out[c] = {} /\ UNCHANGED <<from, counter>>
        /\ Return(c)
    BY <1>14 DEF Disconnect, redisVars, oweVars
  <2>3. ASSUME NEW q \in Clients \cup {Admin}, q # c PROVE HandlerHolds(q)'
    <3>1. work'[q] = work[q] /\ stage'[q] = IF q \in stop THEN "closing" ELSE stage[q]
      BY <2>1, <2>2, <2>3 DEF Return, EventTypes
    <3>2. q \in Clients => /\ watched'[q] = watched[q] /\ after'[q] = after[q] /\ from'[q] = from[q]
                           /\ q \in members' => q \in members
                           /\ out'[q] = IF q \in stop THEN {} ELSE out[q] \ {c}
      BY <2>1, <2>2, <2>3 DEF Return, EventTypes, Procs
    <3>3. HandlerHolds(q)
      BY DEF HandlersSound
    <3>4. CASE q \in stop
      BY <2>2, <3>1, <3>2, <3>3, <3>4 DEF HandlerHolds
    <3>5. CASE q \notin stop
      BY <2>2, <3>1, <3>2, <3>3, <3>5 DEF HandlerHolds
    <3>6. QED BY <3>4, <3>5
  <2>4. HandlerHolds(c)'
    <3>1. stage'[c] = "off" /\ c \notin members' /\ out'[c] = {}
      BY <2>1, <2>2 DEF Procs
    <3>2. QED BY <3>1 DEF HandlerHolds
  <2>5. QED BY <2>3, <2>4 DEF HandlersSound
<1>15. ASSUME NEW e \in Events, AdminPublish(e) PROVE HandlersSound'
  <2>1. UNCHANGED <<members, out, watched, from, after, counter>>
    BY <1>15 DEF AdminPublish, Goto, redisVars, fanVars, clientVars, countVars, oweVars
  <2>2. OthersKeep(Admin)
    BY <1>15, <2>1 DEF AdminPublish, Goto, EventTypes, OthersKeep
  <2>3. HandlerHolds(Admin)'
    BY <1>15, <2>1 DEF AdminPublish, Goto, EventTypes, HandlersSound, HandlerHolds
  <2>4. counter' \in Nat /\ counter <= counter'
    BY <2>1 DEF EventTypes
  <2>5. QED BY <2>2, <2>3, <2>4, HandlerStep
<1>16. ASSUME NEW q \in Clients \cup {Admin}, DrawSequence(q) PROVE HandlersSound'
  <2>1. UNCHANGED <<members, out, watched, from, after>>
    BY <1>16 DEF DrawSequence, handlerVars, fanVars, clientVars, countVars, oweVars
  <2>2. OthersKeep(q)
    BY <1>16, <2>1 DEF DrawSequence, Goto, EventTypes, OthersKeep
  <2>3. counter' = counter + 1 /\ stage[q] = "incr" /\ stage'[q] = "publish"
    BY <1>16 DEF DrawSequence, Goto, EventTypes
  <2>4. work'[q] = [work[q] EXCEPT !.seq = counter + 1] /\ work[q] \in Entry
    BY <1>16 DEF DrawSequence, EventTypes
  <2>5. counter \in Nat /\ counter + 1 \in Nat /\ counter' \in 1..counter'
    BY <2>3 DEF EventTypes
  <2>6. work'[q].seq = counter'
    BY <2>3, <2>4, <2>5, Records
  <2>7. q \in Clients => out[q] = {}
    BY <2>3 DEF HandlersSound, HandlerHolds
  <2>8. HandlerHolds(q)'
    BY <2>1, <2>3, <2>5, <2>6, <2>7 DEF HandlerHolds
  <2>9. QED BY <2>2, <2>3, <2>5, <2>8, HandlerStep
<1>17. ASSUME NEW q \in Clients \cup {Admin}, PublishEvent(q) PROVE HandlersSound'
  <2>1. UNCHANGED <<members, work, out, watched, from, after, counter>>
    BY <1>17 DEF PublishEvent, LogAndPublish, Goto, handlerVars, clientVars, countVars,
       oweVars
  <2>2. OthersKeep(q)
    BY <1>17, <2>1 DEF PublishEvent, LogAndPublish, Goto, EventTypes, OthersKeep
  <2>3. HandlerHolds(q)'
    BY <1>17, <2>1 DEF PublishEvent, LogAndPublish, Goto, EventTypes, HandlersSound,
       HandlerHolds
  <2>4. counter' \in Nat /\ counter <= counter'
    BY <2>1 DEF EventTypes
  <2>5. QED BY <2>2, <2>3, <2>4, HandlerStep
<1>18. ASSUME NEW q \in Clients \cup {Admin}, RedisFails(q) PROVE HandlersSound'
  <2>1. UNCHANGED <<members, work, out, watched, from, after, counter>>
    BY <1>18 DEF RedisFails, LogAndPublish, Goto, redisVars, handlerVars, clientVars,
       oweVars
  <2>2. OthersKeep(q)
    BY <1>18, <2>1 DEF RedisFails, LogAndPublish, Goto, EventTypes, OthersKeep
  <2>3. HandlerHolds(q)'
    BY <1>18, <2>1 DEF RedisFails, LogAndPublish, Goto, EventTypes, HandlersSound,
       HandlerHolds
  <2>4. counter' \in Nat /\ counter <= counter'
    BY <2>1 DEF EventTypes
  <2>5. QED BY <2>2, <2>3, <2>4, HandlerStep
<1>19. ASSUME PublishStorageEvent PROVE HandlersSound'
  <2>1. UNCHANGED <<members, stage, work, out, watched, from, after, counter>>
    BY <1>19 DEF PublishStorageEvent, Logged, handlerVars, fanVars, clientVars, oweVars
  <2>2. OthersKeep(Admin)
    BY <1>19, <2>1 DEF PublishStorageEvent, Logged, EventTypes, OthersKeep
  <2>3. HandlerHolds(Admin)'
    BY <1>19, <2>1 DEF PublishStorageEvent, Logged, EventTypes, HandlersSound, HandlerHolds
  <2>4. counter' \in Nat /\ counter <= counter'
    BY <2>1 DEF EventTypes
  <2>5. QED BY <2>2, <2>3, <2>4, HandlerStep
<1>20. ASSUME NEW n \in Nodes, HandleClusterEvent(n) PROVE HandlersSound'
  <2>1. UNCHANGED <<members, stage, work, watched, from, after, counter>>
    BY <1>20 DEF HandleClusterEvent, Resolve, redisVars, handlerVars, clientVars,
       countVars, oweVars
  <2>2. OthersKeep(n)
    BY <1>20, <2>1 DEF HandleClusterEvent, Resolve, EventTypes, OthersKeep
  <2>3. n \in Clients \cup {Admin} => HandlerHolds(n)'
    BY <1>20, <2>1 DEF HandleClusterEvent, Resolve, EventTypes, HandlersSound, HandlerHolds
  <2>4. counter' \in Nat /\ counter <= counter'
    BY <2>1 DEF EventTypes
  <2>5. QED BY <2>2, <2>3, <2>4, HandlerStep
<1>21. ASSUME NEW p \in Procs, NEW c \in out[p], Enqueue(p, c) PROVE HandlersSound'
  <2>1. UNCHANGED <<members, stage, work, watched, from, after, counter>>
    BY <1>21 DEF Enqueue, Accept, redisVars, handlerVars, countVars, oweVars
  <2>2. OthersKeep(p)
    BY <1>21, <2>1 DEF Enqueue, Accept, EventTypes, OthersKeep
  <2>3. p \in Clients \cup {Admin} => HandlerHolds(p)'
    <3>1. out[p] # {} /\ out'[p] \subseteq out[p]
      BY <1>21 DEF Enqueue, EventTypes
    <3>2. p \in Clients \cup {Admin} => HandlerHolds(p)
      BY DEF HandlersSound
    <3>3. QED BY <2>1, <3>1, <3>2 DEF HandlerHolds
  <2>4. counter' \in Nat /\ counter <= counter'
    BY <2>1 DEF EventTypes
  <2>5. QED BY <2>2, <2>3, <2>4, HandlerStep
<1>22. CASE UNCHANGED eventVars
  BY <1>22 DEF eventVars, HandlersSound, HandlerHolds, redisVars, handlerVars, fanVars,
     clientVars, countVars, oweVars
<1> HIDE EventAssumption
<1>23. QED
  BY <1>1, <1>2, <1>3, <1>4, <1>5, <1>6, <1>7, <1>8, <1>9, <1>10, <1>11, <1>12, <1>13,
     <1>14, <1>15, <1>16, <1>17, <1>18, <1>19, <1>20, <1>21, <1>22 DEF Next, Join


-----------------------------------------------------------------------------
(* Acknowledgements.                                                       *)

\* A step that leaves d's acknowledgement in the hands of the handler.
StageHeld(d) ==
    /\ stage'[d] \notin {"off", "closing"} => stage[d] \notin {"off", "closing"}
    /\ stage[d] \in {"watch", "exec"} =>
          stage'[d] \in {"watch", "exec", "closing"} /\ work'[d] = work[d]

\* A step that leaves d's acknowledgements where they are.
AckHeld(d) ==
    /\ StageHeld(d)
    /\ session'[d] = session[d]
    /\ \A i \in 1..Len(inbox[d]) : i \in 1..Len(inbox'[d]) /\ inbox'[d][i] = inbox[d][i]
    /\ durable[UserOf[d]] <= durable'[UserOf[d]]

\* Acknowledgements are held by a step that leaves the client's session, its
\* queue of acknowledgements and the durable cursor alone.
LEMMA AckUntouched ==
  ASSUME EventTypes, NEW d \in Clients, StageHeld(d), durable' = durable,
         inbox'[d] = inbox[d], session'[d] = session[d]
  PROVE  AckHeld(d)
<1>1. durable[UserOf[d]] \in Nat
  BY EventAssumption DEF EventTypes
<1>2. QED BY <1>1 DEF AckHeld

\* What is said of d's acknowledgements survives a step that holds them.
LEMMA AckKeeps ==
  ASSUME EventTypes, EventTypes', NEW d \in Clients, AcksOf(d), AckHeld(d)
  PROVE  AcksOf(d)'
<1> SUFFICES ASSUME stage'[d] \notin {"off", "closing"}, NEW s \in session'[d]
             PROVE  s <= durable'[UserOf[d]] \/ AckComing(d, s)'
  BY DEF AcksOf
<1>1. s <= durable[UserOf[d]] \/ AckComing(d, s)
  BY DEF AcksOf, AckHeld, StageHeld
<1>2. CASE s <= durable[UserOf[d]]
  <2>1. s \in Nat /\ durable[UserOf[d]] \in Nat /\ durable'[UserOf[d]] \in Nat
    BY EventAssumption DEF EventTypes
  <2>2. QED BY <1>2, <2>1 DEF AckHeld
<1>3. CASE AckComing(d, s)
  BY <1>3 DEF AckComing, AckHeld, StageHeld
<1>4. QED BY <1>1, <1>2, <1>3

\* AcksFollow, one client at a time.
LEMMA AcksStepOf ==
  ASSUME EventTypes, EventTypes', AcksFollow, NEW c,
         \A d \in Clients \ {c} : AckHeld(d),
         c \in Clients => AcksOf(c)'
  PROVE  AcksFollow'
<1> SUFFICES ASSUME NEW d \in Clients PROVE AcksOf(d)'
  BY DEF AcksFollow
<1>1. AcksOf(d)
  BY DEF AcksFollow
<1>2. CASE d = c
  BY <1>2
<1>3. CASE d # c
  BY <1>1, <1>3, AckKeeps
<1>4. QED BY <1>2, <1>3

\* A client acknowledges each event that it accepts.
LEMMA AcceptAcks ==
  ASSUME EventTypes, EventTypes', AcksFollow, NEW c \in Clients, NEW s \in Nat, Accept(c, s),
         UNCHANGED <<stage, work, durable>>
  PROVE  AcksFollow'
<1> DEFINE m == [t |-> "EVENT_ACK", entry |-> [NoEntry EXCEPT !.seq = s]]
<1>1. \A d \in Clients : durable[UserOf[d]] <= durable'[UserOf[d]]
  BY EventAssumption DEF EventTypes
<1>2. \A d \in Clients \ {c} : session'[d] = session[d] /\ inbox'[d] = inbox[d]
  BY DEF Accept, EventTypes
<1>3. \A d \in Clients \ {c} : AckHeld(d)
  BY <1>1, <1>2 DEF AckHeld, StageHeld
<1>4. CASE s <= last[c]
  <2>1. session'[c] = session[c] /\ inbox'[c] = inbox[c]
    BY <1>4 DEF Accept
  <2>2. AckHeld(c)
    BY <1>1, <2>1 DEF AckHeld, StageHeld
  <2>3. QED BY <1>3, <2>2, AckKeeps DEF AcksFollow
<1>5. CASE ~(s <= last[c])
  <2>1. inbox'[c] = Append(inbox[c], m) /\ session'[c] = session[c] \cup {s}
    BY <1>5 DEF Accept, EventTypes
  <2>2. inbox[c] \in Seq(Message) /\ m \in Message
    BY Records DEF EventTypes
  <2>3. m.t = "EVENT_ACK" /\ m.entry.seq = s
    BY Records
  <2> HIDE DEF m
  <2>4. /\ \A i \in 1..Len(inbox[c]) : i \in 1..Len(inbox'[c]) /\ inbox'[c][i] = inbox[c][i]
        /\ Len(inbox'[c]) \in 1..Len(inbox'[c]) /\ inbox'[c][Len(inbox'[c])] = m
    BY <2>1, <2>2, Appended
  <2>5. AckComing(c, s)'
    BY <2>3, <2>4 DEF AckComing
  <2>6. ASSUME NEW r \in session[c], stage[c] \notin {"off", "closing"}
        PROVE  r <= durable'[UserOf[c]] \/ AckComing(c, r)'
    <3>1. r <= durable[UserOf[c]] \/ AckComing(c, r)
      BY <2>6 DEF AcksFollow, AcksOf
    <3>2. AckComing(c, r) => AckComing(c, r)'
      BY <2>4 DEF AckComing
    <3>3. QED BY <3>1, <3>2
  <2>7. AcksOf(c)'
    BY <2>1, <2>5, <2>6 DEF AcksOf
  <2>8. QED BY <1>3, <2>7, AcksStepOf
<1>6. QED BY <1>4, <1>5

\* Storing an acknowledgement raises the user's cursor and no other.
LEMMA StoreRaises ==
  ASSUME EventTypes, HandlersSound, NEW c \in Clients, AckStore(c)
  PROVE  /\ durable' = [durable EXCEPT ![UserOf[c]] = work[c].seq]
         /\ durable[UserOf[c]] < work[c].seq
         /\ \A u \in Users : durable[u] <= durable'[u]
<1>1. /\ durable' = [durable EXCEPT ![UserOf[c]] = work[c].seq]
      /\ stage[c] = "exec" /\ watched[c] = durable
  BY DEF AckStore, AckRaced
<1>2. durable[UserOf[c]] < work[c].seq
  BY <1>1 DEF HandlersSound, HandlerHolds
<1>3. work[c] \in Entry /\ durable \in [Users -> Nat]
  BY DEF EventTypes
<1>4. work[c].seq \in Nat
  BY <1>3, Records
<1>5. QED BY <1>1, <1>2, <1>3, <1>4

\* What a client has accepted is stored or on its way to be.
LEMMA AcksStep ==
  ASSUME EventTypes, EventTypes', HandlersSound, AcksFollow, [Next]_eventVars
  PROVE  AcksFollow'
<1> USE EventAssumption
<1>1. ASSUME NEW c \in Clients, NEW cursor \in {0, last[c]}, Connect(c, cursor) PROVE AcksFollow'
  <2>1. \A d \in Clients \ {c} : AckHeld(d)
    <3>1. /\ durable' = durable
          /\ \A d \in Clients \ {c} : StageHeld(d) /\ inbox'[d] = inbox[d] /\ session'[d] = session[d]
      BY <1>1 DEF Connect, JoinMessage, redisVars, handlerVars, fanVars, oweVars,
         StageHeld, EventTypes
    <3>2. QED BY <3>1, AckUntouched
  <2>2. session'[c] = {}
    BY <1>1 DEF Connect, EventTypes
  <2>3. AcksOf(c)'
    BY <2>2 DEF AcksOf
  <2>4. QED BY <2>1, <2>3, AcksStepOf
<1>2. ASSUME NEW c \in Clients, NEW e \in Events, Broadcast(c, e) PROVE AcksFollow'
  <2>1. UNCHANGED <<stage, session, work, durable>>
    BY <1>2 DEF Broadcast, redisVars, handlerVars, clientVars
  <2>2. \A d \in Clients \ {c} : AckHeld(d)
    <3>1. \A d \in Clients \ {c} : inbox'[d] = inbox[d]
      BY <1>2 DEF Broadcast, EventTypes
    <3>2. QED BY <2>1, <3>1, AckUntouched DEF StageHeld
  <2>3. AckHeld(c)
    <3>1. inbox[c] \in Seq(Message) /\ [t |-> "EMIT", entry |-> [NoEntry EXCEPT !.ev = e]] \in Message
      BY Records DEF EventTypes
    <3>2. inbox'[c] = Append(inbox[c], [t |-> "EMIT", entry |-> [NoEntry EXCEPT !.ev = e]])
      BY <1>2 DEF Broadcast, EventTypes
    <3>3. \A i \in 1..Len(inbox[c]) : i \in 1..Len(inbox'[c]) /\ inbox'[c][i] = inbox[c][i]
      BY <3>1, <3>2, Appended
    <3>4. durable[UserOf[c]] \in Nat
      BY DEF EventTypes
    <3>5. QED BY <2>1, <3>3, <3>4 DEF AckHeld, StageHeld
  <2>4. QED BY <2>2, <2>3, AckKeeps DEF AcksFollow
<1>3. ASSUME NEW c \in Clients, Read(c) PROVE AcksFollow'
  <2>1. \A d \in Clients \ {c} : AckHeld(d)
    <3>1. durable' = durable /\ session' = session
      BY <1>3 DEF Read, redisVars, clientVars
    <3>2. \A d \in Clients \ {c} : stage'[d] = stage[d]
      BY <1>3, GotoStep DEF Read
    <3>3. \A d \in Clients \ {c} : inbox'[d] = inbox[d] /\ work'[d] = work[d]
      BY <1>3 DEF Read, EventTypes
    <3>4. QED BY <3>1, <3>2, <3>3, AckUntouched DEF StageHeld
  <2>2. /\ stage[c] = "ready" /\ inbox[c] \in Seq(Message) /\ inbox[c] # << >>
        /\ inbox'[c] = Tail(inbox[c]) /\ UNCHANGED <<durable, session>>
        /\ Head(inbox[c]).t = "EVENT_ACK" => stage'[c] = "watch" /\ work'[c] = Head(inbox[c]).entry
    BY <1>3 DEF Read, Goto, redisVars, clientVars, EventTypes
  <2>3. ASSUME NEW s \in session[c], s <= durable[UserOf[c]] \/ AckComing(c, s)
        PROVE  s <= durable'[UserOf[c]] \/ AckComing(c, s)'
    <3>1. CASE s <= durable[UserOf[c]]
      BY <2>2, <3>1
    <3>2. CASE AckComing(c, s)
      <4>1. PICK i \in 1..Len(inbox[c]) : inbox[c][i].t = "EVENT_ACK" /\ inbox[c][i].entry.seq = s
        BY <2>2, <3>2 DEF AckComing
      <4>2. CASE i = 1
        BY <2>2, <4>1, <4>2, HeadAndTail DEF AckComing
      <4>3. CASE i # 1
        <5>1. i \in 2..Len(inbox[c])
          BY <2>2, <4>1, <4>3, HeadAndTail
        <5>2. i - 1 \in 1..Len(inbox'[c]) /\ inbox'[c][i - 1] = inbox[c][i]
          BY <2>2, <5>1, HeadAndTail
        <5>3. QED BY <4>1, <5>2 DEF AckComing
      <4>4. QED BY <4>2, <4>3
    <3>3. QED BY <2>3, <3>1, <3>2
  <2>4. AcksOf(c)'
    BY <2>2, <2>3 DEF AcksFollow, AcksOf
  <2>5. QED BY <2>1, <2>4, AcksStepOf
<1>4. ASSUME NEW c \in Clients, JoinCursor(c) PROVE AcksFollow'
  <2>1. UNCHANGED <<session, inbox, work, durable>>
    BY <1>4 DEF JoinCursor, Goto, redisVars, fanVars, clientVars, countVars, oweVars
  <2>2. \A d \in Clients : StageHeld(d)
    BY <1>4, <2>1 DEF JoinCursor, Goto, StageHeld, EventTypes
  <2>3. QED BY <2>1, <2>2, AckUntouched, AckKeeps DEF AcksFollow
<1>5. ASSUME NEW c \in Clients, JoinEngine(c) PROVE AcksFollow'
  <2>1. UNCHANGED <<session, inbox, work, durable>>
    BY <1>5 DEF JoinEngine, Goto, redisVars, handlerVars, fanVars, clientVars, countVars
  <2>2. \A d \in Clients : StageHeld(d)
    BY <1>5, <2>1 DEF JoinEngine, Goto, StageHeld, EventTypes
  <2>3. QED BY <2>1, <2>2, AckUntouched, AckKeeps DEF AcksFollow
<1>6. ASSUME NEW c \in Clients, ListPublishedEvents(c) PROVE AcksFollow'
  <2>1. UNCHANGED <<session, inbox, work, durable>>
    BY <1>6 DEF ListPublishedEvents, Goto, redisVars, fanVars, clientVars, countVars
  <2>2. \A d \in Clients : StageHeld(d)
    BY <1>6, <2>1 DEF ListPublishedEvents, Goto, StageHeld, EventTypes
  <2>3. QED BY <2>1, <2>2, AckUntouched, AckKeeps DEF AcksFollow
<1>7. ASSUME NEW c \in Clients, ReplayDone(c) PROVE AcksFollow'
  <2>1. UNCHANGED <<session, inbox, durable>>
    BY <1>7 DEF ReplayDone, Return, Goto, redisVars, fanVars, clientVars, countVars, oweVars
  <2>2. \A d \in Clients : StageHeld(d)
    BY <1>7, <2>1 DEF ReplayDone, Return, Goto, StageHeld, EventTypes
  <2>3. QED BY <2>1, <2>2, AckUntouched, AckKeeps DEF AcksFollow
<1>8. ASSUME NEW c \in Clients, NEW x \in replay[c], SendReplayEvent(c, x) PROVE AcksFollow'
  <2>1. x \in Entry /\ Accept(c, x.seq) /\ UNCHANGED <<stage, work, durable>>
    BY <1>8 DEF SendReplayEvent, EventTypes, redisVars
  <2>2. QED BY <2>1, Records, AcceptAcks
<1>9. ASSUME NEW c \in Clients, BroadcastEvent(c) PROVE AcksFollow'
  <2>1. UNCHANGED <<stage, session, inbox, durable>>
    BY <1>9 DEF BroadcastEvent, Resolve, redisVars, clientVars, countVars, oweVars
  <2>2. \A d \in Clients : StageHeld(d)
    BY <1>9, <2>1 DEF BroadcastEvent, Resolve, StageHeld, EventTypes
  <2>3. QED BY <2>1, <2>2, AckUntouched, AckKeeps DEF AcksFollow
<1>10. ASSUME NEW c \in Clients, BroadcastDone(c) PROVE AcksFollow'
  <2>1. UNCHANGED <<session, inbox, work, durable>>
    BY <1>10 DEF BroadcastDone, Goto, redisVars, handlerVars, fanVars, clientVars,
       countVars, oweVars
  <2>2. \A d \in Clients : StageHeld(d)
    BY <1>10, <2>1 DEF BroadcastDone, Goto, StageHeld, EventTypes
  <2>3. QED BY <2>1, <2>2, AckUntouched, AckKeeps DEF AcksFollow
<1>11. ASSUME NEW c \in Clients, AckWatch(c) PROVE AcksFollow'
  <2>1. \A d \in Clients \ {c} : AckHeld(d)
    <3>1. UNCHANGED <<durable, inbox, session>>
      BY <1>11 DEF AckWatch, redisVars, clientVars
    <3>2. \A d \in Clients \ {c} : stage'[d] = stage[d]
      BY <1>11, GotoStep DEF AckWatch
    <3>3. \A d \in Clients \ {c} : work'[d] = work[d]
      BY <1>11 DEF AckWatch, Return, EventTypes
    <3>4. QED BY <3>1, <3>2, <3>3, AckUntouched DEF StageHeld
  <2>2. stage[c] = "watch" /\ UNCHANGED <<durable, session, inbox>>
    BY <1>11 DEF AckWatch, redisVars, clientVars
  <2>3. CASE durable[UserOf[c]] < work[c].seq /\ Goto(c, "exec") /\ UNCHANGED work
    <3>1. AckHeld(c)
      BY <2>2, <2>3 DEF AckHeld, StageHeld, Goto, EventTypes
    <3>2. QED BY <2>1, <3>1, AckKeeps, AcksStepOf DEF AcksFollow
  <2>4. CASE durable[UserOf[c]] >= work[c].seq
    <3>1. \A s \in session[c] : AckComing(c, s) => s <= durable[UserOf[c]] \/ AckComing(c, s)'
      BY <2>2, <2>4 DEF AckComing
    <3>2. AcksOf(c)'
      BY <2>2, <3>1 DEF AcksFollow, AcksOf
    <3>3. QED BY <2>1, <3>2, AcksStepOf
  <2>5. QED BY <1>11, <2>3, <2>4 DEF AckWatch
<1>12. ASSUME NEW c \in Clients, AckStore(c) PROVE AcksFollow'
  <2>1. /\ durable' = [durable EXCEPT ![UserOf[c]] = work[c].seq]
        /\ durable[UserOf[c]] < work[c].seq
        /\ \A u \in Users : durable[u] <= durable'[u]
    BY <1>12, StoreRaises
  <2>2. stage[c] = "exec" /\ UNCHANGED <<session, inbox>> /\ Goto(c, "ready") /\ Return(c)
    BY <1>12 DEF AckStore, clientVars
  <2>3. \A d \in Clients \ {c} : AckHeld(d)
    BY <2>1, <2>2 DEF AckHeld, StageHeld, Goto, Return, EventTypes
  <2>4. UserOf[c] \in Users /\ durable'[UserOf[c]] = work[c].seq /\ session[c] \subseteq Nat
    BY <2>1 DEF EventTypes
  <2>5. durable[UserOf[c]] \in Nat /\ work[c].seq \in Nat
    BY <2>4, Records DEF EventTypes
  <2>6. \A s \in session[c] : s <= durable[UserOf[c]] \/ AckComing(c, s) =>
                              s <= durable'[UserOf[c]] \/ AckComing(c, s)'
    BY <2>1, <2>2, <2>4, <2>5 DEF AckComing
  <2>7. AcksOf(c)'
    BY <2>2, <2>6 DEF AcksFollow, AcksOf
  <2>8. QED BY <2>3, <2>7, AcksStepOf
<1>13. ASSUME NEW c \in Clients, AckRetry(c) PROVE AcksFollow'
  <2>1. UNCHANGED <<session, inbox, work, durable>>
    BY <1>13 DEF AckRetry, Goto, redisVars, fanVars, clientVars, countVars, oweVars
  <2>2. \A d \in Clients : StageHeld(d)
    BY <1>13, <2>1 DEF AckRetry, Goto, StageHeld, EventTypes
  <2>3. QED BY <2>1, <2>2, AckUntouched, AckKeeps DEF AcksFollow
<1>14. ASSUME NEW c \in Clients, Disconnect(c) PROVE AcksFollow'
  <2>1. PICK stop : stage' = [q \in Clients \cup {Admin} |->
                                IF q = c THEN "off"
                                ELSE IF q \in stop THEN "closing" ELSE stage[q]]
    BY <1>14 DEF Disconnect
  <2>2. /\ UNCHANGED <<durable, session>> /\ inbox' = [inbox EXCEPT ![c] = << >>]
        /\ work' = [work EXCEPT ![c] = NoEntry]
    BY <1>14 DEF Disconnect, Return, redisVars, clientVars
  <2>3. \A d \in Clients \ {c} : AckHeld(d)
    BY <2>1, <2>2 DEF AckHeld, StageHeld, EventTypes
  <2>4. AcksOf(c)'
    BY <2>1 DEF AcksOf
  <2>5. QED BY <2>3, <2>4, AcksStepOf
<1>15. ASSUME NEW e \in Events, AdminPublish(e) PROVE AcksFollow'
  <2>1. UNCHANGED <<session, inbox, durable>>
    BY <1>15 DEF AdminPublish, Goto, redisVars, fanVars, clientVars, countVars, oweVars
  <2>2. \A d \in Clients : StageHeld(d)
    BY <1>15, <2>1 DEF AdminPublish, Goto, StageHeld, EventTypes
  <2>3. QED BY <2>1, <2>2, AckUntouched, AckKeeps DEF AcksFollow
<1>16. ASSUME NEW q \in Clients \cup {Admin}, DrawSequence(q) PROVE AcksFollow'
  <2>1. UNCHANGED <<session, inbox, durable>>
    BY <1>16 DEF DrawSequence, Goto, fanVars, clientVars, countVars, oweVars
  <2>2. \A d \in Clients : StageHeld(d)
    BY <1>16, <2>1 DEF DrawSequence, Goto, StageHeld, EventTypes
  <2>3. QED BY <2>1, <2>2, AckUntouched, AckKeeps DEF AcksFollow
<1>17. ASSUME NEW q \in Clients \cup {Admin}, PublishEvent(q) PROVE AcksFollow'
  <2>1. UNCHANGED <<session, inbox, work, durable>>
    BY <1>17 DEF PublishEvent, LogAndPublish, Goto, handlerVars, clientVars, countVars,
       oweVars
  <2>2. \A d \in Clients : StageHeld(d)
    BY <1>17, <2>1 DEF PublishEvent, LogAndPublish, Goto, StageHeld, EventTypes
  <2>3. QED BY <2>1, <2>2, AckUntouched, AckKeeps DEF AcksFollow
<1>18. ASSUME NEW q \in Clients \cup {Admin}, RedisFails(q) PROVE AcksFollow'
  <2>1. UNCHANGED <<session, inbox, work, durable>>
    BY <1>18 DEF RedisFails, LogAndPublish, Goto, redisVars, handlerVars, clientVars,
       oweVars
  <2>2. \A d \in Clients : StageHeld(d)
    <3>1. /\ stage'[q] \in {"off", "closing"} /\ (q \in Clients => stage'[q] = "closing")
          /\ \A d \in Clients \ {q} : stage'[d] = stage[d]
      BY <1>18, EventAssumption, GotoStep DEF RedisFails
    <3>2. QED BY <2>1, <3>1 DEF StageHeld
  <2>3. QED BY <2>1, <2>2, AckUntouched, AckKeeps DEF AcksFollow
<1>19. ASSUME PublishStorageEvent PROVE AcksFollow'
  <2>1. UNCHANGED <<stage, session, inbox, work, durable>>
    BY <1>19 DEF PublishStorageEvent, Logged, handlerVars, fanVars, clientVars, oweVars
  <2>2. \A d \in Clients : StageHeld(d)
    BY <1>19, <2>1 DEF PublishStorageEvent, Logged, StageHeld, EventTypes
  <2>3. QED BY <2>1, <2>2, AckUntouched, AckKeeps DEF AcksFollow
<1>20. ASSUME NEW n \in Nodes, HandleClusterEvent(n) PROVE AcksFollow'
  <2>1. UNCHANGED <<stage, session, inbox, work, durable>>
    BY <1>20 DEF HandleClusterEvent, Resolve, redisVars, handlerVars, clientVars,
       countVars, oweVars
  <2>2. \A d \in Clients : StageHeld(d)
    BY <1>20, <2>1 DEF HandleClusterEvent, Resolve, StageHeld, EventTypes
  <2>3. QED BY <2>1, <2>2, AckUntouched, AckKeeps DEF AcksFollow
<1>21. ASSUME NEW p \in Procs, NEW c \in out[p], Enqueue(p, c) PROVE AcksFollow'
  <2>1. c \in Clients /\ msg[p] \in Entry /\ Accept(c, msg[p].seq) /\ UNCHANGED <<stage,
                                                                                  work, durable>>
    BY <1>21 DEF Enqueue, EventTypes, redisVars, handlerVars
  <2>2. QED BY <2>1, Records, AcceptAcks
<1>22. CASE UNCHANGED eventVars
  BY <1>22 DEF eventVars, AcksFollow, AcksOf, AckComing, redisVars, handlerVars, fanVars,
     clientVars, countVars, oweVars
<1> HIDE EventAssumption
<1>23. QED
  BY <1>1, <1>2, <1>3, <1>4, <1>5, <1>6, <1>7, <1>8, <1>9, <1>10, <1>11, <1>12, <1>13,
     <1>14, <1>15, <1>16, <1>17, <1>18, <1>19, <1>20, <1>21, <1>22 DEF Next, Join


-----------------------------------------------------------------------------
(* Events.                                                                 *)

\* A step that does not admit d.
StaysIn(d) ==
    d \in members' /\ stage'[d] # "closing" => d \in members /\ stage[d] # "closing"

\* A step that ends no replay before its time.
ReplayHeld(d) ==
    /\ stage[d] = "list" => stage'[d] \in {"list", "closing"}
    /\ stage[d] = "replay" => \/ stage'[d] = "replay" /\ replay'[d] = replay[d]
                              \/ replay[d] = {}

PublishersHeld ==
    \A q \in Clients : Publishing(q) => Publishing(q)' /\ work'[q] = work[q]

\* What d is owed, and was sent.
OweHeld(d) ==
    /\ UNCHANGED <<published, cut>>
    /\ from'[d] = from[d] /\ beyond'[d] = beyond[d]
    /\ got'[d] = got[d] /\ refused'[d] = refused[d]

\* EventsOf, from what happens to the events that are owed.
LEMMA EventsKeep ==
  ASSUME NEW d \in Clients, EventsOf(d), StaysIn(d),
         \A s \in Owed(d)' : s \in Owed(d) \/ EventComing(d, s)',
         got[d] \subseteq got'[d], refused[d] \subseteq refused'[d],
         \A s \in Owed(d)' : EventComing(d, s) /\ d \in members' /\ stage'[d] # "closing" =>
                                EventComing(d, s)' \/ s \in got'[d] \cup refused'[d]
  PROVE  EventsOf(d)'
<1> SUFFICES ASSUME d \in members', stage'[d] # "closing", NEW s \in Owed(d)'
             PROVE  s \in got'[d] \cup refused'[d] \/ EventComing(d, s)'
  BY DEF EventsOf
<1>1. d \in members /\ stage[d] # "closing"
  BY DEF StaysIn
<1>2. CASE EventComing(d, s)'
  BY <1>2
<1>3. CASE s \in Owed(d)
  <2>1. s \in got[d] \cup refused[d] \/ EventComing(d, s)
    BY <1>1, <1>3 DEF EventsOf
  <2>2. QED BY <2>1
<1>4. QED BY <1>2, <1>3

\* An event stays with the replay or its publisher.
LEMMA ReplayKeeps ==
  ASSUME NEW d \in Clients, ReplayHeld(d), stage'[d] # "closing", NEW s, Replaying(d, s)
  PROVE  Replaying(d, s)'
BY DEF ReplayHeld, Replaying

\* An event that is being fanned out to d still is, while publishers go on.
LEMMA PublishersKeep ==
  ASSUME NEW d \in Clients, PublishersHeld, NEW s, FanningOut(d, s)
  PROVE  FanningOut(d, s)'
BY DEF PublishersHeld, FanningOut

\* A step that moves no event.
LEMMA EventsUntouched ==
  ASSUME EventsFollow, NEW d \in Clients, StaysIn(d), ReplayHeld(d), PublishersHeld, OweHeld(d),
         UNCHANGED <<channel, msg, out>>
  PROVE  EventsOf(d)'
<1>1. Owed(d)' = Owed(d)
  BY DEF Owed, OweHeld
<1>2. ASSUME NEW s, EventComing(d, s), stage'[d] # "closing" PROVE EventComing(d, s)'
  <2>1. Queued(d, s) => Queued(d, s)'
    BY DEF Queued
  <2>2. Targeted(d, s) => Targeted(d, s)'
    BY DEF Targeted
  <2>3. QED BY <1>2, <2>1, <2>2, ReplayKeeps, PublishersKeep DEF EventComing
<1>3. got[d] = got'[d] /\ refused[d] = refused'[d] /\ EventsOf(d)
  BY DEF OweHeld, EventsFollow
<1>4. QED BY <1>1, <1>2, <1>3, EventsKeep

\* What a client handles it has got, now or before, or refused.
LEMMA AcceptEvents ==
  ASSUME EventTypes, NEW c \in Clients, NEW s \in Nat, Accept(c, s)
  PROVE  /\ \A d \in Clients : got[d] \subseteq got'[d] /\ refused[d] \subseteq refused'[d]
         /\ \A d \in Clients \ {c} : got'[d] = got[d] /\ refused'[d] = refused[d]
         /\ s \in got'[c] \cup refused'[c]
<1>1. CASE s <= last[c]
  <2>1. refused' = [refused EXCEPT ![c] = refused[c] \cup ({s} \ got[c])] /\ got' = got
    BY <1>1 DEF Accept
  <2>2. /\ refused'[c] = refused[c] \cup ({s} \ got[c])
        /\ \A d \in Clients \ {c} : refused'[d] = refused[d]
    BY <2>1 DEF EventTypes
  <2>3. QED BY <2>1, <2>2
<1>2. CASE ~(s <= last[c])
  <2>1. got' = [got EXCEPT ![c] = got[c] \cup {s}] /\ refused' = refused
    BY <1>2 DEF Accept
  <2>2. got'[c] = got[c] \cup {s} /\ \A d \in Clients \ {c} : got'[d] = got[d]
    BY <2>1 DEF EventTypes
  <2>3. QED BY <2>1, <2>2
<1>3. QED BY <1>1, <1>2

\* A member that joined before its cursor was known is owed the rest of the log,
\* which it is about to read; one without a cursor what is published from now on.
LEMMA JoinEngineEvents ==
  ASSUME EventTypes, EventTypes', HandlersSound, EventsFollow, NEW c \in Clients, JoinEngine(c)
  PROVE  EventsFollow'
<1>1. /\ UNCHANGED <<channel, msg, out, published, cut, got, refused, replay, work,
                     counter>>
      /\ stage[c] = "engine" /\ Goto(c, IF after[c] > 0 THEN "list" ELSE "ready")
      /\ members' = members \cup {c}
      /\ from' = [from EXCEPT ![c] = IF after[c] > 0 THEN after[c] ELSE counter]
      /\ beyond' = [beyond EXCEPT ![c] = {}]
  BY DEF JoinEngine, redisVars, handlerVars, fanVars, clientVars
<1>2. \A d \in Clients \ {c} : stage'[d] = stage[d] /\ from'[d] = from[d] /\ beyond'[d] = beyond[d]
  BY <1>1 DEF Goto, EventTypes
<1>3. PublishersHeld
  BY <1>1 DEF PublishersHeld, Publishing, Goto, EventTypes
<1>4. \A d \in Clients \ {c} : StaysIn(d) /\ ReplayHeld(d) /\ OweHeld(d)
  BY <1>1, <1>2 DEF StaysIn, ReplayHeld, OweHeld
<1>5. \A d \in Clients \ {c} : EventsOf(d)'
  BY <1>1, <1>3, <1>4, EventsUntouched
<1>6. EventsOf(c)'
  <2>1. CASE after[c] > 0
    <3>1. stage'[c] = "list"
      BY <1>1, <2>1 DEF Goto, EventTypes
    <3>2. QED BY <3>1 DEF EventsOf, EventComing, Replaying
  <2>2. CASE ~(after[c] > 0)
    <3>1. from'[c] = counter /\ published' = published /\ counter \in Nat
      BY <1>1, <2>2 DEF EventTypes
    <3>2. \A s \in published' : ~(s > from'[c])
      BY <3>1 DEF EventTypes
    <3>3. QED BY <3>2 DEF EventsOf, Owed
  <2>3. QED BY <2>1, <2>2
<1>7. QED BY <1>5, <1>6 DEF EventsFollow

\* What the replay did not read is beyond it.
LEMMA ListPublishedEventsEvents ==
  ASSUME EventTypes, EventTypes', HandlersSound, EventsFollow, NEW c \in Clients,
         ListPublishedEvents(c)
  PROVE  EventsFollow'
<1>1. /\ UNCHANGED <<channel, msg, out, published, cut, got, refused, work, members, from>>
      /\ stage[c] = "list" /\ Goto(c, "replay")
      /\ beyond' = [beyond EXCEPT ![c] =
                      {s \in published : s > after[c]} \ {x.seq : x \in replay'[c]}]
  BY DEF ListPublishedEvents, redisVars, fanVars, clientVars
<1>2. \A d \in Clients \ {c} : replay'[d] = replay[d]
  BY DEF ListPublishedEvents, EventTypes
<1>3. \A d \in Clients \ {c} : stage'[d] = stage[d] /\ beyond'[d] = beyond[d]
  BY <1>1 DEF Goto, EventTypes
<1>4. PublishersHeld
  BY <1>1 DEF PublishersHeld, Publishing, Goto, EventTypes
<1>5. \A d \in Clients \ {c} : StaysIn(d) /\ ReplayHeld(d) /\ OweHeld(d)
  BY <1>1, <1>2, <1>3 DEF StaysIn, ReplayHeld, OweHeld
<1>6. \A d \in Clients \ {c} : EventsOf(d)'
  BY <1>1, <1>4, <1>5, EventsUntouched
<1>7. /\ from[c] = after[c] /\ stage'[c] = "replay"
      /\ beyond'[c] = {s \in published : s > after[c]} \ {x.seq : x \in replay'[c]}
  BY <1>1 DEF HandlersSound, HandlerHolds, Goto, EventTypes
<1>8. \A s \in Owed(c)' : \E x \in replay'[c] : x.seq = s
  BY <1>1, <1>7 DEF Owed
<1>9. EventsOf(c)'
  BY <1>7, <1>8 DEF EventsOf, EventComing, Replaying
<1>10. QED BY <1>6, <1>9 DEF EventsFollow

\* A replayed event is handled by its client.
LEMMA SendReplayEventEvents ==
  ASSUME EventTypes, EventTypes', HandlersSound, EventsFollow, NEW c \in Clients,
         NEW x \in replay[c], SendReplayEvent(c, x)
  PROVE  EventsFollow'
<1>1. /\ UNCHANGED <<channel, msg, out, published, cut, work, members, from, beyond, stage>>
      /\ Accept(c, x.seq) /\ replay' = [replay EXCEPT ![c] = @ \ {x}]
  BY DEF SendReplayEvent, redisVars, oweVars, fanVars
<1>2. x.seq \in Nat
  BY Records DEF EventTypes
<1>3. /\ \A d \in Clients \ {c} : /\ replay'[d] = replay[d]
                                  /\ got'[d] = got[d] /\ refused'[d] = refused[d]
      /\ got[c] \subseteq got'[c] /\ refused[c] \subseteq refused'[c]
      /\ x.seq \in got'[c] \cup refused'[c] /\ replay'[c] = replay[c] \ {x}
  BY <1>1, <1>2, AcceptEvents DEF EventTypes
<1>4. PublishersHeld
  BY <1>1 DEF PublishersHeld, Publishing
<1>5. \A d \in Clients \ {c} : StaysIn(d) /\ ReplayHeld(d) /\ OweHeld(d)
  BY <1>1, <1>3 DEF StaysIn, ReplayHeld, OweHeld
<1>6. \A d \in Clients \ {c} : EventsOf(d)'
  BY <1>1, <1>4, <1>5, EventsUntouched
<1>7. EventsOf(c)'
  <2>1. Owed(c)' = Owed(c) /\ StaysIn(c) /\ EventsOf(c)
    BY <1>1 DEF Owed, StaysIn, EventsFollow
  <2>2. ASSUME NEW s, EventComing(c, s)
        PROVE  EventComing(c, s)' \/ s \in got'[c] \cup refused'[c]
    <3>1. Queued(c, s) => Queued(c, s)'
      BY <1>1 DEF Queued
    <3>2. Targeted(c, s) => Targeted(c, s)'
      BY <1>1 DEF Targeted
    <3>3. Replaying(c, s) => Replaying(c, s)' \/ s \in got'[c] \cup refused'[c]
      BY <1>1, <1>3 DEF Replaying
    <3>4. QED BY <1>4, <2>2, <3>1, <3>2, <3>3, PublishersKeep DEF EventComing
  <2>3. QED BY <1>3, <2>1, <2>2, EventsKeep
<1>8. QED BY <1>6, <1>7 DEF EventsFollow

\* A publisher takes every member of its node as a target.
LEMMA BroadcastEventEvents ==
  ASSUME EventTypes, EventTypes', HandlersSound, EventsFollow, NEW c \in Clients,
         BroadcastEvent(c)
  PROVE  EventsFollow'
<1>1. /\ UNCHANGED <<channel, published, cut, members, from, beyond, stage, got, refused,
                     replay>>
      /\ stage[c] = "fanout" /\ work[c] # NoEntry /\ Resolve(c, NodeOf[c], work[c])
      /\ work' = [work EXCEPT ![c] = NoEntry]
  BY DEF BroadcastEvent, redisVars, oweVars, clientVars
<1>2. c \in Procs /\ out[c] = {}
  BY <1>1 DEF HandlersSound, HandlerHolds, Procs
<1>3. /\ msg'[c] = work[c] /\ out'[c] = EventFanout(NodeOf[c])
      /\ \A p \in Procs \ {c} : msg'[p] = msg[p] /\ out'[p] = out[p]
      /\ \A q \in Clients \ {c} : work'[q] = work[q]
  BY <1>1, <1>2 DEF Resolve, EventTypes
<1>4. ASSUME NEW d \in Clients, d \in members', NEW s, EventComing(d, s)
      PROVE  EventComing(d, s)'
  <2>1. Queued(d, s) => Queued(d, s)'
    BY <1>1 DEF Queued
  <2>2. Replaying(d, s) => Replaying(d, s)'
    BY <1>1 DEF Replaying
  <2>3. Targeted(d, s) => Targeted(d, s)'
    BY <1>2, <1>3 DEF Targeted
  <2>4. FanningOut(d, s) => FanningOut(d, s)' \/ Targeted(d, s)'
    <3>1. SUFFICES ASSUME NEW q \in Clients, Publishing(q), work[q].seq = s, NodeOf[q] = NodeOf[d]
                   PROVE  FanningOut(d, s)' \/ Targeted(d, s)'
      BY DEF FanningOut
    <3>2. CASE q = c
      <4>1. d \in out'[c]
        BY <1>1, <1>3, <1>4, <3>1, <3>2 DEF EventFanout
      <4>2. QED BY <1>2, <1>3, <3>1, <3>2, <4>1 DEF Targeted
    <3>3. CASE q # c
      <4>1. Publishing(q)' /\ work'[q] = work[q]
        BY <1>1, <1>3, <3>1, <3>3 DEF Publishing
      <4>2. QED BY <3>1, <4>1 DEF FanningOut
    <3>4. QED BY <3>2, <3>3
  <2>5. QED BY <1>4, <2>1, <2>2, <2>3, <2>4 DEF EventComing
<1>5. \A d \in Clients : Owed(d)' = Owed(d) /\ StaysIn(d) /\ EventsOf(d)
  BY <1>1 DEF Owed, StaysIn, EventsFollow
<1>6. QED BY <1>1, <1>4, <1>5, EventsKeep DEF EventsFollow

\* A node takes every member on it as a target of an event from its channel.
LEMMA HandleClusterEventEvents ==
  ASSUME EventTypes, EventTypes', HandlersSound, EventsFollow, NEW n \in Nodes,
         HandleClusterEvent(n)
  PROVE  EventsFollow'
<1>1. /\ UNCHANGED <<published, cut, members, from, beyond, stage, got, refused, replay,
                     work>>
      /\ channel[n] # << >> /\ out[n] = {} /\ Resolve(n, n, Head(channel[n]))
      /\ channel' = [channel EXCEPT ![n] = Tail(@)]
  BY DEF HandleClusterEvent, redisVars, oweVars, clientVars, handlerVars
<1>2. n \in Procs
  BY DEF Procs
<1>3. /\ msg'[n] = Head(channel[n]) /\ out'[n] = EventFanout(n)
      /\ \A p \in Procs \ {n} : msg'[p] = msg[p] /\ out'[p] = out[p]
      /\ \A m \in Nodes \ {n} : channel'[m] = channel[m]
      /\ channel'[n] = Tail(channel[n]) /\ channel[n] \in Seq(Entry)
  BY <1>1, <1>2 DEF Resolve, EventTypes
<1>4. PublishersHeld
  BY <1>1 DEF PublishersHeld, Publishing
<1>5. ASSUME NEW d \in Clients, d \in members', NEW s, EventComing(d, s)
      PROVE  EventComing(d, s)'
  <2>1. Replaying(d, s) => Replaying(d, s)'
    BY <1>1 DEF Replaying
  <2>2. Targeted(d, s) => Targeted(d, s)'
    BY <1>1, <1>3 DEF Targeted
  <2>3. Queued(d, s) => Queued(d, s)' \/ Targeted(d, s)'
    <3>1. CASE NodeOf[d] # n
      BY <1>3, <3>1, EventAssumption DEF Queued
    <3>2. CASE NodeOf[d] = n
      <4>1. SUFFICES ASSUME NEW i \in 1..Len(channel[n]), channel[n][i].seq = s
                     PROVE  Queued(d, s)' \/ Targeted(d, s)'
        BY <3>2 DEF Queued
      <4>2. CASE i = 1
        <5>1. msg'[n].seq = s
          BY <1>1, <1>3, <4>1, <4>2, HeadAndTail
        <5>2. d \in out'[n]
          BY <1>1, <1>3, <1>5, <3>2 DEF EventFanout
        <5>3. QED BY <1>2, <5>1, <5>2 DEF Targeted
      <4>3. CASE i # 1
        <5>1. i \in 2..Len(channel[n])
          BY <1>1, <1>3, <4>1, <4>3, HeadAndTail
        <5>2. i - 1 \in 1..Len(channel'[n]) /\ channel'[n][i - 1] = channel[n][i]
          <6>1. i - 1 \in 1..Len(Tail(channel[n])) /\ Tail(channel[n])[i - 1] = channel[n][i]
            BY <1>1, <1>3, <5>1, HeadAndTail
          <6>2. QED BY <1>3, <6>1
        <5>3. QED BY <3>2, <4>1, <5>2 DEF Queued
      <4>4. QED BY <4>2, <4>3
    <3>3. QED BY <3>1, <3>2
  <2>4. QED BY <1>4, <1>5, <2>1, <2>2, <2>3, PublishersKeep DEF EventComing
<1>6. \A d \in Clients : Owed(d)' = Owed(d) /\ StaysIn(d) /\ EventsOf(d)
  BY <1>1 DEF Owed, StaysIn, EventsFollow
<1>7. QED BY <1>1, <1>5, <1>6, EventsKeep DEF EventsFollow

\* What was queued at a node stays queued; the new event is queued at each node
\* but the publisher's own.
LEMMA PublishQueues ==
  ASSUME EventTypes, NEW q \in Clients \cup {Admin}, LogAndPublish(q), NEW d \in Clients
  PROVE  /\ \A s : Queued(d, s) => Queued(d, s)'
         /\ q = Admin \/ NodeOf[d] # NodeOf[q] =>
               \A s : s = work[q].seq => Queued(d, s)'
         /\ \A s \in published' : s \in published \/ s = work[q].seq
<1>1. NodeOf[d] \in Nodes /\ channel[NodeOf[d]] \in Seq(Entry) /\ work[q] \in Entry
  BY EventAssumption DEF EventTypes
<1>2. CASE q # Admin /\ NodeOf[d] = NodeOf[q]
  <2>1. channel'[NodeOf[d]] = channel[NodeOf[d]]
    BY <1>1, <1>2 DEF LogAndPublish
  <2>2. QED BY <1>2, <2>1 DEF Queued, LogAndPublish
<1>3. CASE ~(q # Admin /\ NodeOf[d] = NodeOf[q])
  <2>1. channel'[NodeOf[d]] = Append(channel[NodeOf[d]], work[q])
    BY <1>1, <1>3 DEF LogAndPublish
  <2>2. /\ \A i \in 1..Len(channel[NodeOf[d]]) :
              /\ i \in 1..Len(channel'[NodeOf[d]])
              /\ channel'[NodeOf[d]][i] = channel[NodeOf[d]][i]
        /\ Len(channel'[NodeOf[d]]) \in 1..Len(channel'[NodeOf[d]])
        /\ channel'[NodeOf[d]][Len(channel'[NodeOf[d]])] = work[q]
    BY <1>1, <2>1, Appended
  <2>3. \A s : Queued(d, s) => Queued(d, s)'
    BY <2>2 DEF Queued
  <2>4. \A s : s = work[q].seq => Queued(d, s)'
    BY <2>2 DEF Queued
  <2>5. QED BY <2>3, <2>4 DEF LogAndPublish
<1>4. QED BY <1>2, <1>3

\* A published event is queued at the other nodes and its publisher fans it out
\* on its own.
LEMMA PublishEventEvents ==
  ASSUME EventTypes, EventTypes', HandlersSound, EventsFollow,
         NEW q \in Clients \cup {Admin}, PublishEvent(q)
  PROVE  EventsFollow'
<1>1. /\ UNCHANGED <<cut, members, from, beyond, got, refused, replay, work, msg, out>>
      /\ stage[q] = "publish" /\ LogAndPublish(q)
      /\ Goto(q, IF q = Admin THEN "off" ELSE "fanout")
  BY DEF PublishEvent, oweVars, clientVars, handlerVars
<1>2. /\ \A d \in Clients \ {q} : stage'[d] = stage[d]
      /\ q \in Clients => stage'[q] = "fanout"
  BY <1>1, EventAssumption DEF Goto, EventTypes
<1>3. PublishersHeld
  BY <1>1, <1>2 DEF PublishersHeld, Publishing
<1>4. q \in Clients => Publishing(q)'
  <2>1. work[q].seq \in 1..counter
    BY <1>1 DEF HandlersSound, HandlerHolds
  <2>2. NoEntry.seq = 0
    BY DEF NoEntry
  <2>3. work'[q] # NoEntry
    BY <1>1, <2>1, <2>2 DEF EventTypes
  <2>4. QED BY <1>2, <2>3 DEF Publishing
<1>5. \A d \in Clients : StaysIn(d) /\ ReplayHeld(d) /\ EventsOf(d)
  BY <1>1, <1>2 DEF StaysIn, ReplayHeld, EventsFollow
<1>6. ASSUME NEW d \in Clients, NEW s \in Owed(d)' PROVE s \in Owed(d) \/ EventComing(d, s)'
  <2>1. s \in published \/ s = work[q].seq
    BY <1>1, <1>6, PublishQueues DEF Owed
  <2>2. CASE s \in published
    BY <1>1, <1>6, <2>2 DEF Owed
  <2>3. CASE s = work[q].seq
    <3>1. CASE q = Admin \/ NodeOf[d] # NodeOf[q]
      BY <1>1, <2>3, <3>1, PublishQueues DEF EventComing
    <3>2. CASE q # Admin /\ NodeOf[d] = NodeOf[q]
      <4>1. q \in Clients /\ Publishing(q)' /\ work'[q].seq = s
        BY <1>1, <1>4, <2>3, <3>2
      <4>2. FanningOut(d, s)'
        BY <3>2, <4>1 DEF FanningOut
      <4>3. QED BY <4>2 DEF EventComing
    <3>3. QED BY <3>1, <3>2
  <2>4. QED BY <2>1, <2>2, <2>3
<1>7. ASSUME NEW d \in Clients, stage'[d] # "closing", NEW s, EventComing(d, s)
      PROVE  EventComing(d, s)'
  <2>1. Targeted(d, s) => Targeted(d, s)'
    BY <1>1 DEF Targeted
  <2>2. Queued(d, s) => Queued(d, s)'
    BY <1>1, PublishQueues
  <2>3. QED BY <1>3, <1>5, <1>7, <2>1, <2>2, ReplayKeeps, PublishersKeep DEF EventComing
<1>8. QED BY <1>1, <1>5, <1>6, <1>7, EventsKeep DEF EventsFollow

\* An event published by a call that then failed counts as cut short.
LEMMA RedisFailsEvents ==
  ASSUME EventTypes, EventTypes', HandlersSound, EventsFollow,
         NEW q \in Clients \cup {Admin}, RedisFails(q)
  PROVE  EventsFollow'
<1>1. /\ UNCHANGED <<members, from, beyond, got, refused, replay, work, msg, out>>
      /\ stage[q] \in {"cursor", "list", "incr", "publish", "watch", "exec"}
      /\ Goto(q, IF q = Admin THEN "off" ELSE "closing")
      /\ \/ LogAndPublish(q) /\ cut' = cut \cup {work[q].seq}
         \/ UNCHANGED <<published, channel, cut>>
  BY DEF RedisFails, oweVars, clientVars, handlerVars, redisVars
<1>2. /\ \A d \in Clients \ {q} : stage'[d] = stage[d]
      /\ q \in Clients => stage'[q] = "closing"
  BY <1>1, EventAssumption DEF Goto, EventTypes
<1>3. PublishersHeld
  BY <1>1, <1>2 DEF PublishersHeld, Publishing
<1>4. \A d \in Clients : StaysIn(d) /\ EventsOf(d)
  BY <1>1, <1>2 DEF StaysIn, EventsFollow
<1>5. ASSUME NEW d \in Clients, NEW s \in Owed(d)' PROVE s \in Owed(d)
  <2>1. CASE LogAndPublish(q) /\ cut' = cut \cup {work[q].seq}
    BY <1>1, <1>5, <2>1, PublishQueues DEF Owed
  <2>2. CASE UNCHANGED <<published, channel, cut>>
    BY <1>1, <1>5, <2>2 DEF Owed
  <2>3. QED BY <1>1, <2>1, <2>2
<1>6. ASSUME NEW d \in Clients, stage'[d] # "closing", NEW s, EventComing(d, s)
      PROVE  EventComing(d, s)'
  <2>1. Targeted(d, s) => Targeted(d, s)'
    BY <1>1 DEF Targeted
  <2>2. Queued(d, s) => Queued(d, s)'
    <3>1. CASE LogAndPublish(q)
      BY <3>1, PublishQueues
    <3>2. CASE UNCHANGED channel
      BY <3>2 DEF Queued
    <3>3. QED BY <1>1, <3>1, <3>2
  <2>3. Replaying(d, s) => Replaying(d, s)'
    BY <1>1, <1>2, <1>6 DEF Replaying
  <2>4. QED BY <1>3, <1>6, <2>1, <2>2, <2>3, PublishersKeep DEF EventComing
<1>7. QED BY <1>1, <1>4, <1>5, <1>6, EventsKeep DEF EventsFollow

\* A target handles the event it is sent.
LEMMA EnqueueEvents ==
  ASSUME EventTypes, EventTypes', HandlersSound, EventsFollow,
         NEW p \in Procs, NEW c \in out[p], Enqueue(p, c)
  PROVE  EventsFollow'
<1>1. /\ UNCHANGED <<channel, msg, published, cut, work, members, from, beyond, stage,
                     replay>>
      /\ Accept(c, msg[p].seq) /\ out' = [out EXCEPT ![p] = @ \ {c}]
  BY DEF Enqueue, redisVars, oweVars, handlerVars
<1>2. c \in Clients /\ msg[p] \in Entry /\ out \in [Procs -> SUBSET Clients]
  BY DEF EventTypes
<1>3. msg[p].seq \in Nat
  BY <1>2, Records
<1>4. /\ \A d \in Clients : got[d] \subseteq got'[d] /\ refused[d] \subseteq refused'[d]
      /\ msg[p].seq \in got'[c] \cup refused'[c]
  BY <1>1, <1>2, <1>3, AcceptEvents
<1>5. PublishersHeld
  BY <1>1 DEF PublishersHeld, Publishing
<1>6. \A d \in Clients : Owed(d)' = Owed(d) /\ StaysIn(d) /\ EventsOf(d)
  BY <1>1 DEF Owed, StaysIn, EventsFollow
<1>7. ASSUME NEW d \in Clients, NEW s, EventComing(d, s)
      PROVE  EventComing(d, s)' \/ s \in got'[d] \cup refused'[d]
  <2>1. Queued(d, s) => Queued(d, s)'
    BY <1>1 DEF Queued
  <2>2. Replaying(d, s) => Replaying(d, s)'
    BY <1>1 DEF Replaying
  <2>3. Targeted(d, s) => Targeted(d, s)' \/ s \in got'[d] \cup refused'[d]
    BY <1>1, <1>2, <1>4 DEF Targeted
  <2>4. QED BY <1>5, <1>7, <2>1, <2>2, <2>3, PublishersKeep DEF EventComing
<1>8. QED BY <1>4, <1>6, <1>7, EventsKeep DEF EventsFollow

\* A fan-out that ends at a closed socket is cut short for those it had still to
\* reach.
LEMMA DisconnectEvents ==
  ASSUME EventTypes, EventTypes', HandlersSound, EventsFollow, NEW c \in Clients, Disconnect(c)
  PROVE  EventsFollow'
<1>1. /\ UNCHANGED <<channel, msg, published, from, beyond, got, refused>>
      /\ members' = members \ {c} /\ stage[c] \in {"ready", "closing"} /\ Return(c)
  BY DEF Disconnect, redisVars, oweVars, clientVars
<1>2. PICK stop \in SUBSET {p \in Procs : c \in out[p]} :
         /\ out' = [p \in Procs |-> IF p \in stop THEN {} ELSE out[p] \ {c}]
         /\ cut' = cut \cup {msg[p].seq : p \in stop}
         /\ stage' = [q \in Clients \cup {Admin} |->
                        IF q = c THEN "off"
                        ELSE IF q \in stop THEN "closing" ELSE stage[q]]
  BY DEF Disconnect
<1>3. ASSUME NEW q \in Clients, Publishing(q) PROVE q # c /\ q \notin stop
  BY <1>1, <1>2, <1>3 DEF Publishing, HandlersSound, HandlerHolds
<1>4. PublishersHeld
  BY <1>1, <1>2, <1>3 DEF PublishersHeld, Publishing, Return, EventTypes
<1>5. EventsOf(c)'
  BY <1>1 DEF EventsOf
<1>6. ASSUME NEW d \in Clients \ {c} PROVE EventsOf(d)'
  <2>1. /\ stage'[d] = IF d \in stop THEN "closing" ELSE stage[d]
        /\ replay'[d] = replay[d]
    BY <1>1, <1>2 DEF Return, EventTypes
  <2>2. StaysIn(d) /\ EventsOf(d)
    BY <1>1, <2>1 DEF StaysIn, EventsFollow
  <2>3. \A s \in Owed(d)' : s \in Owed(d)
    BY <1>1, <1>2 DEF Owed
  <2>4. ASSUME NEW s \in Owed(d)', EventComing(d, s), stage'[d] # "closing"
        PROVE  EventComing(d, s)'
    <3>1. Queued(d, s) => Queued(d, s)'
      BY <1>1 DEF Queued
    <3>2. Replaying(d, s) => Replaying(d, s)'
      BY <2>1, <2>4 DEF Replaying
    <3>3. Targeted(d, s) => Targeted(d, s)'
      BY <1>1, <1>2 DEF Targeted, Owed
    <3>4. QED BY <1>4, <2>4, <3>1, <3>2, <3>3, PublishersKeep DEF EventComing
  <2>5. QED BY <1>1, <2>2, <2>3, <2>4, EventsKeep
<1>7. QED BY <1>5, <1>6 DEF EventsFollow

\* What a joined client is owed was handled by it or is on its way.
LEMMA EventsStep ==
  ASSUME EventTypes, EventTypes', HandlersSound, EventsFollow, [Next]_eventVars
  PROVE  EventsFollow'
<1> USE EventAssumption
<1>1. ASSUME NEW c \in Clients, NEW cursor \in {0, last[c]}, Connect(c, cursor) PROVE EventsFollow'
  <2>1. UNCHANGED <<channel, msg, out>> /\ \A d \in Clients : OweHeld(d)
    BY <1>1 DEF Connect, JoinMessage, redisVars, handlerVars, fanVars, oweVars, OweHeld
  <2>2. \A d \in Clients : StaysIn(d) /\ ReplayHeld(d)
    BY <1>1 DEF Connect, JoinMessage, handlerVars, StaysIn, ReplayHeld, EventTypes,
       HandlersSound, HandlerHolds
  <2>3. PublishersHeld
    BY <1>1 DEF Connect, JoinMessage, handlerVars, PublishersHeld, Publishing, EventTypes
  <2>4. QED BY <2>1, <2>2, <2>3, EventsUntouched DEF EventsFollow
<1>2. ASSUME NEW c \in Clients, NEW e \in Events, Broadcast(c, e) PROVE EventsFollow'
  <2>1. UNCHANGED <<channel, msg, out>> /\ \A d \in Clients : OweHeld(d)
    BY <1>2 DEF Broadcast, redisVars, handlerVars, fanVars, clientVars, countVars, oweVars,
       OweHeld
  <2>2. \A d \in Clients : StaysIn(d) /\ ReplayHeld(d)
    BY <1>2 DEF Broadcast, handlerVars, StaysIn, ReplayHeld, EventTypes, HandlersSound,
       HandlerHolds
  <2>3. PublishersHeld
    BY <1>2 DEF Broadcast, handlerVars, PublishersHeld, Publishing, EventTypes
  <2>4. QED BY <2>1, <2>2, <2>3, EventsUntouched DEF EventsFollow
<1>3. ASSUME NEW c \in Clients, Read(c) PROVE EventsFollow'
  <2>1. UNCHANGED <<channel, msg, out>> /\ \A d \in Clients : OweHeld(d)
    BY <1>3 DEF Read, Goto, redisVars, fanVars, clientVars, countVars, oweVars, OweHeld
  <2>2. \A d \in Clients : StaysIn(d) /\ ReplayHeld(d)
    BY <1>3 DEF Read, Goto, StaysIn, ReplayHeld, EventTypes, HandlersSound, HandlerHolds
  <2>3. PublishersHeld
    BY <1>3 DEF Read, Goto, PublishersHeld, Publishing, EventTypes
  <2>4. QED BY <2>1, <2>2, <2>3, EventsUntouched DEF EventsFollow
<1>4. ASSUME NEW c \in Clients, JoinCursor(c) PROVE EventsFollow'
  <2>1. UNCHANGED <<channel, msg, out>> /\ \A d \in Clients : OweHeld(d)
    BY <1>4 DEF JoinCursor, Goto, redisVars, fanVars, clientVars, countVars, oweVars,
       OweHeld
  <2>2. \A d \in Clients : StaysIn(d) /\ ReplayHeld(d)
    BY <1>4 DEF JoinCursor, Goto, StaysIn, ReplayHeld, EventTypes, HandlersSound,
       HandlerHolds
  <2>3. PublishersHeld
    BY <1>4 DEF JoinCursor, Goto, PublishersHeld, Publishing, EventTypes
  <2>4. QED BY <2>1, <2>2, <2>3, EventsUntouched DEF EventsFollow
<1>5. ASSUME NEW c \in Clients, JoinEngine(c) PROVE EventsFollow'
  BY <1>5, JoinEngineEvents
<1>6. ASSUME NEW c \in Clients, ListPublishedEvents(c) PROVE EventsFollow'
  BY <1>6, ListPublishedEventsEvents
<1>7. ASSUME NEW c \in Clients, ReplayDone(c) PROVE EventsFollow'
  <2>1. UNCHANGED <<channel, msg, out>> /\ \A d \in Clients : OweHeld(d)
    BY <1>7 DEF ReplayDone, Return, Goto, redisVars, fanVars, clientVars, countVars,
       oweVars, OweHeld
  <2>2. \A d \in Clients : StaysIn(d) /\ ReplayHeld(d)
    <3>1. /\ stage[c] = "replay" /\ replay[c] = {} /\ stage'[c] = "ready" /\ members' = members
          /\ \A d \in Clients \ {c} : stage'[d] = stage[d]
      BY <1>7, GotoStep DEF ReplayDone
    <3>2. \A d \in Clients \ {c} : replay'[d] = replay[d]
      BY <1>7 DEF ReplayDone, Return, EventTypes
    <3>3. QED BY <3>1, <3>2 DEF StaysIn, ReplayHeld
  <2>3. PublishersHeld
    BY <1>7 DEF ReplayDone, Return, Goto, PublishersHeld, Publishing, EventTypes
  <2>4. QED BY <2>1, <2>2, <2>3, EventsUntouched DEF EventsFollow
<1>8. ASSUME NEW c \in Clients, NEW x \in replay[c], SendReplayEvent(c, x) PROVE EventsFollow'
  BY <1>8, SendReplayEventEvents
<1>9. ASSUME NEW c \in Clients, BroadcastEvent(c) PROVE EventsFollow'
  BY <1>9, BroadcastEventEvents
<1>10. ASSUME NEW c \in Clients, BroadcastDone(c) PROVE EventsFollow'
  <2>1. UNCHANGED <<channel, msg, out>> /\ \A d \in Clients : OweHeld(d)
    BY <1>10 DEF BroadcastDone, Goto, redisVars, handlerVars, fanVars, clientVars,
       countVars, oweVars, OweHeld
  <2>2. \A d \in Clients : StaysIn(d) /\ ReplayHeld(d)
    BY <1>10 DEF BroadcastDone, Goto, handlerVars, StaysIn, ReplayHeld, EventTypes,
       HandlersSound, HandlerHolds
  <2>3. PublishersHeld
    BY <1>10 DEF BroadcastDone, Goto, handlerVars, PublishersHeld, Publishing, EventTypes
  <2>4. QED BY <2>1, <2>2, <2>3, EventsUntouched DEF EventsFollow
<1>11. ASSUME NEW c \in Clients, AckWatch(c) PROVE EventsFollow'
  <2>1. UNCHANGED <<channel, msg, out>> /\ \A d \in Clients : OweHeld(d)
    BY <1>11 DEF AckWatch, Return, Goto, redisVars, fanVars, clientVars, countVars,
       oweVars, OweHeld
  <2>2. \A d \in Clients : StaysIn(d) /\ ReplayHeld(d)
    <3>1. /\ stage[c] = "watch" /\ stage'[c] \in {"ready", "exec"} /\ members' = members
          /\ \A d \in Clients \ {c} : stage'[d] = stage[d]
      BY <1>11, GotoStep DEF AckWatch
    <3>2. \A d \in Clients \ {c} : replay'[d] = replay[d]
      BY <1>11 DEF AckWatch, Return, EventTypes
    <3>3. QED BY <3>1, <3>2 DEF StaysIn, ReplayHeld
  <2>3. PublishersHeld
    <3>1. /\ stage[c] = "watch" /\ \A d \in Clients \ {c} : stage'[d] = stage[d]
      BY <1>11, GotoStep DEF AckWatch
    <3>2. \A d \in Clients \ {c} : work'[d] = work[d]
      BY <1>11 DEF AckWatch, Return, EventTypes
    <3>3. QED BY <3>1, <3>2 DEF PublishersHeld, Publishing
  <2>4. QED BY <2>1, <2>2, <2>3, EventsUntouched DEF EventsFollow
<1>12. ASSUME NEW c \in Clients, AckStore(c) PROVE EventsFollow'
  <2>1. UNCHANGED <<channel, msg, out>> /\ \A d \in Clients : OweHeld(d)
    BY <1>12 DEF AckStore, Return, Goto, fanVars, clientVars, countVars, oweVars, OweHeld
  <2>2. \A d \in Clients : StaysIn(d) /\ ReplayHeld(d)
    <3>1. /\ stage[c] = "exec" /\ stage'[c] = "ready" /\ members' = members
          /\ \A d \in Clients \ {c} : stage'[d] = stage[d]
      BY <1>12, GotoStep DEF AckStore
    <3>2. \A d \in Clients \ {c} : replay'[d] = replay[d]
      BY <1>12 DEF AckStore, Return, EventTypes
    <3>3. QED BY <3>1, <3>2 DEF StaysIn, ReplayHeld
  <2>3. PublishersHeld
    <3>1. /\ stage[c] = "exec" /\ \A d \in Clients \ {c} : stage'[d] = stage[d]
      BY <1>12, GotoStep DEF AckStore
    <3>2. \A d \in Clients \ {c} : work'[d] = work[d]
      BY <1>12 DEF AckStore, Return, EventTypes
    <3>3. QED BY <3>1, <3>2 DEF PublishersHeld, Publishing
  <2>4. QED BY <2>1, <2>2, <2>3, EventsUntouched DEF EventsFollow
<1>13. ASSUME NEW c \in Clients, AckRetry(c) PROVE EventsFollow'
  <2>1. UNCHANGED <<channel, msg, out>> /\ \A d \in Clients : OweHeld(d)
    BY <1>13 DEF AckRetry, Goto, redisVars, fanVars, clientVars, countVars, oweVars, OweHeld
  <2>2. \A d \in Clients : StaysIn(d) /\ ReplayHeld(d)
    BY <1>13 DEF AckRetry, Goto, StaysIn, ReplayHeld, EventTypes, HandlersSound,
       HandlerHolds
  <2>3. PublishersHeld
    BY <1>13 DEF AckRetry, Goto, PublishersHeld, Publishing, EventTypes
  <2>4. QED BY <2>1, <2>2, <2>3, EventsUntouched DEF EventsFollow
<1>14. ASSUME NEW c \in Clients, Disconnect(c) PROVE EventsFollow'
  BY <1>14, DisconnectEvents
<1>15. ASSUME NEW e \in Events, AdminPublish(e) PROVE EventsFollow'
  <2>1. UNCHANGED <<channel, msg, out>> /\ \A d \in Clients : OweHeld(d)
    BY <1>15 DEF AdminPublish, Goto, redisVars, fanVars, clientVars, countVars, oweVars,
       OweHeld
  <2>2. \A d \in Clients : StaysIn(d) /\ ReplayHeld(d)
    BY <1>15 DEF AdminPublish, Goto, StaysIn, ReplayHeld, EventTypes, HandlersSound,
       HandlerHolds
  <2>3. PublishersHeld
    BY <1>15 DEF AdminPublish, Goto, PublishersHeld, Publishing, EventTypes
  <2>4. QED BY <2>1, <2>2, <2>3, EventsUntouched DEF EventsFollow
<1>16. ASSUME NEW q \in Clients \cup {Admin}, DrawSequence(q) PROVE EventsFollow'
  <2>1. UNCHANGED <<channel, msg, out>> /\ \A d \in Clients : OweHeld(d)
    BY <1>16 DEF DrawSequence, Goto, fanVars, clientVars, countVars, oweVars, OweHeld
  <2>2. \A d \in Clients : StaysIn(d) /\ ReplayHeld(d)
    BY <1>16 DEF DrawSequence, Goto, StaysIn, ReplayHeld, EventTypes, HandlersSound,
       HandlerHolds
  <2>3. PublishersHeld
    BY <1>16 DEF DrawSequence, Goto, PublishersHeld, Publishing, EventTypes
  <2>4. QED BY <2>1, <2>2, <2>3, EventsUntouched DEF EventsFollow
<1>17. ASSUME NEW q \in Clients \cup {Admin}, PublishEvent(q) PROVE EventsFollow'
  BY <1>17, PublishEventEvents
<1>18. ASSUME NEW q \in Clients \cup {Admin}, RedisFails(q) PROVE EventsFollow'
  BY <1>18, RedisFailsEvents
<1>19. ASSUME PublishStorageEvent PROVE EventsFollow'
  <2>1. UNCHANGED <<channel, msg, out>> /\ \A d \in Clients : OweHeld(d)
    BY <1>19 DEF PublishStorageEvent, Logged, handlerVars, fanVars, clientVars, oweVars,
       OweHeld
  <2>2. \A d \in Clients : StaysIn(d) /\ ReplayHeld(d)
    BY <1>19 DEF PublishStorageEvent, Logged, handlerVars, StaysIn, ReplayHeld, EventTypes,
       HandlersSound, HandlerHolds
  <2>3. PublishersHeld
    BY <1>19 DEF PublishStorageEvent, Logged, handlerVars, PublishersHeld, Publishing,
       EventTypes
  <2>4. QED BY <2>1, <2>2, <2>3, EventsUntouched DEF EventsFollow
<1>20. ASSUME NEW n \in Nodes, HandleClusterEvent(n) PROVE EventsFollow'
  BY <1>20, HandleClusterEventEvents
<1>21. ASSUME NEW p \in Procs, NEW c \in out[p], Enqueue(p, c) PROVE EventsFollow'
  BY <1>21, EnqueueEvents
<1>22. CASE UNCHANGED eventVars
  <2>1. UNCHANGED <<channel, msg,
                    out>> /\ \A d \in Clients : OweHeld(d) /\ StaysIn(d) /\ ReplayHeld(d)
    BY <1>22 DEF eventVars, OweHeld, StaysIn, ReplayHeld, redisVars, handlerVars, fanVars,
       clientVars, countVars, oweVars
  <2>2. PublishersHeld
    BY <1>22 DEF eventVars, PublishersHeld, Publishing, handlerVars
  <2>3. QED BY <2>1, <2>2, EventsUntouched DEF EventsFollow
<1> HIDE EventAssumption
<1>23. QED
  BY <1>1, <1>2, <1>3, <1>4, <1>5, <1>6, <1>7, <1>8, <1>9, <1>10, <1>11, <1>12, <1>13,
     <1>14, <1>15, <1>16, <1>17, <1>18, <1>19, <1>20, <1>21, <1>22 DEF Next, Join


-----------------------------------------------------------------------------
(* Theorems.                                                               *)

\* No event, no client and no acknowledgement: the invariant holds.
LEMMA EventInvInit == Init => EventInv
<1> SUFFICES ASSUME Init PROVE EventInv
  OBVIOUS
<1>1. EventTypes
  BY EventAssumption, Records DEF Init, EventTypes, Stages
<1>2. HandlersSound
  BY EventAssumption DEF Init, HandlersSound, HandlerHolds, Procs
<1>3. AcksFollow
  BY DEF Init, AcksFollow, AcksOf
<1>4. EventsFollow
  BY DEF Init, EventsFollow, EventsOf
<1>5. QED BY <1>1, <1>2, <1>3, <1>4 DEF EventInv

\* Every action keeps the invariant, by the lemmas about it.
LEMMA EventInvNext == EventInv /\ [Next]_eventVars => EventInv'
BY TypesStep, HandlersStep, AcksStep, EventsStep DEF EventInv

\* Every event and every acknowledgement is in some hand until it arrives, in
\* every reachable state.
THEOREM EventInvariant == Spec => []EventInv
BY EventInvInit, EventInvNext, PTL DEF Spec

\* handleJoin's replay and the live fan-out meet without a gap, whatever the
\* publishers on all nodes do during the join: when nothing is under way, a
\* joined client was sent each event since the sequence that its join started
\* from, unless it was trimmed, beyond the replay's limit or cut short.
THEOREM ReplayMeets == Spec => []ReplayMeetsLive
<1>1. EventInv => ReplayMeetsLive
  <2> SUFFICES ASSUME EventInv, Quiet, NEW c \in Clients, Settled(c), NEW s \in Owed(c)
               PROVE  s \in got[c] \cup refused[c]
    BY DEF ReplayMeetsLive, Owed
  <2>1. c \in members /\ stage[c] = "ready"
    BY DEF Settled
  <2>2. ~EventComing(c, s)
    <3>1. ~Replaying(c, s)
      BY <2>1 DEF Replaying
    <3>2. ~Queued(c, s)
      BY EventAssumption DEF Queued, Quiet
    <3>3. ~Targeted(c, s) /\ ~FanningOut(c, s)
      BY DEF Targeted, FanningOut, Publishing, Quiet
    <3>4. QED BY <3>1, <3>2, <3>3 DEF EventComing
  <2>3. QED BY <2>1, <2>2 DEF EventInv, EventsFollow, EventsOf
<1>2. QED BY <1>1, EventInvariant, PTL

\* SetRoomEventAck with its retries: what a client has accepted on its socket is
\* covered by its user's durable cursor once its acknowledgements were handled.
THEOREM AcksArrive == Spec => []AcksReachRedis
<1>1. EventInv => AcksReachRedis
  BY DEF EventInv, AcksFollow, AcksOf, AckComing, AcksReachRedis, Settled
<1>2. QED BY <1>1, EventInvariant, PTL

\* The WATCH of SetRoomEventAck: no device, retry or replay ever moves a user's
\* durable cursor back.
THEOREM CursorNeverBack == Spec => DurableCursorMonotone
<1>1. ASSUME EventInv, [Next]_eventVars PROVE \A u \in Users : durable'[u] >= durable[u]
  <2> SUFFICES ASSUME NEW u \in Users PROVE durable[u] <= durable'[u]
    <3>1. \A u \in Users : durable[u] \in Nat /\ durable'[u] \in Nat
      BY <1>1, EventInvNext DEF EventInv, EventTypes
    <3>2. QED BY <3>1
  <2>1. ASSUME NEW c \in Clients, AckStore(c) PROVE durable[u] <= durable'[u]
    BY <1>1, <2>1, StoreRaises DEF EventInv
  <2>2. ASSUME durable' = durable PROVE durable[u] <= durable'[u]
    BY <1>1, <2>2 DEF EventInv, EventTypes
  <2>3. (\E c \in Clients : AckStore(c)) \/ durable' = durable
    BY <1>1, ZenonT(60) DEF Next, Join, Connect, Broadcast, Read, JoinCursor, JoinEngine,
       ListPublishedEvents, ReplayDone, SendReplayEvent, BroadcastEvent, BroadcastDone,
       AckWatch, AckRetry, Disconnect, AdminPublish, DrawSequence, PublishEvent, RedisFails,
       LogAndPublish, PublishStorageEvent, HandleClusterEvent, Enqueue, redisVars, eventVars
  <2>4. QED BY <2>1, <2>2, <2>3
<1>2. EventInv /\ [Next]_eventVars => [\A u \in Users : durable'[u] >= durable[u]]_eventVars
  BY <1>1
<1>3. QED BY <1>2, EventInvariant, PTL DEF DurableCursorMonotone, Spec
=============================================================================
