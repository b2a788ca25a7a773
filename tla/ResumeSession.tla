---------------------------- MODULE ResumeSession ----------------------------
(***************************************************************************)
(* Resume sessions: the record of a subject's rooms and event cursors that *)
(* a client names when it connects again.                                  *)
(*  - server/internal/runtime/service.go: handleWS,                        *)
(*    resumeSessionFromRequest, touchResumeSessionRoom,                    *)
(*    persistResumeSessionCursor, upsertConnResumeSession;                 *)
(*  - server/internal/cluster/product.go: UpsertResumeSession and the      *)
(*    other operations on the record;                                      *)
(*  - server/internal/admin/product.go: the admin API's handlers.          *)
(* A connection copies the record when it opens and from then on writes    *)
(* its own copy back whole. A record has an expiry time, which upserts     *)
(* write with it and hand to EXPIREAT. One session id is modelled, used by *)
(* connections of one subject. Creation times are left out (they are       *)
(* handled as RichTextStore's). An expiry time is a number, and the        *)
(* passing of time makes the lowest ones pass.                             *)
(***************************************************************************)
EXTENDS UsageLedger

CONSTANTS
    Connections, Scoped,   \* Scoped: connections with a project id
    SessionRooms,
    MaxSequence,           \* bound: events of a room
    MaxOpens               \* bound: connections opened and admin requests

ASSUME SessionAssumption ==
    Scoped \subseteq Connections /\ MaxSequence \in Nat /\ MaxOpens \in Nat

VARIABLES
    session,    \* the record: [cursor, scoped, expires], or NoSession
    roomIndex,  \* rooms under whose index the session is listed
    conn,       \* conn[c]: [stage, copy]
    expiry,     \* the latest expiry time given out
    passed,     \* expiry times up to this one have passed
    opens,      \* counter for MaxOpens
    best,       \* history: best[x], the highest cursor of room x written since
                \* the record came to be
    shared      \* history: the record was written by two holders, by the admin
                \* service or after a delete

sessionVars == <<session, roomIndex, conn, expiry, passed, opens, best, shared>>

\* A record's rooms are the ones it has a cursor for.
NoCursors == [x \in {} |-> 0]
WithRoom(cursor, x) ==
    [y \in DOMAIN cursor \cup {x} |-> IF y \in DOMAIN cursor THEN cursor[y] ELSE 0]
NoSession == [cursor |-> NoCursors, scoped |-> FALSE, expires |-> 0]
Absent == session = NoSession
Closed == [stage |-> "closed", copy |-> NoSession]
Holders == {c \in Connections : conn[c].stage \in {"open", "upsert", "create"}}

SessionInit ==
    /\ session = NoSession
    /\ roomIndex = {}
    /\ conn = [c \in Connections |-> Closed]
    /\ expiry = 0 /\ passed = 0 /\ opens = 0
    /\ best = [x \in SessionRooms |-> 0]
    /\ shared = FALSE

-----------------------------------------------------------------------------
(* The store. HSET, SADD of every room and EXPIREAT are one MULTI: a       *)
(* record whose expiry time has passed is deleted by EXPIREAT.             *)

\* Faulty variant: no EXPIREAT.
ExpireNever(rec, time) == rec

ExpireAt(rec, time) == IF rec.expires <= time THEN NoSession ELSE rec

UpsertResumeSession(rec) ==
    /\ session' = ExpireAt(rec, passed)
    /\ roomIndex' = roomIndex \cup DOMAIN rec.cursor
    /\ best' = [x \in SessionRooms |->
            LET now == IF x \in DOMAIN rec.cursor THEN rec.cursor[x] ELSE 0 IN
            IF session' = NoSession THEN 0
            ELSE IF Absent \/ now > best[x] THEN now ELSE best[x]]

-----------------------------------------------------------------------------
(* The runtime.                                                            *)

\* handleWS with a resume session id.
handleWS(c) ==
    /\ conn[c].stage = "closed" /\ opens < MaxOpens
    /\ opens' = opens + 1
    /\ conn' = [conn EXCEPT ![c] = [stage |-> "get", copy |-> NoSession]]
    /\ UNCHANGED <<session, roomIndex, expiry, passed, best, shared>>

\* GetResumeSession: the record is copied, or made when there is none, or
\* written back with the project of the connection when it has none yet.
resumeSessionFromRequest(c) ==
    /\ conn[c].stage = "get"
    /\ conn' = [conn EXCEPT ![c] =
            CASE Absent -> [stage |-> "create", copy |->
                    [cursor |-> NoCursors, scoped |-> c \in Scoped, expires |-> expiry + 1]]
              [] ~Absent /\ ~session.scoped /\ c \in Scoped ->
                    [stage |-> "create", copy |->
                        [cursor |-> session.cursor, scoped |-> TRUE, expires |-> session.expires]]
              [] OTHER -> [stage |-> "open", copy |-> session]]
    /\ expiry' = IF Absent THEN expiry + 1 ELSE expiry
    /\ shared' = (shared \/ Holders # {})
    /\ UNCHANGED <<session, roomIndex, passed, opens, best>>

\* c gave its copy other cursors, and is about to write it back.
CopyChanged(c, cursor) ==
    LET copy == conn[c].copy IN
    [conn EXCEPT ![c] = [stage |-> "upsert", copy |->
        [cursor |-> cursor, scoped |-> copy.scoped, expires |-> copy.expires]]]

\* touchResumeSessionRoom, the end of a join.
touchResumeSessionRoom(c, x) ==
    /\ conn[c].stage = "open"
    /\ conn' = CopyChanged(c, WithRoom(conn[c].copy.cursor, x))
    /\ UNCHANGED <<session, roomIndex, expiry, passed, opens, best, shared>>

Higher(new, old) == new > old

\* persistResumeSessionCursor, the end of an acknowledgement.
persistResumeSessionCursor(c, x, n) ==
    /\ conn[c].stage = "open"
    /\ x \in DOMAIN conn[c].copy.cursor
    /\ Higher(n, conn[c].copy.cursor[x])
    /\ conn' = CopyChanged(c, [conn[c].copy.cursor EXCEPT ![x] = n])
    /\ UNCHANGED <<session, roomIndex, expiry, passed, opens, best, shared>>

\* The copy is written back. The record it replaces may be newer, or gone.
upsertConnResumeSession(c) ==
    /\ conn[c].stage \in {"upsert", "create"}
    /\ UpsertResumeSession(conn[c].copy)
    /\ shared' = (shared \/ (conn[c].stage = "upsert" /\ Absent))
    /\ conn' = [conn EXCEPT ![c] = [stage |-> "open", copy |-> conn[c].copy]]
    /\ UNCHANGED <<expiry, passed, opens>>

\* The socket closes, or a call of its goroutine failed.
CloseConn(c) ==
    /\ conn[c].stage # "closed"
    /\ conn' = [conn EXCEPT ![c] = Closed]
    /\ UNCHANGED <<session, roomIndex, expiry, passed, opens, best, shared>>

RuntimeSession(c) ==
    \/ handleWS(c) \/ resumeSessionFromRequest(c)
    \/ \E x \in SessionRooms :
        \/ touchResumeSessionRoom(c, x)
        \/ \E n \in 1..MaxSequence : persistResumeSessionCursor(c, x, n)
    \/ upsertConnResumeSession(c) \/ CloseConn(c)

\* Time passes: the lowest expiry time that has not passed does.
Expire ==
    /\ passed < expiry
    /\ passed' = passed + 1
    /\ session' = ExpireAt(session, passed + 1)
    /\ best' = IF session' = NoSession THEN [x \in SessionRooms |-> 0] ELSE best
    /\ UNCHANGED <<roomIndex, conn, expiry, opens, shared>>

-----------------------------------------------------------------------------
(* The admin API.                                                          *)

Accepted(r, op, arg) ==
    /\ opens < MaxOpens
    /\ opens' = opens + 1
    /\ Start(r, op, arg)
    /\ UNCHANGED <<ledgerVars, session, roomIndex, conn, expiry, passed, best, shared>>

handleUpsertResumeSession(r, x) == Accepted(r, "UpsertSession", [x |-> x])

handleResumeSession(r) == Accepted(r, "DeleteSession", Nothing)

AdminUpsert(r) ==
    /\ At(r, "UpsertSession", "started")
    /\ expiry' = expiry + 1
    /\ UpsertResumeSession([cursor |-> WithRoom(NoCursors, req[r].arg.x), scoped |-> TRUE,
                            expires |-> expiry + 1])
    /\ shared' = TRUE
    /\ req' = Audited(r)
    /\ Owes(r)
    /\ UNCHANGED <<failures, conn, passed, opens>>

\* The room index keeps the id of a deleted session.
DeleteResumeSession(r) ==
    /\ At(r, "DeleteSession", "started")
    /\ \/ /\ Absent
          /\ req' = Finished(r)
          /\ UNCHANGED <<ledgerVars, session, best>>
       \/ /\ ~Absent
          /\ session' = NoSession
          /\ best' = [x \in SessionRooms |-> 0]
          /\ req' = Audited(r)
          /\ Owes(r)
    /\ UNCHANGED <<failures, roomIndex, conn, expiry, passed, opens, shared>>

SessionNext ==
    \/ (Expire \/ \E c \in Connections : RuntimeSession(c)) /\ UNCHANGED <<requestVars, ledgerVars>>
    \/ \E r \in Requests :
        \/ handleResumeSession(r)
        \/ \E x \in SessionRooms : handleUpsertResumeSession(r, x)
        \/ AdminUpsert(r) \/ DeleteResumeSession(r)
        \/ LedgerStep(r) /\ UNCHANGED sessionVars
        \/ ChangeCallFails(r, {"started"}) /\ UNCHANGED sessionVars

SessionSpec ==
    /\ RequestInit /\ LedgerInit /\ SessionInit
    /\ [][SessionNext]_<<requestVars, ledgerVars, sessionVars>>

-----------------------------------------------------------------------------
\* A session does not outlive its expiry time, although the connections that
\* hold a copy go on writing it back; and it is listed under all its rooms.
SessionExpires ==
    Absent \/ (session.expires > passed /\ DOMAIN session.cursor \subseteq roomIndex)

\* The cursors of a session never move back as long as one connection at a
\* time holds it, however often it reconnects: the record carries the highest
\* acknowledgement that was written to it. (Two holders overwrite each other
\* with the cursors of their own copies.)
CursorsKept ==
    ~shared /\ ~Absent =>
        \A x \in DOMAIN session.cursor : session.cursor[x] = best[x]

\* What a client resumes from is sound although every connection writes its own
\* copy of the session back: the session ends when it should, and while it
\* lives it carries the highest acknowledgements.
SessionsSound == SessionExpires /\ CursorsKept
=============================================================================
