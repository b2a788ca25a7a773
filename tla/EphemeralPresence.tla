-------------------------- MODULE EphemeralPresence --------------------------
(***************************************************************************)
(* Presence the admin API sets for a time, under any connection id, in one *)
(* room.                                                                   *)
(*  - server/internal/admin/service.go: handlePresence, handleActiveUsers; *)
(*  - server/internal/cluster/redis.go: SetEphemeralPresence, which also   *)
(*    makes the id a member, and SnapshotRoom, which every join and the    *)
(*    list of active users read and which removes what has expired: the    *)
(*    keys are read by one MULTI, an alive key is looked up for every      *)
(*    ephemeral id, and an id without one is removed by another MULTI.     *)
(* Connections join and leave as in RuntimeRooms, and set their presence   *)
(* in the same hash, whether they joined the room or not                   *)
(* (server/internal/runtime/service.go: handlePresence).                   *)
(***************************************************************************)
EXTENDS UsageLedger

CONSTANTS
    Ids,             \* connection ids
    PresenceMetric   \* the metric of presence that was set

ASSUME PresenceAssumption == PresenceMetric \in Metrics

VARIABLES
    roomMembers,   \* the members set of the room
    roomPresence,  \* ids with an entry in the presence hash
    ephemeral,     \* the set of ephemeral ids
    alive,         \* ids whose alive key exists
    joined,        \* connections that are in the room by a JOIN
    lately,        \* history: lately[r], ids alive at some time since r began
    erased,        \* history: ids removed while alive
    given,         \* history: ids the admin API ever used
    connected,     \* history: ids a connection ever joined or set presence with
    unjoined       \* history: ids whose connection set a presence that it cannot
                   \* leave, as it has not joined the room since

presenceVars == <<roomMembers, roomPresence, ephemeral, alive, joined, lately, erased,
                  given, connected, unjoined>>

\* Ids used both by a connection and by the admin API.
Doubled == given \cap connected

\* The ids of old were given a presence before.
PresenceInit(old) ==
    /\ roomMembers = old /\ roomPresence = old /\ ephemeral = old /\ alive = old
    /\ joined = {}
    /\ lately = [r \in Requests |-> {}]
    /\ erased = {} /\ given = old /\ connected = {} /\ unjoined = {}

-----------------------------------------------------------------------------
(* Connections of a runtime.                                               *)

JoinMember(c) ==
    /\ c \notin joined
    /\ joined' = joined \cup {c}
    /\ roomMembers' = roomMembers \cup {c}
    /\ connected' = connected \cup {c}
    /\ unjoined' = unjoined \ {c}
    /\ UNCHANGED <<requestVars, ledgerVars, roomPresence, ephemeral, alive, lately, erased, given>>

LeaveMember(c) ==
    /\ c \in joined
    /\ joined' = joined \ {c}
    /\ roomMembers' = roomMembers \ {c}
    /\ roomPresence' = roomPresence \ {c}
    /\ UNCHANGED <<requestVars, ledgerVars, ephemeral, alive, lately, erased, given, connected,
                   unjoined>>

\* PRESENCE_SET asks neither the engine nor Redis whether c is a member, and
\* the cleanup of a connection that ends reads only the rooms it joined.
SetPresence(c) ==
    /\ roomPresence' = roomPresence \cup {c}
    /\ connected' = connected \cup {c}
    /\ unjoined' = unjoined \cup ({c} \ joined)
    /\ UNCHANGED <<requestVars, ledgerVars, roomMembers, ephemeral, alive, joined, lately, erased,
                   given>>

-----------------------------------------------------------------------------
(* The admin API.                                                          *)

handlePresence(r, c) ==
    /\ Start(r, "SetPresence", [c |-> c])
    /\ UNCHANGED <<ledgerVars, presenceVars>>

\* One MULTI.
SetEphemeralPresence(c) ==
    /\ roomMembers' = roomMembers \cup {c}
    /\ roomPresence' = roomPresence \cup {c}
    /\ ephemeral' = ephemeral \cup {c}
    /\ alive' = alive \cup {c}

SetPresenceOfRequest(r) ==
    LET c == req[r].arg.c IN
    /\ At(r, "SetPresence", "started")
    /\ SetEphemeralPresence(c)
    /\ req' = Advance(r, "publish", Nothing)
    /\ lately' = [q \in Requests |-> lately[q] \cup {c}]
    /\ erased' = erased \ {c}
    /\ given' = given \cup {c}
    /\ UNCHANGED <<failures, ledgerVars, joined, connected, unjoined>>

\* PublishPresence. The request is audited once this has succeeded.
PublishOfRequest(r) ==
    /\ At(r, "SetPresence", "publish")
    /\ req' = Metered(r, PresenceMetric)
    /\ Owes(r)
    /\ UNCHANGED <<failures, presenceVars>>

\* The TTL of an alive key ends. Nothing is published.
ExpirePresence(c) ==
    /\ c \in alive
    /\ alive' = alive \ {c}
    /\ UNCHANGED <<requestVars, ledgerVars, roomMembers, roomPresence, ephemeral, joined, lately,
                   erased, given, connected, unjoined>>

-----------------------------------------------------------------------------
(* SnapshotRoom.                                                           *)

handleActiveUsers(r) ==
    /\ Start(r, "ActiveUsers", Nothing)
    /\ lately' = [lately EXCEPT ![r] = alive]
    /\ UNCHANGED <<ledgerVars, roomMembers, roomPresence, ephemeral, alive, joined, erased,
                   given, connected, unjoined>>

ReadRoom(r) ==
    /\ At(r, "ActiveUsers", "started")
    /\ req' = Advance(r, "check", [members |-> roomMembers, todo |-> ephemeral])
    /\ UNCHANGED <<failures, ledgerVars, presenceVars>>

\* Faulty variant: the alive keys are not looked up.
NeverGone(c) == FALSE

\* EXISTS of the alive key.
IsGone(c) == c \notin alive

CheckAlive(r, c) ==
    LET got == req[r].got IN
    /\ At(r, "ActiveUsers", "check") /\ c \in got.todo
    /\ req' = IF IsGone(c)
              THEN Advance(r, "purge", [members |-> got.members \ {c}, todo |-> got.todo \ {c}, c |-> c])
              ELSE Advance(r, "check", [members |-> got.members, todo |-> got.todo \ {c}])
    /\ UNCHANGED <<failures, ledgerVars, presenceVars>>

\* The id may have been set again since the lookup.
Purge(r) ==
    LET c == req[r].got.c IN
    /\ At(r, "ActiveUsers", "purge")
    /\ roomMembers' = roomMembers \ {c}
    /\ roomPresence' = roomPresence \ {c}
    /\ ephemeral' = ephemeral \ {c}
    /\ erased' = erased \cup ({c} \cap alive)
    /\ unjoined' = unjoined \ {c}
    /\ req' = Advance(r, "check", [members |-> req[r].got.members, todo |-> req[r].got.todo])
    /\ UNCHANGED <<failures, ledgerVars, alive, joined, lately, given, connected>>

\* The error of the MULTI is ignored, and the snapshot leaves the id out.
PurgeFails(r) ==
    LET got == req[r].got IN
    /\ At(r, "ActiveUsers", "purge") /\ failures < MaxFailures
    /\ req' = Advance(r, "check", [members |-> got.members, todo |-> got.todo])
    /\ failures' = failures + 1
    /\ UNCHANGED <<ledgerVars, presenceVars>>

SnapshotDone(r) == At(r, "ActiveUsers", "check") /\ req[r].got.todo = {}

ActiveUsers(r) ==
    /\ SnapshotDone(r)
    /\ req' = Finished(r)
    /\ UNCHANGED <<failures, ledgerVars, presenceVars>>

PresenceNext ==
    \/ \E c \in Ids : JoinMember(c) \/ LeaveMember(c) \/ SetPresence(c) \/ ExpirePresence(c)
    \/ \E r \in Requests :
        \/ handleActiveUsers(r) \/ ReadRoom(r) \/ Purge(r) \/ PurgeFails(r) \/ ActiveUsers(r)
        \/ \E c \in Ids : handlePresence(r, c) \/ CheckAlive(r, c)
        \/ SetPresenceOfRequest(r) \/ PublishOfRequest(r)
        \/ LedgerStep(r) /\ UNCHANGED presenceVars
        \/ ChangeCallFails(r, {"started", "publish", "check"}) /\ UNCHANGED presenceVars

\* Some ids were given a presence before.
PresenceSpec ==
    /\ RequestInit /\ LedgerInit
    /\ \E old \in SUBSET Ids : PresenceInit(old)
    /\ [][PresenceNext]_<<requestVars, ledgerVars, presenceVars>>

-----------------------------------------------------------------------------
\* What a leave, the end of a connection or a snapshot after the expiry will
\* find and remove: every member, and every presence but those that a
\* connection set in the room without having joined it. Such a presence stays
\* in the hash for ever, unless its connection joins the room later.
PresenceReachable ==
    /\ roomMembers \subseteq joined \cup ephemeral
    /\ roomPresence \subseteq joined \cup ephemeral \cup unjoined

\* A presence whose time has not ended is in the room, and a joined connection
\* is a member, whatever snapshots remove meanwhile. Left out are an id that a
\* snapshot found expired and removed after it had been set again, and an id
\* used both by a connection and the admin API.
PresenceKept ==
    /\ alive \ (erased \cup Doubled) \subseteq roomMembers \cap roomPresence
    /\ joined \ Doubled \subseteq roomMembers

\* A snapshot shows no ephemeral presence that had expired when it was asked
\* for, although it reads the members before it looks up who is alive.
SnapshotsFresh ==
    \A r \in Requests : SnapshotDone(r) =>
        \A c \in req[r].got.members : c \in connected \cup lately[r]

\* Presence set through the admin API is in the room while it lives, and
\* SnapshotRoom, which removes the expired, neither shows it later nor leaves
\* anything behind that no later snapshot would find, whatever connections set
\* under the same ids; what they set without joining is the one thing left.
PresenceExact == PresenceReachable /\ PresenceKept /\ SnapshotsFresh
=============================================================================
