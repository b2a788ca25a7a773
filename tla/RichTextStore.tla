---------------------------- MODULE RichTextStore ----------------------------
(***************************************************************************)
(* Rich-text documents and version snapshots of a room: the admin API's    *)
(* handlers (server/internal/admin/product.go) over the Redis store        *)
(* (server/internal/cluster/product.go). An upsert reads the record for    *)
(* its creation time, writes record and index in one MULTI that watches    *)
(* nothing, and then stores a version snapshot; an error of the last call  *)
(* is dropped. A version's id is random, or the one the client names, and  *)
(* storing a version replaces one with the same id.                        *)
(* A content, a creation time and a random id are the request they are of. *)
(***************************************************************************)
EXTENDS UsageLedger

CONSTANTS
    TextDocuments,      \* rich-text document ids
    TextMetric      \* the metrics of upserts and snapshots

ASSUME TextAssumption == TextMetric \in Metrics

VARIABLES
    document,   \* document[d]: [content, created], or NoDocument
    documents,  \* ids in the room's document index
    versions,   \* version snapshots: [doc, id, content]
    first,      \* history: first[d], upserts under way when d came to be
    lost,       \* history: upserts whose snapshot call failed
    replaced    \* history: contents whose version a client replaced

textVars == <<document, documents, versions, first, lost, replaced>>

NoDocument == [content |-> {}, created |-> {}]

TextInit ==
    /\ document = [d \in TextDocuments |-> NoDocument]
    /\ documents = {}
    /\ versions = {}
    /\ first = [d \in TextDocuments |-> {}]
    /\ lost = {} /\ replaced = {}

-----------------------------------------------------------------------------
handleUpsertRichTextDocument(r, d) == Start(r, "Upsert", [d |-> d])

\* The id is the client's, possibly one it has seen in a list of versions.
handleCreateVersionSnapshot(r, d, id) == Start(r, "Snapshot", [d |-> d, id |-> id])

TextRequest(r) ==
    \E d \in TextDocuments :
        \/ handleUpsertRichTextDocument(r, d)
        \/ \E id \in {r} \cup {v.id : v \in versions} : handleCreateVersionSnapshot(r, d, id)

CreatedOf(r) ==
    LET d == req[r].arg.d IN
    [created |-> IF document[d] = NoDocument THEN {r} ELSE document[d].created]

ReadDocument(r) ==
    /\ At(r, "Upsert", "started")
    /\ req' = Advance(r, "multi", CreatedOf(r))
    /\ UNCHANGED <<failures, ledgerVars, textVars>>

UpsertRichTextDocument(r) ==
    LET d == req[r].arg.d IN
    /\ At(r, "Upsert", "multi")
    /\ document' = [document EXCEPT ![d] = [content |-> {r}, created |-> req[r].got.created]]
    /\ documents' = documents \cup {d}
    /\ first' = IF document[d] # NoDocument THEN first
                ELSE [first EXCEPT ![d] =
                        {q \in Requests : At(q, "Upsert", "multi") /\ req[q].arg.d = d}]
    /\ req' = Advance(r, "version", Nothing)
    /\ Owes(r)
    /\ UNCHANGED <<failures, versions, lost, replaced>>

\* Faulty variant: the snapshot is of the document as it is by now.
SnapshotOfStored(r) == document[req[r].arg.d].content

SnapshotContent(r) == {r}

\* SET of a version under its id, and its place in the index.
Stored(d, id, content) ==
    LET old == {v \in versions : v.doc = d /\ v.id = id} IN
    /\ versions' = (versions \ old) \cup {[doc |-> d, id |-> id, content |-> content]}
    /\ replaced' = replaced \cup UNION {v.content : v \in old}

CreateVersionSnapshot(r) ==
    LET d == req[r].arg.d IN
    /\ \/ At(r, "Upsert", "version") /\ Stored(d, r, SnapshotContent(r)) /\ UNCHANGED ledgerVars
       \/ At(r, "Snapshot", "started") /\ Stored(d, req[r].arg.id, {r}) /\ Owes(r)
    /\ req' = Metered(r, TextMetric)
    /\ UNCHANGED <<failures, document, documents, first, lost>>

\* The handler of an upsert drops the error of the snapshot.
SnapshotCallFails(r) ==
    /\ At(r, "Upsert", "version")
    /\ failures < MaxFailures
    /\ failures' = failures + 1
    /\ lost' = lost \cup {r}
    /\ req' = Metered(r, TextMetric)
    /\ UNCHANGED <<ledgerVars, document, documents, versions, first, replaced>>

TextNext ==
    \E r \in Requests :
        \/ TextRequest(r) /\ UNCHANGED <<ledgerVars, textVars>>
        \/ ReadDocument(r) \/ UpsertRichTextDocument(r) \/ CreateVersionSnapshot(r)
        \/ SnapshotCallFails(r)
        \/ LedgerStep(r) /\ UNCHANGED textVars
        \/ ChangeCallFails(r, {"started", "multi"}) /\ UNCHANGED textVars

TextSpec ==
    /\ RequestInit /\ LedgerInit /\ TextInit
    /\ [][TextNext]_<<requestVars, ledgerVars, textVars>>

-----------------------------------------------------------------------------
\* Every content a document was given is kept as a version once the upsert has
\* been answered, however upserts interleave, unless the snapshot call failed
\* or a client stored another version under the same id; and what is listed is
\* what exists.
ContentsVersioned ==
    /\ documents = {d \in TextDocuments : document[d] # NoDocument}
    /\ \A r \in {r \in owed : req[r].op \in {"Upsert", "Snapshot"}} :
        \/ r \in lost \cup replaced
        \/ At(r, "Upsert", "version")
        \/ \E v \in versions : v.content = {r}

\* A document keeps the creation time of its first upsert; where several of
\* them overlapped, that of one of these.
CreatedKept ==
    \A d \in TextDocuments : document[d].created \subseteq first[d]

\* However upserts of a document overlap, handleRichTextDocument keeps every
\* content in its history and the time the document was created.
TextsKept == ContentsVersioned /\ CreatedKept
=============================================================================
