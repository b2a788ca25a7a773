--------------------------- MODULE ProductRecords ----------------------------
(***************************************************************************)
(* Rooms, tenants, projects and API keys: the admin API's handlers         *)
(* (server/internal/admin/service.go, product.go) over the Redis store     *)
(* (server/internal/cluster/redis.go, product.go). Creates and updates are *)
(* WATCH transactions, an update reads the record and writes it back whole.*)
(* Using an API key writes its record back, too, with no transaction.      *)
(* A field's value is the request that wrote it. Tenants, projects and     *)
(* keys are never deleted. Webhooks of rooms are WebhookDelivery's.        *)
(***************************************************************************)
EXTENDS UsageLedger

CONSTANTS
    Products, KindOf,   \* record ids, and "room", "tenant", "project" or "key"
    ParentOf,           \* ParentOf[k]: {}, or {the tenant or project of k}
    ProductFields,      \* name and metadata, or metadata and accesses
    RoomMetric          \* the metrics of rooms created and deleted

ASSUME ProductAssumption ==
    /\ KindOf \in [Products -> {"room", "tenant", "project", "key"}]
    /\ ParentOf \in [Products -> SUBSET Products]
    /\ \A k \in Products : ParentOf[k] # {} =>
            \E p \in Products :
                /\ ParentOf[k] = {p}
                /\ <<KindOf[k], KindOf[p]>> \in {<<"project", "tenant">>, <<"key", "project">>}
    /\ RoomMetric \in Metrics

VARIABLES
    product,    \* product[k]: [fields, revoked], or NoProduct
    listed,     \* ids in the tenant, project and key indexes
    racing,     \* history: racing[k], verifications under way when k was revoked
    revocation  \* history: what became of the last revocation of k

productVars == <<product, listed, racing, revocation>>

\* A revocation that is committed may be undone by a verification.
Revocations == {"none", "committed", "undone"}

NoProduct == [revoked |-> FALSE]
NewProduct(w) == [fields |-> [f \in ProductFields |-> w], revoked |-> FALSE]
IsStored(k) == product[k] # NoProduct
Indexed == {k \in Products : KindOf[k] # "room"}

ProductInit(old) ==
    /\ product = [k \in Products |-> IF k \in old THEN NewProduct(Earlier) ELSE NoProduct]
    /\ listed = old \cap Indexed
    /\ racing = [k \in Products |-> {}]
    /\ revocation = [k \in Products |-> "none"]

-----------------------------------------------------------------------------
(* Handlers.                                                               *)

handleCreateRoom(r, k) == KindOf[k] = "room" /\ Start(r, "Create", [k |-> k])

handleUpdateRoom(r, k, fs) ==
    KindOf[k] = "room" /\ Start(r, "Update", [k |-> k, fs |-> fs])

handleDeleteRoom(r, k) == KindOf[k] = "room" /\ Start(r, "DeleteRoom", [k |-> k])

handleCreateTenant(r, k) == KindOf[k] = "tenant" /\ Start(r, "Create", [k |-> k])

handleUpdateTenant(r, k, fs) ==
    KindOf[k] = "tenant" /\ Start(r, "Update", [k |-> k, fs |-> fs])

handleCreateProject(r, k) == KindOf[k] = "project" /\ Start(r, "Create", [k |-> k])

handleUpdateProject(r, k, fs) ==
    KindOf[k] = "project" /\ Start(r, "Update", [k |-> k, fs |-> fs])

\* Key ids are random: no two requests draw the same.
handleCreateAPIKey(r, k) ==
    /\ KindOf[k] = "key" /\ ~IsStored(k)
    /\ \A q \in {q \in Requests : req[q].op = "Create" /\ req[q].stage # "done"} :
            req[q].arg.k # k
    /\ Start(r, "Create", [k |-> k])

handleAPIKeyAction(r, k) == KindOf[k] = "key" /\ Start(r, "Revoke", [k |-> k])

\* A request of any API presents the key.
authenticateAPIKey(r, k) == KindOf[k] = "key" /\ Start(r, "Verify", [k |-> k])

ProductRequest(r) ==
    \E k \in Products :
        \/ handleCreateRoom(r, k) \/ handleDeleteRoom(r, k)
        \/ handleCreateTenant(r, k) \/ handleCreateProject(r, k)
        \/ handleCreateAPIKey(r, k) \/ handleAPIKeyAction(r, k) \/ authenticateAPIKey(r, k)
        \/ \E fs \in SUBSET ProductFields :
            \/ handleUpdateRoom(r, k, fs)
            \/ handleUpdateTenant(r, k, fs) \/ handleUpdateProject(r, k, fs)

-----------------------------------------------------------------------------
(* The store.                                                              *)

\* Faulty variant: an update watches nothing.
WatchOnCreate(r) ==
    IF req[r].op = "Update" THEN {} ELSE {req[r].arg.k} \cup ParentOf[req[r].arg.k]

WatchedRecords(r) ==
    IF req[r].op = "Create" THEN {req[r].arg.k} \cup ParentOf[req[r].arg.k]
    ELSE {req[r].arg.k}

\* Faulty variant: only a conflict is refused.
CreateRefusedOnConflict(k) ==
    Cardinality({x \in {k} \cup ParentOf[k] : IsStored(x)}) = 1 + Cardinality(ParentOf[k])

\* EXISTS counts the parent's key and the record's own. None: the parent is
\* not found. All: the record exists already.
CreateRefused(k) ==
    LET n == Cardinality({x \in {k} \cup ParentOf[k] : IsStored(x)}) IN
    \/ ParentOf[k] # {} /\ n = 0
    \/ n = 1 + Cardinality(ParentOf[k])

WatchProduct(r) ==
    LET k == req[r].arg.k IN
    /\ \/ req[r].op \in {"Create", "Update"} /\ req[r].stage = "started"
       \/ At(r, "Revoke", "loaded")
    /\ req' = IF (IF req[r].op = "Create" THEN CreateRefused(k) ELSE ~IsStored(k))
              THEN Finished(r)
              ELSE Watching(r, WatchedRecords(r), product[k])
    /\ UNCHANGED <<failures, ledgerVars, productVars>>

\* The create of a record of the kind, in one MULTI with its index.
Create(r, kind, next) ==
    LET k == req[r].arg.k IN
    /\ CanExec(r, "Create") /\ KindOf[k] = kind
    /\ product' = [product EXCEPT ![k] = NewProduct(r)]
    /\ listed' = listed \cup ({k} \cap Indexed)
    /\ req' = Written(next, {k})
    /\ Owes(r)
    /\ UNCHANGED <<failures, racing, revocation>>

CreateRoom(r) == Create(r, "room", Metered(r, RoomMetric))

CreateTenant(r) == Create(r, "tenant", Audited(r))

CreateProject(r) == Create(r, "project", Audited(r))

\* Also SETs the key's prefix to its id.
CreateAPIKey(r) == Create(r, "key", Audited(r))

\* The record as it was read, with the fields of the update, is written back.
Update(r, kind) ==
    LET k == req[r].arg.k IN
    /\ CanExec(r, "Update") /\ KindOf[k] = kind
    /\ product' = [product EXCEPT ![k] =
            [fields |-> [f \in ProductFields |->
                            IF f \in req[r].arg.fs THEN r ELSE req[r].got.fields[f]],
             revoked |-> req[r].got.revoked]]
    /\ req' = Written(Audited(r), {k})
    /\ Owes(r)
    /\ UNCHANGED <<failures, listed, racing, revocation>>

UpdateRoom(r) == Update(r, "room")

UpdateTenant(r) == Update(r, "tenant")

UpdateProject(r) == Update(r, "project")

DeleteRoom(r) ==
    LET k == req[r].arg.k IN
    /\ At(r, "DeleteRoom", "started")
    /\ \/ /\ ~IsStored(k)   \* ErrRoomNotFound
          /\ req' = Finished(r)
          /\ UNCHANGED <<product, ledgerVars>>
       \/ /\ IsStored(k)
          /\ product' = [product EXCEPT ![k] = NoProduct]
          /\ req' = Written(Metered(r, RoomMetric), {k})
          /\ Owes(r)
    /\ UNCHANGED <<failures, listed, racing, revocation>>

AcceptsKey(k) == IsStored(k) /\ ~product[k].revoked

\* GetAPIKey in front of a revoke, and the lookup of a verification.
loadAPIKeyRecord(r) ==
    LET k == req[r].arg.k IN
    /\ req[r].op \in {"Verify", "Revoke"} /\ req[r].stage = "started"
    /\ req' = CASE req[r].op = "Revoke" /\ IsStored(k) -> Advance(r, "loaded", Nothing)
                [] req[r].op = "Verify" /\ AcceptsKey(k) -> Advance(r, "touch", product[k])
                [] OTHER -> Finished(r)
    /\ UNCHANGED <<failures, ledgerVars, productVars>>

\* The verifications that have accepted k and not yet written it back.
Accepting(k) == {r \in Requests : At(r, "Verify", "touch") /\ req[r].arg.k = k}

\* The accepted key's record is written back as it was read, with the time
\* of its use. A revocation since then is undone: the key is in use again.
VerifyAPIKey(r) ==
    LET k == req[r].arg.k IN
    /\ At(r, "Verify", "touch")
    /\ product' = [product EXCEPT ![k] = req[r].got]
    /\ req' = Written(Finished(r), {k})
    /\ racing' = [racing EXCEPT ![k] = @ \ {r}]
    /\ revocation' = [revocation EXCEPT ![k] = IF r \in racing[k] THEN "undone" ELSE @]
    /\ UNCHANGED <<failures, listed, ledgerVars>>

RevokeAPIKey(r) ==
    LET k == req[r].arg.k IN
    /\ CanExec(r, "Revoke")
    /\ product' = [product EXCEPT ![k] = [fields |-> req[r].got.fields, revoked |-> TRUE]]
    /\ revocation' = [revocation EXCEPT ![k] = "committed"]
    /\ racing' = [racing EXCEPT ![k] = Accepting(k)]
    /\ req' = Written(Audited(r), {k})
    /\ Owes(r)
    /\ UNCHANGED <<failures, listed>>

ProductStages == {"started", "loaded", "exec", "touch"}

ProductNext ==
    \E r \in Requests :
        \/ ProductRequest(r) /\ UNCHANGED <<ledgerVars, productVars>>
        \/ WatchProduct(r) \/ loadAPIKeyRecord(r)
        \/ CreateRoom(r) \/ CreateTenant(r) \/ CreateProject(r) \/ CreateAPIKey(r)
        \/ UpdateRoom(r) \/ UpdateTenant(r) \/ UpdateProject(r)
        \/ DeleteRoom(r) \/ VerifyAPIKey(r) \/ RevokeAPIKey(r)
        \/ LedgerStep(r) /\ UNCHANGED productVars
        \/ ChangeCallFails(r, ProductStages) /\ UNCHANGED productVars
        \/ ExecRefused(r) /\ UNCHANGED <<ledgerVars, productVars>>

\* Some records were made before, each after its parent.
ProductSpec ==
    /\ RequestInit /\ LedgerInit
    /\ \E old \in SUBSET Products :
        (\A k \in old : ParentOf[k] \subseteq old) /\ ProductInit(old)
    /\ [][ProductNext]_<<requestVars, ledgerVars, productVars>>

-----------------------------------------------------------------------------
(* Properties.                                                             *)

\* A committed revocation stays in force until a verification that had read
\* the key before it writes its copy back, and until then only such
\* verifications have accepted the key.
RevocationHolds(k) ==
    /\ product[k].revoked <=> revocation[k] = "committed"
    /\ product[k].revoked => Accepting(k) \subseteq racing[k]

\* The registry is whole: the indexes list exactly the records that exist, a
\* project's tenant and a key's project exist, and a revocation is undone by
\* nothing but a verification that raced with it.
RegistryWhole ==
    /\ listed = {k \in Indexed : IsStored(k)}
    /\ \A k \in Products : IsStored(k) => \A p \in ParentOf[k] : IsStored(p)
    /\ \A k \in Products : RevocationHolds(k)

\* The onboarding guide's promise: a key that was revoked is accepted by no
\* verification that starts after the revocation.
RevokedRejected ==
    \A k \in Products : revocation[k] # "none" => Accepting(k) \subseteq racing[k]

\* Concurrent updates of a record keep each other's fields, and an update
\* neither overwrites a record created again nor brings a deleted one back: a
\* record appears only by a create, and a field changes only by an update that
\* names it.
UpdatesKept ==
    [][\A k \in Products :
        /\ ~IsStored(k) /\ product'[k] # NoProduct =>
            \E r \in Requests : At(r, "Create", "exec") /\ req[r].arg.k = k
        /\ IsStored(k) /\ product'[k] # NoProduct => \A f \in ProductFields :
            LET w == product'[k].fields[f] IN
            w # product[k].fields[f] =>
                w \in Requests /\ At(w, "Update", "exec") /\ f \in req[w].arg.fs
      ]_<<requestVars, productVars>>
=============================================================================
