----------------------------- MODULE MCProducts ------------------------------
(* Instances of ProductRecords: a room, a tenant, a project, a key.        *)
EXTENDS ProductRecords, TLC

CONSTANTS room, tenant, project, key

MCKindOf ==
    [k \in Products |-> CASE k = room    -> "room"
                          [] k = tenant  -> "tenant"
                          [] k = project -> "project"
                          [] k = key     -> "key"]
MCParentOf ==
    [k \in Products |-> CASE k = project /\ tenant \in Products -> {tenant}
                          [] k = key /\ project \in Products    -> {project}
                          [] OTHER -> {}]
=============================================================================
