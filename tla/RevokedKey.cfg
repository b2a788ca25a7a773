\* Two verifications of a key and a revocation.
CONSTANTS
    room = room
    tenant = tenant
    project = project
    key = key
    Earlier = Earlier
    Requests = {r1, r2, r3}
    MaxFailures = 0
    Products = {tenant, project, key}
    KindOf <- MCKindOf
    ParentOf <- MCParentOf
    ProductFields = {"name"}
    Metrics = {"rooms"}
    RoomMetric = "rooms"
SPECIFICATION ProductSpec
INVARIANT RevokedRejected
CHECK_DEADLOCK FALSE
