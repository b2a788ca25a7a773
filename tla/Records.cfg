\* Three concurrent requests about one kind of record, one failed call; two
\* sockets of a user and one of another; two connections and their sessions; a
\* delivery to two URLs with a request by hand and two retry workers, which
\* scan the newest delivery only; a presence set before.
CONSTANTS
    r1 = r1
    r2 = r2
    r3 = r3
    t1 = t1
    i1 = i1
    i2 = i2
    u1 = u1
    u2 = u2
    s1 = s1
    s2 = s2
    s3 = s3
    room = room
    tenant = tenant
    project = project
    key = key
    Earlier = Earlier
    Requests = {r1, r2, r3}
    MaxFailures = 1
    ThreadIDs = {t1}
    CommentIDs = {"c1"}
    Readers = {u1}
    HeaderFields = {"resolved"}
    CommentFields = {"body", "mentions"}
    MaxComments = 3
    Notifications = {i1, i2}
    Owners = {u1, u2}
    Sockets = {s1, s2, s3}
    Subject <- MCSubject
    Products = {room, tenant, project, key}
    KindOf <- MCKindOf
    ParentOf <- MCParentOf
    ProductFields = {"name", "metadata"}
    Metrics = {"rooms", "texts"}
    RoomMetric = "rooms"
    TextDocuments = {"d1"}
    TextMetric = "texts"
    c1 = c1
    c2 = c2
    Connections = {c1, c2}
    Scoped = {c2}
    SessionRooms = {"a"}
    MaxSequence = 2
    MaxOpens = 3
    w1 = w1
    w2 = w2
    Workers = {w1, w2}
    URLs = 2
    ScanLimit = 1
    ScanWindow = 1
    DeadAfter = 2
    MaxDispatches = 1
    MaxByHand = 1
    Ids = {"x", "y"}
    PresenceMetric = "rooms"
SPECIFICATION MCSpec
INVARIANT ThreadsWhole ReadStaysRead ChangesPublished InboxIndexed DeltasAgree RegistryWhole LedgerComplete TextsKept SessionsSound PresenceExact
PROPERTY FieldsSurvive UpdatesKept DeliveriesSound
SYMMETRY MCSymmetry
CHECK_DEADLOCK FALSE
