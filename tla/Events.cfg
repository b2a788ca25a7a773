\* Two devices of a user on two nodes, events of one of them and of the admin
\* service, a storage update and a log of two entries; lists of up to four
\* items that change twice during a walk; three clients of one engine, every
\* mutation sent at most twice, two sockets that fail; patches of two
\* operations.
CONSTANTS
    c1 = c1
    c2 = c2
    n1 = n1
    n2 = n2
    u1 = u1
    e1 = e1
    e2 = e2
    Admin = Admin
    Storage = Storage
    Clients = {c1, c2}
    Nodes = {n1, n2}
    NodeOf <- MCNodeOf
    Users = {u1}
    UserOf <- MCUserOf
    Events = {e1, e2}
    Emitter <- MCEmitter
    MaxLog = 2
    MaxReplay = 1
    MaxAttempts = 2
    MaxJoins = 3
    MaxFailures = 1
    MaxUpdates = 1
    Items = {1, 2, 3, 4, 5}
    Matching = {1, 2, 3, 5}
    BatchOf <- MCBatchOf
    MaxChanges = 2
    Ops = {"a", "b", "p", "q"}
    Kind <- MCKind
    OpID <- MCOpID
    Origin <- MCOrigin
    Cautious = {"b", "p"}
    MaxTries = 2
    MaxClosures = 2
    Members = {"m1", "m2", "m3"}
    NoDoc = NoDoc
    NoSequence = NoSequence
    BaseDocuments <- MCDocuments
    Pointers <- MCPointers
    PatchValues <- MCValues
    MaxOperations = 2
SPECIFICATION MCSpec
INVARIANT ReplayMeetsLive AcksReachRedis MemoryAnswers OptimisticAgrees UndoRestores PagesCover
PROPERTY DurableCursorMonotone MemoryIsRegister
CHECK_DEADLOCK FALSE
