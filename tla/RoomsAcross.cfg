\* Two connections on two nodes under fair scheduling; one Redis call fails
\* and one queue overflows.
CONSTANTS
    c1 = c1
    c2 = c2
    c3 = c3
    c4 = c4
    n1 = n1
    n2 = n2
    Nodes = {n1, n2}
    Conns = {c1, c3}
    Rooms = {r1}
    NodeOf <- MCNodeOf
    Payloads = {p1}
    NoPayload = NoPayload
    RoomsPerConnection = 0
    RoomConnections = 0
    MaxSequence = 0
    MaxOps = 3
    MaxFailures = 1
    MaxOverflows = 1
SPECIFICATION MCFairSpec
INVARIANT ViewsConverge StoreMatchesEngine
PROPERTY DisconnectCompletes
CHECK_DEADLOCK FALSE
