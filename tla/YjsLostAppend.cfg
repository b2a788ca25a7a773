\* A compaction between the two round trips of an append.
CONSTANTS
    c1 = c1
    c2 = c2
    c3 = c3
    c4 = c4
    n1 = n1
    n2 = n2
    Nodes = {n1, n2}
    NodeOf <- MCNodeOf
    Clients = {c1, c2}
    Edits = {e1, e2}
    Subdocs = {}
    Compactors = {k1}
    MinUpdates = 1
    RoomConnections = 0
    MaxEdits = 2
    MaxConnects = 2
    MaxFailures = 0
SPECIFICATION Spec
INVARIANT UpdatesAreDurable
CHECK_DEADLOCK FALSE
