\* The engine alone: two connections join two of three rooms and leave them,
\* with plans of both outstanding at once; or three connections compete for
\* rooms that take two. Or the handlers of two connections of the node and one
\* full queue.
CONSTANTS
    c1 = c1
    c2 = c2
    c3 = c3
    c4 = c4
    n1 = n1
    n2 = n2
    Nodes = {n1}
    Conns = {c1, c2, c4}
    Rooms = {r1, r2, r3}
    NodeOf <- MCNodeOf
    Payloads = {p1}
    NoPayload = NoPayload
    RoomsPerConnection = 2
    RoomConnections = 2
    MaxSequence = 2
    MaxOps = 4
    MaxFailures = 0
    MaxOverflows = 1
SPECIFICATION MCSpec
SYMMETRY MCSymmetry
INVARIANT MembershipMirror LimitsRespected ClosedLeavesNoTrace ViewsConverge
PROPERTY AckCursorMonotone LeavingErasesPresence
CHECK_DEADLOCK FALSE
