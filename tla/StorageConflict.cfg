\* Two commits recorded in the engine in the other order.
CONSTANTS
    c1 = c1
    c2 = c2
    c3 = c3
    n1 = n1
    n2 = n2
    a = a
    b = b
    p = p
    d = d
    Admin = Admin
    NoDoc = NoDoc
    NoSequence = NoSequence
    Nodes = {n1, n2}
    Conns = {c1, c2}
    NodeOf <- MCNodeOf
    Ops = {a, p}
    Kind <- MCKind
    Writer <- MCWriter
    Cas = {}
    MaxSends = 1
    MaxClosures = 0
    MaxFailures = 0
SPECIFICATION MCSpec
INVARIANT ConflictMeansUnchanged
CHECK_DEADLOCK FALSE
