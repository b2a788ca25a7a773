\* Two writers of one node with one of another or the admin service, under
\* fair scheduling; a mutation is sent twice and one publish fails, or one
\* socket is closed.
CONSTANTS
    c1 = c1
    c2 = c2
    c3 = c3
    n1 = n1
    n2 = n2
    a = a
    b = b
    p = p
    d = d
    Admin = Admin
    NoDoc = NoDoc
    NoSequence = NoSequence
    Nodes = {n1, n2}
    Conns = {c1, c2, c3}
    NodeOf <- MCNodeOf
    Ops = {a, b, p, d}
    Kind <- MCKind
    Writer <- MCWriter
    Cas = {b}
    MaxSends = 2
    MaxClosures = 1
    MaxFailures = 1
SPECIFICATION MCFairSpec
INVARIANT AcksMatchCommits ClientsReachLatest
PROPERTY StorageIsRegister RequestsAnswered
CHECK_DEADLOCK FALSE
