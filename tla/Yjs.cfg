\* Three clients compete for two slots of a node, one writes on another; any
\* two edits, of the document or a subdocument; a compactor, one failure.
CONSTANTS
    c1 = c1
    c2 = c2
    c3 = c3
    c4 = c4
    n1 = n1
    n2 = n2
    Nodes = {n1, n2}
    NodeOf <- MCNodeOf
    Clients = {c1, c2, c3, c4}
    Edits = {e1, e2, e3}
    Subdocs = {e3}
    Compactors = {k1}
    MinUpdates = 1
    RoomConnections = 2
    MaxEdits = 2
    MaxConnects = 3
    MaxFailures = 1
SPECIFICATION Spec
INVARIANT StoredSurvives SlotsMatchSockets OpenClientsComplete
SYMMETRY MCSymmetry
CHECK_DEADLOCK FALSE
