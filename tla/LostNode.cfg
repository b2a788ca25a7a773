\* A connection of a node that crashes, beside a node that does not.
CONSTANTS
    n1 = n1
    n2 = n2
    Nodes = {n1, n2}
    Conns = {c1}
    Rooms = {r1}
    NodeOf <- MCNodeOf
    MaxCrashes = 1
    MaxFailures = 0
    MaxJoins = 1
SPECIFICATION FairLeaseSpec
PROPERTY StaleMembersClear
CHECK_DEADLOCK FALSE
