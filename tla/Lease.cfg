\* Two connections of a node that crashes once and may come back; one
\* Redis call fails.
CONSTANTS
    n1 = n1
    n2 = n2
    Nodes = {n1}
    Conns = {c1, c2}
    Rooms = {r1}
    NodeOf <- MCNodeOf
    MaxCrashes = 1
    MaxFailures = 1
    MaxJoins = 2
SPECIFICATION FairLeaseSpec
INVARIANT LiveKeepsMembership MembersAreReachable
PROPERTY EventuallyForgotten
CHECK_DEADLOCK FALSE
