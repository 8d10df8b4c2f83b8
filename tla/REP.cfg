SPECIFICATION FairSpec
CONSTANTS
    Node = {n1, n2}
    n1 = n1
    n2 = n2
    Leader = n1
    Conn = {c1}
    c1 = c1
    MinIsr = 2
    MaxLag = 1
    Cap = 1
    MaxRecords = 3
    MaxRequests = 2
    MaxWire = 2
    MaxReports = 1
    MaxFaults = 1
INVARIANTS
    TypeOK
    NoFalseAck
    CommitIsHeld
    FollowerIsPrefix
PROPERTIES
    FollowerNeverShrinks
    ParkedAcksLeave
    FollowersCatchUp
