SPECIFICATION Spec
CONSTANTS
    Node = {n1, n2, n3}
    n1 = n1
    n2 = n2
    n3 = n3
    Leader = n1
    Conn = {c1}
    c1 = c1
    MinIsr = 2
    MaxLag = 0
    Cap = 1
    MaxRecords = 2
    MaxRequests = 1
    MaxWire = 1
    MaxReports = 1
    MaxFaults = 1
INVARIANTS
    AckImpliesQuorumFsync
