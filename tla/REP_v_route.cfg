SPECIFICATION Spec
CONSTANTS
    Node = {n1, n2}
    n1 = n1
    n2 = n2
    Leader = n1
    Conn = {c1, c2}
    c1 = c1
    c2 = c2
    MinIsr = 2
    MaxLag = 0
    Cap = 2
    MaxRecords = 2
    MaxRequests = 2
    MaxWire = 1
    MaxReports = 1
    MaxFaults = 1
INVARIANTS
    RepliesAccounted
