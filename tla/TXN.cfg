SPECIFICATION FairSpec
CONSTANTS
    Txns = {t1, t2}
    Plain = Plain
    MaxPrepared = 2
    MaxAttempts = 3
    Faults = {"half", "checkpoint", "barrier", "marker", "back"}
    MaxPlain = 2
    MaxMishaps = 1
INVARIANTS
    AtMostOnce
    NoCommittedEmpty
    OutcomeNeverFlips
    BackChecksBounded
    TypeOK
PROPERTIES
    Settled
