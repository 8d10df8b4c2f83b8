SPECIFICATION Spec
CONSTANTS
    Txns = {t1, t2}
    Plain = Plain
    MaxPrepared = 2
    MaxAttempts = 2
    Faults = {}
    MaxPlain = 1
    MaxMishaps = 2
INVARIANTS
    NoCommittedEmpty
