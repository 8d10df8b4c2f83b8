SPECIFICATION Spec
CONSTANTS
  MaxOffset = 4
  MaxRuns = 1
  SlotRuns = 1
  CutAfterKill = FALSE
  MaxSeq = 3
  MaxFaults = 2
INVARIANTS ShapeOK CrashSafe
PROPERTIES ImplementsAckSet CapBoundsRuns
