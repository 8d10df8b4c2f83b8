SPECIFICATION Spec
CONSTANTS
  Offsets = {0, 1}
  Visibility = 2
  HardCap = 3
  Delays = {0, 2}
  Windows = {1, 3}
  MaxTime = 8
INVARIANTS TypeOK HardCapHolds
PROPERTIES PauseStopsTheClock
