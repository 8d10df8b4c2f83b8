SPECIFICATION Spec
CONSTANTS
  Sessions = {s1, s2}
  Kinds = {"delayed"}
  MaxInFlight = 2
  MaxDeliver = 2
  MaxRuns = 4
  NumTargets = 1
  Exchange = FALSE
  ExpiredToExchange = FALSE
  Broadcast = FALSE
  Throttle = FALSE
  SinkFails = FALSE
  CheckpointInterval = 1
  FlushRedeliveries = 1
  MaxLen = 2
  MaxGen = 4
  MaxCrashes = 1
  MaxReaps = 0
  MaxHoles = 0
SYMMETRY Symmetry
INVARIANTS TypeOK OnlyLatestHolderSettles DeliveryBudget InFlightWithinWindow
PROPERTIES DurableCountNeverRegresses
