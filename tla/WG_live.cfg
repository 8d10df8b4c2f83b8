SPECIFICATION FairSpec
CONSTANTS
  Sessions = {s1}
  Kinds = {"plain"}
  MaxInFlight = 2
  MaxDeliver = 1
  MaxRuns = 4
  NumTargets = 1
  Exchange = FALSE
  ExpiredToExchange = FALSE
  Broadcast = FALSE
  Throttle = FALSE
  SinkFails = FALSE
  CheckpointInterval = 1
  FlushRedeliveries = 1
  MaxLen = 2
  MaxGen = 6
  MaxCrashes = 1
  MaxReaps = 1
  MaxHoles = 1
PROPERTIES EventuallyDone
