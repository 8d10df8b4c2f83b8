SPECIFICATION Spec
CONSTANTS
  Sessions = {s1}
  Kinds = {"other", "ttl"}
  MaxInFlight = 2
  MaxDeliver = 1
  MaxRuns = 0
  NumTargets = 2
  Exchange = TRUE
  ExpiredToExchange = TRUE
  Broadcast = TRUE
  Throttle = TRUE
  SinkFails = TRUE
  CheckpointInterval = 1
  FlushRedeliveries = 1
  MaxLen = 2
  MaxGen = 2
  MaxCrashes = 2
  MaxReaps = 0
  MaxHoles = 0
INVARIANTS NoSilentSkip OneCopyPerTarget InFlightWithinWindow
