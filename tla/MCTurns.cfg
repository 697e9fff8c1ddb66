CONSTANTS
  a = a b = b None = None
  Instances = {a, b}
  Once = {}
  Manual = {}
  TTL = 4
  Outages = FALSE
  c1 = c1 c2 = c2 NoJob = NoJob
  Consumers = {c1, c2}
  InstanceName <- OwnNames
  JobIds = {1, 2}
  DedupeKeys = {"rain"}
  MaxAttempts = 2
  MaxClaims = 3
  NoIndexName = NoIndexName
  IndexOrder <- TwoIndexes
  IndexSkipped = {}
  IndexStuck = {"evidence_source_idx"}
  DayHours = 5
  WindowHours = 3
  ReindexEvery = 6
  MaxPerWindow = 1
  StatementHours = 1
  MinRemaining = 1
  MaxEvents = 4
SPECIFICATION TurnsSpec
CHECK_DEADLOCK FALSE
INVARIANTS OneIngests OneActivePerKey QuietAfterWindow ShownIsAsked
PROPERTIES
  StandbyTakesOver
   LostJobIsRetried
  RebuiltOncePerInterval EveryIndexRebuilt CorpsesGo BusyEnds
