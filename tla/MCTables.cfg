CONSTANTS
  a = a b = b c = c None = None
  Instances = {a, b, c}
  Once = {b}
  Manual = {c}
  TTL = 4
  Outages = TRUE
  NoMark = NoMark
  StagedRows = {1, 2}
  PrunableRows = {1, 2}
  RealtimeRows = {1, 2}
  LastTime = 3
  EvidenceAge = 1
  RawAge = 1
  StagingAge = 1
  EvidenceBatch = 1
  StagingBatch = 1
  MaxBatches = 2
  Probes = 2
  SureProbes = 1
  MinWindow = 1
  Window = 2
  MaxWindow = 4
  MaxRestarts = 1
  MaxCycles = 3
  MaxOverlap = 2
SPECIFICATION TablesSpec
CHECK_DEADLOCK FALSE
 
PROPERTIES LeaseNotStolen SweptClean AgedRowsGo QueriesExpire SnapshotForward
