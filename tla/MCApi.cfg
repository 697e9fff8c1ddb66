CONSTANTS
  s1 = s1 s2 = s2 m1 = m1 m2 = m2
  Replicas = {"r1", "r2"}
  Requests = 4
  Quota = 2
  Span = 4
  MaxLag = 1
  LastInstant = 5
  Redis = "redis"
  Skew <- MCSkew
  Reports = {"u"}
  Moderators = {m1, m2}
  MaxDecisions = 3
  NoReport = "no"
  NoModerator = "nobody"
  Servers = {s1, s2}
  Places = {"p1"}
  Queries = 3
  Ttl = 2
  Cooldown = 2
  MemoryEntries = 1
  MaxWork = 1
  LastMoment = 3
  Signals <- MCSignals
  Stations = {"st1", "st2"}
  Remote = {"st2"}
  Delayed = 0
  Stopped = 1
  Fresh = 1
  Active = 3
  AgeCap = 4
  FetchErrors = {"upstream"}
  OwnErrors = {"database"}
  Containers = {"old", "new", "branch"}
  MigrationFiles = {"f1", "f2", "g2", "f3"}
  Manifest <- Released
  OwnCommit = {"f3"}
  NoFile = NoFile
  NoContainer = NoContainer
  MaxStarts = 4
SPECIFICATION Spec
SYMMETRY ApiSymmetry
CHECK_DEADLOCK FALSE
INVARIANTS
  QuotaKept AuditExplainsRow HitsAreYoung
  FaultShows DiagnosesAgree AbsenceIsReal LowIsLocal
  AppliedWhenRecorded ReadyMeansMigrated
PROPERTIES RetryHonoured GarbageNeverLowers DensityIsNotRisk
