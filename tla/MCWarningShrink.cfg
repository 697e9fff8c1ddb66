CONSTANTS
  w1 = w1 w2 = w2 cwa = cwa ncdr = ncdr a1 = a1 b1 = b1 u1 = u1 c1 = c1
  None = None
  Workers = {w1}
  Adapters = {ncdr}
  Snapshot = {ncdr}
  Alerts = {a1, b1}
  Updates = {}
  Cancels = {}
  Refs <- RefersToA1
  Unmapped = {}
  Expiring = {}
  Feeds <- ShrinkingFeeds
  MaxGen = 3
  Failing = {}
SPECIFICATION Spec
CHECK_DEADLOCK FALSE
PROPERTIES SnapshotShown
