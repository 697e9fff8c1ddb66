CONSTANTS
  w1 = w1 w2 = w2 cwa = cwa ncdr = ncdr a1 = a1 b1 = b1 u1 = u1 c1 = c1
  None = None
  Workers <- TwoWorkers
  Adapters = {ncdr}
  Snapshot = {ncdr}
  Alerts = {a1, b1}
  Updates = {}
  Cancels = {}
  Refs <- RefersToA1
  Unmapped = {b1}
  Expiring = {a1}
  Feeds <- SnapshotFeeds
  MaxGen = 3
  Failing = {1, 2}
SPECIFICATION Spec
SYMMETRY Symmetry
CHECK_DEADLOCK FALSE
INVARIANTS OneCurrentEvidence RemovedHidden LatestIsCurrent
