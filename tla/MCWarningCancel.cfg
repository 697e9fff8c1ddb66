CONSTANTS
  w1 = w1 w2 = w2 cwa = cwa ncdr = ncdr a1 = a1 b1 = b1 u1 = u1 c1 = c1
  None = None
  Workers <- TwoWorkers
  Adapters = {cwa, ncdr}
  Snapshot = {ncdr}
  Alerts = {a1}
  Updates = {u1}
  Cancels = {c1}
  Refs <- RefersToA1
  Unmapped = {}
  Expiring = {}
  Feeds <- CancelFeeds
  MaxGen = 3
  Failing = {1, 2, 3}
SPECIFICATION Spec
SYMMETRY Symmetry
CHECK_DEADLOCK FALSE
INVARIANTS CancelledStaysGone NewerEmptyWins
