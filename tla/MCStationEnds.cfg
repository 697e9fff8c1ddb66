CONSTANTS
  w1 = w1 w2 = w2 c1 = c1 l1 = l1 l2 = l2
  None = None
  Workers <- TwoWorkers
  Keys <- EndsKeys
  Central = {c1}
  Local = {l1, l2}
  Near <- PairNear
  Uncatalogued = {l2}
  Times = {1, 2}
  Values = {1, 2}
  Snapshots <- FrozenSnapshots
  MaxGen = 2
SPECIFICATION FairSpec
CHECK_DEADLOCK FALSE
INVARIANTS ProcessedIsTerminal LatestBacked
PROPERTIES CycleEnds
