CONSTANTS
  w1 = w1 w2 = w2 c1 = c1 l1 = l1 l2 = l2
  None = None
  Workers <- TwoWorkers
  Keys <- PairKeys
  Central = {c1}
  Local = {l1}
  Near <- PairNear
  Uncatalogued = {}
  Times = {1, 2}
  Values = {1, 2}
  Snapshots <- PairSnapshots
  MaxGen = 3
SPECIFICATION Spec
SYMMETRY Symmetry
CHECK_DEADLOCK FALSE
PROPERTIES ConflictDeletesNothing
