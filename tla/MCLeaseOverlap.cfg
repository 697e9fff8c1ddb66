CONSTANTS
  a = a b = b c = c None = None
  Instances = {a, b}
  Once = {}
  Manual = {}
  TTL = 4
  Outages = TRUE
SPECIFICATION Spec
CHECK_DEADLOCK FALSE
INVARIANTS OneIngests
