SPECIFICATION Spec
CONSTANTS
  c1 = c1
  c2 = c2
  s1 = s1
  None = None
  Caller = {c1, c2}
  Stream = {s1}
  MaxPairs = 3
  MaxCalls = 3
  MaxDrops = 2
CHECK_DEADLOCK FALSE
PROPERTY
  RefreshIsAttempted
