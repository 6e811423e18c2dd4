SPECIFICATION RegistrySpec
CONSTANTS
  Tokens = {k1, k2, k3}
  Paths = {p1}
  Viewers = {v1, v2}
  Hours = {0, 1}
  Limits = {3}
  MaxTime = 2
  MaxViews = 4
  MaxFailed = 1
  None = None
CONSTRAINT OneLimited
SYMMETRY Symmetric
INVARIANTS RowsFollowMemory LimitHolds OneShareOfReceived
PROPERTY GoneStaysGone
CHECK_DEADLOCK FALSE
