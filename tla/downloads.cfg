SPECIFICATION DownloadSpec
CONSTANTS
  Tokens = {k1}
  Paths = {p1}
  Viewers = {v1}
  Hours = {0}
  Limits = {0}
  MaxTime = 0
  MaxViews = 1
  MaxFailed = 0
  Folders = {}
  Sizes = {0, 2}
  Requests = {r1, r2}
  TaskIds = {t1, t2}
  Ranges <- NoRanges
  Actors = {"user", "page", "list", "stop"}
  Impatient = FALSE
  MaxEvents = 1
  None = None
SYMMETRY Symmetric
INVARIANTS DownloadTypeOK SavedIsWhole OneDownloadTask
CHECK_DEADLOCK FALSE
