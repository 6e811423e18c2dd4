SPECIFICATION DownloadSpec
CONSTANTS
  Tokens = {k1}
  Paths = {p1, p2}
  Viewers = {}
  Hours = {0}
  Limits = {0}
  MaxTime = 0
  MaxViews = 1
  MaxFailed = 0
  Folders = {p2}
  Sizes = {1, 2}
  Requests = {r1, r2}
  TaskIds = {t1}
  Ranges <- SomeRanges
  Actors = {"client", "list", "stop"}
  Impatient = FALSE
  MaxEvents = 2
  None = None
INVARIANTS CompletedIsServed CompletedIsFull
PROPERTIES NoneHangs AnswerIsRange
CHECK_DEADLOCK FALSE
