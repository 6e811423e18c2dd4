SPECIFICATION SystemSpec
CONSTANTS
  Files <- OneFile
  Selections <- Alone
  Sizes = {1}
  Blocks = 1
  Data = {d1}
  Sids = {s1, s2}
  Tasks = {t1, t2, t3}
  Conns = {c1}
  Merges = {m1}
  MaxRestarts = 1
  Hole = Hole
  Damaged = Damaged
  None = None
  Browsers = {b1}
  Picks <- Anything
  Length <- OneChunk
  Content <- SameContent
  MaxConcurrent = 3
  Rounds = 0
  Events = {"cut", "stall", "lost", "reload", "again", "disconnect", "pause", "delete", "inactive", "expire", "stop", "crash"}
SYMMETRY Symmetric
INVARIANTS SystemTypeOK OneTaskPerName
CHECK_DEADLOCK FALSE
