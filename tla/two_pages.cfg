SPECIFICATION FairSystemSpec
CONSTANTS
  Files <- TwoFiles
  Selections <- Singles
  Sizes = {2}
  Blocks = 1
  Data = {d1}
  Sids = {s1, s2}
  Tasks = {t1, t2}
  Conns = {c1, c2}
  Merges = {m1}
  MaxRestarts = 0
  Hole = Hole
  Damaged = Damaged
  None = None
  Browsers = {b1, b2}
  Picks <- Own
  Length <- TwoChunks
  Content <- SameContent
  MaxConcurrent = 3
  Rounds = 1
  Events = {}
PROPERTIES StartedIsSent
CHECK_DEADLOCK FALSE
