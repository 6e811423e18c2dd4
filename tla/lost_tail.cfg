SPECIFICATION SystemSpec
CONSTANTS
  Files <- OneFile
  Selections <- Alone
  Sizes = {2}
  Blocks = 1
  Data = {d1}
  Sids = {s1, s2}
  Tasks = {t1, t2, t3}
  Conns = {c1, c2}
  Merges = {m1}
  MaxRestarts = 0
  Hole = Hole
  Damaged = Damaged
  None = None
  Browsers = {b1}
  Picks <- Anything
  Length <- TwoChunks
  Content <- SameContent
  MaxConcurrent = 3
  Rounds = 1
  Events = {"cut"}
SYMMETRY Symmetric
INVARIANTS SentIsStored
CHECK_DEADLOCK FALSE
