SPECIFICATION FairSpec
CONSTANTS
  Files <- OneFile
  Selections <- Alone
  Sizes = {1, 2}
  Blocks = 1
  Data = {d1}
  Sids = {s1, s2}
  Tasks = {t1, t2}
  Conns = {c1}
  Merges = {m1}
  MaxRestarts = 1
  Hole = Hole
  Damaged = Damaged
  None = None
INVARIANTS TypeOK 
PROPERTIES  MergeIsReported
CHECK_DEADLOCK FALSE
