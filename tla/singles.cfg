SPECIFICATION TransferSpec
CONSTANTS
  Files <- TwoFiles
  Selections = {}
  Sizes = {1}
  Blocks = 1
  Data = {d1}
  Sids = {s1, s2}
  Tasks = {t1, t2, t3}
  Conns = {c1}
  Merges = {m1}
  MaxRestarts = 1
  Checkers = {k1, k2}
  Hole = Hole
  Damaged = Damaged
  None = None
SYMMETRY Symmetric
INVARIANTS MergeIsAlone InFlightChunkKnown
PROPERTIES CheckSparesChunks MergeSparesChunks
CHECK_DEADLOCK FALSE
