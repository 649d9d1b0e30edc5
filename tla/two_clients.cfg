CONSTANTS
  NULL = NULL
  sh1 = sh1
  sh2 = sh2
  Shards = {sh1, sh2}
  Conns = {c1, c2}
  Sessions = {s1, s2}
  Requests <- Basic
  Results <- OneRowSet
  max_size = 1
  MaxCrashes = 1
  MaxNotices = 0
  Segments = TRUE
  BadRows = FALSE
SPECIFICATION Spec
SYMMETRY Symmetry
INVARIANTS TypeOK PoolBound ExclusiveOwner RightShard CleanIdle
PROPERTIES LendingKept
