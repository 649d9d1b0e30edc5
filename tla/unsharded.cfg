CONSTANTS
  NULL = NULL
  sh1 = sh1
  sh2 = sh2
  Shards = {}
  Conns = {c1, c2}
  Sessions = {s1, s2}
  Requests <- Unsharded
  Results <- OneRowSet
  max_size = 1
  MaxCrashes = 1
  MaxNotices = 0
  Segments = TRUE
  BadRows = FALSE
SPECIFICATION FairSpec
INVARIANTS LegalReply
PROPERTIES QueryAnswered
