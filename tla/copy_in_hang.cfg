CONSTANTS
  NULL = NULL
  sh1 = sh1
  sh2 = sh2
  Shards = {sh1, sh2}
  Conns = {c1, c2, c3}
  Sessions = {s1}
  Requests <- Copies
  Results <- OneRowSet
  max_size = 1
  MaxCrashes = 0
  MaxNotices = 0
  Segments = FALSE
  BadRows = TRUE
SPECIFICATION FairSpec
PROPERTIES QueryAnswered
