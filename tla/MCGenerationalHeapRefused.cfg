\* A minor cycle of a second thread between a refused minor and its compaction.
SPECIFICATION Spec
CONSTANTS
  t1 = t1
  t2 = t2
  Threads = {t1, t2}
  Writers = {t1}
  NoThread = none
  ArenaSize = 3
  PageSize = 2
  ChunkSize = 2
  MarkLimit = 1
  Headroom = 1
  Kinds <- Lists
  Slots = {1}
  Interference = TRUE
INVARIANT NothingDangles
CHECK_DEADLOCK FALSE
