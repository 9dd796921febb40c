\* One thread mutates lists and string streams, the other one opens files; an arena of three cells.
SPECIFICATION Spec
CONSTANTS
  t1 = t1
  t2 = t2
  Threads = {t1, t2}
  Writers = {t1}
  NoThread = none
  ArenaSize = 3
  PageSize = 2
  ChunkSize = 2
  MarkLimit = 1
  Headroom = 1
  Kinds <- ListsAndFiles
  Slots = {1}
  Interference = FALSE
INVARIANTS CleanPagesOld StreamsOwn
PROPERTIES CollectorInvisible
CHECK_DEADLOCK FALSE
