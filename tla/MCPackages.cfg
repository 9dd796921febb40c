\* Two threads, two packages, two names; one name waits in a binding table; four calls.
SPECIFICATION FairSerialSpec
CONSTANTS
  t1 = t1
  t2 = t2
  p1 = p1
  p2 = p2
  Threads = {t1, t2}
  NoThread = none
  Packages = {p1, p2}
  NoPackage = nopackage
  Names = {1, 2}
  Tables <- OneTable
  Ops <- Changers
  MaxCalls = 4
INVARIANT PackageConsistent
PROPERTIES LazyInvisible CollectionEnds
CHECK_DEADLOCK FALSE
