\* An UNINTERN beside another thread that interns into the same package.
SPECIFICATION Spec
CONSTANTS
  t1 = t1
  t2 = t2
  p1 = p1
  p2 = p2
  Threads = {t1, t2}
  NoThread = none
  Packages = {p1, p2}
  NoPackage = nopackage
  Names = {1, 2}
  Tables <- OneTable
  Ops <- Changers
  MaxCalls = 4
PROPERTY PresentStays
CHECK_DEADLOCK FALSE
