\* A *PACKAGE* binding that the thread's package cache does not follow.
SPECIFICATION Spec
CONSTANTS
  t1 = t1
  t2 = t2
  x = x
  p1 = p1
  p2 = p2
  v1 = v1
  v2 = v2
  Package = Package
  Unbound = Unbound
  Empty = Empty
  Tombstone = Tombstone
  Absent = Absent
  NoAnswer = NoAnswer
  Threads <- MCThreads
  Binders = {t1}
  Symbols <- MCSymbols
  Packages = {p1, p2}
  Values = {p1, p2, v1, Unbound}
  Stored <- PackageStored
  Size = 2
  MaxDyn = 2
INVARIANT PackageFollows
