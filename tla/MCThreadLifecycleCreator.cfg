\* A worker reaped under the caller that is making it.
SPECIFICATION Spec
CONSTANTS
  w1 = w1
  w2 = w2
  w3 = w3
  c1 = c1
  c2 = c2
  s1 = s1
  NoWorker = NoWorker
  NoSlot = NoSlot
  Workers <- TwoWorkers
  Callers <- TwoCallers
  Slots <- OneSlot
INVARIANT CreatorSafe
CHECK_DEADLOCK FALSE
