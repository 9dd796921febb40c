\* Three workers through one slot, two callers.
SPECIFICATION FairSpec
CONSTANTS
  w1 = w1
  w2 = w2
  w3 = w3
  c1 = c1
  c2 = c2
  s1 = s1
  NoWorker = NoWorker
  NoSlot = NoSlot
  Workers <- ThreeWorkers
  Callers <- TwoCallers
  Slots <- OneSlot
INVARIANTS MemorySafe SlotIdentity ResultSurvives OneOwner
PROPERTY JoinReturns
CHECK_DEADLOCK FALSE
