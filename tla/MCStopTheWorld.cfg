\* The main thread, a MAKE-THREAD worker and a host thread that registers itself.
SPECIFICATION FairSpec
CONSTANTS
  main = main
  w1 = w1
  h1 = h1
  none = none
  Threads = {main, w1, h1}
  Main = main
  Hosts = {h1}
  IoUsers = {main, w1}
  NoThread = none
  MaxDepth = 2
  MaxGC = 2
INVARIANTS TypeOK WorldStopped NoLostWakeup NoStrandedThread SingleInitiator RequestsComplete
PROPERTIES CollectedSinceSeen HeapAccessSpec StopEnds ParkedResume
