\* Two threads, a recursive lock, timeouts, notifies, interrupts and destroys.
SPECIFICATION FairSpec
CONSTANTS
  t1 = t1
  t2 = t2
  NoThread = NoThread
  Threads = {t1, t2}
  Impatient = {t1, t2}
  Publishers = {t1, t2}
  MaxDepth = 2
INVARIANTS TypeOK MutualExclusion NoLostToken WaitersCounted NoLostLockWakeup
PROPERTIES MonitorSpec InterruptReachesWaiter FreeLockTaken
CHECK_DEADLOCK FALSE
