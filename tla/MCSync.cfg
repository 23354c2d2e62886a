SPECIFICATION SyncSpec
CONSTANTS
  Threads = {t1, t2, t3}
  TicketMod = 4
  MaxValue = 3
  MaxRounds = 3
  Readers = {r1, r2}
  Writers = {w1, w2}
  NPhils = 4
CHECK_DEADLOCK FALSE
INVARIANTS SleepersCovered SpinningLocks BarrierRounds
PROPERTIES
  ImplementsMutex SemImplements RwLockWorks PrimitivesProgress PhilSomebodyEats
