SPECIFICATION Spec
CONSTANTS
  Files = {f}
  Chunks = 1
  Ac = 2
  MaxCall = 2
  FineMtime = TRUE
  MaxTime = 6
  MaxWrites = 2
  MaxRestarts = 0
CHECK_DEADLOCK FALSE
INVARIANT NeverStaler
