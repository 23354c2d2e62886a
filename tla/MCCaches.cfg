SPECIFICATION CachesSpec
CONSTANTS
  Ops <- IncAndShutdown
  MaxCalls = 2
  MaxRetries = 1
  CacheSlots = 1
  Clients = {c1, c2}
  NoClient = NoClient
  MaxSlow = 5000
  Files = {f, g}
  Chunks = 2
  Ac = 2
  MaxCall = 1
  FineMtime = TRUE
  MaxTime = 5
  MaxWrites = 2
  MaxRestarts = 1
  BufProcs = {1, 2}
  Blocks = {1, 2, 3}
  Vals = {0, 1}
  NBUF = 2
  MaxPinned = 1
CHECK_DEADLOCK FALSE
SYMMETRY Symmetry
INVARIANTS ResultIsOwn StalenessBound RevalidatedGood BlocksPassedOn
PROPERTY OwnWritesSeen
