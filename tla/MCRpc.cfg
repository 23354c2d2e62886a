SPECIFICATION FairSpec
CONSTANTS
  Ops <- IncOps
  MaxCalls = 2
  MaxRetries = 1
  CacheSlots = 2
  Clients = {c1, c2}
  NoClient = NoClient
  MaxSlow = 5000
CHECK_DEADLOCK FALSE
INVARIANT AtMostOnce
PROPERTIES ImplementsContract EveryCallReturns
