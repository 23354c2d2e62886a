SPECIFICATION SafetySpec
CONSTANTS
  Meta = {m1, m2, m3}
  Data = {d1}
  Vals = {v0, v1}
  LogCap = 2
  Header = Header
  Mode = "ordered"
  Producers = {p1, p2}
  Consumers = {c1, c2}
  Items = {a, b}
  Capacity = 2
  NoThread = NoThread
  Shapes <- MCShapes
  Arena = 8
  MaxSize = 3
  UTHREAD_MAX = 3
  MaxTid = 4
  NPROC = 4
  InoProcs = {1, 2}
  InoNames = {"a", "b"}
  Inums = {1}
  NCPU = 2
  NTHREADS = 2
  LogProcs = {1, 2, 3}
  LogBlocks = {1, 2, 3}
  LogVals = {0, 1}
  MAXOPBLOCKS = 1
  LOGBLOCKS = 2
  PipeProcs = {1, 2, 3}
  PipeEnds <- MCPipeEnds
  PIPESIZE = 2
  PipeWrap = 4
  MaxTransfer = 2
  PipeKills = 1
  ConsProcs = {1, 2}
  ConsKeys = {"x", "nl", "^D"}
  INPUT_BUF_SIZE = 3
  ConsWrap = 6
  MaxRead = 2
  ConsKills = 1
  BigFiles = {1, 2}
  NBlocks = 8
  NDIRECT = 1
  NINDIRECT = 2
CHECK_DEADLOCK FALSE
INVARIANTS
  DataBeforeJournal NoLostWakeup ReadsBack HeapTiled
  FilesIntact InodesKept ZombiesAreSeen Switching
PROPERTIES
  ImplementsAtomicDisk ImplementsFifo LogWorks PipeWorks Contained RoundRobin ConsoleWorks
