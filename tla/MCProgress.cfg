SPECIFICATION ProgressSpec
CONSTANTS
  N = 3
  Retries = 1
  NPROC = 3
  NPRIO = 2
  MLFQ_BOOST = 4
  MaxTickets = 2
  Requesters = {1, 2, 3}
  NUM = 8
  Clients = {1, 2}
  Patient = {1}
  Tables = {1, 2}
  WS_REQ_MAX = 1
  OutLen = 2
  Room = 1
CHECK_DEADLOCK FALSE
INVARIANTS InOrderOnce ReportsTrue NeverStalls RequestsApart ResponsesApart
PROPERTIES PipelineEnds ProgramsGetOn
