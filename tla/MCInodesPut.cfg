SPECIFICATION Spec
CONSTANTS
  Procs = {1, 2}
  Names = {"a", "b"}
  Inums = {1, 2}
CHECK_DEADLOCK FALSE
INVARIANT LastPutFrees
