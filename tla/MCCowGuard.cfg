SPECIFICATION Spec
CONSTANTS
  Procs = {p1, p2}
  InitProc = p1
  Pages = {a1, a2, a3}
  NoPage = NoPage
  Junk = Junk
  Layout <- GuardAndData
  MaxSz = 2
  Vals = {1}
CHECK_DEADLOCK FALSE
SYMMETRY Symmetry
PROPERTY GuardKept
