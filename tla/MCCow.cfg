SPECIFICATION Spec
CONSTANTS
  Procs = {p1, p2, p3}
  InitProc = p1
  Pages = {a1, a2, a3, a4}
  NoPage = NoPage
  Junk = Junk
  Layout <- TextAndData
  MaxSz = 2
  Vals = {1}
CHECK_DEADLOCK FALSE
SYMMETRY Symmetry
INVARIANT PagesExact
PROPERTY ImplementsForkMemory
