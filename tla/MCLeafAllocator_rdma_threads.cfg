SPECIFICATION Spec
CONSTANTS
  Threads = {t1, t2, t3}
  Clients = {c1}
  Total = 4
SYMMETRY Symmetry
CHECK_DEADLOCK FALSE
INVARIANTS ThreadLeavesDistinct
