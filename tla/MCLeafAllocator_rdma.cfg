SPECIFICATION Spec
CONSTANTS
  Threads = {t1, t2}
  Clients = {c1}
  Total = 4
CHECK_DEADLOCK FALSE
INVARIANTS RereadHolds
