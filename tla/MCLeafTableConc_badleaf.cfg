SPECIFICATION Spec
CONSTANTS
  t1 = t1
  t2 = t2
  t3 = t3
  Threads = {t1, t2, t3}
  N = 2
  InvalidKey = 8
  SynonymMax = 5
  Pool = 5
  Garbage <- ZeroOrWild
  Loads <- InsertRemoveLoad
CHECK_DEADLOCK FALSE
INVARIANTS LeavesSorted
