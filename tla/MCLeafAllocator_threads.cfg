SPECIFICATION FairSpec
CONSTANTS
  Threads = {t1, t2, t3}
  Clients = {}
  Total = 4
CHECK_DEADLOCK FALSE
INVARIANTS TypeOK MutualExclusion LeavesDistinct PoolAccounted
PROPERTIES DispenserSpec SomeoneServed
