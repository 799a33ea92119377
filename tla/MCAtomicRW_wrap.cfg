SPECIFICATION Spec
CONSTANTS
  Readers = {r1}
  W = 2
  SeqMod = 3
  Orders <- MCOrders
  MaxWrites = 5
  MaxRetry = 1
CHECK_DEADLOCK FALSE
INVARIANTS ReadsAtomic
PROPERTIES ReadsReturn
