SPECIFICATION Spec
CONSTANTS
  a = a
  b = b
  N = 2
  NoVal = NoVal
  Epsilon = 1
  InvalidKey = 11
  Vals = {a, b}
  SynonymMax = 5
  Loads <- SafeLoads
  TrainedVal = a
  Pool = 5
CHECK_DEADLOCK FALSE
INVARIANTS TypeOK ChainsSorted LeavesPlacedOnce NoKeyStranded RangeComplete
PROPERTIES RefusedWithReason MapSpec
