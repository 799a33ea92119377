SPECIFICATION Spec
CONSTANTS
  a = a
  b = b
  N = 2
  NoVal = NoVal
  Epsilon = 1
  InvalidKey = 15
  Vals = {a, b}
  SynonymMax = 4
  Loads <- StrandingLoad
  TrainedVal = a
  Pool = 4
CHECK_DEADLOCK FALSE
INVARIANTS NoKeyStranded
