SPECIFICATION CacheSpec
CONSTANTS
  v1 = v1
  v2 = v2
  v3 = v3
  n1 = n1
  n2 = n2
  N = 2
  NoVal = NoVal
  Vals = {v1, v2, v3}
  InvalidKey = 30
  SynonymMax = 5
  Epsilon = 2
  UpperWords = 6
  ModelWords = 50
  LeafWords = 4
  PageWords = 8
  TrainedVal = v1
  PutVal = v2
  CacheVal = v3
  LocalWords = 33
  Loads <- Starts
  Nodes = {n1, n2}
  Coroutines = {1, 2}
  MaxUsed = 6
CHECK_DEADLOCK FALSE
INVARIANTS TypeOK SegmentsOptimal TrainedInWindow SnapshotFaithful
PROPERTIES CacheSearchFinds CacheInsertKept
