SPECIFICATION Spec
CONSTANTS
  Clients = {c1, c2}
  NoClient = NoClient
  k1 = k1
  k2 = k2
  v1 = v1
  v2 = v2
  Keys = {k1, k2}
  Vals = {v1, v2}
  NoVal = NoVal
  Uninit = Uninit
  Stored <- MCStored
  Asked <- MCAsked
  Sid <- MCSid
  Nets <- OneNet
  Coros = 1
  MaxCalls = 1
  Station = 2
CHECK_DEADLOCK FALSE
INVARIANT NoStrayReply
