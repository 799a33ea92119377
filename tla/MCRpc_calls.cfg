SPECIFICATION FairSpec
CONSTANTS
  Clients = {c1}
  NoClient = NoClient
  k1 = k1
  k2 = k2
  v1 = v1
  v2 = v2
  Keys = {k1, k2}
  Vals = {v1, v2}
  NoVal = NoVal
  Uninit = Uninit
  Stored <- MCStored
  Asked <- MCAsked
  Sid <- MCSid
  Nets <- AllNets
  Coros = 3
  MaxCalls = 2
  Station = 4
CHECK_DEADLOCK FALSE
INVARIANTS TypeOK OwnReply CallsTakeEffect PollerLast NoStrayReply SessionKnown
PROPERTIES ChannelSpec CallsReturn ThreadEnds
