SPECIFICATION BusSpec
CONSTANTS
  Depth = 3
  Requested <- BridgeId
  Commands <- OneTc
  RosDatagrams <- Nothing
  MaxRequests = 3
  LosTimeout = 2
  MaxRate = 1000
  DefaultRate <- Rates
  MaxIdle = 3
  CountMod = 4
  MaxUptime = 0
  Messages <- Nothing
  HkMid = "NONE"
INVARIANT
  BridgeHkOnRequest
