SPECIFICATION AppsSpec
CONSTANTS
  LosTimeout = 2
  MaxRate = 1000
  DefaultRate <- Rates
  MaxIdle = 4
  CountMod = 2
  Messages <- CommMessages
  HkMid = "NONE"
  Depth = 2
  Requested <- Requests
  Commands <- UplinkCommands
  RosDatagrams <- FromRos
  MaxRequests = 2
  MaxUptime = 0
  Frames <- BusFrames
  Packets <- ShortPackets
  SilenceCycles = 3
  MaxUnescaped = 5
  MaxFrameLen <- BufLens
  FrameCountMod = 2
INVARIANTS
  TypeOK
  LinkMeansHeard
  SilenceReported
  FramedIsAccepted
  FragmentsFollowFirst
  ForwardedIsSent
PROPERTIES
  SilentWhenDown
