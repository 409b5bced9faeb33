CONSTANTS
  None = None
  NoTarget = NoTarget
  TaiEpochUnix <- MCEpoch
  LeapSeconds = 2
  MaxCoarse = 15
  LightTime = 3
  QueueCap = 2
  Targets <- MCTargets
  Deadlines <- MCDeadlines
  Start = 0
  MaxRequests = 3
  MaxClock = 1
  Spp <- MCSpp
  WindowSize = 2
  MaxRetransmit = 3
  SeqMod = 4
  T1 = 2
  StaleAbortMult = 2
  MaxCmds = 5
  MaxSessions = 1
  MaxFlight = 2
  MaxLoss = 2
  MayClose = FALSE
  PacketApids = {257, 2047}
  PacketFuncs = {1, 32768}
  PacketInstances = {1, 255}
  PacketCounts = {0, 16383}
  PacketTimes <- MCTimes
  PacketSizes = {0, 3, 65526, 65527}
  FopWindow = 2
  FopRetransmit = 2
  FopSeqs = 4
  FopT1 = 1
  FopStaleAbort = 1
  FopNone = None
  Intents <- MCIntents
  BulkSizes = {505, 506}
  MaxAsked = 2
  Ends = {1, 5, 6, 15, 16}
SPECIFICATION UplinkSpec
CHECK_DEADLOCK FALSE
INVARIANTS
  TypeOK
  WindowConsecutive
  TimerTracksWindow
  SessionClean
  AckedWasAccepted
  CommandComesThrough
  QueuedAsAsked
  PacketIsKept
PROPERTIES
  LeavesForAReason
  ImplementsDelivery
