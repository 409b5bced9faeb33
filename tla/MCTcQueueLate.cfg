CONSTANTS
  NoTarget = NoTarget
  TaiEpochUnix <- Epoch
  LeapSeconds = 2
  MaxCoarse = 31
  LightTime = 3
  QueueCap = 2
  Targets <- MCTargets
  Deadlines <- MCDeadlines
  Start = 2
  MaxRequests = 2
  MaxClock = 4
SPECIFICATION QueueSpec
CHECK_DEADLOCK FALSE
INVARIANT
  AcceptedInTime
