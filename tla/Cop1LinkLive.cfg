CONSTANTS
  None = None
  Spp = {1, 2}
  WindowSize = 2
  MaxRetransmit = 3
  SeqMod = 4
  T1 = 1
  StaleAbortMult = 2
  MaxCmds = 2
  MaxSessions = 1
  MaxFlight = 1
  MaxLoss = 1
  MayClose = TRUE
SPECIFICATION LinkFairSpec
PROPERTIES
  CommandsSettle
