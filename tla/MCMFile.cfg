CONSTANTS
  None = None
  TxIds <- MCTxIds
  Correct <- MCCorrect
  File <- MCFile
  WordBits = 4
  MaxRam = 1
  Timeout = 1
  MaxDups = 1
  MaxCut = 1
  MaxNow = 2
  Frames <- MCFrames
SPECIFICATION FairSpec
INVARIANTS
  RamExact
  NeverIdleFull
  BinIsFile
  NoMismatch
PROPERTIES
  FirstArrivalWins
  Settles
