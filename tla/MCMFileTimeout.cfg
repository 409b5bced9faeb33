CONSTANTS
  None = None
  TxIds <- MCTxIds
  WordBits = 4
  MaxRam = 1
  Timeout = 1
  MaxDups = 1
  MaxCut = 1
  MaxNow = 3
  Frames <- MCFewFrames
  Correct <- Nobody
  File <- NoFile
SPECIFICATION Spec
PROPERTIES
  NotBeforeTimeout
