CONSTANTS
  None = None
  TxIds <- MCTxIds
  Names <- MCNames
  Pdus <- MCPdus
  Correct <- MCCorrect
  File <- MCFile
  Dest <- MCDest
  Segment = 2
  Timeout = 0
  MaxNow = 1
  MaxActive = 1
  MaxBytes = 4
  MaxSends = 1
SPECIFICATION FairSpec
INVARIANTS
  TableBounded
  SegmentsMakeFile
PROPERTIES
  NoGapAfterEof
  Settles
