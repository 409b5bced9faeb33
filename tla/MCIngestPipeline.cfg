SPECIFICATION FairSpec
CONSTANTS
  Inputs <- AllInputs
  Vcs <- Vcs012
  FrameCap = 1
  VcCap = 1
  SppCap = 1
  TagCap = 1
  SinkCap = 1
  HkFrames = 1
  EventRing = 1
  MaxFrames = 3
  NoPacket = NoPacket
INVARIANTS
  ForbiddenStopped
  PathInOrder
  RingsAreNewest
PROPERTIES
  EveryFrameAccounted
  PipelineDrains
  SnapshotCompletes
