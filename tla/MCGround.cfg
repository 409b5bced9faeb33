CONSTANTS
  None = None
  DegradedWindow = 5
  LosWindow = 3
  AosRateWindow = 1
  AosSustain = 2
  ErrNum = 1
  ErrDen = 3
  MaxEntries = 5
  DisplayEntries = 3
  FrameLen = 3
  BufFrames = 2
  PipeFrames = 2
  Datagrams <- MCDatagrams
  MaxDatagrams = 4
  MaxTick = 1
  MaxRadio = 2
  Sizes <- MCSizes
  RadioPackets <- MCRadioPackets
  Absent = Absent
SPECIFICATION GroundSpec
CHECK_DEADLOCK FALSE
INVARIANTS
  ForwardedExactly
  StoredIsWhatFits
  LinkDtoReadsBack
PROPERTIES
  NoFlapping
  DisplayCatchesUp
  DisplaySilence
