CONSTANTS
  Absent = Absent
  MaxTick = 1
  MaxRadio = 0
  Sizes <- Nothing
  RadioPackets <- Nothing
SPECIFICATION DownlinkSpec
CHECK_DEADLOCK FALSE
INVARIANT
  InjectedIsShown
