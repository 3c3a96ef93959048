SPECIFICATION PersistorSpec
CONSTANTS
  Publishers = {"p1", "p2"}
  Size <- Small
  WriteBufferSize = 2
  MaxScanTokenSize = 4
  ChannelSize = 1
  MaxEvents = 2
  MaxStarts = 2
CHECK_DEADLOCK FALSE
INVARIANTS RestartNeverPanics
