SPECIFICATION PersistorSpec
CONSTANTS
  Publishers = {"p1"}
  Size <- AllKinds
  WriteBufferSize = 2
  MaxScanTokenSize = 4
  ChannelSize = 1
  MaxEvents = 4
  MaxStarts = 3
CHECK_DEADLOCK FALSE
INVARIANTS PersistorTypeOK FileFollowsHandled ShutdownPersists
PROPERTIES RestartRecovers ShutdownFinishes EventuallyInFile
