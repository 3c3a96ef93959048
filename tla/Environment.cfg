SPECIFICATION LongpollSpec
CONSTANTS
  Categories = {"a"}
  EventIDs = {e1, e2}
  NoID = NoID
  MaxEventBufferSize = 2
  Clients = {c1, c2}
  EventTimeToLive <- Forever
  DeleteEventAfterFirstRetrieval = FALSE
  StaleCategoryPurgePeriod = 1
  ChannelSize = 1
  InitialEvents <- NoInitialEvents
  SinceTimes <- StartTimeOnly
  StartTime = 2
  MaxTime = 3
  ChronologicalPublish = FALSE
  Publishers = {p1}
  NoEvent = NoEvent
SYMMETRY Symmetry
CHECK_DEADLOCK FALSE
INVARIANTS LongpollTypeOK
PROPERTIES ImplementsManager ImplementsEventLog
