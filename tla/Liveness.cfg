SPECIFICATION FairLongpollSpec
CONSTANTS
  Categories = {"a"}
  EventIDs = {e1, e2}
  NoID = NoID
  MaxEventBufferSize = 2
  Clients = {c1, c2}
  EventTimeToLive <- Forever
  DeleteEventAfterFirstRetrieval = FALSE
  StaleCategoryPurgePeriod = 1
  ChannelSize = 1
  InitialEvents <- NoInitialEvents
  SinceTimes <- NoTimes
  StartTime = 2
  MaxTime = 2
  ChronologicalPublish = FALSE
  Publishers = {p1, p2}
  NoEvent = NoEvent
CHECK_DEADLOCK FALSE
PROPERTIES RequestsAnswered PublishedEventsHandled ShutdownCompletes
