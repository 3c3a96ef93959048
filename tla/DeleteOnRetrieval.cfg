SPECIFICATION Spec
CONSTANTS
  Categories = {"a","b"}
  EventIDs = {e1, e2}
  NoID = NoID
  MaxEventBufferSize = 2
  Clients = {c1, c2}
  EventTimeToLive <- TTL2
  DeleteEventAfterFirstRetrieval = TRUE
  StaleCategoryPurgePeriod = 1
  ChannelSize = 1
  InitialEvents <- NoneOrTwoEvents
  SinceTimes <- FromTheStart
  StartTime = 2
  MaxTime = 3
  ChronologicalPublish = TRUE
SYMMETRY Symmetry
CHECK_DEADLOCK FALSE
INVARIANTS StoreConsistent ServedEventsAreGone TypeOK OneShotChannels NoParkedClientMissesData
PROPERTIES StartupKeepsNewestLive NoLiveEventDropped
