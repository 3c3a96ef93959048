SPECIFICATION Spec
CONSTANTS
  Categories = {"a"}
  EventIDs = {e1, e2, e3}
  NoID = NoID
  MaxEventBufferSize = 2
  Clients = {c1}
  EventTimeToLive <- TTL2
  DeleteEventAfterFirstRetrieval = FALSE
  StaleCategoryPurgePeriod = 1
  ChannelSize = 2
  InitialEvents <- UpToThreeEvents
  SinceTimes <- FromTheStart
  StartTime = 2
  MaxTime = 5
  ChronologicalPublish = TRUE
SYMMETRY Symmetry
CHECK_DEADLOCK FALSE
INVARIANTS StoreConsistent
PROPERTIES StartupKeepsNewestLive NoLiveEventDropped AnswersAreFresh ResumesExactlyAfterLastID
