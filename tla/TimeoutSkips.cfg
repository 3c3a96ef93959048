SPECIFICATION StreamSpec
CONSTANTS
  Categories = {"a"}
  Category = "a"
  Clients = {"c"}
  self = "c"
  EventIDs = {1, 2, 3}
  NoID = 0
  SinceTimes <- NoTimes
  StartTimes <- PastOrTooFar
  NsPerMs = 10
  HalfRange = 128
  Second = 2
  ChannelCapacity = 1
  StartTime = 1
  MaxTime = 2
  MaxEvents = 3
CHECK_DEADLOCK FALSE
INVARIANTS NothingSkipped
