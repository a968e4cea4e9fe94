SPECIFICATION Spec
CONSTANTS
  lab = lab
  desk = desk
  Machines = {lab, desk}
  NodeId <- NestedIds
  SessionIds = {"s", "t"}
  Statuses = {"waiting", "idle"}
  Absent = Absent
  Ttl = 1
  Epsilon = 0
  MaxDelay = 1
  Reported <- AnyRows
  MaxPushes <- TwoAndOne
  PushUntil = 2
  MaxTime = 3
  MaxFaults = 1
PROPERTIES
  PushTouchesOnlyItsNode
CHECK_DEADLOCK FALSE
