SPECIFICATION FairSpec
CONSTANTS
  lab = lab
  desk = desk
  Machines = {lab, desk}
  NodeId <- PlainIds
  SessionIds = {"s", "t"}
  Statuses = {"waiting", "idle"}
  Absent = Absent
  Ttl = 1
  Epsilon = 0
  MaxDelay = 1
  Reported <- AnyAndOne
  MaxPushes <- TwoAndOne
  PushUntil = 2
  MaxTime = 5
  MaxFaults = 1
INVARIANTS
  TypeOK
  WholePush
  ShownIsRecent
PROPERTIES
  ImplementsBoard
  PushTouchesOnlyItsNode
  QuietNodeVanishes
CHECK_DEADLOCK FALSE
