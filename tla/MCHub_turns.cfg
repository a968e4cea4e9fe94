SPECIFICATION FairSpec
CONSTANTS
  c = c
  x = x
  o = o
  h = h
  web = web
  Unknown = Unknown
  None = None
  NoFile = NoFile
  NoSession = NoSession
  Ids <- Turns
  Projects = {web, Unknown}
  ToolOf <- ToolOfId
  ProjectOf <- ProjectOfId
  Epsilon = 1
  GoneTtl = 4
  ActiveWindow = 1
  TailEntries = 1
  DayLength = 100
  StartTime = 6
  MaxTime = 8
  AgentsUntil = 7
  MaxLog <- LogBound
  MaxAround = 1
  Skews <- InStep
  MaxFaults = 1
PROPERTIES
  StoreCatchesUp
  WaitingTurnIsShown
CHECK_DEADLOCK FALSE
