SPECIFICATION FairSpec
CONSTANTS
  c = c
  x = x
  o = o
  h = h
  web = web
  Unknown = Unknown
  None = None
  NoFile = NoFile
  NoSession = NoSession
  Ids <- Claude
  Projects = {web, Unknown}
  ToolOf <- ToolOfId
  ProjectOf <- ProjectOfId
  Epsilon = 1
  GoneTtl = 1
  ActiveWindow = 1
  TailEntries = 1
  DayLength = 100
  StartTime = 3
  MaxTime = 6
  AgentsUntil = 3
  MaxLog <- LogBound
  MaxAround = 1
  Skews <- OutOfStep
  MaxFaults = 1
INVARIANTS
  TypeOK
  WaitingHasSince
  NotFromFuture
PROPERTIES
  ActivityNeverRegresses
  ForgottenOnlyWhenGone
  LoweredOnlyOnRequest
  RaisedOnlyOnEvidence
  StoreCatchesUp
  DeletedSessionLeaves
CHECK_DEADLOCK FALSE
