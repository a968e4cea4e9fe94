SPECIFICATION Spec
CONSTANTS
  a = a
  b = b
  d = d
  Ids = {a, b, d}
  Projects = {"api", "web"}
  None = None
  NoSession = NoSession
  ToolOf <- ToolOfId
  Alphabetical <- NameOrder
  Epsilon = 1
  GoneTtl = 2
  WorkingSec = 1
  MaxSessions = 2
  Stores <- StoresOfThree
  Now <- Latest
  Ages = {0, 2, 3, 4}
INVARIANTS
  OneRowPerGroup
  UrgentRowsSurvive
  ReaperIsInvisible
PROPERTIES
  AcksSilenceEverything
CHECK_DEADLOCK FALSE
