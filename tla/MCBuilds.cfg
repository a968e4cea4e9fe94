SPECIFICATION BuildsSpec
CONSTANTS
  Versions = {v1, v2, noVersion}
  NoVersion = noVersion
  Broken = broken
  Length = 3
  HeaderLimit = 1
  MaxPublished = 1
  MaxCuts = 2
  Lines = {line}
  MaxRows = 2
  DrawnRows = 1
  Usages = {usage}
  Hidden = {h1, h2}
  MinRefresh = 2
  OfflineAfter = 1
  Blank = blank
INVARIANTS
  AlwaysBootable
PROPERTIES
  UpdateSettles
  PanelCatchesUp
CHECK_DEADLOCK FALSE
