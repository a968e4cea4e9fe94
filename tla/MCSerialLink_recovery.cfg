SPECIFICATION FairSpec
CONSTANTS
  s1 = s1
  s2 = s2
  s1_12 = s1_12
  s2_12 = s2_12
  Ids = {s1, s2}
  ShortId <- MCShortId
  LongFrames <- MCLongFrames
  MaxWire = 2
  MaxFaults = 2
  Mixed = Mixed
  Nothing = Nothing
INVARIANTS
  TypeOK
  OnePiecePerFault
  AcksAreWhole
PROPERTIES
  LinkRecovers
