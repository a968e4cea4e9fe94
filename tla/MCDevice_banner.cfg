SPECIFICATION Spec
CONSTANTS
  a = a
  b = b
  c = c
  Frames <- MCFrames
  Blackout <- MCBlackout
  Slots = 2
  SleepVals = {0, 1}
  ArtVals = {0, 1, 2}
  DefaultArt = 2
  Minute = 2
  OfflineAfter = 0
  MaxAge = 3
  None = None
INVARIANT BannerIsHonest
