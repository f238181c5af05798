CONSTANTS
  Stamps = {s1, s2, s3}
  Modes <- MCModes
  MaxPending = 2
  Window <- MCWindow
  MaxClock = 4
SPECIFICATION FairManagerSpec
INVARIANT TimerIsOldest
PROPERTIES CutOnTime ImplementsQueue EveryStampHandedOver
