CONSTANTS
  Stamps = {1, 2}
  Modes <- TwoModes
  Worlds <- CrashOnly
  MaxPending = 2
  MaxLost = 0
  MaxRestarts = 1
SPECIFICATION Spec
INVARIANT SurvivesRestart
CHECK_DEADLOCK FALSE
