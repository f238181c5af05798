CONSTANTS
  Stamps = {1, 2, 3}
  Modes <- TwoModes
  Worlds <- HarshBusyCrowded
  MaxPending = 2
  MaxLost = 1
  MaxRestarts = 1
SPECIFICATION FairSpec
INVARIANTS OnePlace ProofsAnchored CommitmentsBounded NoAcceptedStampLost EventBacked
PROPERTIES ImplementsService AcceptedConfirmed
CHECK_DEADLOCK FALSE
