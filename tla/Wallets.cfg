CONSTANTS
  WalletModes = {TRUE, FALSE}
  Funding = 8
  CommitFee = 2
  RecycleFee = 1
  Dust = 1
  Threshold = 5
  MaxRetries = 1
  MaxFaults = 2
SPECIFICATION FairSpec
INVARIANTS NeverInEachOthersWay PaidOnce
PROPERTY CommitmentsContinue
CHECK_DEADLOCK FALSE
