SPECIFICATION FairSpec
CONSTANTS
  Terminals = {t1, t2}
  Inputs <- MCInputs
  Submitted <- MCSubmitted
  UrlLength <- MCUrlLength
  Parents = 2
  MaxStamps = 2
  MaxKills = 1
INVARIANTS ValidIsOnChain PaidIsRecorded
PROPERTY PendingIsUpgraded
CHECK_DEADLOCK FALSE
