SPECIFICATION Spec
CONSTANTS
  Terminals = {t1}
  Inputs <- MCInputs
  Submitted <- MCSubmitted
  UrlLength <- MCUrlLength
  Parents = 2
  MaxStamps = 2
  MaxKills = 0
INVARIANT PendingCanComplete
CHECK_DEADLOCK FALSE
