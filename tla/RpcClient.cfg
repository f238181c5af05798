CONSTANTS
  Callers = {a, b}
  ChannelSize = 1
  MaxDials = 2
  MaxId = 3
SPECIFICATION FairSpec
INVARIANTS OwnAnswer WaiterIsServed
PROPERTY CallsReturn
CHECK_DEADLOCK FALSE
