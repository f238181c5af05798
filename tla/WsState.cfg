CONSTANTS
  Sessions = {s1, s2, s3}
  Proofs = {p1, p2, p3}
  Malformed = {p3}
  MaxSubscriptions = 2
  MaxConnections = 2
SPECIFICATION Spec
INVARIANTS LimitHolds AccountsExact NoLockCycle
CHECK_DEADLOCK FALSE
