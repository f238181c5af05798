SPECIFICATION FairPageSpec
CONSTANTS
  Proofs = {p, q}
  MaxSockets = 4
  MaxDrops = 1
  MaxEffects = 2
INVARIANTS OpenSocketKnows PageKeepsToItsProof
PROPERTIES SubscriptionRegained ConfirmedStays
CHECK_DEADLOCK FALSE
