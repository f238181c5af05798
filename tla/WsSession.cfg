SPECIFICATION FairSpec
CONSTANTS
  Proofs = {p1, p2}
  Named = {p1}
  MaxSubscriptions = 1
  ChannelSize = 1
  MaxLag = 1
  MaxInbox = 1
  MaxRequests = 2
  MaxBatched = 1
INVARIANTS RegistryAgrees NoConfirmationLost
PROPERTIES QuietAfterUnsubscribed LoopAlwaysReturns TasksEnd
CHECK_DEADLOCK FALSE
