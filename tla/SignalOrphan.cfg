CONSTANTS
  w1 = w1
  w2 = w2
  m1 = m1
  m2 = m2
  a1 = a1
  a2 = a2
  None = None
  Workers <- MCWorkers
  Msgs <- MCMsgs
  Accounts <- TwoAccounts
  Feed <- MCFeed
  Fingerprint <- MCFingerprint
  MaxPositions <- MCLimits
  MaxFaults = 0
  Reclaim = FALSE
  MaxOrders = 2
  ShortLists <- MCShortLists
  PartialFills <- NoAccount
  Closes <- MCCloses
  FirstJobs <- First
  LostReplies = FALSE
  BlindScans = FALSE
SPECIFICATION Spec
CHECK_DEADLOCK FALSE
INVARIANTS ReclaimedEventsProtected
