CONSTANTS
  Last = 3
  Batch = 2
  MaxCrashes = 1
  w1 = w1
  w2 = w2
  Workers <- MCWorkers
  Unknown <- MCUnknown
  Poison <- MCPoison
SPECIFICATION FairSpec
INVARIANTS NoJobLost CopiesBounded
PROPERTIES ImplementsAtLeastOnce EveryJobServed
