CONSTANTS
  w1 = w1
  w2 = w2
  Workers <- MCWorkers
  TTL = 5
  Every = 3
  MaxStalls = 6
  MaxFaults = 2
  NoOne = NoOne
SPECIFICATION FairSpec
INVARIANTS SoleScheduler DeposedStops
PROPERTIES LeaseRespected ReconcileForever
