CONSTANTS
  w1 = w1
  h1 = h1
  h2 = h2
  worker = worker
  server = server
  u1 = u1
  u2 = u2
  Free = Free
  Sessions <- MCSessions
  Handlers <- MCHandlers
  Proc <- MCProc
  Updates <- MCUpdates
  Request <- PartialAndTarget
  Targets <- MCTargets
  Alloc <- MCAlloc
  Target <- MCTarget
  Prices <- MCPrices
  Stops <- MCStops
  Percents <- MCPercents
  Entry = 1
  Stop = 0
  Volume = 4
  MaxFaults = 1
SPECIFICATION Spec
INVARIANTS TypeOK GivenUpForCause ExecutedOnce
PROPERTIES ClosedIsFinal OnlyGurusOverwrite
