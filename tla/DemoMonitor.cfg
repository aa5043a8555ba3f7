CONSTANTS
  r1 = r1
  r2 = r2
  Free = Free
  Monitors <- MCMonitors
  Targets <- MCTargets
  Alloc <- MCAlloc
  Target <- MCTarget
  Prices <- MCPrices
  Entry = 1
  Stop = 0
  Volume = 4
  MaxFaults = 1
  BlindQueries = FALSE
SPECIFICATION FairSpec
INVARIANTS NeverUnderTracked FillsBounded OpenRowExplained StopReallyThere
PROPERTIES ClosureRecorded TargetServed ImplementsLife
