CONSTANTS
  w1 = w1
  w2 = w2
  s1 = s1
  s2 = s2
  None = None
  Free = Free
  Workers <- MCWorkers
  Signals <- MCSignals
  Final <- MCFinal
  Start = 0
  MaxLoss = 2
  MaxStreak = 2
  MaxPositions = 1
  Drawdown = 3
  MaxFaults = 1
SPECIFICATION FairSpec
INVARIANTS TypeOK OpenRowsCapped StreakCounted StopHolds LossLimitHolds
PROPERTIES TotalSettles
