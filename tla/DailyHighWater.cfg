CONSTANTS
  w1 = w1
  w2 = w2
  s1 = s1
  s2 = s2
  None = None
  Free = Free
  Workers <- MCWorkers
  Signals <- MCSignals
  Final <- MCWins
  Start = 0
  MaxLoss = 2
  MaxStreak = 2
  MaxPositions = 2
  Drawdown = 3
  MaxFaults = 0
SPECIFICATION FairSpec
PROPERTIES HighWaterKept
