CONSTANTS
  w1 = w1
  w2 = w2
  e1 = e1
  None = None
  Workers <- MCWorkers
  Events <- MCEvents
  MaxReports = 3
  Token = TRUE
  Limit = 2
  MaxFaults = 0
SPECIFICATION Spec
INVARIANTS OneReport
CHECK_DEADLOCK FALSE
