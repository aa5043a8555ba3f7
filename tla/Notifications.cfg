CONSTANTS
  w1 = w1
  w2 = w2
  e1 = e1
  None = None
  Workers <- MCWorkers
  Events <- MCEvents
  MaxReports = 3
  Token = TRUE
  Limit = 2
  MaxFaults = 1
SPECIFICATION FairSpec
INVARIANTS CopiesBounded ReportsBounded
PROPERTIES Retired DashboardServed
CHECK_DEADLOCK FALSE
