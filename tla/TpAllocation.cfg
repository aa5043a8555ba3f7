CONSTANTS
  Digits = 5
  Volumes <- MCVolumes
  Minima <- MCMinima
  Steps <- MCSteps
  Counts <- MCCounts
  Customs <- MCCustoms
SPECIFICATION Spec
CHECK_DEADLOCK FALSE
INVARIANTS PlanWhole  RequestHonoured
