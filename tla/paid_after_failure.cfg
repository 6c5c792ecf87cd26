SPECIFICATION Spec
CONSTANTS
  Null = Null
  Purchase = {p1}
  Handler = {h1}
  Plan <- Plans
  Duration <- Durations
  TrialDays = 1
  GraceDays = 1
  MaxWindow = 8
  MaxTime = 1
  MaxFaults = 0
INVARIANTS FailedIsUnpaid
CHECK_DEADLOCK FALSE
