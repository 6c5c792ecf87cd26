SPECIFICATION Spec
CONSTANTS
  Null = Null
  Purchase = {p1}
  Handler = {h1, h2}
  Plan <- Plans
  Duration <- Durations
  TrialDays = 1
  GraceDays = 1
  MaxWindow = 8
  MaxTime = 3
  MaxFaults = 0
PROPERTIES RenewedOnce
CHECK_DEADLOCK FALSE
