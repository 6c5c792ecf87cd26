SPECIFICATION FairSpec
CONSTANTS
  Null = Null
  Purchase = {p1, p2}
  Handler = {h1, h2}
  Plan <- Plans
  Duration <- Durations
  TrialDays = 1
  GraceDays = 1
  MaxWindow = 8
  MaxTime = 2
  MaxFaults = 1
INVARIANTS WindowIsCapped ActiveIsPaidFor
PROPERTIES  AppliedIsClosed CheckoutIsSettled
CHECK_DEADLOCK FALSE
