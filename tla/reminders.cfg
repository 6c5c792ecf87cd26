SPECIFICATION FairSpec
CONSTANTS
  a1 = a1  a2 = a2  p1 = p1  p2 = p2
  Null = Null
  Customer = Customer
  Appt = {a1, a2}
  Staff = {p1, p2}
  Start <- Starts
  Audience <- Audiences
  Device = {a2}
  Lead = 2
  Worker = {w1}
  MaxTime = 2
  MaxRefusals = 1
  MaxFaults = 1
INVARIANTS RepeatsHaveACause
PROPERTIES VisitIsReminded StaffIsTold
CHECK_DEADLOCK FALSE
