SPECIFICATION Spec
CONSTANTS
  s1 = s1  s2 = s2  c1 = c1  c2 = c2
  a1 = a1  a2 = a2  k1 = k1  k2 = k2
  Null = Null
  HoldPeriod = 1
  ManualHoldPeriod = 2
  MAX_BOOKING_RETRIES = 3
  Staff <- OneStaff
  Chair <- OneChair
  ChairOwner <- NoOwnerOfC1
  Offers <- LifeOffers
  Appt = {a1, a2}
  Call = {k1, k2}
  Worker = {w1}
  MaxTime = 2
  MaxNoShows = 1
  MaxFaults = 1
SYMMETRY Requests
INVARIANTS NoShowIsCounted
PROPERTIES HoldIsKept ImplementsCalendar
CHECK_DEADLOCK FALSE
