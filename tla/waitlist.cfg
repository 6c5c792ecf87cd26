SPECIFICATION FairMCSpec
CONSTANTS
  s1 = s1  c1 = c1
  a1 = a1  a2 = a2  k1 = k1  w1 = w1
  e1 = e1  e2 = e2  u1 = u1  u2 = u2
  Null = Null
  HoldPeriod = 1
  ManualHoldPeriod = 1
  MAX_BOOKING_RETRIES = 1
  Staff <- OneStaff
  Chair <- OneChair
  ChairOwner <- NoOwnerOfC1
  Offers <- FreedOffers
  Appt = {a1, a2}
  Call = {k1}
  Worker = {w1}
  Entry = {e1, e2}
  Wish <- DayWishes
  MaxTime = 1
  MaxNoShows = 0
  MaxFaults = 1
INVARIANTS NobodyIsPassedOver
CHECK_DEADLOCK FALSE
PROPERTIES FreedWindowIsOffered
