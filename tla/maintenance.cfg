SPECIFICATION PayFairSpec
CONSTANTS
  s1 = s1  s2 = s2  c1 = c1  c2 = c2
  a1 = a1  a2 = a2  k1 = k1  k2 = k2
  p1 = p1  p2 = p2  q1 = q1  q2 = q2
  Null = Null
  HoldPeriod = 1
  ManualHoldPeriod = 1
  MAX_BOOKING_RETRIES = 3
  MaxNoShows = 0
  CancellationWindow = 1
  Staff <- OneStaff
  Chair <- OneChair
  ChairOwner <- NoOwnerOfC1
  Offers <- DepositOffers
  Appt = {a1, a2}
  Call = {}
  Worker = {w1}
  Payment = {p1}
  PayCall = {q1}
  MaxTime = 1
  MaxFaults = 1
PROPERTIES ExpiredHoldIsReleased ExpiryIsAnnounced PendingReceiptIsClosed
CHECK_DEADLOCK FALSE
