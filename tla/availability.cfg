SPECIFICATION AvFairSpec
CONSTANTS
  s1 = s1  s2 = s2  c1 = c1  c2 = c2  c3 = c3
  a1 = a1  a2 = a2  k1 = k1  k2 = k2
  Null = Null
  HoldPeriod = 1
  ManualHoldPeriod = 2
  MAX_BOOKING_RETRIES = 3
  Staff <- TwoStaff
  Chair <- ThreeChairs
  ChairOwner <- StationsOfS2
  Offers <- ResolvedOffers
  Appt = {a1, a2}
  Call = {k1}
  Worker = {}
  MaxTime = 0
  MaxNoShows = 0
  MaxFaults = 0
  Day = 6
  Step = 2
  MobileChair <- MobileC3
  Query <- TwoRequests
  Salons <- TwoSalons
  Timetables <- ShorterHours
  Closures <- DayClosures
  DaysOff <- OneDayOff
  Periods <- OnePeriod
  MaxDays = 1
  MaxEdits = 1
INVARIANTS NoDoubleBooking LostRaceHasWinner AvailabilityIsExact
PROPERTIES ClosedDayOnlyDrains BookingIsAnswered
CHECK_DEADLOCK FALSE
