SPECIFICATION Spec
CONSTANTS
  Page = {p1, p2}
  MaxSessions = 4
  MaxLogins = 2
  MaxRuns = 2
  MaxExpiries = 1
  MaxFaults = 1
INVARIANTS OneSessionPerLogin SessionSurvives LoginIsShown SpinnerIsWatched SignedOutStaysOut
SYMMETRY Interchangeable
CHECK_DEADLOCK FALSE
