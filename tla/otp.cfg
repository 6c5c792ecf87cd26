SPECIFICATION Spec
CONSTANTS
  Null = Null
  Request = {r1, r2}
  Verifier = {v1, v2, v3}
  Code = {c1, c2}
  Window = 1
  MaxAttempts = 2
  MaxTime = 2
  MaxFaults = 1
INVARIANTS OneSessionPerCode GuessesAreCounted CodeWasSent SpentCodeSignsIn
PROPERTIES SupersededIsDead
SYMMETRY Interchangeable
CHECK_DEADLOCK FALSE
