SPECIFICATION LimitsSpec
CONSTANTS
  r1 = r1  r2 = r2  r3 = r3  r4 = r4  s = s
  None = None
  Requests <- MCRequests
  Messages <- MCRequests
  Sessions <- MCSessions
  Models <- MCModels
  Burst = 2
  Window = 2
  Tolerance = 1
  MaxPending = 1
  MaxReviews = 1
  MaxClock = 2
SYMMETRY Symmetry
CHECK_DEADLOCK FALSE
INVARIANTS
  RateLimited
