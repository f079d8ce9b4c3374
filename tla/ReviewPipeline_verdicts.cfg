SPECIFICATION Spec
CONSTANTS
  h1 = h1  h2 = h2  h3 = h3
  t1 = t1  t2 = t2  s = s
  None = None
  Torn = Torn
  Requests <- MCRequests
  Messages <- MCMessages
  Sessions <- MCSessions
  Models <- MCModels
  SessionOf <- MCSessionOf
  Burst = 1
  Window = 2
  Tolerance = 1
  MaxPending = 1
  MaxReviews = 1
  MaxClock = 2
  MaxAttempts = 2
  MaxReceipts = 2
  MaxMishaps = 1
SYMMETRY Symmetry
CHECK_DEADLOCK FALSE
INVARIANTS
  SingleFlight
  CallsAreCounted
  ReviewedIsBacked
  Decided
PROPERTIES
  ProposalReused
  VerdictIsFinal
