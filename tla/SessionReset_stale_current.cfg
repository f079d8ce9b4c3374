SPECIFICATION Spec
CONSTANTS
  q1 = q1  q2 = q2
  sa = sa  sb = sb  sc = sc  sd = sd  opus = opus  m1 = m1  m2 = m2  m3 = m3  m4 = m4
  None = None
  Requests <- MCRequests
  Messages <- MCMessages
  Sessions <- MCSessions
  Models <- MCModels
  Kinds <- MCKinds
  Fresh <- MCFresh
  InitSession = sa
  Burst = 2
  Window = 1
  Tolerance = 0
  MaxPending = 2
  MaxReviews = 1
  MaxClock = 0
  MaxMishaps = 0
CHECK_DEADLOCK FALSE
PROPERTIES
  RestoresPrevious
