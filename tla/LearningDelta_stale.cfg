SPECIFICATION FairSpec
CONSTANTS
  s1 = s1  s2 = s2  p1 = p1  p2 = p2  p3 = p3
  None = None
  Sessions <- OneSession
  Listed <- Both
  SessionOf <- BothOf
  Cap = 1
  MaxDeploys = 1
  MaxMishaps = 0
PROPERTIES
  EventuallyShown
