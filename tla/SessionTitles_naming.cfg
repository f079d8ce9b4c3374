SPECIFICATION FairSpec
CONSTANTS
  u1 = u1  k1 = k1  k2 = k2
  Proposed = Proposed
  Worker = Worker
  None = None
  Users <- MCUsers
  Tasks <- MCTasks
  MaxTracked = 1
  MaxMishaps = 2
CHECK_DEADLOCK FALSE
INVARIANTS
  TypeOK
  AtMostTwoCalls
PROPERTIES
  VisibleTitleStands
  LockIsReleased
