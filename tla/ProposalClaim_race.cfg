SPECIFICATION ClaimSpec
CONSTANTS
  a = a  b = b  c = c
  NoFile = NoFile
  Procs <- MCProcs
  PidOf <- DistinctPids
  Mortal <- MCProcs
  Inodes <- FourInodes
  ReuseInodes = FALSE
  ConcurrentRecovery = TRUE
  EmptyClaims = FALSE
  MaxKills = 1
  MaxFaults = 0
CHECK_DEADLOCK FALSE
INVARIANTS
  AtMostOneHolder
