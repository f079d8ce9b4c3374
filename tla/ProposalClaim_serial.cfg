SPECIFICATION FairClaimSpec
CONSTANTS
  a = a  b = b  c = c
  NoFile = NoFile
  Procs <- MCProcs
  PidOf <- MCPidOf
  Mortal <- OnlyA
  Inodes <- FourInodes
  ReuseInodes = FALSE
  ConcurrentRecovery = FALSE
  EmptyClaims = FALSE
  MaxKills = 1
  MaxFaults = 1
CHECK_DEADLOCK FALSE
INVARIANTS
  HolderOnDisk
PROPERTIES
  RecoversCrashedOwner
