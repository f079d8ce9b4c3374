SPECIFICATION FairSpec
CONSTANTS
  h1 = h1  h2 = h2  p1 = p1  p2 = p2  t1 = t1  t2 = t2
  b1 = b1  b2 = b2  old = old  ext = ext
  Index = Index  Absent = Absent  None = None  OldKey = OldKey  ExtLine = ExtLine
  Hooks <- MCHooks1
  Proposals <- MCProposals
  Topics <- MCTopics
  Bodies <- MCBodies
  ExtBodies <- MCExtBodies
  TopicOf <- MCTopicOf
  BodyOf <- MCBodyOf
  Creates <- MixedCreates
  InitMem <- MixedMem
  InitLedger <- MixedLedger
  Mine <- MineAll
  WindowWrites = FALSE
  CommitFaults = FALSE
  MaxExt = 1
  MaxFaults = 1
  MaxCrashes = 1
INVARIANTS
  TypeOK
  OwnershipJustified
PROPERTIES
  OnlyJournalledWrites
  NoOrphanedWrite
  AppliesAtomically
  RecoveryConverges
