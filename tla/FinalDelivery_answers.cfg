SPECIFICATION Spec
CONSTANTS
    Turns = {t1, t2}
    Sessions = {s1, s2}
    Paths = {a1, a2}
    MaxArtifacts = 2
    MaxRecords = 2
    MaxUses = 3
    MaxAttempts = 2
    MaxMishaps = 2
    Earlier = Earlier
    MaxEarlier = 2
SYMMETRY Interchanged
CHECK_DEADLOCK FALSE
INVARIANTS
  FilesFollowText
  EvidenceOfDelivery
PROPERTIES
  KeepsContract
