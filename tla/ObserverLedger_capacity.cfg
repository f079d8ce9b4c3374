SPECIFICATION ObserverSpec
CONSTANTS
  index = index  ta = ta
  Names <- MCNames
  Index = index
  Bodies = {b1, b2}
  Observers = {p, q}
  Absent = Absent  Corrupt = Corrupt
  Empty = Empty
  MaxFiles = 2
  MaxTopics = 1
  MaxEvents = 2
  Retention = 0
  Bytes <- MCBytes
  MaxBytes = 3
  MaxHooks = 3
  MaxChanges = 2
  MaxTroubles = 1
SYMMETRY Interchanged
CHECK_DEADLOCK FALSE
INVARIANTS
  CapBoundsEvents
