SPECIFICATION Spec
CONSTANTS
    Prompts = {p1, p2, p3}
    Chats = {chat, group}
    Groups = {group}
    Sessions = {s1, s2, s3}
    None = None
    MaxListed = 2
    MaxOpen = 2
    MaxMishaps = 1
    MaxChanges = 1
SYMMETRY Prompted
CHECK_DEADLOCK FALSE
INVARIANTS
  EachJobWasConfirmed
  LatestCodeWorks
  ListedTarget
