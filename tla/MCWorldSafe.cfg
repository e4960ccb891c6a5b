SPECIFICATION FairSpec
CONSTANTS
  p1 = p1
  p2 = p2
  w1 = w1
  w2 = w2
  Peers = {p1, p2}
  Worlds = {w1, w2}
  Nameless = {p2}
  Pinned = {}
  Stored = {w1}
  Overlap = FALSE
  Silent = FALSE
  MaxEdits = 2
  MaxQueue = 1
  MaxJoins = 2
  MaxRounds = 0
  NoWorld = NoWorld
  NoEdit = NoEdit
  NoJob = NoJob
  NoFile = NoFile
  Torn = Torn
INVARIANTS
  WorldEditsSafe
PROPERTIES
  UnloadedIsSaved
CHECK_DEADLOCK FALSE
