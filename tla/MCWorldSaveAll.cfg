SPECIFICATION Spec
CONSTANTS
  p1 = p1
  p2 = p2
  w1 = w1
  w2 = w2
  Peers = {p1, p2}
  Worlds = {w1, w2}
  Nameless = {}
  Pinned = {w2}
  Stored = {w1}
  Overlap = TRUE
  Silent = TRUE
  MaxEdits = 2
  MaxQueue = 1
  MaxJoins = 2
  MaxRounds = 1
  NoWorld = NoWorld
  NoEdit = NoEdit
  NoJob = NoJob
  NoFile = NoFile
  Torn = Torn
SYMMETRY PeerSymmetry
INVARIANTS
  TypeOK
  HandlerPointerValid
  OwnWorldOnly
  MarkedEditsSafe
CHECK_DEADLOCK FALSE
