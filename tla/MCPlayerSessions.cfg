SPECIFICATION Spec
CONSTANTS
  p1 = p1
  p2 = p2
  a1 = a1
  a2 = a2
  Peers = {p1, p2}
  Accounts = {a1, a2}
  Registered = {a1}
  Overlap = TRUE
  MaxEdits = 2
  MaxQueue = 1
  MaxSessions = 2
  MaxRounds = 0
  Ends = {}
  NoName = NoName
  NoData = NoData
  NoJob = NoJob
  NoFile = NoFile
  Torn = Torn
SYMMETRY PeerSymmetry
INVARIANTS
  TypeOK
  OwnEditsOnly
  OneSession
  EditsSafe
CHECK_DEADLOCK FALSE
