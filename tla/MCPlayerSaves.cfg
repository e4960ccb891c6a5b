SPECIFICATION FairSpec
CONSTANTS
  p1 = p1
  p2 = p2
  a1 = a1
  a2 = a2
  Peers = {p1}
  Accounts = {a1}
  Registered = {a1}
  Overlap = TRUE
  MaxEdits = 2
  MaxQueue = 1
  MaxSessions = 1
  MaxRounds = 1
  Ends = {FALSE, TRUE}
  NoName = NoName
  NoData = NoData
  NoJob = NoJob
  NoFile = NoFile
  Torn = Torn
PROPERTIES
  EndedSessionIsSaved
INVARIANTS
  EditsSafe
  TriggerSaves
CHECK_DEADLOCK FALSE
