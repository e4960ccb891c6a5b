SPECIFICATION Spec
CONSTANTS
  p1 = p1
  p2 = p2
  Peers = {p1, p2}
  Batch = 3
  MaxConns = 3
  MaxPackets = 1
  MaxThrows = 1
INVARIANTS
  TypeOK
  OwnPlayer
  NoLeak
  NoUseAfterFree
PROPERTIES
  TickNotStarved
