SPECIFICATION Spec
CONSTANTS
  Window = 3
  LoginLimit = 2
  TextLimit = 3
  PacketLimit = 2
  MoveLimit = 4
  MaxTime = 10
  IntSize = 8
  MaxAtOnce = 3
INVARIANTS
  HandledBound
PROPERTIES
  KickIsSpam
CHECK_DEADLOCK FALSE
