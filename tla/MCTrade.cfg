SPECIFICATION Spec
CONSTANTS
  p1 = p1
  p2 = p2
  x = x
  y = y
  Players = {p1, p2}
  Items = {x, y}
  Cap = 2
  MaxOffered = 3
  Slots <- MCSlots
  Initial <- MCInitial
  NoDeal = NoDeal
  Typed <- MCTyped
  MaxRare = 1
INVARIANTS
  TypeOK
  Conserved
  ConfirmedInWorld
