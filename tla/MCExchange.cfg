SPECIFICATION Spec
CONSTANTS
  a = a
  b = b
  customer = customer
  editor = editor
  Peers = {customer, editor}
  Editors = {editor}
  Customers = {customer}
  Items = {a, b}
  Cap = 2
  Slots = 1
  PerPage = 1
  InStacks <- MCInStacks
  OutStacks <- MCOutStacks
  Durations = {0, 1}
  NoStack = NoStack
  NoPeer = NoPeer
  Torn = Torn
  MaxOffers = 2
  MaxPage = 2
  MaxTime = 2
  MaxCrashes = 1
INVARIANTS
  TypeOK
  OffersOnDisk
PROPERTIES
  AddedIsShown
  FreshDeal
