SPECIFICATION Spec
CONSTANTS
  orders = orders
  users = users
  w1 = w1
  w2 = w2
  Topics = {orders, users}
  Workers = {w1, w2}
  OutCap = 1
  EventsCap = 1
  FirstCursor = 0
  MaxEvents = 2
  MaxStops = 2
SYMMETRY Symmetry
INVARIANTS
  TypeOK
  CursorNeverSkips
  NothingSkipped
  CleanShutdownCommitsAll
PROPERTIES
  ImplementsDelivery
