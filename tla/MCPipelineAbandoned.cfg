SPECIFICATION Spec
CONSTANTS
  orders = orders
  users = users
  w1 = w1
  w2 = w2
  Topics = {orders}
  Workers = {w1}
  OutCap = 1
  EventsCap = 1
  FirstCursor = 0
  MaxEvents = 2
  MaxStops = 1
INVARIANTS
  AbandonedIsRedelivered
