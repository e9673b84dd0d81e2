SPECIFICATION FairSpec
CONSTANTS
  orders = orders
  users = users
  w1 = w1
  w2 = w2
  Topics = {orders}
  Workers = {w1, w2}
  OutCap = 1
  EventsCap = 1
  FirstCursor = 1
  MaxEvents = 3
  MaxStops = 2
PROPERTIES
  CommittedTopicLosesNothing
  ShutdownCompletes
