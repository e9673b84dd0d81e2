SPECIFICATION FairSpec
CONSTANTS
  w1 = w1
  w2 = w2
  w3 = w3
  order = order
  user = user
  NoSchema = NoSchema
  Callers = {w1, w2, w3}
  IDs = {order, user}
  Unparsable = {user}
  MaxFetches = 2
INVARIANTS
  TypeOK
  RightSchema
  FetchedOnce
PROPERTIES
  GetReturns
