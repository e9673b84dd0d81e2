SPECIFICATION FairSpec
CONSTANTS
  orders = orders
  users = users
  ticker = ticker
  final = final
  Topics <- MCTopics
  Flushers <- MCFlushers
  Origin = 5
  MaxSeq = 4
INVARIANTS
  LowWater
PROPERTIES
  ImplementsLowWaterMark
  AdvanceIsPersisted
