SPECIFICATION FairSpec
CONSTANTS
  w1 = w1
  w2 = w2
  Workers = {w1, w2}
  N = 3
  Undecodable = {3}
  Unstorable = {2}
  DedupEnabled = TRUE
  KafkaEnabled = TRUE
  FlowBatchSize = 2
  MaxRestarts = 2
  MaxUnanswered = 1
INVARIANTS
  TypeOK
  AckedIsDurable
  SeenIsDurable
  ForwardedIsPersisted
  DuplicatesHaveACause
  NothingDropped
PROPERTIES
  ImplementsDelivery
  EventuallyFinished
