SPECIFICATION Spec
CONSTANTS
  w1 = w1
  w2 = w2
  Workers = {w1, w2}
  N = 1
  Undecodable = {}
  Unstorable = {}
  DedupEnabled = FALSE
  KafkaEnabled = TRUE
  FlowBatchSize = 2
  MaxRestarts = 0
  MaxUnanswered = 1
INVARIANTS
  RetryWritesOnce
CHECK_DEADLOCK FALSE
