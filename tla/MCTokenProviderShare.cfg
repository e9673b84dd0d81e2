SPECIFICATION Spec
CONSTANTS
  stream = stream
  schema = schema
  probe = probe
  Callers = {stream, probe}
  Lifetimes = {4}
  DefaultTTL = 5
  RefreshAhead = 2
  MaxLatency = 1
  MaxTime = 2
  MaxTokens = 2
INVARIANTS
  ConcurrentCallersShare
