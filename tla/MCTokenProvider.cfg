SPECIFICATION Spec
CONSTANTS
  stream = stream
  schema = schema
  probe = probe
  Callers = {stream, schema, probe}
  Lifetimes = {2, 4}
  DefaultTTL = 5
  RefreshAhead = 2
  MaxLatency = 1
  MaxTime = 7
  MaxTokens = 3
SYMMETRY Symmetry
INVARIANTS
  TypeOK
PROPERTIES
  ReturnedIsValid
  CachedNeverOlder
