SPECIFICATION FairSpec
CONSTANTS
  MaxAttempt = 70
  BatchSize = 2
  OutCap = 1
  Cursors = {0, 1}
  Tip = 1
  MaxEvents = 4
  MaxBreaks = 2
INVARIANTS
  TypeOK
  StreamOrder
  DelaysInOrder
  NoLostWakeup
  WindowBounds
PROPERTIES
  ImplementsTopicStream
  EverythingEmitted
  RunReturns
