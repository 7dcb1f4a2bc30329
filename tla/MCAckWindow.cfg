\* The peer may have sent all it may send, or wait for a report after the count
\* has started again.
CHECK_DEADLOCK FALSE
SPECIFICATION Spec
CONSTANTS
  Word = 13
  Limit = 8
  DefaultWindow = 3
  Windows <- SomeWindows
  Sizes <- SomeSizes
  MaxRead = 2
  Handshake = 2
  StartBytes = 2
  MaxSent = 13
  MaxRefused = 1
INVARIANTS TypeOK CountIsExact PeerIsNotStuck
PROPERTY ReportsGoOn
