SPECIFICATION Spec
CONSTANTS
  c1 = c1
  c2 = c2
  b1 = b1
  b2 = b2
  b3 = b3
  Conns = {c1}
  Bufs = {b1, b2, b3}
  Target <- OneTarget
  Size <- TwoOneOne
  MaxConnections = 1
  MaxSends = 1
  MaxWritting = 2
  MaxCtxs = 10
  Timeout = 1
  MayDecline = TRUE
  Closable = {c1}
  MayStop = TRUE
  MayBreak = TRUE
  Talkers = {}
INVARIANTS TypeOK StreamInOrder BytesAccounted ReferencesOwned RemovedStaysOut
CHECK_DEADLOCK FALSE
