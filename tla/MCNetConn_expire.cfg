SPECIFICATION Spec
CONSTANTS
  c1 = c1
  c2 = c2
  b1 = b1
  b2 = b2
  b3 = b3
  Conns = {c1, c2}
  Bufs = {b1}
  Target <- OneTarget
  Size <- TwoUnits
  MaxConnections = 2
  MaxSends = 5
  MaxWritting = 9
  MaxCtxs = 10
  Timeout = 2
  MayDecline = TRUE
  Closable = {}
  MayStop = FALSE
  MayBreak = FALSE
  Talkers = {}
PROPERTIES ExpiredAreClosed
CHECK_DEADLOCK FALSE
