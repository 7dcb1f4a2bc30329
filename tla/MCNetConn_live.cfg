SPECIFICATION FairSpec
CONSTANTS
  c1 = c1
  c2 = c2
  b1 = b1
  b2 = b2
  b3 = b3
  Conns = {c1, c2}
  Bufs = {b1}
  Target <- OneTarget
  Size <- OneUnit
  MaxConnections = 2
  MaxSends = 0
  MaxWritting = 9
  MaxCtxs = 3
  Timeout = 1
  MayDecline = FALSE
  Closable = {c1}
  MayStop = FALSE
  MayBreak = FALSE
  Talkers = {c1, c2}
PROPERTIES ClosingIsClosed QueuedIsSent ReadableIsRead
CHECK_DEADLOCK FALSE
