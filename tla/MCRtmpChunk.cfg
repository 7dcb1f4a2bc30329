CONSTANTS
  Channels = {3, 64, 384}
  MaxChannels = 125
  Lengths = {0, 3}
  Times <- SmallAndExtended
  ChunkSizes = {1, 3}
  DefaultSize = 2
  MaxBuffered = 3
  MaxMessages = 3
  MayRefuse = TRUE
  LongString = 4
  Commands <- SomeCommands
SPECIFICATION ChunksAndCommands
INVARIANTS TypeOK ReceivedAsSent NothingHeldBack CommandReadAsMeant
CHECK_DEADLOCK FALSE
