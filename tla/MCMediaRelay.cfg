SPECIFICATION Spec
CONSTANTS
    p1 = p1
    p2 = p2
    Players = {p1, p2}
    ChunkSize <- SameSize
    DefaultSize = 3
    Channel <- OwnChannel
    Mark = 3
    Publications <- Some
    MaxPlays <- PlayTwice
    MaxPauses <- OnePause
    MaxRefused = 1
INVARIANTS TypeOK StartsDecodable NoneSkipped TimesForward CutAsTold
\* The messages and commands of an instance are finite.
CHECK_DEADLOCK FALSE
