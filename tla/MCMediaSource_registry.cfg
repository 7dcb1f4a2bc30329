SPECIFICATION Spec
CONSTANTS
    s1 = s1
    s2 = s2
    s3 = s3
    n1 = n1
    n2 = n2
    None = none
    Sessions = {s1, s2, s3}
    Names = {n1}
    Publishers = {s1, s2}
    MaxPlays <- OnePlayer
    MaxFrames = 1
    UseClientID = {TRUE}
    MayRelease = FALSE
INVARIANTS TypeOK RegisteredIsServed SourceContextAlive HeardWasAsked
CHECK_DEADLOCK FALSE
