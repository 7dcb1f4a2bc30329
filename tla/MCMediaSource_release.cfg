SPECIFICATION FairSpec
CONSTANTS
    s1 = s1
    s2 = s2
    s3 = s3
    n1 = n1
    n2 = n2
    None = none
    Sessions = {s1, s2}
    Names = {n1}
    Publishers = {s1, s2}
    MaxPlays <- LatePlay
    MaxFrames = 0
    UseClientID = {TRUE}
    MayRelease = TRUE
PROPERTY ReleasedIsClosed
CHECK_DEADLOCK FALSE
