----------------------------- MODULE MCMediaRelay -----------------------------
(* Instances of MediaRelay: what publishers send, and who does what.        *)
EXTENDS MediaRelay

CONSTANTS p1, p2

SameSize == [p \in Players |-> 2]
OwnChannel == [video |-> 6, audio |-> 4]

V(body, t) == [media |-> "video", body |-> body, time |-> t]
A(body, t) == [media |-> "audio", body |-> body, time |-> t]

\* New parameters in the middle, frames before the parameters, a header without
\* parameters, a broken frame; audio with a new configuration, over the field's limit,
\* and ahead of video.
Some == {
    [mode |-> "relative", rest |->
      <<V("header", 0), V("key", 0), V("inter", 1), V("header", 2), V("key", 2)>>],
    [mode |-> "absolute", rest |->
      <<V("key", 0), V("header", 0), V("inter", 0), V("key", 1), V("broken", 1)>>],
    [mode |-> "absolute", rest |->
      <<V("header", 0), V("key", 0), V("short", 1), V("key", 2)>>],
    [mode |-> "relative", rest |->
      <<A("frame", 0), A("header", 0), A("frame", 1), A("short", 1), A("header", 1), A("frame", 2)>>],
    [mode |-> "absolute", rest |->
      <<A("short", 0), A("frame", 1), A("frame", 3), A("frame", 4)>>],
    [mode |-> "relative", rest |->
      <<A("header", 0), A("frame", 1), V("header", 0), V("key", 0), A("frame", 2)>>]}
OnePause == [p \in Players |-> IF p = p1 THEN 1 ELSE 0]
PlayTwice == [p \in Players |-> IF p = p1 THEN 2 ELSE 1]
===============================================================================
