---------------------------- MODULE MCRtmpChunk ----------------------------
(* Instances: the chunk layer, and the commands in the messages it carries. *)
EXTENDS RtmpChunk, Amf
SmallAndExtended == {1, ExtMark}

\* Numbers with zeros at either end, strings below and at LongString, the integers at
\* which AMF3 needs one more byte or turns negative.
Simple == {AmfValue("number", d) : d \in {<<0, 0, 0, 0, 0, 0, 240, 63>>, <<8, 0, 0, 0, 0, 0, 0, 1>>}}
     \cup {AmfValue("boolean", TRUE), AmfNull, AmfValue("undefined", <<>>)}
     \cup {AmfValue("string", s) : s \in {<<>>, <<97>>, <<97, 0>>, <<97, 98, 99, 100>>}}
     \cup {AmfValue("date", <<1, 2, 3, 4, 5, 6, 7, 8>>), AmfValue("unsupported", <<>>)}
Integers3 == {AmfValue("integer", n) : n \in {0, 127, 128, 16383, 16384, 2097151, 2097152,
                                              268435455, -268435456, -1}}
Names == {<<>>, <<97>>, <<97, 98>>}
Objects == {AmfValue("object", fs) : fs \in {<<>>} \cup {<<Field(n, v)>> : n \in Names, v \in Simple}}
      \cup {AmfValue(t, <<Field(<<97>>, v), Field(<<98>>, w)>>) :
              t \in {"object", "mixed array"}, v \in Simple, w \in Simple}
Arrays == {AmfValue("array", Unnamed(<<v, w>>)) : v \in Simple, w \in Simple}
\* An object of objects with a field before and one behind.
Nested == {AmfValue("object", <<Field(<<97>>, v), Field(<<98>>, o), Field(<<99>>, AmfValue("boolean", TRUE))>>) :
             v \in Simple \ {AmfValue("unsupported", <<>>)}, o \in Objects \cup Arrays}
SomeCommands == {<<v, w, AmfValue("boolean", TRUE)>> : v \in Simple \cup Integers3 \cup Objects \cup Arrays \cup Nested,
                                                       w \in {AmfNull, AmfValue("integer", 128)}}

\* Commands are read on a connection of their own, before any chunk: the decoder does not
\* look at the parser's state nor the parser at the decoder's.
BothInit == Init /\ AmfInit
Untouched == wire = <<3, 0, 0>> /\ state = "RecvHandeshake0" /\ buf = <<>>
\* Headers that would show nothing more are left out: behind a channel that has no room
\* nothing is begun, since the parser closes there, and one header on it is enough; a
\* time makes no difference to a message without bytes.
SomeHeaders ==
    /\ started' # started => \A c \in Channels \ Slots : ~IsValid(lastHead[c])
    /\ \A c \in Channels : lastHead'[c] # lastHead[c] =>
         /\ lastHead'[c].size = 0 => lastHead'[c].time = 1
         /\ c >= MaxChannels => lastHead'[c] = Sent(c, 0, 1, 3, lastHead[c])
Chunks == AmfInit /\ Next /\ SomeHeaders /\ UNCHANGED <<command, fields>>
Command == AmfInit /\ Untouched /\ ReadCommand /\ UNCHANGED vars
ChunksAndCommands == BothInit /\ [][Chunks \/ Command]_<<vars, command, fields>>
=============================================================================
