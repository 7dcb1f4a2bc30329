----------------------------- MODULE RtmpChunk -----------------------------
(***************************************************************************)
(* The chunk layer of RTMP: a peer cuts messages into chunks, the bytes    *)
(* reach the connection in reads of any length, and the parser of          *)
(* libcpputil_rtmp.cpp (processInputBuffer) puts the messages together.    *)
(*                                                                         *)
(* The stream is a sequence of numbers, one for each field: the basic      *)
(* header fmt * 64 + channel, an extension of the channel, a timestamp, a  *)
(* length, a type, a stream id, or one unit of a body.  Nothing marks the  *)
(* kind of a number: a parser that is one field off reads whatever is      *)
(* there, as the code does.                                                *)
(***************************************************************************)
EXTENDS Integers, Sequences, SequencesExt

CONSTANTS
  Channels,      \* the chunk streams the peer sends messages on
  MaxChannels,   \* _RTMP_MAX_CHANNELS
  Lengths,       \* lengths of messages
  Times,         \* timestamps
  ChunkSizes,    \* chunk sizes a sender may announce
  DefaultSize,   \* RTMP_DEFAULT_CHUNKSIZE
  MaxBuffered,   \* m_nMaxRTMPPacketSize
  MaxMessages,   \* bound: messages sent, chunk size messages among them
  MayRefuse      \* the callbacks may answer -1

ControlChannel == 2
ChunkSizeType == 1
MediaType == 9
ExtMark == 16777215                        \* 0xffffff
\* the entries of prevHeaders and m_PktIoBufs that the peer's channels have
Slots == {c \in Channels \union {ControlChannel} : c < MaxChannels}

ASSUME ChannelsAssumption == /\ Channels \subseteq Nat
                             /\ \A c \in Channels : ControlChannel < c /\ c < 65600
                             /\ MaxChannels \in Nat /\ MaxChannels > ControlChannel
ASSUME HeadersAssumption == Lengths \subseteq Nat /\ Times \subseteq Nat
\* a buffer takes a header, and a chunk of the size that nobody has announced
ASSUME SizesAssumption == /\ ChunkSizes \subseteq Nat \ {0}
                          /\ MaxBuffered \in Nat /\ MaxBuffered > 2
                          /\ DefaultSize \in 1 .. MaxBuffered

VARIABLES
  chunkSizeOut, \* the sender: m_ChunkSizeOut
  lastHead,     \* the sender: the header it sent last on each channel
  open,         \* the sender: by channel, the message begun and the units of it sent
  started,      \* the sender: messages it has begun
  sent,         \* messages, in the order in which their last unit was sent
  wire,         \* what the network has not delivered yet
  buf,          \* m_buf
  state,        \* m_state.state
  header,       \* m_state.header
  prevHeaders,  \* m_state.prevHeaders
  pktIoBufs,    \* m_state.m_PktIoBufs
  chunkSizeIn,  \* m_state.m_ChunkSizeIn
  got,          \* messages handed to OnRTMPReadCompleted
  closed        \* "no", or why the parser closed the connection

senderVars == <<chunkSizeOut, lastHead, open, started, sent>>
parserVars == <<header, prevHeaders, pktIoBufs, chunkSizeIn, got>>
vars == <<senderVars, wire, buf, state, parserVars, closed>>

(***************************************************************************)
(* Headers.  A cleared header has type 0 (RTMPPacketTypeUnkown).           *)
(***************************************************************************)
Cleared == [fmt |-> 0, ext |-> 0, ch |-> 0, time |-> 0, kind |-> "unknown",
            size |-> 0, type |-> 0, stream |-> 0]
IsValid(h) == h.type # 0

\* _RtmpPacketSize less its first byte, counted in fields
RestOf(fmt) == CASE fmt = 0 -> 4 [] fmt = 1 -> 3 [] fmt = 2 -> 1 [] OTHER -> 0

\* what OnRTMPReadCompleted is told of a header
Meaning(h) == [ch |-> h.ch, time |-> h.time, kind |-> h.kind,
               size |-> h.size, type |-> h.type, stream |-> h.stream]
-----------------------------------------------------------------------------
(***************************************************************************)
(* The sender: the writer of this library, which sends a message at once,  *)
(* or a peer that interleaves the chunks of several messages.              *)
(***************************************************************************)

\* a basic header of one, two or three bytes
Basic(fmt, c) ==
  CASE c < 64 -> <<fmt * 64 + c>>
    [] c \in 64 .. 319 -> <<fmt * 64, c - 64>>
    [] OTHER -> <<fmt * 64 + 1, (c - 64) % 256, (c - 64) \div 256>>

\* the fields in front of a message; as the library does, a header of format 3 does
\* not repeat an extended timestamp
Prefix(fmt, m) ==
  LET marked == fmt # 3 /\ m.time >= ExtMark
      fields == <<IF marked THEN ExtMark ELSE m.time, m.size, m.type, m.stream>>
  IN  Basic(fmt, m.ch) \o SubSeq(fields, 1, RestOf(fmt))
        \o IF marked THEN <<m.time>> ELSE <<>>

\* CAMFBuffer::Write, however its caller cuts the body: in front of every unit but the
\* first that whole chunks precede goes the one byte of a basic header of format 3,
\* which is all it writes, its channels being below 64
Chunked(c, body, size) ==
  [i \in 1 .. Len(body) + (Len(body) - 1) \div size |->
     IF i % (size + 1) = 0 THEN 3 * 64 + c ELSE body[i - i \div (size + 1)]]

\* the units of the n-th message
Body(n, size) == [i \in 1 .. size |-> 1000 * n + i]

\* what the parser has to make of a header of format fmt that follows prev
Sent(c, fmt, time, size, prev) ==
  [ch |-> c, time |-> time, size |-> size, type |-> MediaType, stream |-> 1,
   kind |-> CASE fmt = 3 -> prev.kind
              [] fmt # 3 /\ time >= ExtMark -> "ext"
              [] fmt = 0 /\ time < ExtMark -> "abs"
              [] OTHER -> "relative"]

\* a header may leave out only what the previous one of its channel said
MayUse(fmt, m, prev) ==
  /\ fmt >= 1 => IsValid(prev) /\ prev.stream = m.stream
  /\ fmt >= 2 => prev.size = m.size /\ prev.type = m.type
  /\ fmt = 3  => prev.time = m.time

Idle == [n |-> 0, put |-> 0]
Lesser(a, b) == IF a < b THEN a ELSE b
Completed(m, body) == [head |-> m, body |-> body]

\* SendXXX and the frames of a source: the whole message in one buffer
SendWhole(c, fmt, time, size) ==
  LET m == Sent(c, fmt, time, size, lastHead[c])
      body == Body(started + 1, size)
  IN  /\ started < MaxMessages
      /\ c < 64 /\ fmt < 2 /\ size > 0
      /\ open[c] = Idle
      /\ MayUse(fmt, m, lastHead[c])
      /\ wire' = wire \o Prefix(fmt, m) \o Chunked(c, body, chunkSizeOut)
      /\ lastHead' = [lastHead EXCEPT ![c] = m]
      /\ started' = started + 1
      /\ sent' = Append(sent, Completed(m, body))
      /\ UNCHANGED <<chunkSizeOut, open, buf, state, parserVars, closed>>

\* a peer's next chunk of message n on channel c, of which put units have been sent
PutChunk(c, m, n, put, basic) ==
  LET end == put + Lesser(chunkSizeOut, m.size - put)
  IN  /\ wire' = wire \o basic \o SubSeq(Body(n, m.size), put + 1, end)
      /\ open' = [open EXCEPT ![c] = IF end = m.size THEN Idle
                                                     ELSE [n |-> n, put |-> end]]
      /\ sent' = IF end = m.size /\ m.size > 0
                 THEN Append(sent, Completed(m, Body(n, m.size))) ELSE sent
      /\ UNCHANGED <<chunkSizeOut, buf, state, parserVars, closed>>

PeerBegin(c, fmt, time, size) ==
  LET m == Sent(c, fmt, time, size, lastHead[c])
  IN  /\ started < MaxMessages
      /\ open[c] = Idle
      /\ MayUse(fmt, m, lastHead[c])
      /\ lastHead' = [lastHead EXCEPT ![c] = m]
      /\ started' = started + 1
      /\ PutChunk(c, m, started + 1, 0, Prefix(fmt, m))

PeerContinue(c) ==
  /\ open[c] # Idle
  /\ PutChunk(c, lastHead[c], open[c].n, open[c].put, Basic(3, c))
  /\ UNCHANGED <<lastHead, started>>

\* SendChunkSize: the size counts for everything that is written after the message
SendChunkSize(size) ==
  LET m == [ch |-> ControlChannel, time |-> 0, kind |-> "abs", size |-> 1,
            type |-> ChunkSizeType, stream |-> 0]
  IN  /\ started < MaxMessages
      /\ size # chunkSizeOut
      /\ chunkSizeOut' = size
      /\ wire' = wire \o Prefix(0, m) \o <<size>>
      /\ sent' = Append(sent, Completed(m, <<size>>))
      /\ started' = started + 1
      /\ UNCHANGED <<lastHead, open, buf, state, parserVars, closed>>
-----------------------------------------------------------------------------
(***************************************************************************)
(* The receiver: OnReadCompleted appends what was read and runs            *)
(* processInputBuffer until that needs more than there is.                 *)
(***************************************************************************)

NoPacket == [lenTrans |-> 0, data |-> <<>>]

\* what the parser copies out of the packet it is at
PacketOf(c) == IF c \in Slots /\ pktIoBufs[c] # NoPacket THEN pktIoBufs[c]
               ELSE [lenTrans |-> header.size, data |-> <<>>]
Required(c) == Lesser(chunkSizeIn, PacketOf(c).lenTrans - Len(PacketOf(c).data))

\* what m_PktIoBufs keeps of a packet: nothing once it is whole
IsWhole(c, data) == Len(data) >= PacketOf(c).lenTrans
\* Mutant of Kept: the buffer of a whole packet is not taken out.
KeptWhole(c, data) == [lenTrans |-> PacketOf(c).lenTrans, data |-> data]
Kept(c, data) == IF IsWhole(c, data) THEN NoPacket
                 ELSE [lenTrans |-> PacketOf(c).lenTrans, data |-> data]

\* Mutant of DataNeeded: the end of a message is not shorter than a chunk.
DataNeededWholeChunk == IF header.size = 0 \/ header.ch >= MaxChannels THEN 0
                        ELSE chunkSizeIn
DataNeeded == IF header.size = 0 \/ header.ch >= MaxChannels THEN 0
              ELSE Required(header.ch)

\* the DataLength that the handler of the current state waits for
Needed ==
  CASE state = "RecvHandeshake0" -> 2
    [] state = "RecvHandeshake1" -> 1
    [] state = "NewPacket" -> 1
    [] state = "ExtHeader" -> header.ext
    [] state = "PartHeader" -> RestOf(header.fmt)
    [] state = "ExtTimmer" -> 1
    [] state = "AmfData" -> DataNeeded

Running == closed = "no" /\ Len(buf) >= Needed
Blocked == closed = "no" /\ Len(buf) < Needed

Skip(n) == buf' = SubSeq(buf, n + 1, Len(buf))

Answers == IF MayRefuse THEN {0, -1} ELSE {0}

TooMuch == Len(buf) > MaxBuffered

\* OnReadCompleted: too much unread data closes the connection before it is appended to
Read(n) ==
  /\ Blocked
  /\ IF TooMuch
     THEN closed' = "too large" /\ UNCHANGED buf
     ELSE buf' = buf \o SubSeq(wire, 1, n) /\ UNCHANGED closed
  /\ wire' = SubSeq(wire, n + 1, Len(wire))
  /\ UNCHANGED <<senderVars, state, parserVars>>

processRecvHandshake0(answer) ==
  /\ Running /\ state = "RecvHandeshake0"
  /\ Skip(2)
  /\ IF answer = -1 THEN closed' = "refused" /\ UNCHANGED state
                    ELSE state' = "RecvHandeshake1" /\ UNCHANGED closed
  /\ UNCHANGED <<senderVars, wire, parserVars>>

processRecvHandshake1(answer) ==
  /\ Running /\ state = "RecvHandeshake1"
  /\ Skip(1)
  /\ IF answer = -1 THEN closed' = "refused" /\ UNCHANGED state
                    ELSE state' = "NewPacket" /\ UNCHANGED closed
  /\ UNCHANGED <<senderVars, wire, parserVars>>

\* the header that shorter ones of a channel rest on, if there is one
Previous(c) == IF c \in Slots THEN prevHeaders[c] ELSE Cleared

processInitialHeader ==
  LET fmt == buf[1] \div 64
      c == buf[1] % 64
  IN  /\ Running /\ state = "NewPacket"
      /\ Skip(1)
      /\ IF c > 1 /\ fmt = 3 /\ IsValid(Previous(c))
         THEN header' = Previous(c) /\ state' = "AmfData"
         ELSE /\ header' = [Cleared EXCEPT !.fmt = fmt, !.ch = c,
                                           !.ext = IF c > 1 THEN 0 ELSE c + 1]
              /\ state' = IF c > 1 THEN "PartHeader" ELSE "ExtHeader"
      /\ UNCHANGED <<senderVars, wire, prevHeaders, pktIoBufs, chunkSizeIn, got, closed>>

processExtHeader ==
  /\ Running /\ state = "ExtHeader"
  /\ header' = [header EXCEPT !.ch = IF header.ext = 1 THEN buf[1] + 64
                                     ELSE buf[2] * 256 + buf[1] + 64]
  /\ Skip(header.ext)
  /\ state' = "PartHeader"
  /\ UNCHANGED <<senderVars, wire, prevHeaders, pktIoBufs, chunkSizeIn, got, closed>>

\* prevHeaders[ch] = header, for a channel that has one
Remember(h) == prevHeaders' = [c \in Slots |-> IF c = h.ch THEN h ELSE prevHeaders[c]]

\* Mutant of TimmerType: the full header is taken for one of the shorter ones.
TimmerTypeShort(n) == IF n > 4 THEN "abs" ELSE "relative"
\* only a full header has an absolute timestamp
TimmerType(n) == IF n = 4 THEN "abs" ELSE "relative"

\* the fields that are there replace those of the channel's previous header
processRemainingHeader ==
  LET n == RestOf(header.fmt)
      base == IF header.fmt > 0 /\ IsValid(Previous(header.ch))
              THEN Previous(header.ch) ELSE header
      read == [base EXCEPT !.time   = IF n >= 1 THEN buf[1] ELSE @,
                           !.size   = IF n >= 3 THEN buf[2] ELSE @,
                           !.type   = IF n >= 3 THEN buf[3] ELSE @,
                           !.stream = IF n = 4 THEN buf[4] ELSE @]
      marked == n >= 1 /\ read.time = ExtMark
  IN  /\ Running /\ state = "PartHeader"
      /\ Skip(n)
      /\ header' = [read EXCEPT !.kind = IF n = 0 \/ marked THEN @ ELSE TimmerType(n)]
      /\ state' = IF marked THEN "ExtTimmer" ELSE "AmfData"
      /\ IF marked THEN UNCHANGED prevHeaders ELSE Remember(header')
      /\ UNCHANGED <<senderVars, wire, pktIoBufs, chunkSizeIn, got, closed>>

processExtTimmer ==
  /\ Running /\ state = "ExtTimmer"
  /\ Skip(1)
  /\ header' = [header EXCEPT !.time = buf[1], !.kind = "ext"]
  /\ Remember(header')
  /\ state' = "AmfData"
  /\ UNCHANGED <<senderVars, wire, pktIoBufs, chunkSizeIn, got, closed>>

\* processData of a header that announces no data: no message comes of it
EmptyData ==
  /\ Running /\ state = "AmfData"
  /\ header.size = 0
  /\ state' = "NewPacket"
  /\ UNCHANGED <<senderVars, wire, buf, parserVars, closed>>

\* processData of a channel the parser has no room for
ChannelTooHigh ==
  /\ Running /\ state = "AmfData"
  /\ header.size > 0 /\ header.ch >= MaxChannels
  /\ closed' = "channel"
  /\ UNCHANGED <<senderVars, wire, buf, state, parserVars>>

NewChunkSize(data) == IF header.type # ChunkSizeType THEN chunkSizeIn
                      ELSE IF data[1] > 0 THEN data[1] ELSE DefaultSize

\* a complete message: a chunk size counts from here on, then the callback runs
Complete(data, answer) ==
  /\ chunkSizeIn' = NewChunkSize(data)
  /\ got' = Append(got, Completed(Meaning(header), data))
  /\ closed' = IF answer = -1 THEN "refused" ELSE closed
  /\ header' = Cleared

\* processData: one chunk is moved to its channel's buffer when all of it is there
processData(answer) ==
  LET c == header.ch
      n == Required(c)
      data == PacketOf(c).data \o SubSeq(buf, 1, n)
  IN  /\ Running /\ state = "AmfData"
      /\ header.size > 0 /\ c < MaxChannels
      /\ Skip(n)
      /\ pktIoBufs' = [i \in Slots |-> IF i = c THEN Kept(c, data) ELSE pktIoBufs[i]]
      /\ state' = "NewPacket"
      /\ \/ IsWhole(c, data) /\ Complete(data, answer)
         \/ ~IsWhole(c, data) /\ answer = 0 /\ UNCHANGED <<header, chunkSizeIn, got, closed>>
      /\ UNCHANGED <<senderVars, wire, prevHeaders>>
-----------------------------------------------------------------------------
Init ==
  /\ chunkSizeOut = DefaultSize
  /\ lastHead = [c \in Channels |-> Meaning(Cleared)]
  /\ open = [c \in Channels |-> Idle]
  /\ started = 0
  /\ sent = <<>>
  /\ wire = <<3, 0, 0>>      \* C0, C1 and, in time, C2
  /\ buf = <<>>
  /\ state = "RecvHandeshake0"
  /\ header = Cleared
  /\ prevHeaders = [c \in Slots |-> Cleared]
  /\ pktIoBufs = [c \in Slots |-> NoPacket]
  /\ chunkSizeIn = DefaultSize
  /\ got = <<>>
  /\ closed = "no"

\* a sender only adds to the wire, which the parser does not look at: its steps while
\* the parser works are those it could take when the parser is through
Send ==
  /\ Blocked
  /\ \/ \E c \in Channels, fmt \in 0 .. 3, time \in Times, size \in Lengths :
          SendWhole(c, fmt, time, size) \/ PeerBegin(c, fmt, time, size)
     \/ \E c \in Channels : PeerContinue(c)
     \/ \E size \in ChunkSizes : SendChunkSize(size)

Parse ==
  \/ \E answer \in Answers : \/ processRecvHandshake0(answer)
                             \/ processRecvHandshake1(answer)
                             \/ processData(answer)
  \/ processInitialHeader
  \/ processExtHeader
  \/ processRemainingHeader
  \/ processExtTimmer
  \/ EmptyData
  \/ ChannelTooHigh

Next == Send \/ (\E n \in 1 .. Len(wire) : Read(n)) \/ Parse
Spec == Init /\ [][Next]_vars
-----------------------------------------------------------------------------
(***************************************************************************)
(* Properties.                                                             *)
(***************************************************************************)

\* The parser's variables have their types, and only a channel in the middle of a
\* message has a buffer.
HeaderType == [fmt : 0 .. 3, ext : 0 .. 2, ch : Nat, time : Nat,
               kind : {"unknown", "abs", "relative", "ext"},
               size : Nat, type : Nat, stream : Nat]
TypeOK ==
  /\ state \in {"RecvHandeshake0", "RecvHandeshake1", "NewPacket", "ExtHeader",
                "PartHeader", "ExtTimmer", "AmfData"}
  /\ header \in HeaderType
  /\ \A c \in DOMAIN prevHeaders : prevHeaders[c] \in HeaderType
  /\ \A c \in DOMAIN pktIoBufs : /\ pktIoBufs[c].lenTrans \in Nat
                                 /\ \/ pktIoBufs[c] = NoPacket
                                    \/ Len(pktIoBufs[c].data) \in 1 .. pktIoBufs[c].lenTrans - 1
  /\ chunkSizeIn \in Nat \ {0}

\* Whatever the cuts of the reads, the interleaving of channels, the headers left out
\* and the chunk sizes announced in between, the messages handed to
\* OnRTMPReadCompleted are those sent, whole, with the meaning their sender gave
\* them and in the order of their last units.
ReceivedAsSent == IsPrefix(got, sent)

\* The parser does not hold a message back: when it waits for more and nothing is
\* under way, every message that was sent completely has been handed on.  Nor does it
\* close the connection of a peer that has kept to channels below _RTMP_MAX_CHANNELS
\* and to chunks that fit m_nMaxRTMPPacketSize, however much it reads at once.
LegalPeer == /\ \A c \in Channels : IsValid(lastHead[c]) => c < MaxChannels
             /\ \A size \in ChunkSizes : size <= MaxBuffered
NothingHeldBack ==
  /\ Blocked /\ wire = <<>> => got = sent
  /\ LegalPeer => closed \in {"no", "refused"}
=============================================================================
