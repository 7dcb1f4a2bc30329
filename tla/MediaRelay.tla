------------------------------ MODULE MediaRelay ------------------------------
(***************************************************************************)
(* How one source of libmediasrv (CMdSource) hands the frames of its       *)
(* publisher to its players: SendRTMP_H264 and SendRTMP_AAC, which decode  *)
(* a message, and SendETS_H264 and SendETS_AAC, which cut a frame into     *)
(* chunks once and send it to every client in the list.                    *)
(*                                                                         *)
(* A player is started by metadata, a sequence header (SPS and PPS, or the *)
(* AAC configuration) and a key frame.  The source keeps these headers in  *)
(* buffers that it makes when they are first needed and drops when the     *)
(* publisher sends new ones.  The copies that wait in the players' queues  *)
(* share the memory of the source's buffer, and the time stamp in it is    *)
(* written again whenever another player is started.                       *)
(*                                                                         *)
(* Media messages are executed in order by the thread of the source        *)
(* (EventBox), so the publisher's next message is read off when that       *)
(* thread is free.  The players' own threads execute their play events,    *)
(* and the network thread their pause commands, at any time.               *)
(***************************************************************************)
EXTENDS Integers, Sequences, FiniteSets

CONSTANTS
    Players,         \* CRTMPNetSession objects that play the source
    ChunkSize,       \* m_ChunkSize of the server a player has connected to
    DefaultSize,     \* 65535, what a size of 0 stands for
    Channel,         \* the chunk stream that the publisher uses for each medium
    Mark,            \* 0xFFFFFF: a time stamp that announces an extended one
    Publications,    \* bound: how the publisher writes time, and the messages it sends
    MaxPlays,        \* bound: play commands, by player
    MaxPauses,       \* bound: pause commands, by player
    MaxRefused       \* bound: the sends that fail

Media == {"video", "audio"}
Modes == {"absolute", "relative"}

\* What a publisher sends: a header or a frame, and the time of its own clock.
Messages ==
    [media : {"video"}, body : {"header", "short", "key", "inter", "broken"}, time : Nat]
    \cup [media : {"audio"}, body : {"header", "short", "frame"}, time : Nat]

ASSUME ConstantsAssumption ==
    /\ IsFiniteSet(Players) /\ ChunkSize \in [Players -> Nat]
    /\ DefaultSize \in Nat \ {0} /\ Mark \in Nat \ {0}
    /\ DOMAIN Channel = Media
    /\ {MaxPlays, MaxPauses} \subseteq [Players -> Nat] /\ MaxRefused \in Nat
    /\ \A p \in Publications : p.mode \in Modes /\ p.rest \in Seq(Messages)

\* Messages i and j of q are on one chunk stream, and none between them is.
Adjoin(q, i, j) ==
    /\ i < j /\ Channel[q[i].media] = Channel[q[j].media]
    /\ \A k \in i + 1 .. j - 1 : Channel[q[k].media] # Channel[q[j].media]

\* The clock of a publisher does not run backwards, and a relative time stamp, the step
\* from one message of a chunk stream to the next, fits its field.
ASSUME ClockAssumption ==
    \A p \in Publications : \A i, j \in DOMAIN p.rest : Adjoin(p.rest, i, j) =>
        /\ p.rest[i].time <= p.rest[j].time
        /\ p.mode = "relative" => p.rest[j].time < p.rest[i].time + Mark

VARIABLES
    pub,        \* the publisher: its clock per medium, how it writes time, what it still sends
    src,        \* the fields of the CMdSource
    mem,        \* the memory of the sequence headers made so far
    job,        \* the frame the source's thread is sending, while it has m_mtxList
    list,       \* m_clientList
    ss,         \* the fields of each player's session
    sent,       \* history: what was put into each player's queue
    read,       \* the time stamps of the items that the network thread has sent
    refused,    \* history: the frames that a player's connection refused
    unsent,     \* history: audio frames counted but not given to SendETS_AAC
    paused      \* history: how often each player has paused

vars == <<pub, src, mem, job, list, ss, sent, read, refused, unsent, paused>>

NoJob == [media |-> "none"]
Headers == [video |-> "avcheader", audio |-> "aacheader"]

\* Something for a player: a frame number, a version of the parameters, the size of
\* the chunks it is cut into (0: it fits any), its memory, and its true time.
Item(k, n, ver, cut, cell, at) ==
    [kind |-> k, n |-> n, ver |-> ver, cut |-> cut, cell |-> cell, at |-> at, key |-> FALSE]

-----------------------------------------------------------------------------
(* The publisher.                                                           *)

\* The next message of the publisher, when the source's thread is free.
Sends(media, bodies) ==
    /\ job = NoJob /\ pub.open /\ pub.rest # <<>>
    /\ Head(pub.rest).media = media /\ Head(pub.rest).body \in bodies

\* How its time is written: the first time stamp on a chunk stream is absolute, later
\* ones are absolute or relative, and one that does not fit the field is extended.
Message ==
    LET m == Head(pub.rest)
        last == pub.clock[Channel[m.media]]
        relative == pub.mode = "relative" /\ last # -1
        value == IF relative THEN m.time - last ELSE m.time
    IN [media |-> m.media, body |-> m.body, value |-> value,
        timer |-> IF value >= Mark THEN "extended"
                  ELSE IF relative THEN "relative" ELSE "absolute"]

Ticked == [pub EXCEPT !.rest = Tail(@), 
                       !.clock[Channel[Head(pub.rest).media]] = Head(pub.rest).time]

\* Mutant of TimeOf: a relative time stamp replaces m_tmChannel.
TimeOfLast(m) == m.value

\* m_tmChannel, and the time of the message: SendRTMP_H264 and SendRTMP_AAC begin so.
TimeOf(m) ==
    IF m.timer = "relative" THEN src.tmChannel[Channel[m.media]] + m.value ELSE m.value
Timed(m) == [src EXCEPT !.tmChannel[Channel[m.media]] = TimeOf(m)]

-----------------------------------------------------------------------------
(* The source's thread: a message of the publisher.                         *)

\* Mutant of VideoHeader: the buffer made of the old parameters is kept.
VideoHeaderKept(s) == [s EXCEPT !.ver["video"] = @ + 1]

\* The parameters are replaced, and the buffer made of the old ones is dropped.
VideoHeader(s) == [s EXCEPT !.ver["video"] = @ + 1, !.buf["video"] = 0]

\* A header too short to hold parameters leaves the old ones, but drops the buffer.
ShortVideoHeader(s) == [s EXCEPT !.buf["video"] = 0]

AudioHeader(s) == [s EXCEPT !.ver["audio"] = @ + 1, !.buf["audio"] = 0]

\* A configuration that cannot be decoded: the default one if there is none yet.
ShortAudioHeader(s) ==
    [s EXCEPT !.ver["audio"] = IF @ = 0 THEN 1 ELSE @, !.buf["audio"] = 0]

HandleHeader ==
    LET m == Message IN
    /\ Sends("video", {"header", "short"}) \/ Sends("audio", {"header", "short"})
    /\ pub' = Ticked
    /\ src' = CASE m.media = "video" /\ m.body = "header" -> VideoHeader(Timed(m))
                [] m.media = "video" /\ m.body = "short" -> ShortVideoHeader(Timed(m))
                [] m.media = "audio" /\ m.body = "header" -> AudioHeader(Timed(m))
                [] m.media = "audio" /\ m.body = "short" -> ShortAudioHeader(Timed(m))
    /\ UNCHANGED <<mem, job, list, ss, sent, read, refused, unsent, paused>>

\* The frame gets a number and the first one sets the origin of time.
Counted(s, media, at) ==
    [s EXCEPT !.queue[media] = @ + 1, !.first = IF @ = -1 THEN at ELSE @]

\* To SendETS_XXX, which takes m_mtxList.
Frame(s, media, body, at) ==
    [media |-> media, n |-> s.queue[media], key |-> body = "key", at |-> at - s.first,
     cut |-> 0, todo |-> list]

\* A frame before its parameters is dropped.
DropFrame ==
    /\ Sends("video", {"key", "inter", "broken"}) \/ Sends("audio", {"frame"})
    /\ src.ver[Head(pub.rest).media] = 0
    /\ pub' = Ticked
    /\ src' = Timed(Message)
    /\ UNCHANGED <<mem, job, list, ss, sent, read, refused, unsent, paused>>

\* A NALU longer than its message: the publisher is closed.
BrokenFrame ==
    /\ Sends("video", {"broken"}) /\ src.ver["video"] # 0
    /\ pub' = [Ticked EXCEPT !.open = FALSE]
    /\ src' = Timed(Message)
    /\ UNCHANGED <<mem, job, list, ss, sent, read, refused, unsent, paused>>

VideoFrame ==
    LET s == Counted(Timed(Message), "video", TimeOf(Message)) IN
    /\ Sends("video", {"key", "inter"}) /\ src.ver["video"] # 0
    /\ pub' = Ticked
    /\ src' = s
    /\ job' = Frame(s, "video", Message.body, TimeOf(Message))
    /\ UNCHANGED <<mem, list, ss, sent, read, refused, unsent, paused>>

\* An audio frame with an extended time stamp is counted, but neither of the branches
\* that call SendETS_AAC is taken.
AudioFrame ==
    LET s == Counted(Timed(Message), "audio", TimeOf(Message)) IN
    /\ Sends("audio", {"frame"}) /\ src.ver["audio"] # 0
    /\ pub' = Ticked
    /\ src' = s
    /\ IF Message.timer = "extended"
       THEN unsent' = unsent \cup {s.queue["audio"]} /\ UNCHANGED job
       ELSE job' = Frame(s, "audio", "frame", TimeOf(Message)) /\ UNCHANGED unsent
    /\ UNCHANGED <<mem, list, ss, sent, read, refused, paused>>

-----------------------------------------------------------------------------
(* The source's thread: one client of the list after the other.             *)

\* Mutant of GetRTMPChunkSize: the configured size is announced, not used.
DefaultChunkSize == DefaultSize

\* CMdSource::GetRTMPChunkSize
GetRTMPChunkSize == IF src.chunkSize # 0 THEN src.chunkSize ELSE DefaultSize

\* EncodeInt24 of (UINT32)(tick - m_firstRTMPFrameTime)
EncodeInt24(at) == at % (Mark + 1)

PastHead(j) == [j EXCEPT !.todo = Tail(@)]

\* The buffers of the frame are made for the first client that takes it, and with them
\* the sequence header if there is none.
Made(j) == IF j.cut = 0 THEN [j EXCEPT !.cut = GetRTMPChunkSize] ELSE j
HeaderCell(j) == IF src.buf[j.media] # 0 THEN src.buf[j.media] ELSE Len(mem) + 1
WithHeader(j) ==
    IF src.buf[j.media] # 0 THEN mem
    ELSE Append(mem, [ver |-> src.ver[j.media], time |-> EncodeInt24(j.at), used |-> 0,
                      cut |-> IF j.media = "video" THEN GetRTMPChunkSize ELSE 0])

\* CreateRtmpH264MetaData: cut when it is first needed and kept for good.
MetaCut == IF src.metaCut # 0 THEN src.metaCut ELSE GetRTMPChunkSize

\* What a client shall be sent with this frame.
NeedsMeta(j, p) == j.media = "video" /\ ~ss[p].sendCodecInfo
NeedsHeader(j, p) == ~ss[p].started[j.media] /\ (j.media = "video" => j.key)
GetsFrame(j, p) == ss[p].started[j.media] \/ NeedsHeader(j, p)
If(c, item) == IF c THEN <<item>> ELSE <<>>
ItemsFor(j, p, m) ==
    LET c == HeaderCell(j) IN
    If(NeedsMeta(j, p), Item("meta", 0, 0, MetaCut, 0, 0))
    \o If(NeedsHeader(j, p), Item(Headers[j.media], j.n, m[c].ver, m[c].cut, c, j.at))
    \o If(GetsFrame(j, p), [Item(j.media, j.n, src.ver[j.media], j.cut, 0, j.at)
                            EXCEPT !.key = j.key])

\* CopySpsPps and CopyAACHeader write the time into the memory all copies share.
Stamped(m, j, p) ==
    IF NeedsHeader(j, p)
    THEN [m EXCEPT ![HeaderCell(j)].time = EncodeInt24(j.at), ![HeaderCell(j)].used = @ + 1]
    ELSE m

\* m_bPlaying, and a frame this client has not been given.
Takes(j, p) == ss[p].playing /\ j.n > ss[p].queue[j.media]

SkipClient ==
    /\ job # NoJob /\ job.todo # <<>> /\ ~Takes(job, Head(job.todo))
    /\ job' = PastHead(job)
    /\ UNCHANGED <<pub, src, mem, list, ss, sent, read, refused, unsent, paused>>

\* A Send that is refused ends the work for this client.  It is refused when the
\* connection is closing or has max_writting_bytes in flight.
ServeClient(r) ==
    LET p == Head(job.todo)
        j == Made(job)
        items == ItemsFor(j, p, WithHeader(j))
        given == IF r = 0 THEN items ELSE SubSeq(items, 1, r - 1)
        kinds == {given[i].kind : i \in DOMAIN given}
        stamps == r # 1 \/ ~NeedsMeta(j, p)
    IN /\ job # NoJob /\ job.todo # <<>> /\ Takes(job, p)
       /\ r \in 0..Len(items)
       /\ r # 0 => Cardinality(UNION {refused[q] : q \in Players}) < MaxRefused
       /\ job' = PastHead(j)
       /\ mem' = IF stamps THEN Stamped(WithHeader(j), j, p) ELSE WithHeader(j)
       /\ src' = [src EXCEPT !.buf[j.media] = HeaderCell(j),
                             !.metaCut = IF NeedsMeta(j, p) THEN MetaCut ELSE @]
       /\ sent' = [sent EXCEPT ![p] = @ \o given]
       /\ refused' = [refused EXCEPT ![p] = IF r = 0 THEN @ ELSE @ \cup {<<j.media, j.n>>}]
       /\ ss' = [ss EXCEPT ![p].queue[j.media] = j.n,
                           ![p].sendCodecInfo = @ \/ "meta" \in kinds,
                           ![p].started[j.media] = @ \/ Headers[j.media] \in kinds,
                           ![p].error = @ \/ r # 0]
       /\ UNCHANGED <<pub, list, read, unsent, paused>>

\* Mutant of FrameDone: the walk over the list stops one short.
FrameDoneEarly ==
    /\ job # NoJob /\ Len(job.todo) <= 1
    /\ job' = NoJob
    /\ UNCHANGED <<pub, src, mem, list, ss, sent, read, refused, unsent, paused>>

FrameDone ==
    /\ job # NoJob /\ job.todo = <<>>
    /\ job' = NoJob
    /\ UNCHANGED <<pub, src, mem, list, ss, sent, read, refused, unsent, paused>>

-----------------------------------------------------------------------------
(* The players.                                                             *)

\* The play event: the size of the chunks is set and announced, ...
PlayTold(p) ==
    LET c == IF ChunkSize[p] # 0 THEN ChunkSize[p] ELSE DefaultSize IN
    /\ ss[p].step = "idle" /\ ss[p].plays < MaxPlays[p]
    /\ src' = [src EXCEPT !.chunkSize = ChunkSize[p]]
    /\ sent' = [sent EXCEPT ![p] = Append(@, Item("chunksize", 0, 0, c, 0, 0))]
    /\ ss' = [ss EXCEPT ![p].step = "told", ![p].plays = @ + 1]
    /\ UNCHANGED <<pub, mem, job, list, read, refused, unsent, paused>>

\* Mutant of PlayListed: a session that is in the list enters it again.
PlayListedAgain(p) ==
    /\ ss[p].step = "told" /\ job = NoJob
    /\ list' = IF ~ss[p].error THEN Append(list, p) ELSE list
    /\ ss' = [ss EXCEPT ![p].step = "listed"]
    /\ UNCHANGED <<pub, src, mem, job, sent, read, refused, unsent, paused>>

\* ... the session enters the list (AddClientSession), ...
PlayListed(p) ==
    LET enters == p \notin {list[i] : i \in DOMAIN list} /\ ~ss[p].error IN
    /\ ss[p].step = "told" /\ job = NoJob
    /\ list' = IF enters THEN Append(list, p) ELSE list
    /\ ss' = [ss EXCEPT ![p].step = "listed"]
    /\ UNCHANGED <<pub, src, mem, job, sent, read, refused, unsent, paused>>

\* ... and is playing.
PlayStarted(p) ==
    /\ ss[p].step = "listed"
    /\ ss' = [ss EXCEPT ![p].step = "idle", ![p].playCalled = TRUE, ![p].playing = TRUE]
    /\ UNCHANGED <<pub, src, mem, job, list, sent, read, refused, unsent, paused>>

\* The pause command, true or false, on the network thread.
Pause(p) ==
    /\ ss[p].playCalled /\ paused[p] < MaxPauses[p]
    /\ paused' = [paused EXCEPT ![p] = @ + 1]
    /\ ss' = [ss EXCEPT ![p].playing = ~@]
    /\ UNCHANGED <<pub, src, mem, job, list, sent, read, refused, unsent>>

Without(i, q) == [k \in 1 .. Len(q) - 1 |-> IF k < i THEN q[k] ELSE q[k + 1]]

\* The end of a session: RemoveClientSession.
Leave(p) ==
    /\ ss[p].step = "idle" /\ job = NoJob
    /\ \E i \in DOMAIN list : list[i] = p /\ list' = Without(i, list)
    /\ ss' = [ss EXCEPT ![p].step = "gone"]
    /\ UNCHANGED <<pub, src, mem, job, sent, read, refused, unsent, paused>>

\* The network thread sends what waits for a player; a sequence header as it is now,
\* which is all that the moment decides.
Deliver(p) ==
    /\ Len(read[p]) < Len(sent[p]) /\ ss[p].step # "gone"
    /\ read' = [read EXCEPT ![p] = @ \o
                  [i \in 1..(Len(sent[p]) - Len(@)) |->
                     LET item == sent[p][Len(read[p]) + i] IN
                     IF item.cell # 0 THEN mem[item.cell].time ELSE EncodeInt24(item.at)]]
    /\ UNCHANGED <<pub, src, mem, job, list, ss, sent, refused, unsent, paused>>

-----------------------------------------------------------------------------
Init ==
    /\ \E p \in Publications :
         pub = [clock |-> [c \in {Channel[m] : m \in Media} |-> -1], open |-> TRUE,
                mode |-> p.mode, rest |-> p.rest]
    /\ src = [ver |-> [m \in Media |-> 0], buf |-> [m \in Media |-> 0], metaCut |-> 0,
              first |-> -1, tmChannel |-> [c \in {Channel[m] : m \in Media} |-> 0],
              queue |-> [m \in Media |-> 0], chunkSize |-> 0]
    /\ mem = <<>> /\ job = NoJob /\ list = <<>> /\ unsent = {}
    /\ ss = [p \in Players |->
               [step |-> "idle", plays |-> 0, playCalled |-> FALSE, playing |-> FALSE,
                sendCodecInfo |-> FALSE, started |-> [m \in Media |-> FALSE],
                queue |-> [m \in Media |-> 0], error |-> FALSE]]
    /\ sent = [p \in Players |-> <<>>] /\ read = [p \in Players |-> <<>>]
    /\ refused = [p \in Players |-> {}] /\ paused = [p \in Players |-> 0]

Next ==
    \/ HandleHeader \/ DropFrame \/ BrokenFrame \/ VideoFrame \/ AudioFrame
    \/ SkipClient \/ FrameDone
    \/ \E r \in 0..3 : ServeClient(r)
    \/ \E p \in Players : \/ PlayTold(p) \/ PlayListed(p) \/ PlayStarted(p)
                          \/ Pause(p) \/ Leave(p) \/ Deliver(p)

Spec == Init /\ [][Next]_vars

-----------------------------------------------------------------------------
(* Properties.                                                              *)

Kind(p, i) == sent[p][i].kind
Numbers(p, media) == {sent[p][i].n : i \in {j \in DOMAIN sent[p] : Kind(p, j) = media}}
Missed(p, media) == {f[2] : f \in {g \in refused[p] : g[1] = media}}
Listed == {list[i] : i \in DOMAIN list}

\* Types; every player is in the list once, though it may ask to play again; a client
\* has never been given a frame that was not counted, and the header in use exists.
TypeOK ==
    /\ pub.mode \in Modes /\ pub.open \in BOOLEAN
    /\ src.ver \in [Media -> Nat] /\ src.queue \in [Media -> Nat]
    /\ src.buf \in [Media -> 0..Len(mem)]
    /\ job = NoJob \/ (job.media \in Media /\ Len(job.todo) <= Len(list))
    /\ Listed \subseteq Players /\ Len(list) = Cardinality(Listed)
    /\ \A p \in Players :
         /\ Len(read[p]) <= Len(sent[p])
         /\ \A m \in Media : ss[p].queue[m] <= src.queue[m]

\* What a player gets can be decoded: metadata and one SPS/PPS header come before its
\* first video frame and one AAC header before its first audio frame; the header is made
\* of the parameters that the frame sent with it was coded with, though the publisher may
\* have changed them since the buffer was made; and the first video frame is a key frame,
\* unless exactly that frame was refused (SendETS_H264, SendETS_AAC, CopySpsPps).
StartsDecodable ==
    \A p \in Players : \A i \in DOMAIN sent[p] : Kind(p, i) \in Media =>
        LET media == Kind(p, i)
            headers == {h \in DOMAIN sent[p] : Kind(p, h) = Headers[media]}
        IN \E h \in 1..(i - 1) :
             /\ headers = {h}
             /\ media = "video" => \E g \in 1..(h - 1) : Kind(p, g) = "meta"
             /\ sent[p][i].n = sent[p][h].n => sent[p][i].ver = sent[p][h].ver
             /\ media = "video" /\ (\A f \in (h + 1)..(i - 1) : Kind(p, f) # "video")
                  => IF sent[p][h].n \in Missed(p, "video")
                     THEN sent[p][i].n > sent[p][h].n
                     ELSE sent[p][i].key /\ sent[p][i].n = sent[p][h].n

\* From its first frame on, a player that has not paused is given every frame of the
\* source, once and in order, but those its connection refused and the audio frames with
\* an extended time stamp (usr.cpp:1672); between two frames it has them all.
NoneSkipped ==
    \A p \in Players, media \in Media :
        LET frames == {i \in DOMAIN sent[p] : Kind(p, i) = media}
            last == IF p \in Listed /\ job = NoJob THEN src.queue[media] ELSE ss[p].queue[media]
        IN /\ \A i, j \in frames : i < j => sent[p][i].n < sent[p][j].n
           /\ paused[p] = 0 => \A n \in Numbers(p, media) :
                n..last \subseteq Numbers(p, media) \cup Missed(p, media)
                                  \cup (IF media = "audio" THEN unsent ELSE {})

\* The source reads the publisher's clock from absolute and relative time stamps, and what
\* a player is sent of one medium never runs backwards, as long as no frame lies before the
\* first one or Mark behind it; only a sequence header can be late, and only one whose
\* memory another player's start has written again (rtmp.cpp:237).
TimesForward ==
    /\ \A c \in DOMAIN pub.clock : pub.clock[c] # -1 => src.tmChannel[c] = pub.clock[c]
    /\ \A p \in Players, media \in Media :
         LET items == {i \in DOMAIN read[p] :
                         /\ Kind(p, i) \in {media, Headers[media]}
                         /\ sent[p][i].at \in 0..(Mark - 1)}
             Again(i) == sent[p][i].cell # 0 /\ mem[sent[p][i].cell].used > 1
         IN \A i, j \in items : i < j /\ ~Again(i) => read[p][i] <= read[p][j]

\* Everything a player is sent is cut into chunks of the size that it was told last,
\* headers that were cut for an earlier player and frames that are on their way included,
\* if all servers are configured with one size: the source has a single m_rtmpChunkSize,
\* and a play over another server would replace it (rtmp.cpp:1252).
CutAsTold ==
    (\A p, q \in Players : ChunkSize[p] = ChunkSize[q]) =>
    \A p \in Players : \A i \in DOMAIN sent[p] :
        LET item == sent[p][i]
            told == {j \in 1..(i - 1) : Kind(p, j) = "chunksize"}
            last == CHOOSE j \in told : \A k \in told : k <= j
        IN item.kind # "chunksize" =>
             told # {} /\ item.cut \in {0, sent[p][last].cut}
====
