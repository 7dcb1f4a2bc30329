--------------------------- MODULE MediaRelay_proofs ---------------------------
(***************************************************************************)
(* Proofs about MediaRelay, for every set of players, every configured     *)
(* size and every publication.  One inductive invariant says what the      *)
(* buffers of the source, the walk over its clients, the clocks and what   *)
(* each player was given have to do with each other.                       *)
(***************************************************************************)
EXTENDS MediaRelay, SequenceTheorems, FiniteSetTheorems, WellFoundedInduction, TLAPS

Chans == {Channel[m] : m \in Media}
Kinds == {"chunksize", "meta", "avcheader", "aacheader", "video", "audio"}
Steps == {"idle", "told", "listed", "gone"}

Publishers == [clock : [Chans -> Int], open : BOOLEAN, mode : Modes, rest : Seq(Messages)]
Sources == [ver : [Media -> Nat], buf : [Media -> Nat], metaCut : Nat, first : Int,
            tmChannel : [Chans -> Int], queue : [Media -> Nat], chunkSize : Nat]
Cells == [ver : Nat, time : Int, used : Nat, cut : Nat]
Jobs == [media : Media, n : Nat, key : BOOLEAN, at : Int, cut : Nat, todo : Seq(Players)]
Sessions == [step : Steps, plays : Nat, playCalled : BOOLEAN, playing : BOOLEAN,
             sendCodecInfo : BOOLEAN, started : [Media -> BOOLEAN], queue : [Media -> Nat],
             error : BOOLEAN]
Items == [kind : Kinds, n : Nat, ver : Nat, cut : Nat, cell : Nat, at : Int, key : BOOLEAN]

Types ==
    /\ pub \in Publishers /\ src \in Sources /\ mem \in Seq(Cells)
    /\ job \in Jobs \cup {NoJob} /\ list \in Seq(Players) /\ ss \in [Players -> Sessions]
    /\ sent \in [Players -> Seq(Items)] /\ read \in [Players -> Seq(Int)]
    /\ refused \in [Players -> SUBSET (Media \X Nat)] /\ unsent \in SUBSET Nat
    /\ paused \in [Players -> Nat]

Once(q) == \A i, j \in 1 .. Len(q) : q[i] = q[j] => i = j
Among(p, q) == \E i \in 1 .. Len(q) : q[i] = p
Working == job # NoJob

\* The buffer in use was made of the parameters in use.
BufferInv ==
    \A m \in Media : src.buf[m] # 0 =>
        src.buf[m] \in 1 .. Len(mem) /\ mem[src.buf[m]].ver = src.ver[m]

\* Nobody is in the list twice; the walk has clients of the list before it, and the frame
\* it hands out is the last that was counted.
WalkInv ==
    /\ Once(list)
    /\ Working => /\ Once(job.todo) /\ job.n = src.queue[job.media] /\ job.n > 0
                  /\ \A i \in 1 .. Len(job.todo) : Among(job.todo[i], list)
                  /\ Len(job.todo) <= Len(list)

\* The messages to come: on each chunk stream they go on where the clock is.
First(q, i) == \A k \in 1 .. i - 1 : Channel[q[k].media] # Channel[q[i].media]
PaceInv ==
    /\ \A i, j \in 1 .. Len(pub.rest) : Adjoin(pub.rest, i, j) =>
         /\ pub.rest[i].time <= pub.rest[j].time
         /\ pub.mode = "relative" => pub.rest[j].time < pub.rest[i].time + Mark
    /\ \A i \in 1 .. Len(pub.rest) : First(pub.rest, i) =>
         LET c == pub.clock[Channel[pub.rest[i].media]] IN
         /\ c <= pub.rest[i].time
         /\ c # -1 /\ pub.mode = "relative" => pub.rest[i].time < c + Mark

\* The clocks agree; the frame in hand has the time of its clock.
ClockInv ==
    /\ \A c \in Chans : pub.clock[c] # -1 => src.tmChannel[c] = pub.clock[c]
    /\ \A c \in Chans : pub.clock[c] >= -1
    /\ src.first >= -1
    /\ Working => src.first # -1 /\ job.at + src.first = pub.clock[Channel[job.media]]

Of(p, i, m) == sent[p][i].kind = m
Heads(p, i, m) == sent[p][i].kind = Headers[m]
OfMedium(p, i, m) == Of(p, i, m) \/ Heads(p, i, m)

\* The announcement that counts for the item i is item j.
Told(q, i, j) ==
    /\ q[j].kind = "chunksize"
    /\ \A k \in 1 .. i - 1 : q[k].kind = "chunksize" => k <= j
AllTold(q) == \A i \in 2 .. Len(q) + 1 : \E j \in 1 .. i - 1 : Told(q, i, j)

\* A player that asked to play was told a size, and is or was in the list when it plays.
AskedOf(p) ==
    /\ ss[p].playing => ss[p].playCalled
    /\ ss[p].playCalled \/ ss[p].step \in {"told", "listed"} => ss[p].plays > 0
    /\ Among(p, list) => ss[p].plays > 0 /\ ss[p].step # "gone"
    /\ (ss[p].plays > 0) = (sent[p] # <<>>)
    /\ sent[p] # <<>> => sent[p][1].kind = "chunksize"
    /\ AllTold(sent[p])
AskedInv == \A p \in Players : AskedOf(p)

\* What was sent of a medium was counted, in the order of its time; sent later is later.
OrderOf(p, m) ==
    /\ ss[p].queue[m] <= src.queue[m]
    /\ \A f \in refused[p] : f[1] = m => f[2] <= ss[p].queue[m]
    /\ \A i \in 1 .. Len(sent[p]) : OfMedium(p, i, m) =>
         /\ sent[p][i].n \in 1 .. ss[p].queue[m] /\ src.first # -1
         /\ sent[p][i].at + src.first <= pub.clock[Channel[m]]
    /\ \A i, j \in 1 .. Len(sent[p]) : i < j /\ OfMedium(p, i, m) /\ OfMedium(p, j, m) =>
         sent[p][i].at <= sent[p][j].at
    /\ \A i, j \in 1 .. Len(sent[p]) : i < j /\ Of(p, i, m) /\ Of(p, j, m) =>
         sent[p][i].n < sent[p][j].n

\* The one header of a medium, and what comes before and after it.
StartOf(p, m) ==
    /\ \A i \in 1 .. Len(sent[p]) : Of(p, i, m) => \E h \in 1 .. i - 1 : Heads(p, h, m)
    /\ \A g, h \in 1 .. Len(sent[p]) : Heads(p, g, m) /\ Heads(p, h, m) => g = h
    /\ ss[p].started[m] = (\E h \in 1 .. Len(sent[p]) : Heads(p, h, m))
    /\ \A h, i \in 1 .. Len(sent[p]) :
         Heads(p, h, m) /\ Of(p, i, m) /\ sent[p][h].n = sent[p][i].n =>
           sent[p][h].ver = sent[p][i].ver

VideoOf(p) ==
    /\ ss[p].sendCodecInfo => \E g \in 1 .. Len(sent[p]) : sent[p][g].kind = "meta"
    /\ \A h \in 1 .. Len(sent[p]) : Heads(p, h, "video") =>
         \E g \in 1 .. h - 1 : sent[p][g].kind = "meta"
    /\ \A h, i \in 1 .. Len(sent[p]) :
         /\ Heads(p, h, "video") /\ Of(p, i, "video")
         /\ \A f \in h + 1 .. i - 1 : ~Of(p, f, "video")
         => IF <<"video", sent[p][h].n>> \in refused[p] THEN sent[p][i].n > sent[p][h].n
            ELSE sent[p][i].key /\ sent[p][i].n = sent[p][h].n
    /\ \A h \in 1 .. Len(sent[p]) :
         Heads(p, h, "video") /\ (\A i \in 1 .. Len(sent[p]) : ~Of(p, i, "video")) =>
           <<"video", sent[p][h].n>> \in refused[p]

Got(p, m, n) == \E i \in 1 .. Len(sent[p]) : Of(p, i, m) /\ sent[p][i].n = n
Excused(p, m, n) == <<m, n>> \in refused[p] \/ (m = "audio" /\ n \in unsent)

\* The frames that were counted and are past, or are passing this player.
Passed(p, m) ==
    IF Working /\ job.media = m /\ Among(p, job.todo) THEN job.n - 1 ELSE src.queue[m]

WholeOf(p, m) ==
    paused[p] = 0 =>
      \A n \in Nat : Got(p, m, n) =>
        /\ \A k \in n .. ss[p].queue[m] : Got(p, m, k) \/ Excused(p, m, k)
        /\ ss[p].started[m]
        /\ Among(p, list) \/ ss[p].step = "gone"
        /\ Among(p, list) =>
             /\ ss[p].playing
             /\ \A k \in ss[p].queue[m] + 1 .. Passed(p, m) : m = "audio" /\ k \in unsent

\* The memory of a header that only one player got holds the time of that header.
MemoryOf(p) ==
    /\ Len(read[p]) <= Len(sent[p])
    /\ \A i \in 1 .. Len(sent[p]) :
         LET it == sent[p][i] IN
         /\ it.kind \in {"avcheader", "aacheader"} <=> it.cell # 0
         /\ it.cell = 0 /\ i <= Len(read[p]) => read[p][i] = EncodeInt24(it.at)
         /\ it.cell # 0 =>
              /\ it.cell <= Len(mem) /\ mem[it.cell].used > 0
              /\ mem[it.cell].used = 1 =>
                   /\ mem[it.cell].time = EncodeInt24(it.at)
                   /\ i <= Len(read[p]) => read[p][i] = EncodeInt24(it.at)

PlayerInv ==
    /\ \A p \in Players, m \in Media : OrderOf(p, m) /\ StartOf(p, m) /\ WholeOf(p, m)
    /\ \A p \in Players : VideoOf(p) /\ MemoryOf(p)

\* With one size for all, everything was cut to it.
SizeOf(p) == IF ChunkSize[p] # 0 THEN ChunkSize[p] ELSE DefaultSize
OneSize == \A p, q \in Players : ChunkSize[p] = ChunkSize[q]
CutOf(p) ==
    /\ ss[p].plays > 0 => src.chunkSize = ChunkSize[p]
    /\ src.metaCut \in {0, SizeOf(p)}
    /\ Working => job.cut \in {0, SizeOf(p)}
    /\ \A c \in 1 .. Len(mem) : mem[c].cut \in {0, SizeOf(p)}
    /\ \A i \in 1 .. Len(sent[p]) :
         IF sent[p][i].kind = "chunksize" THEN sent[p][i].cut = SizeOf(p)
         ELSE sent[p][i].cut \in {0, SizeOf(p)}
CutInv == OneSize => \A p \in Players : CutOf(p)

IInv ==
    /\ Types /\ BufferInv /\ WalkInv /\ PaceInv /\ ClockInv /\ AskedInv /\ PlayerInv
    /\ CutInv
-----------------------------------------------------------------------------
(* Data.                                                                    *)

USE ConstantsAssumption

LEMMA MediaFacts ==
    /\ Media = {"video", "audio"} /\ "none" \notin Media
    /\ Headers["video"] = "avcheader" /\ Headers["audio"] = "aacheader"
    /\ \A m \in Media : Headers[m] \in Kinds /\ m \in Kinds /\ Channel[m] \in Chans
    /\ \A m, k \in Media : Headers[m] # k /\ (Headers[m] = Headers[k] => m = k)
    /\ \A m \in Media : m \notin {"meta", "chunksize"} /\ Headers[m] \notin {"meta", "chunksize"}
    /\ \A m \in Media : Headers[m] \in {"avcheader", "aacheader"}
  BY DEF Media, Headers, Kinds, Chans

LEMMA ItemFacts ==
  ASSUME NEW k \in Kinds, NEW n \in Nat, NEW ver \in Nat, NEW cut \in Nat, NEW cell \in Nat,
         NEW at \in Int
  PROVE  LET it == Item(k, n, ver, cut, cell, at) IN
         /\ it \in Items
         /\ it.kind = k /\ it.n = n /\ it.ver = ver /\ it.cut = cut /\ it.cell = cell
         /\ it.at = at
  BY DEF Item, Items

LEMMA FrameFacts ==
  ASSUME NEW k \in Kinds, NEW n \in Nat, NEW ver \in Nat, NEW cut \in Nat, NEW cell \in Nat,
         NEW at \in Int, NEW key \in BOOLEAN
  PROVE  LET it == [Item(k, n, ver, cut, cell, at) EXCEPT !.key = key] IN
         /\ it \in Items
         /\ it.kind = k /\ it.n = n /\ it.ver = ver /\ it.cut = cut /\ it.cell = cell
         /\ it.at = at /\ it.key = key
  BY DEF Item, Items

\* What fits the field is written as it is.
LEMMA Encoded ==
  /\ \A at \in Int : EncodeInt24(at) \in Int
  /\ \A at \in 0 .. Mark - 1 : EncodeInt24(at) = at
  <1>1. Mark + 1 \in Nat /\ Mark + 1 > 0
    OBVIOUS
  <1>2. ASSUME NEW at \in Int PROVE EncodeInt24(at) \in Int
    BY <1>1 DEF EncodeInt24
  <1>3. ASSUME NEW at \in 0 .. Mark - 1 PROVE EncodeInt24(at) = at
    <2>1. PICK m \in Nat : m = Mark + 1 /\ at \in 0 .. m - 1
      BY <1>1
    <2>2. at % m = at
      BY SMTT(60), <2>1
    <2>3. QED
      BY <2>1, <2>2 DEF EncodeInt24
  <1>4. QED
    BY <1>2, <1>3

\* Two sequences one after the other.
LEMMA Concat ==
  ASSUME NEW S, NEW s \in Seq(S), NEW q \in Seq(S)
  PROVE  /\ s \o q \in Seq(S) /\ Len(s \o q) = Len(s) + Len(q)
         /\ \A i \in 1 .. Len(s) : (s \o q)[i] = s[i]
         /\ \A i \in 1 .. Len(q) : (s \o q)[Len(s) + i] = q[i]
  <1>1. /\ Len(s) \in Nat /\ Len(q) \in Nat
        /\ s \o q \in Seq(S) /\ Len(s \o q) = Len(s) + Len(q)
        /\ \A i \in 1 .. Len(s) + Len(q) :
             (s \o q)[i] = IF i <= Len(s) THEN s[i] ELSE q[i - Len(s)]
    BY ConcatProperties, LenProperties
  <1>2. QED
    BY <1>1

\* What is put into the queue of a player: of three optional items a first part.
N(c) == IF c THEN 1 ELSE 0

Prolonged(t, s, a, b, f, x, y, z) ==
    /\ t \in Seq(Items) /\ Len(t) = Len(s) + a + b + f
    /\ \A i \in 1 .. Len(s) : t[i] = s[i]
    /\ a = 1 => t[Len(s) + 1] = x
    /\ b = 1 => t[Len(s) + a + 1] = y
    /\ f = 1 => t[Len(s) + a + b + 1] = z

\* Three optional items one after the other, as ItemsFor has them.
Three(u, v, w, x, y, z) == If(u = 1, x) \o If(v = 1, y) \o If(w = 1, z)

LEMMA Triple ==
  ASSUME NEW x \in Items, NEW y \in Items, NEW z \in Items,
         NEW a \in 0 .. 1, NEW b \in 0 .. 1, NEW c \in 0 .. 1,
         NEW q, q = Three(a, b, c, x, y, z)
  PROVE  Prolonged(q, <<>>, a, b, c, x, y, z)
  <1>1. PICK s, t, v : s = If(a = 1, x) /\ t = If(b = 1, y) /\ v = If(c = 1, z)
    OBVIOUS
  <1>2. /\ s \in Seq(Items) /\ Len(s) = a /\ (a = 1 => s[1] = x)
        /\ t \in Seq(Items) /\ Len(t) = b /\ (b = 1 => t[1] = y)
        /\ v \in Seq(Items) /\ Len(v) = c /\ (c = 1 => v[1] = z)
    BY <1>1 DEF If
  <1>3. PICK u : u = s \o t
    OBVIOUS
  <1>4. /\ u \in Seq(Items) /\ Len(u) = a + b
        /\ \A i \in 1 .. a : u[i] = s[i]
        /\ \A i \in 1 .. b : u[a + i] = t[i]
    BY <1>2, <1>3, Concat
  <1>5. (a = 1 => u[1] = x) /\ (b = 1 => u[a + 1] = y)
    BY <1>2, <1>4
  <1>6. q = u \o v
    BY <1>1, <1>3 DEF Three
  <1>7. /\ q \in Seq(Items) /\ Len(q) = Len(u) + Len(v)
        /\ \A i \in 1 .. Len(u) : q[i] = u[i]
        /\ \A i \in 1 .. Len(v) : q[Len(u) + i] = v[i]
    <2>1. u \in Seq(Items) /\ v \in Seq(Items)
      BY <1>2, <1>4
    <2>2. QED
      BY <2>1, <1>6, Concat
  <1>8. /\ Len(q) = a + b + c
        /\ a = 1 => q[1] = x
        /\ b = 1 => q[a + 1] = y
        /\ c = 1 => q[a + b + 1] = z
    BY <1>2, <1>4, <1>5, <1>7
  <1>9. Len(<<>>) = 0
    BY EmptySeq
  <1>10. QED
    BY <1>7, <1>8, <1>9 DEF Prolonged

-----------------------------------------------------------------------------
(* The publisher.                                                           *)

Next1 == Head(pub.rest)
Stream == Channel[Next1.media]

LEMMA NextFacts ==
  ASSUME Types, pub.rest # <<>>
  PROVE  /\ Next1 \in Messages /\ Next1 = pub.rest[1] /\ Len(pub.rest) \in Nat \ {0}
         /\ Next1.media \in Media /\ Next1.time \in Nat /\ Stream \in Chans
         /\ Next1.media = "audio" => Next1.body \in {"header", "short", "frame"}
         /\ Message.media = Next1.media /\ Message.body = Next1.body
         /\ Tail(pub.rest) \in Seq(Messages) /\ Len(Tail(pub.rest)) = Len(pub.rest) - 1
         /\ \A i \in 1 .. Len(pub.rest) - 1 : Tail(pub.rest)[i] = pub.rest[i + 1]
         /\ \A i \in 1 .. Len(pub.rest) : pub.rest[i].media \in Media /\ pub.rest[i].time \in Nat
  <1>1. pub.rest \in Seq(Messages)
    BY DEF Types, Publishers
  <1>2. \A x \in Messages : x.media \in Media /\ x.time \in Nat
    BY DEF Messages, Media
  <1>3. \A x \in Messages : x.media = "audio" => x.body \in {"header", "short", "frame"}
    BY DEF Messages
  <1>4. /\ Next1 \in Messages /\ Next1 = pub.rest[1] /\ Len(pub.rest) \in Nat \ {0}
        /\ \A i \in 1 .. Len(pub.rest) : pub.rest[i] \in Messages
    BY <1>1, HeadTailProperties, EmptySeq, ElementOfSeq DEF Next1
  <1>5. /\ Tail(pub.rest) \in Seq(Messages) /\ Len(Tail(pub.rest)) = Len(pub.rest) - 1
        /\ \A i \in 1 .. Len(pub.rest) - 1 : Tail(pub.rest)[i] = pub.rest[i + 1]
    BY <1>1, HeadTailProperties
  <1>6. Message.media = Next1.media /\ Message.body = Next1.body
    BY DEF Message, Next1
  <1>7. Stream \in Chans
    BY <1>2, <1>4, MediaFacts DEF Stream
  <1>8. QED
    BY <1>2, <1>3, <1>4, <1>5, <1>6, <1>7

\* The time of a message is read as the publisher meant it.
LEMMA TimeIsTrue ==
  ASSUME Types, PaceInv, ClockInv, pub.rest # <<>>
  PROVE  TimeOf(Message) = Next1.time
  <1> DEFINE last == pub.clock[Stream]
  <1>1. /\ last \in Int /\ last >= -1 /\ src.tmChannel[Stream] \in Int
        /\ (last # -1 => src.tmChannel[Stream] = last)
    BY NextFacts DEF Types, Publishers, Sources, ClockInv
  <1>2. First(pub.rest, 1)
    BY DEF First
  <1>3. last # -1 /\ pub.mode = "relative" => Next1.time < last + Mark
    BY <1>2, NextFacts DEF PaceInv, Stream
  <1>4. Next1.time \in Nat
    BY NextFacts
  <1> DEFINE relative == pub.mode = "relative" /\ last # -1
             value == IF relative THEN Next1.time - last ELSE Next1.time
  <1>5. /\ Message.media = Next1.media /\ Message.value = value
        /\ Message.timer = IF value >= Mark THEN "extended"
                           ELSE IF relative THEN "relative" ELSE "absolute"
    BY DEF Message, Next1, Stream
  <1>6. TimeOf(Message) = IF Message.timer = "relative" THEN src.tmChannel[Stream] + value
                          ELSE value
    BY <1>5 DEF TimeOf, Stream
  <1> HIDE DEF last
  <1>7. CASE relative
    <2>1. value = Next1.time - last /\ value < Mark
      BY <1>1, <1>3, <1>4, <1>7
    <2>2. Message.timer = "relative"
      BY <1>1, <1>4, <1>5, <1>7, <2>1
    <2>3. QED
      BY <1>1, <1>4, <1>6, <1>7, <2>1, <2>2
  <1>8. CASE ~relative
    <2>1. Message.timer # "relative"
      BY <1>5, <1>8
    <2>2. QED
      BY <1>6, <1>8, <2>1
  <1>9. QED
    BY <1>7, <1>8

LEMMA TimeType ==
  ASSUME Types, pub.rest # <<>>
  PROVE  TimeOf(Message) \in Int
  <1>1. src.tmChannel[Stream] \in Int /\ pub.clock[Stream] \in Int /\ Next1.time \in Nat
    BY NextFacts DEF Types, Publishers, Sources
  <1>2. Message.value \in Int
    BY <1>1 DEF Message, Next1, Stream
  <1>3. Message.media = Next1.media
    BY NextFacts
  <1>4. QED
    BY <1>1, <1>2, <1>3 DEF TimeOf, Stream

\* What the message does to the publisher and to the clock of the source.
PublisherStep ==
    /\ pub.rest # <<>> /\ job = NoJob
    /\ pub' \in Publishers /\ pub'.mode = pub.mode /\ pub'.rest = Tail(pub.rest)
    /\ pub'.clock = [pub.clock EXCEPT ![Stream] = Next1.time]
    /\ src' \in Sources /\ src'.metaCut = src.metaCut /\ src'.chunkSize = src.chunkSize
    /\ src'.tmChannel = [src.tmChannel EXCEPT ![Stream] = TimeOf(Message)]
    /\ UNCHANGED <<mem, list, ss, sent, read, refused, paused>>

\* A message that is not counted.
QuietStep ==
    /\ PublisherStep
    /\ src'.queue = src.queue /\ src'.first = src.first /\ job' = NoJob /\ unsent' = unsent
    /\ \A m \in Media :
         src'.buf[m] = 0 \/ (src'.buf[m] = src.buf[m] /\ src'.ver[m] = src.ver[m])

\* A frame that is, and its way to the players.
CountStep ==
    LET m == Next1.media
        n == src.queue[m] + 1
    IN /\ PublisherStep
       /\ src'.queue = [src.queue EXCEPT ![m] = n]
       /\ src'.first = IF src.first = -1 THEN TimeOf(Message) ELSE src.first
       /\ src'.buf = src.buf /\ src'.ver = src.ver
       /\ \/ job' = NoJob /\ m = "audio" /\ unsent' = unsent \cup {n}
          \/ /\ unsent' = unsent /\ job' \in Jobs
             /\ job'.media = m /\ job'.n = n /\ job'.at = TimeOf(Message) - src'.first
             /\ job'.cut = 0 /\ job'.todo = list

LEMMA TickedFacts ==
  ASSUME Types, pub.rest # <<>>
  PROVE  /\ Ticked \in Publishers /\ Ticked.mode = pub.mode /\ Ticked.rest = Tail(pub.rest)
         /\ Ticked.clock = [pub.clock EXCEPT ![Stream] = Next1.time]
  <1>1. /\ pub \in Publishers /\ Tail(pub.rest) \in Seq(Messages) /\ Stream \in Chans
        /\ Next1.time \in Nat
    BY NextFacts DEF Types
  <1>2. [pub.clock EXCEPT ![Stream] = Next1.time] \in [Chans -> Int]
    BY <1>1 DEF Publishers
  <1>3. Ticked = [pub EXCEPT !.rest = Tail(pub.rest),
                             !.clock = [pub.clock EXCEPT ![Stream] = Next1.time]]
    BY <1>1 DEF Ticked, Stream, Next1, Publishers
  <1>4. QED
    BY <1>1, <1>2, <1>3 DEF Publishers

LEMMA ClosedFacts ==
  ASSUME NEW x \in Publishers
  PROVE  LET y == [x EXCEPT !.open = FALSE] IN
         y \in Publishers /\ y.mode = x.mode /\ y.rest = x.rest /\ y.clock = x.clock
  BY DEF Publishers

LEMMA TimedFacts ==
  ASSUME Types, pub.rest # <<>>
  PROVE  LET s == Timed(Message) IN
         /\ s \in Sources
         /\ s.tmChannel = [src.tmChannel EXCEPT ![Stream] = TimeOf(Message)]
         /\ s.ver = src.ver /\ s.buf = src.buf /\ s.metaCut = src.metaCut
         /\ s.first = src.first /\ s.queue = src.queue /\ s.chunkSize = src.chunkSize
  <1>1. /\ src \in Sources /\ Message.media = Next1.media /\ TimeOf(Message) \in Int
        /\ Stream \in Chans
    BY NextFacts, TimeType DEF Types
  <1>2. [src.tmChannel EXCEPT ![Stream] = TimeOf(Message)] \in [Chans -> Int]
    BY <1>1 DEF Sources
  <1>3. Timed(Message) =
          [src EXCEPT !.tmChannel = [src.tmChannel EXCEPT ![Stream] = TimeOf(Message)]]
    BY <1>1 DEF Timed, Stream
  <1>4. QED
    BY <1>1, <1>2, <1>3 DEF Sources

LEMMA SendsFacts ==
  ASSUME NEW m, NEW B, Sends(m, B)
  PROVE  job = NoJob /\ pub.rest # <<>> /\ Next1.media = m /\ Next1.body \in B
  BY DEF Sends, Next1

Renewed(s, m, v) == [s EXCEPT !.ver[m] = v, !.buf[m] = 0]

SourceRenewed(y, s) ==
    /\ y \in Sources /\ y.metaCut = s.metaCut /\ y.chunkSize = s.chunkSize
    /\ y.tmChannel = s.tmChannel /\ y.queue = s.queue /\ y.first = s.first
    /\ \A m \in Media : y.buf[m] = 0 \/ (y.buf[m] = s.buf[m] /\ y.ver[m] = s.ver[m])

LEMMA RenewedFacts ==
  ASSUME NEW s \in Sources, NEW m \in Media, NEW v \in Nat,
         NEW y, y = Renewed(s, m, v)
  PROVE  SourceRenewed(y, s)
  <1>1. [s.ver EXCEPT ![m] = v] \in [Media -> Nat] /\ [s.buf EXCEPT ![m] = 0] \in [Media -> Nat]
    BY DEF Sources
  <1>2. y = [s EXCEPT !.ver = [s.ver EXCEPT ![m] = v], !.buf = [s.buf EXCEPT ![m] = 0]]
    BY DEF Sources, Renewed
  <1>4. /\ y \in Sources /\ y.metaCut = s.metaCut /\ y.chunkSize = s.chunkSize
        /\ y.tmChannel = s.tmChannel /\ y.queue = s.queue /\ y.first = s.first
        /\ y.ver = [s.ver EXCEPT ![m] = v] /\ y.buf = [s.buf EXCEPT ![m] = 0]
    BY <1>1, <1>2 DEF Sources
  <1>5. \A k \in Media : y.buf[k] = 0 \/ (y.buf[k] = s.buf[k] /\ y.ver[k] = s.ver[k])
    BY <1>4 DEF Sources
  <1>6. QED
    BY <1>4, <1>5 DEF SourceRenewed

LEMMA HeaderEffect ==
  ASSUME Types, HandleHeader
  PROVE  QuietStep
  <1>1. /\ pub.rest # <<>> /\ job = NoJob /\ pub' = Ticked
        /\ Next1.media \in {"video", "audio"} /\ Next1.body \in {"header", "short"}
    BY SendsFacts DEF HandleHeader
  <1>2. PICK s : s = Timed(Message)
    OBVIOUS
  <1>3. /\ s \in Sources
        /\ s.tmChannel = [src.tmChannel EXCEPT ![Stream] = TimeOf(Message)]
        /\ s.ver = src.ver /\ s.buf = src.buf /\ s.metaCut = src.metaCut
        /\ s.first = src.first /\ s.queue = src.queue /\ s.chunkSize = src.chunkSize
    BY <1>1, <1>2, TimedFacts
  <1>4. \/ src' = VideoHeader(s) \/ src' = ShortVideoHeader(s)
        \/ src' = AudioHeader(s) \/ src' = ShortAudioHeader(s)
    BY <1>1, <1>2, NextFacts DEF HandleHeader
  <1>5. SourceRenewed(src', s)
    <2>1. CASE src' = VideoHeader(s)
      <3>1. s.ver["video"] + 1 \in Nat /\ "video" \in Media
        BY <1>3 DEF Sources, Media
      <3>2. src' = Renewed(s, "video", s.ver["video"] + 1)
        BY <2>1 DEF VideoHeader, Renewed
      <3>3. QED
        BY <1>3, <3>1, <3>2, RenewedFacts
    <2>2. CASE src' = ShortVideoHeader(s)
      BY <1>3, <2>2 DEF ShortVideoHeader, SourceRenewed, Sources, Media
    <2>3. CASE src' = AudioHeader(s)
      <3>1. s.ver["audio"] + 1 \in Nat /\ "audio" \in Media
        BY <1>3 DEF Sources, Media
      <3>2. src' = Renewed(s, "audio", s.ver["audio"] + 1)
        BY <2>3 DEF AudioHeader, Renewed
      <3>3. QED
        BY <1>3, <3>1, <3>2, RenewedFacts
    <2>4. CASE src' = ShortAudioHeader(s)
      <3>1. PICK v \in Nat : v = IF s.ver["audio"] = 0 THEN 1 ELSE s.ver["audio"]
        BY <1>3 DEF Sources, Media
      <3>2. src' = Renewed(s, "audio", v) /\ "audio" \in Media
        BY <2>4, <3>1 DEF ShortAudioHeader, Media, Renewed
      <3>3. QED
        BY <1>3, <3>1, <3>2, RenewedFacts
    <2>5. QED
      BY <1>4, <2>1, <2>2, <2>3, <2>4
  <1>6. UNCHANGED <<mem, job, list, ss, sent, read, refused, unsent, paused>>
    BY DEF HandleHeader
  <1>7. PublisherStep
    BY <1>1, <1>3, <1>5, <1>6, TickedFacts DEF PublisherStep, SourceRenewed
  <1>8. QED
    BY <1>1, <1>3, <1>5, <1>6, <1>7 DEF QuietStep, SourceRenewed

LEMMA DropEffect ==
  ASSUME Types, DropFrame \/ BrokenFrame
  PROVE  QuietStep
  <1>1. /\ pub.rest # <<>> /\ job = NoJob /\ src' = Timed(Message)
        /\ UNCHANGED <<mem, job, list, ss, sent, read, refused, unsent, paused>>
        /\ pub' = Ticked \/ pub' = [Ticked EXCEPT !.open = FALSE]
    BY SendsFacts DEF DropFrame, BrokenFrame
  <1>2. /\ pub' \in Publishers /\ pub'.mode = pub.mode /\ pub'.rest = Tail(pub.rest)
        /\ pub'.clock = [pub.clock EXCEPT ![Stream] = Next1.time]
    BY <1>1, TickedFacts, ClosedFacts
  <1>3. QED
    BY <1>1, <1>2, TimedFacts DEF QuietStep, PublisherStep

Raised(f, m) == [f EXCEPT ![m] = f[m] + 1]

LEMMA CountedFacts ==
  ASSUME NEW s \in Sources, NEW m \in Media, NEW at \in Int,
         NEW c, c = Counted(s, m, at)
  PROVE  /\ c \in Sources
         /\ c.queue = Raised(s.queue, m)
         /\ c.first = IF s.first = -1 THEN at ELSE s.first
         /\ c.ver = s.ver /\ c.buf = s.buf /\ c.metaCut = s.metaCut
         /\ c.tmChannel = s.tmChannel /\ c.chunkSize = s.chunkSize
  <1>1. [s.queue EXCEPT ![m] = s.queue[m] + 1] \in [Media -> Nat]
    BY DEF Sources
  <1>2. Counted(s, m, at) = [s EXCEPT !.queue = [s.queue EXCEPT ![m] = s.queue[m] + 1],
                                      !.first = IF s.first = -1 THEN at ELSE s.first]
    BY DEF Counted, Sources
  <1>3. QED
    BY <1>1, <1>2 DEF Sources, Raised

LEMMA FrameEffect ==
  ASSUME Types, VideoFrame \/ AudioFrame
  PROVE  CountStep
  <1>1. PICK m \in Media :
          /\ pub.rest # <<>> /\ job = NoJob /\ pub' = Ticked /\ Next1.media = m
          /\ src' = Counted(Timed(Message), m, TimeOf(Message))
          /\ UNCHANGED <<mem, list, ss, sent, read, refused, paused>>
          /\ \/ job' = NoJob /\ m = "audio" /\ unsent' = unsent \cup {src'.queue["audio"]}
             \/ unsent' = unsent /\ \E b : job' = Frame(src', m, b, TimeOf(Message))
    <2>1. CASE VideoFrame
      <3>1. /\ pub.rest # <<>> /\ job = NoJob /\ pub' = Ticked /\ Next1.media = "video"
            /\ src' = Counted(Timed(Message), "video", TimeOf(Message))
            /\ UNCHANGED <<mem, list, ss, sent, read, refused, unsent, paused>>
            /\ job' = Frame(src', "video", Message.body, TimeOf(Message))
        BY <2>1, SendsFacts DEF VideoFrame
      <3>2. QED
        BY <3>1 DEF Media
    <2>2. CASE AudioFrame
      <3>1. /\ pub.rest # <<>> /\ job = NoJob /\ pub' = Ticked /\ Next1.media = "audio"
            /\ src' = Counted(Timed(Message), "audio", TimeOf(Message))
            /\ UNCHANGED <<mem, list, ss, sent, read, refused, paused>>
            /\ \/ job' = job /\ unsent' = unsent \cup {src'.queue["audio"]}
               \/ job' = Frame(src', "audio", "frame", TimeOf(Message)) /\ unsent' = unsent
        BY <2>2, SendsFacts DEF AudioFrame
      <3>2. QED
        BY <3>1 DEF Media
    <2>3. QED
      BY <2>1, <2>2
  <1>2. PICK s : s = Timed(Message)
    OBVIOUS
  <1>3. /\ s \in Sources
        /\ s.tmChannel = [src.tmChannel EXCEPT ![Stream] = TimeOf(Message)]
        /\ s.ver = src.ver /\ s.buf = src.buf /\ s.metaCut = src.metaCut
        /\ s.first = src.first /\ s.queue = src.queue /\ s.chunkSize = src.chunkSize
    BY <1>1, <1>2, TimedFacts
  <1>4. PICK at \in Int : at = TimeOf(Message)
    BY <1>1, TimeType
  <1>5. /\ src' \in Sources
        /\ src'.queue = [s.queue EXCEPT ![m] = s.queue[m] + 1]
        /\ src'.first = IF s.first = -1 THEN at ELSE s.first
        /\ src'.ver = s.ver /\ src'.buf = s.buf /\ src'.metaCut = s.metaCut
        /\ src'.tmChannel = s.tmChannel /\ src'.chunkSize = s.chunkSize
    <2>1. src' = Counted(s, m, at)
      BY <1>1, <1>2, <1>4
    <2>2. PICK c : c = Counted(s, m, at)
      OBVIOUS
    <2>3. /\ c \in Sources
          /\ c.queue = Raised(s.queue, m)
          /\ c.first = IF s.first = -1 THEN at ELSE s.first
          /\ c.ver = s.ver /\ c.buf = s.buf /\ c.metaCut = s.metaCut
          /\ c.tmChannel = s.tmChannel /\ c.chunkSize = s.chunkSize
      BY <1>1, <1>3, <1>4, <2>2, CountedFacts
    <2>4. QED
      BY <2>1, <2>2, <2>3 DEF Raised
  <1>6. PublisherStep
    BY <1>1, <1>3, <1>5, TickedFacts DEF PublisherStep
  <1>7. src'.queue[m] = src.queue[m] + 1 /\ src.queue[m] \in Nat /\ src'.first \in Int
    BY <1>3, <1>5 DEF Sources
  <1>8. ASSUME NEW b, job' = Frame(src', m, b, TimeOf(Message))
        PROVE  /\ job' \in Jobs /\ job'.media = m /\ job'.n = src.queue[m] + 1
               /\ job'.at = at - src'.first /\ job'.cut = 0 /\ job'.todo = list
    BY <1>4, <1>7, <1>8 DEF Frame, Jobs, Types
  <1>9. \/ job' = NoJob /\ m = "audio" /\ unsent' = unsent \cup {src.queue[m] + 1}
        \/ /\ unsent' = unsent /\ job' \in Jobs
           /\ job'.media = m /\ job'.n = src.queue[m] + 1
           /\ job'.at = TimeOf(Message) - src'.first /\ job'.cut = 0 /\ job'.todo = list
    BY <1>1, <1>4, <1>7, <1>8
  <1>10. QED
    BY <1>1, <1>3, <1>4, <1>5, <1>6, <1>9 DEF CountStep

-----------------------------------------------------------------------------
(* One client is served.                                                    *)

MetaItem == Item("meta", 0, 0, MetaCut, 0, 0)
HeadItem(j, mm) ==
    LET c == HeaderCell(j) IN Item(Headers[j.media], j.n, mm[c].ver, mm[c].cut, c, j.at)
FrameItem(j) ==
    [Item(j.media, j.n, src.ver[j.media], j.cut, 0, j.at) EXCEPT !.key = j.key]

LEMMA SizeType ==
  ASSUME Types
  PROVE  GetRTMPChunkSize \in Nat /\ MetaCut \in Nat
  <1>1. src.chunkSize \in Nat /\ src.metaCut \in Nat
    BY DEF Types, Sources
  <1>2. QED
    BY <1>1 DEF GetRTMPChunkSize, MetaCut

\* The frame with the size its buffers are cut to.
SameFrame(j, k) ==
    j \in Jobs /\ j.media = k.media /\ j.n = k.n /\ j.key = k.key /\ j.at = k.at

LEMMA MadeFacts ==
  ASSUME Types, job \in Jobs
  PROVE  /\ SameFrame(Made(job), job) /\ Made(job).todo = job.todo
         /\ Made(job).cut = IF job.cut = 0 THEN GetRTMPChunkSize ELSE job.cut
         /\ HeaderCell(Made(job)) = HeaderCell(job)
  <1>1. SameFrame(Made(job), job) /\ Made(job).todo = job.todo
    BY SizeType DEF Made, SameFrame, Jobs
  <1>2. Made(job).cut = IF job.cut = 0 THEN GetRTMPChunkSize ELSE job.cut
    BY SizeType DEF Made, Jobs
  <1>3. QED
    BY <1>1, <1>2 DEF HeaderCell, SameFrame

LEMMA PastFacts ==
  ASSUME NEW j \in Jobs, j.todo # <<>>, NEW k, k = PastHead(j)
  PROVE  SameFrame(k, j) /\ k.todo = Tail(j.todo) /\ k.cut = j.cut
  <1>1. Tail(j.todo) \in Seq(Players)
    BY HeadTailProperties DEF Jobs
  <1>2. QED
    BY <1>1 DEF PastHead, Jobs, SameFrame

\* The buffer of the sequence header, old or made now.
BufferMade(mm, j) ==
    LET c == HeaderCell(j)
        m == j.media
    IN /\ mm \in Seq(Cells) /\ c \in 1 .. Len(mm) /\ Len(mem) <= Len(mm)
       /\ Len(mm) \in {Len(mem), Len(mem) + 1} /\ (Len(mm) > Len(mem) => c = Len(mm))
       /\ \A i \in 1 .. Len(mem) : mm[i] = mem[i]
       /\ mm[c].ver = src.ver[m]
       /\ c > Len(mem) => mm[c].used = 0 /\ mm[c].cut \in {0, GetRTMPChunkSize}

LEMMA WithHeaderFacts ==
  ASSUME Types, BufferInv, NEW j \in Jobs
  PROVE  BufferMade(WithHeader(j), j)
  <1> DEFINE m == j.media
             e == [ver |-> src.ver[m], time |-> EncodeInt24(j.at), used |-> 0,
                   cut |-> IF m = "video" THEN GetRTMPChunkSize ELSE 0]
  <1>1. /\ m \in Media /\ j.at \in Int /\ src.ver[m] \in Nat /\ src.buf[m] \in Nat
        /\ mem \in Seq(Cells) /\ Len(mem) \in Nat
    BY LenProperties DEF Types, Sources, Jobs
  <1>2. CASE src.buf[m] # 0
    <2>1. WithHeader(j) = mem /\ HeaderCell(j) = src.buf[m]
      BY <1>2 DEF WithHeader, HeaderCell
    <2>2. src.buf[m] \in 1 .. Len(mem) /\ mem[src.buf[m]].ver = src.ver[m]
      BY <1>1, <1>2 DEF BufferInv
    <2>3. QED
      BY <1>1, <2>1, <2>2 DEF BufferMade
  <1>3. CASE src.buf[m] = 0
    <2>1. e \in Cells /\ e.ver = src.ver[m] /\ e.used = 0 /\ e.cut \in {0, GetRTMPChunkSize}
      BY <1>1, SizeType, Encoded DEF Cells
    <2>2. WithHeader(j) = Append(mem, e) /\ HeaderCell(j) = Len(mem) + 1
      BY <1>3 DEF WithHeader, HeaderCell
    <2> HIDE DEF e
    <2>3. PICK mm : mm = Append(mem, e)
      OBVIOUS
    <2>4. /\ mm \in Seq(Cells) /\ Len(mm) = Len(mem) + 1
          /\ \A i \in 1 .. Len(mem) : mm[i] = mem[i]
          /\ mm[Len(mem) + 1] = e
      BY <1>1, <2>1, <2>3, AppendProperties
    <2>5. BufferMade(mm, j)
      BY <1>1, <2>1, <2>2, <2>4 DEF BufferMade
    <2>6. QED
      BY <2>2, <2>3, <2>5
  <1>4. QED
    BY <1>2, <1>3

\* The memory of the header is written again, or nothing is.
BufferWritten(mm, n, j, b) ==
    LET c == HeaderCell(j) IN
    /\ n \in Seq(Cells) /\ Len(n) = Len(mm)
    /\ \A i \in 1 .. Len(mm) : i # c => n[i] = mm[i]
    /\ n[c].ver = mm[c].ver /\ n[c].cut = mm[c].cut
    /\ \/ n[c].used = mm[c].used + 1 /\ n[c].time = EncodeInt24(j.at)
       \/ ~b /\ n[c] = mm[c]

LEMMA StampedFacts ==
  ASSUME NEW mm \in Seq(Cells), NEW j \in Jobs, NEW p, NEW n, n = Stamped(mm, j, p),
         HeaderCell(j) \in 1 .. Len(mm)
  PROVE  BufferWritten(mm, n, j, NeedsHeader(j, p))
  <1>1. PICK c \in 1 .. Len(mm) : c = HeaderCell(j)
    OBVIOUS
  <1>2. mm[c] \in Cells /\ j.at \in Int
    BY ElementOfSeq DEF Jobs
  <1>3. PICK e : e = [mm[c] EXCEPT !.time = EncodeInt24(j.at), !.used = mm[c].used + 1]
    OBVIOUS
  <1>4. /\ e \in Cells /\ e.ver = mm[c].ver /\ e.cut = mm[c].cut
        /\ e.used = mm[c].used + 1 /\ e.time = EncodeInt24(j.at)
    <2>1. PICK t \in Int : t = EncodeInt24(j.at)
      BY <1>2, Encoded
    <2>2. e = [mm[c] EXCEPT !.time = t, !.used = mm[c].used + 1]
      BY <1>3, <2>1
    <2>3. PICK o \in Cells : o = mm[c]
      BY <1>2
    <2>7. o.used \in Nat
      BY <2>3 DEF Cells
    <2> PICK u \in Nat : u = o.used + 1
      BY <2>7
    <2>4. e = [o EXCEPT !.time = t, !.used = u]
      BY <2>2, <2>3
    <2>5. /\ e \in Cells /\ e.ver = o.ver /\ e.cut = o.cut
          /\ e.used = u /\ e.time = t
      BY <2>1, <2>3, <2>4 DEF Cells
    <2>6. QED
      BY <2>1, <2>3, <2>5
  <1>5. CASE NeedsHeader(j, p)
    <2>1. n = [mm EXCEPT ![c] = e]
      <3>1. n = [mm EXCEPT ![c].time = EncodeInt24(j.at), ![c].used = @ + 1]
        BY <1>1, <1>5 DEF Stamped
      <3>2. mm \in [1 .. Len(mm) -> Cells]
        BY LenProperties
      <3>3. QED
        BY <1>2, <1>3, <3>1, <3>2 DEF Cells
    <2>2. n \in Seq(Cells) /\ Len(n) = Len(mm)
      BY <1>4, <2>1, ExceptSeq
    <2>3. n[c] = e /\ \A i \in 1 .. Len(mm) : i # c => n[i] = mm[i]
      <3>1. mm \in [1 .. Len(mm) -> Cells]
        BY LenProperties
      <3>2. QED
        BY <2>1, <3>1
    <2>4. QED
      BY <1>1, <1>4, <2>2, <2>3 DEF BufferWritten
  <1>6. CASE ~NeedsHeader(j, p)
    <2>1. n = mm
      BY <1>6 DEF Stamped
    <2>2. QED
      BY <1>6, <2>1 DEF BufferWritten
  <1>7. QED
    BY <1>5, <1>6

Part(q, r) == IF r = 0 THEN q ELSE SubSeq(q, 1, r - 1)

LEMMA PartFacts ==
  ASSUME NEW x \in Items, NEW y \in Items, NEW z \in Items,
         NEW A \in 0 .. 1, NEW B \in 0 .. 1, NEW F \in 0 .. 1,
         NEW q, q = Three(A, B, F, x, y, z), NEW r \in 0 .. 3, r \in 0 .. Len(q),
         NEW g, g = Part(q, r)
  PROVE  \E a, b, f \in 0 .. 1 :
           /\ Prolonged(g, <<>>, a, b, f, x, y, z)
           /\ a = 1 <=> A = 1 /\ r # 1
           /\ b = 1 <=> B = 1 /\ r \notin 1 .. A + 1
           /\ f = 1 <=> F = 1 /\ r = 0
           /\ b = 1 /\ A = 1 => a = 1
  <1>1. /\ q \in Seq(Items) /\ Len(q) = A + B + F
        /\ A = 1 => q[1] = x
        /\ B = 1 => q[A + 1] = y
        /\ F = 1 => q[A + B + 1] = z
    <2>1. Prolonged(q, <<>>, A, B, F, x, y, z)
      BY Triple
    <2>2. QED
      BY <2>1, EmptySeq DEF Prolonged
  <1>2. Len(<<>>) = 0
    BY EmptySeq
  <1>3. CASE r = 0
    <2>1. g = q
      BY <1>3 DEF Part
    <2>2. Prolonged(g, <<>>, A, B, F, x, y, z)
      BY <1>1, <1>2, <2>1 DEF Prolonged
    <2>3. QED
      BY <1>3, <2>2
  <1>4. CASE r # 0
    <2>1. g = SubSeq(q, 1, r - 1)
      BY <1>4 DEF Part
    <2>2. /\ g \in Seq(Items) /\ Len(g) = r - 1
          /\ \A i \in 1 .. r - 1 : g[i] = q[i]
      <3>1. \A i \in 1 .. r - 1 : q[i] \in Items
        BY <1>1, ElementOfSeq
      <3>2. /\ g \in Seq(Items) /\ Len(g) = IF 1 <= r - 1 THEN r - 1 - 1 + 1 ELSE 0
            /\ \A i \in 1 .. r - 1 - 1 + 1 : g[i] = q[1 + i - 1]
        BY <2>1, <3>1, SubSeqProperties
      <3>3. QED
        BY <1>4, <3>2
    <2>3. PICK a \in 0 .. 1 : a = 1 <=> A = 1 /\ r # 1
      <3>1. CASE A = 1 /\ r # 1
        BY <3>1
      <3>2. CASE ~(A = 1 /\ r # 1)
        BY <3>2
      <3>3. QED
        BY <3>1, <3>2
    <2>4. PICK b \in 0 .. 1 : b = 1 <=> B = 1 /\ r > A + 1
      <3>1. CASE B = 1 /\ r > A + 1
        BY <3>1
      <3>2. CASE ~(B = 1 /\ r > A + 1)
        BY <3>2
      <3>3. QED
        BY <3>1, <3>2
    <2>5. r \in 1 .. A + B + F
      BY <1>1, <1>4
    <2>6. r - 1 = a + b /\ (b = 1 => a = A)
      BY <2>3, <2>4, <2>5
    <2>7. a = 1 => g[1] = x
      BY <1>1, <2>2, <2>3, <2>6
    <2>8. b = 1 => g[a + 1] = y
      BY <1>1, <2>2, <2>4, <2>6
    <2>9. Prolonged(g, <<>>, a, b, 0, x, y, z)
      BY <1>2, <2>2, <2>6, <2>7, <2>8 DEF Prolonged
    <2>10. /\ b = 1 <=> B = 1 /\ r \notin 1 .. A + 1
           /\ b = 1 /\ A = 1 => a = 1
      BY <1>4, <2>4, <2>6
    <2>11. QED
      BY <1>4, <2>3, <2>9, <2>10
  <1>5. QED
    BY <1>3, <1>4

LEMMA ProlongedFacts ==
  ASSUME NEW s \in Seq(Items), NEW g, NEW x, NEW y, NEW z,
         NEW a \in 0 .. 1, NEW b \in 0 .. 1, NEW f \in 0 .. 1,
         Prolonged(g, <<>>, a, b, f, x, y, z), NEW t, t = s \o g
  PROVE  Prolonged(t, s, a, b, f, x, y, z)
  <1>1. g \in Seq(Items) /\ Len(<<>>) = 0
    BY EmptySeq DEF Prolonged
  <1>2. /\ Len(g) = a + b + f /\ (a = 1 => g[1] = x) /\ (b = 1 => g[a + 1] = y)
        /\ f = 1 => g[a + b + 1] = z
    BY <1>1 DEF Prolonged
  <1>3. /\ t \in Seq(Items) /\ Len(t) = Len(s) + Len(g)
        /\ \A i \in 1 .. Len(s) : t[i] = s[i]
        /\ \A i \in 1 .. Len(g) : t[Len(s) + i] = g[i]
    BY <1>1, Concat
  <1>4. Len(s) \in Nat
    BY LenProperties
  <1>5. /\ a = 1 => t[Len(s) + 1] = x
        /\ b = 1 => t[Len(s) + a + 1] = y
        /\ f = 1 => t[Len(s) + a + b + 1] = z
    <2>1. ASSUME a = 1 PROVE t[Len(s) + 1] = x
      <3>1. 1 \in 1 .. Len(g)
        BY <1>2, <2>1
      <3>2. QED
        BY <1>2, <1>3, <2>1, <3>1
    <2>2. ASSUME b = 1 PROVE t[Len(s) + a + 1] = y
      <3>1. a + 1 \in 1 .. Len(g) /\ Len(s) + (a + 1) = Len(s) + a + 1
        BY <1>2, <1>4, <2>2
      <3>2. QED
        BY <1>2, <1>3, <2>2, <3>1
    <2>3. ASSUME f = 1 PROVE t[Len(s) + a + b + 1] = z
      <3>1. a + b + 1 \in 1 .. Len(g) /\ Len(s) + (a + b + 1) = Len(s) + a + b + 1
        BY <1>2, <1>4, <2>3
      <3>2. QED
        BY <1>2, <1>3, <2>3, <3>1
    <2>4. QED
      BY <2>1, <2>2, <2>3
  <1>6. QED
    BY <1>2, <1>3, <1>4, <1>5 DEF Prolonged

\* What is the same, and what may be different, when p takes the frame in hand.
Taker == Head(job.todo)
Renew(j) ==
    /\ job \in Jobs /\ job.todo # <<>> /\ Taker \in Players
    /\ ss[Taker].playing /\ job.n > ss[Taker].queue[job.media]
    /\ SameFrame(j, job) /\ j.todo = Tail(job.todo)
    /\ j.cut = IF job.cut = 0 THEN GetRTMPChunkSize ELSE job.cut

\* Meta, header and frame are given or not: a, b and f are 1 or 0.
Chosen(a, b, f, r) ==
    LET s == ss[Taker]
        m == job.media
    IN /\ a = 1 => m = "video" /\ ~s.sendCodecInfo
       /\ b = 1 => ~s.started[m] /\ (m = "video" => job.key /\ (a = 1 \/ s.sendCodecInfo))
       /\ f = 1 => r = 0 /\ (s.started[m] \/ b = 1)
       /\ s.started[m] \/ b = 1 => f = 1 \/ r # 0

SessionMoved(t, s, m, n, a, b) ==
    /\ t \in Sessions /\ t.step = s.step /\ t.plays = s.plays
    /\ t.playCalled = s.playCalled /\ t.playing = s.playing
    /\ t.sendCodecInfo = (s.sendCodecInfo \/ a = 1)
    /\ t.started[m] = (s.started[m] \/ b = 1) /\ t.queue[m] = n
    /\ \A k \in Media \ {m} : t.started[k] = s.started[k] /\ t.queue[k] = s.queue[k]

SourceMoved(t) ==
    /\ t \in Sources /\ t.ver = src.ver /\ t.first = src.first /\ t.tmChannel = src.tmChannel
    /\ t.queue = src.queue /\ t.chunkSize = src.chunkSize
    /\ t.metaCut \in {src.metaCut, MetaCut}
    /\ t.buf = [src.buf EXCEPT ![job.media] = HeaderCell(job)]

LEMMA RenewFacts ==
  ASSUME Types, NEW r, ServeClient(r)
  PROVE  Renew(job') /\ HeaderCell(Made(job)) = HeaderCell(job)
  <1>1. job # NoJob /\ job.todo # <<>> /\ Takes(job, Taker) /\ job' = PastHead(Made(job))
    BY DEF ServeClient, Taker
  <1>2. job \in Jobs
    BY <1>1 DEF Types
  <1>3. Taker \in Players
    BY <1>1, <1>2, HeadTailProperties DEF Jobs, Taker
  <1>4. PICK j : j = Made(job)
    OBVIOUS
  <1>5. /\ SameFrame(j, job) /\ j.todo = job.todo /\ HeaderCell(j) = HeaderCell(job)
        /\ j.cut = IF job.cut = 0 THEN GetRTMPChunkSize ELSE job.cut
    BY <1>2, <1>4, MadeFacts
  <1>6. SameFrame(job', j) /\ job'.todo = Tail(j.todo) /\ job'.cut = j.cut
    BY <1>1, <1>4, <1>5, PastFacts DEF SameFrame
  <1>7. SameFrame(job', job) /\ job'.todo = Tail(job.todo)
        /\ job'.cut = IF job.cut = 0 THEN GetRTMPChunkSize ELSE job.cut
    BY <1>5, <1>6 DEF SameFrame
  <1>8. ss[Taker].playing /\ job.n > ss[Taker].queue[job.media]
    BY <1>1 DEF Takes
  <1>9. QED
    BY <1>1, <1>2, <1>3, <1>4, <1>5, <1>7, <1>8 DEF Renew

LEMMA SourceEffect ==
  ASSUME Types, BufferInv, NEW r, ServeClient(r)
  PROVE  SourceMoved(src')
  <1>1. /\ job \in Jobs /\ Made(job).media = job.media
        /\ HeaderCell(Made(job)) = HeaderCell(job)
    BY RenewFacts, MadeFacts DEF Renew, SameFrame
  <1>2. PICK c \in Nat : c = HeaderCell(job)
    <2>1. HeaderCell(job) \in 1 .. Len(WithHeader(job))
      BY <1>1, WithHeaderFacts DEF BufferMade
    <2>2. QED
      BY <2>1
  <1>3. PICK m \in Media : m = job.media
    BY <1>1 DEF Jobs
  <1>4. PICK u \in Nat : u \in {src.metaCut, MetaCut} /\ src' =
          [src EXCEPT !.buf[m] = c, !.metaCut = u]
    <2>1. src' = [src EXCEPT !.buf[m] = c,
                             !.metaCut = IF NeedsMeta(Made(job), Taker) THEN MetaCut ELSE @]
      BY <1>1, <1>2, <1>3 DEF ServeClient, Taker
    <2>2. src.metaCut \in Nat /\ MetaCut \in Nat
      BY SizeType DEF Types, Sources
    <2>3. CASE NeedsMeta(Made(job), Taker)
      BY <2>1, <2>2, <2>3
    <2>4. CASE ~NeedsMeta(Made(job), Taker)
      BY <2>1, <2>2, <2>4
    <2>5. QED
      BY <2>3, <2>4
  <1>5. PICK g : g = [src.buf EXCEPT ![m] = c]
    OBVIOUS
  <1>6. g \in [Media -> Nat] /\ src' = [src EXCEPT !.buf = g, !.metaCut = u]
    BY <1>4, <1>5 DEF Types, Sources
  <1>7. /\ src' \in Sources /\ src'.ver = src.ver /\ src'.first = src.first
        /\ src'.tmChannel = src.tmChannel
        /\ src'.queue = src.queue /\ src'.chunkSize = src.chunkSize
        /\ src'.metaCut = u /\ src'.buf = g
    BY <1>6 DEF Types, Sources
  <1>8. QED
    BY <1>2, <1>3, <1>4, <1>5, <1>7 DEF SourceMoved

\* What is refused is noted, and nothing else of another player changes.
OthersKept(p) ==
    /\ \A q \in Players \ {p} :
         ss'[q] = ss[q] /\ sent'[q] = sent[q] /\ refused'[q] = refused[q]
    /\ ss' = [q \in Players |-> ss'[q]]
    /\ sent' = [q \in Players |-> sent'[q]]
    /\ refused' = [q \in Players |-> refused'[q]]

Refusal(p, m, n, r) ==
    /\ refused'[p] \in SUBSET (Media \X Nat)
    /\ refused'[p] = IF r = 0 THEN refused[p] ELSE refused[p] \cup {<<m, n>>}

\* The whole of ServeClient, for its client.
Served(c, mm, x, y, z, a, b, f, r) ==
    /\ Renew(job') /\ SourceMoved(src') /\ OthersKept(Taker)
    /\ BufferMade(mm, job) /\ BufferWritten(mm, mem', job, b = 1) /\ c = HeaderCell(job)
    /\ x \in Items /\ x.kind = "meta" /\ x.cut = MetaCut /\ x.cell = 0 /\ x.at = 0
    /\ y \in Items /\ y.kind = Headers[job.media] /\ y.n = job.n /\ y.ver = mm[c].ver
    /\ y.cut = mm[c].cut /\ y.cell = c /\ y.at = job.at
    /\ z \in Items /\ z.kind = job.media /\ z.n = job.n /\ z.ver = src.ver[job.media]
    /\ z.cut = job'.cut /\ z.cell = 0 /\ z.at = job.at /\ z.key = job.key
    /\ Chosen(a, b, f, r)
    /\ Prolonged(sent'[Taker], sent[Taker], a, b, f, x, y, z)
    /\ Refusal(Taker, job.media, job.n, r)
    /\ SessionMoved(ss'[Taker], ss[Taker], job.media, job.n, a, b)
    /\ pub' = pub /\ list' = list /\ read' = read /\ unsent' = unsent /\ paused' = paused

LEMMA Remade ==
  ASSUME NEW S, NEW h, DOMAIN h = S, NEW p, NEW v, NEW g, g = [h EXCEPT ![p] = v]
  PROVE  g = [q \in S |-> g[q]]
  OBVIOUS

LEMMA ItemsEffect ==
  ASSUME Types, BufferInv, NEW r \in 0 .. 3, ServeClient(r)
  PROVE  \E j \in Jobs, mm \in Seq(Cells) :
           /\ j = Made(job) /\ mm = WithHeader(j) /\ BufferMade(mm, job)
           /\ HeaderCell(j) = HeaderCell(job) /\ SameFrame(j, job)
           /\ MetaItem \in Items /\ HeadItem(j, mm) \in Items /\ FrameItem(j) \in Items
           /\ \A q : q = ItemsFor(j, Taker, mm) =>
                q = Three(N(NeedsMeta(j, Taker)), N(NeedsHeader(j, Taker)),
                          N(GetsFrame(j, Taker)), MetaItem, HeadItem(j, mm), FrameItem(j))
  <1>1. job \in Jobs
    BY RenewFacts DEF Renew
  <1>2. PICK j \in Jobs : j = Made(job)
    BY <1>1, MadeFacts DEF SameFrame
  <1>3. HeaderCell(j) = HeaderCell(job) /\ SameFrame(j, job)
    BY <1>1, <1>2, MadeFacts
  <1>4. PICK mm \in Seq(Cells) : mm = WithHeader(j)
    BY WithHeaderFacts DEF BufferMade
  <1>5. BufferMade(mm, j) /\ BufferMade(mm, job)
    BY <1>3, <1>4, WithHeaderFacts DEF BufferMade, SameFrame
  <1>6. PICK c \in 1 .. Len(mm) : c = HeaderCell(j)
    BY <1>5 DEF BufferMade
  <1>7. /\ mm[c] \in Cells /\ mm[c].ver \in Nat /\ mm[c].cut \in Nat
        /\ j.media \in Media /\ j.n \in Nat /\ j.at \in Int /\ j.cut \in Nat /\ j.key \in BOOLEAN
        /\ src.ver[j.media] \in Nat /\ c \in Nat
    <2>1. mm[c] \in Cells
      BY ElementOfSeq
    <2>2. src.ver \in [Media -> Nat]
      BY DEF Types, Sources
    <2>3. \A o \in Cells : o.ver \in Nat /\ o.cut \in Nat
      BY DEF Cells
    <2>4. /\ j.media \in Media /\ j.n \in Nat /\ j.at \in Int /\ j.cut \in Nat
          /\ j.key \in BOOLEAN
      BY DEF Jobs
    <2>5. c \in Nat
      BY <1>6
    <2>6. QED
      BY <2>1, <2>2, <2>3, <2>4, <2>5
  <1>8. MetaItem \in Items
    BY SizeType, ItemFacts DEF MetaItem, Kinds
  <1>9. HeadItem(j, mm) \in Items
    BY <1>6, <1>7, ItemFacts, MediaFacts DEF HeadItem
  <1>10. FrameItem(j) \in Items
    BY <1>7, FrameFacts, MediaFacts DEF FrameItem
  <1>11. ASSUME NEW q, q = ItemsFor(j, Taker, mm)
         PROVE  q = Three(N(NeedsMeta(j, Taker)), N(NeedsHeader(j, Taker)),
                          N(GetsFrame(j, Taker)), MetaItem, HeadItem(j, mm), FrameItem(j))
    <2>1. \A C, i : If(N(C) = 1, i) = If(C, i)
      BY DEF If, N
    <2>2. q = If(NeedsMeta(j, Taker), MetaItem) \o If(NeedsHeader(j, Taker), HeadItem(j, mm))
              \o If(GetsFrame(j, Taker), FrameItem(j))
      BY <1>11 DEF ItemsFor, MetaItem, HeadItem, FrameItem
    <2>3. QED
      BY <2>1, <2>2 DEF Three
  <1>12. QED
    BY <1>2, <1>3, <1>4, <1>5, <1>8, <1>9, <1>10, <1>11

LEMMA ServeEffect ==
  ASSUME Types, BufferInv, NEW r \in 0 .. 3, ServeClient(r)
  PROVE  \E c, mm, x, y, z : \E a, b, f \in 0 .. 1 : Served(c, mm, x, y, z, a, b, f, r)
  <1> DEFINE m == job.media
             p == Taker
  <1>1. Renew(job') /\ SourceMoved(src')
    BY RenewFacts, SourceEffect
  <1>2. PICK j \in Jobs, mm \in Seq(Cells) :
           /\ j = Made(job) /\ mm = WithHeader(j) /\ BufferMade(mm, job)
           /\ HeaderCell(j) = HeaderCell(job) /\ SameFrame(j, job)
           /\ MetaItem \in Items /\ HeadItem(j, mm) \in Items /\ FrameItem(j) \in Items
           /\ \A q : q = ItemsFor(j, Taker, mm) =>
                q = Three(N(NeedsMeta(j, Taker)), N(NeedsHeader(j, Taker)),
                          N(GetsFrame(j, Taker)), MetaItem, HeadItem(j, mm), FrameItem(j))
    BY ItemsEffect
  <1>3. PICK q, x, y, z : /\ q = ItemsFor(j, p, mm)
                          /\ x = MetaItem /\ y = HeadItem(j, mm) /\ z = FrameItem(j)
    OBVIOUS
  <1>4. PICK A \in 0 .. 1, B \in 0 .. 1, F \in 0 .. 1 :
          /\ A = N(NeedsMeta(j, p)) /\ B = N(NeedsHeader(j, p)) /\ F = N(GetsFrame(j, p))
    BY DEF N
  <1>5. x \in Items /\ y \in Items /\ z \in Items /\ q = Three(A, B, F, x, y, z)
    BY <1>2, <1>3, <1>4
  <1>6. /\ A = 1 <=> NeedsMeta(j, p)
        /\ B = 1 <=> NeedsHeader(j, p)
        /\ F = 1 <=> GetsFrame(j, p)
    BY <1>4 DEF N
  <1>7. r \in 0 .. Len(q)
    BY <1>2, <1>3 DEF ServeClient, Taker
  <1>8. PICK g : g = Part(q, r)
    OBVIOUS
  <1>9. PICK a \in 0 .. 1, b \in 0 .. 1, f \in 0 .. 1 :
           /\ Prolonged(g, <<>>, a, b, f, x, y, z)
           /\ a = 1 <=> A = 1 /\ r # 1
           /\ b = 1 <=> B = 1 /\ r \notin 1 .. A + 1
           /\ f = 1 <=> F = 1 /\ r = 0
           /\ b = 1 /\ A = 1 => a = 1
    BY <1>5, <1>7, <1>8, PartFacts
  <1>10. PICK kinds : kinds = {g[i].kind : i \in DOMAIN g}
    OBVIOUS
  <1>11. PICK n : n = IF r # 1 \/ ~NeedsMeta(j, p) THEN Stamped(mm, j, p) ELSE mm
    OBVIOUS
  <1>12. /\ mem' = n
         /\ sent' = [sent EXCEPT ![p] = sent[p] \o g]
         /\ refused' = [refused EXCEPT ![p] = IF r = 0 THEN refused[p]
                                              ELSE refused[p] \cup {<<m, j.n>>}]
         /\ ss' = [ss EXCEPT ![p].queue[m] = j.n,
                             ![p].sendCodecInfo = @ \/ "meta" \in kinds,
                             ![p].started[m] = @ \/ Headers[m] \in kinds,
                             ![p].error = @ \/ r # 0]
    <2>1. g = IF r = 0 THEN q ELSE SubSeq(q, 1, r - 1)
      BY <1>8 DEF Part
    <2>2. j.media = m
      BY <1>2 DEF SameFrame
    <2>3. mem' = n
      BY <1>2, <1>11 DEF ServeClient, Taker
    <2>4. sent' = [sent EXCEPT ![p] = sent[p] \o g]
      BY <1>2, <1>3, <2>1 DEF ServeClient, Taker
    <2>5. refused' = [refused EXCEPT ![p] = IF r = 0 THEN refused[p]
                                            ELSE refused[p] \cup {<<m, j.n>>}]
      BY <1>2, <2>2 DEF ServeClient, Taker
    <2>6. ss' = [ss EXCEPT ![p].queue[j.media] = j.n,
                           ![p].sendCodecInfo = @ \/ "meta" \in kinds,
                           ![p].started[j.media] = @ \/ Headers[j.media] \in kinds,
                           ![p].error = @ \/ r # 0]
      BY <1>2, <1>3, <1>10, <2>1 DEF ServeClient, Taker
    <2>7. QED
      BY <2>2, <2>3, <2>4, <2>5, <2>6
  <1>13. /\ job \in Jobs /\ m \in Media /\ p \in Players /\ ss[p] \in Sessions
         /\ j.media = m /\ j.n = job.n /\ j.at = job.at /\ j.key = job.key /\ job.n \in Nat
         /\ ss \in [Players -> Sessions] /\ sent \in [Players -> Seq(Items)]
         /\ refused \in [Players -> SUBSET (Media \X Nat)]
    BY <1>1, <1>2 DEF Renew, SameFrame, Jobs, Types
  <1>14. PICK c : c = HeaderCell(job)
    OBVIOUS
  <1>15. /\ x.kind = "meta" /\ x.cut = MetaCut /\ x.cell = 0 /\ x.at = 0
         /\ y.kind = Headers[m] /\ y.n = job.n /\ y.ver = mm[c].ver
         /\ y.cut = mm[c].cut /\ y.cell = c /\ y.at = job.at
         /\ z.kind = m /\ z.n = job.n /\ z.ver = src.ver[m]
         /\ z.cut = j.cut /\ z.cell = 0 /\ z.at = job.at /\ z.key = job.key
    BY <1>2, <1>3, <1>13, <1>14 DEF MetaItem, HeadItem, FrameItem, Item
  <1>16. j.cut = job'.cut
    BY <1>1, <1>2, <1>13, MadeFacts DEF Renew
  <1>17. /\ "meta" \in kinds <=> a = 1
         /\ Headers[m] \in kinds <=> b = 1
    <2>1. /\ g \in Seq(Items) /\ Len(g) = a + b + f
          /\ a = 1 => g[1] = x
          /\ b = 1 => g[a + 1] = y
          /\ f = 1 => g[a + b + 1] = z
      BY <1>9, EmptySeq DEF Prolonged
    <2>2. DOMAIN g = 1 .. a + b + f
      BY <2>1, LenProperties
    <2>3. /\ x.kind = "meta" /\ y.kind = Headers[m] /\ z.kind = m
          /\ Headers[m] # "meta" /\ m # "meta" /\ m # Headers[m]
      BY <1>13, <1>15, MediaFacts
    <2>4. ASSUME NEW i \in 1 .. a + b + f
          PROVE  (a = 1 /\ i = 1) \/ (b = 1 /\ i = a + 1) \/ (f = 1 /\ i = a + b + 1)
      OBVIOUS
    <2>5. ASSUME a = 1 PROVE "meta" \in kinds
      <3>1. 1 \in DOMAIN g /\ g[1].kind = "meta"
        BY <2>1, <2>2, <2>3, <2>5
      <3>2. QED
        BY <1>10, <3>1
    <2>6. ASSUME b = 1 PROVE Headers[m] \in kinds
      <3>1. a + 1 \in DOMAIN g /\ g[a + 1].kind = Headers[m]
        BY <2>1, <2>2, <2>3, <2>6
      <3>2. QED
        BY <1>10, <3>1
    <2>7. ASSUME "meta" \in kinds PROVE a = 1
      <3>1. PICK i \in 1 .. a + b + f : g[i].kind = "meta"
        BY <1>10, <2>2, <2>7
      <3>2. QED
        BY <2>1, <2>3, <2>4, <3>1
    <2>8. ASSUME Headers[m] \in kinds PROVE b = 1
      <3>1. PICK i \in 1 .. a + b + f : g[i].kind = Headers[m]
        BY <1>10, <2>2, <2>8
      <3>2. QED
        BY <2>1, <2>3, <2>4, <3>1
    <2>9. QED
      BY <2>5, <2>6, <2>7, <2>8
  <1>18. BufferWritten(mm, mem', job, b = 1)
    <2>1. PICK w : w = Stamped(mm, j, p)
      OBVIOUS
    <2>2. HeaderCell(j) \in 1 .. Len(mm) /\ HeaderCell(job) \in 1 .. Len(mm)
      BY <1>2 DEF BufferMade
    <2>3. BufferWritten(mm, w, j, NeedsHeader(j, p))
      BY <2>1, <2>2, StampedFacts
    <2>4. CASE r # 1 \/ ~NeedsMeta(j, p)
      <3>1. mem' = w
        BY <1>11, <1>12, <2>1, <2>4
      <3>2. b = 1 => NeedsHeader(j, p)
        BY <1>6, <1>9
      <3>3. HeaderCell(j) = HeaderCell(job) /\ j.at = job.at
        BY <1>2, <1>13
      <3>4. QED
        BY <2>3, <3>1, <3>2, <3>3 DEF BufferWritten
    <2>5. CASE ~(r # 1 \/ ~NeedsMeta(j, p))
      <3>1. mem' = mm
        BY <1>11, <1>12, <2>5
      <3>2. ~(b = 1)
        BY <1>6, <1>9, <2>5
      <3>3. QED
        BY <1>2, <3>1, <3>2 DEF BufferWritten
    <2>6. QED
      BY <2>4, <2>5
  <1>19. Chosen(a, b, f, r)
    <2>1. /\ A = 1 <=> m = "video" /\ ~ss[p].sendCodecInfo
          /\ B = 1 <=> ~ss[p].started[m] /\ (m = "video" => job.key)
          /\ F = 1 <=> ss[p].started[m] \/ B = 1
      BY <1>6, <1>13 DEF NeedsMeta, NeedsHeader, GetsFrame
    <2>2. a = 1 => m = "video" /\ ~ss[p].sendCodecInfo
      BY <1>9, <2>1
    <2>3. b = 1 => ~ss[p].started[m] /\ (m = "video" => job.key /\ (a = 1 \/ ss[p].sendCodecInfo))
      BY <1>9, <2>1
    <2>4. b = 1 \/ B # 1 \/ r # 0
      BY <1>9
    <2>5. f = 1 => r = 0 /\ (ss[p].started[m] \/ b = 1)
      BY <1>9, <2>1, <2>4
    <2>6. ss[p].started[m] \/ b = 1 => f = 1 \/ r # 0
      BY <1>9, <2>1
    <2>7. QED
      BY <2>2, <2>3, <2>5, <2>6 DEF Chosen
  <1>20. Prolonged(sent'[p], sent[p], a, b, f, x, y, z)
    <2>1. sent'[p] = sent[p] \o g /\ sent[p] \in Seq(Items)
      BY <1>12, <1>13
    <2>2. QED
      BY <1>9, <2>1, ProlongedFacts
  <1>21. SessionMoved(ss'[p], ss[p], m, job.n, a, b)
    <2>1. PICK s \in Sessions : s = ss[p]
      BY <1>13
    <2>2. PICK u \in BOOLEAN, v \in BOOLEAN, e \in BOOLEAN :
            /\ u = (s.sendCodecInfo \/ a = 1) /\ v = (s.started[m] \/ b = 1)
            /\ e = (s.error \/ r # 0)
      OBVIOUS
    <2>3. PICK su, qu : su = [s.started EXCEPT ![m] = v] /\ qu = [s.queue EXCEPT ![m] = job.n]
      OBVIOUS
    <2>4. s.started \in [Media -> BOOLEAN] /\ s.queue \in [Media -> Nat]
      BY <2>1 DEF Sessions
    <2>5. su \in [Media -> BOOLEAN] /\ qu \in [Media -> Nat]
      BY <1>13, <2>2, <2>3, <2>4
    <2>6. ss'[p] = [s EXCEPT !.queue = qu, !.sendCodecInfo = u, !.started = su, !.error = e]
      BY <1>12, <1>13, <1>17, <2>1, <2>2, <2>3 DEF Sessions
    <2>7. /\ ss'[p] \in Sessions /\ ss'[p].step = s.step /\ ss'[p].plays = s.plays
          /\ ss'[p].playCalled = s.playCalled /\ ss'[p].playing = s.playing
          /\ ss'[p].sendCodecInfo = u /\ ss'[p].started = su /\ ss'[p].queue = qu
      BY <2>1, <2>2, <2>5, <2>6 DEF Sessions
    <2>8. su[m] = v /\ qu[m] = job.n
      BY <1>13, <2>3, <2>4
    <2>9. \A k \in Media \ {m} : su[k] = s.started[k] /\ qu[k] = s.queue[k]
      BY <1>13, <2>3, <2>4
    <2>10. QED
      BY <2>1, <2>2, <2>7, <2>8, <2>9 DEF SessionMoved
  <1>22. OthersKept(p) /\ Refusal(p, m, job.n, r)
    <2>1. OthersKept(p)
      <3>1. \A o \in Players \ {p} :
              ss'[o] = ss[o] /\ sent'[o] = sent[o] /\ refused'[o] = refused[o]
        BY <1>12, <1>13
      <3>2. DOMAIN ss = Players /\ DOMAIN sent = Players /\ DOMAIN refused = Players
        BY <1>13
      <3>3. ss' = [o \in Players |-> ss'[o]]
        <4>1. PICK v : v = [ss[p] EXCEPT !.queue[m] = j.n,
                                         !.sendCodecInfo = @ \/ "meta" \in kinds,
                                         !.started[m] = @ \/ Headers[m] \in kinds,
                                         !.error = @ \/ r # 0]
          OBVIOUS
        <4>2. ss' = [ss EXCEPT ![p] = v]
          BY ZenonT(60), <1>12, <4>1
        <4>3. QED
          BY <3>2, <4>2, Remade
      <3>4. sent' = [o \in Players |-> sent'[o]]
        BY <1>12, <3>2, Remade
      <3>5. refused' = [o \in Players |-> refused'[o]]
        BY <1>12, <3>2, Remade
      <3>6. QED
        BY <3>1, <3>3, <3>4, <3>5 DEF OthersKept
    <2>2. refused'[p] = IF r = 0 THEN refused[p] ELSE refused[p] \cup {<<m, job.n>>}
      BY <1>12, <1>13
    <2>3. refused[p] \in SUBSET (Media \X Nat) /\ <<m, job.n>> \in Media \X Nat
      BY <1>13
    <2>4. refused'[p] \in SUBSET (Media \X Nat)
      BY <2>2, <2>3
    <2>5. QED
      BY <2>1, <2>2, <2>4 DEF Refusal
  <1>23. BufferMade(mm, job) /\ j.cut = job'.cut
    BY <1>2, <1>16
  <1>24. pub' = pub /\ list' = list /\ read' = read /\ unsent' = unsent /\ paused' = paused
    BY DEF ServeClient
  <1>25. Served(c, mm, x, y, z, a, b, f, r)
    BY <1>1, <1>5, <1>14, <1>15, <1>18, <1>19, <1>20, <1>21, <1>22, <1>23, <1>24
       DEF Served
  <1>26. QED
    BY <1>25

-----------------------------------------------------------------------------
(* The other actions.                                                       *)

\* What all of them leave alone of the sessions.
SameSession(t, s) ==
    t.queue = s.queue /\ t.started = s.started /\ t.sendCodecInfo = s.sendCodecInfo

SkipStep ==
    /\ job \in Jobs /\ job.todo # <<>> /\ Taker \in Players
    /\ ~(ss[Taker].playing /\ job.n > ss[Taker].queue[job.media])
    /\ SameFrame(job', job) /\ job'.todo = Tail(job.todo) /\ job'.cut = job.cut
    /\ UNCHANGED <<pub, src, mem, list, ss, sent, read, refused, unsent, paused>>

ToldStep(p, x) ==
    /\ x \in Items /\ x.kind = "chunksize" /\ x.cut = SizeOf(p) /\ x.cell = 0 /\ x.at = 0
    /\ src' \in Sources /\ src'.ver = src.ver /\ src'.buf = src.buf
    /\ src'.metaCut = src.metaCut /\ src'.first = src.first /\ src'.queue = src.queue
    /\ src'.tmChannel = src.tmChannel /\ src'.chunkSize = ChunkSize[p]
    /\ ss[p].step = "idle" /\ ss' \in [Players -> Sessions]
    /\ ss'[p].step = "told" /\ ss'[p].plays = ss[p].plays + 1
    /\ ss'[p].playCalled = ss[p].playCalled /\ ss'[p].playing = ss[p].playing
    /\ SameSession(ss'[p], ss[p])
    /\ sent' \in [Players -> Seq(Items)] /\ Prolonged(sent'[p], sent[p], 1, 0, 0, x, x, x)
    /\ \A q \in Players \ {p} : ss'[q] = ss[q] /\ sent'[q] = sent[q]
    /\ UNCHANGED <<pub, mem, job, list, read, refused, unsent, paused>>

\* A step of a session.
PlayerStep(p) ==
    /\ ss' \in [Players -> Sessions] /\ paused' \in [Players -> Nat]
    /\ SameSession(ss'[p], ss[p]) /\ ss'[p].plays = ss[p].plays
    /\ \A q \in Players \ {p} : ss'[q] = ss[q] /\ paused'[q] = paused[q]
    /\ UNCHANGED <<pub, src, mem, job, sent, read, refused, unsent>>

ListedStep(p) ==
    /\ PlayerStep(p) /\ job = NoJob /\ paused' = paused
    /\ ss[p].step = "told" /\ ss'[p].step = "listed"
    /\ ss'[p].playCalled = ss[p].playCalled /\ ss'[p].playing = ss[p].playing
    /\ list' \in Seq(Players)
    /\ \/ list' = list
       \/ /\ ~Among(p, list) /\ Len(list') = Len(list) + 1 /\ list'[Len(list) + 1] = p
          /\ \A i \in 1 .. Len(list) : list'[i] = list[i]

StartedStep(p) ==
    /\ PlayerStep(p) /\ list' = list /\ paused' = paused
    /\ ss[p].step = "listed" /\ ss'[p].step = "idle"
    /\ ss'[p].playCalled = TRUE /\ ss'[p].playing = TRUE

PauseStep(p) ==
    /\ PlayerStep(p) /\ list' = list /\ paused'[p] > 0
    /\ ss'[p].step = ss[p].step /\ ss[p].playCalled /\ ss'[p].playCalled = ss[p].playCalled

LeaveStep(p, i) ==
    /\ PlayerStep(p) /\ job = NoJob /\ paused' = paused
    /\ ss[p].step = "idle" /\ ss'[p].step = "gone"
    /\ ss'[p].playCalled = ss[p].playCalled /\ ss'[p].playing = ss[p].playing
    /\ i \in 1 .. Len(list) /\ list[i] = p
    /\ list' \in Seq(Players) /\ Len(list') = Len(list) - 1
    /\ \A k \in 1 .. Len(list) - 1 : list'[k] = IF k < i THEN list[k] ELSE list[k + 1]

DeliverStep(p) ==
    /\ read' \in [Players -> Seq(Int)]
    /\ Len(read[p]) <= Len(read'[p]) /\ Len(read'[p]) = Len(sent[p])
    /\ \A i \in 1 .. Len(read[p]) : read'[p][i] = read[p][i]
    /\ \A i \in Len(read[p]) + 1 .. Len(sent[p]) :
         read'[p][i] = IF sent[p][i].cell # 0 THEN mem[sent[p][i].cell].time
                       ELSE EncodeInt24(sent[p][i].at)
    /\ \A q \in Players \ {p} : read'[q] = read[q]
    /\ UNCHANGED <<pub, src, mem, job, list, ss, sent, refused, unsent, paused>>

LEMMA SkipEffect ==
  ASSUME Types, SkipClient
  PROVE  SkipStep
  <1>1. job # NoJob /\ job.todo # <<>> /\ ~Takes(job, Taker) /\ job' = PastHead(job)
    BY DEF SkipClient, Taker
  <1>2. job \in Jobs
    BY <1>1 DEF Types
  <1>3. Taker \in Players
    BY <1>1, <1>2, HeadTailProperties DEF Jobs, Taker
  <1>4. SameFrame(job', job) /\ job'.todo = Tail(job.todo) /\ job'.cut = job.cut
    BY <1>1, <1>2, PastFacts
  <1>5. UNCHANGED <<pub, src, mem, list, ss, sent, read, refused, unsent, paused>>
    BY DEF SkipClient
  <1>6. QED
    BY <1>1, <1>2, <1>3, <1>4, <1>5 DEF SkipStep, Takes

\* One session is replaced.
LEMMA OneReplaced ==
  ASSUME NEW S, NEW D, NEW h \in [D -> S], NEW p \in D, NEW v \in S,
         NEW g, g = [h EXCEPT ![p] = v]
  PROVE  g \in [D -> S] /\ g[p] = v /\ \A q \in D \ {p} : g[q] = h[q]
  OBVIOUS

LEMMA ToldEffect ==
  ASSUME Types, NEW p \in Players, PlayTold(p)
  PROVE  \E x : ToldStep(p, x)
  <1>1. PICK x : x = Item("chunksize", 0, 0, SizeOf(p), 0, 0)
    OBVIOUS
  <1>2. /\ x \in Items /\ x.kind = "chunksize" /\ x.cut = SizeOf(p) /\ x.cell = 0
        /\ x.at = 0
    <2>1. SizeOf(p) \in Nat
      BY DEF SizeOf
    <2>2. QED
      BY <1>1, <2>1 DEF Item, Items, Kinds
  <1>3. /\ ss[p].step = "idle"
        /\ src' = [src EXCEPT !.chunkSize = ChunkSize[p]]
        /\ sent' = [sent EXCEPT ![p] = Append(sent[p], x)]
        /\ ss' = [ss EXCEPT ![p].step = "told", ![p].plays = @ + 1]
        /\ UNCHANGED <<pub, mem, job, list, read, refused, unsent, paused>>
    BY <1>1 DEF PlayTold, SizeOf
  <1>4. /\ src' \in Sources /\ src'.ver = src.ver /\ src'.buf = src.buf
        /\ src'.metaCut = src.metaCut /\ src'.first = src.first /\ src'.queue = src.queue
        /\ src'.tmChannel = src.tmChannel /\ src'.chunkSize = ChunkSize[p]
    BY <1>3 DEF Types, Sources
  <1>5. PICK s \in Sessions : s = ss[p]
    BY DEF Types
  <1>6. s.plays \in Nat /\ s.playCalled \in BOOLEAN /\ s.playing \in BOOLEAN
    BY DEF Sessions
  <1>7. PICK n \in Nat : n = s.plays + 1
    BY <1>6
  <1>8. PICK t : t = [s EXCEPT !.step = "told", !.plays = n]
    OBVIOUS
  <1>9. /\ t \in Sessions /\ t.step = "told" /\ t.plays = n /\ t.playCalled = s.playCalled
        /\ t.playing = s.playing /\ SameSession(t, s)
    BY <1>8 DEF Sessions, Steps, SameSession
  <1>10. ss' = [ss EXCEPT ![p] = t]
    BY <1>3, <1>5, <1>7, <1>8
  <1>11. /\ ss' \in [Players -> Sessions] /\ ss'[p] = t
         /\ \A q \in Players \ {p} : ss'[q] = ss[q]
    BY <1>9, <1>10, OneReplaced DEF Types
  <1>12. /\ sent[p] \in Seq(Items) /\ sent \in [Players -> Seq(Items)]
    BY DEF Types
  <1>13. PICK q : q = Append(sent[p], x)
    OBVIOUS
  <1>14. Prolonged(q, sent[p], 1, 0, 0, x, x, x)
    BY <1>2, <1>12, <1>13, AppendProperties, LenProperties DEF Prolonged
  <1>15. q \in Seq(Items)
    BY <1>14 DEF Prolonged
  <1>16. /\ sent' \in [Players -> Seq(Items)] /\ sent'[p] = q
         /\ \A o \in Players \ {p} : sent'[o] = sent[o]
    <2>1. sent' = [sent EXCEPT ![p] = q]
      BY <1>3, <1>13
    <2>2. QED
      BY <1>12, <1>15, <2>1, OneReplaced
  <1>17. ToldStep(p, x)
    BY <1>2, <1>3, <1>4, <1>5, <1>7, <1>9, <1>11, <1>14, <1>16 DEF ToldStep
  <1>18. QED
    BY <1>17

LEMMA ListedEffect ==
  ASSUME Types, NEW p \in Players, PlayListed(p)
  PROVE  ListedStep(p)
  <1>1. /\ ss[p].step = "told" /\ job = NoJob
        /\ ss' = [ss EXCEPT ![p].step = "listed"]
        /\ list' = list \/ (list' = Append(list, p) /\ p \notin {list[i] : i \in DOMAIN list})
        /\ UNCHANGED <<pub, src, mem, job, sent, read, refused, unsent, paused>>
    BY DEF PlayListed
  <1>2. /\ ss' \in [Players -> Sessions] /\ \A q \in Players \ {p} : ss'[q] = ss[q]
        /\ ss'[p].step = "listed" /\ ss'[p].plays = ss[p].plays
        /\ ss'[p].playCalled = ss[p].playCalled /\ ss'[p].playing = ss[p].playing
        /\ SameSession(ss'[p], ss[p])
    BY ZenonT(60), <1>1 DEF Types, Sessions, Steps, SameSession
  <1>3. list \in Seq(Players) /\ paused \in [Players -> Nat] /\ DOMAIN list = 1 .. Len(list)
    BY LenProperties DEF Types
  <1>4. /\ list' \in Seq(Players)
        /\ \/ list' = list
           \/ /\ ~Among(p, list) /\ Len(list') = Len(list) + 1 /\ list'[Len(list) + 1] = p
              /\ \A i \in 1 .. Len(list) : list'[i] = list[i]
    <2>1. CASE list' = list
      BY <1>3, <2>1
    <2>2. CASE list' = Append(list, p) /\ p \notin {list[i] : i \in DOMAIN list}
      <3>1. /\ list' \in Seq(Players) /\ Len(list') = Len(list) + 1
            /\ list'[Len(list) + 1] = p /\ \A i \in 1 .. Len(list) : list'[i] = list[i]
        BY <1>3, <2>2, AppendProperties
      <3>2. ~Among(p, list)
        BY <1>3, <2>2 DEF Among
      <3>3. QED
        BY <3>1, <3>2
    <2>3. QED
      BY <1>1, <2>1, <2>2
  <1>5. PlayerStep(p)
    BY <1>1, <1>2, <1>3 DEF PlayerStep
  <1>6. QED
    BY <1>1, <1>2, <1>4, <1>5 DEF ListedStep

LEMMA StartedEffect ==
  ASSUME Types, NEW p \in Players, PlayStarted(p)
  PROVE  StartedStep(p)
  <1>1. /\ ss[p].step = "listed"
        /\ ss' = [ss EXCEPT ![p].step = "idle", ![p].playCalled = TRUE, ![p].playing = TRUE]
        /\ UNCHANGED <<pub, src, mem, job, list, sent, read, refused, unsent, paused>>
    BY DEF PlayStarted
  <1>2. /\ ss' \in [Players -> Sessions] /\ \A q \in Players \ {p} : ss'[q] = ss[q]
        /\ ss'[p].step = "idle" /\ ss'[p].plays = ss[p].plays
        /\ ss'[p].playCalled = TRUE /\ ss'[p].playing = TRUE
        /\ SameSession(ss'[p], ss[p])
    <2>1. PICK s \in Sessions : s = ss[p]
      BY DEF Types
    <2>2. PICK t : t = [s EXCEPT !.step = "idle", !.playCalled = TRUE, !.playing = TRUE]
      OBVIOUS
    <2>3. /\ t \in Sessions /\ t.step = "idle" /\ t.plays = s.plays
          /\ t.playCalled = TRUE /\ t.playing = TRUE /\ SameSession(t, s)
      BY <2>2 DEF Sessions, Steps, SameSession
    <2>4. ss' = [ss EXCEPT ![p] = t]
      BY <1>1, <2>1, <2>2
    <2>5. /\ ss' \in [Players -> Sessions] /\ ss'[p] = t
          /\ \A q \in Players \ {p} : ss'[q] = ss[q]
      BY <2>3, <2>4, OneReplaced DEF Types
    <2>6. QED
      BY <2>1, <2>3, <2>5
  <1>3. paused \in [Players -> Nat]
    BY DEF Types
  <1>4. PlayerStep(p)
    BY <1>1, <1>2, <1>3 DEF PlayerStep
  <1>5. QED
    BY <1>1, <1>2, <1>4 DEF StartedStep

LEMMA PauseEffect ==
  ASSUME Types, NEW p \in Players, Pause(p)
  PROVE  PauseStep(p)
  <1>1. /\ ss[p].playCalled /\ paused' = [paused EXCEPT ![p] = paused[p] + 1]
        /\ ss' = [ss EXCEPT ![p].playing = ~ss[p].playing]
        /\ UNCHANGED <<pub, src, mem, job, list, sent, read, refused, unsent>>
    BY DEF Pause
  <1>2. PICK v \in BOOLEAN : v = ~ss[p].playing
    OBVIOUS
  <1>3. ss' = [ss EXCEPT ![p].playing = v]
    BY <1>1, <1>2
  <1>4. /\ ss' \in [Players -> Sessions] /\ \A q \in Players \ {p} : ss'[q] = ss[q]
        /\ ss'[p].step = ss[p].step /\ ss'[p].plays = ss[p].plays
        /\ ss'[p].playCalled = ss[p].playCalled /\ SameSession(ss'[p], ss[p])
    <2>1. PICK s \in Sessions : s = ss[p]
      BY DEF Types
    <2>2. PICK t : t = [s EXCEPT !.playing = v]
      OBVIOUS
    <2>3. /\ t \in Sessions /\ t.step = s.step /\ t.plays = s.plays
          /\ t.playCalled = s.playCalled /\ SameSession(t, s)
      BY <2>2 DEF Sessions, SameSession
    <2>4. ss' = [ss EXCEPT ![p] = t]
      BY <1>3, <2>1, <2>2
    <2>5. /\ ss' \in [Players -> Sessions] /\ ss'[p] = t
          /\ \A q \in Players \ {p} : ss'[q] = ss[q]
      BY <2>3, <2>4, OneReplaced DEF Types
    <2>6. QED
      BY <2>1, <2>3, <2>5
  <1>5. /\ paused' \in [Players -> Nat] /\ paused'[p] > 0
        /\ \A q \in Players \ {p} : paused'[q] = paused[q]
    BY <1>1 DEF Types
  <1>6. PlayerStep(p)
    BY <1>1, <1>4, <1>5 DEF PlayerStep
  <1>7. QED
    BY <1>1, <1>4, <1>5, <1>6 DEF PauseStep

LEMMA MadeSeq ==
  ASSUME NEW S, NEW n \in Nat, NEW h \in [1 .. n -> S]
  PROVE  h \in Seq(S) /\ Len(h) = n
  <1>1. h \in Seq(S)
    OBVIOUS
  <1>2. QED
    BY <1>1, LenProperties

LEMMA LeaveEffect ==
  ASSUME Types, NEW p \in Players, Leave(p)
  PROVE  \E i : LeaveStep(p, i)
  <1>1. PICK i \in DOMAIN list : list[i] = p /\ list' = Without(i, list)
    BY DEF Leave
  <1>2. /\ ss[p].step = "idle" /\ job = NoJob
        /\ ss' = [ss EXCEPT ![p].step = "gone"]
        /\ UNCHANGED <<pub, src, mem, job, sent, read, refused, unsent, paused>>
    BY DEF Leave
  <1>3. /\ ss' \in [Players -> Sessions] /\ \A q \in Players \ {p} : ss'[q] = ss[q]
        /\ ss'[p].step = "gone" /\ ss'[p].plays = ss[p].plays
        /\ ss'[p].playCalled = ss[p].playCalled /\ ss'[p].playing = ss[p].playing
        /\ SameSession(ss'[p], ss[p])
    BY ZenonT(60), <1>2 DEF Types, Sessions, Steps, SameSession
  <1>4. list \in Seq(Players) /\ paused \in [Players -> Nat] /\ DOMAIN list = 1 .. Len(list)
        /\ Len(list) \in Nat
    BY LenProperties DEF Types
  <1>5. i \in 1 .. Len(list)
    BY <1>1, <1>4
  <1>6. list' = [k \in 1 .. Len(list) - 1 |-> IF k < i THEN list[k] ELSE list[k + 1]]
    BY <1>1 DEF Without
  <1>7. \A k \in 1 .. Len(list) - 1 : (IF k < i THEN list[k] ELSE list[k + 1]) \in Players
    <2>1. \A k \in 1 .. Len(list) : list[k] \in Players
      BY <1>4, ElementOfSeq
    <2>2. PICK n \in Nat : n = Len(list)
      BY <1>4
    <2>3. ASSUME NEW k \in 1 .. n - 1 PROVE k \in 1 .. n /\ k + 1 \in 1 .. n
      OBVIOUS
    <2>4. QED
      BY <2>1, <2>2, <2>3
  <1>8. list' \in Seq(Players) /\ Len(list') = Len(list) - 1
    <2>1. PICK n \in Nat : n = Len(list) - 1
      <3>1. PICK u \in Nat : u = Len(list)
        BY <1>4
      <3>2. u - 1 \in Nat
        BY <1>5, <3>1
      <3>3. QED
        BY <3>1, <3>2
    <2>2. list' = [k \in 1 .. n |-> IF k < i THEN list[k] ELSE list[k + 1]]
      BY <1>6, <2>1
    <2>3. list' \in [1 .. n -> Players]
      BY <1>7, <2>1, <2>2
    <2>4. list' \in Seq(Players) /\ Len(list') = n
      BY <2>3, MadeSeq
    <2>5. QED
      BY <2>1, <2>4
  <1>9. \A k \in 1 .. Len(list) - 1 : list'[k] = IF k < i THEN list[k] ELSE list[k + 1]
    BY <1>6
  <1>10. PlayerStep(p)
    BY <1>2, <1>3, <1>4 DEF PlayerStep
  <1>11. LeaveStep(p, i)
    BY <1>1, <1>2, <1>3, <1>5, <1>8, <1>9, <1>10 DEF LeaveStep
  <1>12. QED
    BY <1>11

LEMMA DeliverEffect ==
  ASSUME Types, NEW p \in Players, Deliver(p), MemoryOf(p)
  PROVE  DeliverStep(p)
  <1>1. /\ Len(read[p]) < Len(sent[p])
        /\ UNCHANGED <<pub, src, mem, job, list, ss, sent, refused, unsent, paused>>
    BY DEF Deliver
  <1>2. /\ read[p] \in Seq(Int) /\ sent[p] \in Seq(Items) /\ Len(read[p]) \in Nat
        /\ Len(sent[p]) \in Nat /\ mem \in Seq(Cells)
    BY LenProperties DEF Types
  <1>3. PICK r \in Nat, n \in Nat : r = Len(read[p]) /\ r + n = Len(sent[p])
    <2>1. PICK r \in Nat, l \in Nat : r = Len(read[p]) /\ l = Len(sent[p]) /\ r < l
      BY <1>1, <1>2
    <2>2. l - r \in Nat /\ r + (l - r) = l
      BY <2>1
    <2>3. QED
      BY <2>1, <2>2
  <1>4. PICK h : h = [i \in 1 .. n |->
                        IF sent[p][r + i].cell # 0 THEN mem[sent[p][r + i].cell].time
                        ELSE EncodeInt24(sent[p][r + i].at)]
    OBVIOUS
  <1>5. read' = [read EXCEPT ![p] = read[p] \o h]
    <2>1. Len(sent[p]) - Len(read[p]) = n
      BY <1>3
    <2>2. QED
      BY <1>3, <1>4, <2>1 DEF Deliver
  <1>6. ASSUME NEW k \in 1 .. Len(sent[p])
        PROVE  (IF sent[p][k].cell # 0 THEN mem[sent[p][k].cell].time
                ELSE EncodeInt24(sent[p][k].at)) \in Int
    <2>1. PICK it \in Items : it = sent[p][k]
      BY <1>2, ElementOfSeq
    <2>2. it.cell \in Nat /\ it.at \in Int
      BY DEF Items
    <2>3. ASSUME it.cell # 0 PROVE mem[it.cell].time \in Int
      <3>1. it.cell <= Len(mem)
        BY <2>1, <2>3 DEF MemoryOf
      <3>2. Len(mem) \in Nat
        BY <1>2, LenProperties
      <3>3. it.cell \in 1 .. Len(mem)
        BY <2>2, <2>3, <3>1, <3>2
      <3>4. mem[it.cell] \in Cells
        BY <1>2, <3>3, ElementOfSeq
      <3>5. QED
        BY <3>4 DEF Cells
    <2>4. EncodeInt24(it.at) \in Int
      BY <2>2, Encoded
    <2>5. QED
      BY <2>1, <2>3, <2>4
  <1>7. \A i \in 1 .. n : h[i] \in Int
    <2>1. ASSUME NEW i \in 1 .. n PROVE h[i] \in Int
      <3>1. r + i \in 1 .. Len(sent[p])
        BY <1>3
      <3>2. PICK k \in 1 .. Len(sent[p]) : k = r + i
        BY <3>1
      <3>3. h[i] = IF sent[p][k].cell # 0 THEN mem[sent[p][k].cell].time
                   ELSE EncodeInt24(sent[p][k].at)
        BY <1>4, <3>2
      <3>4. QED
        BY <1>6, <3>3
    <2>2. QED
      BY <2>1
  <1>8. h \in Seq(Int) /\ Len(h) = n
    <2>1. h \in [1 .. n -> Int]
      BY <1>4, <1>7
    <2>2. QED
      BY <2>1, MadeSeq
  <1>9. PICK t : t = read[p] \o h
    OBVIOUS
  <1>10. /\ t \in Seq(Int) /\ Len(t) = r + n
         /\ \A i \in 1 .. r : t[i] = read[p][i]
         /\ \A i \in 1 .. n : t[r + i] = h[i]
    <2>1. PICK o \in Seq(Int) : o = read[p]
      BY <1>2
    <2>2. PICK g \in Seq(Int) : g = h
      BY <1>8
    <2>3. /\ o \o g \in Seq(Int) /\ Len(o \o g) = Len(o) + Len(g)
          /\ \A i \in 1 .. Len(o) : (o \o g)[i] = o[i]
          /\ \A i \in 1 .. Len(g) : (o \o g)[Len(o) + i] = g[i]
      BY SMTT(60), Concat
    <2>4. QED
      BY <1>3, <1>8, <1>9, <2>1, <2>2, <2>3
  <1>11. /\ read' \in [Players -> Seq(Int)] /\ read'[p] = t
         /\ \A q \in Players \ {p} : read'[q] = read[q]
    <2>1. read' = [read EXCEPT ![p] = t]
      BY <1>5, <1>9
    <2>2. QED
      BY <1>10, <2>1, OneReplaced DEF Types
  <1>12. ASSUME NEW i \in r + 1 .. r + n
         PROVE  t[i] = IF sent[p][i].cell # 0 THEN mem[sent[p][i].cell].time
                       ELSE EncodeInt24(sent[p][i].at)
    <2>1. PICK k \in 1 .. n : r + k = i
      <3>1. i - r \in 1 .. n /\ r + (i - r) = i
        OBVIOUS
      <3>2. QED
        BY <3>1
    <2>2. t[i] = h[k]
      BY <1>10, <2>1
    <2>3. QED
      BY <1>4, <2>1, <2>2
  <1>13. QED
    BY <1>1, <1>3, <1>10, <1>11, <1>12 DEF DeliverStep

-----------------------------------------------------------------------------
(* What a step can be, and the types.                                       *)

DoneStep ==
    /\ job # NoJob /\ job.todo = <<>> /\ job' = NoJob
    /\ UNCHANGED <<pub, src, mem, list, ss, sent, read, refused, unsent, paused>>

ServeStep ==
    \E c, mm, x, y, z : \E a, b, f \in 0 .. 1 : \E r \in 0 .. 3 :
        Served(c, mm, x, y, z, a, b, f, r)

AnyStep ==
    \/ QuietStep \/ CountStep \/ SkipStep \/ DoneStep \/ ServeStep
    \/ \E p \in Players : \E x : ToldStep(p, x)
    \/ \E p \in Players : ListedStep(p) \/ StartedStep(p) \/ PauseStep(p)
    \/ \E p \in Players : \E i : LeaveStep(p, i)
    \/ \E p \in Players : DeliverStep(p)
    \/ UNCHANGED vars

LEMMA StepCases ==
  ASSUME Types, BufferInv, \A p \in Players : MemoryOf(p), [Next]_vars
  PROVE  AnyStep
  <1>1. ASSUME HandleHeader PROVE AnyStep
    BY <1>1, HeaderEffect DEF AnyStep
  <1>2. ASSUME DropFrame \/ BrokenFrame PROVE AnyStep
    BY <1>2, DropEffect DEF AnyStep
  <1>3. ASSUME VideoFrame \/ AudioFrame PROVE AnyStep
    BY <1>3, FrameEffect DEF AnyStep
  <1>4. ASSUME SkipClient PROVE AnyStep
    BY <1>4, SkipEffect DEF AnyStep
  <1>5. ASSUME FrameDone PROVE AnyStep
    <2>1. DoneStep
      BY <1>5 DEF FrameDone, DoneStep
    <2>2. QED
      BY <2>1 DEF AnyStep
  <1>6. ASSUME NEW r \in 0 .. 3, ServeClient(r) PROVE AnyStep
    <2>1. ServeStep
      BY <1>6, ServeEffect DEF ServeStep
    <2>2. QED
      BY <2>1 DEF AnyStep
  <1>7. ASSUME NEW p \in Players, PlayTold(p) PROVE AnyStep
    BY <1>7, ToldEffect DEF AnyStep
  <1>8. ASSUME NEW p \in Players, PlayListed(p) PROVE AnyStep
    BY <1>8, ListedEffect DEF AnyStep
  <1>9. ASSUME NEW p \in Players, PlayStarted(p) PROVE AnyStep
    BY <1>9, StartedEffect DEF AnyStep
  <1>10. ASSUME NEW p \in Players, Pause(p) PROVE AnyStep
    BY <1>10, PauseEffect DEF AnyStep
  <1>11. ASSUME NEW p \in Players, Leave(p) PROVE AnyStep
    BY <1>11, LeaveEffect DEF AnyStep
  <1>12. ASSUME NEW p \in Players, Deliver(p) PROVE AnyStep
    BY <1>12, DeliverEffect DEF AnyStep
  <1>13. ASSUME UNCHANGED vars PROVE AnyStep
    BY <1>13 DEF AnyStep
  <1>14. QED
    BY <1>1, <1>2, <1>3, <1>4, <1>5, <1>6, <1>7, <1>8, <1>9, <1>10, <1>11, <1>12, <1>13
       DEF Next

LEMMA TypesKept ==
  ASSUME Types, AnyStep
  PROVE  Types'
  <1>1. ASSUME PublisherStep, job' \in Jobs \cup {NoJob}, unsent' \in SUBSET Nat
        PROVE  Types'
    BY <1>1 DEF Types, PublisherStep
  <1>2. ASSUME QuietStep PROVE Types'
    BY <1>1, <1>2 DEF QuietStep, Types
  <1>3. ASSUME CountStep PROVE Types'
    <2>1. PublisherStep /\ job' \in Jobs \cup {NoJob}
      BY <1>3 DEF CountStep
    <2>2. Next1.media \in Media /\ src.queue \in [Media -> Nat] /\ unsent \in SUBSET Nat
      BY <2>1, NextFacts DEF PublisherStep, Types, Sources
    <2>3. src.queue[Next1.media] + 1 \in Nat
      BY <2>2
    <2>4. unsent' \in SUBSET Nat
      BY <1>3, <2>2, <2>3 DEF CountStep
    <2>5. QED
      BY <1>1, <2>1, <2>4
  <1>4. ASSUME SkipStep PROVE Types'
    BY <1>4 DEF SkipStep, SameFrame, Types
  <1>5. ASSUME DoneStep PROVE Types'
    BY <1>5 DEF DoneStep, Types
  <1>6. ASSUME NEW c, NEW mm, NEW x, NEW y, NEW z, NEW a \in 0 .. 1, NEW b \in 0 .. 1,
               NEW f \in 0 .. 1, NEW r \in 0 .. 3, Served(c, mm, x, y, z, a, b, f, r)
        PROVE  Types'
    <2>1. PICK p \in Players : p = Taker
      BY <1>6 DEF Served, Renew
    <2>2. job' \in Jobs /\ src' \in Sources /\ mem' \in Seq(Cells)
      BY <1>6 DEF Served, Renew, SameFrame, SourceMoved, BufferWritten
    <2>3. ss'[p] \in Sessions /\ sent'[p] \in Seq(Items)
          /\ refused'[p] \in SUBSET (Media \X Nat)
      BY <1>6, <2>1 DEF Served, SessionMoved, Prolonged, Refusal
    <2>4. \A q \in Players \ {p} :
            ss'[q] \in Sessions /\ sent'[q] \in Seq(Items)
            /\ refused'[q] \in SUBSET (Media \X Nat)
      BY <1>6, <2>1 DEF Served, OthersKept, Types
    <2>5. /\ ss' = [q \in Players |-> ss'[q]]
          /\ sent' = [q \in Players |-> sent'[q]]
          /\ refused' = [q \in Players |-> refused'[q]]
      BY <1>6 DEF Served, OthersKept
    <2>6. ss' \in [Players -> Sessions]
      BY <2>3, <2>4, <2>5
    <2>7. sent' \in [Players -> Seq(Items)]
      BY <2>3, <2>4, <2>5
    <2>8. refused' \in [Players -> SUBSET (Media \X Nat)]
      BY <2>3, <2>4, <2>5
    <2>9. pub' = pub /\ list' = list /\ read' = read /\ unsent' = unsent /\ paused' = paused
      BY <1>6 DEF Served
    <2>10. QED
      BY <2>2, <2>6, <2>7, <2>8, <2>9 DEF Types
  <1>7. ASSUME NEW p, NEW x, ToldStep(p, x) PROVE Types'
    BY <1>7 DEF ToldStep, Types
  <1>8. ASSUME NEW p, PlayerStep(p), list' \in Seq(Players) PROVE Types'
    BY <1>8 DEF PlayerStep, Types
  <1>9. ASSUME NEW p, ListedStep(p) \/ StartedStep(p) \/ PauseStep(p) PROVE Types'
    BY <1>8, <1>9 DEF ListedStep, StartedStep, PauseStep, Types
  <1>10. ASSUME NEW p, NEW i, LeaveStep(p, i) PROVE Types'
    BY <1>8, <1>10 DEF LeaveStep
  <1>11. ASSUME NEW p, DeliverStep(p) PROVE Types'
    BY <1>11 DEF DeliverStep, Types
  <1>12. ASSUME UNCHANGED vars PROVE Types'
    BY <1>12 DEF vars, Types
  <1>13. QED
    BY <1>2, <1>3, <1>4, <1>5, <1>6, <1>7, <1>9, <1>10, <1>11, <1>12 DEF AnyStep, ServeStep

-----------------------------------------------------------------------------
(* The buffers, the walk over the list and the clocks.                      *)

\* What became of the memory of the headers: cell c may be new, and written if b.
Grown(c, b) ==
    LET m == job.media IN
    /\ Len(mem) \in Nat /\ Len(mem') \in Nat /\ Len(mem) <= Len(mem') /\ c \in 1 .. Len(mem')
    /\ \A i \in 1 .. Len(mem) :
         /\ mem'[i].ver = mem[i].ver /\ mem'[i].cut = mem[i].cut
         /\ mem'[i] = mem[i] \/ (i = c /\ mem'[i].used = mem[i].used + 1)
         /\ b = 1 /\ i = c => mem'[i].used = mem[i].used + 1
    /\ \A i \in 1 .. Len(mem') : i > Len(mem) =>
         i = c /\ mem'[i].cut \in {0, GetRTMPChunkSize} /\ (b = 1 => mem'[i].used = 1)
    /\ mem'[c].ver = src.ver[m]
    /\ b = 1 => mem'[c].time = EncodeInt24(job.at)
    /\ c = HeaderCell(job)

LEMMA GrownFacts ==
  ASSUME Types, NEW c, NEW mm, NEW b \in 0 .. 1,
         BufferMade(mm, job), BufferWritten(mm, mem', job, b = 1), c = HeaderCell(job)
  PROVE  Grown(c, b)
  <1>1. /\ mm \in Seq(Cells) /\ mem' \in Seq(Cells) /\ mem \in Seq(Cells)
        /\ Len(mm) \in Nat /\ Len(mem) \in Nat /\ Len(mem') = Len(mm)
    BY LenProperties DEF BufferMade, BufferWritten, Types
  <1>2. /\ c \in 1 .. Len(mm) /\ Len(mem) <= Len(mm)
        /\ Len(mm) \in {Len(mem), Len(mem) + 1} /\ (Len(mm) > Len(mem) => c = Len(mm))
        /\ \A i \in 1 .. Len(mem) : mm[i] = mem[i]
        /\ mm[c].ver = src.ver[job.media]
        /\ c > Len(mem) => mm[c].used = 0 /\ mm[c].cut \in {0, GetRTMPChunkSize}
    BY DEF BufferMade
  <1>3. /\ \A i \in 1 .. Len(mm) : i # c => mem'[i] = mm[i]
        /\ mem'[c].ver = mm[c].ver /\ mem'[c].cut = mm[c].cut
        /\ \/ mem'[c].used = mm[c].used + 1 /\ mem'[c].time = EncodeInt24(job.at)
           \/ ~(b = 1) /\ mem'[c] = mm[c]
    BY DEF BufferWritten
  <1>4. ASSUME NEW i \in 1 .. Len(mem)
        PROVE  /\ mem'[i].ver = mem[i].ver /\ mem'[i].cut = mem[i].cut
               /\ mem'[i] = mem[i] \/ (i = c /\ mem'[i].used = mem[i].used + 1)
               /\ b = 1 /\ i = c => mem'[i].used = mem[i].used + 1
    <2>1. mm[i] = mem[i] /\ i \in 1 .. Len(mm)
      BY <1>1, <1>2
    <2>2. QED
      BY <1>3, <2>1
  <1>5. ASSUME NEW i \in 1 .. Len(mem'), i > Len(mem)
        PROVE  i = c /\ mem'[i].cut \in {0, GetRTMPChunkSize} /\ (b = 1 => mem'[i].used = 1)
    <2>1. i = c
      BY <1>1, <1>2, <1>5
    <2>2. mm[c].used = 0 /\ mm[c].cut \in {0, GetRTMPChunkSize}
      BY <1>2, <1>5, <2>1
    <2>3. QED
      BY <1>3, <2>1, <2>2
  <1>6. b = 1 => mem'[c].time = EncodeInt24(job.at)
    BY <1>3
  <1>7. QED
    BY <1>1, <1>2, <1>3, <1>4, <1>5, <1>6 DEF Grown

\* What every client that is served is.
LEMMA ServedFacts ==
  ASSUME Types, NEW c, NEW mm, NEW x, NEW y, NEW z, NEW a \in 0 .. 1, NEW b \in 0 .. 1,
         NEW f \in 0 .. 1, NEW r \in 0 .. 3, Served(c, mm, x, y, z, a, b, f, r)
  PROVE  /\ Grown(c, b) /\ Renew(job') /\ SourceMoved(src') /\ Working /\ Working'
         /\ job \in Jobs /\ Taker \in Players
  <1>1. Grown(c, b)
    BY GrownFacts DEF Served
  <1>2. job \in Jobs /\ job' \in Jobs /\ Taker \in Players
    BY DEF Served, Renew, SameFrame
  <1>3. \A j \in Jobs : j # NoJob
    BY MediaFacts DEF Jobs, NoJob
  <1>4. QED
    BY <1>1, <1>2, <1>3 DEF Served, Working

LEMMA BufferKept ==
  ASSUME Types, BufferInv, AnyStep
  PROVE  BufferInv'
  <1>1. ASSUME src'.buf = src.buf, src'.ver = src.ver, mem' = mem PROVE BufferInv'
    BY <1>1 DEF BufferInv
  <1>2. ASSUME QuietStep PROVE BufferInv'
    BY <1>2 DEF QuietStep, PublisherStep, BufferInv
  <1>3. ASSUME CountStep PROVE BufferInv'
    BY <1>1, <1>3 DEF CountStep, PublisherStep
  <1>4. ASSUME SkipStep \/ DoneStep PROVE BufferInv'
    BY <1>1, <1>4 DEF SkipStep, DoneStep
  <1>5. ASSUME NEW c, NEW mm, NEW x, NEW y, NEW z, NEW a \in 0 .. 1, NEW b \in 0 .. 1,
               NEW f \in 0 .. 1, NEW r \in 0 .. 3, Served(c, mm, x, y, z, a, b, f, r)
        PROVE  BufferInv'
    <2>1. /\ Grown(c, b) /\ SourceMoved(src')
      BY <1>5, ServedFacts
    <2>2. src'.ver = src.ver /\ src'.buf = [src.buf EXCEPT ![job.media] = c]
      BY <2>1 DEF SourceMoved, Grown
    <2>3. src.buf \in [Media -> Nat]
      BY DEF Types, Sources
    <2>4. SUFFICES ASSUME NEW m \in Media, src'.buf[m] # 0
                   PROVE  src'.buf[m] \in 1 .. Len(mem') /\ mem'[src'.buf[m]].ver = src'.ver[m]
      BY DEF BufferInv
    <2>5. CASE m = job.media
      <3>1. src'.buf[m] = c
        BY <2>2, <2>3, <2>5
      <3>2. QED
        BY <2>1, <2>2, <2>5, <3>1 DEF Grown
    <2>6. CASE m # job.media
      <3>1. src'.buf[m] = src.buf[m]
        BY <2>2, <2>3, <2>6
      <3>2. src.buf[m] \in 1 .. Len(mem) /\ mem[src.buf[m]].ver = src.ver[m]
        BY <2>4, <3>1 DEF BufferInv
      <3>3. QED
        BY <2>1, <2>2, <3>1, <3>2 DEF Grown
    <2>7. QED
      BY <2>5, <2>6
  <1>6. ASSUME NEW p, NEW x, ToldStep(p, x) PROVE BufferInv'
    BY <1>1, <1>6 DEF ToldStep
  <1>7. ASSUME NEW p, NEW i, ListedStep(p) \/ StartedStep(p) \/ PauseStep(p) \/ LeaveStep(p, i)
        PROVE  BufferInv'
    BY <1>1, <1>7 DEF ListedStep, StartedStep, PauseStep, LeaveStep, PlayerStep
  <1>8. ASSUME NEW p, DeliverStep(p) PROVE BufferInv'
    BY <1>1, <1>8 DEF DeliverStep
  <1>9. ASSUME UNCHANGED vars PROVE BufferInv'
    BY <1>1, <1>9 DEF vars
  <1>10. QED
    BY <1>2, <1>3, <1>4, <1>5, <1>6, <1>7, <1>8, <1>9 DEF AnyStep, ServeStep

\* The rest of a walk.
LEMMA TailFacts ==
  ASSUME NEW S, NEW q \in Seq(S), q # <<>>
  PROVE  /\ Head(q) = q[1] /\ Len(q) \in Nat \ {0} /\ Len(Tail(q)) = Len(q) - 1
         /\ \A i \in 1 .. Len(Tail(q)) : Tail(q)[i] = q[i + 1] /\ i + 1 \in 1 .. Len(q)
         /\ Among(Head(q), q)
         /\ Once(q) => Once(Tail(q)) /\ ~Among(Head(q), Tail(q))
         /\ \A p : Among(p, Tail(q)) => Among(p, q)
         /\ \A p : Among(p, q) /\ p # Head(q) => Among(p, Tail(q))
  <1>1. /\ Head(q) = q[1] /\ Len(q) \in Nat \ {0} /\ Len(Tail(q)) = Len(q) - 1
        /\ \A i \in 1 .. Len(q) - 1 : Tail(q)[i] = q[i + 1]
    BY HeadTailProperties, EmptySeq, LenProperties
  <1>2. PICK n \in Nat : n = Len(q) - 1 /\ Len(q) = n + 1
    <2>1. PICK u \in Nat \ {0} : u = Len(q)
      BY <1>1
    <2>2. u - 1 \in Nat /\ u - 1 + 1 = u
      BY <2>1
    <2>3. QED
      BY <2>1, <2>2
  <1>3. PICK t, h : t = Tail(q) /\ h = Head(q)
    OBVIOUS
  <1>4. /\ h = q[1] /\ Len(t) = n
        /\ \A i \in 1 .. n : t[i] = q[i + 1] /\ i + 1 \in 1 .. n + 1
    BY <1>1, <1>2, <1>3
  <1>5. Among(h, q)
    BY <1>2, <1>3, <1>4 DEF Among
  <1>6. Once(q) => Once(t)
    BY <1>2, <1>3, <1>4 DEF Once
  <1>7. Once(q) => ~Among(h, t)
    BY <1>2, <1>3, <1>4 DEF Once, Among
  <1>8. ASSUME NEW p, Among(p, t) PROVE Among(p, q)
    BY <1>2, <1>3, <1>4, <1>8 DEF Among
  <1>9. ASSUME NEW p, Among(p, q), p # h PROVE Among(p, t)
    <2>1. PICK i \in 1 .. n + 1 : q[i] = p
      BY <1>2, <1>3, <1>9 DEF Among
    <2>2. i # 1
      BY <1>4, <1>9, <2>1
    <2>3. PICK k \in 1 .. n : k + 1 = i
      <3>1. i - 1 \in 1 .. n /\ (i - 1) + 1 = i
        BY <2>2
      <3>2. QED
        BY <3>1
    <2>4. t[k] = p
      BY <1>4, <2>1, <2>3
    <2>5. QED
      BY <1>4, <2>4 DEF Among
  <1>10. QED
    BY <1>1, <1>2, <1>3, <1>4, <1>5, <1>6, <1>7, <1>8, <1>9

\* A list with one client more, and with one less.
LEMMA OnceLonger ==
  ASSUME NEW q, NEW t, NEW p, Len(q) \in Nat, Once(q), ~Among(p, q),
         Len(t) = Len(q) + 1, t[Len(q) + 1] = p, \A i \in 1 .. Len(q) : t[i] = q[i]
  PROVE  /\ Once(t) /\ Among(p, t)
         /\ \A o : o # p => (Among(o, t) <=> Among(o, q))
  <1>1. PICK n \in Nat : n = Len(q)
    OBVIOUS
  <1>2. /\ Len(t) = n + 1 /\ t[n + 1] = p /\ \A i \in 1 .. n : t[i] = q[i]
        /\ \A i, j \in 1 .. n : q[i] = q[j] => i = j
        /\ \A i \in 1 .. n : q[i] # p
    BY <1>1 DEF Once, Among
  <1>3. \A i \in 1 .. n + 1 : i \in 1 .. n \/ i = n + 1
    OBVIOUS
  <1>4. Once(t)
    BY <1>2, <1>3 DEF Once
  <1>5. Among(p, t)
    BY <1>2 DEF Among
  <1>6. ASSUME NEW o, o # p PROVE Among(o, t) <=> Among(o, q)
    <2>1. ASSUME NEW i \in 1 .. n + 1, t[i] = o PROVE Among(o, q)
      <3>1. i \in 1 .. n
        BY <1>2, <1>6, <2>1
      <3>2. QED
        BY <1>1, <1>2, <2>1, <3>1 DEF Among
    <2>2. ASSUME NEW i \in 1 .. n, q[i] = o PROVE Among(o, t)
      <3>1. i \in 1 .. n + 1 /\ t[i] = o
        BY <1>2, <2>2
      <3>2. QED
        BY <1>2, <3>1 DEF Among
    <2>3. QED
      BY <1>1, <1>2, <2>1, <2>2 DEF Among
  <1>7. QED
    BY <1>4, <1>5, <1>6

LEMMA OnceShorter ==
  ASSUME NEW q, NEW t, NEW i \in 1 .. Len(q), Len(q) \in Nat, Once(q),
         Len(t) = Len(q) - 1,
         \A k \in 1 .. Len(q) - 1 : t[k] = IF k < i THEN q[k] ELSE q[k + 1]
  PROVE  /\ Once(t) /\ ~Among(q[i], t)
         /\ \A o : o # q[i] => (Among(o, t) <=> Among(o, q))
  <1>1. PICK n \in Nat : n + 1 = Len(q) /\ n = Len(q) - 1
    <2>1. PICK u \in Nat : u = Len(q)
      OBVIOUS
    <2>2. u - 1 \in Nat /\ u - 1 + 1 = u
      BY <2>1
    <2>3. QED
      BY <2>1, <2>2
  <1>2. /\ Len(t) = n /\ i \in 1 .. n + 1
        /\ \A k \in 1 .. n : t[k] = IF k < i THEN q[k] ELSE q[k + 1]
        /\ \A k, j \in 1 .. n + 1 : q[k] = q[j] => k = j
    BY <1>1 DEF Once
  <1>3. Once(t)
    <2>1. SUFFICES ASSUME NEW k \in 1 .. n, NEW j \in 1 .. n, t[k] = t[j] PROVE k = j
      BY <1>2 DEF Once
    <2>2. t[k] = q[IF k < i THEN k ELSE k + 1] /\ t[j] = q[IF j < i THEN j ELSE j + 1]
      BY <1>2
    <2>3. /\ (IF k < i THEN k ELSE k + 1) \in 1 .. n + 1
          /\ (IF j < i THEN j ELSE j + 1) \in 1 .. n + 1
      BY <1>2
    <2>4. (IF k < i THEN k ELSE k + 1) = (IF j < i THEN j ELSE j + 1)
      BY <1>2, <2>1, <2>2, <2>3
    <2>5. QED
      BY <1>2, <2>4
  <1>4. ~Among(q[i], t)
    <2>1. SUFFICES ASSUME NEW k \in 1 .. n, t[k] = q[i] PROVE FALSE
      BY <1>2 DEF Among
    <2>2. CASE k < i
      <3>1. k \in 1 .. n + 1 /\ q[k] = q[i]
        BY <1>2, <2>1, <2>2
      <3>2. QED
        BY <1>2, <2>2, <3>1
    <2>3. CASE ~(k < i)
      <3>1. k + 1 \in 1 .. n + 1 /\ q[k + 1] = q[i]
        BY <1>2, <2>1, <2>3
      <3>2. k + 1 = i
        BY <1>2, <3>1
      <3>3. QED
        BY <1>2, <2>3, <3>2
    <2>4. QED
      BY <2>2, <2>3
  <1>5. ASSUME NEW o, o # q[i] PROVE Among(o, t) <=> Among(o, q)
    <2>1. ASSUME NEW k \in 1 .. n, t[k] = o PROVE Among(o, q)
      <3>1. k \in 1 .. n + 1 /\ k + 1 \in 1 .. n + 1 /\ (q[k] = o \/ q[k + 1] = o)
        BY <1>2, <2>1
      <3>2. QED
        BY <1>1, <3>1 DEF Among
    <2>2. ASSUME NEW k \in 1 .. n + 1, q[k] = o PROVE Among(o, t)
      <3>1. k < i \/ i < k
        BY <1>2, <1>5, <2>2
      <3>2. CASE k < i
        <4>1. k \in 1 .. n /\ t[k] = o
          BY <1>2, <2>2, <3>2
        <4>2. QED
          BY <1>2, <4>1 DEF Among
      <3>3. CASE i < k
        <4>1. k - 1 \in 1 .. n /\ ~(k - 1 < i) /\ k - 1 + 1 = k
          BY <1>2, <3>3
        <4>2. t[k - 1] = o
          BY <1>2, <2>2, <4>1
        <4>3. QED
          BY <1>2, <4>1, <4>2 DEF Among
      <3>4. QED
        BY <3>1, <3>2, <3>3
    <2>3. QED
      BY <1>1, <1>2, <2>1, <2>2 DEF Among
  <1>6. QED
    BY <1>3, <1>4, <1>5

\* A walk that goes one client further.
LEMMA WalkGoesOn ==
  ASSUME WalkInv, job \in Jobs, job.todo # <<>>, SameFrame(job', job),
         job'.todo = Tail(job.todo), src'.queue = src.queue, list' = list
  PROVE  WalkInv'
  <1>1. Working
    BY MediaFacts DEF Working, Jobs, NoJob
  <1>2. job.todo \in Seq(Players)
    BY DEF Jobs
  <1>3. Once(job.todo) /\ job.n = src.queue[job.media] /\ job.n > 0
        /\ Len(job.todo) <= Len(list)
        /\ \A i \in 1 .. Len(job.todo) : Among(job.todo[i], list)
    BY <1>1 DEF WalkInv
  <1>4. /\ Len(job.todo) \in Nat \ {0} /\ Len(job'.todo) = Len(job.todo) - 1
        /\ \A i \in 1 .. Len(job'.todo) : job'.todo[i] = job.todo[i + 1]
                                          /\ i + 1 \in 1 .. Len(job.todo)
        /\ Once(job.todo) => Once(job'.todo)
    BY <1>2, TailFacts
  <1>5. Len(job'.todo) <= Len(list')
    <2>1. PICK n \in Nat : n = Len(job.todo)
      BY <1>4
    <2>2. n <= Len(list) /\ Len(job'.todo) = n - 1
      BY <1>3, <1>4, <2>1
    <2>3. QED
      BY <2>2
  <1>6. \A i \in 1 .. Len(job'.todo) : Among(job'.todo[i], list)
    BY <1>3, <1>4
  <1>7. QED
    BY <1>3, <1>4, <1>5, <1>6 DEF WalkInv, SameFrame

LEMMA WalkKept ==
  ASSUME Types, WalkInv, AnyStep
  PROVE  WalkInv'
  <1>1. ASSUME job' = job, list' = list, src'.queue = src.queue PROVE WalkInv'
    BY <1>1 DEF WalkInv, Working
  <1>2. ASSUME job' = NoJob, list' = list PROVE WalkInv'
    BY <1>2 DEF WalkInv, Working
  <1>3. ASSUME QuietStep PROVE WalkInv'
    BY <1>2, <1>3 DEF QuietStep, PublisherStep
  <1>4. ASSUME CountStep PROVE WalkInv'
    <2>1. list' = list /\ Next1.media \in Media /\ src.queue \in [Media -> Nat]
      BY <1>4, NextFacts DEF CountStep, PublisherStep, Types, Sources
    <2>2. CASE job' = NoJob
      BY <1>2, <2>1, <2>2
    <2>3. CASE job' # NoJob
      <3>1. /\ job'.media = Next1.media /\ job'.n = src.queue[Next1.media] + 1
            /\ job'.todo = list
            /\ src'.queue = [src.queue EXCEPT ![Next1.media] = src.queue[Next1.media] + 1]
        BY <1>4, <2>3 DEF CountStep
      <3>2. job'.n = src'.queue[job'.media] /\ job'.n > 0
        BY <2>1, <3>1
      <3>3. list \in Seq(Players) /\ Once(list) /\ Len(list) \in Nat
        BY LenProperties DEF Types, WalkInv
      <3>4. \A i \in 1 .. Len(list) : Among(list[i], list)
        BY DEF Among
      <3>5. QED
        BY <2>1, <3>1, <3>2, <3>3, <3>4 DEF WalkInv
    <2>4. QED
      BY <2>2, <2>3
  <1>5. ASSUME SkipStep PROVE WalkInv'
    BY <1>5, WalkGoesOn DEF SkipStep
  <1>6. ASSUME DoneStep PROVE WalkInv'
    BY <1>2, <1>6 DEF DoneStep
  <1>7. ASSUME NEW c, NEW mm, NEW x, NEW y, NEW z, NEW a \in 0 .. 1, NEW b \in 0 .. 1,
               NEW f \in 0 .. 1, NEW r \in 0 .. 3, Served(c, mm, x, y, z, a, b, f, r)
        PROVE  WalkInv'
    <2>1. Renew(job') /\ SourceMoved(src') /\ list' = list
      BY <1>7 DEF Served
    <2>2. /\ job \in Jobs /\ job.todo # <<>> /\ SameFrame(job', job)
          /\ job'.todo = Tail(job.todo) /\ src'.queue = src.queue
      BY <2>1 DEF Renew, SourceMoved
    <2>3. QED
      BY <2>1, <2>2, WalkGoesOn
  <1>8. ASSUME NEW p, NEW x, ToldStep(p, x) PROVE WalkInv'
    BY <1>1, <1>8 DEF ToldStep
  <1>9. ASSUME NEW p, StartedStep(p) \/ PauseStep(p) \/ DeliverStep(p) \/ UNCHANGED vars
        PROVE  WalkInv'
    BY <1>1, <1>9 DEF StartedStep, PauseStep, PlayerStep, DeliverStep, vars
  <1>10. list \in Seq(Players) /\ Once(list) /\ Len(list) \in Nat
    BY LenProperties DEF Types, WalkInv
  <1>11. ASSUME NEW p, ListedStep(p) PROVE WalkInv'
    <2>1. job' = NoJob
      BY <1>11 DEF ListedStep, PlayerStep
    <2>2. Once(list')
      <3>1. CASE list' = list
        BY <1>10, <3>1
      <3>2. CASE list' # list
        <4>1. /\ ~Among(p, list) /\ Len(list') = Len(list) + 1 /\ list'[Len(list) + 1] = p
              /\ \A i \in 1 .. Len(list) : list'[i] = list[i]
          BY <1>11, <3>2 DEF ListedStep
        <4>2. QED
          BY <1>10, <4>1, OnceLonger
      <3>3. QED
        BY <3>1, <3>2
    <2>3. QED
      BY <2>1, <2>2 DEF WalkInv, Working
  <1>12. ASSUME NEW p, NEW i, LeaveStep(p, i) PROVE WalkInv'
    <2>1. job' = NoJob
      BY <1>12 DEF LeaveStep, PlayerStep
    <2>2. Once(list')
      <3>1. /\ i \in 1 .. Len(list) /\ Len(list') = Len(list) - 1
            /\ \A k \in 1 .. Len(list) - 1 :
                 list'[k] = IF k < i THEN list[k] ELSE list[k + 1]
        BY <1>12 DEF LeaveStep
      <3>2. QED
        BY <1>10, <3>1, OnceShorter
    <2>3. QED
      BY <2>1, <2>2 DEF WalkInv, Working
  <1>13. QED
    BY <1>3, <1>4, <1>5, <1>6, <1>7, <1>8, <1>9, <1>11, <1>12 DEF AnyStep, ServeStep

\* The messages that are left, seen from the message that was read off.
LEMMA Shifted ==
  ASSUME Types, pub.rest # <<>>, NEW r, r = Tail(pub.rest)
  PROVE  /\ Len(r) = Len(pub.rest) - 1 /\ Len(pub.rest) \in Nat \ {0}
         /\ \A i \in 1 .. Len(r) :
              /\ r[i] = pub.rest[i + 1] /\ i + 1 \in 1 .. Len(pub.rest)
              /\ r[i].media \in Media /\ r[i].time \in Nat
         /\ \A i, j \in 1 .. Len(r) :
              Adjoin(r, i, j) => Adjoin(pub.rest, i + 1, j + 1)
         /\ \A j \in 1 .. Len(r) : First(r, j) =>
              IF Channel[r[j].media] = Stream THEN Adjoin(pub.rest, 1, j + 1)
              ELSE First(pub.rest, j + 1)
  <1>1. PICK n \in Nat : n + 1 = Len(pub.rest) /\ n = Len(pub.rest) - 1
    <2>1. PICK u \in Nat \ {0} : u = Len(pub.rest)
      BY NextFacts
    <2>2. u - 1 \in Nat /\ u - 1 + 1 = u
      BY <2>1
    <2>3. QED
      BY <2>1, <2>2
  <1>2. PICK q : q = pub.rest
    OBVIOUS
  <1>3. /\ Len(r) = n /\ Len(q) = n + 1
        /\ \A i \in 1 .. n : r[i] = q[i + 1] /\ i + 1 \in 1 .. n + 1
        /\ \A i \in 1 .. n + 1 : q[i].media \in Media /\ q[i].time \in Nat
        /\ Stream = Channel[q[1].media]
    BY <1>1, <1>2, NextFacts DEF Stream
  <1>4. ASSUME NEW i \in 1 .. n, NEW j \in 1 .. n, Adjoin(r, i, j)
        PROVE  Adjoin(q, i + 1, j + 1)
    <2>1. i < j /\ Channel[r[i].media] = Channel[r[j].media]
      BY <1>4 DEF Adjoin
    <2>2. i + 1 < j + 1 /\ Channel[q[i + 1].media] = Channel[q[j + 1].media]
      BY <1>3, <2>1
    <2>3. ASSUME NEW k \in i + 1 + 1 .. j + 1 - 1
          PROVE  Channel[q[k].media] # Channel[q[j + 1].media]
      <3>1. k - 1 \in i + 1 .. j - 1 /\ k - 1 \in 1 .. n /\ k - 1 + 1 = k
        BY <1>4, <2>3
      <3>2. Channel[r[k - 1].media] # Channel[r[j].media]
        BY <1>4, <3>1 DEF Adjoin
      <3>3. r[k - 1] = q[k] /\ r[j] = q[j + 1]
        BY <1>3, <3>1
      <3>4. QED
        BY <3>2, <3>3
    <2>4. QED
      BY <2>2, <2>3 DEF Adjoin
  <1>5. ASSUME NEW j \in 1 .. n, First(r, j), NEW k \in 2 .. j
        PROVE  Channel[q[k].media] # Channel[q[j + 1].media]
    <2>1. k - 1 \in 1 .. j - 1 /\ k - 1 \in 1 .. n /\ k - 1 + 1 = k
      BY <1>5
    <2>2. Channel[r[k - 1].media] # Channel[r[j].media]
      BY <1>5, <2>1 DEF First
    <2>3. r[k - 1] = q[k] /\ r[j] = q[j + 1]
      BY <1>3, <2>1
    <2>4. QED
      BY <2>2, <2>3
  <1>6. ASSUME NEW j \in 1 .. n, First(r, j), Channel[r[j].media] = Stream
        PROVE  Adjoin(q, 1, j + 1)
    <2>1. 1 < j + 1 /\ Channel[q[1].media] = Channel[q[j + 1].media]
      BY <1>3, <1>6
    <2>2. \A k \in 1 + 1 .. j + 1 - 1 : k \in 2 .. j
      OBVIOUS
    <2>3. QED
      BY <1>5, <1>6, <2>1, <2>2 DEF Adjoin
  <1>7. ASSUME NEW j \in 1 .. n, First(r, j), Channel[r[j].media] # Stream
        PROVE  First(q, j + 1)
    <2>1. SUFFICES ASSUME NEW k \in 1 .. j + 1 - 1
                   PROVE  Channel[q[k].media] # Channel[q[j + 1].media]
      BY DEF First
    <2>2. CASE k = 1
      BY <1>3, <1>7, <2>2
    <2>3. CASE k # 1
      <3>1. k \in 2 .. j
        BY <2>3
      <3>2. QED
        BY <1>5, <1>7, <3>1
    <2>4. QED
      BY <2>2, <2>3
  <1>8. QED
    BY <1>1, <1>2, <1>3, <1>4, <1>6, <1>7

LEMMA PaceOn ==
  ASSUME Types, PaceInv, PublisherStep
  PROVE  PaceInv'
  <1>1. /\ pub.rest # <<>> /\ pub'.mode = pub.mode /\ pub'.rest = Tail(pub.rest)
        /\ pub'.clock = [pub.clock EXCEPT ![Stream] = Next1.time]
        /\ pub.clock \in [Chans -> Int]
    BY DEF PublisherStep, Types, Publishers
  <1>2. PICK r : r = pub'.rest
    OBVIOUS
  <1>3. /\ Len(r) = Len(pub.rest) - 1 /\ Len(pub.rest) \in Nat \ {0}
        /\ \A i \in 1 .. Len(r) :
             /\ r[i] = pub.rest[i + 1] /\ i + 1 \in 1 .. Len(pub.rest)
             /\ r[i].media \in Media /\ r[i].time \in Nat
        /\ \A i, j \in 1 .. Len(r) :
             Adjoin(r, i, j) => Adjoin(pub.rest, i + 1, j + 1)
        /\ \A j \in 1 .. Len(r) : First(r, j) =>
             IF Channel[r[j].media] = Stream THEN Adjoin(pub.rest, 1, j + 1)
             ELSE First(pub.rest, j + 1)
    BY <1>1, <1>2, Shifted
  <1>4. ASSUME NEW i \in 1 .. Len(r), NEW j \in 1 .. Len(r), Adjoin(r, i, j)
        PROVE  /\ r[i].time <= r[j].time
               /\ pub'.mode = "relative" => r[j].time < r[i].time + Mark
    <2>1. PICK k \in 1 .. Len(pub.rest), l \in 1 .. Len(pub.rest) :
            k = i + 1 /\ l = j + 1 /\ Adjoin(pub.rest, k, l)
      BY <1>3, <1>4
    <2>2. /\ pub.rest[k].time <= pub.rest[l].time
          /\ pub.mode = "relative" => pub.rest[l].time < pub.rest[k].time + Mark
      BY <2>1 DEF PaceInv
    <2>3. QED
      BY <1>1, <1>3, <2>1, <2>2
  <1>5. ASSUME NEW j \in 1 .. Len(r), First(r, j)
        PROVE  LET c == pub'.clock[Channel[r[j].media]] IN
               /\ c <= r[j].time
               /\ c # -1 /\ pub'.mode = "relative" => r[j].time < c + Mark
    <2>1. PICK l \in 1 .. Len(pub.rest) : l = j + 1 /\ r[j] = pub.rest[l]
      BY <1>3
    <2>2. Channel[r[j].media] \in Chans /\ Stream \in Chans
      BY <1>1, <1>3, NextFacts, MediaFacts
    <2>3. CASE Channel[r[j].media] = Stream
      <3>1. Adjoin(pub.rest, 1, l) /\ 1 \in 1 .. Len(pub.rest)
        BY <1>3, <1>5, <2>1, <2>3
      <3>2. /\ pub.rest[1].time <= pub.rest[l].time
            /\ pub.mode = "relative" => pub.rest[l].time < pub.rest[1].time + Mark
        BY <3>1 DEF PaceInv
      <3>3. pub'.clock[Channel[r[j].media]] = Next1.time /\ Next1 = pub.rest[1]
        BY <1>1, <2>2, <2>3, NextFacts
      <3>4. QED
        BY <1>1, <2>1, <3>2, <3>3
    <2>4. CASE Channel[r[j].media] # Stream
      <3>1. First(pub.rest, l)
        BY <1>3, <1>5, <2>1, <2>4
      <3>2. pub'.clock[Channel[r[j].media]] = pub.clock[Channel[r[j].media]]
        BY <1>1, <2>2, <2>4
      <3>3. LET c == pub.clock[Channel[pub.rest[l].media]] IN
            /\ c <= pub.rest[l].time
            /\ c # -1 /\ pub.mode = "relative" => pub.rest[l].time < c + Mark
        BY <3>1 DEF PaceInv
      <3>4. QED
        BY <1>1, <2>1, <3>2, <3>3
    <2>5. QED
      BY <2>3, <2>4
  <1>6. QED
    BY <1>2, <1>4, <1>5 DEF PaceInv

\* The actions that leave the publisher and the clock of the source alone.
LEMMA PubKept ==
  ASSUME AnyStep, ~QuietStep, ~CountStep
  PROVE  /\ pub' = pub /\ src'.tmChannel = src.tmChannel /\ src'.first = src.first
         /\ src'.queue = src.queue /\ unsent' = unsent
  <1>1. ASSUME NEW c, NEW mm, NEW x, NEW y, NEW z, NEW a \in 0 .. 1, NEW b \in 0 .. 1,
               NEW f \in 0 .. 1, NEW r \in 0 .. 3, Served(c, mm, x, y, z, a, b, f, r)
        PROVE  /\ pub' = pub /\ src'.tmChannel = src.tmChannel /\ src'.first = src.first
               /\ src'.queue = src.queue /\ unsent' = unsent
    BY <1>1 DEF Served, SourceMoved
  <1>2. QED
    BY <1>1 DEF AnyStep, ServeStep, SkipStep, DoneStep, ToldStep, ListedStep, StartedStep,
                PauseStep, LeaveStep, PlayerStep, DeliverStep, vars

LEMMA PaceKept ==
  ASSUME Types, PaceInv, AnyStep
  PROVE  PaceInv'
  <1>1. ASSUME QuietStep \/ CountStep PROVE PaceInv'
    BY <1>1, PaceOn DEF QuietStep, CountStep
  <1>2. ASSUME pub' = pub PROVE PaceInv'
    BY <1>2 DEF PaceInv
  <1>3. QED
    BY <1>1, <1>2, PubKept

LEMMA ClockOn ==
  ASSUME Types, PaceInv, ClockInv, PublisherStep
  PROVE  /\ \A c \in Chans : pub'.clock[c] # -1 => src'.tmChannel[c] = pub'.clock[c]
         /\ \A c \in Chans : pub'.clock[c] >= -1 /\ pub.clock[c] <= pub'.clock[c]
         /\ pub'.clock[Stream] = TimeOf(Message) /\ TimeOf(Message) \in Nat
         /\ pub'.clock \in [Chans -> Int] /\ Stream \in Chans
  <1>1. /\ pub.rest # <<>> /\ pub'.clock = [pub.clock EXCEPT ![Stream] = Next1.time]
        /\ src'.tmChannel = [src.tmChannel EXCEPT ![Stream] = TimeOf(Message)]
        /\ pub.clock \in [Chans -> Int] /\ src.tmChannel \in [Chans -> Int]
    BY DEF PublisherStep, Types, Publishers, Sources
  <1>2. TimeOf(Message) = Next1.time /\ Next1.time \in Nat /\ Stream \in Chans
    BY <1>1, NextFacts, TimeIsTrue
  <1>3. pub.clock[Stream] <= Next1.time
    <2>1. First(pub.rest, 1) /\ 1 \in 1 .. Len(pub.rest) /\ Next1 = pub.rest[1]
      BY <1>1, NextFacts DEF First
    <2>2. QED
      BY <2>1 DEF PaceInv, Stream
  <1>4. ASSUME NEW c \in Chans
        PROVE  /\ pub'.clock[c] # -1 => src'.tmChannel[c] = pub'.clock[c]
               /\ pub'.clock[c] >= -1 /\ pub.clock[c] <= pub'.clock[c]
    BY <1>1, <1>2, <1>3 DEF ClockInv
  <1>5. pub'.clock \in [Chans -> Int]
    BY <1>1, <1>2
  <1>6. QED
    BY <1>1, <1>2, <1>4, <1>5

LEMMA ClockKept ==
  ASSUME Types, PaceInv, ClockInv, AnyStep
  PROVE  ClockInv'
  <1>1. ASSUME QuietStep PROVE ClockInv'
    <2>1. PublisherStep /\ src'.first = src.first /\ job' = NoJob
      BY <1>1 DEF QuietStep
    <2>2. /\ \A c \in Chans : pub'.clock[c] # -1 => src'.tmChannel[c] = pub'.clock[c]
          /\ \A c \in Chans : pub'.clock[c] >= -1
      BY <2>1, ClockOn
    <2>3. QED
      BY <2>1, <2>2 DEF ClockInv, Working
  <1>2. ASSUME CountStep PROVE ClockInv'
    <2>1. PublisherStep
      BY <1>2 DEF CountStep
    <2>2. /\ \A c \in Chans : pub'.clock[c] # -1 => src'.tmChannel[c] = pub'.clock[c]
          /\ \A c \in Chans : pub'.clock[c] >= -1
          /\ pub'.clock[Stream] = TimeOf(Message) /\ TimeOf(Message) \in Nat
      BY <2>1, ClockOn
    <2>3. /\ src'.first = IF src.first = -1 THEN TimeOf(Message) ELSE src.first
          /\ src.first \in Int /\ src.first >= -1
      BY <1>2 DEF CountStep, Types, Sources, ClockInv
    <2>4. src'.first \in Int /\ src'.first >= -1 /\ src'.first # -1
      BY <2>2, <2>3
    <2>5. ASSUME job' # NoJob
          PROVE  job'.at + src'.first = pub'.clock[Channel[job'.media]]
      <3>1. job'.media = Next1.media /\ job'.at = TimeOf(Message) - src'.first
        BY <1>2, <2>5 DEF CountStep
      <3>2. job'.at + src'.first = TimeOf(Message)
        BY <2>2, <2>4, <3>1
      <3>3. QED
        BY <2>2, <3>1, <3>2 DEF Stream
    <2>6. QED
      BY <2>2, <2>4, <2>5 DEF ClockInv, Working
  <1>3. ASSUME pub' = pub, src'.tmChannel = src.tmChannel, src'.first = src.first,
               job' # NoJob => Working /\ job'.at = job.at /\ job'.media = job.media
        PROVE  ClockInv'
    BY <1>3 DEF ClockInv, Working
  <1>4. ASSUME ~QuietStep, ~CountStep
        PROVE  job' # NoJob => Working /\ job'.at = job.at /\ job'.media = job.media
    <2>1. ASSUME NEW c, NEW mm, NEW x, NEW y, NEW z, NEW a \in 0 .. 1, NEW b \in 0 .. 1,
                 NEW f \in 0 .. 1, NEW r \in 0 .. 3, Served(c, mm, x, y, z, a, b, f, r)
          PROVE  Working /\ job'.at = job.at /\ job'.media = job.media
      BY <2>1, ServedFacts DEF Renew, SameFrame
    <2>2. ASSUME SkipStep PROVE Working /\ job'.at = job.at /\ job'.media = job.media
      BY <2>2, MediaFacts DEF SkipStep, SameFrame, Working, Jobs, NoJob
    <2>3. QED
      BY <1>4, <2>1, <2>2
         DEF AnyStep, ServeStep, DoneStep, ToldStep, ListedStep, StartedStep,
             PauseStep, LeaveStep, PlayerStep, DeliverStep, vars, Working
  <1>5. QED
    BY <1>1, <1>2, <1>3, <1>4, PubKept

-----------------------------------------------------------------------------
(* What was asked for and told.                                             *)

\* Every item of a longer queue is an old one or one of the three new ones.
LEMMA NewItems ==
  ASSUME NEW s \in Seq(Items), NEW t, NEW x, NEW y, NEW z,
         NEW a \in 0 .. 1, NEW b \in 0 .. 1, NEW f \in 0 .. 1,
         Prolonged(t, s, a, b, f, x, y, z)
  PROVE  /\ t \in Seq(Items) /\ Len(s) \in Nat /\ Len(t) = Len(s) + a + b + f
         /\ \A i \in 1 .. Len(s) : t[i] = s[i] /\ i \in 1 .. Len(t)
         /\ \A i \in 1 .. Len(t) :
              \/ i \in 1 .. Len(s) /\ t[i] = s[i]
              \/ a = 1 /\ i = Len(s) + 1 /\ t[i] = x
              \/ b = 1 /\ i = Len(s) + a + 1 /\ t[i] = y
              \/ f = 1 /\ i = Len(s) + a + b + 1 /\ t[i] = z
         /\ a = 1 => Len(s) + 1 \in 1 .. Len(t) /\ t[Len(s) + 1] = x
         /\ b = 1 => Len(s) + a + 1 \in 1 .. Len(t) /\ t[Len(s) + a + 1] = y
         /\ f = 1 => Len(s) + a + b + 1 \in 1 .. Len(t) /\ t[Len(s) + a + b + 1] = z
  <1>1. Len(s) \in Nat
    BY LenProperties
  <1>2. PICK n \in Nat : n = Len(s)
    BY <1>1
  <1>3. /\ t \in Seq(Items) /\ Len(t) = n + a + b + f
        /\ \A i \in 1 .. n : t[i] = s[i]
        /\ a = 1 => t[n + 1] = x
        /\ b = 1 => t[n + a + 1] = y
        /\ f = 1 => t[n + a + b + 1] = z
    BY <1>2 DEF Prolonged
  <1>4. ASSUME NEW i \in 1 .. n + a + b + f
        PROVE  \/ i \in 1 .. n \/ (a = 1 /\ i = n + 1) \/ (b = 1 /\ i = n + a + 1)
               \/ f = 1 /\ i = n + a + b + 1
    OBVIOUS
  <1>5. /\ a = 1 => n + 1 \in 1 .. n + a + b + f
        /\ b = 1 => n + a + 1 \in 1 .. n + a + b + f
        /\ f = 1 => n + a + b + 1 \in 1 .. n + a + b + f
    OBVIOUS
  <1>6. \A i \in 1 .. n : i \in 1 .. n + a + b + f
    OBVIOUS
  <1>7. QED
    BY <1>2, <1>3, <1>4, <1>5, <1>6

LEMMA ToldOn ==
  ASSUME NEW s \in Seq(Items), NEW t, NEW x, NEW y, NEW z,
         NEW a \in 0 .. 1, NEW b \in 0 .. 1, NEW f \in 0 .. 1,
         Prolonged(t, s, a, b, f, x, y, z), AllTold(s), s # <<>>,
         x.kind # "chunksize", y.kind # "chunksize", z.kind # "chunksize"
  PROVE  AllTold(t) /\ t # <<>> /\ t[1] = s[1]
  <1>1. PICK n \in Nat : n = Len(s)
    BY NewItems
  <1>2. n # 0
    BY <1>1, EmptySeq
  <1>3. /\ Len(t) = n + a + b + f
        /\ \A i \in 1 .. n : t[i] = s[i]
        /\ \A i \in 1 .. Len(t) : i \notin 1 .. n => t[i].kind # "chunksize"
    BY <1>1, NewItems
  <1>4. SUFFICES ASSUME NEW i \in 2 .. Len(t) + 1
                 PROVE  \E j \in 1 .. i - 1 : Told(t, i, j)
    <2>1. Len(t) # 0 /\ t[1] = s[1]
      BY <1>2, <1>3
    <2>2. t # <<>>
      BY <2>1, EmptySeq
    <2>3. QED
      BY <2>1, <2>2 DEF AllTold
  <1>5. CASE i <= n + 1
    <2>1. PICK j \in 1 .. i - 1 : Told(s, i, j)
      BY <1>1, <1>5 DEF AllTold
    <2>2. Told(t, i, j)
      BY <1>3, <1>5, <2>1 DEF Told
    <2>3. QED
      BY <2>2
  <1>6. CASE i > n + 1
    <2>1. PICK j \in 1 .. n + 1 - 1 : Told(s, n + 1, j)
      BY <1>1, <1>2 DEF AllTold
    <2>2. j \in 1 .. i - 1 /\ t[j].kind = "chunksize"
      BY <1>3, <1>6, <2>1 DEF Told
    <2>3. ASSUME NEW k \in 1 .. i - 1, t[k].kind = "chunksize" PROVE k <= j
      <3>1. k \in 1 .. Len(t)
        BY <1>3
      <3>2. k \in 1 .. n /\ s[k].kind = "chunksize"
        BY <1>3, <2>3, <3>1
      <3>3. QED
        BY <2>1, <3>2 DEF Told
    <2>4. QED
      BY <2>2, <2>3 DEF Told
  <1>7. QED
    BY <1>5, <1>6, <1>3

LEMMA ToldAgain ==
  ASSUME NEW s \in Seq(Items), NEW t, NEW x,
         Prolonged(t, s, 1, 0, 0, x, x, x), AllTold(s), x.kind = "chunksize",
         s # <<>> => s[1].kind = "chunksize"
  PROVE  AllTold(t) /\ t # <<>> /\ t[1].kind = "chunksize"
  <1>1. PICK n \in Nat : n = Len(s)
    BY LenProperties
  <1>2. /\ Len(t) = n + 1 /\ t[n + 1] = x
        /\ \A i \in 1 .. n : t[i] = s[i]
    BY <1>1 DEF Prolonged
  <1>3. t # <<>>
    BY <1>2, EmptySeq
  <1>4. t[1].kind = "chunksize"
    <2>1. CASE n = 0
      BY <1>2, <2>1
    <2>2. CASE n # 0
      BY <1>1, <1>2, <2>2, EmptySeq
    <2>3. QED
      BY <2>1, <2>2
  <1>5. ASSUME NEW i \in 2 .. n + 2 PROVE \E j \in 1 .. i - 1 : Told(t, i, j)
    <2>1. CASE i <= n + 1
      <3>1. PICK j \in 1 .. i - 1 : Told(s, i, j)
        BY <1>1, <2>1 DEF AllTold
      <3>2. Told(t, i, j)
        BY <1>2, <2>1, <3>1 DEF Told
      <3>3. QED
        BY <3>2
    <2>2. CASE i = n + 2
      <3>1. n + 1 \in 1 .. i - 1 /\ \A k \in 1 .. i - 1 : k <= n + 1
        BY <2>2
      <3>2. Told(t, i, n + 1)
        BY <1>2, <3>1 DEF Told
      <3>3. QED
        BY <3>1, <3>2
    <2>3. QED
      BY <2>1, <2>2
  <1>6. AllTold(t)
    <2>1. Len(t) + 1 = n + 2
      BY <1>2
    <2>2. QED
      BY <1>5, <2>1 DEF AllTold
  <1>7. QED
    BY <1>3, <1>4, <1>6

\* Who is in the list when one player enters or leaves it.
LEMMA EnteredFacts ==
  ASSUME Types, WalkInv, NEW p, ListedStep(p)
  PROVE  /\ \A q : q # p => (Among(q, list') <=> Among(q, list))
         /\ Among(p, list) => list' = list
  <1>1. Len(list) \in Nat /\ Once(list)
    BY LenProperties DEF Types, WalkInv
  <1>2. CASE list' = list
    BY <1>2
  <1>3. CASE list' # list
    <2>1. /\ ~Among(p, list) /\ Len(list') = Len(list) + 1 /\ list'[Len(list) + 1] = p
          /\ \A i \in 1 .. Len(list) : list'[i] = list[i]
      BY <1>3 DEF ListedStep
    <2>2. QED
      BY ZenonT(60), <1>1, <2>1, OnceLonger
  <1>4. QED
    BY <1>2, <1>3

LEMMA LeftFacts ==
  ASSUME Types, WalkInv, NEW p, NEW i, LeaveStep(p, i)
  PROVE  /\ \A q : q # p => (Among(q, list') <=> Among(q, list))
         /\ ~Among(p, list')
  <1>1. Len(list) \in Nat /\ Once(list)
    BY LenProperties DEF Types, WalkInv
  <1>2. /\ i \in 1 .. Len(list) /\ list[i] = p /\ Len(list') = Len(list) - 1
        /\ \A k \in 1 .. Len(list) - 1 :
             list'[k] = IF k < i THEN list[k] ELSE list[k + 1]
    BY DEF LeaveStep
  <1>3. QED
    BY <1>1, <1>2, OnceShorter

\* The client that is served or passed is in the list.
LEMMA TakerListed ==
  ASSUME Types, WalkInv, job \in Jobs, job.todo # <<>>
  PROVE  /\ Among(Taker, list) /\ Among(Taker, job.todo)
         /\ job.n = src.queue[job.media] /\ job.n > 0
         /\ ~Among(Taker, Tail(job.todo))
         /\ \A q : q # Taker => (Among(q, Tail(job.todo)) <=> Among(q, job.todo))
  <1>1. Working /\ job.todo \in Seq(Players)
    BY MediaFacts DEF Working, Jobs, NoJob
  <1>2. /\ Taker = job.todo[1] /\ Len(job.todo) \in Nat \ {0} /\ Among(Taker, job.todo)
        /\ Once(job.todo) => ~Among(Taker, Tail(job.todo))
        /\ \A p : Among(p, Tail(job.todo)) => Among(p, job.todo)
        /\ \A p : Among(p, job.todo) /\ p # Taker => Among(p, Tail(job.todo))
    BY <1>1, TailFacts DEF Taker
  <1>3. 1 \in 1 .. Len(job.todo)
    BY <1>2
  <1>4. QED
    BY <1>1, <1>2, <1>3 DEF WalkInv

LEMMA AskedKept ==
  ASSUME Types, WalkInv, AskedInv, AnyStep
  PROVE  AskedInv'
  <1>1. ASSUME NEW q, AskedOf(q), sent'[q] = sent[q], Among(q, list') <=> Among(q, list),
               ss'[q] = ss[q]
        PROVE  AskedOf(q)'
    BY <1>1 DEF AskedOf
  <1>2. ASSUME sent' = sent, list' = list, ss' = ss PROVE AskedInv'
    BY <1>2 DEF AskedInv, AskedOf
  <1>3. ASSUME QuietStep \/ CountStep \/ SkipStep \/ DoneStep PROVE AskedInv'
    BY <1>2, <1>3 DEF QuietStep, CountStep, PublisherStep, SkipStep, DoneStep
  <1>4. ASSUME NEW c, NEW mm, NEW x, NEW y, NEW z, NEW a \in 0 .. 1, NEW b \in 0 .. 1,
               NEW f \in 0 .. 1, NEW r \in 0 .. 3, Served(c, mm, x, y, z, a, b, f, r)
        PROVE  AskedInv'
    <2>1. PICK p \in Players : p = Taker
      BY <1>4, ServedFacts
    <2>2. Among(p, list)
      BY <1>4, <2>1, TakerListed DEF Served, Renew
    <2>3. AskedOf(p) /\ sent[p] # <<>>
      BY <2>2 DEF AskedInv, AskedOf
    <2>4. Prolonged(sent'[p], sent[p], a, b, f, x, y, z) /\ sent[p] \in Seq(Items)
      BY <1>4, <2>1 DEF Served, Types
    <2>5. x.kind # "chunksize" /\ y.kind # "chunksize" /\ z.kind # "chunksize"
      <3>1. job.media \in Media
        BY <1>4, ServedFacts DEF Jobs
      <3>2. QED
        BY <1>4, <3>1, MediaFacts DEF Served
    <2>6. AllTold(sent'[p]) /\ sent'[p] # <<>> /\ sent'[p][1] = sent[p][1]
      BY <2>3, <2>4, <2>5, ToldOn DEF AskedOf
    <2>7. /\ ss'[p].step = ss[p].step /\ ss'[p].plays = ss[p].plays
          /\ ss'[p].playCalled = ss[p].playCalled /\ ss'[p].playing = ss[p].playing
      BY <1>4, <2>1 DEF Served, SessionMoved
    <2>8. list' = list
      BY <1>4 DEF Served
    <2>9. AskedOf(p)'
      BY <2>3, <2>6, <2>7, <2>8 DEF AskedOf
    <2>10. ASSUME NEW q \in Players, q # p PROVE AskedOf(q)'
      <3>1. ss'[q] = ss[q] /\ sent'[q] = sent[q]
        BY <1>4, <2>1, <2>10 DEF Served, OthersKept
      <3>2. QED
        BY <1>1, <2>8, <3>1 DEF AskedInv
    <2>11. QED
      BY <2>9, <2>10 DEF AskedInv
  <1>5. ASSUME NEW p \in Players, NEW x, ToldStep(p, x) PROVE AskedInv'
    <2>1. AskedOf(p) /\ sent[p] \in Seq(Items)
      BY DEF AskedInv, Types
    <2>2. /\ Prolonged(sent'[p], sent[p], 1, 0, 0, x, x, x) /\ x.kind = "chunksize"
          /\ list' = list /\ ss'[p].plays = ss[p].plays + 1 /\ ss'[p].step = "told"
          /\ ss'[p].playCalled = ss[p].playCalled /\ ss'[p].playing = ss[p].playing
      BY <1>5 DEF ToldStep
    <2>3. AllTold(sent'[p]) /\ sent'[p] # <<>> /\ sent'[p][1].kind = "chunksize"
      BY <2>1, <2>2, ToldAgain DEF AskedOf
    <2>4. ss[p].plays \in Nat
      BY DEF Types, Sessions
    <2>5. AskedOf(p)'
      BY <2>1, <2>2, <2>3, <2>4 DEF AskedOf
    <2>6. ASSUME NEW q \in Players, q # p PROVE AskedOf(q)'
      <3>1. ss'[q] = ss[q] /\ sent'[q] = sent[q]
        BY <1>5, <2>6 DEF ToldStep
      <3>2. QED
        BY <1>1, <2>2, <3>1 DEF AskedInv
    <2>7. QED
      BY <2>5, <2>6 DEF AskedInv
  <1>6. ASSUME NEW p \in Players, PlayerStep(p),
               \A q : q # p => (Among(q, list') <=> Among(q, list)), AskedOf(p)'
        PROVE  AskedInv'
    BY <1>1, <1>6 DEF PlayerStep, AskedInv
  <1>7. ASSUME NEW p \in Players, ListedStep(p) PROVE AskedInv'
    <2>1. \A q : q # p => (Among(q, list') <=> Among(q, list))
      BY <1>7, EnteredFacts
    <2>2. AskedOf(p)'
      BY <1>7 DEF ListedStep, PlayerStep, AskedInv, AskedOf
    <2>3. QED
      BY <1>6, <1>7, <2>1, <2>2 DEF ListedStep
  <1>8. ASSUME NEW p \in Players, StartedStep(p) PROVE AskedInv'
    <2>1. AskedOf(p)'
      BY <1>8 DEF StartedStep, PlayerStep, AskedInv, AskedOf
    <2>2. QED
      BY <1>6, <1>8, <2>1 DEF StartedStep
  <1>9. ASSUME NEW p \in Players, PauseStep(p) PROVE AskedInv'
    <2>1. AskedOf(p)'
      BY <1>9 DEF PauseStep, PlayerStep, AskedInv, AskedOf
    <2>2. QED
      BY <1>6, <1>9, <2>1 DEF PauseStep
  <1>10. ASSUME NEW p \in Players, NEW i, LeaveStep(p, i) PROVE AskedInv'
    <2>1. /\ \A q : q # p => (Among(q, list') <=> Among(q, list))
          /\ ~Among(p, list')
      BY <1>10, LeftFacts
    <2>2. AskedOf(p)'
      BY <1>10, <2>1 DEF LeaveStep, PlayerStep, AskedInv, AskedOf
    <2>3. QED
      BY <1>6, <1>10, <2>1, <2>2 DEF LeaveStep
  <1>11. ASSUME NEW p, DeliverStep(p) \/ UNCHANGED vars PROVE AskedInv'
    BY <1>2, <1>11 DEF DeliverStep, vars
  <1>12. QED
    BY <1>3, <1>4, <1>5, <1>7, <1>8, <1>9, <1>10, <1>11 DEF AnyStep, ServeStep

-----------------------------------------------------------------------------
(* What a player was given.                                                 *)

\* The queue of q got nothing of the medium m.
Aside(q, m) ==
    /\ Len(sent[q]) \in Nat /\ Len(sent'[q]) \in Nat /\ Len(sent[q]) <= Len(sent'[q])
    /\ \A i \in 1 .. Len(sent[q]) : sent'[q][i] = sent[q][i] /\ i \in 1 .. Len(sent'[q])
    /\ \A i \in 1 .. Len(sent'[q]) :
         sent'[q][i].kind \in {m, Headers[m]} => i \in 1 .. Len(sent[q])

LEMMA SameAside ==
  ASSUME Types, NEW q \in Players, NEW m, sent'[q] = sent[q]
  PROVE  Aside(q, m)
  <1>1. Len(sent[q]) \in Nat
    BY LenProperties DEF Types
  <1>2. QED
    BY <1>1 DEF Aside

LEMMA ToldAside ==
  ASSUME Types, NEW p \in Players, NEW x, ToldStep(p, x), NEW q \in Players,
         NEW m \in Media
  PROVE  Aside(q, m)
  <1>1. CASE q = p
    <2>1. Prolonged(sent'[q], sent[q], 1, 0, 0, x, x, x) /\ x.kind = "chunksize"
          /\ sent[q] \in Seq(Items)
      BY <1>1 DEF ToldStep, Types
    <2>2. /\ Len(sent[q]) \in Nat /\ Len(sent'[q]) = Len(sent[q]) + 1
          /\ \A i \in 1 .. Len(sent[q]) : sent'[q][i] = sent[q][i]
          /\ sent'[q][Len(sent[q]) + 1] = x
      BY <2>1, LenProperties DEF Prolonged
    <2>3. x.kind \notin {m, Headers[m]}
      BY <2>1, MediaFacts
    <2>4. PICK n \in Nat : n = Len(sent[q]) /\ Len(sent'[q]) = n + 1
      BY <2>2
    <2>5. \A i \in 1 .. n : i \in 1 .. n + 1
      OBVIOUS
    <2>6. \A i \in 1 .. n + 1 : i \in 1 .. n \/ i = n + 1
      OBVIOUS
    <2>7. QED
      BY <2>2, <2>3, <2>4, <2>5, <2>6 DEF Aside
  <1>2. CASE q # p
    BY <1>2, SameAside DEF ToldStep
  <1>3. QED
    BY <1>1, <1>2

LEMMA ServedAside ==
  ASSUME Types, NEW c, NEW mm, NEW x, NEW y, NEW z, NEW a \in 0 .. 1, NEW b \in 0 .. 1,
         NEW f \in 0 .. 1, NEW r \in 0 .. 3, Served(c, mm, x, y, z, a, b, f, r),
         NEW q \in Players, NEW m \in Media, q # Taker \/ m # job.media
  PROVE  Aside(q, m)
  <1>1. CASE q = Taker
    <2>1. Prolonged(sent'[q], sent[q], a, b, f, x, y, z) /\ sent[q] \in Seq(Items)
      BY <1>1 DEF Served, Types
    <2>2. job.media \in Media
      BY ServedFacts DEF Jobs
    <2>3. x.kind = "meta" /\ y.kind = Headers[job.media] /\ z.kind = job.media
      BY DEF Served
    <2>4. /\ x.kind \notin {m, Headers[m]} /\ y.kind \notin {m, Headers[m]}
          /\ z.kind \notin {m, Headers[m]}
      BY <1>1, <2>2, <2>3, MediaFacts
    <2>5. /\ Len(sent[q]) \in Nat /\ Len(sent'[q]) = Len(sent[q]) + a + b + f
          /\ \A i \in 1 .. Len(sent[q]) : sent'[q][i] = sent[q][i] /\ i \in 1 .. Len(sent'[q])
          /\ \A i \in 1 .. Len(sent'[q]) :
               i \in 1 .. Len(sent[q]) \/ sent'[q][i] \in {x, y, z}
      <3>1. PICK s \in Seq(Items) : s = sent[q]
        BY <2>1
      <3>2. PICK t : t = sent'[q]
        OBVIOUS
      <3>3. Prolonged(t, s, a, b, f, x, y, z)
        BY <2>1, <3>1, <3>2
      <3>4. /\ Len(s) \in Nat /\ Len(t) = Len(s) + a + b + f
            /\ \A i \in 1 .. Len(s) : t[i] = s[i] /\ i \in 1 .. Len(t)
            /\ \A i \in 1 .. Len(t) : i \in 1 .. Len(s) \/ t[i] \in {x, y, z}
        BY <3>3, NewItems
      <3>5. QED
        BY <3>1, <3>2, <3>4
    <2>6. Len(sent'[q]) \in Nat /\ Len(sent[q]) <= Len(sent'[q])
      BY <2>5
    <2>7. \A i \in 1 .. Len(sent'[q]) :
            sent'[q][i].kind \in {m, Headers[m]} => i \in 1 .. Len(sent[q])
      BY <2>4, <2>5
    <2>8. QED
      BY <2>5, <2>6, <2>7 DEF Aside
  <1>2. CASE q # Taker
    BY <1>2, SameAside DEF Served, OthersKept
  <1>3. QED
    BY <1>1, <1>2

LEMMA Numbered ==
  ASSUME Types
  PROVE  /\ src.queue \in [Media -> Nat] /\ src.first \in Int /\ pub.clock \in [Chans -> Int]
         /\ \A q \in Players : /\ ss[q].queue \in [Media -> Nat]
                               /\ refused[q] \in SUBSET (Media \X Nat)
                               /\ \A i \in 1 .. Len(sent[q]) : sent[q][i] \in Items
         /\ \A it \in Items : it.n \in Nat /\ it.at \in Int
  <1>1. \A it \in Items : it.n \in Nat /\ it.at \in Int
    BY DEF Items
  <1>2. ASSUME NEW q \in Players, NEW i \in 1 .. Len(sent[q]) PROVE sent[q][i] \in Items
    BY ElementOfSeq DEF Types
  <1>3. QED
    BY <1>1, <1>2 DEF Types, Sources, Publishers, Sessions

LEMMA OrderAside ==
  ASSUME Types, Types', NEW q \in Players, NEW m \in Media, Aside(q, m), OrderOf(q, m),
         ss'[q].queue[m] = ss[q].queue[m],
         \A f \in refused'[q] : f[1] = m => f \in refused[q],
         src.queue[m] <= src'.queue[m], src'.first = src.first \/ src.first = -1,
         pub.clock[Channel[m]] <= pub'.clock[Channel[m]],
         src.first # -1 => src'.first # -1
  PROVE  OrderOf(q, m)'
  <1>1. /\ ss[q].queue[m] \in Nat /\ src.queue[m] \in Nat /\ src'.queue[m] \in Nat
        /\ pub.clock[Channel[m]] \in Int /\ pub'.clock[Channel[m]] \in Int
        /\ src.first \in Int /\ src'.first \in Int
    <2>1. Channel[m] \in Chans
      BY MediaFacts
    <2>2. src' \in Sources /\ pub' \in Publishers
      BY DEF Types
    <2>3. src'.queue \in [Media -> Nat] /\ src'.first \in Int /\ pub'.clock \in [Chans -> Int]
      BY <2>2 DEF Sources, Publishers
    <2>4. QED
      BY <2>1, <2>3, Numbered
  <1>2. ASSUME NEW i \in 1 .. Len(sent'[q]), sent'[q][i].kind \in {m, Headers[m]}
        PROVE  /\ i \in 1 .. Len(sent[q]) /\ sent'[q][i] = sent[q][i]
               /\ sent[q][i].kind \in {m, Headers[m]}
    BY <1>2 DEF Aside
  <1>3. ss'[q].queue[m] <= src'.queue[m]
    BY <1>1 DEF OrderOf
  <1>4. \A f \in refused'[q] : f[1] = m => f[2] <= ss'[q].queue[m]
    BY DEF OrderOf
  <1>5. ASSUME NEW i \in 1 .. Len(sent'[q]), sent'[q][i].kind \in {m, Headers[m]}
        PROVE  /\ sent'[q][i].n \in 1 .. ss'[q].queue[m] /\ src'.first # -1
               /\ sent'[q][i].at + src'.first <= pub'.clock[Channel[m]]
    <2>1. i \in 1 .. Len(sent[q]) /\ sent'[q][i] = sent[q][i] /\ OfMedium(q, i, m)
      BY <1>2, <1>5 DEF OfMedium, Of, Heads
    <2>2. /\ sent[q][i].n \in 1 .. ss[q].queue[m] /\ src.first # -1
          /\ sent[q][i].at + src.first <= pub.clock[Channel[m]]
      BY <2>1 DEF OrderOf
    <2>3. sent[q][i].at \in Int
      BY <2>1, Numbered
    <2>4. QED
      BY SMTT(60), <1>1, <2>1, <2>2, <2>3
  <1>6. ASSUME NEW i \in 1 .. Len(sent'[q]), NEW j \in 1 .. Len(sent'[q]), i < j,
               sent'[q][i].kind \in {m, Headers[m]}, sent'[q][j].kind \in {m, Headers[m]}
        PROVE  /\ sent'[q][i].at <= sent'[q][j].at
               /\ sent'[q][i].kind = m /\ sent'[q][j].kind = m =>
                    sent'[q][i].n < sent'[q][j].n
    <2>1. /\ i \in 1 .. Len(sent[q]) /\ sent'[q][i] = sent[q][i]
          /\ j \in 1 .. Len(sent[q]) /\ sent'[q][j] = sent[q][j]
      BY <1>2, <1>6
    <2>2. QED
      BY <1>6, <2>1 DEF OrderOf, OfMedium, Of, Heads
  <1>7. QED
    BY <1>3, <1>4, <1>5, <1>6 DEF OrderOf, OfMedium, Of, Heads

LEMMA StartAside ==
  ASSUME NEW q \in Players, NEW m \in Media, Aside(q, m), StartOf(q, m),
         ss'[q].started[m] = ss[q].started[m]
  PROVE  StartOf(q, m)'
  <1>1. ASSUME NEW i \in 1 .. Len(sent'[q]), sent'[q][i].kind \in {m, Headers[m]}
        PROVE  i \in 1 .. Len(sent[q]) /\ sent'[q][i] = sent[q][i]
    BY <1>1 DEF Aside
  <1>2. \A i \in 1 .. Len(sent[q]) : sent'[q][i] = sent[q][i] /\ i \in 1 .. Len(sent'[q])
    BY DEF Aside
  <1>3. ASSUME NEW i \in 1 .. Len(sent'[q]), sent'[q][i].kind = m
        PROVE  \E h \in 1 .. i - 1 : sent'[q][h].kind = Headers[m]
    <2>1. i \in 1 .. Len(sent[q]) /\ Of(q, i, m)
      BY <1>1, <1>3 DEF Of
    <2>2. PICK h \in 1 .. i - 1 : Heads(q, h, m)
      BY <2>1 DEF StartOf
    <2>3. h \in 1 .. Len(sent[q])
      BY <2>1 DEF Aside
    <2>4. QED
      BY <1>2, <2>2, <2>3 DEF Heads
  <1>4. ASSUME NEW g \in 1 .. Len(sent'[q]), NEW h \in 1 .. Len(sent'[q]),
               sent'[q][g].kind = Headers[m], sent'[q][h].kind = Headers[m]
        PROVE  g = h
    BY <1>1, <1>4 DEF StartOf, Heads
  <1>5. ss'[q].started[m] = (\E h \in 1 .. Len(sent'[q]) : sent'[q][h].kind = Headers[m])
    BY <1>1, <1>2 DEF StartOf, Heads
  <1>6. ASSUME NEW h \in 1 .. Len(sent'[q]), NEW i \in 1 .. Len(sent'[q]),
               sent'[q][h].kind = Headers[m], sent'[q][i].kind = m,
               sent'[q][h].n = sent'[q][i].n
        PROVE  sent'[q][h].ver = sent'[q][i].ver
    <2>1. /\ h \in 1 .. Len(sent[q]) /\ sent'[q][h] = sent[q][h]
          /\ i \in 1 .. Len(sent[q]) /\ sent'[q][i] = sent[q][i]
      BY <1>1, <1>6
    <2>2. Heads(q, h, m) /\ Of(q, i, m) /\ sent[q][h].n = sent[q][i].n
      BY <1>6, <2>1 DEF Heads, Of
    <2>3. sent[q][h].ver = sent[q][i].ver
      BY <2>1, <2>2 DEF StartOf
    <2>4. QED
      BY <2>1, <2>3
  <1>7. QED
    BY <1>3, <1>4, <1>5, <1>6 DEF StartOf, Heads, Of

\* What the client p is given with frame n of the medium m: l items were before.
Given(p, m, n, l, at, a, b, f, r) ==
    LET s == sent[p]
        t == sent'[p]
    IN /\ p = Taker /\ m = job.media /\ n = job.n /\ at = job.at
       /\ Len(s) = l /\ Len(t) = l + a + b + f
       /\ \A i \in 1 .. l : t[i] = s[i]
       /\ \A i \in 1 .. l + a + b + f : s[i] \in Items \/ i \notin 1 .. l
       /\ a = 1 => /\ t[l + 1].kind = "meta" /\ t[l + 1].cell = 0 /\ t[l + 1].at = 0
                   /\ t[l + 1].cut = MetaCut
       /\ b = 1 => LET y == t[l + a + 1] IN
            /\ y.kind = Headers[m] /\ y.n = n /\ y.at = at /\ y.ver = src.ver[m]
            /\ y.cell = HeaderCell(job) /\ y.cut = mem'[HeaderCell(job)].cut
       /\ f = 1 => LET z == t[l + a + b + 1] IN
            /\ z.kind = m /\ z.n = n /\ z.at = at /\ z.ver = src.ver[m] /\ z.cell = 0
            /\ z.key = job.key /\ z.cut = job'.cut
       /\ ss[p].queue[m] < n /\ n = src.queue[m] /\ n > 0 /\ ss[p].playing
       /\ src.first # -1 /\ at + src.first = pub.clock[Channel[m]]
       /\ src'.queue = src.queue /\ src'.first = src.first /\ pub' = pub
       /\ Chosen(a, b, f, r) /\ Refusal(p, m, n, r)
       /\ SessionMoved(ss'[p], ss[p], m, n, a, b)

LEMMA ServedGiven ==
  ASSUME Types, WalkInv, ClockInv,
         NEW c, NEW mm, NEW x, NEW y, NEW z, NEW a \in 0 .. 1, NEW b \in 0 .. 1,
         NEW f \in 0 .. 1, NEW r \in 0 .. 3, Served(c, mm, x, y, z, a, b, f, r)
  PROVE  \E p \in Players, m \in Media, n \in Nat, l \in Nat, at \in Int :
           Given(p, m, n, l, at, a, b, f, r)
  <1>1. /\ job \in Jobs /\ Taker \in Players /\ Working /\ Renew(job') /\ SourceMoved(src')
        /\ Grown(c, b)
    BY ServedFacts
  <1>2. PICK p \in Players, m \in Media, n \in Nat, at \in Int :
          p = Taker /\ m = job.media /\ n = job.n /\ at = job.at
    BY <1>1 DEF Jobs
  <1>3. /\ sent[p] \in Seq(Items) /\ Prolonged(sent'[p], sent[p], a, b, f, x, y, z)
        /\ Chosen(a, b, f, r) /\ Refusal(p, m, n, r)
        /\ SessionMoved(ss'[p], ss[p], m, n, a, b) /\ pub' = pub
    BY <1>2 DEF Served, Types
  <1>4. PICK s \in Seq(Items) : s = sent[p]
    BY <1>3
  <1>5. PICK t : t = sent'[p]
    OBVIOUS
  <1>6. Prolonged(t, s, a, b, f, x, y, z)
    BY <1>3, <1>4, <1>5
  <1>7. PICK l \in Nat : l = Len(s)
    BY LenProperties
  <1>8. /\ Len(t) = l + a + b + f
        /\ \A i \in 1 .. l : t[i] = s[i]
        /\ a = 1 => t[l + 1] = x
        /\ b = 1 => t[l + a + 1] = y
        /\ f = 1 => t[l + a + b + 1] = z
    BY <1>6, <1>7 DEF Prolonged
  <1>9. \A i \in 1 .. l + a + b + f : s[i] \in Items \/ i \notin 1 .. l
    BY <1>7, ElementOfSeq
  <1>10. /\ c = HeaderCell(job) /\ mem'[c].ver = src.ver[m] /\ mm[c].ver = mem'[c].ver
        /\ mm[c].cut = mem'[c].cut
    BY <1>1, <1>2 DEF Grown, Served, BufferWritten
  <1>11. /\ x.kind = "meta" /\ x.cell = 0 /\ x.at = 0 /\ x.cut = MetaCut
         /\ y.kind = Headers[m] /\ y.n = n /\ y.at = at /\ y.ver = src.ver[m]
         /\ y.cell = HeaderCell(job) /\ y.cut = mem'[HeaderCell(job)].cut
    BY <1>2, <1>10 DEF Served
  <1>12. /\ z.kind = m /\ z.n = n /\ z.at = at /\ z.ver = src.ver[m] /\ z.cell = 0
         /\ z.key = job.key /\ z.cut = job'.cut
    BY <1>2 DEF Served
  <1>13. /\ n > ss[p].queue[m] /\ ss[p].playing /\ job.todo # <<>>
    BY <1>1, <1>2 DEF Renew
  <1>14. n = src.queue[m] /\ n > 0
    BY <1>1, <1>2, <1>13, TakerListed
  <1>15. ss[p].queue[m] < n
    BY <1>13, Numbered
  <1>16. src.first # -1 /\ at + src.first = pub.clock[Channel[m]]
    BY <1>1, <1>2 DEF ClockInv
  <1>17. src'.queue = src.queue /\ src'.first = src.first
    BY <1>1 DEF SourceMoved
  <1>18. /\ a = 1 => /\ t[l + 1].kind = "meta" /\ t[l + 1].cell = 0 /\ t[l + 1].at = 0
                     /\ t[l + 1].cut = MetaCut
         /\ b = 1 => LET w == t[l + a + 1] IN
              /\ w.kind = Headers[m] /\ w.n = n /\ w.at = at /\ w.ver = src.ver[m]
              /\ w.cell = HeaderCell(job) /\ w.cut = mem'[HeaderCell(job)].cut
         /\ f = 1 => LET w == t[l + a + b + 1] IN
              /\ w.kind = m /\ w.n = n /\ w.at = at /\ w.ver = src.ver[m] /\ w.cell = 0
              /\ w.key = job.key /\ w.cut = job'.cut
    BY <1>8, <1>11, <1>12
  <1>19. Given(p, m, n, l, at, a, b, f, r)
    BY <1>2, <1>3, <1>4, <1>5, <1>7, <1>8, <1>9, <1>13, <1>14, <1>15, <1>16, <1>17,
       <1>18 DEF Given
  <1>20. QED
    BY <1>19

\* The items after it: which they are.
OldOrNew(p, m, n, l, at, a, b, f, i) ==
    LET s == sent[p]
        t == sent'[p]
    IN \/ i \in 1 .. l /\ t[i] = s[i] /\ s[i] \in Items
       \/ a = 1 /\ i = l + 1 /\ t[i].kind = "meta"
       \/ /\ b = 1 /\ i = l + a + 1 /\ t[i].kind = Headers[m]
          /\ t[i].n = n /\ t[i].at = at /\ t[i].ver = src.ver[m]
       \/ /\ f = 1 /\ i = l + a + b + 1 /\ t[i].kind = m
          /\ t[i].n = n /\ t[i].at = at /\ t[i].ver = src.ver[m] /\ t[i].key = job.key

LEMMA GivenItems ==
  ASSUME NEW p \in Players, NEW m \in Media, NEW n \in Nat, NEW l \in Nat, NEW at \in Int,
         NEW a \in 0 .. 1, NEW b \in 0 .. 1, NEW f \in 0 .. 1, NEW r \in 0 .. 3,
         Given(p, m, n, l, at, a, b, f, r), NEW i \in 1 .. l + a + b + f
  PROVE  OldOrNew(p, m, n, l, at, a, b, f, i)
  <1>1. \/ i \in 1 .. l \/ (a = 1 /\ i = l + 1) \/ (b = 1 /\ i = l + a + 1)
        \/ f = 1 /\ i = l + a + b + 1
    OBVIOUS
  <1>2. QED
    BY <1>1 DEF Given, OldOrNew

LEMMA OrderServed ==
  ASSUME Types, Types', NEW p \in Players, NEW m \in Media, NEW n \in Nat, NEW l \in Nat,
         NEW at \in Int, NEW a \in 0 .. 1, NEW b \in 0 .. 1, NEW f \in 0 .. 1,
         NEW r \in 0 .. 3, Given(p, m, n, l, at, a, b, f, r), OrderOf(p, m)
  PROVE  OrderOf(p, m)'
  <1> DEFINE s == sent[p]
             t == sent'[p]
             u == l + a + b + f
  <1>1. /\ ss'[p].queue[m] = n /\ n = src'.queue[m] /\ n > 0 /\ ss[p].queue[m] < n
        /\ ss[p].queue[m] \in Nat /\ src.first # -1 /\ src'.first = src.first
        /\ at + src.first = pub.clock[Channel[m]] /\ pub' = pub /\ src.first \in Int
        /\ Len(s) = l /\ Len(t) = u
    BY SMTT(60), Numbered DEF Given, SessionMoved
  <1>2. PICK w \in Nat, e \in Int : w = ss[p].queue[m] /\ e = src.first /\ w < n
    BY <1>1
  <1>3. \A i \in refused'[p] : i[1] = m => i[2] <= n
    <2>1. refused'[p] = refused[p] \/ refused'[p] = refused[p] \cup {<<m, n>>}
      BY DEF Given, Refusal
    <2>2. ASSUME NEW i \in refused[p], i[1] = m PROVE i[2] <= n
      <3>1. i \in Media \X Nat
        BY Numbered
      <3>2. PICK k \in Nat : k = i[2]
        BY <3>1
      <3>3. k <= w
        BY <1>2, <2>2, <3>2 DEF OrderOf
      <3>4. QED
        BY <1>2, <3>2, <3>3
    <2>3. QED
      BY <2>1, <2>2
  <1>4. ASSUME NEW i \in 1 .. l, s[i].kind \in {m, Headers[m]}
        PROVE  /\ s[i].n \in Nat /\ s[i].n > 0 /\ s[i].n < n
               /\ s[i].at \in Int /\ s[i].at <= at /\ s[i].at + e <= at + e
    <2>1. OfMedium(p, i, m)
      BY <1>4 DEF OfMedium, Of, Heads
    <2>2. s[i].n \in 1 .. w /\ s[i].at + e <= at + e
      BY <1>1, <1>2, <2>1 DEF OrderOf
    <2>3. s[i] \in Items
      BY <1>1, Numbered
    <2>4. PICK k \in Int : k = s[i].at
      BY <2>3, Numbered
    <2>5. k <= at
      BY SMTT(60), <1>2, <2>2, <2>4
    <2>6. s[i].n \in Nat /\ s[i].n > 0 /\ s[i].n < n
      <3>1. w \in Nat /\ n \in Nat /\ w < n
        BY <1>2
      <3>2. \A h \in 1 .. w : h \in Nat /\ h > 0 /\ h < n
        BY <3>1
      <3>3. QED
        BY <2>2, <3>2
    <2>7. QED
      BY <2>2, <2>4, <2>5, <2>6
  <1>5. ASSUME NEW i \in 1 .. u, t[i].kind \in {m, Headers[m]}
        PROVE  \/ i \in 1 .. l /\ t[i] = s[i] /\ s[i].kind \in {m, Headers[m]}
               \/ /\ i \notin 1 .. l /\ t[i].n = n /\ t[i].at = at
                  /\ t[i].kind = m => i = l + a + b + 1
    <2>1. "meta" \notin {m, Headers[m]} /\ Headers[m] # m
      BY MediaFacts
    <2>2. \/ i \in 1 .. l /\ t[i] = s[i]
          \/ a = 1 /\ i = l + 1 /\ t[i].kind = "meta"
          \/ /\ b = 1 /\ i = l + a + 1 /\ t[i].kind = Headers[m]
             /\ t[i].n = n /\ t[i].at = at
          \/ /\ f = 1 /\ i = l + a + b + 1 /\ t[i].kind = m
             /\ t[i].n = n /\ t[i].at = at
      <3>1. OldOrNew(p, m, n, l, at, a, b, f, i)
        BY GivenItems
      <3>2. QED
        BY <3>1 DEF OldOrNew
    <2>3. l + a + 1 \notin 1 .. l /\ l + a + b + 1 \notin 1 .. l
      OBVIOUS
    <2> HIDE DEF t, s
    <2>4. QED
      BY <1>5, <2>1, <2>2, <2>3
  <1> HIDE DEF s, t, u
  <1>6. ASSUME NEW i \in 1 .. u, t[i].kind \in {m, Headers[m]}
        PROVE  /\ t[i].n \in 1 .. n /\ src'.first # -1
               /\ t[i].at + src'.first <= pub'.clock[Channel[m]]
    <2>1. CASE i \in 1 .. l /\ t[i] = s[i] /\ s[i].kind \in {m, Headers[m]}
      <3>1. t[i].n \in Nat /\ t[i].n > 0 /\ t[i].n < n /\ t[i].at + e <= at + e
        BY <1>4, <2>1
      <3>2. t[i].n \in 1 .. n
        BY <3>1
      <3>3. QED
        BY <1>1, <1>2, <3>1, <3>2
    <2>2. CASE t[i].n = n /\ t[i].at = at
      <3>1. n \in 1 .. n /\ at + e <= at + e
        BY SMTT(60), <1>1
      <3>2. QED
        BY <1>1, <1>2, <2>2, <3>1
    <2>3. QED
      BY <1>5, <1>6, <2>1, <2>2
  <1>7. ASSUME NEW i \in 1 .. u, NEW j \in 1 .. u, i < j,
               t[i].kind \in {m, Headers[m]}, t[j].kind \in {m, Headers[m]}
        PROVE  t[i].at <= t[j].at /\ (t[i].kind = m /\ t[j].kind = m => t[i].n < t[j].n)
    <2>1. CASE i \in 1 .. l /\ j \in 1 .. l
      <3>1. t[i] = s[i] /\ t[j] = s[j]
        BY <1>5, <1>7, <2>1
      <3>2. i \in 1 .. Len(sent[p]) /\ j \in 1 .. Len(sent[p])
        BY <1>1, <2>1 DEF s
      <3>3. QED
        BY <1>7, <3>1, <3>2 DEF OrderOf, OfMedium, Of, Heads, s
    <2>2. CASE i \in 1 .. l /\ j \notin 1 .. l
      <3>1. t[i] = s[i] /\ s[i].kind \in {m, Headers[m]} /\ t[j].n = n /\ t[j].at = at
        BY <1>5, <1>7, <2>2
      <3>2. QED
        BY <1>4, <2>2, <3>1
    <2>3. CASE i \notin 1 .. l
      <3>1. j \notin 1 .. l
        BY <1>7, <2>3
      <3>2. /\ t[i].at = at /\ t[j].at = at
            /\ t[i].kind = m => i = l + a + b + 1
            /\ t[j].kind = m => j = l + a + b + 1
        BY <1>5, <1>7, <2>3, <3>1
      <3>3. ~(t[i].kind = m /\ t[j].kind = m) /\ at <= at
        BY <1>7, <3>2
      <3>4. QED
        BY <3>2, <3>3
    <2>4. QED
      BY <2>1, <2>2, <2>3
  <1>8. Len(sent'[p]) = u
    BY <1>1 DEF t
  <1>9. ss'[p].queue[m] <= src'.queue[m]
    BY <1>1
  <1>10. \A k \in refused'[p] : k[1] = m => k[2] <= ss'[p].queue[m]
    BY <1>1, <1>3
  <1>11. QED
    BY <1>1, <1>6, <1>7, <1>8, <1>9, <1>10 DEF OrderOf, OfMedium, Of, Heads, t

LEMMA StartServed ==
  ASSUME Types, NEW p \in Players, NEW m \in Media, NEW n \in Nat, NEW l \in Nat,
         NEW at \in Int, NEW a \in 0 .. 1, NEW b \in 0 .. 1, NEW f \in 0 .. 1,
         NEW r \in 0 .. 3, Given(p, m, n, l, at, a, b, f, r), StartOf(p, m), OrderOf(p, m)
  PROVE  StartOf(p, m)'
  <1> DEFINE s == sent[p]
             t == sent'[p]
             u == l + a + b + f
  <1>1. /\ Len(s) = l /\ Len(t) = u
        /\ ss'[p].started[m] = (ss[p].started[m] \/ b = 1)
        /\ b = 1 => ~ss[p].started[m]
        /\ f = 1 => ss[p].started[m] \/ b = 1
        /\ ss[p].queue[m] < n
        /\ \A i \in 1 .. l : t[i] = s[i]
        /\ b = 1 => t[l + a + 1].kind = Headers[m]
    BY DEF Given, SessionMoved, Chosen
  <1>2. ASSUME NEW i \in 1 .. u, t[i].kind \in {m, Headers[m]}
        PROVE  \/ i \in 1 .. l /\ t[i] = s[i]
               \/ /\ i \notin 1 .. l /\ t[i].n = n /\ t[i].ver = src.ver[m]
                  /\ t[i].kind = m => f = 1 /\ i = l + a + b + 1
                  /\ t[i].kind = Headers[m] => b = 1 /\ i = l + a + 1
    <2>1. "meta" \notin {m, Headers[m]} /\ Headers[m] # m
      BY MediaFacts
    <2>2. OldOrNew(p, m, n, l, at, a, b, f, i)
      BY GivenItems
    <2>3. l + a + 1 \notin 1 .. l /\ l + a + b + 1 \notin 1 .. l
      OBVIOUS
    <2>4. QED
      BY <1>2, <2>1, <2>2, <2>3 DEF OldOrNew
  <1>3. /\ \A i \in 1 .. l : s[i].kind = m => \E h \in 1 .. i - 1 : s[h].kind = Headers[m]
        /\ \A g, h \in 1 .. l : s[g].kind = Headers[m] /\ s[h].kind = Headers[m] => g = h
        /\ ss[p].started[m] = (\E h \in 1 .. l : s[h].kind = Headers[m])
        /\ \A h, i \in 1 .. l : s[h].kind = Headers[m] /\ s[i].kind = m /\ s[h].n = s[i].n =>
             s[h].ver = s[i].ver
    BY <1>1 DEF StartOf, Of, Heads
  <1>4. \A i \in 1 .. l : s[i].kind \in {m, Headers[m]} => s[i].n # n
    <2>1. SUFFICES ASSUME NEW i \in 1 .. l, s[i].kind \in {m, Headers[m]} PROVE s[i].n # n
      OBVIOUS
    <2>2. s[i].n \in 1 .. ss[p].queue[m]
      BY <1>1, <2>1 DEF OrderOf, OfMedium, Of, Heads
    <2>3. PICK w \in Nat : w = ss[p].queue[m] /\ w < n
      BY <1>1, Numbered
    <2>4. \A k \in 1 .. w : k # n
      BY <2>3
    <2>5. QED
      BY <2>2, <2>3, <2>4
  <1> HIDE DEF s, t
  <1>5. ASSUME NEW i \in 1 .. u, t[i].kind = m
        PROVE  \E h \in 1 .. i - 1 : t[h].kind = Headers[m]
    <2>1. CASE i \in 1 .. l /\ t[i] = s[i]
      <3>1. PICK h \in 1 .. i - 1 : s[h].kind = Headers[m]
        BY <1>3, <1>5, <2>1
      <3>2. h \in 1 .. l
        BY <2>1
      <3>3. QED
        BY <1>1, <3>1, <3>2
    <2>2. CASE f = 1 /\ i = l + a + b + 1
      <3>1. CASE b = 1
        <4>1. l + a + 1 \in 1 .. i - 1
          BY <2>2, <3>1
        <4>2. QED
          BY <1>1, <3>1, <4>1
      <3>2. CASE b # 1
        <4>1. PICK h \in 1 .. l : s[h].kind = Headers[m]
          BY <1>1, <1>3, <2>2, <3>2
        <4>2. h \in 1 .. i - 1
          BY <2>2
        <4>3. QED
          BY <1>1, <4>1, <4>2
      <3>3. QED
        BY <3>1, <3>2
    <2>3. QED
      BY <1>2, <1>5, <2>1, <2>2
  <1>6. ASSUME NEW g \in 1 .. u, NEW h \in 1 .. u,
               t[g].kind = Headers[m], t[h].kind = Headers[m]
        PROVE  g = h
    BY <1>1, <1>2, <1>3, <1>6
  <1>7. ss'[p].started[m] = (\E h \in 1 .. u : t[h].kind = Headers[m])
    <2>1. ASSUME ss[p].started[m] \/ b = 1 PROVE \E h \in 1 .. u : t[h].kind = Headers[m]
      <3>1. CASE b = 1
        <4>1. l + a + 1 \in 1 .. u
          BY <3>1
        <4>2. QED
          BY <1>1, <3>1, <4>1
      <3>2. CASE ss[p].started[m]
        <4>1. PICK h \in 1 .. l : s[h].kind = Headers[m]
          BY <1>3, <3>2
        <4>2. h \in 1 .. u
          OBVIOUS
        <4>3. QED
          BY <1>1, <4>1, <4>2
      <3>3. QED
        BY <2>1, <3>1, <3>2
    <2>2. ASSUME NEW h \in 1 .. u, t[h].kind = Headers[m] PROVE ss[p].started[m] \/ b = 1
      BY <1>2, <1>3, <2>2
    <2>3. QED
      BY <1>1, <2>1, <2>2
  <1>8. ASSUME NEW h \in 1 .. u, NEW i \in 1 .. u,
               t[h].kind = Headers[m], t[i].kind = m, t[h].n = t[i].n
        PROVE  t[h].ver = t[i].ver
    <2>1. \/ h \in 1 .. l /\ t[h] = s[h] /\ s[h].n # n
          \/ t[h].n = n /\ t[h].ver = src.ver[m]
      BY <1>2, <1>4, <1>8
    <2>2. \/ i \in 1 .. l /\ t[i] = s[i] /\ s[i].n # n
          \/ t[i].n = n /\ t[i].ver = src.ver[m]
      BY <1>2, <1>4, <1>8
    <2>3. CASE h \in 1 .. l /\ t[h] = s[h] /\ i \in 1 .. l /\ t[i] = s[i]
      BY <1>3, <1>8, <2>3
    <2>4. QED
      BY <1>8, <2>1, <2>2, <2>3
  <1>9. Len(sent'[p]) = u
    BY <1>1 DEF t
  <1>10. QED
    BY <1>5, <1>6, <1>7, <1>8, <1>9 DEF StartOf, Of, Heads, t

LEMMA VideoAside ==
  ASSUME NEW q \in Players, Aside(q, "video"), VideoOf(q),
         ss'[q].sendCodecInfo = ss[q].sendCodecInfo,
         \A k : <<"video", k>> \in refused'[q] <=> <<"video", k>> \in refused[q]
  PROVE  VideoOf(q)'
  <1> DEFINE s == sent[q]
             t == sent'[q]
             H == Headers["video"]
  <1>1. /\ Len(s) \in Nat /\ Len(t) \in Nat /\ Len(s) <= Len(t)
        /\ \A i \in 1 .. Len(s) : t[i] = s[i] /\ i \in 1 .. Len(t)
        /\ \A i \in 1 .. Len(t) : t[i].kind \in {"video", H} => i \in 1 .. Len(s)
    BY DEF Aside
  <1>2. /\ ss[q].sendCodecInfo => \E g \in 1 .. Len(s) : s[g].kind = "meta"
        /\ \A h \in 1 .. Len(s) : s[h].kind = H => \E g \in 1 .. h - 1 : s[g].kind = "meta"
        /\ \A h, i \in 1 .. Len(s) :
             /\ s[h].kind = H /\ s[i].kind = "video"
             /\ \A f \in h + 1 .. i - 1 : ~(s[f].kind = "video")
             => IF <<"video", s[h].n>> \in refused[q] THEN s[i].n > s[h].n
                ELSE s[i].key /\ s[i].n = s[h].n
        /\ \A h \in 1 .. Len(s) :
             s[h].kind = H /\ (\A i \in 1 .. Len(s) : ~(s[i].kind = "video")) =>
               <<"video", s[h].n>> \in refused[q]
    BY DEF VideoOf, Of, Heads
  <1> HIDE DEF s, t, H
  <1>3. ss'[q].sendCodecInfo => \E g \in 1 .. Len(t) : t[g].kind = "meta"
    BY <1>1, <1>2
  <1>4. ASSUME NEW h \in 1 .. Len(t), t[h].kind = H
        PROVE  \E g \in 1 .. h - 1 : t[g].kind = "meta"
    <2>1. h \in 1 .. Len(s) /\ s[h].kind = H
      BY <1>1, <1>4
    <2>2. PICK g \in 1 .. h - 1 : s[g].kind = "meta"
      BY <1>2, <2>1
    <2>3. g \in 1 .. Len(s)
      BY <1>1, <2>1
    <2>4. QED
      BY <1>1, <2>2, <2>3
  <1>5. ASSUME NEW h \in 1 .. Len(t), NEW i \in 1 .. Len(t), t[h].kind = H,
               t[i].kind = "video", \A f \in h + 1 .. i - 1 : ~(t[f].kind = "video")
        PROVE  IF <<"video", t[h].n>> \in refused'[q] THEN t[i].n > t[h].n
               ELSE t[i].key /\ t[i].n = t[h].n
    <2>1. /\ h \in 1 .. Len(s) /\ i \in 1 .. Len(s) /\ t[h] = s[h] /\ t[i] = s[i]
      BY <1>1, <1>5
    <2>2. \A f \in h + 1 .. i - 1 : ~(s[f].kind = "video")
      <3>1. \A f \in h + 1 .. i - 1 : f \in 1 .. Len(s)
        BY <1>1, <2>1
      <3>2. QED
        BY <1>1, <1>5, <3>1
    <2>3. IF <<"video", s[h].n>> \in refused[q] THEN s[i].n > s[h].n
          ELSE s[i].key /\ s[i].n = s[h].n
      BY <1>2, <1>5, <2>1, <2>2
    <2>4. QED
      BY <2>1, <2>3
  <1>6. ASSUME NEW h \in 1 .. Len(t), t[h].kind = H,
               \A i \in 1 .. Len(t) : ~(t[i].kind = "video")
        PROVE  <<"video", t[h].n>> \in refused'[q]
    <2>1. h \in 1 .. Len(s) /\ t[h] = s[h]
      BY <1>1, <1>6
    <2>2. \A i \in 1 .. Len(s) : ~(s[i].kind = "video")
      BY <1>1, <1>6
    <2>3. <<"video", s[h].n>> \in refused[q]
      BY <1>2, <1>6, <2>1, <2>2
    <2>4. QED
      BY <2>1, <2>3
  <1>7. QED
    BY <1>3, <1>4, <1>5, <1>6 DEF VideoOf, Of, Heads, t, H

LEMMA VideoServed ==
  ASSUME Types, NEW p \in Players, NEW m \in Media, m = "video", NEW n \in Nat, NEW l \in Nat,
         NEW at \in Int, NEW a \in 0 .. 1, NEW b \in 0 .. 1, NEW f \in 0 .. 1,
         NEW r \in 0 .. 3, Given(p, m, n, l, at, a, b, f, r),
         StartOf(p, m), OrderOf(p, m), VideoOf(p)
  PROVE  VideoOf(p)'
  <1> DEFINE s == sent[p]
             t == sent'[p]
             H == Headers[m]
             u == l + a + b + f
  <1>1. /\ Len(s) = l /\ Len(t) = u /\ ss[p].queue[m] < n /\ ss[p].queue[m] \in Nat
        /\ ss'[p].sendCodecInfo = (ss[p].sendCodecInfo \/ a = 1)
        /\ b = 1 => ~ss[p].started[m] /\ job.key /\ (a = 1 \/ ss[p].sendCodecInfo)
        /\ f = 1 => r = 0 /\ (ss[p].started[m] \/ b = 1)
        /\ b = 1 => f = 1 \/ r # 0
        /\ a = 1 => t[l + 1].kind = "meta"
        /\ \A i \in 1 .. l : t[i] = s[i]
        /\ refused'[p] = IF r = 0 THEN refused[p] ELSE refused[p] \cup {<<m, n>>}
    <2>1. m = job.media /\ p = Taker
      BY DEF Given
    <2>2. /\ Len(s) = l /\ Len(t) = u /\ ss[p].queue[m] < n
          /\ a = 1 => t[l + 1].kind = "meta"
          /\ \A i \in 1 .. l : t[i] = s[i]
      BY DEF Given
    <2>3. ss[p].queue[m] \in Nat
      BY Numbered
    <2>4. ss'[p].sendCodecInfo = (ss[p].sendCodecInfo \/ a = 1)
      BY DEF Given, SessionMoved
    <2>5. refused'[p] = IF r = 0 THEN refused[p] ELSE refused[p] \cup {<<m, n>>}
      BY DEF Given, Refusal
    <2>6. Chosen(a, b, f, r)
      BY DEF Given
    <2>7. /\ b = 1 => ~ss[p].started[m] /\ job.key /\ (a = 1 \/ ss[p].sendCodecInfo)
          /\ f = 1 => r = 0 /\ (ss[p].started[m] \/ b = 1)
          /\ b = 1 => f = 1 \/ r # 0
      BY <2>1, <2>6 DEF Chosen
    <2>8. QED
      BY <2>2, <2>3, <2>4, <2>5, <2>7
  <1>2. ASSUME NEW i \in 1 .. u, t[i].kind \in {m, H}
        PROVE  \/ i \in 1 .. l /\ t[i] = s[i]
               \/ /\ i \notin 1 .. l /\ t[i].n = n
                  /\ t[i].kind = m => f = 1 /\ i = l + a + b + 1 /\ t[i].key = job.key
                  /\ t[i].kind = H => b = 1 /\ i = l + a + 1
    <2>1. "meta" \notin {m, Headers[m]} /\ Headers[m] # m
      BY MediaFacts
    <2>2. OldOrNew(p, m, n, l, at, a, b, f, i)
      BY GivenItems
    <2>3. l + a + 1 \notin 1 .. l /\ l + a + b + 1 \notin 1 .. l
      OBVIOUS
    <2>4. QED
      BY <1>2, <2>1, <2>2, <2>3 DEF OldOrNew
  <1>3. /\ ss[p].sendCodecInfo => \E g \in 1 .. l : s[g].kind = "meta"
        /\ \A h \in 1 .. l : s[h].kind = H => \E g \in 1 .. h - 1 : s[g].kind = "meta"
        /\ \A h, i \in 1 .. l :
             /\ s[h].kind = H /\ s[i].kind = m
             /\ \A k \in h + 1 .. i - 1 : ~(s[k].kind = m)
             => IF <<m, s[h].n>> \in refused[p] THEN s[i].n > s[h].n
                ELSE s[i].key /\ s[i].n = s[h].n
        /\ \A h \in 1 .. l :
             s[h].kind = H /\ (\A i \in 1 .. l : ~(s[i].kind = m)) =>
               <<m, s[h].n>> \in refused[p]
    <2>1. /\ ss[p].sendCodecInfo => \E g \in 1 .. l : s[g].kind = "meta"
          /\ \A h \in 1 .. l : Heads(p, h, m) => \E g \in 1 .. h - 1 : s[g].kind = "meta"
          /\ \A h, i \in 1 .. l :
               /\ Heads(p, h, m) /\ Of(p, i, m)
               /\ \A k \in h + 1 .. i - 1 : ~Of(p, k, m)
               => IF <<m, s[h].n>> \in refused[p] THEN s[i].n > s[h].n
                  ELSE s[i].key /\ s[i].n = s[h].n
          /\ \A h \in 1 .. l :
               Heads(p, h, m) /\ (\A i \in 1 .. l : ~Of(p, i, m)) =>
                 <<m, s[h].n>> \in refused[p]
      BY <1>1 DEF VideoOf
    <2>2. \A k : (Heads(p, k, m) <=> s[k].kind = H) /\ (Of(p, k, m) <=> s[k].kind = m)
      BY DEF Of, Heads
    <2> HIDE DEF s, H
    <2>3. QED
      BY <2>1, <2>2
  <1>4. /\ \A i \in 1 .. l : s[i].kind = m => \E h \in 1 .. i - 1 : s[h].kind = H
        /\ \A g, h \in 1 .. l : s[g].kind = H /\ s[h].kind = H => g = h
        /\ ss[p].started[m] = (\E h \in 1 .. l : s[h].kind = H)
    BY <1>1 DEF StartOf, Of, Heads
  <1>5. \A i \in 1 .. l : s[i].kind \in {m, H} => s[i].n \in Nat /\ s[i].n < n
    <2>1. SUFFICES ASSUME NEW i \in 1 .. l, s[i].kind \in {m, H}
                   PROVE  s[i].n \in Nat /\ s[i].n < n
      OBVIOUS
    <2>2. s[i].n \in 1 .. ss[p].queue[m]
      BY <1>1, <2>1 DEF OrderOf, OfMedium, Of, Heads
    <2>3. \A k \in 1 .. ss[p].queue[m] : k \in Nat /\ k < n
      BY SMTT(60), <1>1
    <2>4. QED
      BY <2>2, <2>3
  <1>6. <<m, n>> \notin refused[p]
    <2>1. SUFFICES ASSUME <<m, n>> \in refused[p] PROVE FALSE
      OBVIOUS
    <2>2. n <= ss[p].queue[m]
      BY <2>1 DEF OrderOf
    <2>3. QED
      BY <1>1, <2>2
  <1> HIDE DEF s, t, H
  <1>7. ss'[p].sendCodecInfo => \E g \in 1 .. u : t[g].kind = "meta"
    <2>1. ASSUME ss[p].sendCodecInfo PROVE \E g \in 1 .. u : t[g].kind = "meta"
      <3>1. PICK g \in 1 .. l : s[g].kind = "meta"
        BY <1>3, <2>1
      <3>2. g \in 1 .. u
        OBVIOUS
      <3>3. QED
        BY <1>1, <3>1, <3>2
    <2>2. ASSUME a = 1 PROVE \E g \in 1 .. u : t[g].kind = "meta"
      <3>1. l + 1 \in 1 .. u
        BY <2>2
      <3>2. QED
        BY <1>1, <2>2, <3>1
    <2>3. QED
      BY <1>1, <2>1, <2>2
  <1>8. ASSUME NEW h \in 1 .. u, t[h].kind = H
        PROVE  \E g \in 1 .. h - 1 : t[g].kind = "meta"
    <2>1. CASE h \in 1 .. l /\ t[h] = s[h]
      <3>1. PICK g \in 1 .. h - 1 : s[g].kind = "meta"
        BY <1>3, <1>8, <2>1
      <3>2. g \in 1 .. l
        BY <2>1
      <3>3. QED
        BY <1>1, <3>1, <3>2
    <2>2. CASE b = 1 /\ h = l + a + 1
      <3>1. CASE a = 1
        <4>1. l + 1 \in 1 .. h - 1
          BY <2>2, <3>1
        <4>2. QED
          BY <1>1, <3>1, <4>1
      <3>2. CASE a # 1
        <4>1. PICK g \in 1 .. l : s[g].kind = "meta"
          BY <1>1, <1>3, <2>2, <3>2
        <4>2. g \in 1 .. h - 1
          BY <2>2
        <4>3. QED
          BY <1>1, <4>1, <4>2
      <3>3. QED
        BY <3>1, <3>2
    <2>3. QED
      BY <1>2, <1>8, <2>1, <2>2
  <1>9. ASSUME NEW h \in 1 .. u, NEW i \in 1 .. u, t[h].kind = H, t[i].kind = m,
               \A k \in h + 1 .. i - 1 : ~(t[k].kind = m)
        PROVE  IF <<m, t[h].n>> \in refused'[p] THEN t[i].n > t[h].n
               ELSE t[i].key /\ t[i].n = t[h].n
    <2>1. CASE h \in 1 .. l /\ i \in 1 .. l
      <3>1. t[h] = s[h] /\ t[i] = s[i]
        BY <1>1, <2>1
      <3>2. \A k \in h + 1 .. i - 1 : ~(s[k].kind = m)
        <4>1. \A k \in h + 1 .. i - 1 : k \in 1 .. l
          BY <2>1
        <4>2. QED
          BY <1>1, <1>9, <4>1
      <3>3. IF <<m, s[h].n>> \in refused[p] THEN s[i].n > s[h].n
            ELSE s[i].key /\ s[i].n = s[h].n
        BY <1>3, <1>9, <2>1, <3>1, <3>2
      <3>4. s[h].n # n
        BY SMTT(60), <1>5, <1>9, <2>1, <3>1
      <3>5. <<m, s[h].n>> \in refused'[p] <=> <<m, s[h].n>> \in refused[p]
        BY <1>1, <3>4
      <3>6. QED
        BY <3>1, <3>3, <3>5
    <2>2. CASE h \in 1 .. l /\ i \notin 1 .. l
      <3>1. t[h] = s[h] /\ t[i].n = n /\ f = 1 /\ i = l + a + b + 1
        BY <1>1, <1>2, <1>9, <2>2
      <3>2. \A k \in 1 .. l : ~(s[k].kind = m)
        <4>1. SUFFICES ASSUME NEW k \in 1 .. l, s[k].kind = m PROVE FALSE
          OBVIOUS
        <4>2. PICK g \in 1 .. k - 1 : s[g].kind = H
          BY <1>4, <4>1
        <4>3. g \in 1 .. l
          OBVIOUS
        <4>4. g = h
          BY <1>4, <1>9, <2>2, <3>1, <4>2, <4>3
        <4>5. k \in h + 1 .. i - 1
          BY <3>1, <4>4
        <4>6. QED
          BY <1>1, <1>9, <4>1, <4>5
      <3>3. <<m, s[h].n>> \in refused[p]
        BY <1>3, <1>9, <2>2, <3>1, <3>2
      <3>4. <<m, t[h].n>> \in refused'[p]
        BY <1>1, <3>1, <3>3
      <3>5. s[h].n < n /\ s[h].n \in Nat
        BY <1>5, <1>9, <2>2, <3>1
      <3>6. QED
        BY <3>1, <3>4, <3>5
    <2>3. CASE h \notin 1 .. l /\ i \in 1 .. l
      <3>1. b = 1 /\ s[i].kind = m
        BY <1>1, <1>2, <1>9, <2>3
      <3>2. PICK g \in 1 .. i - 1 : s[g].kind = H
        BY <1>4, <2>3, <3>1
      <3>3. g \in 1 .. l
        BY <2>3
      <3>4. QED
        BY <1>1, <1>4, <3>1, <3>2, <3>3
    <2>4. CASE h \notin 1 .. l /\ i \notin 1 .. l
      <3>1. t[h].n = n /\ b = 1 /\ t[i].n = n /\ f = 1 /\ t[i].key = job.key
        BY <1>2, <1>9, <2>4
      <3>2. <<m, n>> \notin refused'[p] /\ job.key
        BY <1>1, <1>6, <3>1
      <3>3. QED
        BY <3>1, <3>2
    <2>5. QED
      BY <2>1, <2>2, <2>3, <2>4
  <1>10. ASSUME NEW h \in 1 .. u, t[h].kind = H, \A i \in 1 .. u : ~(t[i].kind = m)
         PROVE  <<m, t[h].n>> \in refused'[p]
    <2>1. CASE h \in 1 .. l
      <3>1. t[h] = s[h] /\ \A i \in 1 .. l : i \in 1 .. u
        BY <1>1, <2>1
      <3>2. \A i \in 1 .. l : ~(s[i].kind = m)
        BY <1>1, <1>10, <3>1
      <3>3. <<m, s[h].n>> \in refused[p]
        BY <1>3, <1>10, <2>1, <3>1, <3>2
      <3>4. QED
        BY <1>1, <3>1, <3>3
    <2>2. CASE h \notin 1 .. l
      <3>1. b = 1 /\ t[h].n = n
        BY <1>2, <1>10, <2>2
      <3>2. f # 1
        <4>1. SUFFICES ASSUME f = 1 PROVE FALSE
          OBVIOUS
        <4>2. t[l + a + b + 1].kind = m
          BY SMTT(60), <4>1 DEF Given, t
        <4>3. l + a + b + 1 \in 1 .. u
          BY SMTT(60), <4>1
        <4>4. QED
          BY <1>10, <4>2, <4>3
      <3>3. QED
        BY <1>1, <3>1, <3>2
    <2>3. QED
      BY <2>1, <2>2
  <1>11. Len(sent'[p]) = u
    BY <1>1 DEF t
  <1>12. ss'[p].sendCodecInfo =>
           \E g \in 1 .. Len(sent'[p]) : sent'[p][g].kind = "meta"
    BY <1>7, <1>11 DEF t
  <1>13. ASSUME NEW h \in 1 .. Len(sent'[p]), sent'[p][h].kind = Headers["video"]
         PROVE  \E g \in 1 .. h - 1 : sent'[p][g].kind = "meta"
    BY <1>8, <1>11, <1>13 DEF t, H
  <1>14. ASSUME NEW h \in 1 .. Len(sent'[p]), NEW i \in 1 .. Len(sent'[p]),
                sent'[p][h].kind = Headers["video"], sent'[p][i].kind = "video",
                \A k \in h + 1 .. i - 1 : ~(sent'[p][k].kind = "video")
         PROVE  IF <<"video", sent'[p][h].n>> \in refused'[p]
                THEN sent'[p][i].n > sent'[p][h].n
                ELSE sent'[p][i].key /\ sent'[p][i].n = sent'[p][h].n
    <2>1. IF <<m, t[h].n>> \in refused'[p] THEN t[i].n > t[h].n
          ELSE t[i].key /\ t[i].n = t[h].n
      BY <1>9, <1>11, <1>14 DEF t, H
    <2>2. QED
      BY <2>1 DEF t
  <1>15. ASSUME NEW h \in 1 .. Len(sent'[p]), sent'[p][h].kind = Headers["video"],
                \A i \in 1 .. Len(sent'[p]) : ~(sent'[p][i].kind = "video")
         PROVE  <<"video", sent'[p][h].n>> \in refused'[p]
    BY <1>10, <1>11, <1>15 DEF t, H
  <1>16. QED
    BY <1>12, <1>13, <1>14, <1>15 DEF VideoOf, Of, Heads

-----------------------------------------------------------------------------
(* Every frame from the first one on.                                       *)

\* The player was given frames of the medium and has not paused.
Begun(q, m) == paused[q] = 0 /\ \E n \in Nat : Got(q, m, n)

\* No frame passes it by but the audio frames that nobody is sent.
PassesOn(q, m) ==
    \A k \in ss[q].queue[m] + 1 .. Passed(q, m)' :
        k \in ss[q].queue[m] + 1 .. Passed(q, m) \/ (m = "audio" /\ k \in unsent')

\* Such a player does not enter the list; it may leave it for good.
Stays(q, m) ==
    /\ Among(q, list') \/ ss'[q].step = "gone"
    /\ Among(q, list') =>
         Among(q, list) /\ (ss[q].playing => ss'[q].playing) /\ PassesOn(q, m)

LEMMA WholeBegun ==
  ASSUME NEW q \in Players, NEW m \in Media, WholeOf(q, m), Begun(q, m)
  PROVE  /\ ss[q].started[m] /\ (Among(q, list) \/ ss[q].step = "gone")
         /\ Among(q, list) => ss[q].playing
  BY DEF WholeOf, Begun

LEMMA WholeAside ==
  ASSUME Types, NEW q \in Players, NEW m \in Media, Aside(q, m), WholeOf(q, m),
         paused'[q] = 0 => paused[q] = 0, Begun(q, m) => Stays(q, m),
         ss'[q].queue[m] = ss[q].queue[m], ss'[q].started[m] = ss[q].started[m],
         refused[q] \subseteq refused'[q], unsent \subseteq unsent'
  PROVE  WholeOf(q, m)'
  <1>1. SUFFICES ASSUME paused'[q] = 0, NEW n \in Nat, Got(q, m, n)'
                 PROVE  /\ \A k \in n .. ss'[q].queue[m] : Got(q, m, k)' \/ Excused(q, m, k)'
                        /\ ss'[q].started[m]
                        /\ Among(q, list') \/ ss'[q].step = "gone"
                        /\ Among(q, list') =>
                             /\ ss'[q].playing
                             /\ \A k \in ss'[q].queue[m] + 1 .. Passed(q, m)' :
                                  m = "audio" /\ k \in unsent'
    BY DEF WholeOf
  <1>2. /\ \A i \in 1 .. Len(sent[q]) : sent'[q][i] = sent[q][i] /\ i \in 1 .. Len(sent'[q])
        /\ \A i \in 1 .. Len(sent'[q]) : sent'[q][i].kind = m => i \in 1 .. Len(sent[q])
    BY DEF Aside
  <1>3. Got(q, m, n)
    BY <1>1, <1>2 DEF Got, Of
  <1>4. Begun(q, m) /\ Stays(q, m)
    BY <1>1, <1>3 DEF Begun
  <1>5. ASSUME NEW k \in n .. ss[q].queue[m] PROVE Got(q, m, k)' \/ Excused(q, m, k)'
    <2>1. Got(q, m, k) \/ Excused(q, m, k)
      BY <1>3, <1>4 DEF WholeOf, Begun
    <2>2. Got(q, m, k) => Got(q, m, k)'
      BY <1>2 DEF Got, Of
    <2>3. Excused(q, m, k) => Excused(q, m, k)'
      BY DEF Excused
    <2>4. QED
      BY <2>1, <2>2, <2>3
  <1>6. ASSUME Among(q, list'), NEW k \in ss[q].queue[m] + 1 .. Passed(q, m)'
        PROVE  m = "audio" /\ k \in unsent'
    <2>1. k \in ss[q].queue[m] + 1 .. Passed(q, m) \/ (m = "audio" /\ k \in unsent')
      BY <1>4, <1>6 DEF Stays, PassesOn
    <2>2. Among(q, list)
      BY <1>4, <1>6 DEF Stays
    <2>3. k \in ss[q].queue[m] + 1 .. Passed(q, m) => m = "audio" /\ k \in unsent
      BY <1>3, <1>4, <2>2 DEF WholeOf, Begun
    <2>4. QED
      BY <2>1, <2>3
  <1>7. ss[q].started[m] /\ (Among(q, list) => ss[q].playing)
    BY <1>4, WholeBegun
  <1>8. QED
    BY <1>4, <1>5, <1>6, <1>7 DEF Stays

\* A player that nothing happens to.
LEMMA WholeStill ==
  ASSUME Types, NEW q \in Players, NEW m \in Media, WholeOf(q, m),
         sent'[q] = sent[q], ss'[q] = ss[q], refused'[q] = refused[q],
         paused'[q] = paused[q], unsent \subseteq unsent',
         Among(q, list') <=> Among(q, list),
         Begun(q, m) /\ Among(q, list) => PassesOn(q, m)
  PROVE  WholeOf(q, m)'
  <1>1. Aside(q, m)
    BY SameAside
  <1>2. Begun(q, m) => Stays(q, m)
    BY WholeBegun DEF Stays
  <1>3. QED
    BY <1>1, <1>2, WholeAside

LEMMA JobIsWork ==
  \A j \in Jobs : j # NoJob
  BY MediaFacts DEF Jobs, NoJob

LEMMA PassedSame ==
  ASSUME NEW q \in Players, NEW m \in Media, job' = job, src'.queue = src.queue
  PROVE  PassesOn(q, m)
  BY DEF PassesOn, Passed, Working

\* The next client: what has passed of the others is the same.
LEMMA PassedOthers ==
  ASSUME Types, WalkInv, job \in Jobs, job.todo # <<>>, SameFrame(job', job),
         job'.todo = Tail(job.todo), src'.queue = src.queue,
         NEW q \in Players, NEW m \in Media, q # Taker \/ m # job.media
  PROVE  PassesOn(q, m)
  <1>1. Working /\ Working'
    BY MediaFacts DEF Working, Jobs, NoJob, SameFrame
  <1>2. /\ job'.media = job.media /\ job'.n = job.n
        /\ q # Taker => (Among(q, job'.todo) <=> Among(q, job.todo))
    BY TakerListed DEF SameFrame
  <1>3. Passed(q, m)' = Passed(q, m)
    BY <1>1, <1>2 DEF Passed
  <1>4. QED
    BY <1>3 DEF PassesOn

LEMMA PassedCount ==
  ASSUME Types, CountStep, NEW q \in Players, NEW m \in Media, Among(q, list)
  PROVE  PassesOn(q, m)
  <1>1. PICK w \in Media : w = Next1.media
    BY NextFacts DEF CountStep, PublisherStep
  <1>2. /\ job = NoJob /\ list' = list
        /\ src'.queue = [src.queue EXCEPT ![w] = src.queue[w] + 1]
        /\ \/ job' = NoJob /\ w = "audio" /\ unsent' = unsent \cup {src.queue[w] + 1}
           \/ /\ job' \in Jobs /\ job'.media = w /\ job'.n = src.queue[w] + 1
              /\ job'.todo = list
    BY <1>1 DEF CountStep, PublisherStep
  <1>3. Passed(q, m) = src.queue[m]
    BY <1>2 DEF Passed, Working
  <1>4. src.queue[m] \in Nat /\ src.queue[w] \in Nat
        /\ (m # w => src'.queue[m] = src.queue[m]) /\ src'.queue[w] = src.queue[w] + 1
    <2>1. src.queue \in [Media -> Nat]
      BY Numbered
    <2>2. QED
      BY <1>2, <2>1
  <1>5. CASE job' = NoJob
    <2>1. Passed(q, m)' = src'.queue[m]
      BY <1>5 DEF Passed, Working
    <2>2. w = "audio" /\ unsent' = unsent \cup {src.queue[w] + 1}
      BY <1>2, <1>5, MediaFacts DEF Jobs, NoJob
    <2>3. CASE m # w
      BY <1>3, <1>4, <2>1, <2>3 DEF PassesOn
    <2>4. CASE m = w
      <3>1. PICK g \in Nat : g = src.queue[m]
        BY <1>4
      <3>2. Passed(q, m)' = g + 1 /\ Passed(q, m) = g /\ g + 1 \in unsent' /\ m = "audio"
        BY <1>3, <1>4, <2>1, <2>2, <2>4, <3>1
      <3>3. PICK e \in Nat : e = ss[q].queue[m]
        BY Numbered
      <3>4. \A k \in e + 1 .. g + 1 : k \in e + 1 .. g \/ k = g + 1
        OBVIOUS
      <3>5. QED
        BY <3>2, <3>3, <3>4 DEF PassesOn
    <2>5. QED
      BY <2>3, <2>4
  <1>6. CASE job' # NoJob
    <2>1. job'.media = w /\ job'.n = src.queue[w] + 1 /\ job'.todo = list
      BY <1>2, <1>6
    <2>2. Passed(q, m)' = src.queue[m]
      <3>1. Passed(q, m)' = IF w = m THEN job'.n - 1 ELSE src'.queue[m]
        BY <1>6, <2>1 DEF Passed, Working
      <3>2. PICK g \in Nat : g = src.queue[w]
        BY <1>4
      <3>3. job'.n = g + 1 /\ g + 1 - 1 = g
        BY <2>1, <3>2
      <3>4. QED
        BY <1>4, <3>1, <3>2, <3>3
    <2>3. QED
      BY <1>3, <2>2 DEF PassesOn
  <1>7. QED
    BY <1>5, <1>6

LEMMA WholeServed ==
  ASSUME Types, WalkInv, NEW p \in Players, NEW m \in Media, NEW n \in Nat, NEW l \in Nat,
         NEW at \in Int, NEW a \in 0 .. 1, NEW b \in 0 .. 1, NEW f \in 0 .. 1,
         NEW r \in 0 .. 3, Given(p, m, n, l, at, a, b, f, r), job \in Jobs, job.todo # <<>>,
         job' \in Jobs, job'.todo = Tail(job.todo),
         list' = list, paused' = paused, unsent' = unsent,
         StartOf(p, m), StartOf(p, m)', WholeOf(p, m)
  PROVE  WholeOf(p, m)'
  <1> DEFINE s == sent[p]
             t == sent'[p]
             u == l + a + b + f
  <1>1. SUFFICES ASSUME paused[p] = 0, NEW g \in Nat, Got(p, m, g)'
                 PROVE  /\ \A k \in g .. ss'[p].queue[m] : Got(p, m, k)' \/ Excused(p, m, k)'
                        /\ ss'[p].started[m]
                        /\ Among(p, list') \/ ss'[p].step = "gone"
                        /\ Among(p, list') =>
                             /\ ss'[p].playing
                             /\ \A k \in ss'[p].queue[m] + 1 .. Passed(p, m)' :
                                  m = "audio" /\ k \in unsent'
    BY DEF WholeOf
  <1>2. /\ p = Taker /\ m = job.media /\ n = job.n /\ Len(s) = l /\ Len(t) = u
        /\ \A i \in 1 .. l : t[i] = s[i]
        /\ f = 1 => t[l + a + b + 1].kind = m /\ t[l + a + b + 1].n = n
        /\ n = src.queue[m] /\ src'.queue = src.queue /\ ss[p].playing
        /\ refused'[p] = IF r = 0 THEN refused[p] ELSE refused[p] \cup {<<m, n>>}
        /\ ss'[p].queue[m] = n /\ ss'[p].playing = ss[p].playing
    BY DEF Given, Refusal, SessionMoved
  <1>3. Chosen(a, b, f, r) /\ ss'[p].started[m] = (ss[p].started[m] \/ b = 1)
    BY DEF Given, SessionMoved
  <1>4. Among(p, list) /\ ~Among(p, job'.todo) /\ Among(p, job.todo)
    BY <1>2, TakerListed
  <1>5. Working /\ Working'
    BY JobIsWork DEF Working
  <1>6. Passed(p, m) = n - 1 /\ Passed(p, m)' = n
    BY <1>2, <1>4, <1>5 DEF Passed
  <1>7. ss'[p].started[m]
    <2>1. PICK i \in 1 .. Len(t) : Of(p, i, m)'
      BY <1>1 DEF Got
    <2>2. PICK h \in 1 .. i - 1 : Heads(p, h, m)'
      BY <2>1 DEF StartOf
    <2>3. h \in 1 .. Len(t)
      BY <1>2
    <2>4. QED
      BY <2>2, <2>3 DEF StartOf
  <1>8. f = 1 \/ r # 0
    <2>1. ss[p].started[m] \/ b = 1
      BY <1>3, <1>7
    <2>2. QED
      BY <1>2, <1>3, <2>1 DEF Chosen
  <1>9. Got(p, m, n)' \/ Excused(p, m, n)'
    <2>1. CASE f = 1
      <3>1. l + a + b + 1 \in 1 .. u
        BY <2>1
      <3>2. QED
        BY <1>2, <2>1, <3>1 DEF Got, Of
    <2>2. CASE r # 0
      BY <1>2, <2>2 DEF Excused
    <2>3. QED
      BY <1>8, <2>1, <2>2
  <1>10. \A i \in 1 .. u : i \in 1 .. l \/ t[i].n = n \/ t[i].kind # m
    <2>1. SUFFICES ASSUME NEW i \in 1 .. u PROVE i \in 1 .. l \/ t[i].n = n \/ t[i].kind # m
      OBVIOUS
    <2>2. OldOrNew(p, m, n, l, at, a, b, f, i)
      BY GivenItems
    <2>3. m # "meta"
      BY MediaFacts
    <2>4. QED
      BY <2>2, <2>3 DEF OldOrNew
  <1>11. ASSUME NEW k \in Nat PROVE Got(p, m, k) => Got(p, m, k)'
    <2>1. SUFFICES ASSUME NEW i \in 1 .. l, Of(p, i, m), s[i].n = k PROVE Got(p, m, k)'
      BY <1>2 DEF Got
    <2>2. i \in 1 .. u
      OBVIOUS
    <2>3. QED
      BY <1>2, <2>1, <2>2 DEF Got, Of
  <1>12. ASSUME NEW k \in Nat PROVE Excused(p, m, k) => Excused(p, m, k)'
    BY <1>2 DEF Excused
  <1>13. Got(p, m, g) \/ g = n
    <2>1. PICK i \in 1 .. Len(t) : Of(p, i, m)' /\ t[i].n = g
      BY <1>1 DEF Got
    <2>2. i \in 1 .. u /\ t[i].kind = m
      BY <1>2, <2>1 DEF Of
    <2>3. QED
      BY <1>2, <1>10, <2>1, <2>2 DEF Got, Of
  <1>14. ASSUME NEW k \in g .. n PROVE Got(p, m, k)' \/ Excused(p, m, k)'
    <2>1. CASE k = n
      BY <1>9, <2>1
    <2>2. CASE k # n
      <3>1. g # n /\ k \in Nat
        BY <2>2
      <3>2. Got(p, m, g)
        BY <1>13, <3>1
      <3>3. PICK e \in Nat : e = ss[p].queue[m]
        BY Numbered
      <3>4. /\ \A x \in g .. e : Got(p, m, x) \/ Excused(p, m, x)
            /\ \A x \in e + 1 .. n - 1 : m = "audio" /\ x \in unsent
        BY <1>1, <1>4, <1>6, <3>2, <3>3 DEF WholeOf
      <3>5. k \in g .. e \/ k \in e + 1 .. n - 1
        BY <2>2, <3>3
      <3>6. Got(p, m, k) \/ Excused(p, m, k)
        BY <3>4, <3>5 DEF Excused
      <3>7. QED
        BY <1>11, <1>12, <3>1, <3>6
    <2>3. QED
      BY <2>1, <2>2
  <1>15. ~\E k \in n + 1 .. n : TRUE
    OBVIOUS
  <1>16. QED
    BY <1>2, <1>4, <1>6, <1>7, <1>14, <1>15

LEMMA WholeKept ==
  ASSUME Types, Types', WalkInv, ClockInv, AskedInv, AnyStep,
         \A p \in Players, m \in Media : StartOf(p, m) /\ StartOf(p, m)' /\ WholeOf(p, m),
         NEW q \in Players, NEW m \in Media
  PROVE  WholeOf(q, m)'
  <1>1. WholeOf(q, m)
    OBVIOUS
  <1>2. ASSUME sent' = sent, ss' = ss, refused' = refused, paused' = paused,
               unsent \subseteq unsent', list' = list, Among(q, list) => PassesOn(q, m)
        PROVE  WholeOf(q, m)'
    BY <1>1, <1>2, WholeStill
  <1>3. ASSUME QuietStep PROVE WholeOf(q, m)'
    <2>1. PassesOn(q, m)
      BY <1>3, PassedSame DEF QuietStep, PublisherStep
    <2>2. QED
      BY <1>2, <1>3, <2>1 DEF QuietStep, PublisherStep
  <1>4. ASSUME CountStep PROVE WholeOf(q, m)'
    <2>1. Among(q, list) => PassesOn(q, m)
      BY <1>4, PassedCount
    <2>2. unsent \subseteq unsent'
      BY <1>4 DEF CountStep
    <2>3. QED
      BY <1>2, <1>4, <2>1, <2>2 DEF CountStep, PublisherStep
  <1>5. ASSUME SkipStep PROVE WholeOf(q, m)'
    <2>1. /\ job \in Jobs /\ job.todo # <<>> /\ SameFrame(job', job)
          /\ job'.todo = Tail(job.todo) /\ src'.queue = src.queue
          /\ ~(ss[Taker].playing /\ job.n > ss[Taker].queue[job.media])
          /\ UNCHANGED <<pub, src, mem, list, ss, sent, read, refused, unsent, paused>>
      BY <1>5 DEF SkipStep
    <2>2. CASE q # Taker \/ m # job.media
      <3>1. PassesOn(q, m)
        BY <2>1, <2>2, PassedOthers
      <3>2. QED
        BY <1>2, <2>1, <3>1
    <2>3. CASE q = Taker /\ m = job.media
      <3>1. Begun(q, m) /\ Among(q, list) => PassesOn(q, m)
        <4>1. SUFFICES ASSUME Begun(q, m), Among(q, list) PROVE PassesOn(q, m)
          OBVIOUS
        <4>2. ss[q].playing
          BY <1>1, <4>1, WholeBegun
        <4>3. ~(job.n > ss[q].queue[m]) /\ job.n = src.queue[m]
          BY <2>1, <2>3, <4>2, TakerListed
        <4>4. PICK e \in Nat, g \in Nat : e = ss[q].queue[m] /\ g = src.queue[m]
          BY Numbered
        <4>5. ~Among(q, job'.todo)
          BY <2>1, <2>3, TakerListed
        <4>6. Passed(q, m)' = g
          BY <2>1, <4>4, <4>5 DEF Passed
        <4>7. g <= e
          BY <4>3, <4>4
        <4>8. QED
          BY <4>4, <4>6, <4>7 DEF PassesOn
      <3>2. QED
        BY <1>1, <2>1, <3>1, WholeStill
    <2>4. QED
      BY <2>2, <2>3
  <1>6. ASSUME DoneStep PROVE WholeOf(q, m)'
    <2>1. ~Among(q, job.todo)
      BY <1>6, EmptySeq DEF DoneStep, Among
    <2>2. Passed(q, m)' = src.queue[m] /\ Passed(q, m) = src.queue[m]
      BY <1>6, <2>1 DEF DoneStep, Passed, Working
    <2>3. PassesOn(q, m)
      BY <2>2 DEF PassesOn
    <2>4. QED
      BY <1>2, <1>6, <2>3 DEF DoneStep
  <1>7. ASSUME NEW c, NEW mm, NEW x, NEW y, NEW z, NEW a \in 0 .. 1, NEW b \in 0 .. 1,
               NEW f \in 0 .. 1, NEW r \in 0 .. 3, Served(c, mm, x, y, z, a, b, f, r)
        PROVE  WholeOf(q, m)'
    <2>1. /\ job \in Jobs /\ job.todo # <<>> /\ SameFrame(job', job)
          /\ job'.todo = Tail(job.todo) /\ src'.queue = src.queue
          /\ list' = list /\ paused' = paused /\ unsent' = unsent
      BY <1>7 DEF Served, Renew, SourceMoved
    <2>2. CASE q = Taker /\ m = job.media
      <3>1. PICK p \in Players, v \in Media, n \in Nat, l \in Nat, at \in Int :
              Given(p, v, n, l, at, a, b, f, r)
        BY <1>7, ServedGiven
      <3>2. p = q /\ v = m
        BY <2>2, <3>1 DEF Given
      <3>3. job' \in Jobs
        BY <2>1 DEF SameFrame
      <3>4. QED
        BY <1>1, <2>1, <3>1, <3>2, <3>3, WholeServed
    <2>3. CASE q # Taker \/ m # job.media
      <3>1. Aside(q, m)
        BY <1>7, <2>3, ServedAside
      <3>2. PassesOn(q, m)
        BY <2>1, <2>3, PassedOthers
      <3>3. /\ ss'[q].queue[m] = ss[q].queue[m] /\ ss'[q].started[m] = ss[q].started[m]
            /\ refused[q] \subseteq refused'[q] /\ ss'[q].playing = ss[q].playing
            /\ ss'[q].step = ss[q].step
        <4>1. CASE q = Taker
          BY <1>7, <2>3, <4>1 DEF Served, SessionMoved, Refusal
        <4>2. CASE q # Taker
          BY <1>7, <4>2 DEF Served, OthersKept
        <4>3. QED
          BY <4>1, <4>2
      <3>4. Begun(q, m) => Stays(q, m)
        BY <1>1, <2>1, <3>2, <3>3, WholeBegun DEF Stays
      <3>5. QED
        BY <1>1, <2>1, <3>1, <3>3, <3>4, WholeAside
    <2>4. QED
      BY <2>2, <2>3
  <1>8. ASSUME NEW p \in Players, NEW x, ToldStep(p, x) PROVE WholeOf(q, m)'
    <2>1. Aside(q, m)
      BY <1>8, ToldAside
    <2>2. PassesOn(q, m)
      BY <1>8, PassedSame DEF ToldStep
    <2>3. /\ ss'[q].queue = ss[q].queue /\ ss'[q].started = ss[q].started
          /\ ss'[q].playing = ss[q].playing /\ (ss[q].step = "gone" => ss'[q].step = "gone")
          /\ list' = list /\ refused' = refused /\ unsent' = unsent /\ paused' = paused
      BY <1>8 DEF ToldStep, SameSession
    <2>4. Begun(q, m) => Stays(q, m)
      BY <1>1, <2>2, <2>3, WholeBegun DEF Stays
    <2>5. QED
      BY <1>1, <2>1, <2>3, <2>4, WholeAside
  <1>9. ASSUME NEW p \in Players, PlayerStep(p),
               ListedStep(p) \/ StartedStep(p) \/ PauseStep(p) \/ \E i : LeaveStep(p, i)
        PROVE  WholeOf(q, m)'
    <2>1. /\ Aside(q, m) /\ PassesOn(q, m)
          /\ ss'[q].queue = ss[q].queue /\ ss'[q].started = ss[q].started
          /\ refused' = refused /\ unsent' = unsent
      <3>1. src' = src /\ job' = job /\ sent' = sent /\ refused' = refused /\ unsent' = unsent
        BY <1>9 DEF PlayerStep
      <3>2. ss'[q].queue = ss[q].queue /\ ss'[q].started = ss[q].started
        BY <1>9 DEF PlayerStep, SameSession
      <3>3. QED
        BY <3>1, <3>2, SameAside, PassedSame
    <2>2. ASSUME q # p PROVE WholeOf(q, m)'
      <3>1. Among(q, list') <=> Among(q, list)
        BY <1>9, <2>2, EnteredFacts, LeftFacts DEF StartedStep, PauseStep
      <3>2. /\ sent' = sent /\ ss'[q] = ss[q] /\ refused' = refused /\ unsent' = unsent
            /\ paused'[q] = paused[q]
        BY <1>9, <2>2 DEF PlayerStep
      <3>3. QED
        BY <1>1, <2>1, <3>1, <3>2, WholeStill
    <2>3. ASSUME q = p, PauseStep(p) PROVE WholeOf(q, m)'
      <3>1. paused'[q] # 0
        BY <2>3 DEF PauseStep
      <3>2. QED
        BY <3>1 DEF WholeOf
    <2>4. ASSUME q = p, ~PauseStep(p), Begun(q, m) => Stays(q, m) PROVE WholeOf(q, m)'
      <3>1. paused' = paused
        BY <1>9, <2>4 DEF ListedStep, StartedStep, LeaveStep
      <3>2. QED
        BY <1>1, <2>1, <2>4, <3>1, WholeAside
    <2>5. ASSUME q = p, ListedStep(p) PROVE Begun(q, m) => Stays(q, m)
      <3>1. SUFFICES ASSUME Begun(q, m) PROVE Stays(q, m)
        OBVIOUS
      <3>2. Among(q, list) /\ ss'[q].playing = ss[q].playing
        BY <1>1, <2>5, <3>1, WholeBegun DEF ListedStep
      <3>3. list' = list
        BY <2>5, <3>2 DEF ListedStep
      <3>4. QED
        BY <2>1, <3>2, <3>3 DEF Stays
    <2>6. ASSUME q = p, StartedStep(p) PROVE Begun(q, m) => Stays(q, m)
      <3>1. SUFFICES ASSUME Begun(q, m) PROVE Stays(q, m)
        OBVIOUS
      <3>2. Among(q, list) /\ ss'[q].playing /\ list' = list
        BY <1>1, <2>6, <3>1, WholeBegun DEF StartedStep
      <3>3. QED
        BY <2>1, <3>2 DEF Stays
    <2>7. ASSUME q = p, NEW i, LeaveStep(p, i) PROVE Begun(q, m) => Stays(q, m)
      <3>1. ~Among(q, list')
        BY <2>7, LeftFacts
      <3>2. ss'[q].step = "gone"
        BY <2>7 DEF LeaveStep
      <3>3. QED
        BY <3>1, <3>2 DEF Stays
    <2>8. QED
      BY <1>9, <2>2, <2>3, <2>4, <2>5, <2>6, <2>7
  <1>10. ASSUME NEW p, DeliverStep(p) \/ UNCHANGED vars PROVE WholeOf(q, m)'
    <2>1. PassesOn(q, m)
      BY <1>10, PassedSame DEF DeliverStep, vars
    <2>2. QED
      BY <1>2, <1>10, <2>1 DEF DeliverStep, vars
  <1>11. QED
    BY <1>3, <1>4, <1>5, <1>6, <1>7, <1>8, <1>9, <1>10
       DEF AnyStep, ServeStep, ListedStep, StartedStep, PauseStep, LeaveStep

-----------------------------------------------------------------------------
(* What the memory of the headers holds.                                    *)

\* The item it, of which what was read is v when d, and the memory of its header.
Kept(it, d, v, mm) ==
    /\ it.kind \in {"avcheader", "aacheader"} <=> it.cell # 0
    /\ it.cell = 0 /\ d => v = EncodeInt24(it.at)
    /\ it.cell # 0 =>
         /\ it.cell <= Len(mm) /\ mm[it.cell].used > 0
         /\ mm[it.cell].used = 1 =>
              mm[it.cell].time = EncodeInt24(it.at) /\ (d => v = EncodeInt24(it.at))

LEMMA MemoryParts ==
  ASSUME NEW p \in Players
  PROVE  MemoryOf(p) <=>
           /\ Len(read[p]) <= Len(sent[p])
           /\ \A i \in 1 .. Len(sent[p]) :
                Kept(sent[p][i], i <= Len(read[p]), read[p][i], mem)
  BY DEF MemoryOf, Kept

\* An old item, when the buffer in cell c grows.
LEMMA KeptGrown ==
  ASSUME Types, NEW c, NEW b \in 0 .. 1, Grown(c, b), NEW it \in Items, NEW d, NEW v,
         Kept(it, d, v, mem)
  PROVE  Kept(it, d, v, mem')
  <1>1. PICK e \in Nat : e = it.cell
    BY DEF Items
  <1>2. CASE e = 0
    BY <1>1, <1>2 DEF Kept
  <1>3. CASE e # 0
    <2>1. /\ e <= Len(mem) /\ mem[e].used > 0
          /\ mem[e].used = 1 =>
               mem[e].time = EncodeInt24(it.at) /\ (d => v = EncodeInt24(it.at))
      BY <1>1, <1>3 DEF Kept
    <2>2. e \in 1 .. Len(mem) /\ Len(mem) \in Nat /\ Len(mem') \in Nat /\ Len(mem) <= Len(mem')
      BY <1>1, <1>3, <2>1 DEF Grown
    <2>3. mem'[e] = mem[e] \/ mem'[e].used = mem[e].used + 1
      BY <2>2 DEF Grown
    <2>4. PICK w \in Nat : w = mem[e].used
      <3>1. mem[e] \in Cells
        BY <2>2, ElementOfSeq DEF Types
      <3>2. QED
        BY <3>1 DEF Cells
    <2>5. CASE mem'[e] = mem[e]
      BY <1>1, <1>3, <2>1, <2>2, <2>5 DEF Kept
    <2>6. CASE mem'[e].used = mem[e].used + 1
      <3>1. mem'[e].used > 0 /\ mem'[e].used # 1 /\ e <= Len(mem')
        BY <2>1, <2>2, <2>4, <2>6
      <3>2. it.kind \in {"avcheader", "aacheader"} <=> it.cell # 0
        BY DEF Kept
      <3>3. QED
        BY <1>1, <1>3, <3>1, <3>2 DEF Kept
    <2>7. QED
      BY <2>3, <2>5, <2>6
  <1>4. QED
    BY <1>2, <1>3

LEMMA MemoryServed ==
  ASSUME Types, NEW c, NEW mm, NEW x, NEW y, NEW z, NEW a \in 0 .. 1, NEW b \in 0 .. 1,
         NEW f \in 0 .. 1, NEW r \in 0 .. 3, Served(c, mm, x, y, z, a, b, f, r),
         NEW p \in Players, MemoryOf(p), Types'
  PROVE  MemoryOf(p)'
  <1>1. Grown(c, b) /\ read' = read /\ job.media \in Media /\ c \in Nat \ {0}
    <2>1. Grown(c, b) /\ job \in Jobs
      BY ServedFacts
    <2>2. QED
      BY <2>1 DEF Grown, Jobs, Served
  <1>2. PICK k \in Nat : k = Len(read[p])
    BY LenProperties DEF Types
  <1>3. PICK s \in Seq(Items), t \in Seq(Items), n \in Nat :
          s = sent[p] /\ t = sent'[p] /\ n = Len(s)
    <2>1. sent[p] \in Seq(Items) /\ sent'[p] \in Seq(Items)
      BY DEF Types
    <2>2. Len(sent[p]) \in Nat
      BY <2>1, LenProperties
    <2>3. QED
      BY <2>1, <2>2
  <1>4. k <= n /\ \A i \in 1 .. n : Kept(s[i], i <= k, read[p][i], mem)
    BY <1>2, <1>3, MemoryParts
  <1>5. \A i \in 1 .. n : Kept(s[i], i <= k, read[p][i], mem')
    <2>1. \A i \in 1 .. n : s[i] \in Items
      BY <1>3, ElementOfSeq
    <2>2. QED
      BY <1>1, <1>4, <2>1, KeptGrown
  <1>6. CASE p # Taker
    <2>1. sent'[p] = sent[p]
      BY <1>6 DEF Served, OthersKept
    <2>2. QED
      BY <1>1, <1>2, <1>3, <1>4, <1>5, <2>1 DEF MemoryOf, Kept
  <1>7. CASE p = Taker
    <2>1. Prolonged(t, s, a, b, f, x, y, z)
      BY <1>3, <1>7 DEF Served
    <2>2. /\ Len(t) = n + a + b + f
          /\ \A i \in 1 .. n : t[i] = s[i]
          /\ \A i \in 1 .. Len(t) :
               \/ i \in 1 .. n
               \/ i \notin 1 .. n /\ (t[i] = x \/ (b = 1 /\ t[i] = y) \/ t[i] = z)
      <3>1. /\ Len(t) = Len(s) + a + b + f
            /\ \A i \in 1 .. Len(s) : t[i] = s[i]
            /\ \A i \in 1 .. Len(t) :
                 \/ i \in 1 .. Len(s) /\ t[i] = s[i]
                 \/ a = 1 /\ i = Len(s) + 1 /\ t[i] = x
                 \/ b = 1 /\ i = Len(s) + a + 1 /\ t[i] = y
                 \/ f = 1 /\ i = Len(s) + a + b + 1 /\ t[i] = z
        BY SMTT(60), <2>1, NewItems
      <3>2. n + 1 \notin 1 .. n /\ n + a + 1 \notin 1 .. n /\ n + a + b + 1 \notin 1 .. n
        OBVIOUS
      <3>3. QED
        BY <1>3, <3>1, <3>2
    <2>3. \A i \in 1 .. n + a + b + f : i \notin 1 .. n => ~(i <= k)
      BY <1>4
    <2>4. ASSUME NEW v PROVE Kept(x, FALSE, v, mem') /\ Kept(z, FALSE, v, mem')
      <3>1. /\ x.kind = "meta" /\ x.cell = 0 /\ z.kind = job.media /\ z.cell = 0
        BY DEF Served
      <3>2. /\ "meta" \notin {"avcheader", "aacheader"}
            /\ job.media \notin {"avcheader", "aacheader"}
        BY <1>1 DEF Media
      <3>3. QED
        BY <3>1, <3>2 DEF Kept
    <2>5. ASSUME NEW v, b = 1 PROVE Kept(y, FALSE, v, mem')
      <3>1. y.kind = Headers[job.media] /\ y.cell = c /\ y.at = job.at
        BY DEF Served
      <3>2. Headers[job.media] \in {"avcheader", "aacheader"}
        BY <1>1 DEF Headers, Media
      <3>3. c <= Len(mem') /\ mem'[c].used > 0 /\ mem'[c].time = EncodeInt24(job.at)
        <4>1. c \in 1 .. Len(mem') /\ mem'[c].time = EncodeInt24(job.at)
              /\ Len(mem) \in Nat /\ Len(mem') \in Nat
          BY <1>1, <2>5 DEF Grown
        <4>2. CASE c > Len(mem)
          BY <1>1, <2>5, <4>1, <4>2 DEF Grown
        <4>3. CASE ~(c > Len(mem))
          <5>1. c \in 1 .. Len(mem)
            BY <1>1, <4>1, <4>3
          <5>2. mem'[c].used = mem[c].used + 1
            BY <1>1, <2>5, <5>1 DEF Grown
          <5>3. mem[c] \in Cells
            BY <5>1, ElementOfSeq DEF Types
          <5>4. mem[c].used \in Nat
            BY <5>3 DEF Cells
          <5>5. QED
            BY SMTT(60), <4>1, <5>2, <5>4
        <4>4. QED
          BY <4>2, <4>3
      <3>4. QED
        BY <1>1, <3>1, <3>2, <3>3 DEF Kept
    <2>6. ASSUME NEW i \in 1 .. Len(t) PROVE Kept(t[i], i <= k, read[p][i], mem')
      <3>1. CASE i \in 1 .. n
        BY <1>5, <2>2, <3>1
      <3>2. CASE i \notin 1 .. n
        <4>1. ~(i <= k)
          BY <2>2, <2>3, <3>2
        <4>2. t[i] = x \/ (b = 1 /\ t[i] = y) \/ t[i] = z
          BY <2>2, <3>2
        <4>3. Kept(t[i], FALSE, read[p][i], mem')
          BY <2>4, <2>5, <4>2
        <4>4. QED
          BY <4>1, <4>3 DEF Kept
      <3>3. QED
        BY <3>1, <3>2
    <2>7. k <= Len(t)
      BY <1>4, <2>2
    <2>8. QED
      BY <1>1, <1>2, <1>3, <2>6, <2>7 DEF MemoryOf, Kept
  <1>8. QED
    BY <1>6, <1>7

LEMMA MemoryKept ==
  ASSUME Types, AnyStep, NEW q \in Players, MemoryOf(q)
  PROVE  MemoryOf(q)'
  <1>0. Types'
    BY TypesKept
  <1>1. ASSUME sent'[q] = sent[q], read'[q] = read[q], mem' = mem PROVE MemoryOf(q)'
    BY <1>1 DEF MemoryOf
  <1>2. ASSUME QuietStep \/ CountStep \/ SkipStep \/ DoneStep \/ UNCHANGED vars
        PROVE  MemoryOf(q)'
    BY <1>1, <1>2 DEF QuietStep, CountStep, PublisherStep, SkipStep, DoneStep, vars
  <1>3. ASSUME NEW c, NEW mm, NEW x, NEW y, NEW z, NEW a \in 0 .. 1, NEW b \in 0 .. 1,
               NEW f \in 0 .. 1, NEW r \in 0 .. 3, Served(c, mm, x, y, z, a, b, f, r)
        PROVE  MemoryOf(q)'
    BY <1>0, <1>3, MemoryServed
  <1>4. ASSUME NEW p \in Players, NEW x, ToldStep(p, x) PROVE MemoryOf(q)'
    <2>1. read' = read /\ mem' = mem
      BY <1>4 DEF ToldStep
    <2>2. CASE q # p
      BY <1>1, <1>4, <2>1, <2>2 DEF ToldStep
    <2>3. CASE q = p
      <3>1. PICK s \in Seq(Items), t \in Seq(Items), n \in Nat :
              s = sent[q] /\ t = sent'[q] /\ n = Len(s)
        <4>1. sent[q] \in Seq(Items) /\ sent'[q] \in Seq(Items)
          BY <1>0 DEF Types
        <4>2. Len(sent[q]) \in Nat
          BY <4>1, LenProperties
        <4>3. QED
          BY <4>1, <4>2
      <3>2. PICK k \in Nat : k = Len(read[q])
        BY LenProperties DEF Types
      <3>3. /\ Prolonged(t, s, 1, 0, 0, x, x, x) /\ x.kind = "chunksize" /\ x.cell = 0
        BY <1>4, <2>3, <3>1 DEF ToldStep
      <3>4. Len(t) = n + 1 /\ t[n + 1] = x /\ \A i \in 1 .. n : t[i] = s[i]
        BY <3>1, <3>3 DEF Prolonged
      <3>5. k <= n /\ \A i \in 1 .. n : Kept(s[i], i <= k, read[q][i], mem)
        BY <3>1, <3>2, MemoryParts
      <3>6. ~(n + 1 <= k) /\ k <= n + 1 /\ \A i \in 1 .. n + 1 : i \in 1 .. n \/ i = n + 1
        BY <3>5
      <3>7. Kept(x, n + 1 <= k, read[q][n + 1], mem)
        BY <3>3, <3>6 DEF Kept
      <3>8. \A i \in 1 .. n + 1 : Kept(t[i], i <= k, read[q][i], mem)
        BY <3>4, <3>5, <3>6, <3>7
      <3>9. QED
        BY <2>1, <3>1, <3>2, <3>4, <3>6, <3>8 DEF MemoryOf, Kept
    <2>4. QED
      BY <2>2, <2>3
  <1>5. ASSUME NEW p, ListedStep(p) \/ StartedStep(p) \/ PauseStep(p) \/ \E i : LeaveStep(p, i)
        PROVE  MemoryOf(q)'
    BY <1>1, <1>5 DEF ListedStep, StartedStep, PauseStep, LeaveStep, PlayerStep
  <1>6. ASSUME NEW p \in Players, DeliverStep(p) PROVE MemoryOf(q)'
    <2>1. sent' = sent /\ mem' = mem
      BY <1>6 DEF DeliverStep
    <2>2. CASE q # p
      BY <1>1, <1>6, <2>1, <2>2 DEF DeliverStep
    <2>3. CASE q = p
      <3>1. PICK s \in Seq(Items), n \in Nat : s = sent[q] /\ n = Len(s)
        BY LenProperties DEF Types
      <3>2. PICK k \in Nat : k = Len(read[q])
        BY LenProperties DEF Types
      <3>3. /\ Len(read'[q]) = n /\ \A i \in 1 .. k : read'[q][i] = read[q][i]
            /\ \A i \in k + 1 .. n :
                 read'[q][i] = IF s[i].cell # 0 THEN mem[s[i].cell].time
                               ELSE EncodeInt24(s[i].at)
        BY <1>6, <2>3, <3>1, <3>2 DEF DeliverStep
      <3>4. k <= n /\ \A i \in 1 .. n : Kept(s[i], i <= k, read[q][i], mem)
        BY <3>1, <3>2, MemoryParts
      <3>5. ASSUME NEW i \in 1 .. n PROVE Kept(s[i], i <= n, read'[q][i], mem)
        <4>1. Kept(s[i], i <= k, read[q][i], mem)
          BY <3>4
        <4>2. CASE i <= k
          <5>1. read'[q][i] = read[q][i]
            BY <3>3, <4>2
          <5>2. QED
            BY <4>1, <4>2, <5>1 DEF Kept
        <4>3. CASE ~(i <= k)
          <5>1. i \in k + 1 .. n
            BY <4>3
          <5>2. read'[q][i] = IF s[i].cell # 0 THEN mem[s[i].cell].time
                              ELSE EncodeInt24(s[i].at)
            BY <3>3, <5>1
          <5>3. QED
            BY <4>1, <5>2 DEF Kept
        <4>4. QED
          BY <4>2, <4>3
      <3>6. QED
        BY <2>1, <3>1, <3>3, <3>5 DEF MemoryOf, Kept
    <2>4. QED
      BY <2>2, <2>3
  <1>7. QED
    BY <1>2, <1>3, <1>4, <1>5, <1>6 DEF AnyStep, ServeStep

-----------------------------------------------------------------------------
(* The players: one step of the source or of one of them.                   *)

\* Nothing of the medium m happens to q, or it is served.
Untouched(q, m) ==
    /\ Aside(q, m)
    /\ ss'[q].queue[m] = ss[q].queue[m] /\ ss'[q].started[m] = ss[q].started[m]
    /\ m = "video" => ss'[q].sendCodecInfo = ss[q].sendCodecInfo
    /\ \A f \in refused'[q] : f[1] = m => f \in refused[q]
    /\ refused[q] \subseteq refused'[q]

IsGiven(q, m) ==
    \E n \in Nat, l \in Nat, at \in Int : \E a, b, f \in 0 .. 1 : \E r \in 0 .. 3 :
        Given(q, m, n, l, at, a, b, f, r)

LEMMA UntouchedOrGiven ==
  ASSUME Types, WalkInv, ClockInv, AnyStep, NEW q \in Players, NEW m \in Media
  PROVE  Untouched(q, m) \/ IsGiven(q, m)
  <1>1. ASSUME sent'[q] = sent[q], refused' = refused, SameSession(ss'[q], ss[q])
        PROVE  Untouched(q, m)
    BY <1>1, SameAside DEF Untouched, SameSession
  <1>2. ASSUME QuietStep \/ CountStep \/ SkipStep \/ DoneStep \/ UNCHANGED vars
        PROVE  Untouched(q, m)
    BY <1>1, <1>2 DEF QuietStep, CountStep, PublisherStep, SkipStep, DoneStep, vars, SameSession
  <1>3. ASSUME NEW c, NEW mm, NEW x, NEW y, NEW z, NEW a \in 0 .. 1, NEW b \in 0 .. 1,
               NEW f \in 0 .. 1, NEW r \in 0 .. 3, Served(c, mm, x, y, z, a, b, f, r)
        PROVE  Untouched(q, m) \/ IsGiven(q, m)
    <2>1. CASE q = Taker /\ m = job.media
      <3>1. PICK p \in Players, v \in Media, n \in Nat, l \in Nat, at \in Int :
              Given(p, v, n, l, at, a, b, f, r)
        BY <1>3, ServedGiven
      <3>2. p = q /\ v = m
        BY <2>1, <3>1 DEF Given
      <3>3. Given(q, m, n, l, at, a, b, f, r)
        BY <3>1, <3>2
      <3>4. QED
        BY <3>3 DEF IsGiven
    <2>2. CASE q # Taker
      <3>1. sent'[q] = sent[q] /\ refused'[q] = refused[q] /\ ss'[q] = ss[q]
        BY <1>3, <2>2 DEF Served, OthersKept
      <3>2. Aside(q, m)
        BY <3>1, SameAside
      <3>3. QED
        BY <3>1, <3>2 DEF Untouched
    <2>3. CASE q = Taker /\ m # job.media
      <3>1. Aside(q, m)
        BY <1>3, <2>3, ServedAside
      <3>2. /\ ss'[q].queue[m] = ss[q].queue[m] /\ ss'[q].started[m] = ss[q].started[m]
            /\ ss'[q].sendCodecInfo = (ss[q].sendCodecInfo \/ a = 1)
        BY <1>3, <2>3 DEF Served, SessionMoved
      <3>3. m = "video" => a # 1
        BY <1>3, <2>3 DEF Served, Chosen
      <3>4. refused'[q] = IF r = 0 THEN refused[q] ELSE refused[q] \cup {<<job.media, job.n>>}
        BY <1>3, <2>3 DEF Served, Refusal
      <3>5. \A f2 \in refused'[q] : f2[1] = m => f2 \in refused[q]
        BY <2>3, <3>4
      <3>6. m = "video" => ss'[q].sendCodecInfo = ss[q].sendCodecInfo
        <4>1. ss[q].sendCodecInfo \in BOOLEAN
          BY DEF Types, Sessions
        <4>2. QED
          BY <3>2, <3>3, <4>1
      <3>7. QED
        BY <3>1, <3>2, <3>4, <3>5, <3>6 DEF Untouched
    <2>4. QED
      BY <2>1, <2>2, <2>3
  <1>4. ASSUME NEW p \in Players, NEW x, ToldStep(p, x) PROVE Untouched(q, m)
    <2>1. Aside(q, m)
      BY <1>4, ToldAside
    <2>2. SameSession(ss'[q], ss[q]) /\ refused' = refused
      BY <1>4 DEF ToldStep, SameSession
    <2>3. QED
      BY <2>1, <2>2 DEF Untouched, SameSession
  <1>5. ASSUME NEW p \in Players, PlayerStep(p) PROVE Untouched(q, m)
    BY <1>1, <1>5 DEF PlayerStep, SameSession
  <1>6. ASSUME NEW p, DeliverStep(p) PROVE Untouched(q, m)
    BY <1>1, <1>6 DEF DeliverStep, SameSession
  <1>7. QED
    BY <1>2, <1>3, <1>4, <1>5, <1>6
       DEF AnyStep, ServeStep, ListedStep, StartedStep, PauseStep, LeaveStep

\* The counters of frames and the clocks of the publisher do not run backwards.
LEMMA SourceOn ==
  ASSUME Types, PaceInv, ClockInv, AnyStep, NEW m \in Media
  PROVE  /\ src.queue[m] <= src'.queue[m]
         /\ src'.first = src.first \/ src.first = -1
         /\ pub.clock[Channel[m]] <= pub'.clock[Channel[m]]
  <1>1. /\ src.queue[m] \in Nat /\ Channel[m] \in Chans /\ pub.clock \in [Chans -> Int]
        /\ src.queue \in [Media -> Nat] /\ pub.clock[Channel[m]] \in Int
    BY Numbered, MediaFacts
  <1>2. ASSUME PublisherStep PROVE pub.clock[Channel[m]] <= pub'.clock[Channel[m]]
    BY <1>1, <1>2, ClockOn
  <1>3. ASSUME QuietStep PROVE src'.queue = src.queue /\ src'.first = src.first
    BY <1>3 DEF QuietStep
  <1>4. ASSUME CountStep
        PROVE  src.queue[m] <= src'.queue[m] /\ (src'.first = src.first \/ src.first = -1)
    <2>1. PICK w \in Media : w = Next1.media
      BY <1>4, NextFacts DEF CountStep, PublisherStep
    <2>2. src'.queue = [src.queue EXCEPT ![w] = src.queue[w] + 1] /\ src.queue[w] \in Nat
      BY <1>1, <1>4, <2>1 DEF CountStep
    <2>3. src'.first = src.first \/ src.first = -1
      BY <1>4 DEF CountStep
    <2>4. QED
      BY <1>1, <2>2, <2>3
  <1>5. CASE QuietStep
    BY <1>1, <1>2, <1>3, <1>5 DEF QuietStep
  <1>6. CASE CountStep
    BY <1>2, <1>4, <1>6 DEF CountStep
  <1>7. CASE ~QuietStep /\ ~CountStep
    BY <1>1, <1>7, PubKept
  <1>8. QED
    BY <1>5, <1>6, <1>7

LEMMA OrderKept ==
  ASSUME Types, Types', WalkInv, PaceInv, ClockInv, AnyStep, NEW q \in Players, NEW m \in Media,
         OrderOf(q, m)
  PROVE  OrderOf(q, m)'
  <1>1. CASE IsGiven(q, m)
    BY <1>1, OrderServed DEF IsGiven
  <1>2. CASE Untouched(q, m)
    <2>1. /\ src.queue[m] <= src'.queue[m]
          /\ src'.first = src.first \/ src.first = -1
          /\ pub.clock[Channel[m]] <= pub'.clock[Channel[m]]
      BY SourceOn
    <2>2. src.first # -1 => src'.first # -1
      BY <2>1
    <2>3. /\ Aside(q, m) /\ ss'[q].queue[m] = ss[q].queue[m]
          /\ \A f \in refused'[q] : f[1] = m => f \in refused[q]
      BY <1>2 DEF Untouched
    <2>4. QED
      BY <2>1, <2>2, <2>3, OrderAside
  <1>3. QED
    BY <1>1, <1>2, UntouchedOrGiven

LEMMA StartKept ==
  ASSUME Types, WalkInv, ClockInv, AnyStep, NEW q \in Players, NEW m \in Media,
         OrderOf(q, m), StartOf(q, m)
  PROVE  StartOf(q, m)'
  <1>1. CASE IsGiven(q, m)
    BY <1>1, StartServed DEF IsGiven
  <1>2. CASE Untouched(q, m)
    BY <1>2, StartAside DEF Untouched
  <1>3. QED
    BY <1>1, <1>2, UntouchedOrGiven

LEMMA VideoKept ==
  ASSUME Types, WalkInv, ClockInv, AnyStep, NEW q \in Players,
         OrderOf(q, "video"), StartOf(q, "video"), VideoOf(q)
  PROVE  VideoOf(q)'
  <1>1. "video" \in Media
    BY DEF Media
  <1>2. CASE IsGiven(q, "video")
    BY <1>1, <1>2, VideoServed DEF IsGiven
  <1>3. CASE Untouched(q, "video")
    <2>1. ASSUME NEW k PROVE <<"video", k>> \in refused'[q] <=> <<"video", k>> \in refused[q]
      <3>1. <<"video", k>>[1] = "video"
        OBVIOUS
      <3>2. QED
        BY <1>3, <3>1 DEF Untouched
    <2>2. Aside(q, "video") /\ ss'[q].sendCodecInfo = ss[q].sendCodecInfo
      BY <1>3 DEF Untouched
    <2>3. QED
      BY <2>1, <2>2, VideoAside
  <1>4. QED
    BY <1>1, <1>2, <1>3, UntouchedOrGiven

LEMMA PlayerKept ==
  ASSUME Types, WalkInv, PaceInv, ClockInv, AskedInv, PlayerInv, AnyStep
  PROVE  PlayerInv'
  <1>1. Types'
    BY TypesKept
  <1>2. \A p \in Players, m \in Media : OrderOf(p, m)'
    BY <1>1, OrderKept DEF PlayerInv
  <1>3. \A p \in Players, m \in Media : StartOf(p, m)'
    BY StartKept DEF PlayerInv
  <1>4. \A p \in Players, m \in Media : WholeOf(p, m)'
    BY <1>1, <1>3, WholeKept DEF PlayerInv
  <1>5. \A p \in Players : VideoOf(p)'
    BY VideoKept DEF PlayerInv, Media
  <1>6. \A p \in Players : MemoryOf(p)'
    BY MemoryKept DEF PlayerInv
  <1>7. QED
    BY <1>2, <1>3, <1>4, <1>5, <1>6 DEF PlayerInv

-----------------------------------------------------------------------------
(* The size that everything is cut to.                                      *)

\* Once somebody plays, the source uses the one size.
LEMMA OneSizeUsed ==
  ASSUME Types, CutInv, OneSize, NEW q \in Players, ss[q].plays > 0, NEW p \in Players
  PROVE  GetRTMPChunkSize = SizeOf(p) /\ MetaCut = SizeOf(p) /\ SizeOf(p) = SizeOf(q)
  <1>1. ChunkSize[q] = ChunkSize[p] /\ CutOf(p) /\ CutOf(q)
    BY DEF OneSize, CutInv
  <1>2. src.chunkSize = ChunkSize[p]
    BY <1>1 DEF CutOf
  <1>3. GetRTMPChunkSize = SizeOf(p)
    BY <1>2 DEF GetRTMPChunkSize, SizeOf
  <1>4. MetaCut = SizeOf(p)
    BY <1>1, <1>3 DEF MetaCut, CutOf
  <1>5. QED
    BY <1>1, <1>3, <1>4 DEF SizeOf

CutRight(it, n) == IF it.kind = "chunksize" THEN it.cut = n ELSE it.cut \in {0, n}

LEMMA CutServed ==
  ASSUME Types, Types', WalkInv, AskedInv, CutInv, OneSize,
         NEW c, NEW mm, NEW x, NEW y, NEW z, NEW a \in 0 .. 1, NEW b \in 0 .. 1,
         NEW f \in 0 .. 1, NEW r \in 0 .. 3, Served(c, mm, x, y, z, a, b, f, r),
         NEW p \in Players
  PROVE  CutOf(p)'
  <1>1. /\ Grown(c, b) /\ Renew(job') /\ SourceMoved(src') /\ Working /\ Working'
        /\ job \in Jobs
    BY ServedFacts
  <1>2. PICK q \in Players : q = Taker
    BY ServedFacts
  <1>3. ss[q].plays > 0
    <2>1. Among(q, list)
      BY <1>1, <1>2, TakerListed DEF Renew
    <2>2. QED
      BY <2>1 DEF AskedInv, AskedOf
  <1>4. PICK n : n = SizeOf(p)
    OBVIOUS
  <1>5. GetRTMPChunkSize = n /\ MetaCut = n /\ CutOf(p)
    BY <1>3, <1>4, OneSizeUsed DEF CutInv
  <1>6. /\ src.metaCut \in {0, n} /\ job.cut \in {0, n}
        /\ \A i \in 1 .. Len(mem) : mem[i].cut \in {0, n}
        /\ \A i \in 1 .. Len(sent[p]) : CutRight(sent[p][i], n)
        /\ ss[p].plays > 0 => src.chunkSize = ChunkSize[p]
    BY <1>1, <1>4, <1>5 DEF CutOf, CutRight
  <1>7. src'.metaCut \in {0, n} /\ src'.chunkSize = src.chunkSize
    BY <1>1, <1>5, <1>6 DEF SourceMoved
  <1>8. job'.cut \in {0, n}
    BY <1>1, <1>5, <1>6 DEF Renew
  <1>9. ASSUME NEW i \in 1 .. Len(mem') PROVE mem'[i].cut \in {0, n}
    <2>1. CASE i > Len(mem)
      BY <1>1, <1>5, <2>1 DEF Grown
    <2>2. CASE ~(i > Len(mem))
      <3>1. i \in 1 .. Len(mem)
        BY <1>1, <2>2 DEF Grown
      <3>2. QED
        BY <1>1, <1>6, <3>1 DEF Grown
    <2>3. QED
      BY <2>1, <2>2
  <1>10. ss'[p].plays = ss[p].plays
    <2>1. CASE p = q
      BY <1>2, <2>1 DEF Served, SessionMoved
    <2>2. CASE p # q
      BY <1>2, <2>2 DEF Served, OthersKept
    <2>3. QED
      BY <2>1, <2>2
  <1>11. \A i \in 1 .. Len(sent'[p]) : CutRight(sent'[p][i], n)
    <2>1. CASE p # q
      BY <1>2, <1>6, <2>1 DEF Served, OthersKept
    <2>2. CASE p = q
      <3>1. PICK s \in Seq(Items), t \in Seq(Items) : s = sent[p] /\ t = sent'[p]
        BY DEF Types
      <3>2. Prolonged(t, s, a, b, f, x, y, z)
        BY <1>2, <2>2, <3>1 DEF Served
      <3>3. \A i \in 1 .. Len(t) : (i \in 1 .. Len(s) /\ t[i] = s[i]) \/ t[i] \in {x, y, z}
        BY <3>2, NewItems
      <3>4. x.kind # "chunksize" /\ y.kind # "chunksize" /\ z.kind # "chunksize"
        <4>1. job.media \in Media
          BY <1>1 DEF Jobs
        <4>2. QED
          BY <4>1, MediaFacts DEF Served
      <3>5. x.cut = MetaCut /\ z.cut = job'.cut
        BY DEF Served
      <3>6. y.cut = mem'[c].cut /\ c \in 1 .. Len(mem')
        BY <1>1 DEF Served, BufferWritten, Grown
      <3>7. CutRight(x, n) /\ CutRight(y, n) /\ CutRight(z, n)
        BY <1>5, <1>8, <1>9, <3>4, <3>5, <3>6 DEF CutRight
      <3>8. QED
        BY <1>6, <3>1, <3>3, <3>7
    <2>3. QED
      BY <2>1, <2>2
  <1>12. QED
    BY <1>4, <1>6, <1>7, <1>8, <1>9, <1>10, <1>11 DEF CutOf, CutRight

LEMMA CutKept ==
  ASSUME Types, WalkInv, AskedInv, CutInv, AnyStep
  PROVE  CutInv'
  <1>1. SUFFICES ASSUME OneSize, NEW p \in Players PROVE CutOf(p)'
    BY DEF CutInv
  <1>2. CutOf(p)
    BY <1>1 DEF CutInv
  <1>3. Types'
    BY TypesKept
  <1>4. ASSUME src'.metaCut = src.metaCut, src'.chunkSize = src.chunkSize, mem' = mem,
               sent' = sent, ss'[p].plays = ss[p].plays, Working' => job'.cut \in {0, SizeOf(p)}
        PROVE  CutOf(p)'
    BY <1>2, <1>4 DEF CutOf
  <1>5. ASSUME QuietStep \/ CountStep PROVE CutOf(p)'
    <2>1. Working' => job'.cut \in {0, SizeOf(p)}
      BY <1>5 DEF QuietStep, CountStep, Working
    <2>2. /\ src'.metaCut = src.metaCut /\ src'.chunkSize = src.chunkSize /\ mem' = mem
          /\ sent' = sent /\ ss' = ss
      BY <1>5 DEF QuietStep, CountStep, PublisherStep
    <2>3. QED
      BY <1>4, <2>1, <2>2
  <1>6. ASSUME SkipStep PROVE CutOf(p)'
    <2>1. Working /\ job'.cut = job.cut
      BY <1>6, JobIsWork DEF SkipStep, Working
    <2>2. job'.cut \in {0, SizeOf(p)}
      BY <1>2, <2>1 DEF CutOf
    <2>3. QED
      BY <1>4, <1>6, <2>2 DEF SkipStep
  <1>7. ASSUME DoneStep PROVE CutOf(p)'
    BY <1>4, <1>7 DEF DoneStep, Working
  <1>8. ASSUME NEW c, NEW mm, NEW x, NEW y, NEW z, NEW a \in 0 .. 1, NEW b \in 0 .. 1,
               NEW f \in 0 .. 1, NEW r \in 0 .. 3, Served(c, mm, x, y, z, a, b, f, r)
        PROVE  CutOf(p)'
    BY <1>1, <1>3, <1>8, CutServed
  <1>9. ASSUME NEW q \in Players, NEW x, ToldStep(q, x) PROVE CutOf(p)'
    <2>1. ChunkSize[q] = ChunkSize[p] /\ SizeOf(q) = SizeOf(p)
      BY <1>1 DEF OneSize, SizeOf
    <2>2. /\ src'.metaCut = src.metaCut /\ src'.chunkSize = ChunkSize[p] /\ mem' = mem
          /\ job' = job /\ x.kind = "chunksize" /\ x.cut = SizeOf(p)
      BY <1>9, <2>1 DEF ToldStep
    <2>3. \A i \in 1 .. Len(sent'[p]) : CutRight(sent'[p][i], SizeOf(p))
      <3>1. CASE p # q
        BY <1>2, <1>9, <3>1 DEF ToldStep, CutOf, CutRight
      <3>2. CASE p = q
        <4>1. PICK s \in Seq(Items), t \in Seq(Items) : s = sent[p] /\ t = sent'[p]
          BY <1>3 DEF Types
        <4>2. Prolonged(t, s, 1, 0, 0, x, x, x)
          BY <1>9, <3>2, <4>1 DEF ToldStep
        <4>3. \A i \in 1 .. Len(t) : (i \in 1 .. Len(s) /\ t[i] = s[i]) \/ t[i] = x
          BY <4>2, NewItems
        <4>4. CutRight(x, SizeOf(p))
          BY <2>2 DEF CutRight
        <4>5. \A i \in 1 .. Len(s) : CutRight(s[i], SizeOf(p))
          BY <1>2, <4>1 DEF CutOf, CutRight
        <4>6. QED
          BY <4>1, <4>3, <4>4, <4>5
      <3>3. QED
        BY <3>1, <3>2
    <2>4. Working' => job'.cut \in {0, SizeOf(p)}
      BY <1>2, <2>2 DEF CutOf, Working
    <2>5. /\ src'.metaCut \in {0, SizeOf(p)}
          /\ \A c \in 1 .. Len(mem') : mem'[c].cut \in {0, SizeOf(p)}
      BY <1>2, <2>2 DEF CutOf
    <2>6. QED
      BY <2>2, <2>3, <2>4, <2>5 DEF CutOf, CutRight
  <1>10. ASSUME NEW q \in Players, PlayerStep(q) PROVE CutOf(p)'
    <2>1. ss'[p].plays = ss[p].plays
      BY <1>10 DEF PlayerStep
    <2>2. src' = src /\ mem' = mem /\ job' = job /\ sent' = sent
      BY <1>10 DEF PlayerStep
    <2>3. QED
      BY <1>2, <2>1, <2>2 DEF CutOf, Working
  <1>11. ASSUME NEW q, DeliverStep(q) \/ UNCHANGED vars PROVE CutOf(p)'
    BY <1>2, <1>11 DEF DeliverStep, vars, CutOf, Working
  <1>12. QED
    BY <1>5, <1>6, <1>7, <1>8, <1>9, <1>10, <1>11
       DEF AnyStep, ServeStep, ListedStep, StartedStep, PauseStep, LeaveStep

-----------------------------------------------------------------------------
(* The inductive invariant.                                                 *)

LEMMA StepKeeps ==
  ASSUME IInv, [Next]_vars
  PROVE  IInv'
  <1>1. AnyStep
    BY StepCases DEF IInv, PlayerInv
  <1>2. /\ Types' /\ BufferInv' /\ WalkInv' /\ PaceInv' /\ ClockInv' /\ AskedInv'
        /\ PlayerInv' /\ CutInv'
    BY <1>1, TypesKept, BufferKept, WalkKept, PaceKept, ClockKept, AskedKept, PlayerKept,
       CutKept DEF IInv
  <1>3. QED
    BY <1>2 DEF IInv

LEMMA InitHolds ==
  ASSUME Init
  PROVE  IInv
  <1>1. PICK o \in Publications :
          pub = [clock |-> [c \in Chans |-> -1], open |-> TRUE,
                 mode |-> o.mode, rest |-> o.rest]
    BY DEF Init, Chans
  <1>2. o.mode \in Modes /\ o.rest \in Seq(Messages)
    BY <1>1, ConstantsAssumption
  <1>3. /\ src = [ver |-> [m \in Media |-> 0], buf |-> [m \in Media |-> 0], metaCut |-> 0,
                  first |-> -1, tmChannel |-> [c \in Chans |-> 0],
                  queue |-> [m \in Media |-> 0], chunkSize |-> 0]
        /\ mem = <<>> /\ job = NoJob /\ list = <<>> /\ unsent = {}
    BY DEF Init, Chans
  <1>4. /\ ss = [p \in Players |->
                   [step |-> "idle", plays |-> 0, playCalled |-> FALSE, playing |-> FALSE,
                    sendCodecInfo |-> FALSE, started |-> [m \in Media |-> FALSE],
                    queue |-> [m \in Media |-> 0], error |-> FALSE]]
        /\ sent = [p \in Players |-> <<>>] /\ read = [p \in Players |-> <<>>]
        /\ refused = [p \in Players |-> {}] /\ paused = [p \in Players |-> 0]
    BY DEF Init
  <1>5. Types
    <2>1. pub \in Publishers
      BY <1>1, <1>2 DEF Publishers
    <2>2. src \in Sources
      BY <1>3 DEF Sources
    <2>3. ss \in [Players -> Sessions]
      BY <1>4 DEF Sessions, Steps
    <2>4. mem \in Seq(Cells) /\ list \in Seq(Players) /\ job \in Jobs \cup {NoJob}
          /\ unsent \in SUBSET Nat
      BY <1>3
    <2>5. /\ sent \in [Players -> Seq(Items)] /\ read \in [Players -> Seq(Int)]
          /\ refused \in [Players -> SUBSET (Media \X Nat)] /\ paused \in [Players -> Nat]
      BY <1>4
    <2>6. QED
      BY <2>1, <2>2, <2>3, <2>4, <2>5 DEF Types
  <1>6. ~Working /\ \A p : ~Among(p, list)
    BY <1>3 DEF Working, Among
  <1>7. BufferInv /\ WalkInv
    BY <1>3, <1>6 DEF BufferInv, WalkInv, Once
  <1>8. PaceInv
    <2>1. pub.rest = o.rest /\ pub.mode = o.mode /\ \A c \in Chans : pub.clock[c] = -1
      BY <1>1
    <2>2. DOMAIN o.rest = 1 .. Len(o.rest)
      BY <1>2, LenProperties
    <2>3. \A i, j \in 1 .. Len(pub.rest) : Adjoin(pub.rest, i, j) =>
            /\ pub.rest[i].time <= pub.rest[j].time
            /\ pub.mode = "relative" => pub.rest[j].time < pub.rest[i].time + Mark
      BY <1>1, <2>1, <2>2, ClockAssumption
    <2>4. ASSUME NEW i \in 1 .. Len(pub.rest)
          PROVE  Channel[pub.rest[i].media] \in Chans /\ pub.rest[i].time \in Nat
      <3>1. pub.rest[i] \in Messages
        BY <1>2, <2>1, ElementOfSeq
      <3>2. pub.rest[i].media \in Media /\ pub.rest[i].time \in Nat
        BY <3>1 DEF Messages, Media
      <3>3. QED
        BY <3>2, MediaFacts
    <2>5. QED
      BY <2>1, <2>3, <2>4 DEF PaceInv
  <1>9. ClockInv
    BY <1>1, <1>3, <1>6 DEF ClockInv
  <1>10. \A p \in Players :
           /\ sent[p] = <<>> /\ read[p] = <<>> /\ Len(sent[p]) = 0 /\ Len(read[p]) = 0
           /\ ss[p].plays = 0 /\ ~ss[p].playing /\ ~ss[p].playCalled /\ ss[p].step = "idle"
           /\ ~ss[p].sendCodecInfo /\ ss[p].started = [m \in Media |-> FALSE]
           /\ ss[p].queue = [m \in Media |-> 0] /\ refused[p] = {}
    BY <1>4
  <1>11. AskedInv
    BY <1>6, <1>10 DEF AskedInv, AskedOf, AllTold
  <1>12. ASSUME NEW p \in Players, NEW m \in Media
         PROVE  OrderOf(p, m) /\ StartOf(p, m) /\ WholeOf(p, m)
    <2>1. OrderOf(p, m)
      <3>1. ss[p].queue[m] = 0 /\ src.queue[m] = 0
        BY <1>3, <1>10
      <3>2. QED
        BY <1>10, <3>1 DEF OrderOf
    <2>2. StartOf(p, m)
      <3>1. ss[p].started[m] = FALSE /\ Len(sent[p]) = 0
        BY <1>10
      <3>2. ~\E h \in 1 .. Len(sent[p]) : Heads(p, h, m)
        BY <3>1
      <3>3. \A i \in 1 .. Len(sent[p]) : FALSE
        BY <3>1
      <3>4. QED
        BY <3>1, <3>2, <3>3 DEF StartOf
    <2>3. WholeOf(p, m)
      BY <1>10 DEF WholeOf, Got
    <2>4. QED
      BY <2>1, <2>2, <2>3
  <1>13. ASSUME NEW p \in Players PROVE VideoOf(p) /\ MemoryOf(p)
    BY <1>10 DEF VideoOf, MemoryOf
  <1>14. ASSUME NEW p \in Players PROVE CutOf(p)
    BY <1>3, <1>6, <1>10 DEF CutOf
  <1>15. QED
    BY <1>5, <1>7, <1>8, <1>9, <1>11, <1>12, <1>13, <1>14 DEF IInv, PlayerInv, CutInv

\* The inductive invariant holds in every state.
THEOREM Invariance == Spec => []IInv
  <1>1. Init => IInv
    BY InitHolds
  <1>2. IInv /\ [Next]_vars => IInv'
    BY StepKeeps
  <1>3. QED
    BY <1>1, <1>2, PTL DEF Spec

-----------------------------------------------------------------------------
(* What follows from it.                                                    *)

LEMMA Indices ==
  ASSUME Types, NEW p \in Players
  PROVE  /\ DOMAIN sent[p] = 1 .. Len(sent[p]) /\ Len(sent[p]) \in Nat
         /\ DOMAIN read[p] = 1 .. Len(read[p]) /\ Len(read[p]) \in Nat
         /\ \A i \in 1 .. Len(sent[p]) : sent[p][i] \in Items
  BY LenProperties, ElementOfSeq DEF Types

LEMMA ListedAmong ==
  ASSUME Types
  PROVE  /\ DOMAIN list = 1 .. Len(list) /\ Len(list) \in Nat
         /\ \A p : p \in Listed <=> Among(p, list)
  <1>1. DOMAIN list = 1 .. Len(list) /\ Len(list) \in Nat
    BY LenProperties DEF Types
  <1>2. QED
    BY <1>1 DEF Listed, Among

\* Nobody twice: as many positions as clients.
LEMMA ListedOnce ==
  ASSUME Types, Once(list)
  PROVE  Len(list) = Cardinality(Listed)
  <1>1. PICK n \in Nat : n = Len(list) /\ DOMAIN list = 1 .. n
    BY ListedAmong
  <1>2. list \in [1 .. n -> Listed]
    BY <1>1 DEF Types, Listed
  <1>3. list \in Bijection(1 .. n, Listed)
    <2>1. \A a, b \in 1 .. n : list[a] = list[b] => a = b
      BY <1>1 DEF Once
    <2>2. \A v \in Listed : \E k \in 1 .. n : list[k] = v
      BY <1>1 DEF Listed
    <2>3. QED
      BY <1>1, <1>2, <2>1, <2>2 DEF Bijection, Injection, Surjection, IsInjective
  <1>4. ExistsBijection(1 .. n, Listed)
    BY <1>3 DEF ExistsBijection
  <1>5. QED
    BY <1>1, <1>4, FS_CountingElements

LEMMA TypeOKHolds ==
  ASSUME IInv
  PROVE  TypeOK
  <1>1. Types /\ BufferInv /\ WalkInv /\ PlayerInv
    BY DEF IInv
  <1>2. pub.mode \in Modes /\ pub.open \in BOOLEAN
    BY <1>1 DEF Types, Publishers
  <1>3. /\ src.ver \in [Media -> Nat] /\ src.queue \in [Media -> Nat]
        /\ src.buf \in [Media -> Nat]
    BY <1>1 DEF Types, Sources
  <1>4. src.buf \in [Media -> 0 .. Len(mem)]
    <2>1. Len(mem) \in Nat
      BY <1>1, LenProperties DEF Types
    <2>2. \A m \in Media : src.buf[m] \in 0 .. Len(mem)
      BY <1>1, <1>3, <2>1 DEF BufferInv
    <2>3. QED
      BY <1>3, <2>2
  <1>5. job = NoJob \/ (job.media \in Media /\ Len(job.todo) <= Len(list))
    BY <1>1 DEF Types, Jobs, WalkInv, Working
  <1>6. Listed \subseteq Players
    <2>1. list \in Seq(Players) /\ \A i \in 1 .. Len(list) : list[i] \in Players
      BY <1>1, ElementOfSeq DEF Types
    <2>2. QED
      BY <1>1, <2>1, ListedAmong DEF Listed
  <1>7. Len(list) = Cardinality(Listed)
    BY <1>1, ListedOnce DEF WalkInv
  <1>8. \A p \in Players :
          /\ Len(read[p]) <= Len(sent[p])
          /\ \A m \in Media : ss[p].queue[m] <= src.queue[m]
    BY <1>1 DEF PlayerInv, MemoryOf, OrderOf
  <1>9. QED
    BY <1>2, <1>3, <1>4, <1>5, <1>6, <1>7, <1>8 DEF TypeOK

LEMMA MissedFacts ==
  ASSUME Types, NEW p \in Players, NEW m \in Media, NEW n
  PROVE  n \in Missed(p, m) <=> <<m, n>> \in refused[p]
  <1>1. refused[p] \in SUBSET (Media \X Nat)
    BY Numbered
  <1>2. ASSUME NEW f \in refused[p], f[1] = m, f[2] = n PROVE <<m, n>> \in refused[p]
    <2>1. PICK v, k : f = <<v, k>>
      BY <1>1
    <2>2. v = m /\ k = n
      BY <1>2, <2>1
    <2>3. QED
      BY <2>1, <2>2
  <1>3. ASSUME <<m, n>> \in refused[p] PROVE n \in Missed(p, m)
    <2>1. PICK f \in refused[p] : f = <<m, n>>
      BY <1>3
    <2>2. f[1] = m /\ f[2] = n
      BY <2>1
    <2>3. QED
      BY <2>2 DEF Missed
  <1>4. QED
    BY <1>2, <1>3 DEF Missed

\* The first frame of a medium, and the header before it.
LEMMA Decodable ==
  ASSUME IInv, NEW p \in Players, NEW i \in DOMAIN sent[p], NEW m \in Media, Kind(p, i) = m
  PROVE  \E h \in 1 .. i - 1 :
           /\ {g \in DOMAIN sent[p] : Kind(p, g) = Headers[m]} = {h}
           /\ m = "video" => \E g \in 1 .. h - 1 : Kind(p, g) = "meta"
           /\ sent[p][i].n = sent[p][h].n => sent[p][i].ver = sent[p][h].ver
           /\ m = "video" /\ (\A f \in h + 1 .. i - 1 : Kind(p, f) # "video")
                => IF sent[p][h].n \in Missed(p, "video") THEN sent[p][i].n > sent[p][h].n
                   ELSE sent[p][i].key /\ sent[p][i].n = sent[p][h].n
  <1>1. Types /\ StartOf(p, m) /\ VideoOf(p)
    BY DEF IInv, PlayerInv
  <1>2. DOMAIN sent[p] = 1 .. Len(sent[p]) /\ i \in 1 .. Len(sent[p]) /\ Of(p, i, m)
    BY <1>1, Indices DEF Kind, Of
  <1>3. PICK h \in 1 .. i - 1 : Heads(p, h, m)
    BY <1>1, <1>2 DEF StartOf
  <1>4. h \in 1 .. Len(sent[p])
    BY <1>1, <1>2, Indices
  <1>5. {g \in DOMAIN sent[p] : Kind(p, g) = Headers[m]} = {h}
    <2>1. \A g \in 1 .. Len(sent[p]) : Heads(p, g, m) => g = h
      BY <1>1, <1>3, <1>4 DEF StartOf
    <2>2. QED
      BY <1>2, <1>3, <1>4, <2>1 DEF Kind, Heads
  <1>6. sent[p][i].n = sent[p][h].n => sent[p][i].ver = sent[p][h].ver
    BY <1>1, <1>2, <1>3, <1>4 DEF StartOf
  <1>7. ASSUME m = "video" PROVE \E g \in 1 .. h - 1 : Kind(p, g) = "meta"
    BY <1>1, <1>3, <1>4, <1>7 DEF VideoOf, Kind
  <1>8. ASSUME m = "video", \A f \in h + 1 .. i - 1 : Kind(p, f) # "video"
        PROVE  IF sent[p][h].n \in Missed(p, "video") THEN sent[p][i].n > sent[p][h].n
               ELSE sent[p][i].key /\ sent[p][i].n = sent[p][h].n
    <2>1. Heads(p, h, "video") /\ Of(p, i, "video") /\ "video" \in Media
      BY <1>2, <1>3, <1>8
    <2>2. \A f \in h + 1 .. i - 1 : ~Of(p, f, "video")
      BY <1>8 DEF Of, Kind
    <2>3. IF <<"video", sent[p][h].n>> \in refused[p] THEN sent[p][i].n > sent[p][h].n
          ELSE sent[p][i].key /\ sent[p][i].n = sent[p][h].n
      BY <1>1, <1>2, <1>4, <2>1, <2>2 DEF VideoOf
    <2>4. QED
      BY <1>1, <2>1, <2>3, MissedFacts
  <1>9. QED
    BY <1>3, <1>5, <1>6, <1>7, <1>8

LEMMA NoneSkippedHolds ==
  ASSUME IInv
  PROVE  NoneSkipped
  <1> DEFINE Frames(p, m) == {i \in DOMAIN sent[p] : Kind(p, i) = m}
             Last(p, m) == IF p \in Listed /\ job = NoJob THEN src.queue[m] ELSE ss[p].queue[m]
             Given2(p, m) == Numbers(p, m) \cup Missed(p, m)
                             \cup (IF m = "audio" THEN unsent ELSE {})
  <1>1. Types /\ PlayerInv
    BY DEF IInv
  <1>2. ASSUME NEW p \in Players, NEW m \in Media
        PROVE  \A i, j \in Frames(p, m) : i < j => sent[p][i].n < sent[p][j].n
    <2>1. \A i \in Frames(p, m) : i \in 1 .. Len(sent[p]) /\ Of(p, i, m)
      BY <1>1, Indices DEF Kind, Of
    <2>2. QED
      BY <1>1, <2>1 DEF PlayerInv, OrderOf
  <1>3. ASSUME NEW p \in Players, NEW m \in Media, paused[p] = 0, NEW n \in Numbers(p, m)
        PROVE  n .. Last(p, m) \subseteq Given2(p, m)
    <2>1. \A k : Got(p, m, k) <=> k \in Numbers(p, m)
      BY <1>1, Indices DEF Got, Numbers, Of, Kind
    <2>2. n \in Nat
      BY <1>1, <1>3, Indices, Numbered DEF Numbers
    <2>3. \A k : Excused(p, m, k) <=>
                   k \in Missed(p, m) \/ k \in (IF m = "audio" THEN unsent ELSE {})
      BY <1>1, MissedFacts DEF Excused
    <2>4. WholeOf(p, m) /\ Got(p, m, n)
      BY <1>1, <1>3, <2>1 DEF PlayerInv
    <2>5. PICK e \in Nat, g \in Nat : e = ss[p].queue[m] /\ g = src.queue[m]
      BY <1>1, Numbered
    <2>6. \A k \in n .. e : Got(p, m, k) \/ Excused(p, m, k)
      BY <1>3, <2>2, <2>4, <2>5 DEF WholeOf
    <2>7. \A k \in n .. e : k \in Given2(p, m)
      BY <2>1, <2>3, <2>6
    <2>8. CASE p \in Listed /\ job = NoJob
      <3>1. Among(p, list) /\ Passed(p, m) = g
        BY <1>1, <2>5, <2>8, ListedAmong DEF Passed, Working
      <3>2. \A k \in e + 1 .. g : m = "audio" /\ k \in unsent
        BY <1>3, <2>2, <2>4, <2>5, <3>1 DEF WholeOf
      <3>3. \A k \in n .. g : k \in n .. e \/ k \in e + 1 .. g
        BY <2>2
      <3>4. Last(p, m) = g
        BY <2>5, <2>8
      <3>5. QED
        BY <2>7, <3>2, <3>3, <3>4
    <2>9. CASE ~(p \in Listed /\ job = NoJob)
      <3>1. Last(p, m) = e
        BY <2>5, <2>9
      <3>2. QED
        BY <2>7, <3>1
    <2>10. QED
      BY <2>8, <2>9
  <1>4. QED
    BY <1>2, <1>3 DEF NoneSkipped

\* What was read of an item in the order of time: the item, or memory that is written again.
LEMMA ReadTrue ==
  ASSUME IInv, NEW p \in Players, NEW i \in 1 .. Len(read[p]),
         sent[p][i].at \in 0 .. Mark - 1,
         sent[p][i].cell = 0 \/ ~(mem[sent[p][i].cell].used > 1)
  PROVE  read[p][i] = sent[p][i].at /\ i \in 1 .. Len(sent[p])
  <1>1. Types /\ MemoryOf(p)
    BY DEF IInv, PlayerInv
  <1>2. Len(read[p]) <= Len(sent[p]) /\ Len(read[p]) \in Nat /\ Len(sent[p]) \in Nat
    BY <1>1, Indices DEF MemoryOf
  <1>3. i \in 1 .. Len(sent[p]) /\ i <= Len(read[p])
    BY <1>2
  <1>4. PICK it \in Items : it = sent[p][i]
    BY <1>1, <1>3, Indices
  <1>5. read[p][i] = EncodeInt24(it.at)
    <2>1. CASE it.cell = 0
      BY <1>1, <1>3, <1>4, <2>1 DEF MemoryOf
    <2>2. CASE it.cell # 0
      <3>1. PICK c \in Nat \ {0} : c = it.cell
        BY <2>2 DEF Items
      <3>2. /\ c <= Len(mem) /\ mem[c].used > 0
            /\ mem[c].used = 1 => read[p][i] = EncodeInt24(it.at)
        BY <1>1, <1>3, <1>4, <3>1 DEF MemoryOf
      <3>3. mem \in Seq(Cells) /\ Len(mem) \in Nat
        BY <1>1, LenProperties DEF Types
      <3>4. mem[c] \in Cells
        BY <3>1, <3>2, <3>3, ElementOfSeq
      <3>5. mem[c].used \in Nat
        BY <3>4 DEF Cells
      <3>6. QED
        BY <1>4, <2>2, <3>1, <3>2, <3>5
    <2>3. QED
      BY <2>1, <2>2
  <1>6. QED
    BY <1>3, <1>4, <1>5, Encoded

LEMMA TimesForwardHolds ==
  ASSUME IInv
  PROVE  TimesForward
  <1>1. Types /\ PlayerInv /\ ClockInv
    BY DEF IInv
  <1>2. \A c \in DOMAIN pub.clock : pub.clock[c] # -1 => src.tmChannel[c] = pub.clock[c]
    BY <1>1 DEF ClockInv, Types, Publishers
  <1>3. ASSUME NEW p \in Players, NEW m \in Media,
               NEW i \in DOMAIN read[p], Kind(p, i) \in {m, Headers[m]},
               sent[p][i].at \in 0 .. Mark - 1,
               NEW j \in DOMAIN read[p], Kind(p, j) \in {m, Headers[m]},
               sent[p][j].at \in 0 .. Mark - 1,
               i < j, ~(sent[p][i].cell # 0 /\ mem[sent[p][i].cell].used > 1)
        PROVE  read[p][i] <= read[p][j]
    <2>1. /\ i \in 1 .. Len(read[p]) /\ j \in 1 .. Len(read[p])
          /\ OrderOf(p, m) /\ StartOf(p, m) /\ MemoryOf(p)
      BY <1>1, Indices DEF PlayerInv
    <2>2. read[p][i] = sent[p][i].at /\ i \in 1 .. Len(sent[p])
      BY <1>3, <2>1, ReadTrue
    <2>3. j \in 1 .. Len(sent[p])
      BY <1>1, <2>1, Indices DEF MemoryOf
    <2>4. OfMedium(p, i, m) /\ OfMedium(p, j, m)
      BY <1>3 DEF OfMedium, Of, Heads, Kind
    <2>5. sent[p][i].at <= sent[p][j].at
      BY <1>3, <2>1, <2>2, <2>3, <2>4 DEF OrderOf
    <2>6. ~Heads(p, j, m)
      <3>1. SUFFICES ASSUME Heads(p, j, m) PROVE FALSE
        OBVIOUS
      <3>2. PICK h \in 1 .. i : Heads(p, h, m)
        <4>1. CASE Of(p, i, m)
          <5>1. PICK h \in 1 .. i - 1 : Heads(p, h, m)
            BY <2>1, <2>2, <4>1 DEF StartOf
          <5>2. h \in 1 .. i
            BY <2>2
          <5>3. QED
            BY <5>1, <5>2
        <4>2. CASE Heads(p, i, m)
          BY <2>2, <4>2
        <4>3. QED
          BY <2>4, <4>1, <4>2 DEF OfMedium
      <3>3. h \in 1 .. Len(sent[p]) /\ h # j
        BY <1>1, <1>3, <2>2, <2>3, <3>2, Indices
      <3>4. QED
        BY <2>1, <2>3, <3>1, <3>2, <3>3 DEF StartOf
    <2>7. sent[p][j].cell = 0
      <3>1. sent[p][j].kind = m
        BY <2>4, <2>6 DEF OfMedium, Of
      <3>2. m \notin {"avcheader", "aacheader"}
        BY DEF Media
      <3>3. QED
        BY <2>1, <2>3, <3>1, <3>2 DEF MemoryOf
    <2>8. read[p][j] = sent[p][j].at
      BY <1>3, <2>1, <2>7, ReadTrue
    <2>9. QED
      BY <2>2, <2>5, <2>8
  <1>4. QED
    BY <1>2, <1>3 DEF TimesForward

LEMMA CutAsToldHolds ==
  ASSUME IInv
  PROVE  CutAsTold
  <1>1. Types /\ AskedInv /\ CutInv
    BY DEF IInv
  <1>2. SUFFICES ASSUME OneSize, NEW p \in Players, NEW i \in DOMAIN sent[p],
                        sent[p][i].kind # "chunksize"
                 PROVE  LET told == {j \in 1 .. i - 1 : Kind(p, j) = "chunksize"}
                            last == CHOOSE j \in told : \A k \in told : k <= j
                        IN told # {} /\ sent[p][i].cut \in {0, sent[p][last].cut}
    BY DEF CutAsTold, OneSize
  <1> DEFINE told == {j \in 1 .. i - 1 : Kind(p, j) = "chunksize"}
             last == CHOOSE j \in told : \A k \in told : k <= j
  <1>3. DOMAIN sent[p] = 1 .. Len(sent[p]) /\ Len(sent[p]) \in Nat /\ i \in 1 .. Len(sent[p])
    BY <1>1, Indices
  <1>4. sent[p][1].kind = "chunksize" /\ AllTold(sent[p])
    <2>1. sent[p] # <<>>
      BY <1>3
    <2>2. QED
      BY <1>1, <2>1 DEF AskedInv, AskedOf
  <1>5. i \in 2 .. Len(sent[p]) + 1
    BY <1>2, <1>3, <1>4
  <1>6. PICK j \in 1 .. i - 1 : Told(sent[p], i, j)
    BY <1>4, <1>5 DEF AllTold
  <1>7. j \in told /\ \A k \in told : k <= j
    BY <1>6 DEF Told, Kind
  <1>8. last \in told
    BY <1>7
  <1>9. last \in 1 .. Len(sent[p]) /\ sent[p][last].kind = "chunksize"
    <2>1. \A k \in told : k \in 1 .. Len(sent[p]) /\ sent[p][k].kind = "chunksize"
      BY <1>3 DEF Kind
    <2> HIDE DEF told, last
    <2>2. QED
      BY <1>8, <2>1
  <1>10. CutOf(p)
    BY <1>1, <1>2 DEF CutInv
  <1>11. sent[p][last].cut = SizeOf(p) /\ sent[p][i].cut \in {0, SizeOf(p)}
    BY <1>2, <1>3, <1>9, <1>10 DEF CutOf
  <1>12. QED
    BY <1>7, <1>11

\* Every publication, configured size and number of players: a client is in the list once,
\* has been given no frame that was not counted, and the header in use exists.
THEOREM TypeCorrect == Spec => []TypeOK
  BY Invariance, TypeOKHolds, PTL

\* Whatever the publisher changes on the way, and whoever plays, pauses or leaves when:
\* what a player is given starts with metadata, the header that its first frame was coded
\* with, and a key frame, unless that frame was refused.
THEOREM StartIsDecodable == Spec => []StartsDecodable
  <1>1. IInv => StartsDecodable
    BY Decodable DEF StartsDecodable
  <1>2. QED
    BY <1>1, Invariance, PTL

\* A player that has not paused misses only what was refused and what is never sent.
THEOREM NoFrameSkipped == Spec => []NoneSkipped
  BY Invariance, NoneSkippedHolds, PTL

\* The clock of the publisher is read as it was written, and the time stamps that a player
\* is sent of one medium do not run backwards, but for a header written again.
THEOREM TimeGoesForward == Spec => []TimesForward
  BY Invariance, TimesForwardHolds, PTL

\* With one configured size, everything is cut as the player was told last.
THEOREM CutIsAsTold == Spec => []CutAsTold
  BY Invariance, CutAsToldHolds, PTL
====
