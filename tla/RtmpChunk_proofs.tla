--------------------------- MODULE RtmpChunk_proofs ---------------------------
(***************************************************************************)
(* Proofs about RtmpChunk, for every set of channels, lengths, times and   *)
(* chunk sizes, every interleaving of a peer's chunks and every cut of the *)
(* reads.                                                                  *)
(*                                                                         *)
(* The stream, all that was ever written, is a path of points with a chunk *)
(* from each to the next.  The invariant says that the sender is at the    *)
(* last point of such a path, and the parser at one of its points or in    *)
(* the chunk behind it: what it has kept is what that point says, and what *)
(* is in m_buf and on the wire is the rest of the stream.  A parser that   *)
(* is one field off has no such place.                                     *)
(***************************************************************************)
EXTENDS RtmpChunk, SequenceTheorems, TLAPS

\* Division by a larger number than the rest gives back the factor and the rest.
LEMMA DivMod ==
  ASSUME NEW a \in Nat, NEW b \in Nat, NEW r \in Nat, r < b
  PROVE  (a * b + r) \div b = a /\ (a * b + r) % b = r
OBVIOUS

\* Quotient and rest of a natural number.
LEMMA Quotient ==
  ASSUME NEW a \in Nat, NEW b \in Nat \ {0}
  PROVE  /\ a \div b \in Nat /\ a % b \in 0 .. b - 1
         /\ a = (a \div b) * b + (a % b)
OBVIOUS

\* A larger factor makes a larger product.
LEMMA TimesMonotone ==
  ASSUME NEW a \in Nat, NEW b \in Nat, NEW q \in Nat, a <= b
  PROVE  a * q <= b * q /\ a * q \in Nat
OBVIOUS

\* The kinds of a timestamp, and headers as the peer means them: what Meaning makes of the
\* parser's.
Kinds == {"unknown", "abs", "relative", "ext"}
Headers == [ch : Nat, time : Nat, kind : Kinds, size : Nat, type : Nat, stream : Nat]

\* The fields of a basic header, whether an extended timestamp follows, and the fields in
\* front of a chunk.
LenBasic(c) == IF c < 64 THEN 1 ELSE IF c < 320 THEN 2 ELSE 3
Marked(fmt, m) == fmt # 3 /\ m.time >= ExtMark
LenHead(fmt, m) == LenBasic(m.ch) + RestOf(fmt) + (IF Marked(fmt, m) THEN 1 ELSE 0)

\* The elements of s \o t are those of s, then those of t.
LEMMA Joined ==
  ASSUME NEW S, NEW s \in Seq(S), NEW t \in Seq(S)
  PROVE  /\ s \o t \in Seq(S) /\ Len(s \o t) = Len(s) + Len(t)
         /\ \A i \in 1 .. Len(s) : (s \o t)[i] = s[i]
         /\ \A i \in 1 .. Len(t) : (s \o t)[Len(s) + i] = t[i]
<1>1. Len(s) \in Nat /\ Len(t) \in Nat
  OBVIOUS
<1>2. \A i \in 1 .. Len(s) : i \in 1 .. Len(s) + Len(t) /\ i <= Len(s)
  BY <1>1
<1>3. ASSUME NEW i \in 1 .. Len(t)
      PROVE  /\ Len(s) + i \in 1 .. Len(s) + Len(t) /\ ~(Len(s) + i <= Len(s))
             /\ (Len(s) + i) - Len(s) = i
  BY <1>1
<1>4. \A i \in 1 .. Len(s) + Len(t) :
          (s \o t)[i] = IF i <= Len(s) THEN s[i] ELSE t[i - Len(s)]
  BY ConcatProperties
<1>5. \A i \in 1 .. Len(s) : (s \o t)[i] = s[i]
  BY <1>2, <1>4, Zenon
<1>6. ASSUME NEW i \in 1 .. Len(t)
      PROVE  (s \o t)[Len(s) + i] = t[i]
  BY <1>3, <1>4, Zenon
<1> QED BY <1>5, <1>6, ConcatProperties

\* The same of fields.
LEMMA JoinedNats ==
  ASSUME NEW s \in Seq(Nat), NEW t \in Seq(Nat)
  PROVE  /\ s \o t \in Seq(Nat) /\ Len(s \o t) = Len(s) + Len(t)
         /\ \A i \in 1 .. Len(s) : (s \o t)[i] = s[i]
         /\ \A i \in 1 .. Len(t) : (s \o t)[Len(s) + i] = t[i]
BY Joined

\* _RtmpPacketSize less one.
LEMMA RestNat ==
  ASSUME NEW fmt \in 0 .. 3
  PROVE  /\ RestOf(fmt) \in Nat
         /\ RestOf(fmt) = IF fmt = 0 THEN 4 ELSE IF fmt = 1 THEN 3 ELSE IF fmt = 2 THEN 1 ELSE 0
BY DEF RestOf

\* The fields of a basic header.
LEMMA BasicFields ==
  ASSUME NEW fmt \in 0 .. 3, NEW c \in Nat, c >= 2
  PROVE  /\ Basic(fmt, c) \in Seq(Nat) /\ Len(Basic(fmt, c)) = LenBasic(c)
         /\ c < 64 => Basic(fmt, c)[1] = fmt * 64 + c
         /\ c >= 64 => /\ Basic(fmt, c)[1] = fmt * 64 + (LenBasic(c) - 2)
                       /\ Basic(fmt, c)[2] = IF c < 320 THEN c - 64 ELSE (c - 64) % 256
         /\ c >= 320 => Basic(fmt, c)[3] = (c - 64) \div 256
<1>1. CASE c < 64
  BY <1>1 DEF Basic, LenBasic
<1>2. CASE c >= 64 /\ c < 320
  BY <1>2 DEF Basic, LenBasic
<1>3. CASE c >= 320
  <2>1. Basic(fmt, c) = <<fmt * 64 + 1, (c - 64) % 256, (c - 64) \div 256>>
    BY <1>3 DEF Basic
  <2>2. (c - 64) % 256 \in Nat /\ (c - 64) \div 256 \in Nat
    BY <1>3
  <2> QED BY <1>3, <2>1, <2>2 DEF LenBasic
<1> QED BY <1>1, <1>2, <1>3

\* The fields in front of a chunk: the basic header, what the format does not leave out, and
\* the extended timestamp where the mark stands.
LEMMA PrefixFields ==
  ASSUME NEW fmt \in 0 .. 3, NEW m \in Headers, m.ch >= 2
  PROVE  LET p == Prefix(fmt, m)
             b == LenBasic(m.ch)
         IN  /\ p \in Seq(Nat) /\ Len(p) = LenHead(fmt, m)
             /\ \A i \in 1 .. b : p[i] = Basic(fmt, m.ch)[i]
             /\ RestOf(fmt) >= 1 => p[b + 1] = IF Marked(fmt, m) THEN ExtMark ELSE m.time
             /\ RestOf(fmt) >= 3 => p[b + 2] = m.size /\ p[b + 3] = m.type
             /\ RestOf(fmt) = 4 => p[b + 4] = m.stream
             /\ Marked(fmt, m) => p[b + RestOf(fmt) + 1] = m.time
<1> DEFINE fs == <<IF Marked(fmt, m) THEN ExtMark ELSE m.time, m.size, m.type, m.stream>>
           b == Basic(fmt, m.ch)
           r == SubSeq(fs, 1, RestOf(fmt))
           x == IF Marked(fmt, m) THEN <<m.time>> ELSE <<>>
<1>1. fs \in Seq(Nat) /\ Len(fs) = 4
  BY DEF Headers, ExtMark
<1>2. b \in Seq(Nat) /\ Len(b) = LenBasic(m.ch) /\ m.ch \in Nat
  BY BasicFields DEF Headers
<1>3. /\ r \in Seq(Nat) /\ Len(r) = RestOf(fmt)
      /\ \A i \in 1 .. RestOf(fmt) : r[i] = fs[i]
  <2>1. RestOf(fmt) \in 0 .. 4
    BY RestNat
  <2>2. \A i \in 1 .. RestOf(fmt) : fs[i] \in Nat
    BY <1>1, <2>1, ElementOfSeq
  <2> HIDE DEF fs
  <2> QED BY <2>1, <2>2, SubSeqProperties
<1>4. /\ x \in Seq(Nat) /\ Len(x) = IF Marked(fmt, m) THEN 1 ELSE 0
      /\ Marked(fmt, m) => x[1] = m.time
  BY DEF Headers
<1>5. Prefix(fmt, m) = b \o r \o x
  BY DEF Prefix, Marked
<1>6. fs[1] = (IF Marked(fmt, m) THEN ExtMark ELSE m.time) /\ fs[2] = m.size
      /\ fs[3] = m.type /\ fs[4] = m.stream
  OBVIOUS
<1> HIDE DEF fs, b, r, x
<1>7. /\ b \o r \in Seq(Nat) /\ Len(b \o r) = Len(b) + Len(r)
      /\ \A i \in 1 .. Len(b) : (b \o r)[i] = b[i]
      /\ \A i \in 1 .. Len(r) : (b \o r)[Len(b) + i] = r[i]
  <2>2. b \in Seq(Nat)
    BY <1>2
  <2>3. r \in Seq(Nat)
    BY <1>3
  <2> QED BY <2>2, <2>3, JoinedNats
<1>8. /\ b \o r \o x \in Seq(Nat) /\ Len(b \o r \o x) = Len(b \o r) + Len(x)
      /\ \A i \in 1 .. Len(b \o r) : (b \o r \o x)[i] = (b \o r)[i]
      /\ \A i \in 1 .. Len(x) : (b \o r \o x)[Len(b \o r) + i] = x[i]
  <2>1. b \o r \in Seq(Nat)
    BY <1>7
  <2>2. x \in Seq(Nat)
    BY <1>4
  <2> QED BY <2>1, <2>2, JoinedNats
<1>9. RestOf(fmt) \in 0 .. 4 /\ LenBasic(m.ch) \in 1 .. 3
  BY RestNat DEF LenBasic
<1>10. Len(Prefix(fmt, m)) = LenHead(fmt, m) /\ Prefix(fmt, m) \in Seq(Nat)
  BY <1>2, <1>3, <1>4, <1>5, <1>7, <1>8 DEF LenHead
<1>11. \A i \in 1 .. LenBasic(m.ch) : Prefix(fmt, m)[i] = b[i]
  BY <1>2, <1>3, <1>5, <1>7, <1>8, <1>9
<1>12. \A i \in 1 .. RestOf(fmt) : Prefix(fmt, m)[LenBasic(m.ch) + i] = fs[i]
  <2> TAKE i \in 1 .. RestOf(fmt)
  <2>1. Len(b) + i \in 1 .. Len(b \o r) /\ i \in 1 .. Len(r)
    BY <1>2, <1>3, <1>7, <1>9
  <2>2. (b \o r \o x)[Len(b) + i] = fs[i]
    BY <1>3, <1>7, <1>8, <2>1
  <2> QED BY <1>2, <1>5, <2>2
<1>13. Marked(fmt, m) => Prefix(fmt, m)[LenBasic(m.ch) + RestOf(fmt) + 1] = m.time
  <2>1. SUFFICES ASSUME Marked(fmt, m)
                 PROVE  Prefix(fmt, m)[LenBasic(m.ch) + RestOf(fmt) + 1] = m.time
    OBVIOUS
  <2>2. 1 \in 1 .. Len(x) /\ x[1] = m.time
    BY <1>4, <2>1
  <2>3. Prefix(fmt, m)[Len(b \o r) + 1] = m.time
    BY <1>5, <1>8, <2>2
  <2> QED BY <1>2, <1>3, <1>7, <1>9, <2>3
<1>14. /\ RestOf(fmt) >= 1 => 1 \in 1 .. RestOf(fmt)
       /\ RestOf(fmt) >= 3 => 2 \in 1 .. RestOf(fmt) /\ 3 \in 1 .. RestOf(fmt)
       /\ RestOf(fmt) = 4 => 4 \in 1 .. RestOf(fmt)
  BY <1>9
<1> QED
  BY <1>6, <1>10, <1>11, <1>12, <1>13, <1>14 DEF b

\* The channels of a connection, the sizes of chunks and the messages of one.
AllChannels == Channels \union {ControlChannel}
Sizes == ChunkSizes \union {DefaultSize}
Messages == [head : Headers, body : Seq(Nat)]

\* A point of the stream between two chunks: the fields before it, the last header of each
\* channel, the units of the message each channel is in, the size in force and the messages
\* that are complete.
Points == [at : Nat, head : [AllChannels -> Headers], open : [AllChannels -> Seq(Nat)],
           size : Sizes, sent : Seq(Messages)]

\* A chunk: its format, the header that it stands for, and its units.
Chunks == [fmt : 0 .. 3, m : Headers, units : Seq(Nat)]

\* A channel has less than the whole of the message it is in, and headers of its own.
InPart(s) == \A c \in AllChannels :
  /\ s.open[c] = <<>> \/ Len(s.open[c]) < s.head[c].size
  /\ IsValid(s.head[c]) => s.head[c].ch = c

\* What a chunk looks like on the wire, what its channel has with it, and whether that is all.
Fields(g) == Prefix(g.fmt, g.m) \o g.units
Data(s, g) == s.open[g.m.ch] \o g.units
Ends(s, g) == Len(Data(s, g)) = g.m.size

\* The kind of timestamp that a header has which follows prev.
KindAfter(fmt, time, prev) ==
  IF fmt = 3 THEN prev.kind ELSE IF time >= ExtMark THEN "ext"
  ELSE IF fmt = 0 THEN "abs" ELSE "relative"

\* Chunk g may be the next at point s: a header leaves out only what the last one of its
\* channel said, the next chunk of a message has format 3, every chunk but the last of a
\* message is of the size in force, and a chunk size message is whole and names a legal size.
Follows(s, g) ==
  /\ g.m.ch \in AllChannels
  /\ IsValid(g.m)
  /\ MayUse(g.fmt, g.m, s.head[g.m.ch])
  /\ g.m.kind = KindAfter(g.fmt, g.m.time, s.head[g.m.ch])
  /\ s.open[g.m.ch] # <<>> => g.fmt = 3 /\ g.m = s.head[g.m.ch]
  /\ Len(g.units) = Lesser(s.size, g.m.size - Len(s.open[g.m.ch]))
  /\ g.m.type = ChunkSizeType => g.m.size = 1 /\ g.units[1] \in ChunkSizes

\* The point behind chunk g.
After(s, g) ==
  [at |-> s.at + LenHead(g.fmt, g.m) + Len(g.units),
   head |-> [s.head EXCEPT ![g.m.ch] = g.m],
   open |-> [s.open EXCEPT ![g.m.ch] = IF Ends(s, g) THEN <<>> ELSE Data(s, g)],
   size |-> IF g.m.type = ChunkSizeType THEN g.units[1] ELSE s.size,
   sent |-> IF Ends(s, g) /\ g.m.size > 0 THEN Append(s.sent, Completed(g.m, Data(s, g)))
            ELSE s.sent]

\* The fields of g are at that place of the stream; t is the point behind g, which lies at s.
Lies(F, at, g) == \A i \in 1 .. Len(Fields(g)) : F[at + i] = Fields(g)[i]
Link(F, s, g, t) == g \in Chunks /\ Follows(s, g) /\ t = After(s, g) /\ Lies(F, s.at, g)

\* Messages are only added, and a channel that had a header has one.
Begins(p, q) == Len(p) <= Len(q) /\ \A i \in 1 .. Len(p) : p[i] = q[i]
Earlier(s, t) ==
  /\ s.at <= t.at
  /\ Begins(s.sent, t.sent)
  /\ \A c \in AllChannels : IsValid(s.head[c]) => IsValid(t.head[c])

\* F holds n chunks and nothing else, T the points between them, G the chunks.
Path(F, T, G, n) ==
  /\ n \in Nat
  /\ \A j \in 0 .. n : T[j] \in Points /\ InPart(T[j]) /\ Earlier(T[j], T[n])
  /\ \A j \in 1 .. n : Link(F, T[j - 1], G[j], T[j])
  /\ T[n].at = Len(F)

\* A channel is a number, and not the 0 or 1 that mark a longer basic header.
LEMMA ChannelsAre ==
  \A c \in AllChannels : c \in Nat /\ c >= 2
<1> TAKE c \in AllChannels
<1>1. CASE c \in Channels
  BY <1>1, ChannelsAssumption DEF ControlChannel
<1>2. CASE c = 2
  BY <1>2
<1> QED BY <1>1, <1>2 DEF AllChannels, ControlChannel

\* A chunk size is positive.
LEMMA SizesAre == Sizes \subseteq Nat \ {0} /\ ChunkSizes \subseteq Sizes
BY SizesAssumption DEF Sizes

\* The fields of a chunk one by one.
LEMMA FieldsAre ==
  ASSUME NEW g \in Chunks, g.m.ch \in AllChannels
  PROVE  /\ Prefix(g.fmt, g.m) \in Seq(Nat) /\ g.units \in Seq(Nat)
         /\ Len(Prefix(g.fmt, g.m)) = LenHead(g.fmt, g.m)
         /\ LenHead(g.fmt, g.m) \in Nat \ {0}
         /\ Fields(g) \in Seq(Nat)
         /\ Len(Fields(g)) = LenHead(g.fmt, g.m) + Len(g.units)
         /\ \A i \in 1 .. LenHead(g.fmt, g.m) : Fields(g)[i] = Prefix(g.fmt, g.m)[i]
         /\ \A i \in 1 .. Len(g.units) : Fields(g)[LenHead(g.fmt, g.m) + i] = g.units[i]
<1>1. g.fmt \in 0 .. 3 /\ g.m \in Headers /\ g.units \in Seq(Nat) /\ g.m.ch >= 2
  BY ChannelsAre DEF Chunks
<1>2. Prefix(g.fmt, g.m) \in Seq(Nat) /\ Len(Prefix(g.fmt, g.m)) = LenHead(g.fmt, g.m)
  BY <1>1, PrefixFields
<1>3. LenHead(g.fmt, g.m) \in Nat \ {0}
  <2>1. RestOf(g.fmt) \in Nat
    BY <1>1, RestNat
  <2> QED BY <2>1 DEF LenHead, LenBasic
<1>4. Fields(g) = Prefix(g.fmt, g.m) \o g.units
  BY DEF Fields
<1> DEFINE p == Prefix(g.fmt, g.m)
           u == g.units
<1>5. p \in Seq(Nat)
  BY <1>2
<1>6. u \in Seq(Nat)
  BY <1>1
<1>7. /\ p \o u \in Seq(Nat) /\ Len(p \o u) = Len(p) + Len(u)
      /\ \A i \in 1 .. Len(p) : (p \o u)[i] = p[i]
      /\ \A i \in 1 .. Len(u) : (p \o u)[Len(p) + i] = u[i]
  <2> HIDE DEF p, u
  <2> QED BY <1>5, <1>6, JoinedNats
<1> QED BY <1>2, <1>3, <1>4, <1>6, <1>7, Zenon

\* What a channel has of its message with one more chunk; a chunk size message is one unit.
LEMMA DataIs ==
  ASSUME NEW s \in Points, InPart(s), NEW g \in Chunks, Follows(s, g)
  PROVE  /\ Data(s, g) \in Seq(Nat)
         /\ Len(Data(s, g)) = Len(s.open[g.m.ch]) + Len(g.units)
         /\ \A i \in 1 .. Len(s.open[g.m.ch]) : Data(s, g)[i] = s.open[g.m.ch][i]
         /\ \A i \in 1 .. Len(g.units) : Data(s, g)[Len(s.open[g.m.ch]) + i] = g.units[i]
         /\ Len(Data(s, g)) <= g.m.size
         /\ Ends(s, g) \/ Len(Data(s, g)) < g.m.size
         /\ g.m.size > 0 => Len(g.units) > 0 /\ Data(s, g) # <<>>
         /\ g.m.type = ChunkSizeType => /\ s.open[g.m.ch] = <<>> /\ Ends(s, g)
                                        /\ Data(s, g)[1] = g.units[1]
<1> DEFINE o == s.open[g.m.ch]
           u == g.units
<1>1. o \in Seq(Nat) /\ u \in Seq(Nat) /\ Len(o) \in Nat /\ Len(u) \in Nat
  BY DEF Points, Chunks, Follows
<1>2. o \o u \in Seq(Nat) /\ Len(o \o u) = Len(o) + Len(u)
      /\ (\A i \in 1 .. Len(o) : (o \o u)[i] = o[i])
      /\ (\A i \in 1 .. Len(u) : (o \o u)[Len(o) + i] = u[i])
  BY <1>1, JoinedNats
<1>3. g.m.size \in Nat /\ s.size \in Nat \ {0}
  BY SizesAre DEF Chunks, Headers, Points
<1>4. Len(o) = 0 \/ (Len(o) < g.m.size /\ Len(o) > 0)
  <2>1. CASE o = <<>>
    BY <2>1
  <2>2. CASE o # <<>>
    BY <1>1, <2>2 DEF Follows, InPart
  <2> QED BY <2>1, <2>2
<1>5. Len(u) = IF s.size < g.m.size - Len(o) THEN s.size ELSE g.m.size - Len(o)
  BY DEF Follows, Lesser
<1>6. Data(s, g) = o \o u
  BY DEF Data
<1>11. g.m.type = ChunkSizeType => g.m.size = 1
  BY DEF Follows
<1> HIDE DEF o, u
<1>7. Len(o) + Len(u) <= g.m.size /\ (g.m.size > 0 => Len(u) > 0)
  BY <1>1, <1>3, <1>4, <1>5
<1>8. g.m.type = ChunkSizeType => Len(o) = 0 /\ Len(u) = 1 /\ g.m.size = 1
  BY <1>1, <1>3, <1>4, <1>5, <1>11
<1>9. g.m.type = ChunkSizeType => o = <<>> /\ (o \o u)[1] = u[1]
  <2>1. SUFFICES ASSUME g.m.type = ChunkSizeType
                 PROVE  o = <<>> /\ (o \o u)[1] = u[1]
    OBVIOUS
  <2>2. Len(o) = 0 /\ Len(u) = 1
    BY <1>8, <2>1
  <2>3. o = <<>>
    BY <1>1, <2>2, EmptySeq
  <2>4. (o \o u)[Len(o) + 1] = u[1]
    BY <1>2, <2>2
  <2> QED BY <2>2, <2>3, <2>4
<1>10. g.m.size > 0 => o \o u # <<>>
  <2>1. g.m.size > 0 => Len(o \o u) > 0
    BY <1>1, <1>2, <1>7
  <2> QED BY <2>1
<1>12. Len(o \o u) = g.m.size \/ Len(o \o u) < g.m.size
  <2>1. \A a, b \in Nat : a <= b => a = b \/ a < b
    OBVIOUS
  <2>2. Len(o \o u) \in Nat /\ Len(o \o u) <= g.m.size
    BY <1>1, <1>2, <1>7
  <2> QED BY <1>3, <2>1, <2>2
<1>13. g.m.type = ChunkSizeType => Len(o \o u) = g.m.size
  BY <1>1, <1>2, <1>3, <1>8
<1>14. Ends(s, g) <=> Len(o \o u) = g.m.size
  BY <1>6 DEF Ends
<1> QED BY <1>2, <1>6, <1>7, <1>9, <1>10, <1>12, <1>13, <1>14 DEF o, u

\* Begins is transitive.
LEMMA BeginsTransitive ==
  ASSUME NEW p \in Seq(Messages), NEW q \in Seq(Messages), NEW r \in Seq(Messages),
         Begins(p, q), Begins(q, r)
  PROVE  Begins(p, r)
BY DEF Begins

\* A message more.
LEMMA BeginsAppend ==
  ASSUME NEW p \in Seq(Messages), NEW e \in Messages
  PROVE  Begins(p, p) /\ Begins(p, Append(p, e)) /\ Append(p, e) \in Seq(Messages)
BY DEF Begins

\* What begins a sequence is a prefix of it.
LEMMA BeginsIsPrefix ==
  ASSUME NEW p \in Seq(Messages), NEW q \in Seq(Messages), Begins(p, q)
  PROVE  IsPrefix(p, q)
<1>1. Len(p) \in Nat /\ Len(q) \in Nat /\ Len(p) <= Len(q)
  BY DEF Begins
<1>2. \A i \in 1 .. Len(p) : p[i] \in Messages /\ q[i] = p[i]
  BY <1>1 DEF Begins
<1>3. /\ SubSeq(p, 1, Len(p)) \in Seq(Messages) /\ Len(SubSeq(p, 1, Len(p))) = Len(p)
      /\ \A i \in 1 .. Len(p) : SubSeq(p, 1, Len(p))[i] = p[i]
  BY <1>1, <1>2, SubSeqProperties
<1>4. /\ SubSeq(q, 1, Len(p)) \in Seq(Messages) /\ Len(SubSeq(q, 1, Len(p))) = Len(p)
      /\ \A i \in 1 .. Len(p) : SubSeq(q, 1, Len(p))[i] = q[i]
  BY <1>1, <1>2, SubSeqProperties
<1>5. SubSeq(p, 1, Len(p)) = SubSeq(q, 1, Len(p))
  BY <1>2, <1>3, <1>4, SeqEqual
<1> QED BY <1>1, <1>5 DEF IsPrefix

\* Earlier is transitive.
LEMMA EarlierTransitive ==
  ASSUME NEW s \in Points, NEW t \in Points, NEW u \in Points, Earlier(s, t), Earlier(t, u)
  PROVE  Earlier(s, u)
<1>1. s.sent \in Seq(Messages) /\ t.sent \in Seq(Messages) /\ u.sent \in Seq(Messages)
      /\ s.at \in Nat /\ t.at \in Nat /\ u.at \in Nat
  BY DEF Points
<1>2. Begins(s.sent, u.sent)
  BY <1>1, BeginsTransitive DEF Earlier
<1> QED BY <1>1, <1>2 DEF Earlier

\* Behind a chunk that may follow is a point, further on.
LEMMA AfterIsPoint ==
  ASSUME NEW s \in Points, InPart(s), NEW g \in Chunks, Follows(s, g)
  PROVE  /\ After(s, g) \in Points /\ InPart(After(s, g))
         /\ Earlier(s, After(s, g)) /\ s.at < After(s, g).at
<1> DEFINE c == g.m.ch
           t == After(s, g)
<1>1. c \in AllChannels /\ g.m \in Headers /\ IsValid(g.m) /\ g.m.ch \in AllChannels
  BY DEF Follows, Chunks
<1>2. LenHead(g.fmt, g.m) \in Nat \ {0} /\ Len(g.units) \in Nat /\ s.at \in Nat
  <2>1. g.m.ch \in AllChannels
    BY <1>1
  <2>2. LenHead(g.fmt, g.m) \in Nat \ {0}
    BY <2>1, FieldsAre
  <2> QED BY <2>2 DEF Points, Chunks
<1>3. t.at \in Nat /\ s.at < t.at
  BY <1>2 DEF After
<1>4. t.head \in [AllChannels -> Headers] /\ t.head[c] = g.m
      /\ \A d \in AllChannels \ {c} : t.head[d] = s.head[d]
  BY <1>1 DEF After, Points
<1>5. t.open \in [AllChannels -> Seq(Nat)]
      /\ t.open[c] = (IF Ends(s, g) THEN <<>> ELSE Data(s, g))
      /\ \A d \in AllChannels \ {c} : t.open[d] = s.open[d]
  <2>3. Data(s, g) \in Seq(Nat)
    BY DataIs
  <2>1. (IF Ends(s, g) THEN <<>> ELSE Data(s, g)) \in Seq(Nat)
    BY <2>3
  <2>2. s.open \in [AllChannels -> Seq(Nat)]
    BY DEF Points
  <2> QED BY <1>1, <2>1, <2>2 DEF After
<1>6. t.size \in Sizes
  BY SizesAre DEF After, Points, Follows
<1>7. t.sent \in Seq(Messages) /\ Begins(s.sent, t.sent)
  <2>1. Completed(g.m, Data(s, g)) \in Messages
    BY <1>1, DataIs DEF Completed, Messages
  <2>2. s.sent \in Seq(Messages)
    BY DEF Points
  <2> QED BY <2>1, <2>2, BeginsAppend DEF After
<1>8. t \in Points
  BY <1>3, <1>4, <1>5, <1>6, <1>7 DEF After, Points
<1> HIDE DEF c, t
<1>9. InPart(t)
  <2>1. t.open[c] = <<>> \/ Len(t.open[c]) < t.head[c].size
    BY <1>4, <1>5, DataIs
  <2>2. t.head[c].ch = c
    BY <1>4 DEF c
  <2> QED BY <1>1, <1>4, <1>5, <2>1, <2>2 DEF InPart
<1>10. Earlier(s, t)
  <2>1. \A d \in AllChannels : IsValid(s.head[d]) => IsValid(t.head[d])
    BY <1>1, <1>4
  <2> QED BY <1>2, <1>3, <1>7, <2>1 DEF Earlier
<1> QED BY <1>3, <1>8, <1>9, <1>10 DEF t

\* One path and, from its end, another.
Joint(T, n, U) == [i \in Nat |-> IF i <= n THEN T[i] ELSE U[i - n]]

\* A chunk lies where it was when the stream grows.
LEMMA LiesStill ==
  ASSUME NEW F \in Seq(Nat), NEW X \in Seq(Nat), NEW at \in Nat, NEW g \in Chunks,
         g.m.ch \in AllChannels, Lies(F, at, g), at + Len(Fields(g)) <= Len(F)
  PROVE  Lies(F \o X, at, g)
<1>1. Fields(g) \in Seq(Nat) /\ Len(Fields(g)) \in Nat
  BY FieldsAre
<1>2. \A i \in 1 .. Len(Fields(g)) : at + i \in 1 .. Len(F)
  BY <1>1
<1>3. \A i \in 1 .. Len(F) : (F \o X)[i] = F[i]
  BY JoinedNats
<1> QED BY <1>2, <1>3 DEF Lies

\* So do the points at its ends.
LEMMA LinkStill ==
  ASSUME NEW F \in Seq(Nat), NEW X \in Seq(Nat), NEW s \in Points, InPart(s), NEW g, NEW t,
         Link(F, s, g, t), t.at <= Len(F)
  PROVE  Link(F \o X, s, g, t)
<1>1. g \in Chunks /\ Follows(s, g) /\ g.m.ch \in AllChannels
  BY DEF Link, Follows
<1>2. t.at = s.at + LenHead(g.fmt, g.m) + Len(g.units)
  BY DEF Link, After
<1>3. Len(Fields(g)) = LenHead(g.fmt, g.m) + Len(g.units) /\ LenHead(g.fmt, g.m) \in Nat
      /\ Len(g.units) \in Nat /\ s.at \in Nat
  BY <1>1, FieldsAre DEF Points
<1>4. s.at + Len(Fields(g)) <= Len(F)
  BY <1>2, <1>3
<1>5. Lies(F \o X, s.at, g)
  BY <1>1, <1>3, <1>4, LiesStill DEF Link
<1> QED BY <1>1, <1>5 DEF Link

\* A path goes on with what is written at its end.
LEMMA Extend ==
  ASSUME NEW F \in Seq(Nat), NEW X \in Seq(Nat), NEW T, NEW G, NEW n, NEW U, NEW V, NEW k,
         Path(F, T, G, n), Path(F \o X, U, V, k), U[0] = T[n]
  PROVE  Path(F \o X, Joint(T, n, U), Joint(G, n, V), n + k)
<1> DEFINE J == Joint(T, n, U)
           H == Joint(G, n, V)
<1>1. n \in Nat /\ k \in Nat /\ n + k \in Nat
  BY DEF Path
<1>2. \A i \in 0 .. n : J[i] = T[i] /\ H[i] = G[i]
  BY <1>1 DEF Joint
<1>3. ASSUME NEW i \in 0 .. n + k, i > n
      PROVE  /\ J[i] = U[i - n] /\ H[i] = V[i - n] /\ i - n \in 1 .. k /\ i - n \in 0 .. k
             /\ i - 1 \in 0 .. n + k
  BY <1>1, <1>3 DEF Joint
<1>4. J[n] = U[0]
  BY <1>1, <1>2
<1> HIDE DEF J, H
<1>5. ASSUME NEW i \in 0 .. k
      PROVE  J[n + i] = U[i]
  <2>1. CASE i = 0
    BY <1>1, <1>4, <2>1
  <2>2. CASE i > 0
    <3>1. n + i \in 0 .. n + k /\ n + i > n /\ (n + i) - n = i
      BY <1>1, <2>2
    <3> QED BY <1>3, <3>1
  <2> QED BY <2>1, <2>2
<1>6. J[n + k] = U[k]
  BY <1>1, <1>5
<1>7. T[n] \in Points /\ U[k] \in Points /\ Earlier(T[n], U[k])
  <2>1. 0 \in 0 .. k /\ k \in 0 .. k /\ n \in 0 .. n
    BY <1>1
  <2> QED BY <2>1 DEF Path
<1>8. ASSUME NEW j \in 0 .. n + k
      PROVE  J[j] \in Points /\ InPart(J[j]) /\ Earlier(J[j], J[n + k])
  <2>1. CASE j <= n
    <3>1. j \in 0 .. n
      BY <1>1, <2>1
    <3>2. J[j] = T[j] /\ T[j] \in Points /\ InPart(T[j]) /\ Earlier(T[j], T[n])
      BY <1>2, <3>1 DEF Path
    <3>3. Earlier(T[j], U[k])
      BY <1>7, <3>2, EarlierTransitive
    <3> QED BY <1>6, <3>2, <3>3
  <2>2. CASE j > n
    <3>1. J[j] = U[j - n] /\ j - n \in 0 .. k
      BY <1>3, <2>2
    <3> QED BY <1>6, <3>1 DEF Path
  <2> QED BY <1>1, <2>1, <2>2
<1>9. ASSUME NEW j \in 1 .. n + k
      PROVE  Link(F \o X, J[j - 1], H[j], J[j])
  <2>1. CASE j <= n
    <3>1. j \in 0 .. n /\ j - 1 \in 0 .. n /\ j \in 1 .. n
      BY <1>1, <2>1
    <3>2. J[j] = T[j] /\ J[j - 1] = T[j - 1] /\ H[j] = G[j]
      BY <1>2, <3>1
    <3>3. Link(F, T[j - 1], G[j], T[j]) /\ T[j - 1] \in Points /\ InPart(T[j - 1])
      BY <3>1 DEF Path
    <3>4. T[j].at <= Len(F)
      BY <3>1 DEF Path, Earlier
    <3>5. Link(F \o X, T[j - 1], G[j], T[j])
      BY <3>3, <3>4, LinkStill
    <3> QED BY <3>2, <3>5
  <2>2. CASE j > n
    <3>1. /\ j \in 0 .. n + k /\ j - n \in 1 .. k /\ (j - n) - 1 \in 0 .. k
          /\ n + ((j - n) - 1) = j - 1
      BY <1>1, <2>2
    <3>2. J[j] = U[j - n] /\ H[j] = V[j - n]
      BY <1>3, <2>2, <3>1
    <3>3. J[j - 1] = U[(j - n) - 1]
      BY <1>5, <3>1
    <3>4. Link(F \o X, U[(j - n) - 1], V[j - n], U[j - n])
      BY <3>1 DEF Path
    <3> QED BY <3>2, <3>3, <3>4
  <2> QED BY <1>1, <2>1, <2>2
<1>10. J[n + k].at = Len(F \o X)
  BY <1>6 DEF Path
<1>11. Path(F \o X, J, H, n + k)
  BY <1>1, <1>8, <1>9, <1>10 DEF Path
<1> QED BY <1>11 DEF J, H

\* The path of a single chunk.
One(s, t) == [i \in 0 .. 1 |-> IF i = 0 THEN s ELSE t]

\* A chunk that may follow makes the path longer.
LEMMA OneChunk ==
  ASSUME NEW F \in Seq(Nat), NEW s \in Points, InPart(s), NEW g \in Chunks, Follows(s, g),
         s.at = Len(F)
  PROVE  Path(F \o Fields(g), One(s, After(s, g)), [i \in 1 .. 1 |-> g], 1)
<1> DEFINE X == Fields(g)
           t == After(s, g)
           U == One(s, t)
           V == [i \in 1 .. 1 |-> g]
<1>1. g.m.ch \in AllChannels
  BY DEF Follows
<1>2. X \in Seq(Nat) /\ Len(X) = LenHead(g.fmt, g.m) + Len(g.units) /\ Len(X) \in Nat
      /\ LenHead(g.fmt, g.m) \in Nat /\ Len(g.units) \in Nat
  BY <1>1, FieldsAre DEF Chunks
<1>3. t.at = s.at + LenHead(g.fmt, g.m) + Len(g.units)
  BY DEF After
<1>4. t \in Points /\ InPart(t) /\ Earlier(s, t) /\ s.at \in Nat
  BY AfterIsPoint DEF Points
<1>5. F \o X \in Seq(Nat) /\ Len(F \o X) = Len(F) + Len(X)
      /\ \A i \in 1 .. Len(X) : (F \o X)[Len(F) + i] = X[i]
  <2> HIDE DEF X
  <2> QED BY <1>2, JoinedNats
<1>6. Lies(F \o X, s.at, g)
  BY <1>5 DEF Lies
<1>7. Link(F \o X, s, g, t)
  BY <1>6 DEF Link
<1>8. U[0] = s /\ U[1] = t /\ V[1] = g
  BY DEF One
<1> HIDE DEF t, U, V, X
<1>9. Earlier(t, t)
  BY <1>4, BeginsAppend DEF Earlier, Points, Begins
<1>10. t.at = Len(F \o X)
  BY <1>2, <1>3, <1>4, <1>5
<1>11. ASSUME NEW j \in 0 .. 1
       PROVE  U[j] \in Points /\ InPart(U[j]) /\ Earlier(U[j], U[1])
  <2>1. j = 0 \/ j = 1
    OBVIOUS
  <2> QED BY <1>4, <1>8, <1>9, <2>1
<1>12. ASSUME NEW j \in 1 .. 1
       PROVE  Link(F \o X, U[j - 1], V[j], U[j])
  <2>1. j = 1 /\ j - 1 = 0
    OBVIOUS
  <2> QED BY <1>7, <1>8, <2>1
<1>13. Path(F \o X, U, V, 1)
  BY <1>8, <1>10, <1>11, <1>12 DEF Path
<1> QED BY <1>13 DEF X, t, U, V

\* The stream begins with the handshake, and is a path from there.
Start == [at |-> 3, head |-> [c \in AllChannels |-> Meaning(Cleared)],
          open |-> [c \in AllChannels |-> <<>>], size |-> DefaultSize, sent |-> <<>>]
Trace(F, T, G, n) == F \in Seq(Nat) /\ T[0] = Start /\ Path(F, T, G, n)

\* Behind the d-th field the stream goes on with what is in m_buf, and then on the wire.
Feed(F, d) ==
  /\ d \in Nat /\ buf \in Seq(Nat) /\ wire \in Seq(Nat)
  /\ d + Len(buf) + Len(wire) = Len(F)
  /\ \A i \in 1 .. Len(buf) : buf[i] = F[d + i]
  /\ \A i \in 1 .. Len(wire) : wire[i] = F[d + Len(buf) + i]

\* The buffer of a channel at a point, and a parser that has what the point says.
PacketAt(s, c) == IF s.open[c] = <<>> THEN NoPacket
                  ELSE [lenTrans |-> s.head[c].size, data |-> s.open[c]]
Agrees(s) ==
  /\ header \in HeaderType /\ prevHeaders \in [Slots -> HeaderType]
  /\ pktIoBufs = [c \in Slots |-> PacketAt(s, c)]
  /\ chunkSizeIn = s.size
  /\ got = s.sent
  /\ \A c \in AllChannels \ Slots : s.head[c].size = 0

\* prevHeaders holds the last header of each channel.
Knows(head) == \A c \in Slots : Meaning(prevHeaders[c]) = head[c]

\* Where in the stream the parser is, by its state: in the handshake, between two chunks, or
\* in chunk g behind point s with the fields of its header that it has read.
Handshaking(s, d) == /\ s = Start /\ Knows(s.head)
                     /\ \/ state = "RecvHandeshake0" /\ d = 0
                        \/ state = "RecvHandeshake1" /\ d = 2
Between(s, d) == state = "NewPacket" /\ Knows(s.head) /\ d = s.at
Fresh(fmt, c, ext) == [Cleared EXCEPT !.fmt = fmt, !.ch = c, !.ext = ext]
InExt(s, g, d) ==
  /\ state = "ExtHeader" /\ Knows(s.head)
  /\ d = s.at + 1 /\ g.m.ch >= 64
  /\ header = Fresh(g.fmt, header.ch, LenBasic(g.m.ch) - 1)
InRest(s, g, d) ==
  /\ state = "PartHeader" /\ Knows(s.head)
  /\ d = s.at + LenBasic(g.m.ch)
  /\ header = Fresh(g.fmt, g.m.ch, header.ext)
InTimmer(s, g, d) ==
  /\ state = "ExtTimmer" /\ Knows(s.head)
  /\ d = s.at + LenBasic(g.m.ch) + RestOf(g.fmt) /\ Marked(g.fmt, g.m)
  /\ header.ch = g.m.ch /\ header.size = g.m.size
  /\ g.m.ch \in Slots => /\ header.type = g.m.type /\ header.stream = g.m.stream
                         /\ g.m.kind = "ext"
InData(s, g, d) ==
  /\ state = "AmfData" /\ Knows(After(s, g).head)
  /\ d = s.at + LenHead(g.fmt, g.m)
  /\ header.ch = g.m.ch /\ header.size = g.m.size
  /\ g.m.ch \in Slots => Meaning(header) = g.m

\* Chunk g lies ahead of point s.
Ahead(F, s, g) == /\ F \in Seq(Nat) /\ s \in Points /\ InPart(s)
                  /\ Link(F, s, g, After(s, g)) /\ After(s, g).at <= Len(F)

\* The channels that have an entry are those below _RTMP_MAX_CHANNELS.
LEMMA SlotsAre == /\ Slots \subseteq AllChannels
                  /\ \A c \in AllChannels : c \in Slots <=> c < MaxChannels
BY DEF Slots, AllChannels

\* What is known of a chunk ahead.
LEMMA AheadIs ==
  ASSUME NEW F, NEW s, NEW g, Ahead(F, s, g)
  PROVE  /\ F \in Seq(Nat) /\ s \in Points /\ InPart(s) /\ g \in Chunks /\ Follows(s, g)
         /\ Lies(F, s.at, g) /\ g.m.ch \in AllChannels /\ g.m \in Headers /\ g.fmt \in 0 .. 3
         /\ g.m.ch \in Nat /\ g.m.ch >= 2 /\ s.at \in Nat
         /\ LenBasic(g.m.ch) \in 1 .. 3 /\ RestOf(g.fmt) \in 0 .. 4
         /\ Len(g.units) \in Nat
         /\ After(s, g).at = s.at + LenHead(g.fmt, g.m) + Len(g.units)
<1>1. g \in Chunks /\ Follows(s, g) /\ Lies(F, s.at, g) /\ s \in Points /\ F \in Seq(Nat)
      /\ InPart(s)
  BY DEF Ahead, Link
<1>2. g.m.ch \in AllChannels /\ g.m \in Headers /\ g.fmt \in 0 .. 3
  BY <1>1 DEF Follows, Chunks
<1>3. g.m.ch \in Nat /\ g.m.ch >= 2
  BY <1>2, ChannelsAre
<1>4. LenBasic(g.m.ch) \in 1 .. 3
  BY DEF LenBasic
<1>5. RestOf(g.fmt) \in 0 .. 4
  BY <1>2, RestNat
<1>6. s.at \in Nat /\ Len(g.units) \in Nat
  BY <1>1 DEF Points, Chunks
<1> QED BY <1>1, <1>2, <1>3, <1>4, <1>5, <1>6 DEF After

\* The fields in front of its units.
LEMMA HeadLength ==
  ASSUME NEW F, NEW s, NEW g, Ahead(F, s, g)
  PROVE  /\ LenHead(g.fmt, g.m) \in Nat
         /\ LenHead(g.fmt, g.m) >= LenBasic(g.m.ch) + RestOf(g.fmt)
         /\ LenHead(g.fmt, g.m) >= LenBasic(g.m.ch) /\ LenHead(g.fmt, g.m) >= 1
         /\ Marked(g.fmt, g.m) => LenHead(g.fmt, g.m) = LenBasic(g.m.ch) + RestOf(g.fmt) + 1
         /\ ~Marked(g.fmt, g.m) => LenHead(g.fmt, g.m) = LenBasic(g.m.ch) + RestOf(g.fmt)
<1>1. LenBasic(g.m.ch) \in Nat /\ RestOf(g.fmt) \in Nat /\ LenBasic(g.m.ch) >= 1
  BY AheadIs
<1> QED BY <1>1 DEF LenHead

\* Its header, field by field.
LEMMA HeadFields ==
  ASSUME NEW F, NEW s, NEW g, Ahead(F, s, g),
         NEW p, p = Prefix(g.fmt, g.m), NEW b, b = LenBasic(g.m.ch)
  PROVE  /\ \A i \in 1 .. b : p[i] = Basic(g.fmt, g.m.ch)[i]
         /\ RestOf(g.fmt) >= 1 => p[b + 1] = IF Marked(g.fmt, g.m) THEN ExtMark ELSE g.m.time
         /\ RestOf(g.fmt) >= 3 => p[b + 2] = g.m.size /\ p[b + 3] = g.m.type
         /\ RestOf(g.fmt) = 4 => p[b + 4] = g.m.stream
         /\ Marked(g.fmt, g.m) => p[b + RestOf(g.fmt) + 1] = g.m.time
<1>1. g.fmt \in 0 .. 3 /\ g.m \in Headers /\ g.m.ch >= 2
  BY AheadIs
<1> QED BY <1>1, PrefixFields

\* What m_buf holds of it.
LEMMA Reads ==
  ASSUME NEW F, NEW s, NEW g, Ahead(F, s, g), NEW d, Feed(F, d),
         NEW o \in Nat, d = s.at + o, NEW i \in 1 .. Len(buf),
         o + i <= LenHead(g.fmt, g.m) + Len(g.units)
  PROVE  buf[i] = Fields(g)[o + i]
<1>1. buf[i] = F[d + i] /\ Len(buf) \in Nat
  BY DEF Feed
<1>2. s.at \in Nat /\ g \in Chunks /\ g.m.ch \in AllChannels /\ Lies(F, s.at, g)
  BY AheadIs
<1>3. Len(Fields(g)) = LenHead(g.fmt, g.m) + Len(g.units)
  BY <1>2, FieldsAre
<1>4. o + i \in 1 .. Len(Fields(g))
  BY <1>1, <1>3
<1>5. F[s.at + (o + i)] = Fields(g)[o + i]
  BY <1>2, <1>4 DEF Lies
<1>6. s.at + (o + i) = d + i
  BY <1>1, <1>2
<1> QED BY <1>1, <1>5, <1>6

\* What m_buf holds of its header.
LEMMA ReadsHead ==
  ASSUME NEW F, NEW s, NEW g, Ahead(F, s, g), NEW d, Feed(F, d),
         NEW o \in Nat, d = s.at + o, NEW i \in 1 .. Len(buf), o + i <= LenHead(g.fmt, g.m)
  PROVE  buf[i] = Prefix(g.fmt, g.m)[o + i]
<1>1. LenHead(g.fmt, g.m) \in Nat /\ Len(g.units) \in Nat /\ g \in Chunks
      /\ g.m.ch \in AllChannels
  BY AheadIs, HeadLength
<1>2. buf[i] = Fields(g)[o + i]
  <2>1. o + i <= LenHead(g.fmt, g.m) + Len(g.units)
    BY <1>1
  <2> QED BY <2>1, Reads
<1>3. o + i \in 1 .. LenHead(g.fmt, g.m)
  BY <1>1
<1> QED BY <1>1, <1>2, <1>3, FieldsAre

\* Taking fields out of m_buf moves the parser on by as many.
LEMMA SkipFeeds ==
  ASSUME NEW F, NEW d, Feed(F, d), NEW k \in Nat, k <= Len(buf), Skip(k), UNCHANGED wire
  PROVE  Feed(F, d + k)'
<1>1. buf \in Seq(Nat) /\ Len(buf) \in Nat /\ d \in Nat /\ wire \in Seq(Nat)
  BY DEF Feed
<1>2. \A i \in (k + 1) .. Len(buf) : buf[i] \in Nat
  BY <1>1
<1>3. /\ buf' \in Seq(Nat)
      /\ Len(buf') = IF k + 1 <= Len(buf) THEN Len(buf) - (k + 1) + 1 ELSE 0
      /\ \A i \in 1 .. Len(buf) - (k + 1) + 1 : buf'[i] = buf[(k + 1) + i - 1]
  BY <1>1, <1>2, SubSeqProperties DEF Skip
<1>4. Len(buf') = Len(buf) - k
  <2>1. \A a, b \in Nat : b <= a => (IF b + 1 <= a THEN a - (b + 1) + 1 ELSE 0) = a - b
    OBVIOUS
  <2> QED BY <1>1, <1>3, <2>1
<1>5. ASSUME NEW i \in 1 .. Len(buf')
      PROVE  buf'[i] = F[(d + k) + i]
  <2>1. i \in 1 .. Len(buf) - (k + 1) + 1 /\ (k + 1) + i - 1 \in 1 .. Len(buf)
    BY <1>1, <1>4
  <2>2. buf'[i] = F[d + ((k + 1) + i - 1)]
    BY <1>3, <2>1 DEF Feed
  <2>3. d + ((k + 1) + i - 1) = (d + k) + i
    BY <1>1, <2>1
  <2> QED BY <2>2, <2>3
<1>6. ASSUME NEW i \in 1 .. Len(wire')
      PROVE  wire'[i] = F[(d + k) + Len(buf') + i]
  <2>1. wire'[i] = F[d + Len(buf) + i]
    BY DEF Feed
  <2>2. d + Len(buf) + i = (d + k) + Len(buf') + i
    BY <1>1, <1>4
  <2> QED BY <2>1, <2>2
<1>7. (d + k) + Len(buf') + Len(wire') = Len(F)
  <2>1. \A a, b, c, e \in Nat : (e + b) + c = (e + k) + (b - k) + c
    OBVIOUS
  <2>2. Len(wire) \in Nat /\ wire' = wire /\ d + Len(buf) + Len(wire) = Len(F)
    BY <1>1 DEF Feed
  <2> QED BY <1>1, <1>4, <2>1, <2>2
<1>8. d + k \in Nat /\ wire' \in Seq(Nat)
  BY <1>1
<1> QED BY <1>3, <1>5, <1>6, <1>7, <1>8 DEF Feed

\* A cleared header.
LEMMA ClearedIs == Cleared \in HeaderType /\ ~IsValid(Cleared)
BY DEF Cleared, HeaderType, IsValid

\* A header of which the format and the channel are known.
LEMMA FreshIs ==
  ASSUME NEW fmt, NEW c, NEW ext
  PROVE  /\ Fresh(fmt, c, ext).fmt = fmt /\ Fresh(fmt, c, ext).ch = c
         /\ Fresh(fmt, c, ext).ext = ext /\ Fresh(fmt, c, ext).size = 0
         /\ fmt \in 0 .. 3 /\ c \in Nat /\ ext \in 0 .. 2 => Fresh(fmt, c, ext) \in HeaderType
         /\ \A d : [Fresh(fmt, c, ext) EXCEPT !.ch = d] = Fresh(fmt, d, ext)
BY DEF Fresh, Cleared, HeaderType

\* The previous header of a channel, for the parser and for the sender.
LEMMA PreviousIs ==
  ASSUME NEW s \in Points, Agrees(s), Knows(s.head), NEW c \in AllChannels
  PROVE  /\ Previous(c) \in HeaderType
         /\ c \in Slots => /\ Meaning(Previous(c)) = s.head[c]
                           /\ IsValid(Previous(c)) <=> IsValid(s.head[c])
         /\ c \notin Slots => Previous(c) = Cleared /\ s.head[c].size = 0
<1>1. CASE c \in Slots
  <2>1. Previous(c) = prevHeaders[c] /\ prevHeaders[c] \in HeaderType
        /\ Meaning(prevHeaders[c]) = s.head[c]
    BY <1>1 DEF Previous, Agrees, Knows
  <2>2. Meaning(prevHeaders[c]).type = prevHeaders[c].type
    BY DEF Meaning
  <2> QED BY <1>1, <2>1, <2>2 DEF IsValid
<1>2. CASE c \notin Slots
  BY <1>2, ClearedIs DEF Previous, Agrees
<1> QED BY <1>1, <1>2

\* The first byte of a chunk: format and channel, or the mark of a longer basic header.
LEMMA FirstByte ==
  ASSUME NEW F, NEW s, NEW g, Ahead(F, s, g), NEW b, b = Basic(g.fmt, g.m.ch)[1]
  PROVE  /\ b \div 64 = g.fmt
         /\ g.m.ch < 64 => b % 64 = g.m.ch /\ LenBasic(g.m.ch) = 1
         /\ g.m.ch >= 64 => b % 64 = LenBasic(g.m.ch) - 2 /\ LenBasic(g.m.ch) \in 2 .. 3
<1> DEFINE f == g.fmt
           c == g.m.ch
           l == LenBasic(c)
<1>1. f \in 0 .. 3 /\ c \in Nat /\ c >= 2
  BY AheadIs
<1>4. (c < 64 => l = 1) /\ (c >= 64 => l \in 2 .. 3) /\ l = LenBasic(c)
  BY <1>1 DEF LenBasic
<1>7. b = Basic(f, c)[1]
  OBVIOUS
<1> HIDE DEF f, c, l
<1>2. c < 64 => b = f * 64 + c
  BY ZenonT(60), <1>1, <1>7, BasicFields
<1>3. c >= 64 => b = f * 64 + (l - 2)
  BY <1>1, <1>4, <1>7, BasicFields
<1>5. CASE c < 64
  <2>1. b \div 64 = f /\ b % 64 = c
    BY <1>1, <1>2, <1>5
  <2> QED BY <1>4, <1>5, <2>1 DEF f, c, l
<1>6. CASE c >= 64
  <2>1. b \div 64 = f /\ b % 64 = l - 2
    BY <1>1, <1>3, <1>4, <1>6
  <2> QED BY <1>1, <1>4, <1>6, <2>1 DEF f, c, l
<1> QED BY <1>1, <1>5, <1>6 DEF c

\* The headers behind a chunk.
LEMMA AfterHead ==
  ASSUME NEW F, NEW s, NEW g, Ahead(F, s, g)
  PROVE  /\ After(s, g).head[g.m.ch] = g.m
         /\ \A c \in AllChannels : c # g.m.ch => After(s, g).head[c] = s.head[c]
<1>1. s.head \in [AllChannels -> Headers] /\ g.m.ch \in AllChannels
  BY AheadIs DEF Points
<1> QED BY <1>1 DEF After

\* A chunk of format 3 stands for the previous header of its channel.
LEMMA SameHeader ==
  ASSUME NEW F, NEW s, NEW g, Ahead(F, s, g), g.fmt = 3
  PROVE  g.m = s.head[g.m.ch]
<1>1. s.head[g.m.ch] \in Headers /\ g.m \in Headers /\ InPart(s) /\ Follows(s, g)
      /\ g.m.ch \in AllChannels
  BY AheadIs DEF Points
<1>2. IsValid(s.head[g.m.ch]) /\ s.head[g.m.ch].ch = g.m.ch
  BY <1>1 DEF InPart, Follows, MayUse
<1>3. /\ s.head[g.m.ch].stream = g.m.stream /\ s.head[g.m.ch].size = g.m.size
      /\ s.head[g.m.ch].type = g.m.type /\ s.head[g.m.ch].time = g.m.time
      /\ s.head[g.m.ch].kind = g.m.kind
  BY <1>1 DEF Follows, MayUse, KindAfter
<1> QED BY <1>1, <1>2, <1>3 DEF Headers

\* processInitialHeader reads the first byte and knows what follows.
LEMMA InitialHeader ==
  ASSUME NEW F, NEW s, NEW g, Ahead(F, s, g), NEW d, Feed(F, d), Agrees(s), Between(s, d),
         processInitialHeader
  PROVE  /\ Feed(F, d + 1)' /\ Agrees(s)'
         /\ InExt(s, g, d + 1)' \/ InRest(s, g, d + 1)' \/ InData(s, g, d + 1)'
<1> DEFINE c == g.m.ch
<1>1. /\ s \in Points /\ InPart(s) /\ c \in AllChannels /\ g.fmt \in 0 .. 3
      /\ c \in Nat /\ c >= 2 /\ LenBasic(c) \in 1 .. 3 /\ s.at \in Nat
  BY AheadIs
<1>2. Len(buf) \in Nat /\ Len(buf) >= 1 /\ d = s.at /\ Knows(s.head) /\ UNCHANGED wire
  BY DEF processInitialHeader, Running, Needed, Feed, Between
<1>3. Feed(F, d + 1)'
  <2>1. Skip(1)
    BY DEF processInitialHeader
  <2> QED BY <1>2, <2>1, SkipFeeds
<1>4. buf[1] = Basic(g.fmt, c)[1]
  <2>1. LenHead(g.fmt, g.m) \in Nat /\ LenHead(g.fmt, g.m) >= 1
    BY HeadLength
  <2>2. buf[1] = Prefix(g.fmt, g.m)[1]
    <3>1. 0 \in Nat /\ d = s.at + 0 /\ 1 \in 1 .. Len(buf) /\ 0 + 1 <= LenHead(g.fmt, g.m)
      BY <1>1, <1>2, <2>1
    <3>2. buf[1] = Prefix(g.fmt, g.m)[0 + 1]
      BY <3>1, ReadsHead
    <3> QED BY <3>2
  <2>3. \A i \in 1 .. LenBasic(c) : Prefix(g.fmt, g.m)[i] = Basic(g.fmt, c)[i]
    BY HeadFields
  <2> QED BY <1>1, <2>2, <2>3
<1>12. PICK x, y :
         /\ x = buf[1] \div 64 /\ y = buf[1] % 64
         /\ IF y > 1 /\ x = 3 /\ IsValid(Previous(y))
            THEN header' = Previous(y) /\ state' = "AmfData"
            ELSE /\ header' = Fresh(x, y, IF y > 1 THEN 0 ELSE y + 1)
                 /\ state' = IF y > 1 THEN "PartHeader" ELSE "ExtHeader"
  BY DEF processInitialHeader, Fresh
<1>5. /\ x = g.fmt
      /\ c < 64 => y = c /\ LenBasic(c) = 1
      /\ c >= 64 => y = LenBasic(c) - 2 /\ LenBasic(c) \in 2 .. 3
  BY <1>4, <1>12, FirstByte
<1>6. UNCHANGED <<prevHeaders, pktIoBufs, chunkSizeIn, got>>
  BY DEF processInitialHeader
<1>7. ASSUME header' \in HeaderType
      PROVE  Agrees(s)'
  BY <1>6, <1>7 DEF Agrees
<1>8. Knows(s.head)'
  BY <1>2, <1>6 DEF Knows
<1>9. CASE c < 64 /\ g.fmt = 3 /\ IsValid(Previous(c))
  <2>1. header' = Previous(c) /\ state' = "AmfData"
    BY <1>1, <1>5, <1>9, <1>12
  <2>2. c \in Slots
    BY <1>1, <1>9, ClearedIs DEF Previous
  <2>3. Previous(c) \in HeaderType /\ Meaning(Previous(c)) = s.head[c]
    BY <1>1, <1>2, <2>2, PreviousIs
  <2>4. g.m = s.head[c]
    BY <1>9, SameHeader
  <2>5. header'.ch = g.m.ch /\ header'.size = g.m.size /\ Meaning(header') = g.m
    BY <2>1, <2>3, <2>4 DEF Meaning
  <2>6. LenHead(g.fmt, g.m) = 1
    BY <1>5, <1>9 DEF LenHead, RestOf, Marked
  <2>7. Knows(After(s, g).head)'
    <3>1. \A e \in AllChannels : After(s, g).head[e] = s.head[e]
      BY <2>4, AfterHead
    <3> QED BY <1>8, <3>1, SlotsAre DEF Knows
  <2>8. InData(s, g, d + 1)'
    BY <1>2, <2>1, <2>5, <2>6, <2>7 DEF InData, Meaning
  <2> QED BY <1>3, <1>7, <2>1, <2>3, <2>8
<1>10. CASE c < 64 /\ ~(g.fmt = 3 /\ IsValid(Previous(c)))
  <2>1. header' = Fresh(g.fmt, c, 0) /\ state' = "PartHeader"
    BY <1>1, <1>5, <1>10, <1>12
  <2>2. header' \in HeaderType /\ header'.ext = 0
    BY <1>1, <2>1, FreshIs
  <2>3. header' = Fresh(g.fmt, c, header'.ext)
    BY <2>1, <2>2
  <2>4. InRest(s, g, d + 1)'
    BY <1>2, <1>5, <1>8, <1>10, <2>1, <2>3 DEF InRest
  <2> QED BY <1>3, <1>7, <2>2, <2>4
<1>11. CASE c >= 64
  <2>1. y \in {0, 1} /\ y + 1 = LenBasic(c) - 1 /\ ~(y > 1)
    BY <1>5, <1>11
  <2>2. header' = Fresh(g.fmt, y, LenBasic(c) - 1) /\ state' = "ExtHeader"
    BY <1>5, <1>12, <2>1
  <2>3. header' \in HeaderType /\ header'.ch = y
    <3>1. y \in Nat /\ LenBasic(c) - 1 \in 0 .. 2
      BY <1>1, <2>1
    <3> QED BY <1>1, <2>2, <3>1, FreshIs
  <2>4. header' = Fresh(g.fmt, header'.ch, LenBasic(c) - 1)
    BY <2>2, <2>3
  <2>5. InExt(s, g, d + 1)'
    BY <1>2, <1>8, <1>11, <2>2, <2>4 DEF InExt
  <2> QED BY <1>3, <1>7, <2>3, <2>5
<1> QED BY <1>1, <1>9, <1>10, <1>11

\* A basic header of two or three bytes.
LEMMA LongBasic ==
  ASSUME NEW fmt \in 0 .. 3, NEW c \in Nat, c >= 64
  PROVE  /\ c < 320 => Basic(fmt, c)[2] = c - 64
         /\ c >= 320 => /\ Basic(fmt, c)[2] = (c - 64) % 256
                        /\ Basic(fmt, c)[3] = (c - 64) \div 256
<1>1. CASE c < 320
  <2>1. Basic(fmt, c) = <<fmt * 64, c - 64>>
    BY <1>1 DEF Basic
  <2> QED BY <1>1, <2>1
<1>2. CASE c >= 320
  <2>1. Basic(fmt, c) = <<fmt * 64 + 1, (c - 64) % 256, (c - 64) \div 256>>
    BY <1>2 DEF Basic
  <2> QED BY <1>2, <2>1
<1> QED BY <1>1, <1>2

\* processExtHeader finds the channel of a longer basic header.
LEMMA ExtHeader ==
  ASSUME NEW F, NEW s, NEW g, Ahead(F, s, g), NEW d, Feed(F, d), Agrees(s), InExt(s, g, d),
         processExtHeader
  PROVE  LET e == d + (LenBasic(g.m.ch) - 1)
         IN  Feed(F, e)' /\ Agrees(s)' /\ InRest(s, g, e)'
<1> DEFINE c == g.m.ch
           l == LenBasic(c)
<1>0. PICK k : k = header.ext
  OBVIOUS
<1> DEFINE e == d + k
<1>1. /\ c \in Nat /\ c >= 64 /\ d = s.at + 1 /\ s.at \in Nat /\ d \in Nat /\ g.fmt \in 0 .. 3
  BY AheadIs DEF InExt, Feed
<1>2. l \in 2 .. 3 /\ (l = 2 => c < 320) /\ (l = 3 => c >= 320)
  BY <1>1 DEF LenBasic
<1>3. header = Fresh(g.fmt, header.ch, l - 1) /\ k = l - 1 /\ k \in 1 .. 2
  BY <1>0, <1>2, FreshIs DEF InExt
<1>4. Len(buf) \in Nat /\ Len(buf) >= k /\ UNCHANGED wire /\ Knows(s.head)
  BY <1>0 DEF processExtHeader, Running, Needed, Feed, InExt
<1>5. Feed(F, e)'
  <2>1. Skip(k) /\ k \in Nat
    BY <1>0, <1>3 DEF processExtHeader
  <2> QED BY <1>4, <2>1, SkipFeeds
<1>6. ASSUME NEW i \in 1 .. k
      PROVE  buf[i] = Basic(g.fmt, c)[1 + i]
  <2>1. LenHead(g.fmt, g.m) \in Nat /\ LenHead(g.fmt, g.m) >= l
    BY HeadLength
  <2>2. 1 \in Nat /\ i \in 1 .. Len(buf) /\ 1 + i <= LenHead(g.fmt, g.m)
        /\ 1 + i \in 1 .. l
    BY <1>2, <1>3, <1>4, <2>1
  <2>3. buf[i] = Prefix(g.fmt, g.m)[1 + i]
    BY <1>1, <2>2, ReadsHead
  <2>4. \A n \in 1 .. l : Prefix(g.fmt, g.m)[n] = Basic(g.fmt, c)[n]
    BY HeadFields
  <2> QED BY <2>2, <2>3, <2>4
<1>7. header' = Fresh(g.fmt, c, k)
  <2>1. header' = [header EXCEPT !.ch = IF k = 1 THEN buf[1] + 64
                                        ELSE buf[2] * 256 + buf[1] + 64]
    BY <1>0 DEF processExtHeader
  <2>2. CASE l = 2
    <3>1. k = 1 /\ 1 \in 1 .. k /\ c < 320
      BY <1>2, <1>3, <2>2
    <3>2. buf[1] = Basic(g.fmt, c)[2]
      BY <1>6, <3>1
    <3>3. Basic(g.fmt, c)[2] = c - 64
      BY <1>1, <3>1, LongBasic
    <3>4. buf[1] + 64 = c
      BY <1>1, <3>2, <3>3
    <3> QED BY <1>3, <2>1, <3>1, <3>4, FreshIs
  <2>3. CASE l = 3
    <3>1. k = 2 /\ 1 \in 1 .. k /\ 2 \in 1 .. k /\ c >= 320
      BY <1>2, <1>3, <2>3
    <3>2. buf[1] = Basic(g.fmt, c)[2] /\ buf[2] = Basic(g.fmt, c)[3]
      BY <1>6, <3>1
    <3>3. Basic(g.fmt, c)[2] = (c - 64) % 256 /\ Basic(g.fmt, c)[3] = (c - 64) \div 256
      BY <1>1, <3>1, LongBasic
    <3>4. ((c - 64) \div 256) * 256 + ((c - 64) % 256) + 64 = c
      <4> HIDE DEF c
      <4> QED BY <1>1
    <3>5. buf[2] * 256 + buf[1] + 64 = c
      BY <3>2, <3>3, <3>4
    <3> QED BY <1>3, <2>1, <3>1, <3>5, FreshIs
  <2> QED BY <1>2, <2>2, <2>3
<1>8. header' \in HeaderType /\ header'.ext = k
  <2>1. k \in 0 .. 2
    BY <1>3
  <2> QED BY <1>1, <1>7, <2>1, FreshIs
<1>9. UNCHANGED <<prevHeaders, pktIoBufs, chunkSizeIn, got>> /\ state' = "PartHeader"
  BY DEF processExtHeader
<1>10. Agrees(s)' /\ Knows(s.head)'
  BY <1>4, <1>8, <1>9 DEF Agrees, Knows
<1>11. e = s.at + l /\ e = d + (l - 1)
  BY <1>1, <1>2, <1>3
<1>12. InRest(s, g, e)'
  BY <1>7, <1>8, <1>9, <1>10, <1>11 DEF InRest
<1> HIDE DEF e
<1> QED BY <1>5, <1>10, <1>11, <1>12

\* The mark is a number.
LEMMA MarkIs == ExtMark \in Nat
BY DEF ExtMark

\* How many fields each format has.
LEMMA Rests ==
  ASSUME NEW F, NEW s, NEW g, Ahead(F, s, g), NEW n, n = RestOf(g.fmt)
  PROVE  /\ n \in 0 .. 4 /\ g.fmt \in 0 .. 3
         /\ (n >= 1 <=> g.fmt # 3) /\ (n = 0 <=> g.fmt = 3) /\ (n >= 3 <=> g.fmt < 2)
         /\ (n = 4 <=> g.fmt = 0)
         /\ Marked(g.fmt, g.m) <=> n >= 1 /\ g.m.time >= ExtMark
<1>1. g.fmt \in 0 .. 3
  BY AheadIs
<1>2. n = IF g.fmt = 0 THEN 4 ELSE IF g.fmt = 1 THEN 3 ELSE IF g.fmt = 2 THEN 1 ELSE 0
  BY <1>1, RestNat
<1>3. (n >= 1 <=> g.fmt # 3) /\ (n = 0 <=> g.fmt = 3) /\ (n >= 3 <=> g.fmt < 2)
      /\ (n = 4 <=> g.fmt = 0) /\ n \in 0 .. 4
  BY <1>1, <1>2
<1> QED BY <1>1, <1>3 DEF Marked

\* The header that processRemainingHeader fills in.
Base(h) == IF h.fmt > 0 /\ IsValid(Previous(h.ch)) THEN Previous(h.ch) ELSE h

\* what the fields that are left out stand for
LEMMA BaseIs ==
  ASSUME NEW F, NEW s, NEW g, Ahead(F, s, g), NEW d, Agrees(s), InRest(s, g, d),
         NEW base, base = Base(header)
  PROVE  /\ header.fmt = g.fmt /\ header.ch = g.m.ch
         /\ base \in HeaderType /\ base.ch = g.m.ch
         /\ g.fmt >= 2 => base.size = g.m.size
         /\ g.m.ch \in Slots => /\ g.fmt >= 1 => base.stream = g.m.stream
                                /\ g.fmt >= 2 => base.type = g.m.type
                                /\ g.fmt = 3 => base.time = g.m.time /\ base.kind = g.m.kind
<1> DEFINE c == g.m.ch
           p == s.head[c]
<1>1. /\ s \in Points /\ InPart(s) /\ c \in AllChannels /\ g.fmt \in 0 .. 3 /\ Knows(s.head)
      /\ header \in HeaderType
  BY AheadIs DEF InRest, Agrees
<1>2. header.fmt = g.fmt /\ header.ch = c /\ header.size = 0
  BY FreshIs DEF InRest
<1>3. /\ Previous(c) \in HeaderType
      /\ c \in Slots => Meaning(Previous(c)) = p /\ (IsValid(Previous(c)) <=> IsValid(p))
      /\ c \notin Slots => Previous(c) = Cleared /\ p.size = 0
  BY <1>1, PreviousIs
<1>4. /\ g.fmt >= 1 => IsValid(p) /\ p.stream = g.m.stream
      /\ g.fmt >= 2 => p.size = g.m.size /\ p.type = g.m.type
      /\ g.fmt = 3 => p.time = g.m.time /\ g.m.kind = p.kind
  BY AheadIs DEF Follows, MayUse, KindAfter
<1>5. IsValid(p) => p.ch = c
  BY <1>1 DEF InPart
<1>6. /\ Meaning(Previous(c)).stream = Previous(c).stream
      /\ Meaning(Previous(c)).type = Previous(c).type
      /\ Meaning(Previous(c)).time = Previous(c).time
      /\ Meaning(Previous(c)).kind = Previous(c).kind
      /\ Meaning(Previous(c)).size = Previous(c).size
      /\ Meaning(Previous(c)).ch = Previous(c).ch
  BY DEF Meaning
<1>7. base = IF g.fmt > 0 /\ IsValid(Previous(c)) THEN Previous(c) ELSE header
  BY <1>2 DEF Base
<1> HIDE DEF c, p
<1>8. CASE c \in Slots
  <2>1. CASE g.fmt >= 1
    <3>1. base = Previous(c) /\ Meaning(Previous(c)) = p /\ p.ch = c
      BY <1>1, <1>3, <1>4, <1>5, <1>7, <1>8, <2>1
    <3> QED BY <1>2, <1>3, <1>4, <1>6, <1>8, <2>1, <3>1 DEF c
  <2>2. CASE g.fmt = 0
    <3>1. base = header
      BY <1>7, <2>2
    <3> QED BY <1>1, <1>2, <2>2, <3>1 DEF c
  <2> QED BY <1>1, <2>1, <2>2
<1>9. CASE c \notin Slots
  <2>1. base = header
    BY <1>3, <1>7, <1>9, ClearedIs
  <2>2. g.fmt >= 2 => base.size = g.m.size
    BY <1>2, <1>3, <1>4, <1>9, <2>1
  <2> QED BY <1>1, <1>2, <1>9, <2>1, <2>2 DEF c
<1> QED BY <1>8, <1>9

\* A header that is complete is remembered as the last of its channel.
LEMMA RememberIs ==
  ASSUME NEW F, NEW s, NEW g, Ahead(F, s, g), Knows(s.head), NEW h, h \in HeaderType,
         prevHeaders \in [Slots -> HeaderType], Remember(h), h.ch = g.m.ch,
         g.m.ch \in Slots => Meaning(h) = g.m
  PROVE  Knows(After(s, g).head)' /\ (prevHeaders \in [Slots -> HeaderType])'
<1>1. prevHeaders' = [c \in Slots |-> IF c = h.ch THEN h ELSE prevHeaders[c]]
  BY DEF Remember
<1>2. \A c \in Slots : prevHeaders'[c] = IF c = h.ch THEN h ELSE prevHeaders[c]
  BY <1>1
<1>3. (prevHeaders \in [Slots -> HeaderType])'
  BY <1>1
<1>4. ASSUME NEW c \in Slots
      PROVE  Meaning(prevHeaders'[c]) = After(s, g).head[c]
  <2>1. c \in AllChannels
    BY SlotsAre
  <2>2. CASE c = g.m.ch
    BY <1>2, <2>2, AfterHead
  <2>3. CASE c # g.m.ch
    BY <1>2, <2>1, <2>3, AfterHead DEF Knows
  <2> QED BY <2>2, <2>3
<1> QED BY <1>3, <1>4 DEF Knows

\* processRemainingHeader reads the rest of the header: the timestamp follows where the mark
\* stands, and the header is as it was meant where it does not.
LEMMA RemainingHeader ==
  ASSUME NEW F, NEW s, NEW g, Ahead(F, s, g), NEW d, Feed(F, d), Agrees(s), InRest(s, g, d),
         processRemainingHeader
  PROVE  /\ Feed(F, d + RestOf(g.fmt))' /\ Agrees(s)'
         /\ InTimmer(s, g, d + RestOf(g.fmt))' \/ InData(s, g, d + RestOf(g.fmt))'
<1> DEFINE c == g.m.ch
           m == g.m
<1>1. PICK n, l, base : n = RestOf(g.fmt) /\ l = LenBasic(c) /\ base = Base(header)
  OBVIOUS
<1>2. /\ n \in 0 .. 4 /\ g.fmt \in 0 .. 3
      /\ (n >= 1 <=> g.fmt # 3) /\ (n = 0 <=> g.fmt = 3) /\ (n >= 3 <=> g.fmt < 2)
      /\ (n = 4 <=> g.fmt = 0)
      /\ Marked(g.fmt, m) <=> n >= 1 /\ m.time >= ExtMark
  BY <1>1, Rests
<1>3. /\ s \in Points /\ InPart(s) /\ c \in AllChannels /\ m \in Headers /\ c \in Nat
      /\ l \in 1 .. 3 /\ s.at \in Nat /\ d = s.at + l /\ Knows(s.head)
      /\ m.time \in Nat /\ m.size \in Nat /\ m.type \in Nat /\ m.stream \in Nat
      /\ m.kind = KindAfter(g.fmt, m.time, s.head[c])
  BY <1>1, AheadIs DEF InRest, Headers, Follows
<1>4. /\ header.fmt = g.fmt /\ header.ch = c
      /\ base \in HeaderType /\ base.ch = c
      /\ g.fmt >= 2 => base.size = m.size
      /\ c \in Slots => /\ g.fmt >= 1 => base.stream = m.stream
                        /\ g.fmt >= 2 => base.type = m.type
                        /\ g.fmt = 3 => base.time = m.time /\ base.kind = m.kind
  BY <1>1, BaseIs
<1>5. Len(buf) \in Nat /\ Len(buf) >= n /\ UNCHANGED wire
  BY <1>1, <1>4 DEF processRemainingHeader, Running, Needed, Feed, InRest
<1>6. Feed(F, d + n)'
  <2>1. Skip(n) /\ n \in Nat
    BY <1>1, <1>2, <1>4 DEF processRemainingHeader
  <2> QED BY <1>5, <2>1, SkipFeeds
<1>7. /\ n >= 1 => buf[1] = IF Marked(g.fmt, m) THEN ExtMark ELSE m.time
      /\ n >= 3 => buf[2] = m.size /\ buf[3] = m.type
      /\ n = 4 => buf[4] = m.stream
  <2>1. LenHead(g.fmt, m) \in Nat /\ LenHead(g.fmt, m) >= l + n
    BY <1>1, HeadLength
  <2>2. ASSUME NEW i \in 1 .. n
        PROVE  buf[i] = Prefix(g.fmt, m)[l + i]
    <3>1. l \in Nat /\ i \in 1 .. Len(buf) /\ l + i <= LenHead(g.fmt, m)
      BY <1>2, <1>3, <1>5, <2>1
    <3> QED BY <1>3, <3>1, ReadsHead
  <2>3. /\ n >= 1 => Prefix(g.fmt, m)[l + 1] = IF Marked(g.fmt, m) THEN ExtMark ELSE m.time
        /\ n >= 3 => Prefix(g.fmt, m)[l + 2] = m.size /\ Prefix(g.fmt, m)[l + 3] = m.type
        /\ n = 4 => Prefix(g.fmt, m)[l + 4] = m.stream
    BY <1>1, HeadFields
  <2>4. /\ n >= 1 => 1 \in 1 .. n
        /\ n >= 3 => 2 \in 1 .. n /\ 3 \in 1 .. n
        /\ n = 4 => 4 \in 1 .. n
    BY <1>2
  <2> QED BY <2>2, <2>3, <2>4
<1> DEFINE read == [base EXCEPT !.time   = IF n >= 1 THEN buf[1] ELSE @,
                                !.size   = IF n >= 3 THEN buf[2] ELSE @,
                                !.type   = IF n >= 3 THEN buf[3] ELSE @,
                                !.stream = IF n = 4 THEN buf[4] ELSE @]
           marked == n >= 1 /\ read.time = ExtMark
<1>8. /\ header' = [read EXCEPT !.kind = IF n = 0 \/ marked THEN @ ELSE TimmerType(n)]
      /\ state' = (IF marked THEN "ExtTimmer" ELSE "AmfData")
      /\ IF marked THEN UNCHANGED prevHeaders ELSE Remember(header')
      /\ UNCHANGED <<pktIoBufs, chunkSizeIn, got>>
  <2>1. n = RestOf(header.fmt)
    BY <1>1, <1>4
  <2>2. base = IF header.fmt > 0 /\ IsValid(Previous(header.ch))
               THEN Previous(header.ch) ELSE header
    BY <1>1 DEF Base
  <2> QED BY <2>1, <2>2 DEF processRemainingHeader
<1>9. /\ read \in HeaderType /\ read.ch = c /\ read.kind = base.kind
      /\ read.time = (IF n >= 1 THEN buf[1] ELSE base.time)
      /\ read.size = (IF n >= 3 THEN buf[2] ELSE base.size)
      /\ read.type = (IF n >= 3 THEN buf[3] ELSE base.type)
      /\ read.stream = (IF n = 4 THEN buf[4] ELSE base.stream)
  <2>1. /\ n >= 1 => buf[1] \in Nat
        /\ n >= 3 => buf[2] \in Nat /\ buf[3] \in Nat
        /\ n = 4 => buf[4] \in Nat
    BY <1>3, <1>7, MarkIs
  <2> QED BY <1>4, <2>1 DEF HeaderType
<1>16. marked <=> n >= 1 /\ read.time = ExtMark
  OBVIOUS
<1> HIDE DEF read, marked
<1>10. /\ header' \in HeaderType /\ header'.ch = c /\ header'.time = read.time
       /\ header'.size = read.size /\ header'.type = read.type
       /\ header'.stream = read.stream
       /\ header'.kind = IF n = 0 \/ marked THEN read.kind ELSE TimmerType(n)
  <2>1. TimmerType(n) \in {"abs", "relative"}
    BY DEF TimmerType
  <2>2. PICK k : k = IF n = 0 \/ marked THEN read.kind ELSE TimmerType(n)
    OBVIOUS
  <2>3. header' = [read EXCEPT !.kind = k]
    BY <1>8, <2>2
  <2>4. k \in Kinds /\ read \in HeaderType
    BY <1>9, <2>1, <2>2 DEF HeaderType, Kinds
  <2>5. header' \in HeaderType /\ header'.ch = read.ch /\ header'.time = read.time
        /\ header'.size = read.size /\ header'.type = read.type
        /\ header'.stream = read.stream /\ header'.kind = k
    BY <2>3, <2>4 DEF HeaderType, Kinds
  <2> QED BY <1>9, <2>2, <2>5
<1>11. header'.size = m.size
  BY <1>2, <1>4, <1>7, <1>9, <1>10
<1>12. c \in Slots => header'.type = m.type /\ header'.stream = m.stream
  BY <1>2, <1>4, <1>7, <1>9, <1>10
<1>13. marked <=> Marked(g.fmt, m)
  <2>1. n >= 1 => read.time = IF Marked(g.fmt, m) THEN ExtMark ELSE m.time
    BY <1>7, <1>9
  <2>2. n >= 1 /\ ~Marked(g.fmt, m) => m.time # ExtMark
    BY <1>2, <1>3, MarkIs
  <2>3. Marked(g.fmt, m) => n >= 1
    BY <1>2
  <2> QED BY <1>16, <2>1, <2>2, <2>3
<1>14. CASE Marked(g.fmt, m)
  <2>1. UNCHANGED prevHeaders /\ state' = "ExtTimmer"
    BY <1>8, <1>13, <1>14
  <2>2. m.kind = "ext"
    BY <1>2, <1>3, <1>14 DEF KindAfter
  <2>3. Agrees(s)' /\ Knows(s.head)'
    BY <1>3, <1>8, <1>10, <2>1 DEF Agrees, Knows
  <2>4. InTimmer(s, g, d + n)'
    BY <1>1, <1>3, <1>10, <1>11, <1>12, <1>14, <2>1, <2>2, <2>3 DEF InTimmer
  <2> QED BY <1>1, <1>6, <2>3, <2>4
<1>15. CASE ~Marked(g.fmt, m)
  <2>1. Remember(header') /\ state' = "AmfData"
    BY <1>8, <1>13, <1>15
  <2>2. c \in Slots => header'.time = m.time
    BY <1>2, <1>4, <1>7, <1>9, <1>10, <1>15
  <2>3. c \in Slots => header'.kind = m.kind
    <3>1. CASE n = 0
      BY <1>2, <1>4, <1>9, <1>10, <3>1
    <3>2. CASE n # 0
      <4>1. m.kind = IF g.fmt = 0 THEN "abs" ELSE "relative"
        BY <1>2, <1>3, <1>15, <3>2, MarkIs DEF KindAfter
      <4>2. header'.kind = IF n = 4 THEN "abs" ELSE "relative"
        BY <1>10, <1>13, <1>15, <3>2 DEF TimmerType
      <4> QED BY <1>2, <4>1, <4>2
    <3> QED BY <3>1, <3>2
  <2>4. c \in Slots => Meaning(header') = m
    BY <1>3, <1>10, <1>11, <1>12, <2>2, <2>3 DEF Meaning, Headers
  <2>5. PICK h : h = header'
    OBVIOUS
  <2>6. Knows(After(s, g).head)' /\ (prevHeaders \in [Slots -> HeaderType])'
    <3>1. /\ h \in HeaderType /\ Remember(h) /\ h.ch = g.m.ch
          /\ g.m.ch \in Slots => Meaning(h) = g.m
      BY <1>10, <2>1, <2>4, <2>5
    <3>2. prevHeaders \in [Slots -> HeaderType]
      BY DEF Agrees
    <3> QED BY <1>3, <3>1, <3>2, RememberIs
  <2>7. Agrees(s)'
    BY <1>8, <1>10, <2>6 DEF Agrees
  <2>8. d + n = s.at + LenHead(g.fmt, m)
    BY <1>1, <1>2, <1>3, <1>15, HeadLength
  <2>9. InData(s, g, d + n)'
    BY <1>10, <1>11, <2>1, <2>4, <2>6, <2>8 DEF InData, Meaning
  <2> QED BY <1>1, <1>6, <2>7, <2>9
<1> QED BY <1>14, <1>15

\* processExtTimmer reads the timestamp; the header is as it was meant.
LEMMA ExtTimmer ==
  ASSUME NEW F, NEW s, NEW g, Ahead(F, s, g), NEW d, Feed(F, d), Agrees(s), InTimmer(s, g, d),
         processExtTimmer
  PROVE  Feed(F, d + 1)' /\ Agrees(s)' /\ InData(s, g, d + 1)'
<1> DEFINE c == g.m.ch
           m == g.m
<1>1. PICK n, l : n = RestOf(g.fmt) /\ l = LenBasic(c)
  OBVIOUS
<1>2. /\ n \in 0 .. 4 /\ l \in 1 .. 3 /\ s.at \in Nat /\ d = s.at + l + n /\ Knows(s.head)
      /\ m \in Headers /\ m.time \in Nat /\ Marked(g.fmt, m)
  BY <1>1, AheadIs DEF InTimmer, Headers
<1>3. LenHead(g.fmt, m) = l + n + 1
  BY <1>1, <1>2, HeadLength
<1>4. Len(buf) \in Nat /\ Len(buf) >= 1 /\ UNCHANGED wire /\ Skip(1)
  BY DEF processExtTimmer, Running, Needed, Feed, InTimmer
<1>5. Feed(F, d + 1)'
  BY <1>4, SkipFeeds
<1>6. buf[1] = m.time
  <2>1. l + n \in Nat /\ d = s.at + (l + n) /\ 1 \in 1 .. Len(buf)
        /\ (l + n) + 1 <= LenHead(g.fmt, m)
    BY <1>2, <1>3, <1>4
  <2>2. buf[1] = Prefix(g.fmt, m)[(l + n) + 1]
    BY <2>1, ReadsHead
  <2>3. Prefix(g.fmt, m)[l + n + 1] = m.time
    BY <1>1, <1>2, HeadFields
  <2> QED BY <2>2, <2>3
<1>7. header \in HeaderType /\ header.ch = c /\ header.size = m.size
      /\ (c \in Slots => header.type = m.type /\ header.stream = m.stream /\ m.kind = "ext")
  BY DEF Agrees, InTimmer
<1>8. header' = [header EXCEPT !.time = m.time, !.kind = "ext"]
  BY <1>6 DEF processExtTimmer
<1>9. header' \in HeaderType /\ header'.ch = c /\ header'.size = m.size
      /\ (c \in Slots => Meaning(header') = m)
  BY <1>2, <1>7, <1>8 DEF HeaderType, Headers, Meaning
<1>10. PICK h : h = header'
  OBVIOUS
<1>11. Remember(header') /\ state' = "AmfData" /\ UNCHANGED <<pktIoBufs, chunkSizeIn, got>>
  BY DEF processExtTimmer
<1>12. Knows(After(s, g).head)' /\ (prevHeaders \in [Slots -> HeaderType])'
  <2>1. h \in HeaderType /\ Remember(h) /\ h.ch = g.m.ch /\ (g.m.ch \in Slots => Meaning(h) = g.m)
    BY <1>9, <1>10, <1>11
  <2>2. prevHeaders \in [Slots -> HeaderType]
    BY DEF Agrees
  <2> QED BY <1>2, <2>1, <2>2, RememberIs
<1>13. Agrees(s)'
  BY <1>9, <1>11, <1>12 DEF Agrees
<1>14. d + 1 = s.at + LenHead(g.fmt, m)
  BY <1>2, <1>3
<1>15. InData(s, g, d + 1)'
  BY <1>9, <1>11, <1>12, <1>14 DEF InData, Meaning
<1> QED BY <1>5, <1>13, <1>15

\* The point behind a chunk, part by part.
LEMMA AfterParts ==
  ASSUME NEW F, NEW s, NEW g, Ahead(F, s, g), NEW t, t = After(s, g)
  PROVE  /\ t.open[g.m.ch] = IF Ends(s, g) THEN <<>> ELSE Data(s, g)
         /\ \A c \in AllChannels : c # g.m.ch => /\ t.open[c] = s.open[c]
                                                 /\ t.head[c] = s.head[c]
         /\ t.head[g.m.ch] = g.m
         /\ t.size = IF g.m.type = ChunkSizeType THEN g.units[1] ELSE s.size
         /\ t.sent = IF Ends(s, g) /\ g.m.size > 0
                     THEN Append(s.sent, Completed(g.m, Data(s, g))) ELSE s.sent
<1>1. s.open \in [AllChannels -> Seq(Nat)] /\ g.m.ch \in AllChannels
  BY AheadIs DEF Points
<1>2. t.open = [s.open EXCEPT ![g.m.ch] = IF Ends(s, g) THEN <<>> ELSE Data(s, g)]
  BY DEF After
<1>3. t.size = (IF g.m.type = ChunkSizeType THEN g.units[1] ELSE s.size)
      /\ t.sent = IF Ends(s, g) /\ g.m.size > 0
                  THEN Append(s.sent, Completed(g.m, Data(s, g))) ELSE s.sent
  BY DEF After
<1> QED BY <1>1, <1>2, <1>3, AfterHead

\* The units of a chunk lie behind its header.
LEMMA UnitsRead ==
  ASSUME NEW F, NEW s, NEW g, Ahead(F, s, g), NEW i \in 1 .. Len(g.units)
  PROVE  Fields(g)[LenHead(g.fmt, g.m) + i] = g.units[i]
<1>1. g \in Chunks /\ g.m.ch \in AllChannels
  BY AheadIs
<1> QED BY <1>1, FieldsAre

\* What the channel of a chunk ahead has with it.
LEMMA DataAhead ==
  ASSUME NEW F, NEW s, NEW g, Ahead(F, s, g)
  PROVE  /\ Data(s, g) \in Seq(Nat) /\ Len(Data(s, g)) \in Nat
         /\ s.open[g.m.ch] \in Seq(Nat) /\ Len(s.open[g.m.ch]) \in Nat
         /\ g.units \in Seq(Nat) /\ Len(g.units) \in Nat /\ g.m.size \in Nat
         /\ Len(Data(s, g)) = Len(s.open[g.m.ch]) + Len(g.units)
         /\ Len(Data(s, g)) <= g.m.size
         /\ g.m.size > 0 => Data(s, g) # <<>>
         /\ g.m.type = ChunkSizeType => Ends(s, g) /\ g.m.size = 1
<1> DEFINE o == s.open[g.m.ch]
           whole == Data(s, g)
<1>1. /\ s \in Points /\ InPart(s) /\ g \in Chunks /\ Follows(s, g) /\ g.m.ch \in AllChannels
  BY AheadIs
<1>2. g.m.size \in Nat /\ g.units \in Seq(Nat) /\ Len(g.units) \in Nat
  BY <1>1 DEF Chunks, Headers
<1>3. o \in Seq(Nat) /\ Len(o) \in Nat
  BY <1>1 DEF Points
<1>4. /\ whole \in Seq(Nat) /\ Len(whole) = Len(o) + Len(g.units)
      /\ Len(whole) <= g.m.size
      /\ g.m.size > 0 => whole # <<>>
      /\ g.m.type = ChunkSizeType => Ends(s, g)
  BY <1>1, DataIs
<1>5. g.m.type = ChunkSizeType => g.m.size = 1
  BY <1>1 DEF Follows
<1>8. Len(whole) \in Nat
  <2>1. whole \in Seq(Nat)
    BY <1>4
  <2> QED BY <2>1
<1> QED BY <1>2, <1>3, <1>4, <1>5, <1>8, Zenon

\* A chunk size message announces its only unit.
LEMMA NewSize ==
  ASSUME NEW F, NEW s, NEW g, Ahead(F, s, g), g.m.type = ChunkSizeType
  PROVE  Data(s, g)[1] = g.units[1] /\ g.units[1] \in ChunkSizes
<1>1. /\ s \in Points /\ InPart(s) /\ g \in Chunks /\ Follows(s, g)
  BY AheadIs
<1>2. g.units[1] \in ChunkSizes
  BY <1>1 DEF Follows
<1>3. Data(s, g)[1] = g.units[1]
  BY <1>1, DataIs
<1> QED BY <1>2, <1>3

\* A header that announces no data is a chunk without units.
LEMMA EmptyDataStep ==
  ASSUME NEW F, NEW s, NEW g, Ahead(F, s, g), NEW d, Feed(F, d), Agrees(s), InData(s, g, d),
         EmptyData, NEW t, t = After(s, g)
  PROVE  Feed(F, t.at)' /\ Agrees(t)' /\ Between(t, t.at)'
<1> DEFINE c == g.m.ch
<1>1. /\ s \in Points /\ InPart(s) /\ c \in AllChannels /\ g \in Chunks /\ Follows(s, g)
      /\ s.at \in Nat /\ Len(g.units) \in Nat
      /\ t.at = s.at + LenHead(g.fmt, g.m) + Len(g.units)
  BY AheadIs
<1>2. g.m.size = 0 /\ d = s.at + LenHead(g.fmt, g.m) /\ Knows(t.head)
  BY DEF EmptyData, InData
<1>3. UNCHANGED <<wire, buf, header, prevHeaders, pktIoBufs, chunkSizeIn, got>>
      /\ state' = "NewPacket"
  BY DEF EmptyData, parserVars
<1> DEFINE o == s.open[c]
           whole == Data(s, g)
<1>4. /\ Len(whole) <= g.m.size /\ Len(whole) = Len(o) + Len(g.units)
      /\ o \in Seq(Nat) /\ Len(o) \in Nat /\ Len(whole) \in Nat
      /\ g.m.type = ChunkSizeType => g.m.size = 1
  BY DataAhead, Zenon
<1>13. Ends(s, g) <=> Len(whole) = g.m.size
  BY DEF Ends
<1> HIDE DEF o, whole
<1>5. Len(o) = 0 /\ Len(g.units) = 0 /\ Ends(s, g) /\ g.m.type # ChunkSizeType
  BY <1>1, <1>2, <1>4, <1>13
<1>6. s.open[c] = <<>>
  BY <1>4, <1>5 DEF o
<1>7. t.at = d
  <2>1. LenHead(g.fmt, g.m) \in Nat
    BY HeadLength
  <2> QED BY <1>1, <1>2, <1>5, <2>1
<1>8. Feed(F, t.at)'
  BY <1>3, <1>7 DEF Feed
<1>9. /\ t.open[c] = <<>> /\ t.size = s.size /\ t.sent = s.sent /\ t.head[c].size = 0
      /\ \A e \in AllChannels : e # c => t.open[e] = s.open[e] /\ t.head[e] = s.head[e]
  <2>1. ~(g.m.size > 0)
    BY <1>2
  <2> QED BY <1>2, <1>4, <1>5, <2>1, AfterParts
<1>10. Between(t, t.at)'
  BY <1>2, <1>3 DEF Between, Knows
<1>11. [e \in Slots |-> PacketAt(t, e)] = [e \in Slots |-> PacketAt(s, e)]
  <2>1. ASSUME NEW e \in Slots
        PROVE  PacketAt(t, e) = PacketAt(s, e)
    BY <1>6, <1>9, SlotsAre DEF PacketAt
  <2> QED BY <2>1
<1>12. Agrees(t)'
  BY <1>3, <1>9, <1>11 DEF Agrees
<1> QED BY <1>8, <1>10, <1>12

\* The parser waits for as many units as the chunk has.
LEMMA PacketIs ==
  ASSUME NEW F, NEW s, NEW g, Ahead(F, s, g), NEW d, Feed(F, d), Agrees(s), InData(s, g, d),
         g.m.ch \in Slots
  PROVE  /\ PacketOf(g.m.ch) = [lenTrans |-> g.m.size, data |-> s.open[g.m.ch]]
         /\ Required(g.m.ch) = Len(g.units)
<1> DEFINE c == g.m.ch
<1>1. /\ s \in Points /\ Follows(s, g) /\ c \in AllChannels /\ header.size = g.m.size
      /\ pktIoBufs[c] = PacketAt(s, c) /\ chunkSizeIn = s.size
  BY AheadIs DEF Agrees, InData
<1>2. PacketOf(c) = [lenTrans |-> g.m.size, data |-> s.open[c]]
  <2>1. CASE s.open[c] = <<>>
    <3>1. pktIoBufs[c] = NoPacket
      BY <1>1, <2>1 DEF PacketAt
    <3> QED BY <1>1, <2>1, <3>1 DEF PacketOf
  <2>2. CASE s.open[c] # <<>>
    <3>1. pktIoBufs[c] = [lenTrans |-> g.m.size, data |-> s.open[c]]
      BY <1>1, <2>2 DEF PacketAt, Follows
    <3>2. pktIoBufs[c].data # NoPacket.data
      BY <2>2, <3>1 DEF NoPacket
    <3>3. pktIoBufs[c] # NoPacket
      BY <3>2
    <3> QED BY <3>1, <3>3 DEF PacketOf
  <2> QED BY <2>1, <2>2
<1>3. PacketOf(c).lenTrans = g.m.size /\ PacketOf(c).data = s.open[c]
  BY <1>2
<1>4. Required(c) = Lesser(s.size, g.m.size - Len(s.open[c]))
  BY <1>1, <1>3 DEF Required
<1>5. Len(g.units) = Lesser(s.size, g.m.size - Len(s.open[c]))
  BY <1>1 DEF Follows
<1> QED BY <1>2, <1>4, <1>5

\* processData takes the units of the chunk, and is behind it.
LEMMA DataStep ==
  ASSUME NEW F, NEW s, NEW g, Ahead(F, s, g), NEW d, Feed(F, d), Agrees(s), InData(s, g, d),
         NEW answer, processData(answer), NEW t, t = After(s, g)
  PROVE  Feed(F, t.at)' /\ Agrees(t)' /\ Between(t, t.at)'
<1> DEFINE c == g.m.ch
           whole == Data(s, g)
<1>1. /\ s \in Points /\ InPart(s) /\ c \in AllChannels /\ g \in Chunks /\ Follows(s, g)
      /\ s.at \in Nat /\ Len(g.units) \in Nat /\ g.m \in Headers /\ c \in Nat
      /\ t.at = s.at + LenHead(g.fmt, g.m) + Len(g.units) /\ g.units \in Seq(Nat)
  BY AheadIs DEF Chunks
<1>2. header.ch = c /\ header.size = g.m.size /\ g.m.size > 0 /\ c < MaxChannels
      /\ d = s.at + LenHead(g.fmt, g.m) /\ Knows(t.head) /\ state = "AmfData"
  BY DEF processData, InData
<1>3. c \in Slots
  BY <1>1, <1>2, SlotsAre
<1>4. Meaning(header) = g.m /\ header.type = g.m.type
  BY <1>3 DEF InData, Meaning
<1>5. PacketOf(c) = [lenTrans |-> g.m.size, data |-> s.open[c]] /\ Required(c) = Len(g.units)
  BY <1>3, PacketIs
<1>6. Len(buf) \in Nat /\ Len(buf) >= Len(g.units) /\ UNCHANGED wire /\ buf \in Seq(Nat)
  <2>1. Needed = DataNeeded
    BY <1>2 DEF Needed
  <2>2. DataNeeded = Required(c)
    <3>1. header.size # 0 /\ ~(header.ch >= MaxChannels)
      BY <1>1, <1>2, ChannelsAssumption
    <3> QED BY <1>2, <3>1 DEF DataNeeded
  <2> QED BY <1>5, <2>1, <2>2 DEF processData, Running, Feed
<1>7. LenHead(g.fmt, g.m) \in Nat
  BY HeadLength
<1>8. SubSeq(buf, 1, Len(g.units)) = g.units
  <2>1. ASSUME NEW i \in 1 .. Len(g.units)
        PROVE  buf[i] = g.units[i] /\ buf[i] \in Nat
    <3>1. i \in 1 .. Len(buf)
          /\ LenHead(g.fmt, g.m) + i <= LenHead(g.fmt, g.m) + Len(g.units)
      BY <1>1, <1>6, <1>7
    <3>2. buf[i] = Fields(g)[LenHead(g.fmt, g.m) + i]
      BY <1>2, <1>7, <3>1, Reads
    <3>3. \A k \in 1 .. Len(g.units) :
             Fields(g)[LenHead(g.fmt, g.m) + k] = g.units[k]
      BY UnitsRead
    <3> QED BY <1>1, <1>6, <3>1, <3>2, <3>3
  <2> DEFINE b == SubSeq(buf, 1, Len(g.units))
  <2>2. /\ b \in Seq(Nat) /\ Len(b) = Len(g.units)
        /\ \A i \in 1 .. Len(g.units) : b[i] = buf[i]
    <3>1. /\ b \in Seq(Nat)
          /\ Len(b) = IF 1 <= Len(g.units) THEN Len(g.units) - 1 + 1 ELSE 0
          /\ \A i \in 1 .. Len(g.units) - 1 + 1 : b[i] = buf[1 + i - 1]
      BY <1>1, <2>1, SubSeqProperties
    <3> HIDE DEF b
    <3> QED BY <1>1, <3>1
  <2> HIDE DEF b
  <2>3. b = g.units
    BY <1>1, <2>1, <2>2, SeqEqual
  <2> QED BY <2>3 DEF b
<1>9. PICK n : n = Len(g.units)
  OBVIOUS
<1>10. /\ Skip(n) /\ state' = "NewPacket"
       /\ pktIoBufs' = [i \in Slots |-> IF i = c THEN Kept(c, whole) ELSE pktIoBufs[i]]
       /\ \/ IsWhole(c, whole) /\ Complete(whole, answer)
          \/ ~IsWhole(c, whole) /\ UNCHANGED <<header, chunkSizeIn, got>>
       /\ UNCHANGED prevHeaders
  <2>1. PacketOf(c).data \o SubSeq(buf, 1, Required(c)) = whole
    <3>1. PacketOf(c).data = s.open[c]
      BY <1>5
    <3> QED BY <1>5, <1>8, <3>1 DEF Data
  <2>2. header.ch = c
    BY <1>2
  <2> HIDE DEF whole, c
  <2> QED BY <1>5, <1>9, <2>1, <2>2 DEF processData
<1>11. Feed(F, t.at)'
  <2>1. n \in Nat /\ n <= Len(buf) /\ t.at = d + n
    BY <1>1, <1>2, <1>6, <1>7, <1>9
  <2>2. Feed(F, d + n)'
    BY <1>6, <1>10, <2>1, SkipFeeds
  <2> QED BY <2>1, <2>2
<1>12. Between(t, t.at)'
  BY <1>2, <1>10 DEF Between, Knows
<1>13. /\ whole \in Seq(Nat) /\ Len(whole) <= g.m.size /\ Len(whole) \in Nat
       /\ whole # <<>> /\ g.m.size \in Nat
       /\ g.m.type = ChunkSizeType => Ends(s, g) /\ whole[1] = g.units[1]
  <2>1. /\ whole \in Seq(Nat) /\ Len(whole) <= g.m.size /\ Len(whole) \in Nat
        /\ g.m.size > 0 => whole # <<>>
        /\ g.m.size \in Nat
        /\ g.m.type = ChunkSizeType => Ends(s, g)
    BY DataAhead, Zenon
  <2>2. g.m.type = ChunkSizeType => whole[1] = g.units[1]
    BY NewSize
  <2> QED BY <1>2, <2>1, <2>2
<1>14. IsWhole(c, whole) <=> Ends(s, g)
  <2>1. PacketOf(c).lenTrans = g.m.size
    BY <1>5
  <2> QED BY <1>13, <2>1 DEF IsWhole, Ends
<1>15. /\ t.open[c] = IF Ends(s, g) THEN <<>> ELSE whole
       /\ \A e \in AllChannels : e # c => t.open[e] = s.open[e] /\ t.head[e] = s.head[e]
       /\ t.head[c] = g.m
       /\ t.size = IF g.m.type = ChunkSizeType THEN g.units[1] ELSE s.size
       /\ t.sent = IF Ends(s, g) /\ g.m.size > 0
                   THEN Append(s.sent, Completed(g.m, whole)) ELSE s.sent
  BY AfterParts
<1> HIDE DEF c, whole
<1>16. pktIoBufs' = [e \in Slots |-> PacketAt(t, e)]
  <2>1. Kept(c, whole) = PacketAt(t, c)
    <3>1. PacketOf(c).lenTrans = g.m.size
      BY <1>5 DEF c
    <3> QED BY <1>13, <1>14, <1>15, <3>1 DEF Kept, PacketAt
  <2>2. \A e \in Slots : e # c => pktIoBufs[e] = PacketAt(t, e)
    BY <1>15, SlotsAre DEF Agrees, PacketAt
  <2> QED BY <1>10, <2>1, <2>2
<1>17. header' \in HeaderType /\ chunkSizeIn' = t.size /\ got' = t.sent
  <2>1. CASE Ends(s, g)
    <3>1. Complete(whole, answer)
      BY <1>10, <1>14, <2>1
    <3>2. header' \in HeaderType
      BY <3>1, ClearedIs DEF Complete
    <3>3. got' = t.sent
      BY <1>2, <1>4, <1>15, <2>1, <3>1 DEF Complete, Agrees
    <3>4. chunkSizeIn' = t.size
      <4>1. CASE g.m.type = ChunkSizeType
        <5>1. whole[1] = g.units[1] /\ g.units[1] \in Nat \ {0}
          BY <1>1, <1>13, <4>1, SizesAre DEF Follows
        <5> QED BY <1>4, <1>15, <3>1, <4>1, <5>1 DEF Complete, NewChunkSize
      <4>2. CASE g.m.type # ChunkSizeType
        BY <1>4, <1>15, <3>1, <4>2 DEF Complete, NewChunkSize, Agrees
      <4> QED BY <4>1, <4>2
    <3> QED BY <3>2, <3>3, <3>4
  <2>2. CASE ~Ends(s, g)
    BY <1>10, <1>13, <1>14, <1>15, <2>2 DEF Agrees
  <2> QED BY <2>1, <2>2
<1>18. (prevHeaders \in [Slots -> HeaderType])'
  BY <1>10 DEF Agrees
<1>19. \A e \in AllChannels \ Slots : t.head[e].size = 0
  BY <1>3, <1>15 DEF Agrees, c
<1>20. Agrees(t)'
  BY <1>16, <1>17, <1>18, <1>19 DEF Agrees
<1> QED BY <1>11, <1>12, <1>20

\* The sender is at the end of the stream.
SenderAt(e) ==
  /\ chunkSizeOut = e.size /\ sent = e.sent /\ started \in Nat
  /\ lastHead \in [Channels -> Headers] /\ open \in [Channels -> [n : Nat, put : Nat]]
  /\ e.open[ControlChannel] = <<>>
  /\ \A c \in Channels :
       /\ lastHead[c] = e.head[c]
       /\ IsValid(lastHead[c]) => lastHead[c].type = MediaType
       /\ open[c] = Idle => e.open[c] = <<>>
       /\ open[c] # Idle =>
            /\ IsValid(lastHead[c]) /\ open[c].put \in 1 .. lastHead[c].size - 1
            /\ e.open[c] = SubSeq(Body(open[c].n, lastHead[c].size), 1, open[c].put)

\* The parser is at the j-th point of the stream, or in the chunk behind it.
InChunk(s, g, d) == InExt(s, g, d) \/ InRest(s, g, d) \/ InTimmer(s, g, d) \/ InData(s, g, d)
ParsedTo(T, G, n, j, d) ==
  /\ j \in 0 .. n /\ Agrees(T[j])
  /\ Handshaking(T[j], d) \/ Between(T[j], d) \/ (j < n /\ InChunk(T[j], G[j + 1], d))

\* There is a stream of which the sender has written the end and the parser read the
\* beginning.
Sound == \E F, T, G, n, j, d :
  Trace(F, T, G, n) /\ Feed(F, d) /\ SenderAt(T[n]) /\ ParsedTo(T, G, n, j, d)

\* The inductive invariant.  A connection that is closed has no step left.
IInv ==
  /\ closed = "no" => Sound
  /\ closed # "no" => TypeOK /\ ReceivedAsSent
  /\ LegalPeer => closed \in {"no", "refused"}

\* The points of a stream.
LEMMA TraceIs ==
  ASSUME NEW F, NEW T, NEW G, NEW n, Trace(F, T, G, n), NEW j \in 0 .. n
  PROVE  /\ n \in Nat /\ F \in Seq(Nat) /\ T[j] \in Points /\ InPart(T[j])
         /\ Earlier(T[j], T[n]) /\ T[n].at = Len(F) /\ T[n] \in Points /\ InPart(T[n])
         /\ T[j].at \in Nat /\ T[j].at <= Len(F)
<1>1. n \in Nat /\ F \in Seq(Nat) /\ T[n].at = Len(F)
  BY DEF Trace, Path
<1>2. \A k \in 0 .. n : T[k] \in Points /\ InPart(T[k]) /\ Earlier(T[k], T[n])
  BY DEF Trace, Path
<1>3. n \in 0 .. n
  BY <1>1
<1>4. T[j].at \in Nat /\ T[j].at <= Len(F)
  BY <1>1, <1>2 DEF Points, Earlier
<1> QED BY <1>1, <1>2, <1>3, <1>4

\* A point that is not the last has a chunk ahead of it.
LEMMA TraceAhead ==
  ASSUME NEW F, NEW T, NEW G, NEW n, Trace(F, T, G, n), NEW j \in 0 .. n, j < n
  PROVE  /\ Ahead(F, T[j], G[j + 1]) /\ T[j + 1] = After(T[j], G[j + 1]) /\ j + 1 \in 0 .. n
<1>1. n \in Nat
  BY TraceIs
<1>2. j + 1 \in 1 .. n /\ (j + 1) - 1 = j /\ j + 1 \in 0 .. n
  BY <1>1
<1>3. Link(F, T[j], G[j + 1], T[j + 1])
  <2>1. \A k \in 1 .. n : Link(F, T[k - 1], G[k], T[k])
    BY DEF Trace, Path
  <2>2. Link(F, T[(j + 1) - 1], G[j + 1], T[j + 1])
    BY <1>2, <2>1
  <2> QED BY <1>2, <2>2
<1>4. T[j + 1] = After(T[j], G[j + 1])
  BY <1>3 DEF Link
<1>5. T[j] \in Points /\ InPart(T[j]) /\ F \in Seq(Nat) /\ T[j + 1].at <= Len(F)
  BY <1>2, TraceIs
<1> QED BY <1>2, <1>3, <1>4, <1>5 DEF Ahead

\* what the parser waits for is less than the rest of the chunk that it is in
LEMMA NeededFits ==
  ASSUME NEW F, NEW s, NEW g, Ahead(F, s, g), NEW d, Feed(F, d), Agrees(s),
         Between(s, d) \/ InChunk(s, g, d)
  PROVE  /\ Needed \in Nat /\ d + Needed <= After(s, g).at
         /\ Needed <= 4 \/ Needed <= s.size
<1> DEFINE c == g.m.ch
<1>0. PICK t, l, r, h, u : /\ t = After(s, g).at /\ l = LenBasic(c) /\ r = RestOf(g.fmt)
                           /\ h = LenHead(g.fmt, g.m) /\ u = Len(g.units)
  OBVIOUS
<1>1. /\ s \in Points /\ InPart(s) /\ c \in AllChannels /\ g \in Chunks /\ Follows(s, g)
      /\ s.at \in Nat /\ u \in Nat /\ l \in 1 .. 3 /\ r \in 0 .. 4 /\ c \in Nat
      /\ t = s.at + h + u /\ h \in Nat /\ h >= l + r
      /\ Marked(g.fmt, g.m) => h = l + r + 1
  <2>1. /\ h \in Nat /\ h >= l + r
        /\ Marked(g.fmt, g.m) => h = l + r + 1
    BY <1>0, HeadLength
  <2> QED BY <1>0, <2>1, AheadIs
<1>7. /\ s.at \in Nat /\ l \in 1 .. 3 /\ r \in 0 .. 4 /\ h \in Nat /\ u \in Nat
      /\ h >= l + r /\ t = s.at + h + u
  BY <1>1
<1>2. CASE Between(s, d)
  <2>1. Needed = 1 /\ d = s.at
    BY <1>2 DEF Between, Needed
  <2> QED BY <1>0, <1>1, <2>1
<1>3. CASE InExt(s, g, d)
  <2>1. Needed = header.ext /\ d = s.at + 1 /\ header = Fresh(g.fmt, header.ch, l - 1)
    BY <1>0, <1>3 DEF InExt, Needed
  <2>2. Needed = l - 1 /\ c >= 64
    BY <1>3, <2>1, FreshIs DEF InExt
  <2>3. l \in 2 .. 3
    BY <1>0, <1>1, <2>2 DEF LenBasic
  <2>4. (s.at + 1) + (l - 1) <= t /\ l - 1 \in Nat /\ l - 1 <= 4
    BY <1>7, <2>3
  <2> QED BY <1>0, <2>1, <2>2, <2>4
<1>4. CASE InRest(s, g, d)
  <2>1. Needed = RestOf(header.fmt) /\ d = s.at + l /\ header = Fresh(g.fmt, c, header.ext)
    BY <1>0, <1>4 DEF InRest, Needed
  <2>2. header.fmt = g.fmt
    BY <2>1, FreshIs
  <2>3. Needed = r
    BY <1>0, <2>1, <2>2
  <2>4. (s.at + l) + r <= t /\ r \in Nat /\ r <= 4
    BY <1>7
  <2> QED BY <1>0, <2>1, <2>3, <2>4
<1>5. CASE InTimmer(s, g, d)
  <2>1. Needed = 1 /\ d = s.at + l + r /\ Marked(g.fmt, g.m)
    BY <1>0, <1>5 DEF InTimmer, Needed
  <2> QED BY SMTT(60), <1>0, <1>1, <2>1
<1>6. CASE InData(s, g, d)
  <2>1. Needed = DataNeeded /\ d = s.at + h /\ header.ch = c
    BY <1>0, <1>6 DEF InData, Needed
  <2>2. CASE header.size = 0 \/ header.ch >= MaxChannels
    <3>1. Needed = 0
      BY <2>1, <2>2 DEF DataNeeded
    <3> QED BY <1>0, <1>1, <2>1, <3>1
  <2>3. CASE ~(header.size = 0 \/ header.ch >= MaxChannels)
    <3>1. c < MaxChannels
      BY <1>1, <2>1, <2>3, ChannelsAssumption
    <3>2. c \in Slots
      BY <1>1, <3>1, SlotsAre
    <3>3. Needed = u
      BY <1>0, <1>6, <2>1, <2>3, <3>2, PacketIs DEF DataNeeded
    <3>4. u <= s.size
      <4>1. u = Lesser(s.size, g.m.size - Len(s.open[c]))
        BY <1>0, <1>1 DEF Follows
      <4>2. s.size \in Nat /\ g.m.size \in Nat /\ Len(s.open[c]) \in Nat
        <5>1. s.size \in Nat
          BY <1>1, SizesAre DEF Points
        <5>2. g.m.size \in Nat
          BY <1>1 DEF Chunks, Headers
        <5>3. Len(s.open[c]) \in Nat
          BY <1>1 DEF Points
        <5> QED BY <5>1, <5>2, <5>3
      <4> QED BY <4>1, <4>2 DEF Lesser
    <3> QED BY <1>0, <1>1, <2>1, <3>3, <3>4
  <2> QED BY <2>2, <2>3
<1> QED BY <1>2, <1>3, <1>4, <1>5, <1>6 DEF InChunk

\* the properties are what a sound parser shows
LEMMA SoundIsTyped ==
  ASSUME NEW s \in Points, InPart(s), Agrees(s), NEW d, NEW g,
         Handshaking(s, d) \/ Between(s, d) \/ InChunk(s, g, d)
  PROVE  TypeOK
<1>1. state \in {"RecvHandeshake0", "RecvHandeshake1", "NewPacket", "ExtHeader",
                 "PartHeader", "ExtTimmer", "AmfData"}
  BY DEF Handshaking, Between, InChunk, InExt, InRest, InTimmer, InData
<1>2. header \in HeaderType /\ \A c \in DOMAIN prevHeaders : prevHeaders[c] \in HeaderType
  BY DEF Agrees
<1>3. chunkSizeIn \in Nat \ {0}
  BY SizesAre DEF Agrees, Points
<1>4. ASSUME NEW c \in DOMAIN pktIoBufs
      PROVE  /\ pktIoBufs[c].lenTrans \in Nat
             /\ \/ pktIoBufs[c] = NoPacket
                \/ Len(pktIoBufs[c].data) \in 1 .. pktIoBufs[c].lenTrans - 1
  <2>1. c \in Slots /\ c \in AllChannels /\ pktIoBufs[c] = PacketAt(s, c)
    BY SlotsAre DEF Agrees
  <2>2. CASE s.open[c] = <<>>
    BY <2>1, <2>2 DEF PacketAt, NoPacket
  <2>3. CASE s.open[c] # <<>>
    <3>1. pktIoBufs[c].lenTrans = s.head[c].size /\ pktIoBufs[c].data = s.open[c]
      BY <2>1, <2>3 DEF PacketAt
    <3>2. s.open[c] \in Seq(Nat) /\ s.head[c].size \in Nat /\ Len(s.open[c]) < s.head[c].size
      BY <2>1, <2>3 DEF Points, Headers, InPart
    <3>3. Len(s.open[c]) \in Nat \ {0}
      BY <2>3, <3>2, EmptySeq
    <3> QED BY <3>1, <3>2, <3>3
  <2> QED BY <2>2, <2>3
<1> QED BY <1>1, <1>2, <1>3, <1>4 DEF TypeOK

\* The properties are what a sound connection shows.
LEMMA SoundIs ==
  ASSUME Sound
  PROVE  /\ TypeOK /\ ReceivedAsSent
         /\ Blocked /\ wire = <<>> => got = sent
         /\ Blocked /\ TooMuch => ~LegalPeer
<1>1. PICK F, T, G, n, j, d :
        Trace(F, T, G, n) /\ Feed(F, d) /\ SenderAt(T[n]) /\ ParsedTo(T, G, n, j, d)
  BY DEF Sound
<1> DEFINE s == T[j]
           g == G[j + 1]
<1>2. j \in 0 .. n /\ Agrees(s)
      /\ (Handshaking(s, d) \/ Between(s, d) \/ (j < n /\ InChunk(s, g, d)))
  BY <1>1 DEF ParsedTo
<1>3. /\ n \in Nat /\ F \in Seq(Nat) /\ s \in Points /\ InPart(s) /\ Earlier(s, T[n])
      /\ T[n].at = Len(F) /\ T[n] \in Points /\ s.at \in Nat /\ s.at <= Len(F)
  BY <1>1, <1>2, TraceIs
<1>4. got = s.sent /\ sent = T[n].sent
  BY <1>1, <1>2 DEF Agrees, SenderAt
<1>5. TypeOK
  BY <1>2, <1>3, SoundIsTyped
<1>6. ReceivedAsSent
  BY <1>3, <1>4, BeginsIsPrefix DEF ReceivedAsSent, Earlier, Points
<1>7. /\ d \in Nat /\ Len(buf) \in Nat /\ Len(wire) \in Nat
      /\ d + Len(buf) + Len(wire) = Len(F)
  BY <1>1 DEF Feed
<1>8. Handshaking(s, d) => Needed \in Nat /\ d + Needed <= 3 /\ s.at = 3 /\ Needed <= 4
  BY DEF Handshaking, Needed, Start
<1>9. Between(s, d) => Needed = 1
  BY DEF Between, Needed
<1> HIDE DEF s, g
<1>10. ASSUME Blocked, wire = <<>>
       PROVE  got = sent
  <2>1. Len(buf) < Needed /\ d + Len(buf) = Len(F)
    BY <1>7, <1>10 DEF Blocked
  <2>2. ~Handshaking(s, d)
    <3> SUFFICES ASSUME Handshaking(s, d) PROVE FALSE
      OBVIOUS
    <3>1. Needed \in Nat /\ d + Needed <= 3 /\ s.at = 3
      BY <1>8
    <3> QED BY <1>3, <1>7, <2>1, <3>1
  <2>3. ~(j < n)
    <3> SUFFICES ASSUME j < n PROVE FALSE
      OBVIOUS
    <3>1. Ahead(F, s, g) /\ T[j + 1] = After(s, g) /\ j + 1 \in 0 .. n
      BY <1>1, <1>2, TraceAhead DEF s, g
    <3>2. Needed \in Nat /\ d + Needed <= T[j + 1].at
      BY <1>1, <1>2, <2>2, <3>1, NeededFits
    <3>3. T[j + 1].at \in Nat /\ T[j + 1].at <= Len(F)
      BY <1>1, <3>1, TraceIs
    <3> QED BY <1>3, <1>7, <2>1, <3>2, <3>3
  <2>4. j = n
    BY <1>2, <1>3, <2>3
  <2> QED BY <1>4, <2>4 DEF s
<1>11. ASSUME Blocked, TooMuch, LegalPeer
       PROVE  FALSE
  <2>1. Len(buf) < Needed /\ Len(buf) > MaxBuffered
    BY <1>11 DEF Blocked, TooMuch
  <2>2. Needed \in Nat /\ (Needed <= 4 \/ Needed <= s.size)
    <3>1. CASE Handshaking(s, d)
      BY <1>8, <3>1
    <3>2. CASE Between(s, d)
      BY <1>9, <3>2
    <3>3. CASE j < n /\ InChunk(s, g, d)
      <4>1. Ahead(F, s, g)
        BY <1>1, <1>2, <3>3, TraceAhead DEF s, g
      <4> QED BY <1>1, <1>2, <3>3, <4>1, NeededFits
    <3> QED BY <1>2, <3>1, <3>2, <3>3 DEF s, g
  <2>3. s.size \in Nat /\ s.size <= MaxBuffered /\ MaxBuffered \in Nat /\ MaxBuffered > 2
    <3>1. s.size \in ChunkSizes \/ s.size = DefaultSize
      BY <1>3 DEF Points, Sizes
    <3>2. MaxBuffered \in Nat /\ MaxBuffered > 2 /\ DefaultSize \in Nat
          /\ DefaultSize <= MaxBuffered /\ ChunkSizes \subseteq Nat
      BY SizesAssumption
    <3>3. \A q \in ChunkSizes : q <= MaxBuffered
      BY <1>11 DEF LegalPeer
    <3> QED BY <3>1, <3>2, <3>3
  <2> QED BY <1>7, <2>1, <2>2, <2>3
<1> QED BY <1>5, <1>6, <1>10, <1>11

\* A cleared header says nothing.
LEMMA MeaningCleared ==
  Meaning(Cleared) \in Headers /\ ~IsValid(Meaning(Cleared)) /\ Meaning(Cleared).size = 0
BY DEF Meaning, Cleared, Headers, Kinds, IsValid

\* The start is a point.
LEMMA StartIs == Start \in Points /\ InPart(Start) /\ Earlier(Start, Start) /\ Start.at = 3
<1>1. /\ Start.at = 3 /\ Start.size = DefaultSize /\ Start.sent = <<>>
      /\ Start.head = [c \in AllChannels |-> Meaning(Cleared)]
      /\ Start.open = [c \in AllChannels |-> <<>>]
  BY DEF Start
<1>2. DefaultSize \in Sizes /\ <<>> \in Seq(Messages) /\ <<>> \in Seq(Nat)
  BY DEF Sizes
<1>3. Start \in Points
  BY <1>1, <1>2, MeaningCleared DEF Start, Points
<1>4. InPart(Start)
  BY <1>1, MeaningCleared DEF InPart
<1>5. Earlier(Start, Start)
  BY <1>1 DEF Earlier, Begins
<1> QED BY <1>1, <1>3, <1>4, <1>5

\* At first the stream is the handshake, which nobody has read.
LEMMA InitSound == Init => Sound
<1> SUFFICES ASSUME Init PROVE Sound
  OBVIOUS
<1> DEFINE F == <<3, 0, 0>>
           T == [i \in Nat |-> Start]
<1>1. T[0] = Start /\ F \in Seq(Nat) /\ Len(F) = 3
  OBVIOUS
<1> HIDE DEF T
<1>2. Path(F, T, T, 0)
  <2>1. ASSUME NEW j \in 0 .. 0
        PROVE  T[j] \in Points /\ InPart(T[j]) /\ Earlier(T[j], T[0])
    <3>1. j = 0
      OBVIOUS
    <3> QED BY <1>1, <3>1, StartIs
  <2>2. \A j \in 1 .. 0 : Link(F, T[j - 1], T[j], T[j])
    OBVIOUS
  <2>3. T[0].at = Len(F) /\ 0 \in Nat
    BY <1>1, StartIs
  <2> HIDE DEF F
  <2> QED BY <2>1, <2>2, <2>3 DEF Path
<1>3. Trace(F, T, T, 0)
  BY <1>1, <1>2 DEF Trace
<1>4. Feed(F, 0)
  <2>1. buf = <<>> /\ wire = F
    BY DEF Init
  <2>2. Len(buf) = 0 /\ buf \in Seq(Nat)
    BY <2>1
  <2>3. \A i \in 1 .. Len(wire) : wire[i] = F[0 + Len(buf) + i]
    BY <2>1, <2>2
  <2>4. 0 + Len(buf) + Len(wire) = Len(F) /\ wire \in Seq(Nat)
    BY <1>1, <2>1, <2>2
  <2> QED BY <2>2, <2>3, <2>4 DEF Feed
<1>5. SenderAt(Start)
  <2>1. Channels \subseteq AllChannels /\ ControlChannel \in AllChannels
    BY DEF AllChannels
  <2>2. Idle \in [n : Nat, put : Nat]
    BY DEF Idle
  <2>3. /\ chunkSizeOut = DefaultSize /\ lastHead = [c \in Channels |-> Meaning(Cleared)]
        /\ open = [c \in Channels |-> Idle] /\ started = 0 /\ sent = <<>>
    BY DEF Init
  <2>4. \A c \in Channels : /\ lastHead[c] = Start.head[c] /\ ~IsValid(lastHead[c])
                            /\ open[c] = Idle /\ Start.open[c] = <<>>
    BY <2>1, <2>3, MeaningCleared DEF Start
  <2>5. lastHead \in [Channels -> Headers] /\ open \in [Channels -> [n : Nat, put : Nat]]
    BY <2>2, <2>3, MeaningCleared
  <2>6. Start.open[ControlChannel] = <<>> /\ Start.size = DefaultSize /\ Start.sent = <<>>
    BY <2>1 DEF Start
  <2> QED BY <2>3, <2>4, <2>5, <2>6 DEF SenderAt
<1>6. ParsedTo(T, T, 0, 0, 0)
  <2>1. Start.head = [c \in AllChannels |-> Meaning(Cleared)]
        /\ Start.open = [c \in AllChannels |-> <<>>]
        /\ Start.size = DefaultSize /\ Start.sent = <<>>
    BY DEF Start
  <2>2. pktIoBufs = [c \in Slots |-> PacketAt(Start, c)]
    BY <2>1, SlotsAre DEF Init, PacketAt
  <2>3. Agrees(Start)
    BY <2>1, <2>2, ClearedIs, MeaningCleared DEF Init, Agrees
  <2>4. Handshaking(Start, 0)
    BY <2>1, SlotsAre DEF Init, Handshaking, Knows
  <2> QED BY <1>1, <2>3, <2>4 DEF ParsedTo
<1>7. SenderAt(T[0])
  BY <1>1, <1>5
<1> HIDE DEF F
<1> QED BY <1>3, <1>4, <1>6, <1>7 DEF Sound

\* OnReadCompleted takes fields of the wire into m_buf; the stream is the same.
LEMMA ReadFeeds ==
  ASSUME NEW F, NEW d, Feed(F, d), NEW n \in 1 .. Len(wire),
         buf' = buf \o SubSeq(wire, 1, n), wire' = SubSeq(wire, n + 1, Len(wire))
  PROVE  Feed(F, d)'
<1> DEFINE x == SubSeq(wire, 1, n)
<1>1. PICK b, w : b = Len(buf) /\ w = Len(wire)
  OBVIOUS
<1>2. /\ buf \in Seq(Nat) /\ wire \in Seq(Nat) /\ d \in Nat /\ d + b + w = Len(F)
      /\ b \in Nat /\ w \in Nat /\ n \in 1 .. w
  BY <1>1 DEF Feed
<1>3. /\ x \in Seq(Nat) /\ Len(x) = n
      /\ \A i \in 1 .. n : x[i] = wire[i]
  <2>1. \A i \in 1 .. n : wire[i] \in Nat
    BY <1>1, <1>2
  <2>2. /\ x \in Seq(Nat) /\ Len(x) = IF 1 <= n THEN n - 1 + 1 ELSE 0
        /\ \A i \in 1 .. n - 1 + 1 : x[i] = wire[1 + i - 1]
    BY <1>2, <2>1, SubSeqProperties
  <2> HIDE DEF x
  <2> QED BY <1>2, <2>2
<1>4. /\ wire' \in Seq(Nat) /\ Len(wire') = w - n
      /\ \A i \in 1 .. w - n : wire'[i] = wire[n + i]
  <2>1. \A i \in (n + 1) .. w : wire[i] \in Nat
    BY <1>1, <1>2
  <2>2. /\ wire' \in Seq(Nat) /\ Len(wire') = IF n + 1 <= w THEN w - (n + 1) + 1 ELSE 0
        /\ \A i \in 1 .. w - (n + 1) + 1 : wire'[i] = wire[(n + 1) + i - 1]
    BY <1>1, <1>2, <2>1, SubSeqProperties
  <2>3. w - (n + 1) + 1 = w - n /\ (IF n + 1 <= w THEN w - (n + 1) + 1 ELSE 0) = w - n
    BY <1>2
  <2>4. \A i \in 1 .. w - n : (n + 1) + i - 1 = n + i
    BY <1>2
  <2> QED BY <2>2, <2>3, <2>4
<1> HIDE DEF x
<1>5. /\ buf' \in Seq(Nat) /\ Len(buf') = b + n
      /\ \A i \in 1 .. b : buf'[i] = buf[i]
      /\ \A i \in 1 .. n : buf'[b + i] = x[i]
  <2>1. buf' = buf \o x /\ buf \in Seq(Nat) /\ x \in Seq(Nat)
    BY <1>2, <1>3 DEF x
  <2>2. /\ buf \o x \in Seq(Nat) /\ Len(buf \o x) = Len(buf) + Len(x)
        /\ \A i \in 1 .. Len(buf) : (buf \o x)[i] = buf[i]
        /\ \A i \in 1 .. Len(x) : (buf \o x)[Len(buf) + i] = x[i]
    BY <2>1, JoinedNats
  <2> QED BY <1>1, <1>3, <2>1, <2>2
<1>6. ASSUME NEW i \in 1 .. Len(buf')
      PROVE  buf'[i] = F[d + i]
  <2>1. CASE i <= b
    <3>1. i \in 1 .. b
      BY <1>2, <1>5, <2>1
    <3> QED BY <1>1, <1>5, <3>1 DEF Feed
  <2>2. CASE i > b
    <3>1. i - b \in 1 .. n /\ b + (i - b) = i /\ i - b \in 1 .. w
      BY <1>2, <1>5, <2>2
    <3>2. buf'[i] = wire[i - b]
      BY <1>3, <1>5, <3>1
    <3>3. wire[i - b] = F[d + b + (i - b)]
      BY <1>1, <3>1 DEF Feed
    <3>4. d + b + (i - b) = d + i
      BY <1>2, <3>1
    <3> QED BY <3>2, <3>3, <3>4
  <2> QED BY SMTT(60), <1>2, <1>5, <2>1, <2>2
<1>7. ASSUME NEW i \in 1 .. Len(wire')
      PROVE  wire'[i] = F[d + Len(buf') + i]
  <2>1. i \in 1 .. w - n /\ n + i \in 1 .. w
    BY <1>2, <1>4
  <2>2. wire'[i] = F[d + b + (n + i)]
    BY <1>1, <1>4, <2>1 DEF Feed
  <2>3. d + b + (n + i) = d + Len(buf') + i
    <3>1. \A x1, x2, x3, x4 \in Nat : x1 + x2 + (x3 + x4) = x1 + (x2 + x3) + x4
      OBVIOUS
    <3>2. i \in Nat /\ n \in Nat
      BY <1>2, <2>1
    <3>3. d + b + (n + i) = d + (b + n) + i
      BY <1>2, <3>1, <3>2
    <3>4. Len(buf') = b + n
      BY <1>5
    <3> QED BY <3>3, <3>4
  <2> QED BY <2>2, <2>3
<1>8. d + Len(buf') + Len(wire') = Len(F)
  <2>1. \A x1, x2, x3, k \in Nat : k <= x3 => x1 + (x2 + k) + (x3 - k) = x1 + x2 + x3
    OBVIOUS
  <2>2. d + (b + n) + (w - n) = d + b + w
    <3>1. n \in Nat /\ n <= w
      BY <1>2
    <3> QED BY <1>2, <2>1, <3>1
  <2> QED BY <1>2, <1>4, <1>5, <2>2
<1> QED BY <1>2, <1>4, <1>5, <1>6, <1>7, <1>8 DEF Feed

\* SoundIs as a formula.
LEMMA SoundProperties ==
  Sound => /\ TypeOK /\ ReceivedAsSent
           /\ Blocked /\ wire = <<>> => got = sent
           /\ Blocked /\ TooMuch => ~LegalPeer
BY SoundIs

\* what the parser's steps change of a sound state
LEMMA Moved ==
  ASSUME NEW F, NEW T, NEW G, NEW n, Trace(F, T, G, n), SenderAt(T[n]), UNCHANGED senderVars,
         NEW i, NEW e, Feed(F, e)', ParsedTo(T, G, n, i, e)'
  PROVE  Sound'
<1>1. SenderAt(T[n])'
  BY DEF SenderAt, senderVars
<1> QED BY <1>1 DEF Sound

\* OnReadCompleted: it closes the connection only of a peer whose chunks do not fit.
LEMMA ReadStep ==
  ASSUME NEW n \in 1 .. Len(wire), Read(n), Sound, closed = "no"
  PROVE  /\ closed' = "no" => Sound'
         /\ closed' # "no" => (TypeOK /\ ReceivedAsSent)'
         /\ LegalPeer' => closed' = "no"
<1>1. CASE TooMuch
  <2>1. closed' = "too large" /\ Blocked
    BY <1>1 DEF Read
  <2>2. ~LegalPeer /\ TypeOK /\ ReceivedAsSent
    BY <1>1, <2>1, SoundIs
  <2>3. UNCHANGED <<senderVars, state, parserVars>>
    BY DEF Read
  <2>4. TypeOK' /\ ReceivedAsSent' /\ ~LegalPeer'
    BY <2>2, <2>3 DEF TypeOK, ReceivedAsSent, LegalPeer, senderVars, parserVars
  <2> QED BY <2>1, <2>4
<1>2. CASE ~TooMuch
  <2>1. /\ closed' = "no" /\ buf' = buf \o SubSeq(wire, 1, n)
        /\ wire' = SubSeq(wire, n + 1, Len(wire)) /\ UNCHANGED <<senderVars, state, parserVars>>
    BY <1>2 DEF Read
  <2>2. PICK F, T, G, m, j, d :
          Trace(F, T, G, m) /\ Feed(F, d) /\ SenderAt(T[m]) /\ ParsedTo(T, G, m, j, d)
    BY DEF Sound
  <2>3. Feed(F, d)'
    BY <2>1, <2>2, ReadFeeds
  <2>4. ParsedTo(T, G, m, j, d)'
    BY <2>1, <2>2 DEF ParsedTo, Agrees, Handshaking, Between, InChunk, InExt, InRest, InTimmer,
                      InData, Knows, parserVars
  <2>5. Sound'
    BY <2>1, <2>2, <2>3, <2>4, Moved
  <2> QED BY <2>1, <2>5
<1> QED BY <1>1, <1>2

\* A step that leaves the connection sound keeps the invariant.
LEMMA StillSound ==
  ASSUME Sound', closed' \in {"no", "refused"}
  PROVE  IInv'
<1>1. Sound' => TypeOK' /\ ReceivedAsSent'
  BY SoundProperties, PTL
<1> QED BY <1>1 DEF IInv

\* The steps of the handshake.
LEMMA HandshakeStep ==
  ASSUME Sound, closed = "no", NEW answer,
         processRecvHandshake0(answer) \/ processRecvHandshake1(answer)
  PROVE  IInv'
<1>1. PICK F, T, G, n, j, d :
        Trace(F, T, G, n) /\ Feed(F, d) /\ SenderAt(T[n]) /\ ParsedTo(T, G, n, j, d)
  BY DEF Sound
<1>2. /\ UNCHANGED <<senderVars, wire, parserVars>> /\ Running
      /\ state \in {"RecvHandeshake0", "RecvHandeshake1"}
  BY DEF processRecvHandshake0, processRecvHandshake1
<1>3. Handshaking(T[j], d) /\ Agrees(T[j]) /\ j \in 0 .. n
  BY <1>1, <1>2 DEF ParsedTo, Between, InChunk, InExt, InRest, InTimmer, InData
<1>4. T[j] = Start /\ Knows(T[j].head) /\ T[j].at = 3
  BY <1>3, StartIs DEF Handshaking
<1>5. Len(buf) >= Needed
  BY <1>2 DEF Running
<1>6. Agrees(T[j])' /\ Knows(T[j].head)'
  BY <1>2, <1>3, <1>4 DEF Agrees, Knows, parserVars
<1>7. CASE answer = -1
  <2>1. closed' = "refused" /\ UNCHANGED state
    BY <1>7 DEF processRecvHandshake0, processRecvHandshake1
  <2>2. TypeOK /\ ReceivedAsSent
    BY SoundIs
  <2>3. TypeOK' /\ ReceivedAsSent'
    BY <1>2, <2>1, <2>2 DEF TypeOK, ReceivedAsSent, senderVars, parserVars
  <2> QED BY <2>1, <2>3 DEF IInv
<1>8. CASE answer # -1 /\ processRecvHandshake0(answer)
  <2>1. state = "RecvHandeshake0" /\ state' = "RecvHandeshake1" /\ closed' = "no" /\ Skip(2)
    BY <1>8 DEF processRecvHandshake0
  <2>2. d = 0 /\ Len(buf) >= 2
    BY <1>3, <1>5, <2>1 DEF Handshaking, Needed
  <2>3. Feed(F, 0 + 2)'
    BY <1>1, <1>2, <2>1, <2>2, SkipFeeds
  <2>4. Feed(F, 2)'
    BY <2>3
  <2>5. ParsedTo(T, G, n, j, 2)'
    BY <1>3, <1>4, <1>6, <2>1 DEF ParsedTo, Handshaking
  <2>6. Sound'
    BY <1>1, <1>2, <2>4, <2>5, Moved
  <2> QED BY <2>1, <2>6, StillSound
<1>9. CASE answer # -1 /\ processRecvHandshake1(answer)
  <2>1. state = "RecvHandeshake1" /\ state' = "NewPacket" /\ closed' = "no" /\ Skip(1)
    BY <1>9 DEF processRecvHandshake1
  <2>2. d = 2 /\ Len(buf) >= 1
    BY <1>3, <1>5, <2>1 DEF Handshaking, Needed
  <2>3. Feed(F, 2 + 1)'
    BY <1>1, <1>2, <2>1, <2>2, SkipFeeds
  <2>4. Feed(F, 3)'
    BY <2>3
  <2>5. ParsedTo(T, G, n, j, 3)'
    BY <1>3, <1>4, <1>6, <2>1 DEF ParsedTo, Between
  <2>6. Sound'
    BY <1>1, <1>2, <2>4, <2>5, Moved
  <2> QED BY <2>1, <2>6, StillSound
<1> QED BY <1>7, <1>8, <1>9

\* A parser that has a first byte is not at the end of the stream.
LEMMA ChunkFollows ==
  ASSUME NEW F, NEW T, NEW G, NEW n, Trace(F, T, G, n), NEW j \in 0 .. n, NEW d, Feed(F, d),
         Between(T[j], d), Running
  PROVE  j < n
<1>1. Len(buf) >= 1
  BY DEF Running, Needed, Between
<1>2. d + Len(buf) + Len(wire) = Len(F) /\ d \in Nat /\ Len(buf) \in Nat /\ Len(wire) \in Nat
  BY DEF Feed
<1>3. d = T[j].at /\ n \in Nat /\ T[n].at = Len(F)
  BY TraceIs DEF Between
<1>4. j # n
  BY <1>1, <1>2, <1>3
<1> QED BY <1>3, <1>4

\* The steps in a header.
LEMMA HeaderStep ==
  ASSUME Sound, closed = "no",
         \/ processInitialHeader \/ processExtHeader
         \/ processRemainingHeader \/ processExtTimmer
  PROVE  IInv'
<1>1. PICK F, T, G, n, j, d :
        Trace(F, T, G, n) /\ Feed(F, d) /\ SenderAt(T[n]) /\ ParsedTo(T, G, n, j, d)
  BY DEF Sound
<1> DEFINE s == T[j]
           g == G[j + 1]
<1>2. j \in 0 .. n /\ Agrees(s)
      /\ (Handshaking(s, d) \/ Between(s, d) \/ (j < n /\ InChunk(s, g, d)))
  BY <1>1 DEF ParsedTo
<1>3. Running /\ UNCHANGED senderVars /\ closed' = "no"
      /\ state \in {"NewPacket", "ExtHeader", "PartHeader", "ExtTimmer"}
  BY DEF processInitialHeader, processExtHeader, processRemainingHeader, processExtTimmer
<1>4. Between(s, d) \/ (j < n /\ InChunk(s, g, d))
  BY <1>2, <1>3 DEF Handshaking
<1>5. j < n
  BY <1>1, <1>2, <1>3, <1>4, ChunkFollows
<1>6. Ahead(F, s, g)
  BY <1>1, <1>2, <1>5, TraceAhead
<1>7. SUFFICES \E e : Feed(F, e)' /\ Agrees(s)' /\ InChunk(s, g, e)'
  <2>1. PICK e : Feed(F, e)' /\ Agrees(s)' /\ InChunk(s, g, e)'
    BY <1>7
  <2>2. ParsedTo(T, G, n, j, e)'
    BY <1>2, <1>5, <2>1 DEF ParsedTo
  <2>3. Sound'
    BY <1>1, <1>3, <2>1, <2>2, Moved
  <2> QED BY <1>3, <2>3, StillSound
<1> HIDE DEF s, g
<1>8. CASE processInitialHeader
  <2>1. Between(s, d)
    BY <1>4, <1>8 DEF processInitialHeader, InChunk, InExt, InRest, InTimmer, InData
  <2>2. /\ Feed(F, d + 1)' /\ Agrees(s)'
        /\ InExt(s, g, d + 1)' \/ InRest(s, g, d + 1)' \/ InData(s, g, d + 1)'
    BY <1>1, <1>2, <1>6, <1>8, <2>1, InitialHeader
  <2> QED BY <2>2 DEF InChunk
<1>9. CASE processExtHeader
  <2>1. InExt(s, g, d)
    BY <1>4, <1>9 DEF processExtHeader, Between, InChunk, InRest, InTimmer, InData
  <2>2. PICK e : e = d + (LenBasic(g.m.ch) - 1)
    OBVIOUS
  <2>3. Feed(F, e)' /\ Agrees(s)' /\ InRest(s, g, e)'
    BY <1>1, <1>2, <1>6, <1>9, <2>1, <2>2, ExtHeader
  <2> QED BY <2>3 DEF InChunk
<1>10. CASE processRemainingHeader
  <2>1. InRest(s, g, d)
    BY <1>4, <1>10 DEF processRemainingHeader, Between, InChunk, InExt, InTimmer, InData
  <2>2. PICK e : e = d + RestOf(g.fmt)
    OBVIOUS
  <2>3. Feed(F, e)' /\ Agrees(s)' /\ (InTimmer(s, g, e)' \/ InData(s, g, e)')
    BY <1>1, <1>2, <1>6, <1>10, <2>1, <2>2, RemainingHeader
  <2> QED BY <2>3 DEF InChunk
<1>11. CASE processExtTimmer
  <2>1. InTimmer(s, g, d)
    BY <1>4, <1>11 DEF processExtTimmer, Between, InChunk, InExt, InRest, InData
  <2>2. Feed(F, d + 1)' /\ Agrees(s)' /\ InData(s, g, d + 1)'
    BY <1>1, <1>2, <1>6, <1>11, <2>1, ExtTimmer
  <2> QED BY <2>2 DEF InChunk
<1> QED BY <1>8, <1>9, <1>10, <1>11

\* The steps behind a header: data, no data, or a channel that is too high, which no legal peer
\* uses.
LEMMA BodyStep ==
  ASSUME Sound, closed = "no", NEW answer, answer \in Answers,
         EmptyData \/ processData(answer) \/ ChannelTooHigh
  PROVE  IInv'
<1>1. PICK F, T, G, n, j, d :
        Trace(F, T, G, n) /\ Feed(F, d) /\ SenderAt(T[n]) /\ ParsedTo(T, G, n, j, d)
  BY DEF Sound
<1> DEFINE s == T[j]
           g == G[j + 1]
           t == T[j + 1]
<1>2. j \in 0 .. n /\ Agrees(s)
      /\ (Handshaking(s, d) \/ Between(s, d) \/ (j < n /\ InChunk(s, g, d)))
  BY <1>1 DEF ParsedTo
<1>3. Running /\ UNCHANGED senderVars /\ state = "AmfData"
  BY DEF EmptyData, processData, ChannelTooHigh
<1>4. j < n /\ InData(s, g, d)
  BY <1>2, <1>3 DEF Handshaking, Between, InChunk, InExt, InRest, InTimmer
<1>5. Ahead(F, s, g) /\ t = After(s, g) /\ j + 1 \in 0 .. n
  BY <1>1, <1>2, <1>4, TraceAhead
<1> HIDE DEF s, g, t
<1>6. ASSUME Feed(F, t.at)', Agrees(t)', Between(t, t.at)', closed' \in {"no", "refused"}
      PROVE  IInv'
  <2>1. ParsedTo(T, G, n, j + 1, t.at)'
    BY <1>5, <1>6 DEF ParsedTo, t
  <2>2. PICK i, e : i = j + 1 /\ e = t.at
    OBVIOUS
  <2>3. ParsedTo(T, G, n, i, e)' /\ Feed(F, e)'
    BY <1>6, <2>1, <2>2
  <2>4. Sound'
    BY <1>1, <1>3, <2>3, Moved
  <2> QED BY <1>6, <2>4, StillSound
<1>7. CASE EmptyData
  <2>1. closed' = "no"
    BY <1>7 DEF EmptyData
  <2>2. Feed(F, t.at)' /\ Agrees(t)' /\ Between(t, t.at)'
    BY <1>1, <1>2, <1>4, <1>5, <1>7, EmptyDataStep
  <2> QED BY <1>6, <2>1, <2>2
<1>8. CASE processData(answer)
  <2>1. closed' \in {"no", "refused"}
    BY <1>8 DEF processData, Complete
  <2>2. Feed(F, t.at)' /\ Agrees(t)' /\ Between(t, t.at)'
    BY <1>1, <1>2, <1>4, <1>5, <1>8, DataStep
  <2> QED BY <1>6, <2>1, <2>2
<1>9. CASE ChannelTooHigh
  <2>1. /\ closed' = "channel" /\ UNCHANGED <<senderVars, state, parserVars>>
        /\ header.size > 0 /\ header.ch >= MaxChannels
    BY <1>9 DEF ChannelTooHigh
  <2>2. TypeOK /\ ReceivedAsSent
    BY SoundIs
  <2>3. TypeOK' /\ ReceivedAsSent'
    BY <2>1, <2>2 DEF TypeOK, ReceivedAsSent, senderVars, parserVars
  <2> DEFINE c == g.m.ch
  <2>4. c \in AllChannels /\ IsValid(g.m) /\ c >= MaxChannels /\ c \in Nat
    BY <1>4, <1>5, <2>1, AheadIs DEF InData, Follows
  <2>5. c \in Channels
    BY <2>4, ChannelsAssumption DEF AllChannels
  <2>6. t.head[c] = g.m
    BY <1>5, AfterHead
  <2>7. Earlier(t, T[n])
    BY <1>1, <1>5, TraceIs DEF t
  <2>8. IsValid(T[n].head[c]) /\ lastHead[c] = T[n].head[c]
    BY <1>1, <2>4, <2>5, <2>6, <2>7 DEF Earlier, SenderAt
  <2>9. ~LegalPeer
    <3>1. ~(c < MaxChannels)
      BY <2>4, ChannelsAssumption
    <3> QED BY <2>5, <2>8, <3>1 DEF LegalPeer
  <2>10. ~LegalPeer'
    BY <2>1, <2>9 DEF LegalPeer, senderVars
  <2> QED BY <2>1, <2>3, <2>10 DEF IInv
<1> QED BY <1>7, <1>8, <1>9

\* What is written is at the end of the stream.
LEMMA MoreOnTheWire ==
  ASSUME NEW F, NEW d, Feed(F, d), NEW X \in Seq(Nat), wire' = wire \o X, UNCHANGED buf,
         F \in Seq(Nat)
  PROVE  Feed(F \o X, d)'
<1>1. PICK b, w, x, f : b = Len(buf) /\ w = Len(wire) /\ x = Len(X) /\ f = Len(F)
  OBVIOUS
<1>2. /\ buf \in Seq(Nat) /\ wire \in Seq(Nat) /\ d \in Nat /\ d + b + w = f
      /\ b \in Nat /\ w \in Nat /\ x \in Nat /\ f \in Nat
  BY <1>1 DEF Feed
<1>3. /\ wire' \in Seq(Nat) /\ Len(wire') = w + x
      /\ \A i \in 1 .. w : wire'[i] = wire[i]
      /\ \A i \in 1 .. x : wire'[w + i] = X[i]
  BY <1>1, <1>2, JoinedNats
<1>4. /\ F \o X \in Seq(Nat) /\ Len(F \o X) = f + x
      /\ \A i \in 1 .. f : (F \o X)[i] = F[i]
      /\ \A i \in 1 .. x : (F \o X)[f + i] = X[i]
  BY <1>1, JoinedNats
<1>5. ASSUME NEW i \in 1 .. Len(buf')
      PROVE  buf'[i] = (F \o X)[d + i]
  <2>1. i \in 1 .. b /\ d + i \in 1 .. f
    BY <1>1, <1>2
  <2>2. buf[i] = F[d + i]
    BY <1>1, <2>1 DEF Feed
  <2> QED BY <1>4, <2>1, <2>2
<1>6. ASSUME NEW i \in 1 .. Len(wire')
      PROVE  wire'[i] = (F \o X)[d + Len(buf') + i]
  <2>1. Len(buf') = b
    BY <1>1
  <2>2. CASE i <= w
    <3>1. i \in 1 .. w /\ d + b + i \in 1 .. f
      BY <1>2, <1>3, <2>2
    <3>2. wire[i] = F[d + b + i]
      BY <1>1, <3>1 DEF Feed
    <3> QED BY <1>3, <1>4, <2>1, <3>1, <3>2
  <2>3. CASE i > w
    <3>1. i - w \in 1 .. x /\ w + (i - w) = i /\ f + (i - w) = d + b + i
      BY <1>2, <1>3, <2>3
    <3>2. wire'[i] = X[i - w] /\ (F \o X)[f + (i - w)] = X[i - w]
      BY <1>3, <1>4, <3>1
    <3>3. (F \o X)[d + b + i] = X[i - w]
      BY <3>1, <3>2
    <3> QED BY <2>1, <3>2, <3>3
  <2>4. i <= w \/ i > w
    BY <1>2, <1>3
  <2> QED BY <2>2, <2>3, <2>4
<1>7. d + Len(buf') + Len(wire') = Len(F \o X)
  <2>1. d + b + (w + x) = f + x
    <3>1. \A x1, x2, x3, x4 \in Nat : x1 + x2 + (x3 + x4) = (x1 + x2 + x3) + x4
      OBVIOUS
    <3> QED BY <1>2, <3>1
  <2> QED BY <1>1, <1>3, <1>4, <2>1
<1> QED BY <1>2, <1>3, <1>5, <1>6, <1>7 DEF Feed

\* whatever a sender puts on the wire, if it is chunks that follow those sent
LEMMA SenderExtends ==
  ASSUME NEW F, NEW T, NEW G, NEW n, Trace(F, T, G, n), NEW d, Feed(F, d),
         NEW j, ParsedTo(T, G, n, j, d), NEW X \in Seq(Nat), NEW U, NEW V, NEW k,
         Path(F \o X, U, V, k), U[0] = T[n],
         wire' = wire \o X, UNCHANGED <<buf, state, parserVars>>, SenderAt(U[k])'
  PROVE  Sound'
<1> DEFINE J == Joint(T, n, U)
           H == Joint(G, n, V)
<1>1. n \in Nat /\ k \in Nat /\ n + k \in Nat /\ F \in Seq(Nat) /\ F \o X \in Seq(Nat)
      /\ T[0] = Start
  BY JoinedNats DEF Path, Trace
<1>2. \A i \in 0 .. n : J[i] = T[i] /\ H[i] = G[i]
  BY <1>1 DEF Joint
<1>3. J[n + k] = U[k]
  <2>1. CASE k = 0
    <3>1. n + k = n /\ n \in 0 .. n
      BY <1>1, <2>1
    <3>2. J[n + k] = T[n]
      BY <1>2, <3>1
    <3> QED BY <2>1, <3>2
  <2>2. CASE k > 0
    <3>1. ~(n + k <= n) /\ (n + k) - n = k
      BY <1>1, <2>2
    <3> QED BY <1>1, <3>1 DEF Joint
  <2> QED BY <1>1, <2>1, <2>2
<1>4. Path(F \o X, J, H, n + k)
  BY <1>1, Extend DEF Trace
<1> HIDE DEF J, H
<1>5. J[0] = Start
  BY <1>1, <1>2
<1>6. Trace(F \o X, J, H, n + k)
  BY <1>1, <1>4, <1>5 DEF Trace
<1>7. Feed(F \o X, d)'
  BY <1>1, MoreOnTheWire
<1>8. j \in 0 .. n /\ j \in 0 .. n + k /\ J[j] = T[j]
  BY <1>1, <1>2 DEF ParsedTo
<1>9. ASSUME j < n
      PROVE  j < n + k /\ H[j + 1] = G[j + 1]
  <2>1. j + 1 \in 0 .. n /\ j < n + k
    BY <1>1, <1>8, <1>9
  <2> QED BY <1>2, <2>1
<1>10. ParsedTo(J, H, n + k, j, d)
  BY <1>8, <1>9 DEF ParsedTo
<1>11. ParsedTo(J, H, n + k, j, d)'
  BY <1>10 DEF ParsedTo, Agrees, Handshaking, Between, InChunk, InExt, InRest, InTimmer,
               InData, Knows, parserVars
<1>12. SenderAt(J[n + k])'
  BY <1>3
<1> QED BY <1>6, <1>7, <1>11, <1>12 DEF Sound

\* A single chunk is written.
LEMMA SendOne ==
  ASSUME NEW F, NEW T, NEW G, NEW n, Trace(F, T, G, n), NEW d, Feed(F, d),
         NEW j, ParsedTo(T, G, n, j, d), NEW g \in Chunks, Follows(T[n], g),
         wire' = wire \o Prefix(g.fmt, g.m) \o g.units,
         UNCHANGED <<buf, state, parserVars>>, SenderAt(After(T[n], g))'
  PROVE  Sound'
<1> DEFINE U == One(T[n], After(T[n], g))
           V == [i \in 1 .. 1 |-> g]
<1>1. n \in 0 .. n /\ F \in Seq(Nat) /\ wire \in Seq(Nat)
  BY DEF Trace, Path, Feed
<1>2. T[n] \in Points /\ InPart(T[n]) /\ T[n].at = Len(F)
  BY <1>1, TraceIs
<1>3. Fields(g) \in Seq(Nat) /\ Prefix(g.fmt, g.m) \in Seq(Nat) /\ g.units \in Seq(Nat)
  BY FieldsAre DEF Follows
<1>4. wire' = wire \o Fields(g)
  <2>1. \A s, t, u \in Seq(Nat) : (s \o t) \o u = s \o (t \o u)
    BY ConcatAssociative
  <2> QED BY <1>1, <1>3, <2>1 DEF Fields
<1>5. Path(F \o Fields(g), U, V, 1)
  BY <1>1, <1>2, OneChunk
<1>6. U[0] = T[n] /\ U[1] = After(T[n], g)
  BY DEF One
<1>7. SenderAt(U[1])'
  BY <1>6
<1> HIDE DEF U, V
<1> QED BY <1>3, <1>4, <1>5, <1>6, <1>7, SenderExtends

\* The units of a message.
LEMMA BodyIs ==
  ASSUME NEW N \in Nat, NEW size \in Nat
  PROVE  /\ Body(N, size) \in Seq(Nat) /\ Len(Body(N, size)) = size
         /\ \A i \in 1 .. size : Body(N, size)[i] \in Nat
<1>1. \A i \in 1 .. size : 1000 * N + i \in Nat
  OBVIOUS
<1>2. Body(N, size) \in [1 .. size -> Nat]
  BY <1>1 DEF Body
<1> QED BY <1>2

\* A part of a sequence, and the part before it.
LEMMA PartOf ==
  ASSUME NEW s \in Seq(Nat), NEW a \in Nat, NEW b \in Nat, a <= b, b <= Len(s)
  PROVE  /\ SubSeq(s, a + 1, b) \in Seq(Nat) /\ Len(SubSeq(s, a + 1, b)) = b - a
         /\ \A i \in 1 .. b - a : SubSeq(s, a + 1, b)[i] = s[a + i]
         /\ SubSeq(s, 1, a) \o SubSeq(s, a + 1, b) = SubSeq(s, 1, b)
<1>1. Len(s) \in Nat
  OBVIOUS
<1>2. \A i \in a + 1 .. b : s[i] \in Nat
  BY <1>1
<1>3. /\ SubSeq(s, a + 1, b) \in Seq(Nat)
      /\ Len(SubSeq(s, a + 1, b)) = IF a + 1 <= b THEN b - (a + 1) + 1 ELSE 0
      /\ \A i \in 1 .. b - (a + 1) + 1 : SubSeq(s, a + 1, b)[i] = s[(a + 1) + i - 1]
  BY <1>2, SubSeqProperties
<1>4. b - (a + 1) + 1 = b - a /\ (IF a + 1 <= b THEN b - (a + 1) + 1 ELSE 0) = b - a
  OBVIOUS
<1>5. \A i \in 1 .. b - a : (a + 1) + i - 1 = a + i
  OBVIOUS
<1>6. 1 \in 1 .. Len(s) + 1 /\ a \in 1 - 1 .. Len(s) /\ b \in a .. Len(s)
  BY <1>1
<1>7. SubSeq(s, 1, a) \o SubSeq(s, a + 1, b) = SubSeq(s, 1, b)
  BY <1>6, ConcatAdjacentSubSeq
<1> QED BY <1>3, <1>4, <1>5, <1>7

\* The beginning of a sequence.
LEMMA FirstPart ==
  ASSUME NEW s \in Seq(Nat), NEW b \in Nat, b <= Len(s)
  PROVE  /\ SubSeq(s, 1, b) \in Seq(Nat) /\ Len(SubSeq(s, 1, b)) = b
         /\ \A i \in 1 .. b : SubSeq(s, 1, b)[i] = s[i]
<1>1. /\ SubSeq(s, 0 + 1, b) \in Seq(Nat) /\ Len(SubSeq(s, 0 + 1, b)) = b - 0
      /\ \A i \in 1 .. b - 0 : SubSeq(s, 0 + 1, b)[i] = s[0 + i]
  BY PartOf
<1> QED BY <1>1

\* The header that a sender means.
LEMMA SentIs ==
  ASSUME NEW c \in Channels, NEW fmt \in 0 .. 3, NEW time \in Times, NEW size \in Lengths,
         NEW prev \in Headers
  PROVE  /\ Sent(c, fmt, time, size, prev) \in Headers
         /\ Sent(c, fmt, time, size, prev).ch = c
         /\ Sent(c, fmt, time, size, prev).size = size
         /\ Sent(c, fmt, time, size, prev).time = time
         /\ Sent(c, fmt, time, size, prev).type = MediaType
         /\ Sent(c, fmt, time, size, prev).kind = KindAfter(fmt, time, prev)
<1>1. c \in Nat /\ time \in Nat /\ size \in Nat
  BY ChannelsAssumption, HeadersAssumption
<1>2. Sent(c, fmt, time, size, prev).kind = KindAfter(fmt, time, prev)
  <2>1. PICK x : x = ExtMark
    OBVIOUS
  <2>2. x \in Nat
    BY <2>1, MarkIs
  <2> QED BY <1>1, <2>1, <2>2 DEF Sent, KindAfter
<1>3. KindAfter(fmt, time, prev) \in Kinds
  BY DEF KindAfter, Kinds, Headers
<1>4. PICK k, t : k = KindAfter(fmt, time, prev) /\ t = MediaType
  OBVIOUS
<1>5. k \in Kinds /\ t \in Nat
  BY <1>3, <1>4 DEF MediaType
<1>6. Sent(c, fmt, time, size, prev) =
        [ch |-> c, time |-> time, size |-> size, type |-> t, stream |-> 1, kind |-> k]
  <2>1. PICK h : h = Sent(c, fmt, time, size, prev)
    OBVIOUS
  <2>2. PICK x : h = [ch |-> c, time |-> time, size |-> size, type |-> t, stream |-> 1,
                      kind |-> x]
    BY <1>4, <2>1 DEF Sent
  <2> QED BY <1>2, <1>4, <2>1, <2>2
<1> QED BY <1>1, <1>4, <1>5, <1>6 DEF Headers

\* A media message is not a chunk size message.
LEMMA MediaTypes ==
  ASSUME NEW m, m.type = MediaType
  PROVE  IsValid(m) /\ m.type # ChunkSizeType
BY DEF IsValid, MediaType, ChunkSizeType

\* a chunk of a message: a header where one is begun, and the units that are next
LEMMA PeerChunk ==
  ASSUME Sound, NEW c \in Channels, NEW fmt \in 0 .. 3, NEW m \in Headers,
         m.ch = c, m.type = MediaType, m.kind = KindAfter(fmt, m.time, lastHead[c]),
         MayUse(fmt, m, lastHead[c]), NEW N \in Nat, NEW put \in Nat,
         \/ open[c] = Idle /\ put = 0
         \/ /\ open[c] # Idle /\ open[c].n = N /\ open[c].put = put
            /\ fmt = 3 /\ m = lastHead[c],
         PutChunk(c, m, N, put, Prefix(fmt, m)),
         lastHead' = [lastHead EXCEPT ![c] = m], started' \in Nat
  PROVE  Sound'
<1>1. PICK F, T, G, n, j, d :
        Trace(F, T, G, n) /\ Feed(F, d) /\ SenderAt(T[n]) /\ ParsedTo(T, G, n, j, d)
  BY DEF Sound
<1>2. PICK e : e = T[n]
  OBVIOUS
<1>3. e \in Points /\ InPart(e) /\ SenderAt(e)
  <2>1. n \in 0 .. n
    BY <1>1 DEF Trace, Path
  <2> QED BY <1>1, <1>2, <2>1, TraceIs
<1>4. PICK size, body : size = m.size /\ body = Body(N, size)
  OBVIOUS
<1>5. /\ size \in Nat /\ body \in Seq(Nat) /\ Len(body) = size
  BY <1>4, BodyIs DEF Headers
<1>6. e.head[c] = lastHead[c] /\ e.size = chunkSizeOut /\ e.sent = sent
      /\ c \in AllChannels /\ e.size \in Nat \ {0}
  BY <1>3, SizesAre DEF SenderAt, AllChannels, Points
<1>7. e.open[c] = SubSeq(body, 1, put) /\ put <= size /\ (put > 0 => put < size)
      /\ (e.open[c] # <<>> => fmt = 3 /\ m = lastHead[c])
  <2>1. CASE open[c] = Idle /\ put = 0
    <3>1. e.open[c] = <<>>
      BY <1>3, <2>1 DEF SenderAt
    <3>2. SubSeq(body, 1, 0) = <<>>
      BY SubSeqEmpty
    <3> QED BY <1>5, <2>1, <3>1, <3>2
  <2>2. CASE /\ open[c] # Idle /\ open[c].n = N /\ open[c].put = put
             /\ fmt = 3 /\ m = lastHead[c]
    <3>1. put \in 1 .. size - 1 /\ e.open[c] = SubSeq(body, 1, put)
      BY <1>3, <1>4, <2>2 DEF SenderAt
    <3> QED BY <1>5, <2>2, <3>1
  <2> QED BY <2>1, <2>2
<1>8. PICK q, end : q = e.size /\ end = put + Lesser(q, size - put)
  OBVIOUS
<1>9. /\ end \in Nat /\ put <= end /\ end <= size /\ end - put = Lesser(q, size - put)
      /\ (end < size => end > 0) /\ (end # size => end < size)
  BY <1>5, <1>6, <1>7, <1>8 DEF Lesser
<1>10. PICK u : u = SubSeq(body, put + 1, end)
  OBVIOUS
<1>11. /\ u \in Seq(Nat) /\ Len(u) = end - put
       /\ SubSeq(body, 1, put) \o u = SubSeq(body, 1, end)
       /\ SubSeq(body, 1, put) \in Seq(Nat) /\ Len(SubSeq(body, 1, put)) = put
       /\ Len(SubSeq(body, 1, end)) = end /\ SubSeq(body, 1, end) \in Seq(Nat)
  BY <1>5, <1>7, <1>9, <1>10, PartOf, FirstPart
<1>12. PICK g : g = [fmt |-> fmt, m |-> m, units |-> u]
  OBVIOUS
<1>13. g \in Chunks /\ g.fmt = fmt /\ g.m = m /\ g.units = u
  BY <1>11, <1>12 DEF Chunks
<1>14. m.type # ChunkSizeType /\ IsValid(m)
  BY MediaTypes
<1>15. Follows(e, g)
  <2>1. Len(g.units) = Lesser(e.size, g.m.size - Len(e.open[c]))
    BY <1>4, <1>7, <1>8, <1>9, <1>11, <1>13
  <2> QED BY <1>6, <1>7, <1>13, <1>14, <2>1 DEF Follows
<1>16. /\ wire' = wire \o Prefix(g.fmt, g.m) \o g.units
       /\ open' = [open EXCEPT ![c] = IF end = size THEN Idle ELSE [n |-> N, put |-> end]]
       /\ sent' = IF end = size /\ size > 0 THEN Append(sent, Completed(m, body)) ELSE sent
       /\ UNCHANGED <<chunkSizeOut, buf, state, parserVars>>
  BY <1>4, <1>6, <1>8, <1>10, <1>13 DEF PutChunk
<1>17. Data(e, g) = SubSeq(body, 1, end) /\ (Ends(e, g) <=> end = size)
  BY <1>4, <1>7, <1>11, <1>13 DEF Data, Ends
<1>18. end = size => SubSeq(body, 1, end) = body
  BY <1>5, SubSeqFull
<1>19. PICK t : t = After(e, g)
  OBVIOUS
<1>20. /\ t.size = e.size
       /\ t.sent = IF end = size /\ size > 0 THEN Append(sent, Completed(m, body)) ELSE sent
       /\ t.head = [e.head EXCEPT ![c] = m]
       /\ t.open = [e.open EXCEPT ![c] = IF end = size THEN <<>> ELSE SubSeq(body, 1, end)]
  BY <1>4, <1>6, <1>13, <1>14, <1>17, <1>18, <1>19 DEF After
<1>21. SenderAt(t)'
  <2>1. /\ lastHead \in [Channels -> Headers] /\ open \in [Channels -> [n : Nat, put : Nat]]
        /\ e.head \in [AllChannels -> Headers] /\ e.open \in [AllChannels -> Seq(Nat)]
    BY <1>3 DEF SenderAt, Points
  <2>2. lastHead' \in [Channels -> Headers] /\ open' \in [Channels -> [n : Nat, put : Nat]]
    <3>1. Idle \in [n : Nat, put : Nat] /\ [n |-> N, put |-> end] \in [n : Nat, put : Nat]
      BY <1>9 DEF Idle
    <3> QED BY <1>16, <2>1, <3>1
  <2>3. ControlChannel # c /\ ControlChannel \in AllChannels
    BY ChannelsAssumption DEF AllChannels
  <2>4. t.open[ControlChannel] = <<>>
    BY <1>3, <1>20, <2>1, <2>3 DEF SenderAt
  <2>5. ASSUME NEW i \in Channels
        PROVE  /\ lastHead'[i] = t.head[i]
               /\ IsValid(lastHead'[i]) => lastHead'[i].type = MediaType
               /\ open'[i] = Idle => t.open[i] = <<>>
               /\ open'[i] # Idle =>
                    /\ IsValid(lastHead'[i]) /\ open'[i].put \in 1 .. lastHead'[i].size - 1
                    /\ t.open[i] = SubSeq(Body(open'[i].n, lastHead'[i].size), 1, open'[i].put)
    <3>1. i \in AllChannels
      BY DEF AllChannels
    <3>2. CASE i # c
      <4>1. /\ lastHead'[i] = lastHead[i] /\ open'[i] = open[i]
            /\ t.head[i] = e.head[i] /\ t.open[i] = e.open[i]
        BY <1>16, <1>20, <2>1, <3>1, <3>2
      <4> QED BY <1>3, <4>1 DEF SenderAt
    <3>3. CASE i = c
      <4>1. /\ lastHead'[i] = m /\ t.head[i] = m
            /\ open'[i] = IF end = size THEN Idle ELSE [n |-> N, put |-> end]
            /\ t.open[i] = IF end = size THEN <<>> ELSE SubSeq(body, 1, end)
        BY <1>16, <1>20, <2>1, <3>1, <3>3
      <4>2. CASE end = size
        BY <4>1, <4>2
      <4>3. CASE end # size
        <5>1. end \in 1 .. size - 1
          BY <1>5, <1>9, <4>3
        <5>2. open'[i].n = N /\ open'[i].put = end /\ t.open[i] = SubSeq(body, 1, end)
          <6>1. open'[i] = [n |-> N, put |-> end] /\ t.open[i] = SubSeq(body, 1, end)
            BY <4>1, <4>3, Zenon
          <6> QED BY <6>1
        <5>3. open'[i] # Idle
          BY <5>1, <5>2 DEF Idle
        <5> QED BY <1>4, <1>14, <4>1, <5>1, <5>2, <5>3
      <4> QED BY <4>2, <4>3
    <3> QED BY <3>2, <3>3
  <2>6. chunkSizeOut' = t.size /\ sent' = t.sent
    BY <1>6, <1>16, <1>20
  <2> QED BY <2>2, <2>4, <2>5, <2>6 DEF SenderAt
<1>22. SenderAt(After(T[n], g))'
  BY <1>2, <1>19, <1>21
<1>23. Follows(T[n], g)
  BY <1>2, <1>15
<1> QED BY <1>1, <1>13, <1>16, <1>22, <1>23, SendOne

\* The steps of a peer that interleaves its messages.
LEMMA PeerStep ==
  ASSUME Sound, closed = "no", NEW c \in Channels,
         \/ PeerContinue(c)
         \/ \E fmt \in 0 .. 3, time \in Times, size \in Lengths : PeerBegin(c, fmt, time, size)
  PROVE  Sound' /\ closed' = "no"
<1>1. PICK F, T, G, n, j, d :
        Trace(F, T, G, n) /\ Feed(F, d) /\ SenderAt(T[n]) /\ ParsedTo(T, G, n, j, d)
  BY DEF Sound
<1>2. PICK e : e = T[n] /\ SenderAt(e)
  BY <1>1
<1>3. e \in Points /\ InPart(e)
  <2>1. n \in 0 .. n
    BY <1>1 DEF Trace, Path
  <2> QED BY <1>1, <1>2, <2>1, TraceIs
<1>4. /\ lastHead \in [Channels -> Headers] /\ started \in Nat
      /\ open \in [Channels -> [n : Nat, put : Nat]]
  BY <1>2 DEF SenderAt
<1>5. closed' = "no"
  BY ZenonT(60) DEF PeerContinue, PeerBegin, PutChunk
<1>6. CASE PeerContinue(c)
  <2>1. PICK m : m = lastHead[c]
    OBVIOUS
  <2>2. /\ open[c] # Idle /\ PutChunk(c, m, open[c].n, open[c].put, Basic(3, c))
        /\ UNCHANGED <<lastHead, started>>
    BY <1>6, <2>1 DEF PeerContinue
  <2>3. IsValid(m) /\ m.type = MediaType /\ m \in Headers /\ m.ch = c
    <3>1. e.head[c] = m /\ c \in AllChannels
      BY <1>2, <2>1 DEF SenderAt, AllChannels
    <3> QED BY <1>2, <1>3, <1>4, <2>1, <2>2, <3>1 DEF SenderAt, InPart
  <2>4. Prefix(3, m) = Basic(3, c)
    <3>1. Basic(3, c) \in Seq(Nat)
      BY BasicFields, ChannelsAssumption DEF ControlChannel
    <3>2. RestOf(3) = 0
      BY RestNat
    <3>3. PICK fs : Prefix(3, m) = Basic(3, c) \o SubSeq(fs, 1, RestOf(3)) \o <<>>
      BY <2>3 DEF Prefix
    <3>4. SubSeq(fs, 1, RestOf(3)) = <<>>
      BY <3>2, SubSeqEmpty
    <3> QED BY <3>1, <3>3, <3>4, ConcatEmptySeq
  <2>5. MayUse(3, m, lastHead[c]) /\ m.kind = KindAfter(3, m.time, lastHead[c])
    BY <2>1, <2>3 DEF MayUse, KindAfter
  <2>6. lastHead' = [lastHead EXCEPT ![c] = m]
    BY <1>4, <2>1, <2>2
  <2>7. open[c].n \in Nat /\ open[c].put \in Nat
    BY <1>4
  <2>8. started' \in Nat /\ PutChunk(c, m, open[c].n, open[c].put, Prefix(3, m))
    BY <1>4, <2>2, <2>4
  <2>9. PICK N, put, fmt : N = open[c].n /\ put = open[c].put /\ fmt = 3
    OBVIOUS
  <2>10. /\ MayUse(fmt, m, lastHead[c]) /\ m.kind = KindAfter(fmt, m.time, lastHead[c])
         /\ PutChunk(c, m, N, put, Prefix(fmt, m)) /\ N \in Nat /\ put \in Nat
         /\ fmt \in 0 .. 3
    BY <2>5, <2>7, <2>8, <2>9
  <2>11. /\ open[c] # Idle /\ open[c].n = N /\ open[c].put = put
         /\ fmt = 3 /\ m = lastHead[c]
    BY <2>1, <2>2, <2>9
  <2>12. Sound'
    BY <2>3, <2>6, <2>8, <2>10, <2>11, PeerChunk
  <2> QED BY <1>5, <2>12
<1>7. ASSUME NEW fmt \in 0 .. 3, NEW time \in Times, NEW size \in Lengths,
             PeerBegin(c, fmt, time, size)
      PROVE  Sound'
  <2>1. PICK m : m = Sent(c, fmt, time, size, lastHead[c])
    OBVIOUS
  <2>2. /\ open[c] = Idle /\ MayUse(fmt, m, lastHead[c])
        /\ lastHead' = [lastHead EXCEPT ![c] = m] /\ started' = started + 1
        /\ PutChunk(c, m, started + 1, 0, Prefix(fmt, m))
    BY <1>7, <2>1 DEF PeerBegin
  <2>3. /\ m \in Headers /\ m.ch = c /\ m.type = MediaType /\ m.time = time
        /\ m.kind = KindAfter(fmt, time, lastHead[c])
    BY <1>4, <2>1, SentIs
  <2>4. started + 1 \in Nat /\ 0 \in Nat
    BY <1>4
  <2>5. m.kind = KindAfter(fmt, m.time, lastHead[c]) /\ started' \in Nat
    BY <2>2, <2>3, <2>4
  <2> QED BY <2>2, <2>3, <2>4, <2>5, PeerChunk
<1> QED BY <1>5, <1>6, <1>7

\* Products by one more.
LEMMA TimesSucc ==
  ASSUME NEW i \in Nat, NEW q \in Nat
  PROVE  /\ i * q \in Nat /\ i * (q + 1) = i * q + i /\ (i + 1) * q = i * q + q
OBVIOUS

\* where a message of size units is cut
CutInto(size, q, K) ==
  /\ K \in Nat \ {0} /\ size <= K * q
  /\ \A i \in 0 .. K - 1 :
       /\ i * q \in Nat /\ i * q < size
       /\ i + 1 < K => i * q + q < size
       /\ i + 1 = K => i * q + q >= size

\* The number of chunks of a message is the one CAMFBuffer::Write counts.
LEMMA Cuts ==
  ASSUME NEW size \in Nat \ {0}, NEW q \in Nat \ {0}, NEW K, K = 1 + (size - 1) \div q
  PROVE  CutInto(size, q, K)
<1>1. size - 1 \in Nat
  OBVIOUS
<1>2. PICK D, s : D = (size - 1) \div q /\ s = (size - 1) % q
  OBVIOUS
<1>3. D \in Nat /\ s \in 0 .. q - 1 /\ size - 1 = D * q + s
  BY <1>1, <1>2, Quotient
<1>4. K = D + 1 /\ K \in Nat \ {0}
  BY <1>2, <1>3
<1>5. D * q \in Nat /\ K * q = D * q + q
  BY <1>3, <1>4, TimesSucc
<1>6. size <= K * q
  <2>1. \A x \in Nat : size - 1 = x + s => size <= x + q
    BY <1>3
  <2> QED BY <1>3, <1>5, <2>1
<1>7. ASSUME NEW i \in 0 .. K - 1
      PROVE  /\ i * q \in Nat /\ i * q < size
             /\ i + 1 < K => i * q + q < size
             /\ i + 1 = K => i * q + q >= size
  <2>1. i \in Nat /\ i <= D
    BY <1>3, <1>4
  <2>2. i * q <= D * q /\ i * q \in Nat
    BY <1>3, <2>1, TimesMonotone
  <2>3. i * q < size
    <3>1. \A x, y \in Nat : x <= y /\ size - 1 = y + s => x < size
      BY <1>3
    <3> QED BY <1>3, <1>5, <2>2, <3>1
  <2>4. ASSUME i + 1 < K
        PROVE  i * q + q < size
    <3>1. i + 1 \in Nat /\ i + 1 <= D
      BY <1>3, <1>4, <2>1, <2>4
    <3>2. (i + 1) * q <= D * q /\ (i + 1) * q = i * q + q
      BY <1>3, <2>1, <3>1, TimesMonotone, TimesSucc
    <3>3. \A x, y \in Nat : x <= y /\ size - 1 = y + s => x < size
      BY <1>3
    <3>4. i * q + q \in Nat
      BY <2>2
    <3> QED BY <1>3, <1>5, <3>2, <3>3, <3>4
  <2>5. ASSUME i + 1 = K
        PROVE  i * q + q >= size
    <3>1. i = D
      BY <1>3, <1>4, <2>1, <2>5
    <3> QED BY <1>5, <1>6, <3>1
  <2> QED BY <2>2, <2>3, <2>4, <2>5
<1> QED BY <1>4, <1>6, <1>7 DEF CutInto

\* C is the body with the one byte of a basic header of format 3 in front of every chunk
\* but the first.
CutAs(C, c, body, size, q, K) ==
  /\ C \in Seq(Nat) /\ Len(C) = size + (K - 1)
  /\ \A i \in 0 .. K - 1 :
       /\ i > 0 => C[i * q + i] = 3 * 64 + c
       /\ \A r \in 1 .. Lesser(q, size - i * q) : C[i * q + i + r] = body[i * q + r]

\* CAMFBuffer::Write cuts a message so.
LEMMA ChunkedIs ==
  ASSUME NEW c \in Nat, NEW body \in Seq(Nat), NEW size \in Nat \ {0}, Len(body) = size,
         NEW q \in Nat \ {0}, NEW K, K = 1 + (size - 1) \div q
  PROVE  CutAs(Chunked(c, body, q), c, body, size, q, K)
<1>1. /\ K \in Nat \ {0} /\ size <= K * q
      /\ \A i \in 0 .. K - 1 :
           /\ i * q \in Nat /\ i * q < size
           /\ i + 1 < K => i * q + q < size
           /\ i + 1 = K => i * q + q >= size
  <2>1. CutInto(size, q, K)
    BY Cuts
  <2> QED BY <2>1, Zenon DEF CutInto
<1>2. PICK L : L = size + (K - 1)
  OBVIOUS
<1>3. L \in Nat /\ L = size + (size - 1) \div q /\ L >= size
  <2>1. K - 1 \in Nat
    BY <1>1
  <2>2. PICK D : D = (size - 1) \div q /\ D \in Nat
    <3>1. size - 1 \in Nat
      OBVIOUS
    <3> QED BY <3>1, Quotient
  <2>3. K = 1 + D
    BY <2>2
  <2> QED BY <1>2, <2>1, <2>2, <2>3
<1>4. Chunked(c, body, q) =
        [i \in 1 .. L |-> IF i % (q + 1) = 0 THEN 3 * 64 + c ELSE body[i - i \div (q + 1)]]
  BY <1>3 DEF Chunked
<1>5. ASSUME NEW i \in 1 .. L
      PROVE  (IF i % (q + 1) = 0 THEN 3 * 64 + c ELSE body[i - i \div (q + 1)]) \in Nat
  <2>1. CASE i % (q + 1) = 0
    BY <2>1
  <2>2. CASE i % (q + 1) # 0
    <3>1. PICK x, r : x = i \div (q + 1) /\ r = i % (q + 1)
      OBVIOUS
    <3>2. x \in Nat /\ r \in 1 .. q /\ i = x * (q + 1) + r
      <4>1. i \in Nat /\ q + 1 \in Nat \ {0}
        BY <1>3
      <4>2. x \in Nat /\ r \in 0 .. q /\ i = x * (q + 1) + r
        <5>1. PICK b : b = q + 1 /\ b \in Nat \ {0}
          BY <4>1
        <5>2. /\ i \div b \in Nat /\ i % b \in 0 .. b - 1
              /\ i = (i \div b) * b + (i % b)
          BY <4>1, <5>1, Quotient
        <5>3. x \in Nat /\ r \in 0 .. b - 1 /\ i = x * b + r
          BY <3>1, <5>1, <5>2
        <5>4. b - 1 = q
          BY <5>1
        <5> QED BY <5>1, <5>3, <5>4, Zenon
      <4> QED BY <2>2, <3>1, <4>2
    <3>3. i = x * q + x + r /\ x * q \in Nat
      BY <3>2, TimesSucc
    <3>4. x < K
      <4> SUFFICES ASSUME x >= K PROVE FALSE
        BY <1>1, <3>2
      <4>1. K * q <= x * q /\ K * q \in Nat
        BY <1>1, <3>2, TimesMonotone
      <4>2. PICK y, z : y = x * q /\ z = K * q
        OBVIOUS
      <4>3. y \in Nat /\ z \in Nat /\ z <= y /\ size <= z /\ i = y + x + r
        BY <1>1, <3>3, <4>1, <4>2
      <4>4. i <= size + (K - 1) /\ r >= 1
        BY <1>2, <3>2
      <4> QED BY <1>1, <3>2, <4>3, <4>4
    <3>5. x * q + r \in 1 .. size
      <4>1. x \in 0 .. K - 1
        BY <1>1, <3>2, <3>4
      <4>2. CASE x + 1 < K
        <5>1. x * q + q < size
          BY <1>1, <4>1, <4>2
        <5> QED BY <3>2, <3>3, <5>1
      <4>3. CASE x + 1 = K
        <5>1. \A y \in Nat : y + x + r <= size + (K - 1) => y + r <= size
          BY <1>1, <3>2, <4>3
        <5> QED BY <1>2, <1>3, <3>2, <3>3, <5>1
      <4> QED BY <1>1, <3>2, <3>4, <4>2, <4>3
    <3>6. i - i \div (q + 1) = x * q + r
      <4>1. PICK y : y = x * q
        OBVIOUS
      <4>2. y \in Nat /\ i = y + x + r /\ i - x = y + r
        BY <3>2, <3>3, <4>1
      <4> QED BY <3>1, <4>1, <4>2
    <3> QED BY <2>2, <3>5, <3>6
  <2> QED BY <2>1, <2>2
<1>6. Chunked(c, body, q) \in [1 .. L -> Nat]
  BY <1>4, <1>5
<1>7. Chunked(c, body, q) \in Seq(Nat) /\ Len(Chunked(c, body, q)) = L
  BY <1>3, <1>6
<1>8. ASSUME NEW i \in 0 .. K - 1
      PROVE  i > 0 => Chunked(c, body, q)[i * q + i] = 3 * 64 + c
  <2>1. SUFFICES ASSUME i > 0 PROVE Chunked(c, body, q)[i * q + i] = 3 * 64 + c
    OBVIOUS
  <2>2. i * q \in Nat /\ i * q < size /\ i \in Nat /\ i * (q + 1) = i * q + i
    BY <1>1, TimesSucc
  <2>3. PICK k : k = i * q + i
    OBVIOUS
  <2>4. k \in 1 .. L
    BY <1>1, <1>2, <1>3, <2>1, <2>2, <2>3
  <2>5. k % (q + 1) = 0
    <3>1. q + 1 \in Nat /\ 0 < q + 1
      OBVIOUS
    <3>2. (i * (q + 1) + 0) % (q + 1) = 0
      BY <2>2, <3>1, DivMod
    <3>3. i * (q + 1) + 0 = k
      BY <2>2, <2>3
    <3> QED BY <3>2, <3>3
  <2> QED BY <1>4, <2>3, <2>4, <2>5
<1>9. ASSUME NEW i \in 0 .. K - 1, NEW r \in 1 .. Lesser(q, size - i * q)
      PROVE  Chunked(c, body, q)[i * q + i + r] = body[i * q + r]
  <2>1. i * q \in Nat /\ i * q < size /\ i \in Nat /\ i * (q + 1) = i * q + i
    <3>1. i \in Nat
      BY <1>1
    <3>3. i * q \in Nat /\ i * q < size
      BY <1>1, Zenon
    <3>2. i * (q + 1) = i * q + i
      BY <3>1, TimesSucc
    <3> QED BY <3>1, <3>2, <3>3
  <2>2. r \in 1 .. q /\ r <= size - i * q
    <3>1. PICK y : y = i * q /\ y \in Nat /\ y < size
      BY <2>1
    <3>2. r \in 1 .. Lesser(q, size - y)
      BY <3>1
    <3>3. r \in 1 .. q /\ r <= size - y
      BY <3>1, <3>2 DEF Lesser
    <3> QED BY <3>1, <3>3
  <2>3. PICK k : k = i * q + i + r
    OBVIOUS
  <2>4. k \in 1 .. L
    <3>1. \A y \in Nat : y < size /\ r <= size - y => y + i + r \in 1 .. size + (K - 1)
      BY <1>1, <2>1, <2>2
    <3> QED BY <1>2, <2>1, <2>2, <2>3, <3>1
  <2>5. k \div (q + 1) = i /\ k % (q + 1) = r
    <3>1. q + 1 \in Nat /\ r < q + 1 /\ r \in Nat
      BY <2>2
    <3>2. (i * (q + 1) + r) \div (q + 1) = i /\ (i * (q + 1) + r) % (q + 1) = r
      BY <2>1, <3>1, DivMod
    <3>3. i * (q + 1) + r = k
      BY <2>1, <2>3
    <3> QED BY <3>2, <3>3
  <2>6. k - i = i * q + r
    BY <2>1, <2>2, <2>3
  <2>7. r # 0
    BY <2>2
  <2>8. Chunked(c, body, q)[k] = body[k - k \div (q + 1)]
    BY <1>4, <2>4, <2>5, <2>7
  <2> QED BY <2>3, <2>5, <2>6, <2>8
<1> QED BY <1>2, <1>7, <1>8, <1>9 DEF CutAs

\* The message m with that body may be sent at once at point e, in K chunks; its i-th chunk,
\* from 0 on, and the point behind i of them.
Whole(e, fmt, m, body, K) ==
  /\ e \in Points /\ InPart(e) /\ fmt \in 0 .. 1
  /\ m \in Headers /\ m.ch \in Channels /\ m.ch < 64 /\ m.type = MediaType /\ m.size > 0
  /\ m.kind = KindAfter(fmt, m.time, e.head[m.ch]) /\ MayUse(fmt, m, e.head[m.ch])
  /\ e.open[m.ch] = <<>>
  /\ body \in Seq(Nat) /\ Len(body) = m.size
  /\ K = 1 + (m.size - 1) \div e.size

Piece(e, fmt, m, body, i) ==
  [fmt |-> IF i = 0 THEN fmt ELSE 3, m |-> m,
   units |-> SubSeq(body, i * e.size + 1, Lesser(i * e.size + e.size, m.size))]

UpTo(e, fmt, m, body, i) ==
  IF i = 0 THEN e
  ELSE [at |-> e.at + LenHead(fmt, m) + Lesser(i * e.size, m.size) + (i - 1),
        head |-> [e.head EXCEPT ![m.ch] = m],
        open |-> [e.open EXCEPT ![m.ch] = IF i * e.size >= m.size THEN <<>>
                                          ELSE SubSeq(body, 1, i * e.size)],
        size |-> e.size,
        sent |-> IF i * e.size >= m.size THEN Append(e.sent, Completed(m, body)) ELSE e.sent]

\* What is known of such a message.
LEMMA WholeIs ==
  ASSUME NEW e, NEW fmt, NEW m, NEW body, NEW K, Whole(e, fmt, m, body, K)
  PROVE  /\ e.size \in Nat \ {0} /\ m.size \in Nat \ {0} /\ CutInto(m.size, e.size, K)
         /\ m.ch \in AllChannels /\ m.ch \in Nat /\ m.ch >= 2 /\ fmt \in 0 .. 3
         /\ IsValid(m) /\ m.type # ChunkSizeType /\ e.at \in Nat
         /\ LenHead(fmt, m) \in Nat /\ Prefix(fmt, m) \in Seq(Nat)
         /\ Len(Prefix(fmt, m)) = LenHead(fmt, m) /\ K \in Nat \ {0}
<1>1. e.size \in Nat \ {0} /\ m.size \in Nat \ {0} /\ e.at \in Nat
  <2>1. e \in Points /\ m \in Headers /\ m.size > 0
    BY DEF Whole
  <2>2. e.size \in Sizes /\ e.at \in Nat
    BY <2>1 DEF Points
  <2>3. m.size \in Nat
    BY <2>1 DEF Headers
  <2>4. e.size \in Nat \ {0}
    BY <2>2, SizesAre
  <2>5. m.size \in Nat \ {0}
    BY <2>1, <2>3
  <2> QED BY <2>2, <2>4, <2>5
<1>2. CutInto(m.size, e.size, K)
  BY <1>1, Cuts DEF Whole
<1>3. m.ch \in AllChannels /\ m.ch \in Nat /\ m.ch >= 2 /\ fmt \in 0 .. 3
  BY ChannelsAre DEF Whole, AllChannels
<1>4. IsValid(m) /\ m.type # ChunkSizeType
  BY MediaTypes DEF Whole
<1>5. Prefix(fmt, m) \in Seq(Nat) /\ Len(Prefix(fmt, m)) = LenHead(fmt, m)
  BY <1>3, PrefixFields DEF Whole
<1>6. LenHead(fmt, m) \in Nat
  BY <1>5
<1>7. K \in Nat \ {0}
  BY <1>2 DEF CutInto
<1> QED BY <1>1, <1>2, <1>3, <1>4, <1>5, <1>6, <1>7

\* what has gone out of a message after its i-th chunk
LEMMA CutAt ==
  ASSUME NEW e, NEW fmt, NEW m, NEW body, NEW K, Whole(e, fmt, m, body, K), NEW i \in 0 .. K
  PROVE  /\ i * e.size \in Nat
         /\ i < K => i * e.size < m.size
         /\ i = K => i * e.size >= m.size
         /\ i < K => (i + 1) * e.size = i * e.size + e.size
<1>1. PICK q, size : q = e.size /\ size = m.size
  OBVIOUS
<1>2. CutInto(size, q, K) /\ q \in Nat \ {0} /\ size \in Nat \ {0} /\ K \in Nat \ {0}
  BY <1>1, WholeIs
<1>3. i \in Nat
  BY <1>2
<1>4. i * q \in Nat /\ (i + 1) * q = i * q + q
  BY <1>2, <1>3, TimesSucc
<1>5. i < K => i * q < size
  BY <1>2, <1>3 DEF CutInto
<1>6. i = K => i * q >= size
  <2>1. size <= K * q
    BY <1>2 DEF CutInto
  <2> QED BY <1>2, <1>4, <2>1
<1> QED BY <1>1, <1>4, <1>5, <1>6

\* The point behind i chunks of a message sent at once.
PointAt(e, fmt, m, body, K, i, s) ==
  /\ s \in Points /\ InPart(s) /\ s.size = e.size
  /\ i = 0 => s = e
  /\ i > 0 => /\ s.head = [e.head EXCEPT ![m.ch] = m]
              /\ i < K => s.at = e.at + LenHead(fmt, m) + i * e.size + (i - 1)
              /\ i = K => s.at = e.at + LenHead(fmt, m) + m.size + (i - 1)
  /\ s.open = [e.open EXCEPT ![m.ch] = IF i = K THEN <<>> ELSE SubSeq(body, 1, i * e.size)]
  /\ s.sent = IF i = K THEN Append(e.sent, Completed(m, body)) ELSE e.sent

\* UpTo is that point.
LEMMA UpToIs ==
  ASSUME NEW e, NEW fmt, NEW m, NEW body, NEW K, Whole(e, fmt, m, body, K), NEW i \in 0 .. K,
         NEW s, s = UpTo(e, fmt, m, body, i)
  PROVE  PointAt(e, fmt, m, body, K, i, s)
<1>1. PICK q, size, c, h, p : /\ q = e.size /\ size = m.size /\ c = m.ch /\ h = LenHead(fmt, m)
                              /\ p = i * e.size
  OBVIOUS
<1>2. /\ q \in Nat \ {0} /\ size \in Nat \ {0} /\ c \in AllChannels /\ h \in Nat
      /\ e.at \in Nat /\ K \in Nat \ {0} /\ IsValid(m) /\ i \in Nat
  BY <1>1, WholeIs
<1>3. p \in Nat /\ (i < K => p < size) /\ (i = K => p >= size)
  BY <1>1, CutAt
<1>4. /\ e \in Points /\ InPart(e) /\ m \in Headers /\ e.open[c] = <<>> /\ body \in Seq(Nat)
      /\ Len(body) = size
      /\ e.head \in [AllChannels -> Headers] /\ e.open \in [AllChannels -> Seq(Nat)]
      /\ e.sent \in Seq(Messages) /\ e.size \in Sizes
  BY <1>1 DEF Whole, Points
<1>5. CASE i = 0
  <2>1. s = e /\ p = 0 /\ i < K
    BY <1>1, <1>2, <1>5 DEF UpTo
  <2>2. SubSeq(body, 1, p) = <<>>
    BY <2>1, SubSeqEmpty
  <2>3. e.open = [e.open EXCEPT ![c] = <<>>]
    BY <1>2, <1>4
  <2>4. s.open = [e.open EXCEPT ![m.ch] = IF i = K THEN <<>> ELSE SubSeq(body, 1, i * e.size)]
    <3>1. ~(i = K) /\ SubSeq(body, 1, i * e.size) = <<>>
      BY <1>1, <2>1, <2>2
    <3> QED BY <1>1, <2>1, <2>3, <3>1
  <2>5. s.sent = IF i = K THEN Append(e.sent, Completed(m, body)) ELSE e.sent
    <3>1. ~(i = K)
      BY <2>1
    <3> QED BY <2>1, <3>1
  <2> QED BY <1>1, <1>4, <1>5, <2>1, <2>4, <2>5 DEF PointAt
<1>6. CASE i > 0
  <2>1. s = [at |-> e.at + h + Lesser(p, size) + (i - 1),
             head |-> [e.head EXCEPT ![c] = m],
             open |-> [e.open EXCEPT ![c] = IF p >= size THEN <<>> ELSE SubSeq(body, 1, p)],
             size |-> q,
             sent |-> IF p >= size THEN Append(e.sent, Completed(m, body)) ELSE e.sent]
    BY <1>1, <1>6 DEF UpTo
  <2>2. (i = K <=> p >= size) /\ (i = K \/ i < K)
    BY <1>2, <1>3
  <2>3. /\ s.at = e.at + h + Lesser(p, size) + (i - 1) /\ s.head = [e.head EXCEPT ![c] = m]
        /\ s.open = [e.open EXCEPT ![c] = IF p >= size THEN <<>> ELSE SubSeq(body, 1, p)]
        /\ s.size = q
        /\ s.sent = IF p >= size THEN Append(e.sent, Completed(m, body)) ELSE e.sent
    BY <2>1
  <2>4. /\ s.open = [e.open EXCEPT ![c] = IF i = K THEN <<>> ELSE SubSeq(body, 1, p)]
        /\ s.sent = IF i = K THEN Append(e.sent, Completed(m, body)) ELSE e.sent
    BY <2>2, <2>3
  <2>5. Lesser(p, size) = IF i = K THEN size ELSE p
    BY <1>2, <1>3, <2>2 DEF Lesser
  <2>6. /\ i < K => s.at = e.at + h + p + (i - 1)
        /\ i = K => s.at = e.at + h + size + (i - 1)
    BY <1>2, <2>3, <2>5
  <2>7. s.at \in Nat
    BY <1>2, <1>3, <1>6, <2>2, <2>6
  <2>8. p <= size => /\ SubSeq(body, 1, p) \in Seq(Nat) /\ Len(SubSeq(body, 1, p)) = p
    BY <1>3, <1>4, FirstPart
  <2>9. PICK x : x = IF i = K THEN <<>> ELSE SubSeq(body, 1, p)
    OBVIOUS
  <2>10. x \in Seq(Nat) /\ (x = <<>> \/ Len(x) < size)
    BY <1>2, <1>3, <2>2, <2>8, <2>9
  <2>11. s.open = [e.open EXCEPT ![c] = x]
    BY <2>4, <2>9
  <2>12. Completed(m, body) \in Messages
    BY <1>4 DEF Completed, Messages
  <2>13. s.sent \in Seq(Messages)
    BY <1>4, <2>4, <2>12
  <2>14. s \in Points
    <3>1. s.open \in [AllChannels -> Seq(Nat)] /\ s.head \in [AllChannels -> Headers]
      BY ZenonT(60), <1>4, <2>3, <2>10, <2>11
    <3> QED BY <1>1, <1>4, <2>1, <2>3, <2>7, <2>13, <3>1 DEF Points
  <2>15. InPart(s)
    <3>1. ASSUME NEW d \in AllChannels
          PROVE  /\ s.open[d] = <<>> \/ Len(s.open[d]) < s.head[d].size
                 /\ IsValid(s.head[d]) => s.head[d].ch = d
      <4>1. CASE d = c
        <5>1. s.open[d] = x /\ s.head[d] = m
          BY <1>4, <2>3, <2>11, <4>1
        <5> QED BY <1>1, <2>10, <4>1, <5>1
      <4>2. CASE d # c
        <5>1. s.open[d] = e.open[d] /\ s.head[d] = e.head[d]
          BY <1>4, <2>3, <2>11, <4>2
        <5> QED BY <1>4, <5>1 DEF InPart
      <4> QED BY <4>1, <4>2
    <3> QED BY <3>1 DEF InPart
  <2> QED BY <1>1, <1>6, <2>3, <2>4, <2>6, <2>14, <2>15 DEF PointAt
<1> QED BY <1>2, <1>5, <1>6

\* Each chunk may follow, and leads from one point to the next.
LEMMA PieceIs ==
  ASSUME NEW e, NEW fmt, NEW m, NEW body, NEW K, Whole(e, fmt, m, body, K),
         NEW i \in 0 .. K - 1, NEW s, s = UpTo(e, fmt, m, body, i),
         NEW g, g = Piece(e, fmt, m, body, i)
  PROVE  /\ g \in Chunks /\ Follows(s, g) /\ After(s, g) = UpTo(e, fmt, m, body, i + 1)
         /\ Len(g.units) = Lesser(e.size, m.size - i * e.size)
         /\ \A r \in 1 .. Len(g.units) : g.units[r] = body[i * e.size + r]
<1>1. PICK q, size, c, h, p, t : /\ q = e.size /\ size = m.size /\ c = m.ch
                                 /\ h = LenHead(fmt, m) /\ p = i * e.size
                                 /\ t = UpTo(e, fmt, m, body, i + 1)
  OBVIOUS
<1>2. /\ q \in Nat \ {0} /\ size \in Nat \ {0} /\ c \in AllChannels /\ h \in Nat
      /\ e.at \in Nat /\ K \in Nat \ {0} /\ IsValid(m) /\ i \in Nat /\ i \in 0 .. K
      /\ i + 1 \in 0 .. K /\ i < K /\ m.type # ChunkSizeType /\ fmt \in 0 .. 3 /\ i + 1 > 0
  BY <1>1, WholeIs
<1>3. p \in Nat /\ p < size /\ (i + 1) * q = p + q
      /\ (i + 1 < K => p + q < size) /\ (i + 1 = K => p + q >= size)
  <2>1. p \in Nat /\ p < size /\ (i + 1) * q = p + q
    BY <1>1, <1>2, CutAt
  <2>2. (i + 1 < K => (i + 1) * q < size) /\ (i + 1 = K => (i + 1) * q >= size)
    BY <1>1, <1>2, CutAt
  <2> QED BY <2>1, <2>2
<1>4. /\ e \in Points /\ InPart(e) /\ m \in Headers /\ e.open[c] = <<>> /\ body \in Seq(Nat)
      /\ Len(body) = size
      /\ e.head \in [AllChannels -> Headers] /\ e.open \in [AllChannels -> Seq(Nat)]
      /\ MayUse(fmt, m, e.head[c]) /\ m.kind = KindAfter(fmt, m.time, e.head[c])
      /\ c < 64 /\ c \in Nat
  <2>1. /\ e \in Points /\ InPart(e) /\ m \in Headers /\ e.open[c] = <<>> /\ body \in Seq(Nat)
        /\ Len(body) = size /\ MayUse(fmt, m, e.head[c])
        /\ m.kind = KindAfter(fmt, m.time, e.head[c]) /\ c < 64
    BY <1>1 DEF Whole
  <2>2. e.head \in [AllChannels -> Headers] /\ e.open \in [AllChannels -> Seq(Nat)]
    BY <2>1 DEF Points
  <2>3. c \in Nat
    BY <1>2, ChannelsAre
  <2> QED BY <2>1, <2>2, <2>3
<1>5. /\ s \in Points /\ InPart(s) /\ s.size = q
      /\ i = 0 => s = e
      /\ i > 0 => /\ s.head = [e.head EXCEPT ![c] = m]
                  /\ s.at = e.at + h + p + (i - 1)
      /\ s.open = [e.open EXCEPT ![c] = SubSeq(body, 1, p)]
      /\ s.sent = e.sent
  <2>1. ~(i = K)
    BY <1>2
  <2>2. PointAt(e, fmt, m, body, K, i, s)
    BY <1>2, UpToIs
  <2> QED BY <1>1, <1>2, <2>1, <2>2 DEF PointAt
<1>6. /\ t.size = q /\ t.head = [e.head EXCEPT ![c] = m]
      /\ i + 1 < K => t.at = e.at + h + (p + q) + i
      /\ i + 1 = K => t.at = e.at + h + size + i
      /\ t.open = [e.open EXCEPT ![c] = IF i + 1 = K THEN <<>> ELSE SubSeq(body, 1, p + q)]
      /\ t.sent = IF i + 1 = K THEN Append(e.sent, Completed(m, body)) ELSE e.sent
      /\ t \in Points
  <2>1. (i + 1) - 1 = i /\ (i + 1) * e.size = p + q
    BY <1>1, <1>2, <1>3
  <2>2. PICK k : k = i + 1 /\ k \in 0 .. K /\ k > 0 /\ k - 1 = i /\ k * e.size = p + q
    BY <1>2, <2>1
  <2>3. t = UpTo(e, fmt, m, body, k)
    BY <1>1, <2>2
  <2>4. /\ t \in Points /\ t.size = e.size /\ t.head = [e.head EXCEPT ![m.ch] = m]
        /\ k < K => t.at = e.at + LenHead(fmt, m) + k * e.size + (k - 1)
        /\ k = K => t.at = e.at + LenHead(fmt, m) + m.size + (k - 1)
        /\ t.open = [e.open EXCEPT ![m.ch] = IF k = K THEN <<>> ELSE SubSeq(body, 1, k * e.size)]
        /\ t.sent = IF k = K THEN Append(e.sent, Completed(m, body)) ELSE e.sent
    <3>1. PointAt(e, fmt, m, body, K, k, t)
      BY <2>2, <2>3, UpToIs
    <3> QED BY <2>2, <3>1 DEF PointAt
  <2> QED BY <1>1, <2>2, <2>4
<1>7. PICK end : end = Lesser(p + q, size)
  OBVIOUS
<1>8. /\ end \in Nat /\ p < end /\ end <= size
      /\ end - p = Lesser(q, size - p)
      /\ i + 1 < K => end = p + q /\ end < size
      /\ i + 1 = K => end = size
      /\ i + 1 < K \/ i + 1 = K
  BY <1>2, <1>3, <1>7 DEF Lesser
<1>9. PICK u : u = SubSeq(body, p + 1, end)
  OBVIOUS
<1>10. /\ u \in Seq(Nat) /\ Len(u) = end - p
       /\ \A r \in 1 .. end - p : u[r] = body[p + r]
       /\ SubSeq(body, 1, p) \o u = SubSeq(body, 1, end)
       /\ Len(SubSeq(body, 1, p)) = p /\ Len(SubSeq(body, 1, end)) = end
  <2>1. p <= end /\ end <= Len(body) /\ p <= Len(body)
    BY <1>3, <1>4, <1>8
  <2>2. /\ SubSeq(body, p + 1, end) \in Seq(Nat) /\ Len(SubSeq(body, p + 1, end)) = end - p
        /\ \A r \in 1 .. end - p : SubSeq(body, p + 1, end)[r] = body[p + r]
        /\ SubSeq(body, 1, p) \o SubSeq(body, p + 1, end) = SubSeq(body, 1, end)
    BY <1>3, <1>4, <1>8, <2>1, PartOf
  <2>3. Len(SubSeq(body, 1, p)) = p /\ Len(SubSeq(body, 1, end)) = end
    BY <1>3, <1>4, <1>8, <2>1, FirstPart
  <2> QED BY <1>9, <2>2, <2>3
<1>11. g = [fmt |-> IF i = 0 THEN fmt ELSE 3, m |-> m, units |-> u]
  BY <1>1, <1>7, <1>9 DEF Piece
<1>12. g \in Chunks /\ g.m = m /\ g.units = u /\ g.fmt = IF i = 0 THEN fmt ELSE 3
  BY <1>2, <1>4, <1>10, <1>11 DEF Chunks
<1>13. s.open[c] = SubSeq(body, 1, p) /\ (i > 0 => s.head[c] = m)
  BY <1>2, <1>4, <1>5
<1>14. Len(g.units) = Lesser(s.size, g.m.size - Len(s.open[c]))
  BY <1>1, <1>5, <1>8, <1>10, <1>12, <1>13
<1>15. MayUse(g.fmt, g.m, s.head[c]) /\ g.m.kind = KindAfter(g.fmt, g.m.time, s.head[c])
  <2>1. CASE i = 0
    BY <1>4, <1>5, <1>12, <2>1
  <2>2. CASE i > 0
    <3>1. s.head[c] = m /\ g.fmt = 3
      BY <1>12, <1>13, <2>2
    <3> QED BY <1>2, <1>12, <3>1 DEF MayUse, KindAfter
  <2> QED BY <1>2, <2>1, <2>2
<1>16. s.open[c] # <<>> => g.fmt = 3 /\ g.m = s.head[c]
  <2>1. CASE i = 0
    BY <1>4, <1>5, <2>1
  <2>2. CASE i > 0
    BY <1>12, <1>13, <2>2
  <2> QED BY <1>2, <2>1, <2>2
<1>17. Follows(s, g)
  BY <1>1, <1>2, <1>12, <1>14, <1>15, <1>16 DEF Follows
<1>18. Data(s, g) = SubSeq(body, 1, end) /\ (Ends(s, g) <=> i + 1 = K)
  <2>1. Data(s, g) = SubSeq(body, 1, end)
    BY <1>1, <1>10, <1>12, <1>13 DEF Data
  <2>2. Ends(s, g) <=> end = size
    BY <1>1, <1>10, <1>12, <2>1 DEF Ends
  <2> QED BY <1>8, <2>1, <2>2
<1>19. end = size => SubSeq(body, 1, end) = body
  BY <1>4, SubSeqFull
<1>20. s.at + LenHead(g.fmt, g.m) + Len(g.units) = t.at
  <2>1. CASE i = 0
    <3>1. s.at = e.at /\ LenHead(g.fmt, g.m) = h /\ p = 0
      BY <1>1, <1>2, <1>5, <1>12, <2>1
    <3>2. t.at = e.at + h + end
      BY <1>2, <1>3, <1>6, <1>8, <2>1
    <3> QED BY <1>8, <1>10, <1>12, <3>1, <3>2
  <2>2. CASE i > 0
    <3>1. LenHead(g.fmt, g.m) = 1
      <4>1. g.fmt = 3 /\ g.m.ch < 64
        BY <1>1, <1>4, <1>12, <2>2
      <4>2. RestOf(3) = 0
        BY RestNat
      <4> QED BY <4>1, <4>2 DEF LenHead, LenBasic, Marked
    <3>2. s.at = e.at + h + p + (i - 1) /\ Len(g.units) = end - p
      BY <1>5, <1>10, <1>12, <2>2
    <3>3. t.at = e.at + h + end + i
      BY <1>6, <1>8
    <3>4. \A a, b, x, y, z \in Nat : (a + b + x + (z - 1)) + 1 + (y - x) = a + b + y + z
      OBVIOUS
    <3>5. (e.at + h + p + (i - 1)) + 1 + (end - p) = e.at + h + end + i
      BY SMTT(60), <1>2, <1>3, <1>8, <3>4
    <3> QED BY <3>1, <3>2, <3>3, <3>5
  <2> QED BY <1>2, <2>1, <2>2
<1>21. t.head = [s.head EXCEPT ![c] = m]
  <2>1. CASE i = 0
    BY <1>5, <1>6, <2>1
  <2>2. CASE i > 0
    BY <1>4, <1>5, <1>6, <2>2
  <2> QED BY <1>2, <2>1, <2>2
<1>22. t.open = [s.open EXCEPT ![c] = IF Ends(s, g) THEN <<>> ELSE Data(s, g)]
  <2>1. PICK x : x = IF i + 1 = K THEN <<>> ELSE SubSeq(body, 1, p + q)
    OBVIOUS
  <2>2. (IF Ends(s, g) THEN <<>> ELSE Data(s, g)) = x
    BY <1>8, <1>18, <2>1
  <2>3. t.open = [e.open EXCEPT ![c] = x]
    BY <1>6, <2>1
  <2>4. t.open = [s.open EXCEPT ![c] = x]
    BY <1>4, <1>5, <2>3
  <2> QED BY <2>2, <2>4
<1>23. t.sent = IF Ends(s, g) /\ g.m.size > 0 THEN Append(s.sent, Completed(g.m, Data(s, g)))
                ELSE s.sent
  <2>1. CASE i + 1 = K
    <3>1. Data(s, g) = body /\ Ends(s, g) /\ g.m = m /\ g.m.size > 0 /\ s.sent = e.sent
      BY <1>1, <1>2, <1>5, <1>8, <1>12, <1>18, <1>19, <2>1
    <3>2. t.sent = Append(e.sent, Completed(m, body))
      BY <1>6, <2>1
    <3> QED BY <3>1, <3>2
  <2>2. CASE i + 1 # K
    <3>1. ~Ends(s, g) /\ s.sent = e.sent
      BY <1>5, <1>18, <2>2
    <3> QED BY <1>6, <2>2, <3>1
  <2> QED BY <2>1, <2>2
<1>24. After(s, g) = [at |-> t.at, head |-> t.head, open |-> t.open, size |-> t.size,
                      sent |-> t.sent]
  BY <1>1, <1>2, <1>5, <1>6, <1>12, <1>20, <1>21, <1>22, <1>23 DEF After
<1>25. t = [at |-> t.at, head |-> t.head, open |-> t.open, size |-> t.size, sent |-> t.sent]
  BY <1>6 DEF Points
<1>26. After(s, g) = t
  BY <1>24, <1>25
<1> QED BY <1>1, <1>8, <1>10, <1>12, <1>17, <1>26

\* The fields of a message sent at once.
OnWire(fmt, m, body, q) == Prefix(fmt, m) \o Chunked(m.ch, body, q)

\* They are its header and then the body as it is cut.
LEMMA OnWireIs ==
  ASSUME NEW e, NEW fmt, NEW m, NEW body, NEW K, Whole(e, fmt, m, body, K),
         NEW X, X = OnWire(fmt, m, body, e.size)
  PROVE  /\ X \in Seq(Nat) /\ Len(X) = LenHead(fmt, m) + (m.size + (K - 1))
         /\ \A k \in 1 .. LenHead(fmt, m) : X[k] = Prefix(fmt, m)[k]
         /\ \A k \in 1 .. m.size + (K - 1) :
              X[LenHead(fmt, m) + k] = Chunked(m.ch, body, e.size)[k]
<1>1. PICK C, p : C = Chunked(m.ch, body, e.size) /\ p = Prefix(fmt, m)
  OBVIOUS
<1>2. /\ e.size \in Nat \ {0} /\ m.size \in Nat \ {0} /\ m.ch \in Nat
      /\ p \in Seq(Nat) /\ Len(p) = LenHead(fmt, m)
  BY <1>1, WholeIs
<1>3. body \in Seq(Nat) /\ Len(body) = m.size /\ K = 1 + (m.size - 1) \div e.size
  BY DEF Whole
<1>4. C \in Seq(Nat) /\ Len(C) = m.size + (K - 1)
  <2>1. CutAs(C, m.ch, body, m.size, e.size, K)
    BY <1>1, <1>2, <1>3, ChunkedIs
  <2> QED BY <2>1 DEF CutAs
<1>5. X = p \o C
  BY <1>1 DEF OnWire
<1>6. /\ p \o C \in Seq(Nat) /\ Len(p \o C) = Len(p) + Len(C)
      /\ \A i \in 1 .. Len(p) : (p \o C)[i] = p[i]
      /\ \A i \in 1 .. Len(C) : (p \o C)[Len(p) + i] = C[i]
  BY <1>2, <1>4, JoinedNats
<1>7. X \in Seq(Nat) /\ Len(X) = LenHead(fmt, m) + (m.size + (K - 1))
  BY <1>2, <1>4, <1>5, <1>6
<1>8. \A k \in 1 .. LenHead(fmt, m) : X[k] = Prefix(fmt, m)[k]
  BY <1>1, <1>2, <1>5, <1>6
<1>9. \A k \in 1 .. m.size + (K - 1) :
              X[LenHead(fmt, m) + k] = Chunked(m.ch, body, e.size)[k]
  BY <1>1, <1>2, <1>4, <1>5, <1>6
<1> QED BY <1>7, <1>8, <1>9

\* The units of its i-th chunk are where they have to be.
LEMMA PieceUnits ==
  ASSUME NEW e, NEW fmt, NEW m, NEW body, NEW K, Whole(e, fmt, m, body, K),
         NEW i \in 0 .. K - 1, NEW C, C = Chunked(m.ch, body, e.size),
         NEW u, u = Piece(e, fmt, m, body, i).units
  PROVE  /\ i > 0 => C[i * e.size + i] = 3 * 64 + m.ch
         /\ \A r \in 1 .. Len(u) : C[i * e.size + i + r] = u[r]
         /\ Len(u) \in Nat /\ i * e.size + Len(u) <= m.size
<1>1. PICK q, size, p : q = e.size /\ size = m.size /\ p = i * e.size
  OBVIOUS
<1>2. /\ q \in Nat \ {0} /\ size \in Nat \ {0} /\ m.ch \in Nat /\ K \in Nat \ {0}
  BY <1>1, WholeIs
<1>3. body \in Seq(Nat) /\ Len(body) = size /\ K = 1 + (size - 1) \div q
  BY <1>1 DEF Whole
<1>4. /\ i > 0 => C[i * q + i] = 3 * 64 + m.ch
      /\ \A r \in 1 .. Lesser(q, size - i * q) : C[i * q + i + r] = body[i * q + r]
  <2>1. CutAs(C, m.ch, body, size, q, K)
    BY <1>1, <1>2, <1>3, ChunkedIs
  <2> QED BY <2>1, Zenon DEF CutAs
<1>5. Len(u) = Lesser(q, size - p) /\ \A r \in 1 .. Len(u) : u[r] = body[p + r]
  <2>1. PICK g, s : g = Piece(e, fmt, m, body, i) /\ s = UpTo(e, fmt, m, body, i)
    OBVIOUS
  <2>2. /\ Len(g.units) = Lesser(e.size, m.size - i * e.size)
        /\ \A r \in 1 .. Len(g.units) : g.units[r] = body[i * e.size + r]
    BY <2>1, PieceIs
  <2> QED BY <1>1, <2>1, <2>2
<1>6. p \in Nat /\ p < size
  <2>1. i \in 0 .. K /\ i < K
    BY <1>2
  <2> QED BY <1>1, <2>1, CutAt
<1>7. Len(u) \in Nat /\ p + Len(u) <= size
  BY <1>2, <1>5, <1>6 DEF Lesser
<1>8. i > 0 => C[p + i] = 3 * 64 + m.ch
  BY <1>1, <1>4
<1>9. \A r \in 1 .. Len(u) : C[p + i + r] = u[r]
  BY <1>1, <1>4, <1>5
<1> QED BY <1>1, <1>7, <1>8, <1>9

\* Its i-th chunk lies at the i-th point.
LEMMA PieceLies ==
  ASSUME NEW e, NEW fmt, NEW m, NEW body, NEW K, Whole(e, fmt, m, body, K),
         NEW F \in Seq(Nat), e.at = Len(F), NEW X, X = OnWire(fmt, m, body, e.size),
         NEW i \in 0 .. K - 1, NEW s, s = UpTo(e, fmt, m, body, i),
         NEW g, g = Piece(e, fmt, m, body, i)
  PROVE  Lies(F \o X, s.at, g)
<1>1. PICK h, p, u, C, a, size, y :
        /\ h = LenHead(fmt, m) /\ p = i * e.size /\ u = g.units /\ size = m.size
        /\ C = Chunked(m.ch, body, e.size) /\ a = Len(F) /\ y = LenHead(g.fmt, g.m)
  OBVIOUS
<1>2. /\ h \in Nat /\ size \in Nat \ {0} /\ K \in Nat \ {0} /\ i \in Nat /\ i < K /\ a \in Nat
      /\ m.ch \in Nat /\ m.ch >= 2 /\ m.ch < 64 /\ m.ch \in AllChannels /\ fmt \in 0 .. 3
      /\ m \in Headers
  <2>1. m.ch < 64 /\ m \in Headers
    BY DEF Whole
  <2>2. /\ h \in Nat /\ size \in Nat \ {0} /\ K \in Nat \ {0} /\ m.ch \in Nat /\ m.ch >= 2
        /\ m.ch \in AllChannels /\ fmt \in 0 .. 3
    BY <1>1, WholeIs
  <2>3. i \in Nat /\ i < K /\ a \in Nat
    BY <1>1, <2>2
  <2> QED BY <2>1, <2>2, <2>3
<1>3. /\ X \in Seq(Nat) /\ Len(X) = h + (size + (K - 1))
      /\ \A k \in 1 .. h : X[k] = Prefix(fmt, m)[k]
      /\ \A k \in 1 .. size + (K - 1) : X[h + k] = C[k]
  BY <1>1, OnWireIs
<1>4. \A k \in 1 .. Len(X) : (F \o X)[a + k] = X[k]
  BY <1>1, <1>3, JoinedNats
<1>5. /\ i > 0 => C[p + i] = 3 * 64 + m.ch
      /\ \A r \in 1 .. Len(u) : C[p + i + r] = u[r]
      /\ Len(u) \in Nat /\ p + Len(u) <= size
  BY <1>1, PieceUnits
<1>6. p \in Nat /\ p < size
  <2>1. i \in 0 .. K /\ i < K
    BY <1>2
  <2> QED BY <1>1, <2>1, CutAt
<1>7. g \in Chunks /\ g.m = m /\ g.fmt = IF i = 0 THEN fmt ELSE 3
  <2>1. g \in Chunks
    BY PieceIs
  <2> QED BY <2>1 DEF Piece
<1>8. /\ Len(Fields(g)) = y + Len(u) /\ y \in Nat
      /\ \A k \in 1 .. y : Fields(g)[k] = Prefix(g.fmt, m)[k]
      /\ \A k \in 1 .. Len(u) : Fields(g)[y + k] = u[k]
  <2>1. g \in Chunks /\ g.m.ch \in AllChannels /\ g.m = m
    BY <1>2, <1>7
  <2>2. /\ Len(Fields(g)) = LenHead(g.fmt, g.m) + Len(g.units)
        /\ LenHead(g.fmt, g.m) \in Nat \ {0}
    BY <2>1, FieldsAre
  <2>3. \A k \in 1 .. LenHead(g.fmt, g.m) : Fields(g)[k] = Prefix(g.fmt, g.m)[k]
    BY <2>1, FieldsAre
  <2>4. \A k \in 1 .. Len(g.units) : Fields(g)[LenHead(g.fmt, g.m) + k] = g.units[k]
    BY <2>1, FieldsAre
  <2> QED BY <1>1, <2>1, <2>2, <2>3, <2>4
<1>9. /\ i = 0 => s.at = a
      /\ i > 0 => s.at = a + h + p + (i - 1)
  <2>1. PointAt(e, fmt, m, body, K, i, s)
    <3>1. i \in 0 .. K
      BY <1>2
    <3> QED BY <3>1, UpToIs
  <2> QED BY <1>1, <1>2, <2>1 DEF PointAt
\* the units of the chunk
<1>10. ASSUME NEW r \in 1 .. Len(u)
       PROVE  (F \o X)[a + (h + (p + i + r))] = u[r]
  <2>1. p + i + r \in 1 .. size + (K - 1) /\ h + (p + i + r) \in 1 .. h + (size + (K - 1))
    BY <1>2, <1>5, <1>6
  <2>2. X[h + (p + i + r)] = u[r]
    BY <1>3, <1>5, <2>1
  <2> QED BY <1>3, <1>4, <2>1, <2>2
<1>11. CASE i = 0
  <2>1. y = h /\ p = 0 /\ s.at = a /\ g.fmt = fmt
    BY <1>1, <1>2, <1>7, <1>9, <1>11, WholeIs
  <2>2. ASSUME NEW k \in 1 .. Len(Fields(g))
        PROVE  (F \o X)[s.at + k] = Fields(g)[k]
    <3>1. CASE k <= h
      <4>1. k \in 1 .. h /\ k \in 1 .. Len(X)
        BY <1>2, <1>3, <1>8, <3>1
      <4>2. (F \o X)[a + k] = X[k]
        BY <1>4, <4>1
      <4>3. X[k] = Prefix(fmt, m)[k]
        BY <1>3, <4>1
      <4> QED BY <1>8, <2>1, <4>1, <4>2, <4>3
    <3>2. CASE k > h
      <4>1. k - h \in 1 .. Len(u) /\ h + (k - h) = k /\ h + (p + i + (k - h)) = k
        BY <1>2, <1>5, <1>8, <1>11, <2>1, <3>2
      <4>2. (F \o X)[a + k] = u[k - h]
        BY <1>10, <4>1
      <4>3. Fields(g)[k] = u[k - h]
        BY <1>8, <2>1, <4>1
      <4> QED BY <2>1, <4>2, <4>3
    <3>3. k <= h \/ k > h
      BY <1>2, <1>5, <1>8
    <3> QED BY <3>1, <3>2, <3>3
  <2> QED BY <2>2 DEF Lies
<1>12. CASE i > 0
  <2>1. y = 1 /\ s.at = a + h + p + (i - 1) /\ g.fmt = 3
    <3>1. RestOf(3) = 0
      BY RestNat
    <3> QED BY <1>1, <1>2, <1>7, <1>9, <1>12, <3>1 DEF LenHead, LenBasic, Marked
  <2>2. Prefix(3, m)[1] = 3 * 64 + m.ch
    <3>1. 3 \in 0 .. 3 /\ LenBasic(m.ch) = 1 /\ 1 \in 1 .. 1
      BY <1>2 DEF LenBasic
    <3>2. \A k \in 1 .. LenBasic(m.ch) : Prefix(3, m)[k] = Basic(3, m.ch)[k]
      BY <1>2, <3>1, PrefixFields
    <3>3. Basic(3, m.ch)[1] = 3 * 64 + m.ch
      <4>1. PICK f, c : f = 3 /\ c = m.ch
        OBVIOUS
      <4>2. f \in 0 .. 3 /\ c \in Nat /\ c >= 2 /\ c < 64
        BY <1>2, <4>1
      <4>3. Basic(f, c)[1] = f * 64 + c
        BY ZenonT(60), <4>2, BasicFields
      <4> QED BY <4>1, <4>3
    <3> QED BY <3>1, <3>2, <3>3
  <2>3. ASSUME NEW k \in 1 .. Len(Fields(g))
        PROVE  (F \o X)[s.at + k] = Fields(g)[k]
    <3>1. CASE k = 1
      <4>1. /\ p + i \in 1 .. size + (K - 1) /\ h + (p + i) \in 1 .. h + (size + (K - 1))
            /\ s.at + k = a + (h + (p + i))
        BY <1>2, <1>5, <1>6, <1>12, <2>1, <3>1
      <4>2. X[h + (p + i)] = 3 * 64 + m.ch
        BY <1>3, <1>5, <1>12, <4>1
      <4>3. (F \o X)[s.at + k] = 3 * 64 + m.ch
        BY <1>3, <1>4, <4>1, <4>2
      <4>4. Fields(g)[k] = Prefix(3, m)[1]
        BY <1>8, <2>1, <3>1
      <4> QED BY <2>2, <4>3, <4>4
    <3>2. CASE k > 1
      <4>1. PICK r : r = k - 1 /\ r \in 1 .. Len(u) /\ k = 1 + r
        BY <1>5, <1>8, <2>1, <3>2
      <4>2. s.at + k = a + (h + (p + i + r))
        BY <1>2, <1>5, <1>6, <1>12, <2>1, <4>1
      <4>3. (F \o X)[s.at + k] = u[r]
        BY <1>10, <4>1, <4>2
      <4>4. Fields(g)[k] = u[r]
        BY <1>8, <2>1, <4>1
      <4> QED BY <4>3, <4>4
    <3>3. k = 1 \/ k > 1
      BY <1>5, <1>8, <2>1
    <3> QED BY <3>1, <3>2, <3>3
  <2> QED BY <2>3 DEF Lies
<1> QED BY <1>2, <1>11, <1>12

\* The path of a message sent at once.
AllPoints(e, fmt, m, body, K) == [i \in 0 .. K |-> UpTo(e, fmt, m, body, i)]
AllPieces(e, fmt, m, body, K) == [i \in 1 .. K |-> Piece(e, fmt, m, body, i - 1)]

\* It is one.
LEMMA WholePath ==
  ASSUME NEW e, NEW fmt, NEW m, NEW body, NEW K, Whole(e, fmt, m, body, K),
         NEW F \in Seq(Nat), e.at = Len(F), NEW X, X = OnWire(fmt, m, body, e.size),
         NEW U, U = AllPoints(e, fmt, m, body, K),
         NEW V, V = AllPieces(e, fmt, m, body, K)
  PROVE  Path(F \o X, U, V, K) /\ U[0] = e /\ PointAt(e, fmt, m, body, K, K, U[K])
<1>1. K \in Nat \ {0} /\ LenHead(fmt, m) \in Nat /\ m.size \in Nat /\ e.at \in Nat
  BY WholeIs
<1>2. X \in Seq(Nat) /\ Len(X) = LenHead(fmt, m) + (m.size + (K - 1))
  BY OnWireIs
<1>3. ASSUME NEW i \in 0 .. K
      PROVE  U[i] = UpTo(e, fmt, m, body, i) /\ PointAt(e, fmt, m, body, K, i, U[i])
  <2>1. U[i] = UpTo(e, fmt, m, body, i)
    BY DEF AllPoints
  <2> QED BY <2>1, UpToIs
<1>4. 0 \in 0 .. K /\ K \in 0 .. K /\ K > 0
  BY <1>1
<1>5. U[0] = e
  BY <1>3, <1>4 DEF PointAt
<1>6. U[K].at = Len(F \o X)
  <2>1. U[K].at = e.at + LenHead(fmt, m) + m.size + (K - 1)
    BY <1>3, <1>4 DEF PointAt
  <2>2. Len(F \o X) = Len(F) + Len(X)
    BY <1>2, JoinedNats
  <2>3. \A a, b, c, d \in Nat : a + b + c + (d - 1) = a + (b + (c + (d - 1)))
    OBVIOUS
  <2>4. e.at + LenHead(fmt, m) + m.size + (K - 1) = e.at + (LenHead(fmt, m) + (m.size + (K - 1)))
    BY <1>1, <2>3
  <2> QED BY <1>2, <2>1, <2>2, <2>4
<1>7. ASSUME NEW j \in 1 .. K
      PROVE  Link(F \o X, U[j - 1], V[j], U[j])
  <2>1. PICK i : i = j - 1 /\ i \in 0 .. K - 1 /\ i + 1 = j /\ i \in 0 .. K /\ j \in 0 .. K
    BY <1>1
  <2>2. V[j] = Piece(e, fmt, m, body, i)
    BY <2>1 DEF AllPieces
  <2>3. U[i] = UpTo(e, fmt, m, body, i) /\ U[j] = UpTo(e, fmt, m, body, i + 1)
    BY <1>3, <2>1
  <2>4. V[j] \in Chunks /\ Follows(U[i], V[j]) /\ After(U[i], V[j]) = U[j]
    BY <2>1, <2>2, <2>3, PieceIs
  <2>5. Lies(F \o X, U[i].at, V[j])
    BY <2>1, <2>2, <2>3, PieceLies
  <2> QED BY <2>1, <2>4, <2>5 DEF Link
<1>8. ASSUME NEW j \in 0 .. K
      PROVE  U[j] \in Points /\ InPart(U[j]) /\ Earlier(U[j], U[K])
  <2>1. PointAt(e, fmt, m, body, K, j, U[j]) /\ PointAt(e, fmt, m, body, K, K, U[K])
    BY <1>3, <1>4
  <2>2. U[j] \in Points /\ InPart(U[j]) /\ U[K] \in Points
    BY <2>1 DEF PointAt
  <2>3. CASE j = K
    <3>1. Earlier(U[K], U[K])
      <4>1. U[K].sent \in Seq(Messages) /\ U[K].at \in Nat
        BY <2>2 DEF Points
      <4> QED BY <4>1 DEF Earlier, Begins
    <3> QED BY <2>2, <2>3, <3>1
  <2>4. CASE j < K
    <3>1. U[j].at <= U[K].at
      <4>1. U[K].at = e.at + LenHead(fmt, m) + m.size + (K - 1)
        BY <1>4, <2>1 DEF PointAt
      <4>2. CASE j = 0
        <5>1. U[j].at = e.at
          BY <1>5, <4>2
        <5> QED BY <1>1, <4>1, <5>1
      <4>3. CASE j > 0
        <5>1. PICK p : p = j * e.size /\ p \in Nat /\ p < m.size
          BY <2>4, CutAt
        <5>2. U[j].at = e.at + LenHead(fmt, m) + p + (j - 1)
          BY <2>1, <2>4, <4>3, <5>1 DEF PointAt
        <5> QED BY <1>1, <2>4, <4>1, <5>1, <5>2
      <4> QED BY <1>1, <4>2, <4>3
    <3>2. Begins(U[j].sent, U[K].sent)
      <4>1. U[j].sent = e.sent /\ U[K].sent = Append(e.sent, Completed(m, body))
        <5>1. ~(j = K)
          BY <1>1, <2>4
        <5> QED BY <2>1, <5>1 DEF PointAt
      <4>2. e.sent \in Seq(Messages) /\ Completed(m, body) \in Messages
        BY DEF Whole, Points, Completed, Messages
      <4> QED BY <4>1, <4>2, BeginsAppend
    <3>3. ASSUME NEW c \in AllChannels, IsValid(U[j].head[c])
          PROVE  IsValid(U[K].head[c])
      <4>1. U[K].head = [e.head EXCEPT ![m.ch] = m] /\ e.head \in [AllChannels -> Headers]
        BY <1>4, <2>1 DEF PointAt, Whole, Points
      <4>2. CASE c = m.ch
        <5>1. U[K].head[c] = m
          BY <4>1, <4>2
        <5> QED BY <5>1, WholeIs
      <4>3. CASE c # m.ch
        <5>1. U[K].head[c] = e.head[c]
          BY <4>1, <4>3
        <5>2. CASE j = 0
          BY <1>5, <3>3, <5>1, <5>2
        <5>3. CASE j > 0
          <6>1. U[j].head = [e.head EXCEPT ![m.ch] = m]
            BY <2>1, <5>3 DEF PointAt
          <6>2. U[j].head[c] = e.head[c]
            BY <4>1, <4>3, <6>1
          <6> QED BY <3>3, <5>1, <6>2
        <5> QED BY <1>1, <5>2, <5>3
      <4> QED BY <4>2, <4>3
    <3> QED BY <2>2, <3>1, <3>2, <3>3 DEF Earlier
  <2> QED BY <1>1, <2>3, <2>4
<1>9. Path(F \o X, U, V, K)
  BY <1>1, <1>6, <1>7, <1>8 DEF Path
<1> QED BY <1>3, <1>4, <1>5, <1>9

\* A message is sent at once.
LEMMA WholeStep ==
  ASSUME Sound, closed = "no", NEW c \in Channels, NEW fmt \in 0 .. 3, NEW time \in Times,
         NEW size \in Lengths, SendWhole(c, fmt, time, size)
  PROVE  Sound' /\ closed' = "no"
<1>1. PICK F, T, G, n, j, d :
        Trace(F, T, G, n) /\ Feed(F, d) /\ SenderAt(T[n]) /\ ParsedTo(T, G, n, j, d)
  BY DEF Sound
<1>2. PICK e : e = T[n] /\ SenderAt(e)
  BY <1>1
<1>3. e \in Points /\ InPart(e) /\ e.at = Len(F) /\ F \in Seq(Nat)
  <2>1. n \in 0 .. n
    BY <1>1 DEF Trace, Path
  <2> QED BY <1>1, <1>2, <2>1, TraceIs
<1>4. /\ lastHead \in [Channels -> Headers] /\ started \in Nat
      /\ open \in [Channels -> [n : Nat, put : Nat]] /\ chunkSizeOut = e.size
      /\ lastHead[c] = e.head[c] /\ sent = e.sent
  BY <1>2 DEF SenderAt
<1>5. PICK m, body : m = Sent(c, fmt, time, size, lastHead[c]) /\ body = Body(started + 1, size)
  OBVIOUS
<1>6. /\ c < 64 /\ fmt < 2 /\ size > 0 /\ open[c] = Idle /\ MayUse(fmt, m, lastHead[c])
      /\ wire' = wire \o Prefix(fmt, m) \o Chunked(c, body, chunkSizeOut)
      /\ lastHead' = [lastHead EXCEPT ![c] = m] /\ started' = started + 1
      /\ sent' = Append(sent, Completed(m, body))
      /\ UNCHANGED <<chunkSizeOut, open, buf, state, parserVars, closed>>
  BY <1>5 DEF SendWhole
<1>7. /\ m \in Headers /\ m.ch = c /\ m.size = size /\ m.type = MediaType /\ m.time = time
      /\ m.kind = KindAfter(fmt, time, lastHead[c])
  BY <1>4, <1>5, SentIs
<1>8. body \in Seq(Nat) /\ Len(body) = size
  <2>1. started + 1 \in Nat /\ size \in Nat
    BY <1>4, HeadersAssumption
  <2> QED BY <1>5, <2>1, BodyIs
<1>9. PICK K : K = 1 + (m.size - 1) \div e.size
  OBVIOUS
<1>10. e.open[c] = <<>>
  BY <1>2, <1>6 DEF SenderAt
<1>11. Whole(e, fmt, m, body, K)
  <2>1. fmt \in 0 .. 1
    BY <1>6
  <2>2. m.kind = KindAfter(fmt, m.time, e.head[m.ch]) /\ MayUse(fmt, m, e.head[m.ch])
    BY <1>4, <1>6, <1>7
  <2>3. m.ch < 64 /\ m.size > 0 /\ e.open[m.ch] = <<>> /\ m.ch \in Channels
    BY <1>6, <1>7, <1>10
  <2> QED BY <1>3, <1>7, <1>8, <1>9, <2>1, <2>2, <2>3 DEF Whole
<1>12. PICK X, U, V : /\ X = OnWire(fmt, m, body, e.size)
                      /\ U = AllPoints(e, fmt, m, body, K)
                      /\ V = AllPieces(e, fmt, m, body, K)
  OBVIOUS
<1>13. Path(F \o X, U, V, K) /\ U[0] = e /\ PointAt(e, fmt, m, body, K, K, U[K])
  BY <1>3, <1>11, <1>12, WholePath
<1>14. X \in Seq(Nat)
  BY <1>11, <1>12, OnWireIs
<1>15. wire' = wire \o X
  <2>1. Prefix(fmt, m) \in Seq(Nat) /\ wire \in Seq(Nat)
    BY <1>1, <1>11, WholeIs DEF Feed
  <2>2. Chunked(c, body, chunkSizeOut) \in Seq(Nat)
    <3>1. c \in Nat /\ m.size \in Nat \ {0} /\ e.size \in Nat \ {0}
      BY <1>7, <1>11, WholeIs
    <3>2. CutAs(Chunked(c, body, e.size), c, body, m.size, e.size, K)
      BY <1>7, <1>8, <1>9, <3>1, ChunkedIs
    <3> QED BY <1>4, <3>2 DEF CutAs
  <2>3. \A s, t, u \in Seq(Nat) : (s \o t) \o u = s \o (t \o u)
    BY SMTT(60), ConcatAssociative
  <2>4. wire' = wire \o (Prefix(fmt, m) \o Chunked(c, body, chunkSizeOut))
    BY <1>6, <2>1, <2>2, <2>3
  <2> QED BY <1>4, <1>7, <1>12, <2>4 DEF OnWire
<1>16. PICK t : t = U[K]
  OBVIOUS
<1>17. /\ t.size = e.size /\ t.head = [e.head EXCEPT ![c] = m]
       /\ t.open = [e.open EXCEPT ![c] = <<>>]
       /\ t.sent = Append(e.sent, Completed(m, body))
  <2>1. K > 0
    BY <1>11, WholeIs
  <2> QED BY <1>7, <1>13, <1>16, <2>1 DEF PointAt
<1>18. SenderAt(t)'
  <2>1. e.head \in [AllChannels -> Headers] /\ e.open \in [AllChannels -> Seq(Nat)]
    BY <1>3 DEF Points
  <2>2. ControlChannel # c /\ ControlChannel \in AllChannels
    BY ChannelsAssumption DEF AllChannels
  <2>3. t.open[ControlChannel] = <<>>
    BY <1>2, <1>17, <2>1, <2>2 DEF SenderAt
  <2>4. lastHead' \in [Channels -> Headers] /\ started' \in Nat
    BY <1>4, <1>6, <1>7
  <2>5. ASSUME NEW i \in Channels
        PROVE  /\ lastHead'[i] = t.head[i]
               /\ IsValid(lastHead'[i]) => lastHead'[i].type = MediaType
               /\ open'[i] = Idle => t.open[i] = <<>>
               /\ open'[i] # Idle =>
                    /\ IsValid(lastHead'[i]) /\ open'[i].put \in 1 .. lastHead'[i].size - 1
                    /\ t.open[i] = SubSeq(Body(open'[i].n, lastHead'[i].size), 1, open'[i].put)
    <3>1. i \in AllChannels /\ open'[i] = open[i]
      BY <1>6 DEF AllChannels
    <3>2. CASE i # c
      <4>1. lastHead'[i] = lastHead[i] /\ t.head[i] = e.head[i] /\ t.open[i] = e.open[i]
        BY <1>4, <1>6, <1>17, <2>1, <3>1, <3>2
      <4> QED BY <1>2, <3>1, <4>1 DEF SenderAt
    <3>3. CASE i = c
      <4>1. lastHead'[i] = m /\ t.head[i] = m /\ open'[i] = Idle /\ t.open[i] = <<>>
        BY <1>4, <1>6, <1>17, <2>1, <3>1, <3>3
      <4> QED BY <1>7, <4>1
    <3> QED BY <3>2, <3>3
  <2>6. chunkSizeOut' = t.size /\ sent' = t.sent /\ open' \in [Channels -> [n : Nat, put : Nat]]
    BY <1>4, <1>6, <1>17
  <2> QED BY <2>3, <2>4, <2>5, <2>6 DEF SenderAt
<1>19. SenderAt(U[K])'
  BY <1>16, <1>18
<1>20. UNCHANGED <<buf, state, parserVars>> /\ closed' = "no" /\ U[0] = T[n]
  BY <1>2, <1>6, <1>13
<1>21. Sound'
  BY <1>1, <1>13, <1>14, <1>15, <1>19, <1>20, SenderExtends
<1> QED BY <1>20, <1>21

\* SendChunkSize: the size counts behind its message, for the parser as for the sender.
LEMMA ChunkSizeStep ==
  ASSUME Sound, closed = "no", NEW size \in ChunkSizes, SendChunkSize(size)
  PROVE  Sound' /\ closed' = "no"
<1>1. PICK F, T, G, n, j, d :
        Trace(F, T, G, n) /\ Feed(F, d) /\ SenderAt(T[n]) /\ ParsedTo(T, G, n, j, d)
  BY DEF Sound
<1>2. PICK e : e = T[n] /\ SenderAt(e)
  BY <1>1
<1>3. e \in Points /\ InPart(e)
  <2>1. n \in 0 .. n
    BY <1>1 DEF Trace, Path
  <2> QED BY <1>1, <1>2, <2>1, TraceIs
<1>4. PICK m : m = [ch |-> ControlChannel, time |-> 0, kind |-> "abs", size |-> 1,
                    type |-> ChunkSizeType, stream |-> 0]
  OBVIOUS
<1>5. /\ chunkSizeOut' = size /\ wire' = wire \o Prefix(0, m) \o <<size>>
      /\ sent' = Append(sent, Completed(m, <<size>>)) /\ started' = started + 1
      /\ UNCHANGED <<lastHead, open, buf, state, parserVars, closed>>
  BY <1>4 DEF SendChunkSize
<1>6. /\ m.ch = ControlChannel /\ m.time = 0 /\ m.kind = "abs" /\ m.size = 1
      /\ m.type = ChunkSizeType /\ m \in Headers /\ IsValid(m)
  BY <1>4 DEF Headers, Kinds, ControlChannel, ChunkSizeType, IsValid
<1>7. size \in Nat \ {0}
  BY SizesAssumption
<1>8. PICK g : g = [fmt |-> 0, m |-> m, units |-> <<size>>]
  OBVIOUS
<1>9. g \in Chunks /\ g.fmt = 0 /\ g.m = m /\ g.units = <<size>>
  BY <1>6, <1>7, <1>8 DEF Chunks
<1>10. /\ ControlChannel \in AllChannels /\ e.open[ControlChannel] = <<>>
       /\ e.size \in Nat \ {0} /\ e.head \in [AllChannels -> Headers]
       /\ e.open \in [AllChannels -> Seq(Nat)]
  BY <1>2, <1>3, SizesAre DEF AllChannels, SenderAt, Points
<1>11. Follows(e, g)
  <2>1. MayUse(0, m, e.head[ControlChannel])
    BY DEF MayUse
  <2>2. m.kind = KindAfter(0, m.time, e.head[ControlChannel])
    BY <1>6 DEF KindAfter, ExtMark
  <2>3. Len(g.units) = Lesser(e.size, g.m.size - Len(e.open[ControlChannel]))
    BY <1>6, <1>9, <1>10 DEF Lesser
  <2>4. g.units[1] = size
    BY <1>9
  <2> QED BY <1>6, <1>9, <1>10, <2>1, <2>2, <2>3, <2>4 DEF Follows
<1>12. PICK t : t = After(e, g)
  OBVIOUS
<1>13. Data(e, g) = <<size>> /\ Ends(e, g)
  <2>1. Data(e, g) = <<>> \o <<size>>
    BY <1>6, <1>9, <1>10 DEF Data
  <2>2. Data(e, g) = <<size>>
    BY <2>1
  <2> QED BY <1>6, <1>9, <2>2 DEF Ends
<1>14. /\ t.size = size /\ t.head = [e.head EXCEPT ![ControlChannel] = m]
       /\ t.open = [e.open EXCEPT ![ControlChannel] = <<>>]
       /\ t.sent = Append(e.sent, Completed(m, <<size>>))
  BY <1>6, <1>9, <1>12, <1>13 DEF After
<1>15. SenderAt(t)'
  <2>1. /\ lastHead \in [Channels -> Headers] /\ open \in [Channels -> [n : Nat, put : Nat]]
        /\ started' \in Nat
    BY <1>2, <1>5 DEF SenderAt
  <2>2. t.open[ControlChannel] = <<>>
    BY <1>10, <1>14
  <2>3. ASSUME NEW i \in Channels
        PROVE  t.head[i] = e.head[i] /\ t.open[i] = e.open[i]
    <3>1. i \in AllChannels /\ i # ControlChannel
      BY ChannelsAssumption DEF AllChannels, ControlChannel
    <3> QED BY <1>10, <1>14, <3>1
  <2> QED BY <1>2, <1>5, <1>14, <2>1, <2>2, <2>3 DEF SenderAt
<1>16. SenderAt(After(T[n], g))' /\ Follows(T[n], g)
  BY <1>2, <1>11, <1>12, <1>15
<1>17. wire' = wire \o Prefix(g.fmt, g.m) \o g.units /\ UNCHANGED <<buf, state, parserVars>>
  BY <1>5, <1>9
<1>18. Sound'
  BY <1>1, <1>9, <1>16, <1>17, SendOne
<1> QED BY <1>5, <1>18

\* Whatever the channels, lengths, times, chunk sizes and cuts of the reads, the connection
\* is sound as long as it is open.
THEOREM Invariance == Spec => []IInv
<1>1. Init => IInv
  <2>1. Init => closed = "no"
    BY DEF Init
  <2> QED BY <2>1, InitSound DEF IInv
<1>2. IInv /\ [Next]_vars => IInv'
  <2>1. SUFFICES ASSUME IInv, [Next]_vars PROVE IInv'
    OBVIOUS
  <2>2. CASE UNCHANGED vars
    <3>1. UNCHANGED <<senderVars, wire, buf, state, parserVars, closed>>
      BY <2>2 DEF vars
    <3>2. TypeOK /\ ReceivedAsSent => (TypeOK /\ ReceivedAsSent)'
      BY <3>1 DEF TypeOK, ReceivedAsSent, senderVars, parserVars
    <3>3. LegalPeer' => LegalPeer
      BY <3>1 DEF LegalPeer, senderVars
    <3>4. ASSUME Sound
          PROVE  Sound'
      <4>1. PICK F, T, G, n, j, d :
              Trace(F, T, G, n) /\ Feed(F, d) /\ SenderAt(T[n]) /\ ParsedTo(T, G, n, j, d)
        BY <3>4 DEF Sound
      <4>2. Feed(F, d)'
        BY <3>1, <4>1 DEF Feed
      <4>3. ParsedTo(T, G, n, j, d)'
        BY <3>1, <4>1 DEF ParsedTo, Agrees, Handshaking, Between, InChunk, InExt, InRest,
                          InTimmer, InData, Knows, parserVars
      <4>4. UNCHANGED senderVars
        BY <3>1
      <4> QED BY <4>1, <4>2, <4>3, <4>4, Moved
    <3> QED BY <2>1, <3>1, <3>2, <3>3, <3>4 DEF IInv
  <2>3. CASE Send
    <3>1. closed = "no"
      BY <2>3 DEF Send, Blocked
    <3>2. Sound
      BY <2>1, <3>1 DEF IInv
    <3>3. ASSUME NEW c \in Channels, NEW fmt \in 0 .. 3, NEW time \in Times,
                 NEW size \in Lengths, SendWhole(c, fmt, time, size)
          PROVE  Sound' /\ closed' = "no"
      BY <3>1, <3>2, <3>3, WholeStep
    <3>4. ASSUME NEW c \in Channels, NEW fmt \in 0 .. 3, NEW time \in Times,
                 NEW size \in Lengths, PeerBegin(c, fmt, time, size)
          PROVE  Sound' /\ closed' = "no"
      BY <3>1, <3>2, <3>4, PeerStep
    <3>5. ASSUME NEW c \in Channels, PeerContinue(c)
          PROVE  Sound' /\ closed' = "no"
      BY <3>1, <3>2, <3>5, PeerStep
    <3>6. ASSUME NEW size \in ChunkSizes, SendChunkSize(size)
          PROVE  Sound' /\ closed' = "no"
      BY <3>1, <3>2, <3>6, ChunkSizeStep
    <3>7. Sound' /\ closed' = "no"
      BY <2>3, <3>3, <3>4, <3>5, <3>6 DEF Send
    <3> QED BY <3>7, StillSound
  <2>4. ASSUME NEW n \in 1 .. Len(wire), Read(n)
        PROVE  IInv'
    <3>1. closed = "no"
      BY <2>4 DEF Read, Blocked
    <3>2. Sound
      BY <2>1, <3>1 DEF IInv
    <3> QED BY <2>4, <3>1, <3>2, ReadStep DEF IInv
  <2>5. CASE Parse
    <3>1. closed = "no"
      BY <2>5 DEF Parse, Running, processRecvHandshake0, processRecvHandshake1, processData,
        processInitialHeader, processExtHeader, processRemainingHeader, processExtTimmer,
        EmptyData, ChannelTooHigh
    <3>2. Sound
      BY <2>1, <3>1 DEF IInv
    <3>3. ASSUME NEW answer \in Answers,
                 processRecvHandshake0(answer) \/ processRecvHandshake1(answer)
          PROVE  IInv'
      BY <3>1, <3>2, <3>3, HandshakeStep
    <3>4. ASSUME NEW answer \in Answers, processData(answer)
          PROVE  IInv'
      BY <3>1, <3>2, <3>4, BodyStep
    <3>5. CASE \/ processInitialHeader \/ processExtHeader
               \/ processRemainingHeader \/ processExtTimmer
      BY <3>1, <3>2, <3>5, HeaderStep
    <3>6. CASE EmptyData \/ ChannelTooHigh
      <4>1. 0 \in Answers
        BY DEF Answers
      <4> QED BY <3>1, <3>2, <3>6, <4>1, BodyStep
    <3> QED BY <2>5, <3>3, <3>4, <3>5, <3>6 DEF Parse
  <2> QED BY <2>1, <2>2, <2>3, <2>4, <2>5 DEF Next
<1> QED BY <1>1, <1>2, PTL DEF Spec

\* The parser's variables have their types, and only a channel in the middle of a message has
\* a buffer, with some of its units and not all: processData never leaves a whole packet in
\* m_PktIoBufs.
THEOREM TypeCorrect == Spec => []TypeOK
<1>1. IInv => TypeOK
  BY SoundProperties DEF IInv
<1> QED BY <1>1, Invariance, PTL

\* processInputBuffer hands OnRTMPReadCompleted the messages that were sent, whole, with the
\* meaning their sender gave them and in the order of their last units, however the chunks of
\* the channels are interleaved, whatever their headers leave out, whatever chunk sizes are
\* announced in between and wherever OnReadCompleted's reads are cut.
THEOREM MessagesArrive == Spec => []ReceivedAsSent
<1>1. IInv => ReceivedAsSent
  BY SoundProperties DEF IInv
<1> QED BY <1>1, Invariance, PTL

\* A parser that waits when nothing is under way has handed on every message that was sent,
\* and the connection of a peer that keeps to the limits is closed only by a callback.
THEOREM NothingStays == Spec => []NothingHeldBack
<1>1. IInv => NothingHeldBack
  <2>1. Blocked => closed = "no"
    BY DEF Blocked
  <2> QED BY <2>1, SoundProperties DEF IInv, NothingHeldBack
<1> QED BY <1>1, Invariance, PTL
==============================================================================
