--------------------------- MODULE AckWindow_proofs ---------------------------
(***************************************************************************)
(* Proofs about AckWindow.  The inductive invariant adds to the types      *)
(* where the messages lie in the stream, how the count relates to it, that *)
(* the last report is not behind the report before the one that is due     *)
(* next, and what the number in it says to the peer.                       *)
(***************************************************************************)
EXTENDS AckWindow, TLAPS

\* The messages follow each other up to what the peer has sent.
Contiguous ==
    /\ \A i \in 1 .. Len(waiting) : waiting[i].end - waiting[i].start \in Sizes
    /\ \A i \in 1 .. Len(waiting) - 1 : waiting[i].end = waiting[i + 1].start
    /\ waiting # <<>> => waiting[Len(waiting)].end = sent

\* The end of the last message that was handled, or of the handshake.
Done == IF waiting = <<>> THEN sent ELSE waiting[1].start

\* The position of the report before the one that is due next.
Base == origin + next - window

\* Nothing before the session, everything since is in its counter.
Counted ==
    /\ session => early = 0 /\ received = read - origin
    /\ ~session => early = read /\ received = 0 /\ origin = 0 /\ read < StartBytes

\* The count was within the limit when the last message was handled.
CountedInTime == Done <= origin + Limit

\* Fewer bytes than the window lie between the last report and this position.
Room(position, w) == w = 0 \/ position - reported < w

\* The number in the last report is the position, as long as the count has not
\* started again.
NumberIsPosition == origin = 0 => acknowledged = reported

Quiet == \A i \in 1 .. Len(waiting) : ~waiting[i].announces

\* Every announcement had room, which the number shows as long as it is the position
\* and below its range; the last one is the window of the peer.
Announcements ==
    /\ \A i \in 1 .. Len(waiting) :
          origin = 0 /\ waiting[i].announces /\ waiting[i].end < Word
          => Room(waiting[i].end, waiting[i].window)
    /\ \A i \in 1 .. Len(waiting) :
          /\ waiting[i].announces
          /\ \A j \in i + 1 .. Len(waiting) : ~waiting[j].announces
          => waiting[i].window = peerWindow
    /\ Quiet => peerWindow = 0 \/ (session /\ window = peerWindow)

ReportedAtBase == refused \/ reported >= Base

GoesOn == waiting = <<>> /\ ~refused /\ origin = 0 => Room(sent, peerWindow)

IInv ==
    /\ TypeOK /\ Contiguous /\ Counted /\ CountedInTime
    /\ Announcements /\ ReportedAtBase /\ NumberIsPosition /\ GoesOn

----------------------------------------------------------------------------
LEMMA MessageFields == ASSUME NEW x \in Messages PROVE x.end \in Nat /\ x.window \in Nat
<1>1. x.end \in Nat /\ x.window \in Windows \cup {0}
  BY DEF Messages
<1>2. Windows \cup {0} \subseteq Nat
  BY CountersAssumption
<1> QED
  BY <1>1, <1>2

(* What a peer takes from the number is what lies between.                   *)
LEMMA NumberTellsRoom ==
    ASSUME NEW a \in Nat, NEW p \in Nat, a <= p, p < Word
    PROVE  (p - a) % Word = p - a
<1>1. p - a \in 0 .. Word - 1 /\ Word \in Nat \ {0}
  BY CountersAssumption
<1> QED
  BY <1>1

LEMMA InitIInv == Init => IInv
<1> SUFFICES ASSUME Init PROVE IInv
  OBVIOUS
<1> USE CountersAssumption, RoomAssumption DEF Init
<1>1. TypeOK
  <2>1. waiting \in Seq(Messages)
    OBVIOUS
  <2>2. session \in BOOLEAN /\ refused \in BOOLEAN
    OBVIOUS
  <2>3. /\ sent \in Nat /\ early \in Nat /\ next \in Nat /\ refusals \in Nat
        /\ read \in 0 .. sent /\ origin \in 0 .. read /\ reported \in 0 .. read
    OBVIOUS
  <2>4. received \in 0 .. Word - 1 /\ acknowledged \in 0 .. Word - 1 /\ next >= window
    OBVIOUS
  <2>5. peerWindow \in Windows \cup {0} /\ window \in Windows \cup {DefaultWindow}
    OBVIOUS
  <2> QED
    BY <2>1, <2>2, <2>3, <2>4, <2>5 DEF TypeOK
<1>2. Contiguous /\ Counted /\ CountedInTime
  BY DEF Contiguous, Counted, CountedInTime, Done
<1>3. Announcements /\ ReportedAtBase /\ NumberIsPosition /\ GoesOn
  BY DEF Announcements, Quiet, ReportedAtBase, Base, NumberIsPosition, GoesOn, Room
<1> QED
  BY <1>1, <1>2, <1>3 DEF IInv

(* What the peer appends has room in the window it then stops by, so no     *)
(* part of the invariant about the earlier messages is disturbed.           *)
LEMMA PeerKeepsIInv ==
    ASSUME IInv, NEW n \in Sizes, NEW m \in Messages,
           sent' = sent + n,
           waiting' = Append(waiting, m),
           m.start = sent, m.end = sent + n,
           IF m.announces
           THEN peerWindow' = m.window /\ HasRoom(m.end, m.window)
           ELSE peerWindow' = peerWindow,
           UNCHANGED <<read, session, early, counts, reports>>
    PROVE  IInv'
<1> USE CountersAssumption DEF IInv, counts, reports
<1> DEFINE k == Len(waiting)
<1>1. TypeOK'
  BY DEF TypeOK, Messages
<1>2. /\ k \in Nat /\ Len(waiting') = k + 1 /\ waiting'[k + 1] = m
      /\ \A i \in 1 .. k : waiting'[i] = waiting[i] /\ waiting[i] \in Messages
      /\ waiting' # <<>> /\ (waiting = <<>> <=> k = 0)
  BY DEF TypeOK
<1> HIDE DEF k
<1>3. Contiguous'
  <2>1. \A i \in 1 .. k + 1 : waiting'[i].end - waiting'[i].start \in Sizes
    BY <1>2 DEF Contiguous, k, TypeOK, Messages
  <2>2. \A i \in 1 .. k : waiting'[i].end = waiting'[i + 1].start
    BY <1>2 DEF Contiguous, k
  <2> QED
    BY <2>1, <2>2, <1>2 DEF Contiguous
<1>4. Counted' /\ ReportedAtBase' /\ NumberIsPosition' /\ GoesOn'
  BY <1>2 DEF Counted, ReportedAtBase, Base, NumberIsPosition, GoesOn
<1>5. CountedInTime'
  BY <1>2 DEF CountedInTime, Done
<1>6. Announcements'
  <2>1. ASSUME NEW i \in 1 .. k + 1,
               origin' = 0, waiting'[i].announces, waiting'[i].end < Word
        PROVE  \/ waiting'[i].window = 0
               \/ waiting'[i].end - reported' < waiting'[i].window
    <3>1. CASE i \in 1 .. k
      BY <3>1, <2>1, <1>2 DEF Announcements, k, Room
    <3>2. CASE i = k + 1
      <4>1. /\ sent + n < Word /\ m.announces /\ waiting'[i] = m
            /\ acknowledged = reported /\ reported' = reported
        BY <3>2, <2>1, <1>2 DEF NumberIsPosition
      <4>2. sent + n \in Nat /\ reported \in Nat /\ reported <= sent + n
        BY DEF TypeOK
      <4>3. (m.end - acknowledged) % Word = m.end - reported
        BY <4>1, <4>2, NumberTellsRoom, Zenon
      <4>4. m.window = 0 \/ m.end - reported < m.window
        BY <4>1, <4>3, Zenon DEF HasRoom
      <4> QED
        BY <4>1, <4>4, Zenon
    <3> QED
      BY <3>1, <3>2, <1>2
  <2>2. ASSUME NEW i \in 1 .. k + 1,
               waiting'[i].announces,
               \A j \in i + 1 .. k + 1 : ~waiting'[j].announces
        PROVE  waiting'[i].window = peerWindow'
    <3>1. CASE i = k + 1
      BY <3>1, <2>2, <1>2
    <3>2. CASE i \in 1 .. k
      <4>1. ~m.announces
        BY <3>2, <2>2, <1>2
      <4>2. waiting[i].announces /\ \A j \in i + 1 .. k : ~waiting[j].announces
        BY <3>2, <2>2, <1>2
      <4> QED
        BY <4>1, <4>2, <3>2, <1>2 DEF Announcements, k
    <3> QED
      BY <3>1, <3>2, <1>2
  <2>3. Quiet' => (peerWindow = 0 \/ (session /\ window = peerWindow))'
    <3> SUFFICES ASSUME Quiet' PROVE (peerWindow = 0 \/ (session /\ window = peerWindow))'
      OBVIOUS
    <3>1. ~m.announces /\ Quiet
      BY <1>2 DEF Quiet, k
    <3> QED
      BY <3>1 DEF Announcements
  <2> QED
    BY <2>1, <2>2, <2>3, <1>2 DEF Announcements, Room
<1> QED
  BY <1>1, <1>2, <1>3, <1>4, <1>5, <1>6

LEMMA SendsIInv == ASSUME IInv, NEW n \in Sizes, PeerSends(n) PROVE IInv'
<1> DEFINE m == [start |-> sent, end |-> sent + n, announces |-> FALSE, window |-> 0]
<1>1. m \in Messages
  BY CountersAssumption DEF IInv, TypeOK, Messages
<1> QED
  BY <1>1, PeerKeepsIInv DEF PeerSends

LEMMA AnnouncesIInv ==
    ASSUME IInv, NEW n \in Sizes, NEW w \in Windows, PeerAnnounces(n, w) PROVE IInv'
<1> DEFINE m == [start |-> sent, end |-> sent + n, announces |-> TRUE, window |-> w]
<1>1. m \in Messages
  BY CountersAssumption DEF IInv, TypeOK, Messages
<1> QED
  BY <1>1, PeerKeepsIInv DEF PeerAnnounces

----------------------------------------------------------------------------
(* A read takes up to MaxRead bytes and comes only when no message is        *)
(* complete, so the count stays below the range of its counter.              *)
LEMMA EarlyReadIInv == ASSUME IInv, NEW n \in 1 .. MaxRead, EarlyRead(n) PROVE IInv'
<1> USE CountersAssumption, RoomAssumption DEF IInv, EarlyRead, peer, reports
<1>1. /\ early + n = read + n /\ early + n < Word /\ early + n \in Nat
      /\ read' = read + n /\ read' <= sent
  BY DEF TypeOK, Counted
<1>2. /\ received + early + n = early + n
      /\ (early + n) % Word = early + n
  BY <1>1 DEF TypeOK, Counted
<1>3. \/ /\ read' < StartBytes
         /\ early' = read' /\ UNCHANGED <<session, received>>
      \/ session' = TRUE /\ received' = read' /\ early' = 0
  BY <1>1, <1>2
<1>4. TypeOK'
  <2>1. session' \in BOOLEAN /\ refused' \in BOOLEAN
    BY <1>3 DEF TypeOK
  <2>2. received' \in 0 .. Word - 1 /\ early' \in Nat
    BY <1>1, <1>3 DEF TypeOK
  <2>3. read' \in 0 .. sent' /\ origin' \in 0 .. read' /\ reported' \in 0 .. read'
    BY <1>1 DEF TypeOK
  <2> QED
    BY <2>1, <2>2, <2>3 DEF TypeOK
<1>5. Counted'
  BY <1>1, <1>3 DEF Counted, TypeOK
<1>6. Contiguous' /\ CountedInTime' /\ ReportedAtBase' /\ NumberIsPosition'
  BY DEF Contiguous, CountedInTime, Done, ReportedAtBase, Base, NumberIsPosition
<1>7. Announcements'
  BY DEF Announcements, Quiet, Room
<1>8. GoesOn'
  BY DEF GoesOn, Room
<1> QED
  BY <1>4, <1>5, <1>6, <1>7, <1>8

LEMMA ReadIInv == ASSUME IInv, NEW n \in 1 .. MaxRead, ReadCompleted(n) PROVE IInv'
<1> USE CountersAssumption, RoomAssumption DEF IInv, ReadCompleted, peer, reports
<1>1. received + n < Word
  <2>1. received + n = read + n - origin
    BY DEF Counted, TypeOK
  <2>2. CASE waiting = <<>>
    BY <2>1, <2>2 DEF CountedInTime, Done, TypeOK
  <2>3. CASE waiting # <<>>
    <3>1. /\ waiting[1] \in Messages
          /\ waiting[1].end - waiting[1].start \in Sizes
          /\ read < waiting[1].end
      <4>1. Len(waiting) \in Nat \ {0} /\ waiting[1] \in Messages /\ Head(waiting) = waiting[1]
        BY <2>3 DEF TypeOK
      <4>2. waiting[1].end - waiting[1].start \in Sizes
        BY <4>1 DEF Contiguous
      <4>3. read < waiting[1].end
        BY <4>1, <2>3 DEF Complete, TypeOK, Messages
      <4> QED
        BY <4>1, <4>2, <4>3
    <3>2. PICK size \in Sizes : waiting[1].end = waiting[1].start + size
      BY <3>1 DEF Messages
    <3>3. waiting[1].start <= origin + Limit
      BY <2>3 DEF CountedInTime, Done
    <3> QED
      BY <2>1, <3>1, <3>2, <3>3 DEF TypeOK, Messages
  <2> QED
    BY <2>2, <2>3
<1>2. received' = received + n
  BY <1>1 DEF TypeOK
<1>3. TypeOK'
  BY <1>1, <1>2 DEF TypeOK
<1>4. Counted'
  BY <1>2 DEF Counted, TypeOK
<1>5. Contiguous' /\ CountedInTime' /\ ReportedAtBase' /\ NumberIsPosition'
  BY DEF Contiguous, CountedInTime, Done, ReportedAtBase, Base, NumberIsPosition
<1>6. Announcements'
  BY DEF Announcements, Quiet, Room
<1>7. GoesOn'
  BY DEF GoesOn, Room
<1> QED
  BY <1>3, <1>4, <1>5, <1>6, <1>7

----------------------------------------------------------------------------
(* A message: whatever is decided about the report, the report before the    *)
(* next one due is at most as far as the last that was sent.                 *)
LEMMA AnnounceKeepsBase ==
    ASSUME IInv, NEW m \in Messages, NEW due \in Nat, due >= window, Announce(m, due)
    PROVE  \E w \in Windows \cup {0, DefaultWindow} :
              /\ window' = w /\ next' = due - window + w
              /\ w = IF m.announces THEN m.window ELSE window
<1> USE CountersAssumption DEF IInv, TypeOK, Announce, Messages
<1>1. CASE m.announces
  BY <1>1
<1>2. CASE ~m.announces
  BY <1>2
<1> QED
  BY <1>1, <1>2

(* The window and the base after a message, the report that it causes, and   *)
(* that the count is then within the limit.                                  *)
LEMMA MessageReport ==
    ASSUME IInv, OnMessage, NEW m \in Messages, m = Head(waiting)
    PROVE  \E w, base, o, r :
              /\ w \in Windows \cup {0, DefaultWindow} /\ base \in Nat
              /\ o \in 0 .. read /\ r \in reported .. read
              /\ window' = w /\ next' = base + w /\ origin' = o /\ reported' = r
              /\ w = IF m.announces THEN m.window ELSE window
              /\ received' = read - o /\ read - o <= Limit
              /\ refused' \in BOOLEAN /\ refusals' \in Nat
              /\ acknowledged' \in 0 .. Word - 1
              /\ o = 0 => origin = 0 /\ acknowledged' = r
              /\ refused' = TRUE \/ r >= o + base
              /\ refused' = TRUE \/ window = 0 \/ read - r < window
<1>1. /\ read \in Nat /\ received \in 0 .. Word - 1 /\ received = read - origin
      /\ window \in Nat /\ next \in Nat /\ next >= window
      /\ origin \in 0 .. read /\ reported \in 0 .. read /\ refusals \in Nat
      /\ Word \in Nat /\ Limit \in Nat /\ Limit < Word
  BY CountersAssumption, RoomAssumption DEF IInv, TypeOK, OnMessage, Complete, Counted
<1>2. /\ refused \in BOOLEAN /\ acknowledged \in 0 .. Word - 1
      /\ origin = 0 => acknowledged = reported
  BY DEF IInv, TypeOK, NumberIsPosition
<1>3. ASSUME NEW bytes, SendBytesReceived(bytes)
      PROVE  \E r \in reported .. read :
                /\ reported' = r
                /\ refused' = TRUE \/ r = read
                /\ refused' \in BOOLEAN /\ refusals' \in Nat
                /\ \/ acknowledged' = bytes /\ r = read
                   \/ acknowledged' = acknowledged /\ r = reported
  <2>1. CASE /\ acknowledged' = bytes /\ reported' = read
             /\ refused' = FALSE /\ UNCHANGED refusals
    <3>1. read \in reported .. read /\ refusals' \in Nat
      BY <2>1, <1>1
    <3> QED
      BY <2>1, <3>1
  <2>2. CASE /\ refused' = TRUE /\ refusals' = refusals + 1
             /\ UNCHANGED <<acknowledged, reported>>
    <3>1. reported \in reported .. read /\ refusals' \in Nat
      BY <2>2, <1>1
    <3> QED
      BY <2>2, <3>1
  <2> QED
    BY <1>3, <2>1, <2>2 DEF SendBytesReceived
<1>4. CASE StartAgain(m)
  <2>1. PICK w \in Windows \cup {0, DefaultWindow} :
           /\ window' = w /\ next' = 0 + w
           /\ w = IF m.announces THEN m.window ELSE window
    BY <1>4, <1>1, AnnounceKeepsBase, CountersAssumption DEF StartAgain
  <2>2. received' = read - read /\ origin' = read
    BY <1>4, <1>1 DEF StartAgain
  <2>3. PICK r \in reported .. read :
           /\ reported' = r
           /\ refused' = TRUE \/ r = read
           /\ refused' \in BOOLEAN /\ refusals' \in Nat
           /\ \/ acknowledged' = 0 /\ r = read
              \/ acknowledged' = acknowledged /\ r = reported
    BY <1>4, <1>3 DEF StartAgain
  <2>4. refused' = TRUE \/ r >= read + 0
    BY <2>3, <1>1
  <2>5. refused' = TRUE \/ window = 0 \/ read - r < window
    BY <2>3, <1>1
  <2>6. read - read <= Limit /\ read \in 0 .. read /\ 0 \in Nat
    BY <1>1
  <2>7. /\ acknowledged' \in 0 .. Word - 1
        /\ read = 0 => origin = 0 /\ acknowledged' = r
    BY <2>3, <1>1, <1>2
  <2> QED
    BY <2>1, <2>2, <2>3, <2>4, <2>5, <2>6, <2>7
<1>5. CASE Report(m)
  <2>1. PICK w \in Windows \cup {0, DefaultWindow} :
           /\ window' = w /\ next' = next + w
           /\ w = IF m.announces THEN m.window ELSE window
    BY <1>5, <1>1, AnnounceKeepsBase, CountersAssumption DEF Report
  <2>2. /\ received' = read - origin /\ origin' = origin
        /\ read - origin <= Limit /\ read - origin >= next
    BY <1>5, <1>1 DEF Report, NearLimit, Due
  <2>3. PICK r \in reported .. read :
           /\ reported' = r
           /\ refused' = TRUE \/ r = read
           /\ refused' \in BOOLEAN /\ refusals' \in Nat
           /\ \/ acknowledged' = received /\ r = read
              \/ acknowledged' = acknowledged /\ r = reported
    BY <1>5, <1>3 DEF Report
  <2>4. refused' = TRUE \/ r >= origin + next
    BY <2>2, <2>3, <1>1
  <2>5. refused' = TRUE \/ window = 0 \/ read - r < window
    BY <2>3, <1>1
  <2>6. /\ acknowledged' \in 0 .. Word - 1
        /\ origin = 0 => acknowledged' = r
    BY <2>3, <1>1, <1>2
  <2> QED
    BY <2>1, <2>2, <2>3, <2>4, <2>5, <2>6, <1>1
<1>6. CASE NoReport(m)
  <2>1. PICK w \in Windows \cup {0, DefaultWindow} :
           /\ window' = w /\ next' = next - window + w
           /\ w = IF m.announces THEN m.window ELSE window
    BY <1>6, <1>1, AnnounceKeepsBase, CountersAssumption DEF NoReport
  <2>2. /\ received' = read - origin /\ origin' = origin
        /\ read - origin <= Limit /\ read - origin < next
    BY <1>6, <1>1 DEF NoReport, NearLimit, Due
  <2>3. /\ reported' = reported /\ refused' = refused /\ refusals' = refusals
        /\ acknowledged' = acknowledged
    BY <1>6 DEF NoReport, reports
  <2>4. refused' = TRUE \/ reported >= origin + (next - window)
    BY <2>3, <1>1 DEF IInv, ReportedAtBase, Base
  <2>5. refused' = TRUE \/ window = 0 \/ read - reported < window
    BY <2>4, <2>2, <1>1
  <2>6. next - window \in Nat /\ reported \in reported .. read
    BY <1>1
  <2> QED
    BY <2>1, <2>2, <2>3, <2>4, <2>5, <2>6, <1>1, <1>2
<1> QED
  BY <1>4, <1>5, <1>6 DEF OnMessage

LEMMA MessageIInv == ASSUME IInv, OnMessage PROVE IInv'
<1> USE CountersAssumption, RoomAssumption
<1> DEFINE k == Len(waiting)
           m == waiting[1]
<1>1. /\ k \in Nat \ {0} /\ m \in Messages /\ m = Head(waiting)
      /\ Len(waiting') = k - 1 /\ waiting' \in Seq(Messages)
      /\ \A i \in 1 .. k - 1 : waiting'[i] = waiting[i + 1] /\ waiting[i + 1] \in Messages
      /\ waiting' = <<>> <=> k = 1
      /\ waiting # <<>>
  <2>1. waiting \in Seq(Messages) /\ waiting # <<>> /\ waiting' = Tail(waiting)
    BY DEF IInv, TypeOK, OnMessage, Complete
  <2>2. k \in Nat \ {0} /\ m \in Messages /\ m = Head(waiting)
    BY <2>1
  <2>3. /\ waiting' \in Seq(Messages) /\ Len(waiting') = k - 1
        /\ \A i \in 1 .. k - 1 : waiting'[i] = waiting[i + 1] /\ waiting[i + 1] \in Messages
    BY <2>1
  <2>4. waiting' = <<>> <=> k = 1
    BY <2>2, <2>3
  <2> QED
    BY <2>1, <2>2, <2>3, <2>4
<1>2. PICK w, base, o, r :
         /\ w \in Windows \cup {0, DefaultWindow} /\ base \in Nat
         /\ o \in 0 .. read /\ r \in reported .. read
         /\ window' = w /\ next' = base + w /\ origin' = o /\ reported' = r
         /\ w = IF m.announces THEN m.window ELSE window
         /\ received' = read - o /\ read - o <= Limit
         /\ refused' \in BOOLEAN /\ refusals' \in Nat
         /\ acknowledged' \in 0 .. Word - 1
         /\ o = 0 => origin = 0 /\ acknowledged' = r
         /\ refused' = TRUE \/ r >= o + base
         /\ refused' = TRUE \/ window = 0 \/ read - r < window
  BY <1>1, MessageReport
<1>3. /\ UNCHANGED <<peer, read, session, early>>
      /\ session = TRUE /\ m.end <= read
  BY <1>1 DEF OnMessage, Complete, IInv, TypeOK
<1>4. /\ sent \in Nat /\ read \in 0 .. sent /\ reported \in 0 .. read
      /\ peerWindow \in Windows \cup {0} /\ session \in BOOLEAN /\ early \in Nat
  BY DEF IInv, TypeOK
<1> HIDE DEF k, m
<1>5. TypeOK'
  <2>1. /\ sent' \in Nat /\ read' \in 0 .. sent' /\ early' \in Nat
        /\ peerWindow' \in Windows \cup {0} /\ session' \in BOOLEAN
    BY <1>3, <1>4 DEF peer
  <2>2. received' \in 0 .. Word - 1 /\ origin' \in 0 .. read' /\ reported' \in 0 .. read'
    BY <1>2, <1>3, <1>4
  <2>3. /\ window' \in Windows \cup {0, DefaultWindow}
        /\ next' \in Nat /\ next' >= window'
        /\ acknowledged' \in 0 .. Word - 1
    BY <1>2
  <2> QED
    BY <1>1, <1>2, <2>1, <2>2, <2>3 DEF TypeOK
<1>6. Contiguous'
  <2>1. \A i \in 1 .. k : waiting[i].end - waiting[i].start \in Sizes
    BY DEF IInv, Contiguous, k
  <2>2. \A i \in 1 .. k - 1 : waiting[i].end = waiting[i + 1].start
    BY DEF IInv, Contiguous, k
  <2>3. waiting[k].end = sent
    BY <1>1 DEF IInv, Contiguous, k
  <2>4. \A i \in 1 .. k - 1 : waiting'[i].end - waiting'[i].start \in Sizes
    BY <2>1, <1>1
  <2>5. \A i \in 1 .. k - 1 - 1 : waiting'[i].end = waiting'[i + 1].start
    BY <2>2, <1>1
  <2>6. waiting' # <<>> => waiting'[k - 1].end = sent'
    BY <2>3, <1>1, <1>3 DEF peer
  <2> QED
    BY <2>4, <2>5, <2>6, <1>1 DEF Contiguous
<1>7. Counted'
  BY <1>2, <1>3 DEF Counted, IInv
<1>8. CountedInTime'
  <2>1. Done' = m.end
    <3>1. CASE k = 1
      BY <3>1, <1>1, <1>3 DEF Done, IInv, Contiguous, k, m, peer
    <3>2. CASE k # 1
      BY <3>2, <1>1 DEF Done, IInv, Contiguous, k, m
    <3> QED
      BY <3>1, <3>2
  <2>2. m.end <= o + Limit
    BY <1>1, <1>2, <1>3, <1>4 DEF Messages
  <2> QED
    BY <2>1, <2>2, <1>2 DEF CountedInTime
<1>9. Announcements'
  <2>1. \A i \in 1 .. k :
           origin = 0 /\ waiting[i].announces /\ waiting[i].end < Word =>
              waiting[i].window = 0 \/ waiting[i].end - reported < waiting[i].window
    BY DEF IInv, Announcements, Room, k
  <2>2. \A i \in 1 .. k - 1 :
           o = 0 /\ waiting'[i].announces /\ waiting'[i].end < Word =>
              waiting'[i].window = 0 \/ waiting'[i].end - r < waiting'[i].window
    <3> SUFFICES ASSUME NEW i \in 1 .. k - 1, o = 0, waiting[i + 1].announces,
                        waiting[i + 1].end < Word
                 PROVE  \/ waiting[i + 1].window = 0
                        \/ waiting[i + 1].end - r < waiting[i + 1].window
      BY <1>1
    <3>1. /\ waiting[i + 1].end \in Nat /\ waiting[i + 1].window \in Nat
          /\ reported \in Nat /\ r \in Nat /\ reported <= r
      <4>1. waiting[i + 1] \in Messages
        BY <1>1
      <4>2. reported \in Nat /\ r \in Nat /\ reported <= r
        BY <1>2, <1>4
      <4>3. \A x \in Messages : x.end \in Nat /\ x.window \in Nat
        BY MessageFields
      <4> QED
        BY <4>1, <4>2, <4>3
    <3>2. i + 1 \in 1 .. k
      BY <1>1
    <3>3. origin = 0
      BY <1>2
    <3> QED
      BY <2>1, <3>1, <3>2, <3>3
  <2>3. ASSUME NEW i \in 1 .. k,
               waiting[i].announces,
               \A j \in i + 1 .. k : ~waiting[j].announces
        PROVE  waiting[i].window = peerWindow
    BY <2>3 DEF IInv, Announcements, k
  <2>4. ASSUME NEW i \in 1 .. k - 1,
               waiting'[i].announces,
               \A j \in i + 1 .. k - 1 : ~waiting'[j].announces
        PROVE  waiting'[i].window = peerWindow'
    <3>1. i + 1 \in 1 .. k /\ waiting[i + 1].announces
      BY <2>4, <1>1
    <3>2. ASSUME NEW j \in i + 1 + 1 .. k PROVE ~waiting[j].announces
      <4>1. j - 1 \in i + 1 .. k - 1 /\ waiting'[j - 1] = waiting[j]
        BY <1>1
      <4> QED
        BY <4>1, <2>4
    <3> QED
      BY <3>1, <3>2, <2>3, <1>1, <1>3 DEF peer
  <2>5. Quiet' => peerWindow' = 0 \/ (session' /\ window' = peerWindow')
    <3> SUFFICES ASSUME Quiet' PROVE peerWindow = 0 \/ w = peerWindow
      BY <1>2, <1>3 DEF peer
    <3>1. \A j \in 2 .. k : ~waiting[j].announces
      <4> SUFFICES ASSUME NEW j \in 2 .. k PROVE ~waiting[j].announces
        OBVIOUS
      <4>1. j - 1 \in 1 .. k - 1 /\ waiting'[j - 1] = waiting[j]
        BY <1>1
      <4> QED
        BY <4>1, <1>1 DEF Quiet
    <3>2. CASE m.announces
      <4>1. m.window = peerWindow
        BY <3>1, <3>2, <2>3, <1>1 DEF m
      <4> QED
        BY <4>1, <3>2, <1>2
    <3>3. CASE ~m.announces
      <4>1. Quiet
        BY <3>1, <3>3, <1>1 DEF Quiet, k, m
      <4> QED
        BY <4>1, <3>3, <1>2 DEF IInv, Announcements
    <3> QED
      BY <3>2, <3>3
  <2> QED
    BY <2>2, <2>4, <2>5, <1>1, <1>2 DEF Announcements, Room
<1>10. ReportedAtBase'
  <2>1. w \in Nat /\ o \in Nat /\ o + (base + w) - w = o + base
    BY <1>2, <1>4
  <2>2. Base' = o + base
    BY <1>2, <2>1 DEF Base
  <2> QED
    BY <2>2, <1>2 DEF ReportedAtBase
<1>11. NumberIsPosition'
  BY <1>2 DEF NumberIsPosition
<1>12. GoesOn'
  <2> SUFFICES ASSUME waiting' = <<>>, ~refused', o = 0
               PROVE  peerWindow = 0 \/ sent - r < peerWindow
    BY <1>2, <1>3 DEF GoesOn, Room, peer
  <2>1. k = 1 /\ m.end = sent /\ read = sent /\ sent < Word /\ origin = 0
    <3>1. k = 1
      BY <1>1
    <3>2. m.end = sent
      BY <3>1, <1>1 DEF IInv, Contiguous, k, m
    <3> QED
      BY <3>1, <3>2, <1>2, <1>3, <1>4
  <2>2. CASE m.announces
    <3>1. m.window = peerWindow /\ (m.window = 0 \/ m.end - reported < m.window)
      BY <2>1, <2>2, <1>1 DEF IInv, Announcements, Room, k, m
    <3> QED
      BY <3>1, <2>1, <1>1, <1>2, <1>4 DEF Messages
  <2>3. CASE ~m.announces
    <3>1. Quiet
      BY <2>1, <2>3 DEF Quiet, k, m
    <3>2. peerWindow = 0 \/ window = peerWindow
      BY <3>1 DEF IInv, Announcements
    <3> QED
      BY <3>2, <2>1, <1>2
  <2> QED
    BY <2>2, <2>3
<1> QED
  BY <1>5, <1>6, <1>7, <1>8, <1>9, <1>10, <1>11, <1>12 DEF IInv

----------------------------------------------------------------------------
LEMMA StutterIInv == ASSUME IInv, UNCHANGED vars PROVE IInv'
<1> USE DEF IInv, vars, peer, counts, reports
<1>1. TypeOK' /\ Contiguous' /\ Counted' /\ CountedInTime'
  BY DEF TypeOK, Contiguous, Counted, CountedInTime, Done
<1>2. Announcements' /\ ReportedAtBase'
  BY DEF Announcements, Quiet, Room, ReportedAtBase, Base
<1>3. NumberIsPosition' /\ GoesOn'
  BY DEF NumberIsPosition, GoesOn, Room
<1> QED
  BY <1>1, <1>2, <1>3

LEMMA Inductive == Spec => []IInv
<1>1. IInv /\ [Next]_vars => IInv'
  <2> SUFFICES ASSUME IInv, [Next]_vars PROVE IInv'
    OBVIOUS
  <2>1. CASE \E n \in Sizes : PeerSends(n)
    BY <2>1, SendsIInv
  <2>2. CASE \E n \in Sizes, w \in Windows : PeerAnnounces(n, w)
    BY <2>2, AnnouncesIInv
  <2>3. CASE \E n \in 1 .. MaxRead : EarlyRead(n)
    BY <2>3, EarlyReadIInv
  <2>4. CASE \E n \in 1 .. MaxRead : ReadCompleted(n)
    BY <2>4, ReadIInv
  <2>5. CASE OnMessage
    BY <2>5, MessageIInv
  <2>6. CASE UNCHANGED vars
    BY <2>6, StutterIInv
  <2> QED
    BY <2>1, <2>2, <2>3, <2>4, <2>5, <2>6 DEF Next
<1> QED
  BY InitIInv, <1>1, PTL DEF Spec

(* The counters keep their ranges, for any windows, messages and reads: the  *)
(* UINT32 stays below 2^32 and the UINT64 from which an announced window is  *)
(* subtracted (libmediasrv_rtmp.cpp:2553) does not go below zero.            *)
THEOREM TypeCorrect == Spec => []TypeOK
<1>1. IInv => TypeOK
  BY DEF IInv
<1> QED
  BY <1>1, Inductive, PTL

(* No byte is lost from the count and the count never wraps.                 *)
THEOREM CountedExactly == Spec => []CountIsExact
<1>1. IInv => CountIsExact
  BY DEF IInv, TypeOK, Counted, CountIsExact
<1> QED
  BY <1>1, Inductive, PTL

(* Reports go on, also where the count starts again: a message after which   *)
(* a whole window or more would be read and unreported has a report sent.    *)
THEOREM ReportsAreSent == Spec => ReportsGoOn
<1>1. ASSUME IInv, [Next]_vars
      PROVE  [OnMessage => refused' \/ window = 0 \/ read - reported' < window]_vars
  <2> SUFFICES ASSUME OnMessage
               PROVE  refused' \/ window = 0 \/ read - reported' < window
    OBVIOUS
  <2> DEFINE m == Head(waiting)
  <2>1. m \in Messages
    BY <1>1 DEF IInv, TypeOK, OnMessage, Complete
  <2> QED
    BY <1>1, <2>1, MessageReport
<1> QED
  BY Inductive, <1>1, PTL DEF Spec, ReportsGoOn

(* A peer that goes by the number in the reports does not wait for ever, as  *)
(* long as the count has not started again: the report comes with the last   *)
(* message it sent, and its number leaves room.                              *)
THEOREM PeerGoesOn == Spec => []PeerIsNotStuck
<1>1. IInv => PeerIsNotStuck
  <2> SUFFICES ASSUME IInv, waiting = <<>>, session, ~refused, origin = 0
               PROVE  HasRoom(sent, peerWindow)
    BY DEF PeerIsNotStuck
  <2>1. /\ sent \in Nat /\ reported \in Nat /\ reported <= sent
        /\ sent < Word /\ acknowledged = reported
    BY CountersAssumption, RoomAssumption
    DEF IInv, TypeOK, CountedInTime, Done, NumberIsPosition
  <2>2. (sent - acknowledged) % Word = sent - reported
    BY <2>1, NumberTellsRoom, RoomAssumption, Zenon
  <2> QED
    BY <2>2 DEF IInv, GoesOn, Room, HasRoom
<1> QED
  BY <1>1, Inductive, PTL
=============================================================================
