----------------------------- MODULE AckWindow -----------------------------
(***************************************************************************)
(* Acknowledgement of received bytes (CRTMPNetworkSrv::OnReadCompleted,    *)
(* OnRTMPReadCompleted and OnOther of libmediasrv_rtmp.cpp).  A peer may   *)
(* leave no more than its window of bytes unacknowledged.  The server      *)
(* counts the bytes of every read, before they are parsed, and compares    *)
(* the count with the next report due only when a message is complete, so  *)
(* one comparison stands for a read of any length and a message may need   *)
(* any number of reads.  The count is a UINT32 that is set back to zero    *)
(* before it can wrap; the peer changes its window by a message.           *)
(*                                                                         *)
(* Positions in the byte stream from the peer (sent, read, reported and    *)
(* the ends of messages) are those of the peer's bytes since the           *)
(* connection was made.  A report carries a number, the count, and a peer  *)
(* goes by this number: it takes it for the position that the server has   *)
(* read, in the 32 bits of the field.  When the count starts again it is   *)
(* told of zero bytes.  Reports reach the peer at once: a late one only    *)
(* makes it send later.  A peer finishes the messages it starts.           *)
(***************************************************************************)
EXTENDS Integers, Sequences

CONSTANTS
    Word,           \* 2^32: the range of m_nBytesReceived
    Limit,          \* 4000000000: where the count starts again
    DefaultWindow,  \* RECEIVED_BYTES_COUNT_REPORT_CHUNK
    Windows,        \* the windows the peer announces; 0: it never waits
    Sizes,          \* the bytes from the end of a message to that of the next
    MaxRead,        \* bytes of one read
    Handshake,      \* bytes of the peer's part of the handshake
    StartBytes,     \* bytes that must be there for a session to be created
    MaxSent,        \* bound: bytes sent in all
    MaxRefused      \* bound: reports that Send refuses

ASSUME CountersAssumption ==
    /\ Word \in Nat /\ Limit \in Nat /\ DefaultWindow \in Nat /\ MaxRead \in Nat
    /\ Handshake \in Nat /\ StartBytes \in Nat \ {0}
    /\ MaxSent \in Nat /\ MaxRefused \in Nat
    /\ Windows \subseteq Nat /\ Sizes \subseteq Nat
    /\ Handshake <= MaxSent

\* The bytes between the ends of two messages (interleaved ones of other chunk
\* streams included), or from the first byte to the first message, and one read
\* fit between the limit and the range of the counter, and so does a window.
ASSUME RoomAssumption ==
    /\ DefaultWindow < Word /\ \A w \in Windows : w < Word
    /\ Handshake <= Limit /\ Limit < Word /\ StartBytes + MaxRead <= Word
    /\ \A n \in Sizes : Limit + n + MaxRead <= Word

VARIABLES
    sent,       \* position up to which the peer has sent
    waiting,    \* messages sent and not handled: their place, and what they announce
    peerWindow, \* the window by which the peer stops
    read,       \* position up to which the network thread has read
    session,    \* m_ctxRtmp exists
    early,      \* m_nBytesRead of a connection without a session
    received,   \* m_nBytesReceived
    window,     \* m_windowAck
    next,       \* m_nextReceivedBytesCountReport
    origin,     \* position at which the count last was zero
    acknowledged, \* the number in the last report
    reported,   \* history: position read when the last report was sent
    refused,    \* the last report was refused by Send
    refusals    \* reports refused so far

peer == <<sent, peerWindow>>
counts == <<received, window, next, origin>>
reports == <<acknowledged, reported, refused, refusals>>
vars == <<peer, waiting, read, session, early, counts, reports>>

Messages == [start : Nat, end : Nat, announces : BOOLEAN, window : Windows \cup {0}]

\* By the last number it was told, the peer has fewer bytes than its window
\* unacknowledged.
HasRoom(position, w) == w = 0 \/ (position - acknowledged) % Word < w

----------------------------------------------------------------------------
(* The peer.                                                               *)

\* A message without an announcement.
PeerSends(n) ==
    /\ sent + n <= MaxSent
    /\ HasRoom(sent, peerWindow)
    /\ sent' = sent + n
    /\ waiting' = Append(waiting, [start |-> sent, end |-> sent + n,
                                   announces |-> FALSE, window |-> 0])
    /\ UNCHANGED <<peerWindow, read, session, early, counts, reports>>

\* Window Acknowledgement Size: a peer announces a window that has room left.
PeerAnnounces(n, w) ==
    /\ sent + n <= MaxSent
    /\ HasRoom(sent, peerWindow) /\ HasRoom(sent + n, w)
    /\ sent' = sent + n
    /\ peerWindow' = w
    /\ waiting' = Append(waiting, [start |-> sent, end |-> sent + n,
                                   announces |-> TRUE, window |-> w])
    /\ UNCHANGED <<read, session, early, counts, reports>>

----------------------------------------------------------------------------
(* The network thread.                                                     *)

\* A message is in the buffer to its end: processInputBuffer goes on with it
\* before anything else is read.
Complete == session /\ waiting # <<>> /\ Head(waiting).end <= read

\* CRTMPNetworkSrv::OnReadCompleted of a connection without a session, and
\* CreateRTMPCtx, which hands the count over to the session.
EarlyRead(n) ==
    /\ ~session
    /\ read + n <= sent
    /\ read' = read + n
    /\ IF read + n < StartBytes
       THEN early' = early + n /\ UNCHANGED <<session, received>>
       ELSE session' = TRUE /\ received' = (received + early + n) % Word /\ early' = 0
    /\ UNCHANGED <<peer, waiting, window, next, origin, reports>>

\* CRTMPNetworkSrv::OnReadCompleted of a session.
ReadCompleted(n) ==
    /\ session /\ ~Complete
    /\ read + n <= sent
    /\ read' = read + n
    /\ received' = (received + n) % Word
    /\ UNCHANGED <<peer, waiting, session, early, window, next, origin, reports>>

\* SendBytesReceived, whose failure nobody looks at.
SendBytesReceived(bytes) ==
    \/ /\ acknowledged' = bytes /\ reported' = read
       /\ refused' = FALSE /\ UNCHANGED refusals
    \/ /\ refusals < MaxRefused
       /\ refused' = TRUE /\ refusals' = refusals + 1
       /\ UNCHANGED <<acknowledged, reported>>

\* Mutant of NearLimit: the count is left to wrap.
NearLimitNever == FALSE
NearLimit == received > Limit - window \div 2
Due == received >= next

\* Mutant of Announce: the next report stays where it was.
AnnounceForLater(m, due) ==
    /\ window' = IF m.announces THEN m.window ELSE window
    /\ next' = due

\* The report due after the next one, which a message that announces a window
\* moves by the difference of the windows.
Announce(m, due) ==
    /\ window' = IF m.announces THEN m.window ELSE window
    /\ next' = IF m.announces THEN due - window + m.window ELSE due

\* Mutant of StartAgain: the next report stays where it was.
StartAgainOldReport(m) ==
    /\ NearLimit
    /\ received' = 0
    /\ origin' = read
    /\ SendBytesReceived(0)
    /\ Announce(m, next)

\* The count starts again: the peer is told of zero bytes.
StartAgain(m) ==
    /\ NearLimit
    /\ received' = 0
    /\ origin' = read
    /\ SendBytesReceived(0)
    /\ Announce(m, window)

\* Mutant of Report: the peer is told of the mark that was passed.
ReportMark(m) ==
    /\ ~NearLimit /\ Due
    /\ SendBytesReceived(next)
    /\ Announce(m, next + window)
    /\ UNCHANGED <<received, origin>>

Report(m) ==
    /\ ~NearLimit /\ Due
    /\ SendBytesReceived(received)
    /\ Announce(m, next + window)
    /\ UNCHANGED <<received, origin>>

NoReport(m) ==
    /\ ~NearLimit /\ ~Due
    /\ Announce(m, next)
    /\ UNCHANGED <<received, origin, reports>>

\* OnRTMPReadCompleted, and OnOther for a message that announces a window.
OnMessage ==
    /\ Complete
    /\ waiting' = Tail(waiting)
    /\ \/ StartAgain(Head(waiting))
       \/ Report(Head(waiting))
       \/ NoReport(Head(waiting))
    /\ UNCHANGED <<peer, read, session, early>>

----------------------------------------------------------------------------
Init ==
    /\ sent = Handshake /\ waiting = <<>> /\ peerWindow = 0
    /\ read = 0 /\ session = FALSE /\ early = 0
    /\ received = 0 /\ origin = 0
    /\ window = DefaultWindow /\ next = DefaultWindow
    /\ acknowledged = 0 /\ reported = 0 /\ refused = FALSE /\ refusals = 0

Next ==
    \/ \E n \in Sizes : PeerSends(n)
    \/ \E n \in Sizes, w \in Windows : PeerAnnounces(n, w)
    \/ \E n \in 1 .. MaxRead : EarlyRead(n)
    \/ \E n \in 1 .. MaxRead : ReadCompleted(n)
    \/ OnMessage

Spec == Init /\ [][Next]_vars

----------------------------------------------------------------------------
(* Properties.                                                             *)

\* Types; the report due is never less than a window ahead of zero, so the
\* UINT64 that a smaller announced window is subtracted from does not wrap.
TypeOK ==
    /\ sent \in Nat /\ read \in 0 .. sent
    /\ waiting \in Seq(Messages)
    /\ peerWindow \in Windows \cup {0}
    /\ session \in BOOLEAN /\ early \in Nat
    /\ received \in 0 .. Word - 1
    /\ window \in Windows \cup {0, DefaultWindow}
    /\ next \in Nat /\ next >= window
    /\ origin \in 0 .. read /\ reported \in 0 .. read
    /\ acknowledged \in 0 .. Word - 1
    /\ refused \in BOOLEAN /\ refusals \in Nat

\* The UINT32 counter never wraps: it is set back in time, whatever the window
\* and however the reads fall, and no byte is left out of it.
CountIsExact == received + early = read - origin

\* Reports go on wherever the count starts again, however much one read or one
\* message brings and whatever windows are announced: when a message has been
\* handled and its report was not refused, the server has read less than the window
\* it went by since it reported last.
ReportsGoOn ==
    [][OnMessage => refused' \/ window = 0 \/ read - reported' < window]_vars

\* A peer that waits for a report gets it, as long as the count has not started
\* again: once everything it sent is read and handled and no report was refused,
\* the number it was told leaves room in its window, whatever windows it announced.
\* Afterwards the numbers are smaller than the positions of its bytes, and such a
\* peer may wait for ever, whatever ReportsGoOn has the server send.
PeerIsNotStuck ==
    waiting = <<>> /\ session /\ ~refused /\ origin = 0 => HasRoom(sent, peerWindow)
=============================================================================
