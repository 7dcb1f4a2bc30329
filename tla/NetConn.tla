------------------------------- MODULE NetConn -------------------------------
(***************************************************************************)
(* CNetAsyncSelect of libcpputil, the poll build: one network thread that  *)
(* accepts, reads, writes, times out and closes connections, while other   *)
(* threads send on them (CNetAsyncSelect::Send) and ask for them to be     *)
(* closed (CloseConnection).                                               *)
(*                                                                         *)
(* m_mtxListContext is held by the network thread in the states ListLocked *)
(* and m_mtx of a connection in the state "write"; every other use of one  *)
(* of them is inside one step.  The kernel is part of the model: how many  *)
(* units a send takes, what poll reports, when the peer sends or goes.     *)
(***************************************************************************)
EXTENDS Integers, Sequences, FiniteSets

CONSTANTS
    Conns,           \* CObjConnContext objects
    Bufs,            \* CObjNetIOBuffer objects, each sent once by a thread of its own
    Target, Size,    \* the connection a buffer is sent on, and its m_nDataLen
    MaxConnections,  \* m_nMaxConnections
    MaxSends,        \* m_nMaxSends
    MaxWritting,     \* m_nMaxWrittingBytes
    MaxCtxs,         \* _MAX_CTXS_
    Timeout,         \* m_nSessionTimeoutSeconds, 0 for the -1 that means none
    MayDecline,      \* OnSessionTimeout may return -1
    Closable,        \* the connections the application may refuse or close
    MayStop,         \* bound: whether Shutdown is called
    MayBreak,        \* whether a peer goes away
    Talkers          \* the connections whose peers send

ASSUME ConstantsAssumption ==
    /\ Target \in [Bufs -> Conns] /\ Size \in [Bufs -> Nat \ {0}]
    /\ {MaxConnections, MaxSends, MaxWritting, Timeout} \subseteq Nat
    /\ MaxCtxs \in Nat /\ MaxCtxs > 2
    /\ {MayDecline, MayStop, MayBreak} \subseteq BOOLEAN
    /\ Closable \subseteq Conns /\ Talkers \subseteq Conns

VARIABLES
    \* a connection
    phase,      \* none, pending (connect done, not accepted), refused, listed, closed, destroyed
    closing,    \* m_bClosing
    soc,        \* m_soc # INVALID_RDE
    shut,       \* shutdown(SD_BOTH) was called on the socket
    broken,     \* the peer is gone
    readable,   \* the peer has sent something that was not read
    age,        \* now - m_tmLastActive, up to Timeout
    sendq,      \* m_listSendBufs
    writting,   \* m_nWrittingBytes
    closed,     \* how often OnConnectionClosed and OnClose were called
    \* a buffer and the thread that sends it
    spc,        \* where Send is
    sent,       \* m_nLenTrans
    refs,       \* m_nRef
    \* the network thread
    list,       \* m_listContext
    npc,        \* where ThreadWorker is
    todo,       \* what is left of a walk over the list
    polled,     \* pollfds and ctxsPoll, less what was handled already
    active,     \* ctxs
    did,        \* bActive of HandleEventRead and HandleEventWrite
    stop, ctl,  \* m_bShutDown, and where the caller of Shutdown is
    \* history
    queued,     \* the buffers that Send put into m_listSendBufs, in order
    wire,       \* the units the kernel took, as <<buffer, unit>>
    declined    \* the connections OnSessionTimeout wanted to keep in this walk

peer == <<broken, readable>>
flags == <<closing, soc, shut>>
out == <<sendq, writting, sent, queued, wire>>
net == <<list, npc, todo, polled, active, did, declined>>
life == <<phase, closed>>
vars == <<peer, flags, out, net, life, age, spc, refs, stop, ctl>>

-----------------------------------------------------------------------------
\* m_mtxListContext is held by the network thread; so is the m_mtx of c.
ListLocked == npc \in {"scan", "accept", "conn", "events", "recv", "write",
                       "move", "expire", "final"}

ConnLocked(c) == npc = "write" /\ Head(polled).c = c

\* A send on this socket fails for good.
Dead(c) == broken[c] \/ shut[c]

\* ListDel: an entry is unlinked, one that is in no list stays so.  The same for ctxs.
In(c, l) == \E i \in 1..Len(l) : l[i] = c
ListDel(l, c) ==
    IF In(c, l)
    THEN LET i == CHOOSE i \in 1..Len(l) : l[i] = c
         IN [j \in 1..(Len(l) - 1) |-> IF j < i THEN l[j] ELSE l[j + 1]]
    ELSE l

\* Mutant of MovedToTail: the entry is linked in without asking whether it is
\* linked at all.
MovedToTailAnyway(l, c) == Append(ListDel(l, c), c)

\* ListMoveTail does nothing to an object that is in no list.
MovedToTail(l, c) == IF In(c, l) THEN Append(ListDel(l, c), c) ELSE l

\* Mutant of CloseCtx: a connection that is closing counts as announced.
CloseCtxSilently(c) ==
    /\ list' = ListDel(list, c)
    /\ closing' = [closing EXCEPT ![c] = TRUE]
    /\ soc' = [soc EXCEPT ![c] = FALSE]
    /\ phase' = [phase EXCEPT ![c] = "closed"]
    /\ closed' = [closed EXCEPT ![c] = @ \/ ~closing[c]]

\* What every removal by the network thread does: RemoveConnContext,
\* OnConnectionClosed and OnClose unless m_bTriggeredClosedEvent, and
\* libcpputil_close_ctx.
CloseCtx(c) ==
    /\ list' = ListDel(list, c)
    /\ closing' = [closing EXCEPT ![c] = TRUE]
    /\ soc' = [soc EXCEPT ![c] = FALSE]
    /\ phase' = [phase EXCEPT ![c] = "closed"]
    /\ closed' = [closed EXCEPT ![c] = TRUE]

\* CloseConnection, which does nothing to a connection that is closing.
CloseConnection(c) ==
    /\ closing' = [closing EXCEPT ![c] = TRUE]
    /\ shut' = [shut EXCEPT ![c] = @ \/ (soc[c] /\ ~closing[c])]
    /\ UNCHANGED soc

-----------------------------------------------------------------------------
(* CNetAsyncSelect::Send.                                                   *)

\* The tests made without a lock.  Too long a queue sets m_bClosing and leaves
\* the socket alone.
SendCheck(b) ==
    LET c == Target[b] IN
    /\ spc[b] = "new" /\ phase[c] \in {"listed", "closed"}
    /\ IF closing[c] \/ ~soc[c]
       THEN spc' = [spc EXCEPT ![b] = "rejected"] /\ UNCHANGED closing
       ELSE IF Len(sendq[c]) > MaxSends
       THEN /\ closing' = [closing EXCEPT ![c] = TRUE]
            /\ spc' = [spc EXCEPT ![b] = "rejected"]
       ELSE spc' = [spc EXCEPT ![b] = "checked"] /\ UNCHANGED closing
    /\ UNCHANGED <<peer, soc, shut, out, net, life, age, refs, stop, ctl>>

\* k units of b, from unit n + 1 on, in the order the kernel takes them.
Units(b, n, k) == [i \in 1..k |-> <<b, n + i>>]

\* Mutant of SendQueue: the units sent at once stay in m_nWrittingBytes.
SendQueueKeepsBytes(b) ==
    LET c == Target[b] IN
    /\ spc[b] = "checked" /\ ~ConnLocked(c)
    /\ \E k \in (IF sendq[c] = <<>> THEN 0..Size[b] ELSE {0}) :
         /\ sendq' = [sendq EXCEPT ![c] = Append(@, b)]
         /\ queued' = [queued EXCEPT ![c] = Append(@, b)]
         /\ writting' = [writting EXCEPT ![c] = @ + Size[b]]
         /\ sent' = [sent EXCEPT ![b] = k]
         /\ wire' = [wire EXCEPT ![c] = @ \o Units(b, 0, k)]
         /\ spc' = [spc EXCEPT ![b] = IF k > 0 THEN "active" ELSE "accepted"]
    /\ UNCHANGED <<peer, flags, net, life, age, refs, stop, ctl>>

\* What Send does under the connection's lock.  A first buffer is sent at once
\* and stays in the queue, whatever is left of it.  On a closed socket
\* libcpputil_loop_send returns -1 without touching errno, whose old value
\* decides what Send makes of it.
SendQueue(b) ==
    LET c == Target[b] IN
    /\ spc[b] = "checked" /\ ~ConnLocked(c)
    /\ IF writting[c] >= MaxWritting
       THEN spc' = [spc EXCEPT ![b] = "rejected"] /\ UNCHANGED out
       ELSE \E k \in (IF sendq[c] = <<>> /\ soc[c] THEN 0..Size[b] ELSE {0}) :
            /\ sendq' = [sendq EXCEPT ![c] = Append(@, b)]
            /\ queued' = [queued EXCEPT ![c] = Append(@, b)]
            /\ writting' = [writting EXCEPT ![c] = @ + Size[b] - k]
            /\ sent' = [sent EXCEPT ![b] = k]
            /\ wire' = [wire EXCEPT ![c] = @ \o Units(b, 0, k)]
            /\ spc' \in {[spc EXCEPT ![b] = s] : s \in
                 IF sendq[c] # <<>> THEN {"accepted"}
                 ELSE IF ~soc[c] THEN {"failed", "accepted"}
                 ELSE IF Dead(c) /\ k < Size[b] THEN {"failed"}
                 ELSE IF k > 0 THEN {"active"} ELSE {"accepted"}}
    /\ UNCHANGED <<peer, flags, net, life, age, refs, stop, ctl>>

\* Mutant of SendFail: AddObjRef is missing.
SendFailKeepsCount(b) ==
    /\ spc[b] = "failed"
    /\ CloseConnection(Target[b])
    /\ spc' = [spc EXCEPT ![b] = "rejected"]
    /\ UNCHANGED <<peer, out, net, life, age, refs, stop, ctl>>

\* bError: AddObjRef, CloseConnection, FALSE.
SendFail(b) ==
    /\ spc[b] = "failed"
    /\ refs' = [refs EXCEPT ![b] = @ + 1]
    /\ CloseConnection(Target[b])
    /\ spc' = [spc EXCEPT ![b] = "rejected"]
    /\ UNCHANGED <<peer, out, net, life, age, stop, ctl>>

\* The caller of Send keeps its reference when Send returns FALSE.
CallerRelease(b) ==
    /\ spc[b] = "rejected"
    /\ refs' = [refs EXCEPT ![b] = @ - 1]
    /\ spc' = [spc EXCEPT ![b] = "returned"]
    /\ UNCHANGED <<peer, flags, out, net, life, age, stop, ctl>>

\* bActived: first the time of the last activity, then the place in the list.
SendActive(b) ==
    /\ spc[b] = "active"
    /\ age' = [age EXCEPT ![Target[b]] = 0]
    /\ spc' = [spc EXCEPT ![b] = "move"]
    /\ UNCHANGED <<peer, flags, out, net, life, refs, stop, ctl>>

SendMove(b) ==
    /\ spc[b] = "move" /\ ~ListLocked
    /\ list' = MovedToTail(list, Target[b])
    /\ spc' = [spc EXCEPT ![b] = "accepted"]
    /\ UNCHANGED <<peer, flags, out, npc, todo, polled, active, did, declined, life, age,
                   refs, stop, ctl>>

Sender(b) == SendQueue(b) \/ SendFail(b) \/ CallerRelease(b) \/ SendActive(b) \/ SendMove(b)

-----------------------------------------------------------------------------
(* The application, the peers, the clock.                                   *)

AppClose(c) ==
    /\ c \in Closable /\ phase[c] \in {"listed", "closed"} /\ ~closing[c]
    /\ CloseConnection(c)
    /\ UNCHANGED <<peer, out, net, life, age, spc, refs, stop, ctl>>

\* The last reference to a connection that was removed is dropped: the
\* destructor closes the socket and releases what is left in m_listSendBufs.
Destroy(c) ==
    /\ phase[c] = "closed"
    /\ \A b \in Bufs : Target[b] = c =>
         spc[b] \notin {"checked", "failed", "active", "move"}
    /\ phase' = [phase EXCEPT ![c] = "destroyed"]
    /\ soc' = [soc EXCEPT ![c] = FALSE]
    /\ refs' = [b \in Bufs |-> IF In(b, sendq[c])
                               THEN refs[b] - 1 ELSE refs[b]]
    /\ sendq' = [sendq EXCEPT ![c] = <<>>]
    /\ UNCHANGED <<peer, closing, shut, writting, sent, queued, wire, net, closed,
                   age, spc, stop, ctl>>

PeerConnect(c) ==
    /\ phase[c] = "none"
    /\ phase' = [phase EXCEPT ![c] = "pending"]
    /\ UNCHANGED <<peer, flags, out, net, closed, age, spc, refs, stop, ctl>>

PeerSend(c) ==
    /\ c \in Talkers /\ phase[c] = "listed" /\ ~Dead(c) /\ ~readable[c]
    /\ readable' = [readable EXCEPT ![c] = TRUE]
    /\ UNCHANGED <<broken, flags, out, net, life, age, spc, refs, stop, ctl>>

PeerGone(c) ==
    /\ MayBreak /\ phase[c] = "listed" /\ ~broken[c]
    /\ broken' = [broken EXCEPT ![c] = TRUE]
    /\ UNCHANGED <<readable, flags, out, net, life, age, spc, refs, stop, ctl>>

\* A second passes.
Tick ==
    /\ \E c \in Conns : phase[c] = "listed" /\ age[c] < Timeout
    /\ age' = [c \in Conns |-> IF phase[c] = "listed" /\ age[c] < Timeout
                               THEN age[c] + 1 ELSE age[c]]
    /\ UNCHANGED <<peer, flags, out, net, life, spc, refs, stop, ctl>>

-----------------------------------------------------------------------------
(* CNetAsyncSelect::ThreadWorker.                                           *)

NetFrame == <<peer, out, spc, refs, stop, ctl>>

\* while( ! m_bShutDown )
LoopTop ==
    /\ npc = "top"
    /\ npc' = IF stop THEN "final" ELSE "scan"
    /\ todo' = list /\ polled' = <<>>
    /\ UNCHANGED <<NetFrame, flags, list, active, did, declined, life, age>>

\* Mutant of ScanConn: a closing connection is left out of pollfds, but also
\* left in the list.
ScanConnSkipsClosing ==
    /\ npc = "scan" /\ todo # <<>>
    /\ LET c == Head(todo) IN
       /\ polled' = IF closing[c] THEN polled
                    ELSE Append(polled, [c |-> c, events |-> {"in"}])
       /\ todo' = Tail(todo)
       /\ UNCHANGED <<flags, life, list>>
    /\ UNCHANGED <<NetFrame, npc, active, did, declined, age>>

\* One connection of the walk that fills pollfds: a closing one is removed.
ScanConn ==
    /\ npc = "scan" /\ todo # <<>>
    /\ LET c == Head(todo) IN
       IF closing[c]
       THEN /\ CloseCtx(c)
            /\ todo' = Tail(todo)
            /\ UNCHANGED <<shut, polled>>
       ELSE /\ polled' = Append(polled, [c |-> c, events |-> {"in"} \cup
                           (IF sendq[c] # <<>> THEN {"out"} ELSE {})])
            \* pollfds is full, the listening socket included
            /\ todo' = IF Len(polled') + 1 > MaxCtxs - 2 THEN <<>> ELSE Tail(todo)
            /\ UNCHANGED <<flags, life, list>>
    /\ UNCHANGED <<NetFrame, npc, active, did, declined, age>>

ScanEnd ==
    /\ npc = "scan" /\ todo = <<>>
    /\ npc' = "poll"
    /\ UNCHANGED <<NetFrame, flags, list, todo, polled, active, did, declined, life, age>>

\* What poll may report of one entry.
Reported(p) ==
    LET c == p.c
        in == IF readable[c] \/ Dead(c) THEN {{"in"}} ELSE {{}}
        hup == IF shut[c] THEN {{"hup"}} ELSE IF broken[c] THEN {{}, {"hup"}} ELSE {{}}
        wr == IF "out" \in p.events THEN {{}, {"out"}} ELSE {{}}
    IN  {x \cup y \cup z : x \in in, y \in hup, z \in wr}

\* poll with its 50 ms timeout, while nothing is locked.
Poll ==
    /\ npc = "poll"
    /\ polled' \in [1..Len(polled) -> [c : Conns, events : SUBSET {"in", "out", "hup"}]]
    /\ \A i \in 1..Len(polled) : /\ polled'[i].c = polled[i].c
                                 /\ polled'[i].events \in Reported(polled[i])
    /\ npc' = IF /\ \A i \in 1..Len(polled) : polled'[i].events = {}
                 /\ \A c \in Conns : phase[c] # "pending"
              THEN "timeout" ELSE "accept"
    /\ UNCHANGED <<NetFrame, flags, list, todo, active, did, declined, life, age>>

\* HandleEventAccept: one connection, if the listening socket has one.  It may
\* be refused by OnNewConnectionIncoming or by m_nMaxConnections.
HandleEventAccept ==
    /\ npc = "accept"
    /\ npc' = "conn"
    /\ \/ /\ stop \/ \A c \in Conns : phase[c] # "pending"
          /\ UNCHANGED <<flags, list, life, age>>
       \/ \E c \in Conns : \E blocked \in {FALSE, (c \in Closable)} :
            /\ phase[c] = "pending" /\ ~stop
            /\ IF blocked \/ Len(list) >= MaxConnections
               THEN /\ phase' = [phase EXCEPT ![c] = "refused"]
                    /\ UNCHANGED <<soc, list>>
               ELSE /\ phase' = [phase EXCEPT ![c] = "listed"]
                    /\ soc' = [soc EXCEPT ![c] = TRUE]
                    /\ list' = Append(list, c)
            /\ age' = [age EXCEPT ![c] = 0]
            /\ UNCHANGED <<closing, shut, closed>>
    /\ UNCHANGED <<NetFrame, todo, polled, active, did, declined>>

\* The next connection of ctxsPoll: one that is closing by now is removed.
NextConn ==
    /\ npc = "conn" /\ polled # <<>>
    /\ LET c == Head(polled).c IN
       IF closing[c]
       THEN /\ CloseCtx(c)
            /\ polled' = Tail(polled)
            /\ UNCHANGED <<shut, npc>>
       ELSE /\ npc' = "events"
            /\ UNCHANGED <<flags, life, list, polled>>
    /\ UNCHANGED <<NetFrame, todo, active, did, declined, age>>

\* The events of a connection are handled in the order in, hup, out.
Handled(e) == polled' = [polled EXCEPT ![1].events = @ \ {e}]

Activate(c) == active' = IF In(c, active) THEN active ELSE Append(active, c)

\* HandleEventRead, up to the end of the recv loop.  OnReadCompleted may close
\* the connection.
HandleEventRead ==
    /\ npc = "events" /\ "in" \in Head(polled).events
    /\ LET c == Head(polled).c IN
       IF closing[c]
       THEN npc' = "events" /\ UNCHANGED <<readable, flags, did>>
       ELSE \E close \in IF readable[c] THEN {FALSE, (c \in Closable)} ELSE {FALSE} :
            /\ readable' = [readable EXCEPT ![c] = FALSE]
            /\ did' = readable[c]
            /\ IF close
               THEN npc' = "events" /\ CloseConnection(c)
               ELSE npc' = "recv" /\ UNCHANGED flags
    /\ Handled("in")
    /\ UNCHANGED <<broken, out, spc, refs, stop, ctl, list, todo, active, declined, life, age>>

\* The rest of it: end of stream, an error, m_bClosing, or nothing more to read.
HandleReadEnd ==
    /\ npc = "recv"
    /\ LET c == Head(polled).c IN
       IF Dead(c) \/ closing[c]
       THEN /\ CloseCtx(c)
            /\ polled' = Tail(polled)
            /\ npc' = "conn"
            /\ UNCHANGED <<shut, active, age>>
       ELSE /\ npc' = "events"
            /\ IF did THEN Activate(c) /\ age' = [age EXCEPT ![c] = 0]
                        ELSE UNCHANGED <<active, age>>
            /\ UNCHANGED <<flags, list, polled, life>>
    /\ did' = FALSE
    /\ UNCHANGED <<NetFrame, todo, declined>>

\* POLLERR, POLLHUP, POLLNVAL
HandleHup ==
    /\ npc = "events" /\ "in" \notin Head(polled).events /\ "hup" \in Head(polled).events
    /\ CloseCtx(Head(polled).c)
    /\ polled' = Tail(polled)
    /\ active' = ListDel(active, Head(polled).c)
    /\ npc' = "conn"
    /\ UNCHANGED <<NetFrame, todo, shut, did, declined, age>>

\* HandleEventWrite takes the connection's lock.
HandleEventWrite ==
    /\ npc = "events" /\ Head(polled).events = {"out"}
    /\ npc' = "write"
    /\ Handled("out")
    /\ UNCHANGED <<NetFrame, todo, flags, list, active, did, declined, life, age>>

EventsDone ==
    /\ npc = "events" /\ Head(polled).events = {}
    /\ npc' = "conn"
    /\ polled' = Tail(polled)
    /\ UNCHANGED <<NetFrame, todo, flags, list, active, did, declined, life, age>>

\* HandleEventWrite returns.  The caller learns of the activity only when the
\* queue was emptied: with something left in it the function returns 0.
WriteReturns(c, acted, emptied) ==
    /\ npc' = "events" /\ did' = FALSE
    /\ age' = IF acted THEN [age EXCEPT ![c] = 0] ELSE age
    /\ IF acted /\ emptied THEN Activate(c) ELSE UNCHANGED active

WriteEmpty ==
    /\ npc = "write"
    /\ LET c == Head(polled).c IN sendq[c] = <<>> /\ WriteReturns(c, did, TRUE)
    /\ UNCHANGED <<NetFrame, todo, flags, list, polled, declined, life>>

\* Mutants of WriteBuffer: what is left of a buffer goes behind the others;
\* m_nLenTrans is forgotten.
WriteBufferAtTail ==
    /\ npc = "write"
    /\ LET c == Head(polled).c
           b == Head(sendq[c])
       IN /\ sendq[c] # <<>> /\ ~Dead(c)
          /\ \E k \in 0..(Size[b] - sent[b]) :
               /\ sent' = [sent EXCEPT ![b] = @ + k]
               /\ writting' = [writting EXCEPT ![c] = @ - k]
               /\ wire' = [wire EXCEPT ![c] = @ \o Units(b, sent[b], k)]
               /\ IF sent'[b] = Size[b]
                  THEN /\ sendq' = [sendq EXCEPT ![c] = Tail(@)]
                       /\ refs' = [refs EXCEPT ![b] = @ - 1]
                       /\ did' = (did \/ k > 0)
                       /\ UNCHANGED <<npc, age, active>>
                  ELSE /\ sendq' = [sendq EXCEPT ![c] = Append(Tail(@), b)]
                       /\ WriteReturns(c, did \/ k > 0, FALSE)
                       /\ UNCHANGED refs
    /\ UNCHANGED <<peer, flags, queued, spc, stop, ctl, list, todo, polled, declined, life>>

WriteBufferFromStart ==
    /\ npc = "write"
    /\ LET c == Head(polled).c
           b == Head(sendq[c])
       IN /\ sendq[c] # <<>> /\ ~Dead(c)
          /\ \E k \in 0..Size[b] :
               /\ sent' = [sent EXCEPT ![b] = @ + k]
               /\ writting' = [writting EXCEPT ![c] = @ - k]
               /\ wire' = [wire EXCEPT ![c] = @ \o Units(b, sent[b], k)]
               /\ IF sent'[b] >= Size[b]
                  THEN /\ sendq' = [sendq EXCEPT ![c] = Tail(@)]
                       /\ refs' = [refs EXCEPT ![b] = @ - 1]
                       /\ did' = (did \/ k > 0)
                       /\ UNCHANGED <<npc, age, active>>
                  ELSE /\ WriteReturns(c, did \/ k > 0, FALSE)
                       /\ UNCHANGED <<sendq, refs>>
    /\ UNCHANGED <<peer, flags, queued, spc, stop, ctl, list, todo, polled, declined, life>>

\* One turn of its loop on a socket that works: the head of the queue is taken
\* out, sent as far as the kernel takes it, and released (OnWriteCompleted,
\* which may close the connection) or put back.
WriteBuffer ==
    /\ npc = "write"
    /\ LET c == Head(polled).c
           b == Head(sendq[c])
       IN /\ sendq[c] # <<>> /\ (Dead(c) => sent[b] = Size[b])
          /\ \E k \in 0..(Size[b] - sent[b]), close \in {FALSE, (c \in Closable)} :
               /\ sent' = [sent EXCEPT ![b] = @ + k]
               /\ writting' = [writting EXCEPT ![c] = @ - k]
               /\ wire' = [wire EXCEPT ![c] = @ \o Units(b, sent[b], k)]
               /\ IF sent'[b] = Size[b]
                  THEN /\ sendq' = [sendq EXCEPT ![c] = Tail(@)]
                       /\ refs' = [refs EXCEPT ![b] = @ - 1]
                       /\ IF close THEN CloseConnection(c) ELSE UNCHANGED flags
                       /\ IF closing'[c]
                          THEN WriteReturns(c, did \/ k > 0, TRUE)
                          ELSE /\ did' = (did \/ k > 0)
                               /\ UNCHANGED <<npc, age, active>>
                  ELSE /\ WriteReturns(c, did \/ k > 0, FALSE)
                       /\ ~close
                       /\ UNCHANGED <<sendq, refs, flags>>
    /\ UNCHANGED <<peer, queued, spc, stop, ctl, list, todo, polled, declined, life>>

\* A hard error: the connection is removed, and the buffer that was taken out of
\* the queue is neither put back nor released.
WriteError ==
    /\ npc = "write"
    /\ LET c == Head(polled).c
           b == Head(sendq[c])
       IN /\ sendq[c] # <<>> /\ Dead(c) /\ sent[b] < Size[b]
          /\ CloseCtx(c)
          /\ \E k \in 0..(Size[b] - sent[b] - 1) :
               wire' = [wire EXCEPT ![c] = @ \o Units(b, sent[b], k)]
          /\ sendq' = [sendq EXCEPT ![c] = Tail(@)]
          /\ active' = ListDel(active, c)
    /\ polled' = Tail(polled)
    /\ npc' = "conn" /\ did' = FALSE
    /\ UNCHANGED <<peer, shut, writting, sent, queued, spc, refs, stop, ctl, todo,
                   declined, age>>

\* if( nCtxs != m_listContext.ListItemsCount() )
ConnsDone ==
    /\ npc = "conn" /\ polled = <<>>
    /\ IF Len(active) = Len(list) THEN npc' = "timeout" /\ active' = <<>>
                                  ELSE npc' = "move" /\ UNCHANGED active
    /\ UNCHANGED <<NetFrame, flags, list, todo, polled, did, declined, life, age>>

\* Mutant of MoveActive: the list keeps its order.
MoveActiveNever ==
    /\ npc = "move" /\ active # <<>>
    /\ active' = Tail(active)
    /\ UNCHANGED <<NetFrame, flags, list, npc, todo, polled, did, declined, life, age>>

MoveActive ==
    /\ npc = "move" /\ active # <<>>
    /\ list' = MovedToTail(list, Head(active))
    /\ active' = Tail(active)
    /\ UNCHANGED <<NetFrame, flags, npc, todo, polled, did, declined, life, age>>

MoveEnd ==
    /\ npc = "move" /\ active = <<>>
    /\ npc' = "timeout"
    /\ UNCHANGED <<NetFrame, flags, list, todo, polled, active, did, declined, life, age>>

-----------------------------------------------------------------------------
(* HandleSessionTimeout.                                                    *)

TimeoutBegin ==
    /\ npc = "timeout"
    /\ npc' = IF Timeout = 0 THEN "top" ELSE "expire"
    /\ todo' = list /\ declined' = {}
    /\ UNCHANGED <<NetFrame, flags, list, polled, active, did, life, age>>

\* The walk stops at the first connection that was active in time.  One that
\* expired, or that is closing, is shut down and removed; the socket stays open
\* until the destructor.
ExpireConn ==
    /\ npc = "expire" /\ todo # <<>>
    /\ LET c == Head(todo) IN
       \/ /\ ~closing[c] /\ age[c] < Timeout
          /\ npc' = "top" /\ todo' = <<>>
          /\ UNCHANGED <<flags, list, life, declined>>
       \/ /\ ~closing[c] /\ age[c] = Timeout /\ MayDecline
          /\ todo' = Tail(todo) /\ declined' = declined \cup {c}
          /\ UNCHANGED <<npc, flags, list, life>>
       \/ /\ closing[c] \/ age[c] = Timeout
          /\ closing' = [closing EXCEPT ![c] = TRUE]
          /\ shut' = [shut EXCEPT ![c] = @ \/ soc[c]]
          /\ list' = ListDel(list, c)
          /\ phase' = [phase EXCEPT ![c] = "closed"]
          /\ closed' = [closed EXCEPT ![c] = TRUE]
          /\ todo' = Tail(todo)
          /\ UNCHANGED <<npc, soc, declined>>
    /\ UNCHANGED <<NetFrame, polled, active, did, age>>

ExpireEnd ==
    /\ npc = "expire" /\ todo = <<>>
    /\ npc' = "top"
    /\ UNCHANGED <<NetFrame, flags, list, todo, polled, active, did, declined, life, age>>

-----------------------------------------------------------------------------
(* Shutdown, by a thread of its own.                                        *)

\* The loop after while( ! m_bShutDown ), then m_bShutDown = FALSE.
FinalClose ==
    /\ npc = "final" /\ todo # <<>>
    /\ CloseCtx(Head(todo))
    /\ todo' = Tail(todo)
    /\ UNCHANGED <<NetFrame, shut, npc, polled, active, did, declined, age>>

FinalEnd ==
    /\ npc = "final" /\ todo = <<>>
    /\ npc' = "ended" /\ stop' = FALSE
    /\ UNCHANGED <<peer, out, spc, refs, ctl, flags, list, todo, polled, active, did,
                   declined, life, age>>

ShutdownBegin ==
    /\ MayStop /\ ctl = "running"
    /\ stop' = TRUE /\ ctl' = "closeAll"
    /\ UNCHANGED <<peer, flags, out, net, life, age, spc, refs>>

CloseAllConnections ==
    /\ ctl = "closeAll" /\ ~ListLocked
    /\ LET all == {list[i] : i \in 1..Len(list)} IN
       /\ closing' = [c \in Conns |-> closing[c] \/ c \in all]
       /\ shut' = [c \in Conns |-> shut[c] \/ (c \in all /\ soc[c])]
    /\ ctl' = "join"
    /\ UNCHANGED <<peer, soc, out, net, life, age, spc, refs, stop>>

Join ==
    /\ ctl = "join" /\ npc = "ended"
    /\ ctl' = "stopped"
    /\ UNCHANGED <<peer, flags, out, net, life, age, spc, refs, stop>>

-----------------------------------------------------------------------------
ThreadWorker ==
    \/ LoopTop \/ ScanConn \/ ScanEnd \/ Poll \/ HandleEventAccept \/ NextConn
    \/ HandleEventRead \/ HandleReadEnd \/ HandleHup \/ HandleEventWrite \/ EventsDone
    \/ WriteEmpty \/ WriteBuffer \/ WriteError \/ ConnsDone \/ MoveActive \/ MoveEnd
    \/ TimeoutBegin \/ ExpireConn \/ ExpireEnd \/ FinalClose \/ FinalEnd

Init ==
    /\ phase = [c \in Conns |-> "none"]
    /\ closing = [c \in Conns |-> FALSE] /\ soc = [c \in Conns |-> FALSE]
    /\ shut = [c \in Conns |-> FALSE]
    /\ broken = [c \in Conns |-> FALSE] /\ readable = [c \in Conns |-> FALSE]
    /\ age = [c \in Conns |-> 0]
    /\ sendq = [c \in Conns |-> <<>>] /\ writting = [c \in Conns |-> 0]
    /\ closed = [c \in Conns |-> FALSE]
    /\ queued = [c \in Conns |-> <<>>] /\ wire = [c \in Conns |-> <<>>]
    /\ spc = [b \in Bufs |-> "new"] /\ sent = [b \in Bufs |-> 0]
    /\ refs = [b \in Bufs |-> 1]
    /\ list = <<>> /\ npc = "top"
    /\ todo = <<>> /\ polled = <<>> /\ active = <<>>
    /\ did = FALSE /\ declined = {} /\ stop = FALSE /\ ctl = "running"

Next ==
    \/ ThreadWorker
    \/ \E b \in Bufs : SendCheck(b) \/ Sender(b)
    \/ \E c \in Conns : AppClose(c) \/ Destroy(c) \/ PeerConnect(c) \/ PeerSend(c)
                        \/ PeerGone(c)
    \/ Tick \/ ShutdownBegin \/ CloseAllConnections \/ Join

Spec == Init /\ [][Next]_vars

\* The threads run, a lock is handed to whoever keeps asking for it, time
\* passes, and a kernel that is asked often enough takes something.  No peer has
\* to send or to leave, and nobody has to send, to close or to shut down.
PollWritable(c) ==
    Poll /\ \E i \in 1..Len(polled) : polled'[i].c = c /\ "out" \in polled'[i].events
Fairness ==
    /\ WF_vars(ThreadWorker) /\ WF_vars(Tick)
    /\ \A c \in Conns : SF_vars(PollWritable(c)) /\ SF_vars(WriteBuffer /\ wire'[c] # wire[c])
    /\ \A b \in Bufs : WF_vars(Sender(b)) /\ SF_vars(SendMove(b))
    /\ SF_vars(CloseAllConnections) /\ WF_vars(Join)
FairSpec == Spec /\ Fairness

-----------------------------------------------------------------------------
(* Safety.                                                                  *)

\* The values each field takes; the connection whose events are handled is there.
ConnsOK ==
    /\ phase \in [Conns -> {"none", "pending", "refused", "listed", "closed", "destroyed"}]
    /\ closing \in [Conns -> BOOLEAN] /\ soc \in [Conns -> BOOLEAN]
    /\ shut \in [Conns -> BOOLEAN] /\ broken \in [Conns -> BOOLEAN]
    /\ readable \in [Conns -> BOOLEAN] /\ closed \in [Conns -> BOOLEAN]
    /\ age \in [Conns -> 0..Timeout]
SendsOK ==
    /\ sendq \in [Conns -> Seq(Bufs)] /\ queued \in [Conns -> Seq(Bufs)]
    /\ writting \in [Conns -> Int]
    /\ wire \in [Conns -> Seq(Bufs \X Nat)]
    /\ spc \in [Bufs -> {"new", "checked", "failed", "rejected", "returned", "active",
                         "move", "accepted"}]
    /\ sent \in [Bufs -> Nat] /\ \A b \in Bufs : sent[b] <= Size[b]
    /\ refs \in [Bufs -> Int]
Events == {"in", "out", "hup"}
ThreadOK ==
    /\ list \in Seq(Conns) /\ todo \in Seq(Conns) /\ active \in Seq(Conns)
    /\ declined \subseteq Conns
    /\ polled \in Seq([c : Conns, events : SUBSET Events])
    /\ npc \in {"top", "scan", "poll", "accept", "conn", "events", "recv", "write",
                "move", "timeout", "expire", "final", "ended"}
    /\ npc \in {"events", "recv", "write"} => polled # <<>>
    /\ did \in BOOLEAN /\ stop \in BOOLEAN
    /\ ctl \in {"running", "closeAll", "join", "stopped"}
TypeOK == ConnsOK /\ SendsOK /\ ThreadOK

InQueue(b) == In(b, sendq[Target[b]])

\* A peer receives the buffers in the order in which Send queued them, every
\* buffer whole before the next one begins and none of it twice, although the
\* first part of a buffer is sent by the thread that posted it and the rest by
\* the network thread, a piece at a time.
InOrder(units, bufs) ==
    \A n \in 1..Len(units) :
        LET b == units[n][1]
            i == units[n][2]
        IN  IF i > 1 THEN n > 1 /\ units[n - 1] = <<b, i - 1>>
            ELSE \E p \in 1..Len(bufs) :
                   /\ bufs[p] = b
                   /\ IF n = 1 THEN p = 1
                      ELSE p > 1 /\ units[n - 1] = <<bufs[p - 1], Size[bufs[p - 1]]>>
StreamInOrder == \A c \in Conns : InOrder(wire[c], queued[c])

\* The units, as <<buffer, unit>>, that the queued buffers of c still have to send.
Unsent(c) ==
    UNION {{b} \X ((sent[b] + 1)..Size[b]) : b \in {b \in Bufs : Target[b] = c /\ InQueue(b)}}

\* m_nWrittingBytes of an open connection is what its queued buffers still have
\* to send: "system bug (m_nWrittingBytes < 0)" is never logged.  So the limit
\* that Send compares it with means what it says: m_nMaxWrittingBytes bounds the
\* backlog, short of one buffer, whatever number of threads send at the same
\* time, because this test is made under the lock, unlike that of m_nMaxSends.
BytesAccounted ==
    \A c \in Conns :
        /\ phase[c] = "listed" => writting[c] = Cardinality(Unsent(c))
        /\ writting[c] > 0 =>
             \E b \in Bufs : Target[b] = c /\ writting[c] < MaxWritting + Size[b]

\* Who may still touch a buffer holds a reference to it: the queue, the caller
\* of Send until it returned TRUE, and Send itself, which calls AddObjRef after
\* it gave up the lock.  A buffer is never released too often, and one is left
\* over only on a connection that ended in a hard error, one at most.
Owners(b) == (IF InQueue(b) THEN 1 ELSE 0)
               + (IF spc[b] \in {"new", "checked", "rejected"} THEN 1 ELSE 0)
LeftOver == {b \in Bufs : refs[b] > Owners(b)}
ReferencesOwned ==
    /\ \A b \in Bufs : /\ refs[b] >= Owners(b)
                       /\ spc[b] = "failed" => refs[b] > 0
    /\ \A b \in LeftOver : phase[Target[b]] \in {"closed", "destroyed"} /\ Dead(Target[b])
    /\ \A a, b \in LeftOver : Target[a] = Target[b] => a = b

\* m_listContext holds every open connection once.  A connection that was
\* removed is not put back by a Send that was already past its tests, so it is
\* announced as closed once and its list reference is released once.  After Shutdown
\* no connection is left open: one that was accepted while it was running was still
\* closed and announced by the network thread.
RemovedStaysOut ==
    /\ \A i, j \in 1..Len(list) : list[i] = list[j] => i = j
    /\ \A c \in Conns : In(c, list) <=> phase[c] = "listed"
    /\ ctl = "stopped" => \A c \in Conns : phase[c] # "listed"

\* libcpputil_net.h:334 of OnSessionTimeout: "return -1 , if you no want  close
\* the session".  A walk that has ended left no expired session but those.  (A
\* Send between its two last steps has refreshed its connection without moving
\* it yet; that state is not held against the walk.)
ExpiredAreClosed ==
    [][npc = "expire" /\ npc' = "top" /\ (\A b \in Bufs : spc[b] # "move")
         => {c \in Conns : phase[c] = "listed" /\ age[c] = Timeout} \subseteq declined]_vars

-----------------------------------------------------------------------------
(* Liveness.                                                                *)

\* A connection that anybody asked to close is closed and announced, although the
\* request only sets a flag that the network thread finds on its next walk, which
\* may reach fewer connections than there are.
ClosingIsClosed == \A c \in Conns : closing[c] /\ phase[c] = "listed" ~> closed[c]

\* What Send has queued is sent to a peer that takes data, or the connection is
\* closed: a buffer queued while the network thread is polling without POLLOUT
\* is not forgotten, nor is one that was sent whole and left in the queue.
QueuedIsSent ==
    \A b \in Bufs : InQueue(b) ~> ~InQueue(b) \/ phase[Target[b]] # "listed"

\* What a peer sent is read, or the connection is closed, also when there are
\* more connections than fit into pollfds.
ReadableIsRead ==
    \A c \in Conns : readable[c] /\ phase[c] = "listed"
        ~> ~readable[c] \/ phase[c] # "listed"
==============================================================================
