----------------------------- MODULE MediaSource -----------------------------
(***************************************************************************)
(* How RTMP sessions of libmediasrv publish and play: the registry of      *)
(* media sources by stream name (CMdSourceApp), the sources with their     *)
(* publisher and their players (CMdSource), and the handlers of the        *)
(* sessions' events (CRTMPEvent::OnExecute, CRTMPNetSession::OnClose).     *)
(*                                                                         *)
(* The events of a session are executed one after the other by the thread  *)
(* of its own queue, in the order they were posted (EventBox); those of    *)
(* different sessions interleave at every lock and at every field that is  *)
(* read without one.  A session publishes once, so its source has its      *)
(* name.  The steps of the connections are those that NetConn allows.      *)
(***************************************************************************)
EXTENDS Integers, Sequences, FiniteSets

CONSTANTS
    Sessions,        \* CRTMPNetSession objects, and the sources they create
    Names,           \* the stream names that clients ask for
    None,            \* NULL, and the missing argument of a command
    Publishers,      \* bound: the sessions whose clients may publish
    MaxPlays,        \* bound: how often each client may call play
    MaxFrames,       \* bound: media messages waiting on the thread of a source
    UseClientID,     \* the values that m_bUseClientID may have
    MayRelease       \* bound: whether clients call releaseStream

ASSUME ConstantsAssumption ==
    /\ Names \cap Sessions = {} /\ None \notin Names \cup Sessions \cup {"kick", "replace", "end"}
    /\ Publishers \subseteq Sessions /\ MaxFrames \in Nat
    /\ MaxPlays \in [Sessions -> Nat]
    /\ UseClientID \subseteq BOOLEAN /\ UseClientID # {}
    /\ MayRelease \in BOOLEAN

VARIABLES
    \* the network thread's side of a session
    conn,       \* open, last (m_bCloseAfterSend), closing (m_bClosing), closed
    called,     \* m_bPublishCalled
    released,   \* history: the publishers whose client has released its stream
    asked,      \* the names its client has asked to play, in order
    inbox,      \* the posted events of the session
    \* the session and its thread
    ss,         \* the fields of CRTMPNetSession
    th,         \* the handler its thread is in, and the m_mdsrc of the event
    \* sources
    md,         \* the fields of CMdSource, and whether AddMdSource replaced it (history)
    streams,    \* m_streams of the CMdSourceApp, by name
    lock,       \* the holder of StreamAppAutoLock and of the app's m_mtx
    frames,     \* the senders of the media events waiting on a source's thread
    passed,     \* the sources whose thread has tested m_ctxSrc and is forwarding
    heard       \* history: who was sent a frame of whose

net == <<conn, called, released, asked>>
media == <<frames, passed, heard>>
vars == <<net, inbox, ss, th, md, streams, lock, media>>

Keys == Names \cup Sessions      \* a generated name is as unique as its session
Idle == [pc |-> "idle", op |-> None, src |-> None, target |-> None]
Event(k, n, m) == [kind |-> k, name |-> n, src |-> m]

-----------------------------------------------------------------------------
(* Reference counts, closing.                                               *)

\* AddObjRef and ReleaseObj of a source, or of NULL.
Counted(d, m, k) == IF m = None THEN d ELSE [d EXCEPT ![m].refs = @ + k]

\* CloseConnection for each of these sessions.
Closing(S) == [s \in Sessions |-> IF s \in S /\ conn[s] \in {"open", "last"}
                                  THEN "closing" ELSE conn[s]]

\* CMdSource::IsOpened
IsOpened(m) == md[m].rtmp /\ md[m].inited

Step(s, p) == th' = [th EXCEPT ![s].pc = p]

\* The event is done with and drops its m_mdsrc; d is what the handler has made
\* of the sources.
Finish(s, d) ==
    /\ th' = [th EXCEPT ![s] = Idle]
    /\ md' = Counted(d, th[s].src, -1)

\* The event at the head of the queue, and a handler that returns at once.
IsNext(s, k) == th[s].pc = "idle" /\ inbox[s] # <<>> /\ Head(inbox[s]).kind = k
Taken(s) == inbox' = [inbox EXCEPT ![s] = Tail(@)]
Refused(s) ==
    /\ conn' = Closing({s})
    /\ md' = Counted(md, Head(inbox[s]).src, -1)
    /\ UNCHANGED th

-----------------------------------------------------------------------------
(* The network thread: commands, media messages, the end of a connection.   *)

\* An event takes a reference to the source that the session has now.
Post(s, k, n) ==
    /\ inbox' = [inbox EXCEPT ![s] = Append(@, Event(k, n, ss[s].mdsrc))]
    /\ md' = Counted(md, ss[s].mdsrc, 1)

InvokePublish(s, n) ==
    /\ conn[s] \in {"open", "last"} /\ s \in Publishers \ called
    /\ called' = called \cup {s}
    /\ Post(s, "publish", n)
    /\ UNCHANGED <<conn, released, asked, ss, th, streams, lock, media>>

InvokePlay(s, n) ==
    /\ conn[s] \in {"open", "last"} /\ Len(asked[s]) < MaxPlays[s]
    /\ asked' = [asked EXCEPT ![s] = Append(@, n)]
    /\ Post(s, "play", n)
    /\ UNCHANGED <<conn, called, released, ss, th, streams, lock, media>>

\* OnVideoData and OnAudioData: to the thread of the source.
OnMedia(s) ==
    LET m == ss[s].mdsrc IN
    /\ conn[s] \in {"open", "last"} /\ m # None
    /\ Len(frames[m]) < MaxFrames
    /\ frames' = [frames EXCEPT ![m] = Append(@, s)]
    /\ md' = Counted(md, m, 1)
    /\ UNCHANGED <<net, inbox, ss, th, streams, lock, passed, heard>>

\* releaseStream of one's own stream: CloseMdSource and CloseByRTMPT make an event
\* that shall run OnClose, but make it without a connection, and such an event is
\* refused by Post.
ReleaseStream(s) ==
    /\ MayRelease /\ conn[s] \in {"open", "last"} /\ ss[s].srcCtx /\ ss[s].mdsrc # None
    /\ released' = released \cup {s}
    /\ UNCHANGED <<conn, called, asked, inbox, ss, th, md, streams, lock, media>>

\* OnWriteCompleted of the last answer.
WriteCompleted(s) ==
    /\ conn[s] = "last"
    /\ conn' = Closing({s})
    /\ UNCHANGED <<called, released, asked, inbox, ss, th, md, streams, lock, media>>

\* Mutant of OnClose: the event goes to the queue without a thread, and may be
\* executed before those that were posted earlier.
OnCloseOutOfOrder(s) ==
    /\ conn[s] # "closed"
    /\ conn' = [conn EXCEPT ![s] = "closed"]
    /\ \E i \in 0..Len(inbox[s]) :
         inbox' = [inbox EXCEPT ![s] = SubSeq(@, 1, i) \o <<Event("close", None, ss[s].mdsrc)>>
                                         \o SubSeq(@, i + 1, Len(@))]
    /\ md' = Counted(md, ss[s].mdsrc, 1)
    /\ UNCHANGED <<called, released, asked, ss, th, streams, lock, media>>

\* CRTMPConnNetCtx::OnClose, called once when the network thread removes the
\* connection: because it is closing, the peer left, or it timed out.
OnClose(s) ==
    /\ conn[s] # "closed"
    /\ conn' = [conn EXCEPT ![s] = "closed"]
    /\ Post(s, "close", None)
    /\ UNCHANGED <<called, released, asked, ss, th, streams, lock, media>>

-----------------------------------------------------------------------------
(* Publish.                                                                 *)

\* Mutant of Publish: m_bPlayCalled is not looked at.
PublishAfterPlay(s) ==
    LET e == Head(inbox[s]) IN
    /\ IsNext(s, "publish") /\ Taken(s) /\ e.name # None
    /\ ss' = [ss EXCEPT ![s].srcCtx = TRUE, ![s].mdsrc = None,
                        ![s].stream = e.name, ![s].valid = TRUE]
    /\ md' = Counted(md, ss[s].mdsrc, -1)
    /\ \E useID \in UseClientID :
         th' = [th EXCEPT ![s].src = e.src, ![s].pc = IF useID THEN "kick" ELSE "exist"]
    /\ UNCHANGED <<net, streams, lock, media>>

\* RTMPEventPublish, down to the name.  An empty name is the same as one that
\* is generated for the session.
Publish(s) ==
    LET e == Head(inbox[s]) IN
    /\ IsNext(s, "publish") /\ Taken(s)
    /\ IF ss[s].playing
       THEN Refused(s) /\ UNCHANGED ss
       ELSE IF e.name = None
       THEN /\ ss' = [ss EXCEPT ![s].srcCtx = TRUE, ![s].mdsrc = None]
            /\ conn' = Closing({s})
            /\ md' = Counted(Counted(md, e.src, -1), ss[s].mdsrc, -1)
            /\ UNCHANGED th
       ELSE /\ ss' = [ss EXCEPT ![s].srcCtx = TRUE, ![s].mdsrc = None,
                                ![s].stream = e.name, ![s].valid = TRUE]
            /\ md' = Counted(md, ss[s].mdsrc, -1)
            /\ \E useID \in UseClientID :
                 th' = [th EXCEPT ![s].src = e.src, ![s].pc = IF useID THEN "kick" ELSE "exist"]
            /\ UNCHANGED conn
    /\ UNCHANGED <<called, released, asked, streams, lock, media>>

\* IsExistMdSource; a name in use is replaced by a generated one.
IsExist(s) ==
    /\ th[s].pc = "exist" /\ lock = None
    /\ ss' = IF streams[ss[s].stream] # None THEN [ss EXCEPT ![s].stream = s] ELSE ss
    /\ Step(s, "create")
    /\ UNCHANGED <<net, inbox, md, streams, lock, media>>

\* RemoveMdSourceClose: the lock, and the source out of the registry.
Kick(s) ==
    /\ th[s].pc = "kick" /\ lock = None
    /\ LET m == streams[ss[s].stream] IN
       IF m = None
       THEN Step(s, "create") /\ UNCHANGED <<streams, lock>>
       ELSE /\ th' = [th EXCEPT ![s].pc = "kickTest", ![s].op = "kick", ![s].target = m]
            /\ streams' = [streams EXCEPT ![ss[s].stream] = None]
            /\ lock' = s
    /\ UNCHANGED <<net, inbox, ss, md, media>>

\* m_ctxSrc is tested and then used without m_mtxSrcCtx ...
KickTest(s) ==
    /\ th[s].pc = "kickTest"
    /\ Step(s, IF md[th[s].target].ctxSrc = None THEN "closeAll" ELSE "kickForce")
    /\ UNCHANGED <<net, inbox, ss, md, streams, lock, media>>

\* ... and may be NULL by then: a build that reads it again ends here, one that
\* kept it goes on.
KickForce(s) ==
    /\ th[s].pc = "kickForce"
    /\ \/ Step(s, "closeSrc")
       \/ md[th[s].target].ctxSrc = None /\ Step(s, "crashed")
    /\ UNCHANGED <<net, inbox, ss, md, streams, lock, media>>

\* A CMdSource is created and published by its session.
Create(s) ==
    /\ th[s].pc = "create"
    /\ ss' = [ss EXCEPT ![s].mdsrc = s]
    /\ md' = [Counted(md, th[s].src, -1) EXCEPT ![s].ctxSrc = s, ![s].rtmp = TRUE, ![s].refs = 2]
    /\ th' = [th EXCEPT ![s].src = s, ![s].pc = "add"]
    /\ UNCHANGED <<net, inbox, streams, lock, media>>

\* AddMdSource.
Add(s) ==
    LET n == ss[s].stream IN
    /\ th[s].pc = "add" /\ lock = None
    /\ IF md[s].closedAll
       THEN Step(s, "attach") /\ UNCHANGED <<md, streams, lock>>
       ELSE IF streams[n] = None
       THEN /\ streams' = [streams EXCEPT ![n] = s]
            /\ md' = Counted(md, s, 1)
            /\ Step(s, "attach") /\ UNCHANGED lock
       ELSE /\ th' = [th EXCEPT ![s].pc = "closeSrc", ![s].op = "replace",
                                ![s].target = streams[n]]
            /\ lock' = s /\ UNCHANGED <<md, streams>>
    /\ UNCHANGED <<net, inbox, ss, media>>

\* Mutant of Attach: m_sessionManagerStatus is not set.
AttachWithoutStatus(s) ==
    /\ th[s].pc = "attach"
    /\ Finish(s, [md EXCEPT ![s].inited = TRUE])
    /\ UNCHANGED <<net, inbox, ss, streams, lock, media>>

\* SessionMgrStatusAttached and m_bRtmpSrcInited, and the answer.
Attach(s) ==
    /\ th[s].pc = "attach"
    /\ ss' = [ss EXCEPT ![s].attached = TRUE]
    /\ Finish(s, [md EXCEPT ![s].inited = TRUE])
    /\ UNCHANGED <<net, inbox, streams, lock, media>>

-----------------------------------------------------------------------------
(* Closing a source: CloseSrcCtx, CloseAllClients, and what follows them.   *)

CloseSrcCtx(s) ==
    LET p == md[th[s].target].ctxSrc IN
    /\ th[s].pc = "closeSrc"
    /\ IF p = None \/ ss[p].closing
       THEN UNCHANGED <<conn, ss>>
       ELSE /\ ss' = [ss EXCEPT ![p].closing = TRUE]
            /\ conn' = Closing({p})
    /\ Step(s, "closeAll")
    /\ UNCHANGED <<called, released, asked, inbox, md, streams, lock, media>>

\* m_bClosedAll is tested and set without m_mtxList.
CloseAllClients(s) ==
    LET m == th[s].target IN
    /\ th[s].pc = "closeAll"
    /\ md' = [md EXCEPT ![m].closedAll = TRUE]
    /\ Step(s, IF md[m].closedAll THEN "closed" ELSE "drain")
    /\ UNCHANGED <<net, inbox, ss, streams, lock, media>>

\* Every player is taken out of the list, closed and released.
Drain(s) ==
    LET m == th[s].target
        out == md[m].clients
    IN  /\ th[s].pc = "drain"
        /\ ss' = [p \in Sessions |-> IF p \in out
                    THEN [ss[p] EXCEPT !.inMd = FALSE, !.closing = TRUE, !.listRefs = @ - 1]
                    ELSE ss[p]]
        /\ conn' = Closing({p \in out : ~ss[p].closing})
        /\ md' = [md EXCEPT ![m].clients = {}, ![m].rtmp = FALSE]
        /\ Step(s, "closed")
        /\ UNCHANGED <<called, released, asked, inbox, streams, lock, media>>

\* Mutant of Closed: the lock is not given up.
ClosedKeepsLock(s) ==
    LET m == th[s].target IN
    /\ th[s].pc = "closed"
    /\ \/ /\ th[s].op = "kick"
          /\ md' = Counted(md, m, -1)
          /\ th' = [th EXCEPT ![s].pc = "create", ![s].op = None, ![s].target = None]
          /\ UNCHANGED <<lock, streams>>
       \/ /\ th[s].op = "end"
          /\ Finish(s, md)
          /\ UNCHANGED <<streams, lock>>
    /\ UNCHANGED <<net, inbox, ss, media>>

\* The source that was kicked out is released; the one that was replaced is not.
Closed(s) ==
    LET m == th[s].target IN
    /\ th[s].pc = "closed"
    /\ \/ /\ th[s].op = "kick"
          /\ md' = Counted(md, m, -1)
          /\ th' = [th EXCEPT ![s].pc = "create", ![s].op = None, ![s].target = None]
          /\ lock' = None /\ UNCHANGED streams
       \/ /\ th[s].op = "replace"
          /\ streams' = [streams EXCEPT ![ss[s].stream] = s]
          /\ md' = Counted([md EXCEPT ![th[s].target].replaced = TRUE], s, 1)
          /\ th' = [th EXCEPT ![s].pc = "attach", ![s].op = None, ![s].target = None]
          /\ lock' = None
       \/ /\ th[s].op = "end"
          /\ Finish(s, md)
          /\ UNCHANGED <<streams, lock>>
    /\ UNCHANGED <<net, inbox, ss, media>>

-----------------------------------------------------------------------------
(* Play.                                                                    *)

\* RTMPEventPlay.  Only a session without a source looks one up; otherwise the
\* event goes on with the source the session had when it was posted.
Play(s) ==
    LET e == Head(inbox[s]) IN
    /\ IsNext(s, "play") /\ Taken(s)
    /\ IF ss[s].srcCtx \/ e.name = None
       THEN Refused(s) /\ UNCHANGED ss
       ELSE /\ ss' = [ss EXCEPT ![s].stream = e.name]
            /\ th' = [th EXCEPT ![s].src = e.src,
                                ![s].pc = IF ss[s].mdsrc = None THEN "find" ELSE "opened"]
            /\ UNCHANGED <<conn, md>>
    /\ UNCHANGED <<called, released, asked, streams, lock, media>>

\* GetMdSource: one reference for the event, one for the session.
GetMdSource(s) ==
    LET m == streams[ss[s].stream] IN
    /\ th[s].pc = "find" /\ lock = None
    /\ ss' = [ss EXCEPT ![s].mdsrc = m]
    /\ md' = Counted(Counted(md, th[s].src, -1), m, 2)
    /\ th' = [th EXCEPT ![s].src = m, ![s].pc = "opened"]
    /\ UNCHANGED <<net, inbox, streams, lock, media>>

\* A source that is not open is not found, and the connection is closed after
\* the answer.
PlayOpened(s) ==
    LET m == th[s].src IN
    /\ th[s].pc = "opened"
    /\ IF m = None \/ ~IsOpened(m)
       THEN /\ ss' = [ss EXCEPT ![s].valid = TRUE]
            /\ conn' = [conn EXCEPT ![s] = IF @ = "open" THEN "last" ELSE @]
            /\ Finish(s, md)
       ELSE /\ ss' = [ss EXCEPT ![s].valid = TRUE, ![s].playing = ss[s].inMd]
            /\ IF ss[s].inMd THEN Finish(s, md) ELSE Step(s, "join") /\ UNCHANGED md
            /\ UNCHANGED conn
    /\ UNCHANGED <<called, released, asked, inbox, streams, lock, media>>

\* AddClientSession's tests, made without m_mtxList.  A source that has been
\* closed counts as success, a session that is closing as failure; ss->Close()
\* then does nothing, since m_bCtxClosing is set.
Join(s) ==
    /\ th[s].pc = "join"
    /\ IF ss[s].inMd \/ md[th[s].src].closedAll \/ ss[s].closing
       THEN /\ ss' = [ss EXCEPT ![s].playing = TRUE]
            /\ Finish(s, md)
       ELSE Step(s, "joinAdd") /\ UNCHANGED <<ss, md>>
    /\ UNCHANGED <<net, inbox, streams, lock, media>>

\* The list is not closed to newcomers: a source may have been drained between
\* the tests and this step.
JoinAdd(s) ==
    /\ th[s].pc = "joinAdd"
    /\ ss' = [ss EXCEPT ![s].inMd = TRUE, ![s].listRefs = @ + 1, ![s].playing = TRUE]
    /\ Finish(s, [md EXCEPT ![th[s].src].clients = @ \cup {s}])
    /\ UNCHANGED <<net, inbox, streams, lock, media>>

-----------------------------------------------------------------------------
(* The end of a session.                                                    *)

\* Mutant of ReallyClose: a player of a source that was closed is taken to be out
\* of its list.
ReallyCloseLeavesOpen(s) ==
    LET m == ss[s].mdsrc
        next == IF ~ss[s].valid \/ m = None THEN "none"
                ELSE IF ss[s].srcCtx THEN "clear"
                ELSE IF ss[s].inMd /\ ~md[m].closedAll THEN "leave" ELSE "none"
    IN  /\ IsNext(s, "close") /\ Taken(s)
        /\ ss' = [ss EXCEPT ![s].onClose = TRUE]
        /\ IF next = "none"
           THEN UNCHANGED th /\ md' = Counted(md, Head(inbox[s]).src, -1)
           ELSE /\ th' = [th EXCEPT ![s] = [pc |-> next, op |-> "end", target |-> m,
                                            src |-> Head(inbox[s]).src]]
                /\ UNCHANGED md
        /\ UNCHANGED <<net, streams, lock, media>>

\* OnReallyClose and CRTMPNetSession::OnClose.
ReallyClose(s) ==
    LET m == ss[s].mdsrc
        next == IF ~ss[s].valid \/ m = None THEN "none"
                ELSE IF ss[s].srcCtx THEN "clear"
                ELSE IF ss[s].inMd THEN "leave" ELSE "none"
    IN  /\ IsNext(s, "close") /\ Taken(s)
        /\ ss' = [ss EXCEPT ![s].onClose = TRUE]
        /\ IF next = "none"
           THEN UNCHANGED th /\ md' = Counted(md, Head(inbox[s]).src, -1)
           ELSE /\ th' = [th EXCEPT ![s] = [pc |-> next, op |-> "end", target |-> m,
                                            src |-> Head(inbox[s]).src]]
                /\ UNCHANGED md
        /\ UNCHANGED <<net, streams, lock, media>>

\* ClearSrcCtxIfMatch.
ClearSrcCtx(s) ==
    LET m == th[s].target IN
    /\ th[s].pc = "clear"
    /\ md' = [md EXCEPT ![m].ctxSrc = IF @ = s THEN None ELSE @]
    /\ Step(s, IF ss[s].attached THEN "unregister" ELSE "closeAll")
    /\ UNCHANGED <<net, inbox, ss, streams, lock, media>>

\* Mutant of RemoveMdSource: the registry is not waited for.
RemoveMdSourceUnlocked(s) ==
    LET m == th[s].target
        mine == streams[ss[s].stream] = m
    IN  /\ th[s].pc = "unregister"
        /\ streams' = IF mine THEN [streams EXCEPT ![ss[s].stream] = None] ELSE streams
        /\ md' = IF mine THEN Counted(md, m, -1) ELSE md
        /\ ss' = [ss EXCEPT ![s].attached = FALSE]
        /\ Step(s, "closeAll")
        /\ UNCHANGED <<net, inbox, lock, media>>

\* RemoveMdSource: only this source, not a successor of the same name.
RemoveMdSource(s) ==
    LET m == th[s].target
        mine == streams[ss[s].stream] = m
    IN  /\ th[s].pc = "unregister" /\ lock = None
        /\ streams' = IF mine THEN [streams EXCEPT ![ss[s].stream] = None] ELSE streams
        /\ md' = IF mine THEN Counted(md, m, -1) ELSE md
        /\ ss' = [ss EXCEPT ![s].attached = FALSE]
        /\ Step(s, "closeAll")
        /\ UNCHANGED <<net, inbox, lock, media>>

\* Mutant of RemoveClientSession: the session is released although ListDel has
\* found it in no list.
RemoveClientSessionAnyway(s) ==
    LET m == th[s].target IN
    /\ th[s].pc = "leave"
    /\ ss' = [ss EXCEPT ![s].inMd = FALSE, ![s].listRefs = @ - 1]
    /\ Finish(s, [md EXCEPT ![m].clients = @ \ {s}])
    /\ UNCHANGED <<net, inbox, streams, lock, media>>

\* RemoveClientSession: m_bInMdSource was read before the lock was taken.
RemoveClientSession(s) ==
    LET m == th[s].target IN
    /\ th[s].pc = "leave"
    /\ ss' = [ss EXCEPT ![s].inMd = FALSE,
                        ![s].listRefs = IF s \in md[m].clients THEN @ - 1 ELSE @]
    /\ Finish(s, [md EXCEPT ![m].clients = @ \ {s}])
    /\ UNCHANGED <<net, inbox, streams, lock, media>>

\* The last reference to the session goes with its connection and with the
\* events that hold it; ~CCtx leaves what it is still part of.
Destroy(s) ==
    LET m == ss[s].mdsrc IN
    /\ ss[s].alive /\ ss[s].onClose /\ th[s].pc = "idle" /\ inbox[s] = <<>>
    /\ ss[s].listRefs <= 0
    /\ \A c \in Sessions : \A i \in 1..Len(frames[c]) : frames[c][i] # s
    /\ ss' = [ss EXCEPT ![s].alive = FALSE, ![s].inMd = FALSE, ![s].mdsrc = None]
    /\ md' = IF m = None THEN md
             ELSE [md EXCEPT ![m].ctxSrc = IF @ = s THEN None ELSE @,
                             ![m].clients = IF ss[s].inMd THEN @ \ {s} ELSE @,
                             ![m].refs = @ - 1]
    /\ UNCHANGED <<net, inbox, th, streams, lock, media>>

-----------------------------------------------------------------------------
(* The thread of a source: media messages.                                  *)

\* Mutant of Forward: whoever has the source may speak for it.
ForwardAnyone(m) ==
    /\ frames[m] # <<>> /\ m \notin passed
    /\ passed' = passed \cup {m} /\ UNCHANGED <<frames, md>>
    /\ UNCHANGED <<net, inbox, ss, th, streams, lock, heard>>

\* RTMPEventVideo, RTMPEventAudio: a message of another session is dropped.
Forward(m) ==
    /\ frames[m] # <<>> /\ m \notin passed
    /\ IF md[m].ctxSrc = Head(frames[m])
       THEN passed' = passed \cup {m} /\ UNCHANGED <<frames, md>>
       ELSE /\ frames' = [frames EXCEPT ![m] = Tail(@)]
            /\ md' = Counted(md, m, -1) /\ UNCHANGED passed
    /\ UNCHANGED <<net, inbox, ss, th, streams, lock, heard>>

\* SendRTMP_H264, SendRTMP_AUDIO: under m_mtxList, to everyone who is playing.
Deliver(m) ==
    /\ m \in passed
    /\ heard' = heard \cup {<<p, Head(frames[m])>> : p \in {q \in md[m].clients : ss[q].playing}}
    /\ frames' = [frames EXCEPT ![m] = Tail(@)]
    /\ passed' = passed \ {m}
    /\ md' = Counted(md, m, -1)
    /\ UNCHANGED <<net, inbox, ss, th, streams, lock>>

-----------------------------------------------------------------------------
NoSession == [stream |-> None, mdsrc |-> None, srcCtx |-> FALSE, valid |-> FALSE,
              attached |-> FALSE, closing |-> FALSE, onClose |-> FALSE,
              playing |-> FALSE, inMd |-> FALSE, listRefs |-> 0, alive |-> TRUE]
NoSource == [ctxSrc |-> None, closedAll |-> FALSE, rtmp |-> FALSE, inited |-> FALSE,
             clients |-> {}, replaced |-> FALSE, refs |-> 0]

Init ==
    /\ conn = [s \in Sessions |-> "open"] /\ called = {} /\ released = {}
    /\ asked = [s \in Sessions |-> <<>>] /\ inbox = [s \in Sessions |-> <<>>]
    /\ ss = [s \in Sessions |-> NoSession] /\ th = [s \in Sessions |-> Idle]
    /\ md = [m \in Sessions |-> NoSource]
    /\ streams = [n \in Keys |-> None] /\ lock = None
    /\ frames = [m \in Sessions |-> <<>>] /\ passed = {} /\ heard = {}

Handlers(s) ==
    \/ Publish(s) \/ IsExist(s) \/ Kick(s) \/ KickTest(s) \/ KickForce(s) \/ Create(s)
    \/ Add(s) \/ Attach(s) \/ CloseSrcCtx(s) \/ CloseAllClients(s) \/ Drain(s) \/ Closed(s)
    \/ Play(s) \/ GetMdSource(s) \/ PlayOpened(s) \/ Join(s) \/ JoinAdd(s)
    \/ ReallyClose(s) \/ ClearSrcCtx(s) \/ RemoveMdSource(s) \/ RemoveClientSession(s)

Next ==
    \/ \E s \in Sessions :
         \/ \E n \in Names \cup {None} : InvokePublish(s, n) \/ InvokePlay(s, n)
         \/ OnMedia(s) \/ ReleaseStream(s) \/ WriteCompleted(s) \/ OnClose(s)
         \/ Handlers(s) \/ Destroy(s) \/ Forward(s) \/ Deliver(s)

Spec == Init /\ [][Next]_vars
\* Threads go on with the handler they are in and with the events that wait for
\* them; a connection that is to be closed is removed by the network thread
\* (ClosingIsClosed of NetConn).  No client has to leave, and no connection has to
\* time out: traffic puts a timeout off, and ExpiredAreClosed of NetConn is false.
Fairness ==
    \A s \in Sessions :
        /\ WF_vars(Handlers(s) /\ th[s].pc \notin {"exist", "kick", "add", "find", "unregister"})
        /\ SF_vars(Handlers(s) /\ th[s].pc \in {"exist", "kick", "add", "find", "unregister"})
        /\ WF_vars(Forward(s)) /\ WF_vars(Deliver(s))
        /\ WF_vars(WriteCompleted(s))
        /\ WF_vars(OnClose(s) /\ conn[s] = "closing")

FairSpec == Spec /\ Fairness

-----------------------------------------------------------------------------
(* Safety.                                                                  *)

Events == [kind : {"publish", "play", "close"}, name : Names \cup {None},
           src : Sessions \cup {None}]
Handling == [pc : {"idle", "exist", "kick", "kickTest", "kickForce", "crashed", "create", "add",
                   "attach", "closeSrc", "closeAll", "drain", "closed", "find", "opened",
                   "join", "joinAdd", "clear", "unregister", "leave"},
             op : {None, "kick", "replace", "end"},
             src : Sessions \cup {None}, target : Sessions \cup {None}]
SessionFields(Count) ==
    [stream : Keys \cup {None}, mdsrc : Sessions \cup {None}, srcCtx : BOOLEAN,
     valid : BOOLEAN, attached : BOOLEAN, closing : BOOLEAN, onClose : BOOLEAN,
     playing : BOOLEAN, inMd : BOOLEAN, listRefs : Count, alive : BOOLEAN]
SourceFields(Count) ==
    [ctxSrc : Sessions \cup {None}, closedAll : BOOLEAN, rtmp : BOOLEAN, inited : BOOLEAN,
     clients : SUBSET Sessions, replaced : BOOLEAN, refs : Count]

NetOK ==
    /\ conn \in [Sessions -> {"open", "last", "closing", "closed"}]
    /\ called \subseteq Sessions /\ released \subseteq Sessions
    /\ asked \in [Sessions -> Seq(Names \cup {None})]
    /\ inbox \in [Sessions -> Seq(Events)]
HandlersOK == th \in [Sessions -> Handling] /\ lock \in Sessions \cup {None}
RegistryOK == streams \in [Keys -> Sessions \cup {None}]
MediaOK ==
    /\ frames \in [Sessions -> Seq(Sessions)] /\ passed \subseteq Sessions
    /\ heard \subseteq Sessions \X Sessions

\* The values each field takes; no count of references goes below zero.
TypeOK ==
    /\ NetOK /\ HandlersOK /\ RegistryOK /\ MediaOK
    /\ ss \in [Sessions -> SessionFields(Nat)]
    /\ md \in [Sessions -> SourceFields(Nat)]

\* Whatever the registry holds under a name was published under it by a session
\* that will still come to take it out: publishing and closing one session in
\* that order leaves nothing behind, whoever replaced whom in between.  And of
\* several sessions that publish under one name it has one, while the connections
\* of the others are being closed: no publisher goes on sending into a source
\* that nobody can find any more.
RegisteredIsServed ==
    /\ \A n \in Keys : streams[n] # None =>
          LET s == streams[n] IN
          /\ ss[s].mdsrc = s /\ ss[s].stream = n /\ ss[s].alive
          /\ ss[s].attached \/ th[s].pc = "attach"
    /\ \A s \in Sessions : ss[s].attached /\ streams[ss[s].stream] # s =>
          \/ ss[s].closing \/ ss[s].onClose
          \/ \E t \in Sessions : lock = t /\ th[t].target = s

\* Whoever may still use a source holds a reference to it.
InUse(m) ==
    LET sessions == {s \in Sessions : ss[s].mdsrc = m}
        handlers == {s \in Sessions : th[s].src = m}
        kicked == {s \in Sessions : th[s].op = "kick" /\ th[s].target = m}
        posted == UNION {{s} \X {i \in DOMAIN inbox[s] : inbox[s][i].src = m} : s \in Sessions}
        names == {n \in Keys : streams[n] = m}
    IN  Cardinality(sessions) + Cardinality(handlers) + Cardinality(kicked)
          + Cardinality(posted) + Cardinality(names) + Len(frames[m])

\* The counts of players and sources match their users.  A player is in the list
\* of one source at most, which holds one reference to it, released by whoever
\* takes it out, its own thread or the one that closes the source, never by both.
\* A source is held by those who may still use it and by nobody else; only one
\* that AddMdSource replaced keeps a reference for ever.
ReferencesMatch ==
    /\ \A p \in Sessions :
          LET in == {m \in Sessions : p \in md[m].clients} IN
          /\ ss[p].listRefs = Cardinality(in) /\ Cardinality(in) <= 1
          /\ ss[p].inMd = (in # {})
          /\ in # {} => ss[p].alive /\ in = {ss[p].mdsrc}
    /\ \A m \in Sessions : md[m].refs = InUse(m) + (IF md[m].replaced THEN 1 ELSE 0)

\* m_ctxSrc is a plain pointer.  It never outlives its session, and the session
\* that RemoveMdSourceClose writes to without m_mtxSrcCtx is still there: its own
\* OnClose has to wait for the registry's lock.
SourceContextAlive ==
    \A m \in Sessions :
        /\ md[m].ctxSrc # None => ss[md[m].ctxSrc].alive
        /\ (\E s \in Sessions : th[s].pc = "kickForce" /\ th[s].target = m) => ss[m].alive

\* A player hears nobody but a publisher of a name that it has asked for, also
\* when others who have joined the same source send media messages of their own.
HeardWasAsked ==
    \A ph \in heard :
        LET p == ph[1]
            s == ph[2]
        IN  /\ ss[s].srcCtx
            /\ \E i \in 1..Len(asked[p]) : asked[p][i] = ss[s].stream

-----------------------------------------------------------------------------
(* Liveness.                                                                *)

Crashed == \E s \in Sessions : th[s].pc = "crashed"

\* A source whose publisher's connection has ended leaves the registry.
EndedIsUnregistered ==
    \A s \in Sessions :
        conn[s] = "closed" ~> Crashed \/ \A n \in Keys : streams[n] # s

\* A publisher that has been accepted is registered, or its connection ends: the
\* locks that publishing and closing take do not wait for each other.
PublishIsServed ==
    \A s \in Sessions :
        th[s].pc \in {"kick", "exist"} ~> Crashed \/ ss[s].attached \/ conn[s] = "closed"

\* The source's publisher has lost its connection, or its name to another one.
Ending(m) ==
    conn[m] = "closed" \/ \E s \in Sessions : th[s].op \in {"kick", "replace"} /\ th[s].target = m

\* A player leaves the list of its source when its own connection ends, and with it
\* goes the reference that would keep its session for ever: also if AddClientSession
\* added it to a source that CloseAllClients had just emptied.  The end of its own
\* connection is all that gets such a latecomer out.  One that is in the list while
\* its source is ending and not yet marked as closed is put out by CloseAllClients,
\* whoever closes the source.
PlayersLeave ==
    \A m, p \in Sessions :
        /\ p \in md[m].clients
        /\ conn[p] = "closed" \/ (Ending(m) /\ ~md[m].closedAll)
        ~> Crashed \/ p \notin md[m].clients

\* libmediasrv_rtmp.cpp:794 of CloseByRTMPT: the client may keep the socket, no
\* OnClose would ever come, and so it has to be called from there.  A publisher
\* that has released its stream is taken through CRTMPNetSession::OnClose.
ReleasedIsClosed == \A s \in Sessions : s \in released ~> ss[s].onClose
==============================================================================
