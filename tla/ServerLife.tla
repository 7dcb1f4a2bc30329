------------------------------ MODULE ServerLife ------------------------------
(* The life of the server: CMediaSrvApp::StartNetworkAndQueue,              *)
(* StopNetworkAndQueue and CleanUp, over the networks, the two event queues *)
(* that RTMP uses and the connections whose events pass through them.  A    *)
(* server that was stopped may be started again (MediaSrvStart,             *)
(* MediaSrvStop); a program that ends cleans up.                            *)
(*                                                                          *)
(* The parts appear by what their own modules show of them: a queue is one  *)
(* box per thread, first in first out (EventQueue); a network that is shut  *)
(* down closes every connection it has, also those it accepts until it sees *)
(* the flag (NetConn); a publisher replaces the one registered before it    *)
(* and takes only itself out (MediaSource, here with a single name).        *)
EXTENDS Naturals, Sequences, FiniteSets, SequencesExt

CONSTANTS
    Conns,         \* connections, each made once
    EventThreads,  \* the threads of m_queueNetworkEventRTMP
    DataThread,    \* the thread of m_queueDataProcess
    None,
    NumNetworks,   \* enabled RTMP entries of the configuration
    MaxStarts,     \* calls of StartNetworkAndQueue
    MaxBindFails   \* calls of BindAddr that fail

ASSUME ConstantsAssumption ==
    /\ EventThreads # {} /\ DataThread \notin EventThreads
    /\ None \notin Conns \cup Nat /\ NumNetworks \in Nat \ {0}
    /\ MaxStarts \in Nat \ {0} /\ MaxBindFails \in Nat

Threads == EventThreads \cup {DataThread}
Nets == 1..NumNetworks * MaxStarts     \* CRTMPNetworkSrv objects, in the order of their making

VARIABLES
    pc,        \* where the caller of Start, Stop and CleanUp is
    i, j,      \* the loop variables of LoadRTMPNetwork and of the loops over the slots
    starts, bindFails,
    slot,      \* m_rtmpNetwork: a network object or None
    life,      \* of each network object: "none", "made" or "deleted"
    bound,     \* the networks with a listening socket
    netRun,    \* their threads: "off", "on", "told" (m_bShutDown)
    made,      \* the queues that exist
    run,       \* the queues' threads: "off", "on", "told" (m_bShutdown), "last" (told, one event executed since)
    box,       \* m_listQueue of each of them
    conn,      \* CRTMPConnNetCtx and its CRTMPNetSession
    source,    \* the publisher that the registry holds, or None
    left,      \* history: whose close event was queued when its thread ended
    stray      \* history: whose m_net was called after the network was deleted
control == <<pc, i, j, starts, bindFails>>
networks == <<slot, life, bound, netRun>>
queues == <<made, run, box>>
sessions == <<conn, source, stray>>
vars == <<control, networks, queues, sessions, left>>

-----------------------------------------------------------------------------
(* Connections: who keeps one, and what its end does.                       *)

Event(kind, c) == [kind |-> kind, conn |-> c]
Holds(b, c) == \E t \in Threads : \E e \in ToSet(b[t]) : e.conn = c

\* A thread that has been told refuses events; one that has ended takes them.
Takes(t) == run[t] \notin {"told", "last"}

\* Mutant of Posted: the newest event is executed first.
PostedFirst(t, e) == IF Takes(t) THEN [box EXCEPT ![t] = <<e>> \o @] ELSE box

Posted(t, e) == IF Takes(t) THEN [box EXCEPT ![t] = Append(@, e)] ELSE box

\* m_ctxRtmp is made when the first bytes are read; RTMPConnCtxCloseAll calls
\* the network of each connection in the session's list.
CallsNetwork(c) == conn[c].session \in {"asked", "published"}
Strays(C) == {c \in C : CallsNetwork(c) /\ life[conn[c].net] = "deleted"}

\* Mutant of Ended: m_bOnCloseCalled is not set.
EndedUnmarked(C) == conn

\* CRTMPNetSession::OnClose, once for a session: from its close event or from
\* ~CRTMPConnNetCtx.
Ended(C) == [c \in Conns |-> IF c \in C THEN [conn[c] EXCEPT !.session = "closed"] ELSE conn[c]]
OnClose(C) ==
    LET open == {c \in C : conn[c].session # "closed"}
    IN  /\ conn' = Ended(open)
        /\ source' = IF source \in open THEN None ELSE source
        /\ stray' = stray \cup Strays(open)

\* What releases the last reference to a connection destroys it.
Unheld(b) == {c \in Conns : conn[c].net # None /\ ~conn[c].listed /\ ~Holds(b, c)}

-----------------------------------------------------------------------------
(* Starting.                                                                *)

Start ==
    /\ pc \in {"off", "down"} /\ starts < MaxStarts
    /\ pc' = "load" /\ i' = 1 /\ j' = 1 /\ starts' = starts + 1
    /\ made' = made \cup {"data"}
    /\ run' = [run EXCEPT ![DataThread] = "on"]
    /\ UNCHANGED <<bindFails, networks, box, sessions, left>>

Network(s) == IF slot[s] = None THEN Cardinality({n \in Nets : life[n] # "none"}) + 1 ELSE slot[s]

\* Mutant of LoadNetwork: an entry that cannot be bound uses up a slot.
LoadNetworkLeavesHole ==
    /\ pc = "load" /\ i <= NumNetworks
    /\ i' = i + 1 /\ j' = j + 1
    /\ LET n == Network(j) IN
       \/ /\ slot' = [slot EXCEPT ![j] = n]
          /\ life' = [life EXCEPT ![n] = "made"]
          /\ bound' = bound \cup {n}
          /\ UNCHANGED bindFails
       \/ /\ bindFails < MaxBindFails
          /\ bindFails' = bindFails + 1
          /\ slot' = [slot EXCEPT ![j] = None]
          /\ life' = [life EXCEPT ![n] = "deleted"]
          /\ UNCHANGED bound
    /\ UNCHANGED <<pc, starts, netRun, queues, sessions, left>>

\* One enabled entry of LoadRTMPNetwork: the object of the slot is made, or used
\* again, and bound; one that cannot be bound is released and its slot emptied.
LoadNetwork ==
    /\ pc = "load" /\ i <= NumNetworks
    /\ i' = i + 1
    /\ LET n == Network(j) IN
       \/ /\ slot' = [slot EXCEPT ![j] = n]
          /\ life' = [life EXCEPT ![n] = "made"]
          /\ bound' = bound \cup {n}
          /\ j' = j + 1
          /\ UNCHANGED bindFails
       \/ /\ bindFails < MaxBindFails
          /\ bindFails' = bindFails + 1
          /\ slot' = [slot EXCEPT ![j] = None]
          /\ life' = [life EXCEPT ![n] = "deleted"]
          /\ UNCHANGED <<bound, j>>
    /\ UNCHANGED <<pc, starts, netRun, queues, sessions, left>>

\* m_queueNetworkEventRTMP is made and started only if m_rtmpCount > 0.
StartNetworkEvent ==
    /\ pc = "load" /\ i > NumNetworks
    /\ IF j > 1
       THEN /\ made' = made \cup {"event"}
            /\ run' = [t \in Threads |-> IF t \in EventThreads THEN "on" ELSE run[t]]
       ELSE UNCHANGED <<made, run>>
    /\ pc' = "startNets" /\ i' = 1
    /\ UNCHANGED <<j, starts, bindFails, networks, box, sessions, left>>

\* The loops over m_rtmpNetwork end at the first empty slot.
AtNetwork == i <= NumNetworks /\ slot[i] # None
StartNetwork ==
    /\ pc = "startNets" /\ AtNetwork
    /\ netRun' = [netRun EXCEPT ![slot[i]] = "on"]
    /\ i' = i + 1
    /\ UNCHANGED <<pc, j, starts, bindFails, slot, life, bound, queues, sessions, left>>
Started ==
    /\ pc = "startNets" /\ ~AtNetwork
    /\ pc' = "up"
    /\ UNCHANGED <<i, j, starts, bindFails, networks, queues, sessions, left>>

-----------------------------------------------------------------------------
(* Stopping and cleaning up.                                                *)

Stop ==
    /\ pc = "up"
    /\ pc' = "stopNets" /\ i' = 1
    /\ UNCHANGED <<j, starts, bindFails, networks, queues, sessions, left>>
ShutdownNetwork ==
    /\ pc = "stopNets" /\ AtNetwork
    /\ pc' = "joinNet"
    /\ netRun' = [netRun EXCEPT ![slot[i]] = "told"]
    /\ UNCHANGED <<i, j, starts, bindFails, slot, life, bound, queues, sessions, left>>
JoinNetwork ==
    /\ pc = "joinNet" /\ netRun[slot[i]] = "off"
    /\ pc' = "stopNets" /\ i' = i + 1
    /\ bound' = bound \ {slot[i]}
    /\ UNCHANGED <<j, starts, bindFails, slot, life, netRun, queues, sessions, left>>

\* CObjEventQueue::Shutdown tells every thread that runs and waits for them all.
Tell(T) == run' = [t \in Threads |-> IF t \in T /\ run[t] = "on" THEN "told" ELSE run[t]]
AllOff(T) == \A t \in T : run[t] = "off"
ShutdownDataProcess ==
    /\ pc = "stopNets" /\ ~AtNetwork
    /\ pc' = "joinData" /\ Tell({DataThread})
    /\ UNCHANGED <<i, j, starts, bindFails, networks, made, box, sessions, left>>
ShutdownNetworkEvent ==
    /\ pc = "joinData" /\ AllOff({DataThread})
    /\ pc' = "joinEvent" /\ Tell(EventThreads)
    /\ UNCHANGED <<i, j, starts, bindFails, networks, made, box, sessions, left>>
Stopped ==
    /\ pc = "joinEvent" /\ AllOff(EventThreads)
    /\ pc' = "down"
    /\ UNCHANGED <<i, j, starts, bindFails, networks, queues, sessions, left>>

\* What the loops over m_rtmpNetwork reach.
Slots == {s \in 1..NumNetworks : \A p \in 1..s : slot[p] # None}
CleanUpNetworks ==
    /\ pc = "down"
    /\ pc' = "cleanData"
    /\ life' = [n \in Nets |-> IF \E s \in Slots : slot[s] = n THEN "deleted" ELSE life[n]]
    /\ slot' = [s \in 1..NumNetworks |-> IF s \in Slots THEN None ELSE slot[s]]
    /\ UNCHANGED <<i, j, starts, bindFails, bound, netRun, queues, sessions, left>>

\* Mutant of DeleteQueue: the events that are left are not released.
DeleteQueueOnly(T, q) ==
    /\ box' = [t \in Threads |-> IF t \in T THEN <<>> ELSE box[t]]
    /\ made' = made \ {q}
    /\ UNCHANGED sessions

\* CleanUp releases the networks first, then deletes m_queueDataProcess, then
\* m_queueNetworkEventRTMP; a deleted queue releases the events left in it.
DeleteQueue(T, q) ==
    /\ box' = [t \in Threads |-> IF t \in T THEN <<>> ELSE box[t]]
    /\ made' = made \ {q}
    /\ OnClose(Unheld(box'))
CleanUpDataProcess ==
    /\ pc = "cleanData"
    /\ pc' = "cleanEvent" /\ DeleteQueue({DataThread}, "data")
    /\ UNCHANGED <<i, j, starts, bindFails, networks, run, left>>
CleanUpNetworkEvent ==
    /\ pc = "cleanEvent"
    /\ pc' = "clean" /\ DeleteQueue(EventThreads, "event")
    /\ UNCHANGED <<i, j, starts, bindFails, networks, run, left>>

-----------------------------------------------------------------------------
(* The networks' threads.                                                   *)

\* Mutant of Accept: the thread is one of m_queueDataProcess.
AcceptOnData(c, n, t) ==
    /\ conn[c].net = None /\ n \in bound /\ netRun[n] # "off"
    /\ conn' = [conn EXCEPT ![c] = [net |-> n, listed |-> TRUE, thread |-> DataThread,
                                    session |-> "new", media |-> FALSE]]
    /\ UNCHANGED <<control, networks, queues, source, left, stray>>

\* A connection takes its queue and one of its threads when it is accepted; one
\* that is accepted while the network is being told is closed with the others.
Accept(c, n, t) ==
    /\ conn[c].net = None /\ n \in bound /\ netRun[n] # "off"
    /\ conn' = [conn EXCEPT ![c] = [net |-> n, listed |-> TRUE, thread |-> t,
                                    session |-> "new", media |-> FALSE]]
    /\ UNCHANGED <<control, networks, queues, source, left, stray>>

Served(c) == conn[c].listed /\ netRun[conn[c].net] # "off"
AskPublish(c) ==
    /\ Served(c) /\ conn[c].session = "new"
    /\ conn' = [conn EXCEPT ![c].session = "asked"]
    /\ box' = Posted(conn[c].thread, Event("publish", c))
    /\ UNCHANGED <<control, networks, made, run, source, left, stray>>
SendMedia(c) ==
    /\ Served(c) /\ conn[c].session = "published" /\ ~conn[c].media
    /\ conn' = [conn EXCEPT ![c].media = TRUE]
    /\ box' = Posted(DataThread, Event("media", c))
    /\ UNCHANGED <<control, networks, made, run, source, left, stray>>

\* The peer left, the application closed it, or the network is being shut down:
\* the connection leaves the list and CRTMPConnNetCtx::OnClose posts its event.
\* Were that refused, releasing the connection would be its end.
Unlist(c) ==
    /\ Served(c)
    /\ box' = Posted(conn[c].thread, Event("close", c))
    /\ LET ends == ~Holds(box', c) IN
       /\ conn' = [conn EXCEPT ![c].listed = FALSE,
                               ![c].session = IF ends THEN "closed" ELSE @]
       /\ source' = IF ends /\ source = c THEN None ELSE source
    /\ UNCHANGED <<control, networks, made, run, left, stray>>
EndNetwork(n) ==
    /\ netRun[n] = "told" /\ \A c \in Conns : conn[c].net = n => ~conn[c].listed
    /\ netRun' = [netRun EXCEPT ![n] = "off"]
    /\ UNCHANGED <<control, slot, life, bound, queues, sessions, left>>

-----------------------------------------------------------------------------
(* The queues' threads.                                                     *)

\* CRTMPEvent::OnExecute, and the release of the event behind it.  A publisher
\* closes the one it replaces, that is, calls that connection's network.  A source
\* registered for a session whose OnClose is over would have nobody to take it out.
Front1(t) == Head(box[t])
Taken(t) ==
    /\ run[t] \in {"on", "told"} /\ box[t] # <<>>
    /\ box' = [box EXCEPT ![t] = Tail(@)]
    /\ run' = IF run[t] = "told" THEN [run EXCEPT ![t] = "last"] ELSE run
ExecutePublish(t) ==
    /\ Taken(t) /\ Front1(t).kind = "publish"
    /\ LET c == Front1(t).conn
           over == conn[c].session = "closed"
           ends == ~over /\ c \in Unheld(box')
       IN  /\ conn' = [conn EXCEPT ![c].session = IF over \/ ends THEN "closed" ELSE "published"]
           /\ source' = IF ends THEN None ELSE c
    /\ stray' = stray \cup (IF source = None THEN {} ELSE Strays({source}))
    /\ UNCHANGED <<control, networks, made, left>>
ExecuteClose(t) ==
    /\ Taken(t) /\ Front1(t).kind = "close"
    /\ OnClose({Front1(t).conn})
    /\ UNCHANGED <<control, networks, made, left>>
ExecuteMedia(t) ==
    /\ Taken(t) /\ Front1(t).kind = "media"
    /\ OnClose(Unheld(box'))
    /\ UNCHANGED <<control, networks, made, left>>

\* A thread that was told leaves, whatever its queue still holds.
Leave(t) ==
    /\ run[t] \in {"told", "last"}
    /\ run' = [run EXCEPT ![t] = "off"]
    /\ left' = left \cup {c \in Conns : Event("close", c) \in ToSet(box[t])}
    /\ UNCHANGED <<control, networks, made, box, sessions>>

-----------------------------------------------------------------------------
Init ==
    /\ pc = "off" /\ i = 1 /\ j = 1 /\ starts = 0 /\ bindFails = 0
    /\ slot = [s \in 1..NumNetworks |-> None]
    /\ life = [n \in Nets |-> "none"] /\ bound = {}
    /\ netRun = [n \in Nets |-> "off"]
    /\ made = {} /\ run = [t \in Threads |-> "off"] /\ box = [t \in Threads |-> <<>>]
    /\ conn = [c \in Conns |-> [net |-> None, listed |-> FALSE, thread |-> None,
                                session |-> "new", media |-> FALSE]]
    /\ source = None /\ left = {} /\ stray = {}

Next ==
    \/ Start \/ LoadNetwork \/ StartNetworkEvent \/ StartNetwork \/ Started
    \/ Stop \/ ShutdownNetwork \/ JoinNetwork \/ ShutdownDataProcess
    \/ ShutdownNetworkEvent \/ Stopped
    \/ CleanUpNetworks \/ CleanUpDataProcess \/ CleanUpNetworkEvent
    \/ \E c \in Conns :
          \/ \E n \in Nets, t \in EventThreads : Accept(c, n, t)
          \/ AskPublish(c) \/ SendMedia(c) \/ Unlist(c)
    \/ \E n \in Nets : EndNetwork(n)
    \/ \E t \in Threads :
          ExecutePublish(t) \/ ExecuteClose(t) \/ ExecuteMedia(t) \/ Leave(t)

Spec == Init /\ [][Next]_vars

\* A thread that runs executes what is queued for it.
FairSpec ==
    Spec /\ \A t \in Threads : WF_vars(ExecutePublish(t) \/ ExecuteClose(t) \/ ExecuteMedia(t))

-----------------------------------------------------------------------------
ControlOK ==
    /\ pc \in {"off", "load", "startNets", "up", "stopNets", "joinNet", "joinData",
               "joinEvent", "down", "cleanData", "cleanEvent", "clean"}
    /\ i \in 1..NumNetworks + 1 /\ j \in 1..NumNetworks + 1
    /\ starts \in 0..MaxStarts /\ bindFails \in 0..MaxBindFails

NetworksOK ==
    /\ slot \in [1..NumNetworks -> Nets \cup {None}]
    /\ life \in [Nets -> {"none", "made", "deleted"}]
    /\ bound \subseteq Nets /\ netRun \in [Nets -> {"off", "on", "told"}]

Events == [kind : {"publish", "media", "close"}, conn : Conns]
QueuesOK ==
    /\ made \subseteq {"data", "event"}
    /\ run \in [Threads -> {"off", "on", "told", "last"}]
    /\ box \in [Threads -> Seq(Events)]

Connections == [net : Nets \cup {None}, listed : BOOLEAN,
                thread : EventThreads \cup {None},
                session : {"new", "asked", "published", "closed"}, media : BOOLEAN]
SessionsOK ==
    /\ conn \in [Conns -> Connections]
    /\ source \in Conns \cup {None} /\ left \subseteq Conns /\ stray \subseteq Conns

TypeOK == ControlOK /\ NetworksOK /\ QueuesOK /\ SessionsOK

\* Whatever failed to bind in this start or an earlier one, and whichever slots
\* that emptied: every network that is bound runs while the server is up, and is
\* reached by the loop that stops it; a network that can accept finds the queue
\* whose thread a connection takes.
NetworksFollowServer ==
    /\ pc = "up" => \A n \in bound : netRun[n] = "on"
    /\ pc \in {"joinData", "joinEvent", "down", "cleanData", "cleanEvent", "clean"}
         => bound = {} /\ \A n \in Nets : netRun[n] = "off"
    /\ \A n \in bound : netRun[n] # "off" => "event" \in made

\* A session whose close event was left in the queue by a Stop is closed when the
\* queue is deleted, with whatever else kept its connection: when CleanUp has
\* ended every connection has been closed and the registry is empty.
CleanUpLeavesNothing ==
    pc = "clean" => /\ source = None
                    /\ \A c \in Conns : conn[c].net # None => conn[c].session = "closed"

\* A deleted network is called only for a connection whose close event was still
\* queued when its thread ended: by the destructor, by the event itself in a
\* later run, or by a publisher that replaces it.  If Stop finds the queue empty,
\* nothing is called after its deletion.
OnlyLeftoversStray == stray \subseteq left

\* The events that a Stop left are executed by the next Start, in their order: in
\* a server that stays up no ended connection stays registered, whichever run it
\* belonged to.
StaleIsUnregistered ==
    \A c \in Conns : \A t \in EventThreads :
        <>[](run[t] = "on" /\ conn[c].thread = t)
          => (~conn[c].listed /\ source = c ~> source # c)
==============================================================================
