-------------------------- MODULE ServerLife_proofs --------------------------
(* Theorems about ServerLife, for every number of networks, starts and failed *)
(* binds, and every set of connections and of event threads.                 *)
EXTENDS ServerLife, FiniteSetTheorems, SequenceTheorems, TLAPS

-----------------------------------------------------------------------------
(* The networks: which object is in which slot, and which of them run.       *)

\* The loops over m_rtmpNetwork get past slot k.
Filled(k) == \A s \in 1..k : slot[s] # None

Loading == {"load", "startNets", "up", "stopNets", "joinNet"}

\* The objects are numbered in the order of their making, and one start makes no
\* more of them than the configuration has entries.
Used == {n \in Nets : life[n] # "none"}
ObjectsMade ==
    \E k \in Nat :
        /\ Used = 1..k
        /\ k <= NumNetworks * starts
        /\ pc = "load" => k <= NumNetworks * (starts - 1) + (i - 1)

\* A slot holds an object that was not deleted, and no other slot holds it.
SlotsOwn ==
    \A s \in 1..NumNetworks : slot[s] # None =>
        /\ life[slot[s]] = "made"
        /\ \A p \in 1..NumNetworks : slot[p] = slot[s] => p = s

\* The slots below j were bound in this start, and nothing else is.
BoundInSlots ==
    /\ pc \in Loading => Filled(j - 1) /\ \A n \in bound : \E s \in 1..(j - 1) : slot[s] = n
    /\ pc \notin Loading => bound = {}
    /\ pc = "load" => j <= i
    /\ pc \in Loading /\ (pc = "load" => i > 1) /\ j = 1 => slot[1] = None
    /\ pc \in {"stopNets", "joinNet"} => \A n \in bound : \E s \in i..(j - 1) : slot[s] = n

\* Where the thread of each network is while the server starts and stops.
ThreadsInSlots ==
    /\ pc \notin Loading \ {"load"} => \A n \in Nets : netRun[n] = "off"
    /\ pc = "startNets" =>
         /\ Filled(i - 1)
         /\ \A s \in 1..(i - 1) : netRun[slot[s]] = "on"
         /\ \A n \in Nets : netRun[n] # "off" =>
                netRun[n] = "on" /\ \E s \in 1..(i - 1) : slot[s] = n
    /\ pc = "up" =>
         /\ \A s \in 1..NumNetworks : Filled(s) => netRun[slot[s]] = "on"
         /\ \A n \in Nets : netRun[n] # "off" =>
                \E s \in 1..NumNetworks : Filled(s) /\ slot[s] = n
    /\ pc \in {"stopNets", "joinNet"} =>
         /\ Filled(i - 1)
         /\ \A n \in Nets : netRun[n] # "off" =>
                \E s \in i..NumNetworks : Filled(s) /\ slot[s] = n
    /\ pc = "joinNet" => i <= NumNetworks /\ slot[i] # None

\* The queues' threads: those of the events run whenever a network does.
QueuesFollow ==
    /\ pc \in Loading \ {"load"} /\ j > 1 =>
         "event" \in made /\ \A t \in EventThreads : run[t] = "on"
    /\ pc \notin {"startNets", "up", "stopNets", "joinNet", "joinData", "joinEvent"} =>
         \A t \in EventThreads : run[t] = "off"
    /\ pc \in {"off", "joinEvent", "down", "cleanData", "cleanEvent", "clean"} =>
         run[DataThread] = "off"

NetworkInv == ObjectsMade /\ SlotsOwn /\ BoundInSlots /\ ThreadsInSlots /\ QueuesFollow

-----------------------------------------------------------------------------
(* The sessions: what is queued for them, and who closes them.               *)

\* A connection in a list belongs to a network that runs.
ListedIsServed ==
    \A c \in Conns :
        /\ conn[c].net # None => conn[c].thread \in EventThreads
        /\ conn[c].listed => conn[c].net # None /\ netRun[conn[c].net] # "off"

\* publish and close of a connection are queued in its own thread's queue, once
\* and in that order; a publish that waits has an open session.
QueuedInOrder ==
    \A t \in Threads : \A k \in 1..Len(box[t]) :
        LET c == box[t][k].conn IN
        /\ conn[c].net # None
        /\ box[t][k].kind = "publish" =>
             /\ t = conn[c].thread /\ conn[c].session = "asked"
             /\ \A l \in 1..Len(box[t]) : box[t][l] = Event("publish", c) => l = k
             /\ \A l \in 1..Len(box[t]) : box[t][l] = Event("close", c) => k < l
        /\ box[t][k].kind = "close" => t = conn[c].thread /\ ~conn[c].listed

\* A session that lost its connection has its close event before it, and if its
\* thread has ended, the event is one of those left behind.
Parted(c) == conn[c].net # None /\ ~conn[c].listed /\ conn[c].session # "closed"
CloseIsQueued ==
    \A c \in Conns : Parted(c) =>
        /\ \E k \in 1..Len(box[conn[c].thread]) : box[conn[c].thread][k] = Event("close", c)
        /\ run[conn[c].thread] = "off" => c \in left

\* The registry holds an open session.
SourceIsOpen == source # None => conn[source].net # None /\ conn[source].session = "published"

\* An open session of a deleted network was left behind.
DeletedIsLeft ==
    \A c \in Conns :
        conn[c].net # None /\ life[conn[c].net] = "deleted" /\ conn[c].session # "closed"
          => c \in left

\* Once the queues were deleted nothing is queued any more, and nothing is open.
QueuesDeleted ==
    /\ pc \in {"cleanEvent", "clean"} => box[DataThread] = <<>>
    /\ pc = "clean" =>
         \A c \in Conns : conn[c].net # None => conn[c].session = "closed"

SessionInv == /\ ListedIsServed /\ QueuedInOrder /\ CloseIsQueued /\ SourceIsOpen
              /\ DeletedIsLeft /\ QueuesDeleted /\ OnlyLeftoversStray

-----------------------------------------------------------------------------
USE ConstantsAssumption

\* The steps' own abbreviations, expanded wherever a step is.
USE DEF control, networks, queues, sessions, Threads

LEMMA NetsAreNumbers == /\ NumNetworks \in Nat /\ MaxStarts \in Nat
                        /\ NumNetworks >= 1 /\ NumNetworks * MaxStarts \in Nat
                        /\ Nets = 1..NumNetworks * MaxStarts /\ None \notin Nets
  BY DEF Nets

LEMMA ProductGrows ==
  ASSUME NEW a \in Nat, NEW b \in Nat, NEW c \in Nat, b <= c
  PROVE  a * b <= a * c
  OBVIOUS

LEMMA ProductStep ==
  ASSUME NEW a \in Nat, NEW b \in Nat, b >= 1
  PROVE  a * b = a * (b - 1) + a /\ a * (b - 1) \in Nat
  OBVIOUS

\* The number of the next object, and that there is one left to be made.
LEMMA NextObject ==
  ASSUME TypeOK, ObjectsMade, BoundInSlots, SlotsOwn, LoadNetwork
  PROVE  /\ j \in 1..NumNetworks /\ Network(j) \in Nets
         /\ slot[j] # None => Network(j) = slot[j]
         /\ slot[j] = None => life[Network(j)] = "none"
                              /\ Used \cup {Network(j)} = 1..Network(j)
                              /\ Network(j) <= NumNetworks * (starts - 1) + i
                              /\ Network(j) <= NumNetworks * starts
  <1>1. j \in 1..NumNetworks /\ i \in 1..NumNetworks /\ pc = "load"
    BY DEF LoadNetwork, BoundInSlots, TypeOK, ControlOK
  <1>2. ASSUME slot[j] = None
        PROVE  /\ Network(j) \in Nets /\ life[Network(j)] = "none"
               /\ Used \cup {Network(j)} = 1..Network(j)
               /\ Network(j) <= NumNetworks * (starts - 1) + i
               /\ Network(j) <= NumNetworks * starts
    <2>1. PICK k \in Nat : Used = 1..k /\ k <= NumNetworks * (starts - 1) + (i - 1)
      BY <1>1 DEF ObjectsMade
    <2>2. Network(j) = Cardinality(Used) + 1
      BY <1>2 DEF Network, Used
    <2>3. Cardinality(1..k) = k
      BY FS_Interval
    <2>4. Network(j) = k + 1
      BY <2>1, <2>2, <2>3
    <2>5. starts \in Nat /\ starts <= MaxStarts
      BY DEF TypeOK, ControlOK
    <2>6. starts >= 1
      <3>1. CASE starts = 0
        <4>1. NumNetworks * (starts - 1) = 0 - NumNetworks
          BY <3>1
        <4>2. QED
          BY <1>1, <2>1, <4>1
      <3>2. QED
        BY <2>5, <3>1
    <2>7. k + 1 <= NumNetworks * (starts - 1) + NumNetworks
      <3>1. NumNetworks * (starts - 1) \in Nat
        BY <2>5, <2>6, ProductStep
      <3>2. QED
        BY <1>1, <2>1, <3>1
    <2>8. k + 1 <= NumNetworks * starts
      BY <2>5, <2>6, <2>7, ProductStep
    <2>9. NumNetworks * starts <= NumNetworks * MaxStarts /\ NumNetworks * starts \in Nat
      BY <2>5, ProductGrows
    <2>10. k + 1 \in Nets
      BY <2>8, <2>9, NetsAreNumbers
    <2>11. life[k + 1] = "none"
      BY <2>1, <2>10 DEF Used
    <2>12. (1..k) \cup {k + 1} = 1..(k + 1)
      OBVIOUS
    <2>13. k + 1 <= NumNetworks * (starts - 1) + i
      <3>1. NumNetworks * (starts - 1) \in Nat
        BY <2>5, <2>6, ProductStep
      <3>2. QED
        BY <1>1, <2>1, <3>1
    <2>14. QED
      BY <2>1, <2>4, <2>8, <2>10, <2>11, <2>12, <2>13
  <1>3. ASSUME slot[j] # None PROVE Network(j) = slot[j] /\ slot[j] \in Nets
    BY <1>1, <1>3 DEF Network, TypeOK, NetworksOK
  <1>4. QED
    BY <1>1, <1>2, <1>3

\* What posting, taking and closing keep of the types.
LEMMA PostedTyped ==
  ASSUME QueuesOK, NEW t \in Threads, NEW e \in Events
  PROVE  Posted(t, e) \in [Threads -> Seq(Events)]
  BY AppendProperties DEF Posted, QueuesOK

LEMMA TakenTyped ==
  ASSUME QueuesOK, NEW t \in Threads, Taken(t)
  PROVE  /\ box[t] \in Seq(Events) /\ box[t] # <<>> /\ Head(box[t]) \in Events
         /\ Front1(t) = Head(box[t])
         /\ box' = [box EXCEPT ![t] = Tail(box[t])]
         /\ box' \in [Threads -> Seq(Events)]
         /\ run' \in [Threads -> {"off", "on", "told", "last"}]
  <1>1. box \in [Threads -> Seq(Events)] /\ box[t] # <<>>
    BY DEF QueuesOK, Taken
  <1>2. Head(box[t]) \in Events /\ Tail(box[t]) \in Seq(Events)
    BY <1>1, HeadTailProperties
  <1>3. QED
    BY <1>1, <1>2 DEF Taken, Front1, QueuesOK

LEMMA EventTyped ==
  ASSUME NEW c \in Conns, NEW k \in {"publish", "media", "close"}
  PROVE  Event(k, c) \in Events
  BY DEF Event, Events

LEMMA OnCloseTyped ==
  ASSUME SessionsOK, NEW C \in SUBSET Conns, OnClose(C)
  PROVE  /\ conn' \in [Conns -> Connections]
         /\ source' \in Conns \cup {None} /\ stray' \subseteq Conns
  <1> DEFINE open == {c \in C : conn[c].session # "closed"}
  <1>1. conn' = Ended(open) /\ source' \in {None, source} /\ stray' = stray \cup Strays(open)
    BY DEF OnClose
  <1>2. Strays(open) \subseteq Conns
    BY DEF Strays
  <1>3. \A c \in Conns : [conn[c] EXCEPT !.session = "closed"] \in Connections
    BY DEF SessionsOK, Connections
  <1>4. conn' \in [Conns -> Connections]
    BY <1>1, <1>3 DEF Ended, SessionsOK
  <1>5. QED
    BY <1>1, <1>2, <1>4 DEF SessionsOK

LEMMA InitTypeOK == Init => TypeOK
  <1>1. 0 \in 0..MaxStarts /\ 0 \in 0..MaxBindFails /\ 1 \in 1..NumNetworks + 1
    OBVIOUS
  <1>2. QED
    BY <1>1, EmptySeq DEF Init, TypeOK, ControlOK, NetworksOK, QueuesOK, SessionsOK, Connections

\* What a part of the state needs is that part alone.
LEMMA TypeFrames ==
  ASSUME TypeOK
  PROVE  /\ UNCHANGED control => ControlOK'
         /\ UNCHANGED networks => NetworksOK'
         /\ UNCHANGED queues => QueuesOK'
         /\ UNCHANGED <<sessions, left>> => SessionsOK'
  BY DEF TypeOK, ControlOK, NetworksOK, QueuesOK, SessionsOK

\* Every step keeps the types; the number of a new network needs ObjectsMade.
LEMMA TypeOKStep == TypeOK /\ NetworkInv /\ ListedIsServed /\ [Next]_vars => TypeOK'
  <1> SUFFICES ASSUME TypeOK, NetworkInv, ListedIsServed, [Next]_vars
               PROVE  TypeOK'
    OBVIOUS
  <1> USE TypeFrames DEF TypeOK
  <1>1. ASSUME Start PROVE TypeOK'
    <2>1. ControlOK'
      BY <1>1 DEF Start, ControlOK, AtNetwork
    <2>2. NetworksOK'
      BY <1>1 DEF Start, NetworksOK, AtNetwork, ControlOK
    <2>3. QueuesOK' /\ SessionsOK'
      BY <1>1, ZenonT(60) DEF Start, QueuesOK
    <2>4. QED
      BY <2>1, <2>2, <2>3
  <1>2. ASSUME LoadNetwork PROVE TypeOK'
    <2>1. j \in 1..NumNetworks /\ i \in 1..NumNetworks /\ Network(j) \in Nets
      BY <1>2, NextObject DEF NetworkInv, LoadNetwork, ControlOK
    <2>2. PICK n \in Nets :
             \/ /\ slot' = [slot EXCEPT ![j] = n]
                /\ life' = [life EXCEPT ![n] = "made"]
                /\ bound' = bound \cup {n}
                /\ j' = j + 1
                /\ UNCHANGED bindFails
             \/ /\ bindFails < MaxBindFails
                /\ bindFails' = bindFails + 1
                /\ slot' = [slot EXCEPT ![j] = None]
                /\ life' = [life EXCEPT ![n] = "deleted"]
                /\ UNCHANGED <<bound, j>>
      BY <1>2, <2>1 DEF LoadNetwork
    <2>3. i' = i + 1 /\ UNCHANGED <<pc, starts, netRun, queues, sessions, left>>
      BY <1>2 DEF LoadNetwork
    <2>4. ControlOK'
      BY <2>1, <2>2, <2>3 DEF ControlOK
    <2>5. NetworksOK'
      BY <2>1, <2>2, <2>3 DEF NetworksOK
    <2>6. QED
      BY <2>3, <2>4, <2>5
  <1>3. ASSUME StartNetworkEvent PROVE TypeOK'
    <2>1. ControlOK'
      BY <1>3 DEF StartNetworkEvent, ControlOK, AtNetwork
    <2>2. NetworksOK'
      BY <1>3 DEF StartNetworkEvent, NetworksOK, AtNetwork, ControlOK
    <2>3. QueuesOK' /\ SessionsOK'
      BY <1>3, ZenonT(60) DEF StartNetworkEvent, QueuesOK
    <2>4. QED
      BY <2>1, <2>2, <2>3
  <1>4. ASSUME StartNetwork PROVE TypeOK'
    <2>1. ControlOK'
      BY <1>4 DEF StartNetwork, ControlOK, AtNetwork
    <2>2. NetworksOK'
      BY <1>4 DEF StartNetwork, NetworksOK, AtNetwork, ControlOK
    <2>3. QueuesOK' /\ SessionsOK'
      BY <1>4, ZenonT(60) DEF StartNetwork, QueuesOK
    <2>4. QED
      BY <2>1, <2>2, <2>3
  <1>5. ASSUME Started PROVE TypeOK'
    BY <1>5 DEF Started, ControlOK, NetworksOK, QueuesOK
  <1>6. ASSUME Stop PROVE TypeOK'
    <2>1. ControlOK'
      BY <1>6 DEF Stop, ControlOK, AtNetwork
    <2>2. NetworksOK'
      BY <1>6 DEF Stop, NetworksOK, AtNetwork, ControlOK
    <2>3. QueuesOK' /\ SessionsOK'
      BY <1>6, ZenonT(60) DEF Stop, QueuesOK
    <2>4. QED
      BY <2>1, <2>2, <2>3
  <1>7. ASSUME ShutdownNetwork PROVE TypeOK'
    <2>1. ControlOK'
      BY <1>7 DEF ShutdownNetwork, ControlOK, AtNetwork
    <2>2. NetworksOK'
      BY <1>7 DEF ShutdownNetwork, NetworksOK, AtNetwork, ControlOK
    <2>3. QueuesOK' /\ SessionsOK'
      BY <1>7, ZenonT(60) DEF ShutdownNetwork, QueuesOK
    <2>4. QED
      BY <2>1, <2>2, <2>3
  <1>8. ASSUME JoinNetwork PROVE TypeOK'
    <2>1. i \in 1..NumNetworks
      BY <1>8 DEF JoinNetwork, ControlOK, NetworkInv, ThreadsInSlots
    <2>2. ControlOK'
      BY <1>8, <2>1 DEF JoinNetwork, ControlOK
    <2>3. NetworksOK'
      BY <1>8 DEF JoinNetwork, NetworksOK
    <2>4. QED
      BY <1>8, <2>2, <2>3 DEF JoinNetwork
  <1>9. ASSUME ShutdownDataProcess PROVE TypeOK'
    BY <1>9 DEF ShutdownDataProcess, Tell, ControlOK, QueuesOK
  <1>10. ASSUME ShutdownNetworkEvent PROVE TypeOK'
    BY <1>10 DEF ShutdownNetworkEvent, Tell, ControlOK, QueuesOK
  <1>11. ASSUME Stopped PROVE TypeOK'
    BY <1>11 DEF Stopped, ControlOK, NetworksOK, QueuesOK
  <1>12. ASSUME CleanUpNetworks PROVE TypeOK'
    <2>1. ControlOK'
      BY <1>12 DEF CleanUpNetworks, ControlOK, AtNetwork
    <2>2. NetworksOK'
      BY <1>12 DEF CleanUpNetworks, NetworksOK, AtNetwork, ControlOK
    <2>3. QueuesOK' /\ SessionsOK'
      BY <1>12, ZenonT(60) DEF CleanUpNetworks, QueuesOK
    <2>4. QED
      BY <2>1, <2>2, <2>3
  <1>13. ASSUME CleanUpDataProcess PROVE TypeOK'
    <2>1. PICK T \in SUBSET Threads, q \in {"data", "event"} : DeleteQueue(T, q)
      BY <1>13 DEF CleanUpDataProcess
    <2>2. ControlOK' /\ NetworksOK'
      BY <1>13 DEF CleanUpDataProcess, ControlOK
    <2>3. QueuesOK'
      BY <1>13, <2>1, EmptySeq DEF CleanUpDataProcess, DeleteQueue, QueuesOK
    <2>4. Unheld(box') \in SUBSET Conns
      BY DEF Unheld
    <2>5. SessionsOK'
      BY <1>13, <2>1, <2>4, OnCloseTyped DEF CleanUpDataProcess, DeleteQueue, SessionsOK
    <2>6. QED
      BY <2>2, <2>3, <2>5
  <1>14. ASSUME CleanUpNetworkEvent PROVE TypeOK'
    <2>1. PICK T \in SUBSET Threads, q \in {"data", "event"} : DeleteQueue(T, q)
      BY <1>14 DEF CleanUpNetworkEvent
    <2>2. ControlOK' /\ NetworksOK'
      BY <1>14 DEF CleanUpNetworkEvent, ControlOK
    <2>3. QueuesOK'
      BY <1>14, <2>1, EmptySeq DEF CleanUpNetworkEvent, DeleteQueue, QueuesOK
    <2>4. Unheld(box') \in SUBSET Conns
      BY DEF Unheld
    <2>5. SessionsOK'
      BY <1>14, <2>1, <2>4, OnCloseTyped DEF CleanUpNetworkEvent, DeleteQueue, SessionsOK
    <2>6. QED
      BY <2>2, <2>3, <2>5
  <1>15. ASSUME NEW c \in Conns, NEW n \in Nets, NEW t \in EventThreads, Accept(c, n, t)
         PROVE  TypeOK'
    <2>1. [net |-> n, listed |-> TRUE, thread |-> t, session |-> "new",
           media |-> FALSE] \in Connections
      BY DEF Connections
    <2>2. SessionsOK'
      BY <1>15, <2>1 DEF Accept, SessionsOK
    <2>3. QED
      BY <1>15, <2>2 DEF Accept
  <1>16. ASSUME NEW c \in Conns, AskPublish(c) PROVE TypeOK'
    <2>1. QueuesOK'
      BY <1>16, EventTyped, PostedTyped DEF AskPublish, Served, ListedIsServed, QueuesOK
    <2>2. SessionsOK'
      BY <1>16 DEF AskPublish, SessionsOK, Connections
    <2>3. QED
      BY <1>16, <2>1, <2>2 DEF AskPublish
  <1>17. ASSUME NEW c \in Conns, SendMedia(c) PROVE TypeOK'
    <2>1. QueuesOK'
      BY <1>17, EventTyped, PostedTyped DEF SendMedia, Served, ListedIsServed, QueuesOK
    <2>2. SessionsOK'
      BY <1>17 DEF SendMedia, SessionsOK, Connections
    <2>3. QED
      BY <1>17, <2>1, <2>2 DEF SendMedia
  <1>18. ASSUME NEW c \in Conns, Unlist(c) PROVE TypeOK'
    <2>1. QueuesOK'
      BY <1>18, EventTyped, PostedTyped DEF Unlist, Served, ListedIsServed, QueuesOK
    <2>2. PICK b \in BOOLEAN :
             /\ conn' = [conn EXCEPT ![c].listed = FALSE,
                                     ![c].session = IF b THEN "closed" ELSE @]
             /\ source' = IF b /\ source = c THEN None ELSE source
      BY <1>18 DEF Unlist
    <2>3. UNCHANGED <<control, networks, left, stray>>
      BY <1>18 DEF Unlist
    <2>4. conn' \in [Conns -> Connections]
      BY <2>2, ZenonT(60) DEF SessionsOK, Connections
    <2>5. SessionsOK'
      BY <2>2, <2>3, <2>4 DEF SessionsOK
    <2>6. QED
      BY <2>1, <2>3, <2>5
  <1>19. ASSUME NEW n \in Nets, EndNetwork(n) PROVE TypeOK'
    BY <1>19 DEF EndNetwork, ControlOK, NetworksOK, QueuesOK
  <1>20. ASSUME NEW t \in Threads, ExecutePublish(t) PROVE TypeOK'
    <2>1. Front1(t).conn \in Conns /\ QueuesOK'
      BY <1>20, TakenTyped DEF ExecutePublish, Events, QueuesOK
    <2>2. PICK v \in {"closed", "published"}, b \in BOOLEAN :
             /\ conn' = [conn EXCEPT ![Front1(t).conn].session = v]
             /\ source' = IF b THEN None ELSE Front1(t).conn
      BY <1>20 DEF ExecutePublish
    <2>3. stray' \subseteq Conns /\ UNCHANGED <<control, networks, left>>
      BY <1>20 DEF ExecutePublish, Strays, SessionsOK
    <2>4. conn' \in [Conns -> Connections]
      BY <2>1, <2>2 DEF SessionsOK, Connections
    <2>5. SessionsOK'
      BY <2>1, <2>2, <2>3, <2>4 DEF SessionsOK
    <2>6. QED
      BY <2>1, <2>3, <2>5
  <1>21. ASSUME NEW t \in Threads, ExecuteClose(t) PROVE TypeOK'
    <2>1. Front1(t).conn \in Conns /\ QueuesOK'
      BY <1>21, TakenTyped DEF ExecuteClose, Events, QueuesOK
    <2>2. {Front1(t).conn} \in SUBSET Conns
      BY <2>1
    <2>3. SessionsOK'
      BY <1>21, <2>2, OnCloseTyped DEF ExecuteClose, SessionsOK
    <2>4. QED
      BY <1>21, <2>1, <2>3 DEF ExecuteClose
  <1>22. ASSUME NEW t \in Threads, ExecuteMedia(t) PROVE TypeOK'
    <2>1. QueuesOK'
      BY <1>22, TakenTyped DEF ExecuteMedia, QueuesOK
    <2>2. Unheld(box') \in SUBSET Conns
      BY DEF Unheld
    <2>3. SessionsOK'
      BY <1>22, <2>2, OnCloseTyped DEF ExecuteMedia, SessionsOK
    <2>4. QED
      BY <1>22, <2>1, <2>3 DEF ExecuteMedia
  <1>23. ASSUME NEW t \in Threads, Leave(t) PROVE TypeOK'
    <2>1. QueuesOK' /\ SessionsOK'
      BY <1>23 DEF Leave, QueuesOK, SessionsOK
    <2>2. QED
      BY <1>23, <2>1 DEF Leave
  <1>24. CASE UNCHANGED vars
    BY <1>24 DEF vars
  <1>25. QED
    BY <1>1, <1>2, <1>3, <1>4, <1>5, <1>6, <1>7, <1>8, <1>9, <1>10, <1>11,
       <1>12, <1>13, <1>14, <1>15, <1>16, <1>17, <1>18, <1>19, <1>20, <1>21,
       <1>22, <1>23, <1>24 DEF Next


-----------------------------------------------------------------------------
\* The slots, the objects and their threads.

\* One entry of LoadRTMPNetwork with its object named.
LEMMA LoadedObject ==
  ASSUME TypeOK, NetworkInv, LoadNetwork
  PROVE  \E n \in Nets :
            /\ pc = "load" /\ i \in 1..NumNetworks /\ j \in 1..NumNetworks
            /\ i' = i + 1 /\ pc' = pc
            /\ \/ slot' = [slot EXCEPT ![j] = n] /\ j' = j + 1
                  /\ life' = [life EXCEPT ![n] = "made"] /\ bound' = bound \cup {n}
               \/ slot' = [slot EXCEPT ![j] = None] /\ j' = j
                  /\ life' = [life EXCEPT ![n] = "deleted"] /\ bound' = bound
            /\ slot[j] # None => n = slot[j]
            /\ slot[j] = None => life[n] = "none" /\ Used \cup {n} = 1..n
                                 /\ n <= NumNetworks * (starts - 1) + i
                                 /\ n <= NumNetworks * starts
  <1>1. j \in 1..NumNetworks /\ Network(j) \in Nets
    BY NextObject DEF NetworkInv
  <1>2. /\ slot[j] # None => Network(j) = slot[j]
        /\ slot[j] = None => life[Network(j)] = "none"
                             /\ Used \cup {Network(j)} = 1..Network(j)
                             /\ Network(j) <= NumNetworks * (starts - 1) + i
                             /\ Network(j) <= NumNetworks * starts
    BY NextObject DEF NetworkInv
  <1>3. PICK n \in Nets : n = Network(j)
    BY <1>1
  <1>4. /\ pc = "load" /\ i \in 1..NumNetworks /\ i' = i + 1 /\ pc' = pc
    BY DEF LoadNetwork, TypeOK, ControlOK
  <1>5. \/ slot' = [slot EXCEPT ![j] = n] /\ j' = j + 1
           /\ life' = [life EXCEPT ![n] = "made"] /\ bound' = bound \cup {n}
        \/ slot' = [slot EXCEPT ![j] = None] /\ j' = j
           /\ life' = [life EXCEPT ![n] = "deleted"] /\ bound' = bound
    BY <1>3 DEF LoadNetwork
  <1>6. QED
    BY <1>1, <1>2, <1>3, <1>4, <1>5

LEMMA ObjectsMadeStep == TypeOK /\ NetworkInv /\ [Next]_vars => ObjectsMade'
  <1> SUFFICES ASSUME TypeOK, NetworkInv, [Next]_vars PROVE ObjectsMade'
    OBVIOUS
  <1>1. ASSUME Start PROVE ObjectsMade'
    <2>1. PICK k \in Nat : Used = 1..k /\ k <= NumNetworks * starts
      BY DEF NetworkInv, ObjectsMade
    <2>2. starts' = starts + 1 /\ i' = 1 /\ life' = life /\ starts \in Nat
      BY <1>1 DEF Start, TypeOK, ControlOK
    <2>3. /\ NumNetworks * starts <= NumNetworks * (starts + 1)
          /\ NumNetworks * starts \in Nat /\ NumNetworks * (starts + 1) \in Nat
      BY <2>2, ProductGrows
    <2>4. starts' - 1 = starts /\ i' - 1 = 0
      BY <2>2
    <2>5. Used' = 1..k
      BY <2>1, <2>2 DEF Used
    <2>6. k <= NumNetworks * (starts + 1) /\ k <= NumNetworks * starts + 0
      BY <2>1, <2>3
    <2>7. QED
      BY <2>2, <2>4, <2>5, <2>6 DEF ObjectsMade
  <1>2. ASSUME LoadNetwork PROVE ObjectsMade'
    <2>1. PICK n \in Nets :
             /\ pc = "load" /\ i \in 1..NumNetworks /\ j \in 1..NumNetworks
             /\ i' = i + 1
             /\ \/ life' = [life EXCEPT ![n] = "made"]
                \/ life' = [life EXCEPT ![n] = "deleted"]
             /\ slot[j] # None => n = slot[j]
             /\ slot[j] = None => life[n] = "none" /\ Used \cup {n} = 1..n
                                  /\ n <= NumNetworks * (starts - 1) + i
                                  /\ n <= NumNetworks * starts
      BY <1>2, LoadedObject
    <2>2. starts' = starts /\ i' - 1 = i
      BY <1>2, <2>1 DEF LoadNetwork
    <2>3. Used' = Used \cup {n}
      BY <2>1 DEF Used, TypeOK, NetworksOK
    <2>4. CASE slot[j] = None
      <3>1. n \in Nat
        BY NetsAreNumbers
      <3>2. QED
        BY <2>1, <2>2, <2>3, <2>4, <3>1 DEF ObjectsMade
    <2>5. CASE slot[j] # None
      <3>1. n \in Used
        BY <2>1, <2>5 DEF NetworkInv, SlotsOwn, Used
      <3>2. Used' = Used
        BY <2>3, <3>1
      <3>3. PICK k \in Nat : /\ Used = 1..k /\ k <= NumNetworks * starts
                             /\ k <= NumNetworks * (starts - 1) + (i - 1)
        BY <2>1 DEF NetworkInv, ObjectsMade
      <3>4. NumNetworks * (starts - 1) \in Int
        BY DEF TypeOK, ControlOK
      <3>5. k <= NumNetworks * (starts - 1) + i
        BY <2>1, <3>3, <3>4
      <3>6. QED
        BY <2>2, <3>2, <3>3, <3>5 DEF ObjectsMade
    <2>6. QED
      BY <2>4, <2>5
  <1>3. ASSUME StartNetworkEvent PROVE ObjectsMade'
    BY <1>3 DEF StartNetworkEvent, ObjectsMade, Used, NetworkInv
  <1>4. ASSUME StartNetwork PROVE ObjectsMade'
    BY <1>4 DEF StartNetwork, ObjectsMade, Used, NetworkInv
  <1>5. ASSUME Started PROVE ObjectsMade'
    BY <1>5 DEF Started, ObjectsMade, Used, NetworkInv
  <1>6. ASSUME Stop PROVE ObjectsMade'
    BY <1>6 DEF Stop, ObjectsMade, Used, NetworkInv
  <1>7. ASSUME ShutdownNetwork PROVE ObjectsMade'
    BY <1>7 DEF ShutdownNetwork, ObjectsMade, Used, NetworkInv
  <1>8. ASSUME JoinNetwork PROVE ObjectsMade'
    BY <1>8 DEF JoinNetwork, ObjectsMade, Used, NetworkInv
  <1>9. ASSUME ShutdownDataProcess PROVE ObjectsMade'
    BY <1>9 DEF ShutdownDataProcess, ObjectsMade, Used, NetworkInv
  <1>10. ASSUME ShutdownNetworkEvent PROVE ObjectsMade'
    BY <1>10 DEF ShutdownNetworkEvent, ObjectsMade, Used, NetworkInv
  <1>11. ASSUME Stopped PROVE ObjectsMade'
    BY <1>11 DEF Stopped, ObjectsMade, Used, NetworkInv
  <1>12. ASSUME CleanUpNetworks PROVE ObjectsMade'
    <2>1. Used' = Used
      BY <1>12 DEF CleanUpNetworks, Used, Slots, NetworkInv, SlotsOwn, TypeOK, NetworksOK
    <2>2. pc' # "load" /\ starts' = starts
      BY <1>12 DEF CleanUpNetworks
    <2>3. QED
      BY <2>1, <2>2 DEF ObjectsMade, NetworkInv
  <1>13. ASSUME CleanUpDataProcess PROVE ObjectsMade'
    BY <1>13 DEF CleanUpDataProcess, ObjectsMade, Used, NetworkInv
  <1>14. ASSUME CleanUpNetworkEvent PROVE ObjectsMade'
    BY <1>14 DEF CleanUpNetworkEvent, ObjectsMade, Used, NetworkInv
  <1>15. ASSUME NEW c \in Conns, NEW n \in Nets, NEW t \in EventThreads, Accept(c, n, t)
         PROVE  ObjectsMade'
    BY <1>15 DEF Accept, ObjectsMade, Used, NetworkInv
  <1>16. ASSUME NEW c \in Conns, AskPublish(c) PROVE ObjectsMade'
    BY <1>16 DEF AskPublish, ObjectsMade, Used, NetworkInv
  <1>17. ASSUME NEW c \in Conns, SendMedia(c) PROVE ObjectsMade'
    BY <1>17 DEF SendMedia, ObjectsMade, Used, NetworkInv
  <1>18. ASSUME NEW c \in Conns, Unlist(c) PROVE ObjectsMade'
    BY <1>18 DEF Unlist, ObjectsMade, Used, NetworkInv
  <1>19. ASSUME NEW n \in Nets, EndNetwork(n) PROVE ObjectsMade'
    BY <1>19 DEF EndNetwork, ObjectsMade, Used, NetworkInv
  <1>20. ASSUME NEW t \in Threads, ExecutePublish(t) PROVE ObjectsMade'
    BY <1>20 DEF ExecutePublish, ObjectsMade, Used, NetworkInv
  <1>21. ASSUME NEW t \in Threads, ExecuteClose(t) PROVE ObjectsMade'
    BY <1>21 DEF ExecuteClose, ObjectsMade, Used, NetworkInv
  <1>22. ASSUME NEW t \in Threads, ExecuteMedia(t) PROVE ObjectsMade'
    BY <1>22 DEF ExecuteMedia, ObjectsMade, Used, NetworkInv
  <1>23. ASSUME NEW t \in Threads, Leave(t) PROVE ObjectsMade'
    BY <1>23 DEF Leave, ObjectsMade, Used, NetworkInv
  <1>24. CASE UNCHANGED vars
    BY <1>24 DEF vars, ObjectsMade, Used, NetworkInv
  <1>25. QED
    BY <1>1, <1>2, <1>3, <1>4, <1>5, <1>6, <1>7, <1>8, <1>9, <1>10, <1>11,
       <1>12, <1>13, <1>14, <1>15, <1>16, <1>17, <1>18, <1>19, <1>20, <1>21,
       <1>22, <1>23, <1>24 DEF Next


LEMMA SlotsOwnStep == TypeOK /\ NetworkInv /\ [Next]_vars => SlotsOwn'
  <1> SUFFICES ASSUME TypeOK, NetworkInv, [Next]_vars PROVE SlotsOwn'
    OBVIOUS
  <1>1. ASSUME Start PROVE SlotsOwn'
    BY <1>1 DEF Start, SlotsOwn, NetworkInv
  <1>2. ASSUME LoadNetwork PROVE SlotsOwn'
    <2>1. PICK n \in Nets :
             /\ j \in 1..NumNetworks
             /\ \/ slot' = [slot EXCEPT ![j] = n] /\ life' = [life EXCEPT ![n] = "made"]
                \/ slot' = [slot EXCEPT ![j] = None] /\ life' = [life EXCEPT ![n] = "deleted"]
             /\ slot[j] # None => n = slot[j]
             /\ slot[j] = None => life[n] = "none"
      BY <1>2, LoadedObject
    <2>2. \A s \in 1..NumNetworks : s # j => slot[s] # n
      <3>1. n # None
        BY NetsAreNumbers
      <3>2. \A s \in 1..NumNetworks : slot[s] = n => life[n] = "made"
        BY <3>1 DEF NetworkInv, SlotsOwn
      <3>3. slot[j] = n => \A s \in 1..NumNetworks : slot[s] = n => s = j
        BY <2>1, <3>1 DEF NetworkInv, SlotsOwn
      <3>4. QED
        BY <2>1, <3>2, <3>3
    <2>3. QED
      BY SMTT(60), <2>1, <2>2, NetsAreNumbers DEF NetworkInv, SlotsOwn, TypeOK, NetworksOK
  <1>3. ASSUME StartNetworkEvent PROVE SlotsOwn'
    BY <1>3 DEF StartNetworkEvent, SlotsOwn, NetworkInv
  <1>4. ASSUME StartNetwork PROVE SlotsOwn'
    BY <1>4 DEF StartNetwork, SlotsOwn, NetworkInv
  <1>5. ASSUME Started PROVE SlotsOwn'
    BY <1>5 DEF Started, SlotsOwn, NetworkInv
  <1>6. ASSUME Stop PROVE SlotsOwn'
    BY <1>6 DEF Stop, SlotsOwn, NetworkInv
  <1>7. ASSUME ShutdownNetwork PROVE SlotsOwn'
    BY <1>7 DEF ShutdownNetwork, SlotsOwn, NetworkInv
  <1>8. ASSUME JoinNetwork PROVE SlotsOwn'
    BY <1>8 DEF JoinNetwork, SlotsOwn, NetworkInv
  <1>9. ASSUME ShutdownDataProcess PROVE SlotsOwn'
    BY <1>9 DEF ShutdownDataProcess, SlotsOwn, NetworkInv
  <1>10. ASSUME ShutdownNetworkEvent PROVE SlotsOwn'
    BY <1>10 DEF ShutdownNetworkEvent, SlotsOwn, NetworkInv
  <1>11. ASSUME Stopped PROVE SlotsOwn'
    BY <1>11 DEF Stopped, SlotsOwn, NetworkInv
  <1>12. ASSUME CleanUpNetworks PROVE SlotsOwn'
    <2>1. slot' = [s \in 1..NumNetworks |-> IF s \in Slots THEN None ELSE slot[s]]
          /\ life' = [n \in Nets |-> IF \E s \in Slots : slot[s] = n THEN "deleted" ELSE life[n]]
      BY <1>12 DEF CleanUpNetworks
    <2>2. \A s \in Slots : s \in 1..NumNetworks
      BY DEF Slots
    <2>3. QED
      BY <2>1, <2>2 DEF NetworkInv, SlotsOwn, TypeOK, NetworksOK
  <1>13. ASSUME CleanUpDataProcess PROVE SlotsOwn'
    BY <1>13 DEF CleanUpDataProcess, SlotsOwn, NetworkInv
  <1>14. ASSUME CleanUpNetworkEvent PROVE SlotsOwn'
    BY <1>14 DEF CleanUpNetworkEvent, SlotsOwn, NetworkInv
  <1>15. ASSUME NEW c \in Conns, NEW n \in Nets, NEW t \in EventThreads, Accept(c, n, t)
         PROVE  SlotsOwn'
    BY <1>15 DEF Accept, SlotsOwn, NetworkInv
  <1>16. ASSUME NEW c \in Conns, AskPublish(c) PROVE SlotsOwn'
    BY <1>16 DEF AskPublish, SlotsOwn, NetworkInv
  <1>17. ASSUME NEW c \in Conns, SendMedia(c) PROVE SlotsOwn'
    BY <1>17 DEF SendMedia, SlotsOwn, NetworkInv
  <1>18. ASSUME NEW c \in Conns, Unlist(c) PROVE SlotsOwn'
    BY <1>18 DEF Unlist, SlotsOwn, NetworkInv
  <1>19. ASSUME NEW n \in Nets, EndNetwork(n) PROVE SlotsOwn'
    BY <1>19 DEF EndNetwork, SlotsOwn, NetworkInv
  <1>20. ASSUME NEW t \in Threads, ExecutePublish(t) PROVE SlotsOwn'
    BY <1>20 DEF ExecutePublish, SlotsOwn, NetworkInv
  <1>21. ASSUME NEW t \in Threads, ExecuteClose(t) PROVE SlotsOwn'
    BY <1>21 DEF ExecuteClose, SlotsOwn, NetworkInv
  <1>22. ASSUME NEW t \in Threads, ExecuteMedia(t) PROVE SlotsOwn'
    BY <1>22 DEF ExecuteMedia, SlotsOwn, NetworkInv
  <1>23. ASSUME NEW t \in Threads, Leave(t) PROVE SlotsOwn'
    BY <1>23 DEF Leave, SlotsOwn, NetworkInv
  <1>24. CASE UNCHANGED vars
    BY <1>24 DEF vars, SlotsOwn, NetworkInv
  <1>25. QED
    BY <1>1, <1>2, <1>3, <1>4, <1>5, <1>6, <1>7, <1>8, <1>9, <1>10, <1>11,
       <1>12, <1>13, <1>14, <1>15, <1>16, <1>17, <1>18, <1>19, <1>20, <1>21,
       <1>22, <1>23, <1>24 DEF Next


LEMMA BoundInSlotsStep == TypeOK /\ NetworkInv /\ [Next]_vars => BoundInSlots'
  <1> SUFFICES ASSUME TypeOK, NetworkInv, [Next]_vars PROVE BoundInSlots'
    OBVIOUS
  <1>1. TypeOK /\ BoundInSlots
    BY DEF NetworkInv
  <1> USE <1>1 DEF TypeOK, ControlOK, Loading, BoundInSlots, Filled
  <1>2. ASSUME Start PROVE BoundInSlots'
    BY <1>2 DEF Start
  <1>3. ASSUME LoadNetwork PROVE BoundInSlots'
    <2>1. PICK n \in Nets :
             /\ pc = "load" /\ i \in 1..NumNetworks /\ j \in 1..NumNetworks
             /\ i' = i + 1 /\ pc' = pc
             /\ \/ slot' = [slot EXCEPT ![j] = n] /\ j' = j + 1 /\ bound' = bound \cup {n}
                \/ slot' = [slot EXCEPT ![j] = None] /\ j' = j /\ bound' = bound
      BY <1>3, LoadedObject
    <2>2. \A s \in 1..(j - 1) : slot'[s] = slot[s] /\ s \in 1..NumNetworks
      BY <2>1 DEF NetworksOK
    <2>3. CASE slot' = [slot EXCEPT ![j] = n] /\ j' = j + 1 /\ bound' = bound \cup {n}
      <3>1. slot'[j] = n /\ n # None
        BY <2>1, <2>3, NetsAreNumbers DEF NetworksOK
      <3>2. \A s \in 1..(j' - 1) : s \in 1..(j - 1) \/ s = j
        BY <2>1, <2>3
      <3>3. j \in 1..(j' - 1) /\ \A s \in 1..(j - 1) : s \in 1..(j' - 1)
        BY <2>1, <2>3
      <3>4. Filled(j - 1)' /\ \A m \in bound' : \E s \in 1..(j' - 1) : slot'[s] = m
        BY <2>1, <2>2, <2>3, <3>1, <3>2, <3>3
      <3>5. QED
        BY <2>1, <2>3, <3>4
    <2>4. CASE slot' = [slot EXCEPT ![j] = None] /\ j' = j /\ bound' = bound
      <3>1. slot'[j] = None
        BY <2>1, <2>4 DEF NetworksOK
      <3>2. Filled(j - 1)' /\ \A m \in bound' : \E s \in 1..(j' - 1) : slot'[s] = m
        BY <2>1, <2>2, <2>4
      <3>3. QED
        BY <2>1, <2>4, <3>1, <3>2
    <2>5. QED
      BY <2>1, <2>3, <2>4
  <1>4. ASSUME StartNetworkEvent PROVE BoundInSlots'
    BY <1>4 DEF StartNetworkEvent
  <1>5. ASSUME StartNetwork PROVE BoundInSlots'
    BY <1>5 DEF StartNetwork
  <1>6. ASSUME Started PROVE BoundInSlots'
    BY <1>6 DEF Started
  <1>7. ASSUME Stop PROVE BoundInSlots'
    BY <1>7 DEF Stop
  <1>8. ASSUME ShutdownNetwork PROVE BoundInSlots'
    BY <1>8 DEF ShutdownNetwork
  <1>9. ASSUME JoinNetwork PROVE BoundInSlots'
    BY <1>9 DEF JoinNetwork
  <1>10. ASSUME ShutdownDataProcess PROVE BoundInSlots'
    <2>1. pc = "stopNets" /\ pc' = "joinData" /\ bound' = bound /\ ~AtNetwork
      BY <1>10 DEF ShutdownDataProcess
    <2>2. bound = {}
      <3>1. SUFFICES ASSUME NEW n \in bound PROVE FALSE
        OBVIOUS
      <3>2. PICK s \in i..(j - 1) : slot[s] = n
        BY <2>1
      <3>3. i \in 1..(j - 1) /\ i <= NumNetworks
        BY <3>2
      <3>4. slot[i] # None
        BY <2>1, <3>3
      <3>5. QED
        BY <2>1, <3>3, <3>4 DEF AtNetwork
    <2>3. QED
      BY <2>1, <2>2
  <1>11. ASSUME ShutdownNetworkEvent PROVE BoundInSlots'
    BY <1>11 DEF ShutdownNetworkEvent
  <1>12. ASSUME Stopped PROVE BoundInSlots'
    BY <1>12 DEF Stopped
  <1>13. ASSUME CleanUpNetworks PROVE BoundInSlots'
    BY <1>13 DEF CleanUpNetworks
  <1>14. ASSUME CleanUpDataProcess PROVE BoundInSlots'
    BY <1>14 DEF CleanUpDataProcess
  <1>15. ASSUME CleanUpNetworkEvent PROVE BoundInSlots'
    BY <1>15 DEF CleanUpNetworkEvent
  <1>16. ASSUME NEW c \in Conns, NEW n \in Nets, NEW t \in EventThreads, Accept(c, n, t)
         PROVE  BoundInSlots'
    BY <1>16 DEF Accept
  <1>17. ASSUME NEW c \in Conns, AskPublish(c) PROVE BoundInSlots'
    BY <1>17 DEF AskPublish
  <1>18. ASSUME NEW c \in Conns, SendMedia(c) PROVE BoundInSlots'
    BY <1>18 DEF SendMedia
  <1>19. ASSUME NEW c \in Conns, Unlist(c) PROVE BoundInSlots'
    BY <1>19 DEF Unlist
  <1>20. ASSUME NEW n \in Nets, EndNetwork(n) PROVE BoundInSlots'
    BY <1>20 DEF EndNetwork
  <1>21. ASSUME NEW t \in Threads, ExecutePublish(t) PROVE BoundInSlots'
    BY <1>21 DEF ExecutePublish
  <1>22. ASSUME NEW t \in Threads, ExecuteClose(t) PROVE BoundInSlots'
    BY <1>22 DEF ExecuteClose
  <1>23. ASSUME NEW t \in Threads, ExecuteMedia(t) PROVE BoundInSlots'
    BY <1>23 DEF ExecuteMedia
  <1>24. ASSUME NEW t \in Threads, Leave(t) PROVE BoundInSlots'
    BY <1>24 DEF Leave
  <1>25. CASE UNCHANGED vars
    BY <1>25 DEF vars
  <1>26. QED
    BY <1>2, <1>3, <1>4, <1>5, <1>6, <1>7, <1>8, <1>9, <1>10, <1>11, <1>12,
       <1>13, <1>14, <1>15, <1>16, <1>17, <1>18, <1>19, <1>20, <1>21, <1>22,
       <1>23, <1>24, <1>25 DEF Next


LEMMA ThreadsInSlotsStep == TypeOK /\ NetworkInv /\ [Next]_vars => ThreadsInSlots'
  <1> SUFFICES ASSUME TypeOK, NetworkInv, [Next]_vars PROVE ThreadsInSlots'
    OBVIOUS
  <1>1. ControlOK /\ NetworksOK /\ ThreadsInSlots /\ SlotsOwn
    BY DEF NetworkInv, TypeOK
  <1> USE <1>1 DEF ControlOK, Loading, ThreadsInSlots, Filled
  <1>2. ASSUME Start PROVE ThreadsInSlots'
    BY <1>2 DEF Start
  <1>3. ASSUME LoadNetwork PROVE ThreadsInSlots'
    BY <1>3 DEF LoadNetwork
  <1>4. ASSUME StartNetworkEvent PROVE ThreadsInSlots'
    BY <1>4 DEF StartNetworkEvent
  <1>5. ASSUME StartNetwork PROVE ThreadsInSlots'
    <2>1. /\ pc = "startNets" /\ pc' = pc /\ slot' = slot /\ i' = i + 1
          /\ i \in 1..NumNetworks /\ slot[i] # None
          /\ netRun' = [netRun EXCEPT ![slot[i]] = "on"]
      BY <1>5 DEF StartNetwork, AtNetwork
    <2>2. slot[i] \in Nets /\ netRun'[slot[i]] = "on"
          /\ \A n \in Nets : n # slot[i] => netRun'[n] = netRun[n]
      BY <2>1 DEF NetworksOK
    <2>3. \A s \in 1..(i' - 1) : s \in 1..(i - 1) \/ s = i
      BY <2>1
    <2>4. i \in 1..(i' - 1) /\ \A s \in 1..(i - 1) : s \in 1..(i' - 1) /\ s \in 1..NumNetworks
      BY <2>1
    <2>5. Filled(i - 1)'
      BY <2>1, <2>3
    <2>6. \A s \in 1..(i - 1) : slot[s] \in Nets
      BY <2>1, <2>4 DEF NetworksOK
    <2>7. \A s \in 1..(i' - 1) : netRun'[slot'[s]] = "on"
      BY <2>1, <2>2, <2>3, <2>6
    <2>8. ASSUME NEW n \in Nets, netRun'[n] # "off"
          PROVE  netRun'[n] = "on" /\ \E s \in 1..(i' - 1) : slot'[s] = n
      <3>1. CASE n = slot[i]
        BY <2>1, <2>2, <2>4, <3>1
      <3>2. CASE n # slot[i]
        BY <2>1, <2>2, <2>4, <2>8, <3>2
      <3>3. QED
        BY <3>1, <3>2
    <2>9. QED
      BY <2>1, <2>5, <2>7, <2>8
  <1>6. ASSUME Started PROVE ThreadsInSlots'
    <2>1. /\ pc = "startNets" /\ pc' = "up" /\ ~AtNetwork
          /\ UNCHANGED <<slot, netRun, i>>
      BY <1>6 DEF Started
    <2>2. ASSUME NEW s \in 1..NumNetworks, Filled(s) PROVE netRun[slot[s]] = "on"
      <3>1. i > s
        <4>1. CASE i <= s
          <5>1. i \in 1..s /\ i <= NumNetworks
            BY <4>1
          <5>2. QED
            BY <2>1, <2>2, <5>1 DEF AtNetwork
        <4>2. QED
          BY <4>1
      <3>2. s \in 1..(i - 1)
        BY <3>1
      <3>3. QED
        BY <2>1, <3>2
    <2>3. ASSUME NEW n \in Nets, netRun[n] # "off"
          PROVE  \E s \in 1..NumNetworks : Filled(s) /\ slot[s] = n
      <3>1. PICK s \in 1..(i - 1) : slot[s] = n
        BY <2>1, <2>3
      <3>2. Filled(s) /\ s \in 1..NumNetworks
        BY <2>1
      <3>3. QED
        BY <3>1, <3>2
    <2>4. QED
      BY <2>1, <2>2, <2>3
  <1>7. ASSUME Stop PROVE ThreadsInSlots'
    BY <1>7 DEF Stop
  <1>8. ASSUME ShutdownNetwork PROVE ThreadsInSlots'
    <2>1. /\ pc = "stopNets" /\ pc' = "joinNet" /\ UNCHANGED <<slot, i>>
          /\ i \in 1..NumNetworks /\ slot[i] # None
          /\ netRun' = [netRun EXCEPT ![slot[i]] = "told"]
      BY <1>8 DEF ShutdownNetwork, AtNetwork
    <2>2. slot[i] \in Nets /\ \A n \in Nets : n # slot[i] => netRun'[n] = netRun[n]
      BY <2>1 DEF NetworksOK
    <2>3. Filled(i)
      <3>1. \A s \in 1..i : s \in 1..(i - 1) \/ s = i
        OBVIOUS
      <3>2. QED
        BY <2>1, <3>1
    <2>4. ASSUME NEW n \in Nets, netRun'[n] # "off"
          PROVE  \E s \in i..NumNetworks : Filled(s) /\ slot[s] = n
      <3>1. CASE n = slot[i]
        BY <2>1, <2>3, <3>1
      <3>2. CASE n # slot[i]
        BY <2>1, <2>2, <2>4, <3>2
      <3>3. QED
        BY <3>1, <3>2
    <2>5. QED
      BY <2>1, <2>4
  <1>9. ASSUME JoinNetwork PROVE ThreadsInSlots'
    BY <1>9 DEF JoinNetwork
  <1>10. ASSUME ShutdownDataProcess PROVE ThreadsInSlots'
    <2>1. /\ pc = "stopNets" /\ pc' = "joinData" /\ ~AtNetwork /\ netRun' = netRun
      BY <1>10 DEF ShutdownDataProcess
    <2>2. ASSUME NEW n \in Nets, netRun[n] # "off" PROVE FALSE
      <3>1. PICK s \in i..NumNetworks : Filled(s)
        BY <2>1, <2>2
      <3>2. i \in 1..s /\ i <= NumNetworks
        OBVIOUS
      <3>3. QED
        BY <2>1, <3>1, <3>2 DEF AtNetwork
    <2>3. QED
      BY <2>1, <2>2
  <1>11. ASSUME ShutdownNetworkEvent PROVE ThreadsInSlots'
    BY <1>11 DEF ShutdownNetworkEvent
  <1>12. ASSUME Stopped PROVE ThreadsInSlots'
    BY <1>12 DEF Stopped
  <1>13. ASSUME CleanUpNetworks PROVE ThreadsInSlots'
    BY <1>13 DEF CleanUpNetworks
  <1>14. ASSUME CleanUpDataProcess PROVE ThreadsInSlots'
    BY <1>14 DEF CleanUpDataProcess
  <1>15. ASSUME CleanUpNetworkEvent PROVE ThreadsInSlots'
    BY <1>15 DEF CleanUpNetworkEvent
  <1>16. ASSUME NEW c \in Conns, NEW n \in Nets, NEW t \in EventThreads, Accept(c, n, t)
         PROVE  ThreadsInSlots'
    BY <1>16 DEF Accept
  <1>17. ASSUME NEW c \in Conns, AskPublish(c) PROVE ThreadsInSlots'
    BY <1>17 DEF AskPublish
  <1>18. ASSUME NEW c \in Conns, SendMedia(c) PROVE ThreadsInSlots'
    BY <1>18 DEF SendMedia
  <1>19. ASSUME NEW c \in Conns, Unlist(c) PROVE ThreadsInSlots'
    BY <1>19 DEF Unlist
  <1>20. ASSUME NEW n \in Nets, EndNetwork(n) PROVE ThreadsInSlots'
    BY <1>20 DEF EndNetwork
  <1>21. ASSUME NEW t \in Threads, ExecutePublish(t) PROVE ThreadsInSlots'
    BY <1>21 DEF ExecutePublish
  <1>22. ASSUME NEW t \in Threads, ExecuteClose(t) PROVE ThreadsInSlots'
    BY <1>22 DEF ExecuteClose
  <1>23. ASSUME NEW t \in Threads, ExecuteMedia(t) PROVE ThreadsInSlots'
    BY <1>23 DEF ExecuteMedia
  <1>24. ASSUME NEW t \in Threads, Leave(t) PROVE ThreadsInSlots'
    BY <1>24 DEF Leave
  <1>25. CASE UNCHANGED vars
    BY <1>25 DEF vars
  <1>26. QED
    BY <1>2, <1>3, <1>4, <1>5, <1>6, <1>7, <1>8, <1>9, <1>10, <1>11, <1>12,
       <1>13, <1>14, <1>15, <1>16, <1>17, <1>18, <1>19, <1>20, <1>21, <1>22,
       <1>23, <1>24, <1>25 DEF Next


LEMMA QueuesFollowStep == TypeOK /\ NetworkInv /\ [Next]_vars => QueuesFollow'
  <1> SUFFICES ASSUME TypeOK, NetworkInv, [Next]_vars PROVE QueuesFollow'
    OBVIOUS
  <1>1. ControlOK /\ QueuesOK /\ QueuesFollow /\ BoundInSlots
    BY DEF NetworkInv, TypeOK
  <1> USE <1>1 DEF ControlOK, QueuesOK, Loading, QueuesFollow
  <1>2. ASSUME Start PROVE QueuesFollow'
    BY <1>2 DEF Start
  <1>3. ASSUME LoadNetwork PROVE QueuesFollow'
    BY <1>3 DEF LoadNetwork
  <1>4. ASSUME StartNetworkEvent PROVE QueuesFollow'
    BY <1>4 DEF StartNetworkEvent
  <1>5. ASSUME StartNetwork PROVE QueuesFollow'
    BY <1>5 DEF StartNetwork
  <1>6. ASSUME Started PROVE QueuesFollow'
    BY <1>6 DEF Started
  <1>7. ASSUME Stop PROVE QueuesFollow'
    BY <1>7 DEF Stop
  <1>8. ASSUME ShutdownNetwork PROVE QueuesFollow'
    BY <1>8 DEF ShutdownNetwork
  <1>9. ASSUME JoinNetwork PROVE QueuesFollow'
    BY <1>9 DEF JoinNetwork
  <1>10. ASSUME ShutdownDataProcess PROVE QueuesFollow'
    BY <1>10 DEF ShutdownDataProcess, Tell, AllOff
  <1>11. ASSUME ShutdownNetworkEvent PROVE QueuesFollow'
    BY <1>11 DEF ShutdownNetworkEvent, Tell, AllOff
  <1>12. ASSUME Stopped PROVE QueuesFollow'
    BY <1>12 DEF Stopped, Tell, AllOff
  <1>13. ASSUME CleanUpNetworks PROVE QueuesFollow'
    BY <1>13 DEF CleanUpNetworks
  <1>14. ASSUME CleanUpDataProcess PROVE QueuesFollow'
    BY <1>14 DEF CleanUpDataProcess, DeleteQueue
  <1>15. ASSUME CleanUpNetworkEvent PROVE QueuesFollow'
    BY <1>15 DEF CleanUpNetworkEvent, DeleteQueue
  <1>16. ASSUME NEW c \in Conns, NEW n \in Nets, NEW t \in EventThreads, Accept(c, n, t)
         PROVE  QueuesFollow'
    BY <1>16 DEF Accept
  <1>17. ASSUME NEW c \in Conns, AskPublish(c) PROVE QueuesFollow'
    BY <1>17 DEF AskPublish
  <1>18. ASSUME NEW c \in Conns, SendMedia(c) PROVE QueuesFollow'
    BY <1>18 DEF SendMedia
  <1>19. ASSUME NEW c \in Conns, Unlist(c) PROVE QueuesFollow'
    BY <1>19 DEF Unlist
  <1>20. ASSUME NEW n \in Nets, EndNetwork(n) PROVE QueuesFollow'
    BY <1>20 DEF EndNetwork
  <1>21. ASSUME NEW t \in Threads, ExecutePublish(t) PROVE QueuesFollow'
    BY <1>21 DEF ExecutePublish, Taken
  <1>22. ASSUME NEW t \in Threads, ExecuteClose(t) PROVE QueuesFollow'
    BY <1>22 DEF ExecuteClose, Taken
  <1>23. ASSUME NEW t \in Threads, ExecuteMedia(t) PROVE QueuesFollow'
    BY <1>23 DEF ExecuteMedia, Taken
  <1>24. ASSUME NEW t \in Threads, Leave(t) PROVE QueuesFollow'
    BY <1>24 DEF Leave
  <1>25. CASE UNCHANGED vars
    BY <1>25 DEF vars
  <1>26. QED
    BY <1>2, <1>3, <1>4, <1>5, <1>6, <1>7, <1>8, <1>9, <1>10, <1>11, <1>12,
       <1>13, <1>14, <1>15, <1>16, <1>17, <1>18, <1>19, <1>20, <1>21, <1>22,
       <1>23, <1>24, <1>25 DEF Next


\* The networks' part does not depend on what the sessions do.
LEMMA NetworkInvStep == TypeOK /\ NetworkInv /\ [Next]_vars => NetworkInv'
  BY ObjectsMadeStep, SlotsOwnStep, BoundInSlotsStep, ThreadsInSlotsStep, QueuesFollowStep
     DEF NetworkInv

LEMMA InitNetworkInv == Init => NetworkInv
  <1> SUFFICES ASSUME Init PROVE NetworkInv
    OBVIOUS
  <1>1. ObjectsMade
    <2>1. Used = 1..0
      BY DEF Init, Used
    <2>2. 0 <= NumNetworks * starts /\ pc # "load"
      BY DEF Init
    <2>3. QED
      BY <2>1, <2>2 DEF ObjectsMade
  <1>2. QED
    BY <1>1 DEF Init, NetworkInv, SlotsOwn, BoundInSlots, ThreadsInSlots, QueuesFollow, Loading

\* What is bound was made and not deleted.
LEMMA BoundIsMade ==
  ASSUME TypeOK, NetworkInv, NEW n \in bound
  PROVE  life[n] = "made"
  <1>1. PICK s \in 1..(j - 1) : slot[s] = n
    BY DEF NetworkInv, BoundInSlots
  <1>2. s \in 1..NumNetworks /\ slot[s] # None
    BY <1>1, NetsAreNumbers DEF TypeOK, ControlOK, NetworksOK
  <1>3. QED
    BY <1>1, <1>2 DEF NetworkInv, SlotsOwn

\* While a network runs, every thread of the event queue does.
LEMMA EventThreadsRun ==
  ASSUME TypeOK, NetworkInv, NEW n \in Nets, netRun[n] # "off"
  PROVE  /\ pc \in {"startNets", "up", "stopNets", "joinNet"}
         /\ \A t \in EventThreads : run[t] = "on"
  <1>1. pc \in Loading \ {"load"}
    BY DEF NetworkInv, ThreadsInSlots
  <1>2. slot[1] # None
    <2>1. CASE pc = "startNets"
      <3>1. PICK s \in 1..(i - 1) : slot[s] = n
        BY <2>1 DEF NetworkInv, ThreadsInSlots
      <3>2. 1 \in 1..(i - 1)
        BY <3>1 DEF TypeOK, ControlOK
      <3>3. QED
        BY <2>1, <3>2 DEF NetworkInv, ThreadsInSlots, Filled
    <2>2. CASE pc = "up"
      <3>1. PICK s \in 1..NumNetworks : Filled(s)
        BY <2>2 DEF NetworkInv, ThreadsInSlots
      <3>2. QED
        BY <3>1 DEF Filled
    <2>3. CASE pc \in {"stopNets", "joinNet"}
      <3>1. PICK s \in i..NumNetworks : Filled(s)
        BY <2>3 DEF NetworkInv, ThreadsInSlots
      <3>2. 1 \in 1..s
        BY DEF TypeOK, ControlOK
      <3>3. QED
        BY <3>1, <3>2 DEF Filled
    <2>4. QED
      BY <1>1, <2>1, <2>2, <2>3 DEF Loading
  <1>3. j > 1
    BY <1>1, <1>2 DEF NetworkInv, BoundInSlots, TypeOK, ControlOK
  <1>4. QED
    BY <1>1, <1>3 DEF NetworkInv, QueuesFollow, Loading

LEMMA ServedThreadRuns ==
  ASSUME TypeOK, NetworkInv, ListedIsServed, NEW c \in Conns, Served(c)
  PROVE  /\ conn[c].thread \in EventThreads /\ run[conn[c].thread] = "on"
         /\ conn[c].listed /\ conn[c].net \in Nets
         /\ pc \in {"startNets", "up", "stopNets", "joinNet"}
  <1>1. conn[c].listed /\ netRun[conn[c].net] # "off"
    BY DEF Served
  <1>2. conn[c].net \in Nets /\ conn[c].thread \in EventThreads
    BY <1>1 DEF ListedIsServed, TypeOK, SessionsOK, Connections
  <1>3. QED
    BY <1>1, <1>2, EventThreadsRun

-----------------------------------------------------------------------------
\* What the steps do to the places in the queues.

LEMMA PostedPlaces ==
  ASSUME QueuesOK, NEW t \in Threads, NEW e \in Events, box' = Posted(t, e)
  PROVE  /\ \A u \in Threads : \A k \in 1..Len(box'[u]) :
                \/ k \in 1..Len(box[u]) /\ box'[u][k] = box[u][k]
                \/ u = t /\ k = Len(box[t]) + 1 /\ box'[u][k] = e
         /\ \A u \in Threads : \A k \in 1..Len(box[u]) :
                k \in 1..Len(box'[u]) /\ box'[u][k] = box[u][k]
         /\ Takes(t) => /\ Len(box[t]) + 1 \in 1..Len(box'[t])
                        /\ box'[t][Len(box[t]) + 1] = e
  <1>1. CASE ~Takes(t)
    BY <1>1 DEF Posted
  <1>2. CASE Takes(t)
    <2>1. box[t] \in Seq(Events) /\ Len(box[t]) \in Nat
      BY LenProperties DEF QueuesOK
    <2>2. /\ box'[t] = Append(box[t], e)
          /\ \A u \in Threads : u # t => box'[u] = box[u]
      BY <1>2 DEF Posted, QueuesOK
    <2>3. /\ Len(Append(box[t], e)) = Len(box[t]) + 1
          /\ \A k \in 1..Len(box[t]) : Append(box[t], e)[k] = box[t][k]
          /\ Append(box[t], e)[Len(box[t]) + 1] = e
      BY <2>1, AppendProperties
    <2>4. PICK m \in Nat : m = Len(box[t])
      BY <2>1
    <2>5. \A k \in 1..Len(box'[t]) : k \in 1..m \/ k = m + 1
      BY <2>2, <2>3, <2>4
    <2>6. \A k \in 1..m : k \in 1..Len(box'[t])
      BY <2>2, <2>3, <2>4
    <2>7. m + 1 \in 1..Len(box'[t])
      BY <2>2, <2>3, <2>4
    <2>8. QED
      BY <2>2, <2>3, <2>4, <2>5, <2>6, <2>7
  <1>3. QED
    BY <1>1, <1>2

LEMMA TakenPlaces ==
  ASSUME QueuesOK, NEW t \in Threads, Taken(t)
  PROVE  /\ \A u \in Threads : u # t => box'[u] = box[u]
         /\ \A k \in 1..Len(box'[t]) : k + 1 \in 1..Len(box[t]) /\ box'[t][k] = box[t][k + 1]
         /\ 1 \in 1..Len(box[t]) /\ box[t][1] = Front1(t)
         /\ \A k \in 1..Len(box[t]) :
                k # 1 => k - 1 \in 1..Len(box'[t]) /\ box'[t][k - 1] = box[t][k]
         /\ Front1(t) \in Events /\ run[t] \in {"on", "told"}
         /\ \A u \in Threads : /\ run'[u] = "off" <=> run[u] = "off"
                               /\ u # t => run'[u] = run[u]
  <1>1. /\ box[t] \in Seq(Events) /\ box[t] # <<>> /\ Head(box[t]) \in Events
        /\ Front1(t) = Head(box[t]) /\ box' = [box EXCEPT ![t] = Tail(box[t])]
    BY TakenTyped
  <1>2. box'[t] = Tail(box[t]) /\ \A u \in Threads : u # t => box'[u] = box[u]
    BY <1>1 DEF QueuesOK
  <1>3. /\ Len(box[t]) \in Nat /\ Len(box[t]) # 0 /\ Head(box[t]) = box[t][1]
        /\ Len(Tail(box[t])) = Len(box[t]) - 1
        /\ \A k \in 1..Len(Tail(box[t])) : Tail(box[t])[k] = box[t][k + 1]
    BY <1>1, HeadTailProperties, LenProperties, EmptySeq
  <1>4. PICK m \in Nat : m = Len(box[t]) /\ m # 0
    BY <1>3
  <1>5. Len(box'[t]) = m - 1
    BY <1>2, <1>3, <1>4
  <1>6. \A k \in 1..Len(box'[t]) : k + 1 \in 1..m /\ box'[t][k] = box[t][k + 1]
    BY <1>2, <1>3, <1>4, <1>5
  <1>7. \A k \in 1..m : k # 1 => k - 1 \in 1..Len(box'[t]) /\ (k - 1) + 1 = k
    BY <1>5
  <1>8. \A k \in 1..m : k # 1 => box'[t][k - 1] = box[t][k]
    BY <1>6, <1>7
  <1>9. /\ run[t] \in {"on", "told"}
        /\ \A u \in Threads : /\ run'[u] = "off" <=> run[u] = "off"
                              /\ u # t => run'[u] = run[u]
    <2>1. run[t] \in {"on", "told"} /\ run' \in {run, [run EXCEPT ![t] = "last"]}
      BY DEF Taken
    <2>2. run \in [Threads -> {"off", "on", "told", "last"}]
      BY DEF QueuesOK
    <2>3. CASE run' = [run EXCEPT ![t] = "last"]
      <3>1. run'[t] = "last" /\ \A u \in Threads : u # t => run'[u] = run[u]
        BY <2>2, <2>3
      <3>2. ASSUME NEW u \in Threads
            PROVE  (run'[u] = "off" <=> run[u] = "off") /\ (u # t => run'[u] = run[u])
        <4>1. CASE u = t
          <5>1. run'[u] # "off" /\ run[u] # "off"
            BY <2>1, <3>1, <4>1
          <5>2. QED
            BY <4>1, <5>1
        <4>2. CASE u # t
          BY <3>1, <4>2
        <4>3. QED
          BY <4>1, <4>2
      <3>3. QED
        BY <2>1, <3>2
    <2>4. CASE run' = run
      BY <2>1, <2>4
    <2>5. QED
      BY <2>1, <2>3, <2>4
  <1>10. 1 \in 1..m
    BY <1>4
  <1>11. QED
    BY <1>1, <1>2, <1>3, <1>4, <1>6, <1>7, <1>8, <1>9, <1>10

LEMMA HoldsPlace ==
  ASSUME NEW b \in [Threads -> Seq(Events)], NEW c \in Conns
  PROVE  Holds(b, c) <=> \E t \in Threads : \E k \in 1..Len(b[t]) : b[t][k].conn = c
  <1>1. \A t \in Threads : DOMAIN b[t] = 1..Len(b[t])
    BY LenProperties
  <1>2. QED
    BY <1>1 DEF Holds, ToSet

\* OnClose, field by field.
LEMMA OnCloseFields ==
  ASSUME SessionsOK, NEW C \in SUBSET Conns, OnClose(C)
  PROVE  /\ \A c \in Conns :
               /\ conn'[c].net = conn[c].net /\ conn'[c].thread = conn[c].thread
               /\ conn'[c].listed = conn[c].listed
               /\ conn'[c].session = IF c \in C THEN "closed" ELSE conn[c].session
         /\ source' = IF source \in C /\ conn[source].session # "closed" THEN None ELSE source
         /\ stray' = stray \cup Strays({c \in C : conn[c].session # "closed"})
  <1> DEFINE open == {c \in C : conn[c].session # "closed"}
  <1>1. /\ conn' = Ended(open) /\ stray' = stray \cup Strays(open)
        /\ source' = IF source \in open THEN None ELSE source
    BY DEF OnClose
  <1>2. \A c \in Conns :
            conn'[c] = IF c \in open THEN [conn[c] EXCEPT !.session = "closed"] ELSE conn[c]
    BY <1>1 DEF Ended
  <1>3. ASSUME NEW c \in Conns
        PROVE  /\ conn'[c].net = conn[c].net /\ conn'[c].thread = conn[c].thread
               /\ conn'[c].listed = conn[c].listed
               /\ conn'[c].session = IF c \in C THEN "closed" ELSE conn[c].session
    <2>1. conn[c] \in Connections
      BY DEF SessionsOK
    <2>2. CASE c \in open
      BY <1>2, <2>1, <2>2 DEF Connections
    <2>3. CASE c \notin open
      BY <1>2, <2>1, <2>3
    <2>4. QED
      BY <2>2, <2>3
  <1>4. QED
    BY <1>1, <1>3


-----------------------------------------------------------------------------
\* The sessions and their events.

LEMMA ListedIsServedStep ==
  TypeOK /\ NetworkInv /\ SessionInv /\ [Next]_vars => ListedIsServed'
  <1> SUFFICES ASSUME TypeOK, NetworkInv, SessionInv, [Next]_vars PROVE ListedIsServed'
    OBVIOUS
  <1>1. NetworksOK /\ QueuesOK /\ SessionsOK /\ ListedIsServed
    BY DEF TypeOK, SessionInv
  <1> USE <1>1 DEF NetworksOK, ListedIsServed
  <1>2. ASSUME Start PROVE ListedIsServed'
    BY <1>2 DEF Start
  <1>3. ASSUME LoadNetwork PROVE ListedIsServed'
    BY <1>3 DEF LoadNetwork
  <1>4. ASSUME StartNetworkEvent PROVE ListedIsServed'
    BY <1>4 DEF StartNetworkEvent
  <1>5. ASSUME StartNetwork PROVE ListedIsServed'
    <2>1. slot[i] \in Nets
      BY <1>5 DEF StartNetwork, AtNetwork, TypeOK, ControlOK
    <2>2. QED
      BY <1>5, <2>1 DEF StartNetwork, SessionsOK, Connections
  <1>6. ASSUME Started PROVE ListedIsServed'
    BY <1>6 DEF Started
  <1>7. ASSUME Stop PROVE ListedIsServed'
    BY <1>7 DEF Stop
  <1>8. ASSUME ShutdownNetwork PROVE ListedIsServed'
    <2>1. slot[i] \in Nets
      BY <1>8 DEF ShutdownNetwork, AtNetwork, TypeOK, ControlOK
    <2>2. QED
      BY <1>8, <2>1 DEF ShutdownNetwork, SessionsOK, Connections
  <1>9. ASSUME JoinNetwork PROVE ListedIsServed'
    BY <1>9 DEF JoinNetwork
  <1>10. ASSUME ShutdownDataProcess PROVE ListedIsServed'
    BY <1>10 DEF ShutdownDataProcess
  <1>11. ASSUME ShutdownNetworkEvent PROVE ListedIsServed'
    BY <1>11 DEF ShutdownNetworkEvent
  <1>12. ASSUME Stopped PROVE ListedIsServed'
    BY <1>12 DEF Stopped
  <1>13. ASSUME CleanUpNetworks PROVE ListedIsServed'
    BY <1>13 DEF CleanUpNetworks
  <1>14. ASSUME CleanUpDataProcess PROVE ListedIsServed'
    <2>1. Unheld(box') \in SUBSET Conns /\ OnClose(Unheld(box')) /\ netRun' = netRun
      BY <1>14 DEF CleanUpDataProcess, DeleteQueue, Unheld
    <2>2. QED
      BY <2>1, OnCloseFields
  <1>15. ASSUME CleanUpNetworkEvent PROVE ListedIsServed'
    <2>1. Unheld(box') \in SUBSET Conns /\ OnClose(Unheld(box')) /\ netRun' = netRun
      BY <1>15 DEF CleanUpNetworkEvent, DeleteQueue, Unheld
    <2>2. QED
      BY <2>1, OnCloseFields
  <1>16. ASSUME NEW c \in Conns, NEW n \in Nets, NEW t \in EventThreads, Accept(c, n, t)
         PROVE  ListedIsServed'
    BY <1>16, NetsAreNumbers DEF Accept, SessionsOK
  <1>17. ASSUME NEW c \in Conns, AskPublish(c) PROVE ListedIsServed'
    BY <1>17 DEF AskPublish, SessionsOK, Connections
  <1>18. ASSUME NEW c \in Conns, SendMedia(c) PROVE ListedIsServed'
    BY <1>18 DEF SendMedia, SessionsOK, Connections
  <1>19. ASSUME NEW c \in Conns, Unlist(c) PROVE ListedIsServed'
    <2>1. PICK b \in BOOLEAN :
             conn' = [conn EXCEPT ![c].listed = FALSE,
                                  ![c].session = IF b THEN "closed" ELSE @]
      BY <1>19 DEF Unlist
    <2>2. netRun' = netRun
      BY <1>19 DEF Unlist
    <2>3. QED
      BY <2>1, <2>2 DEF SessionsOK, Connections
  <1>20. ASSUME NEW n \in Nets, EndNetwork(n) PROVE ListedIsServed'
    BY <1>20 DEF EndNetwork, SessionsOK, Connections
  <1>21. ASSUME NEW t \in Threads, ExecutePublish(t) PROVE ListedIsServed'
    <2>1. Front1(t).conn \in Conns
      BY <1>21, TakenTyped DEF ExecutePublish, Events
    <2>2. PICK v \in {"closed", "published"} :
             conn' = [conn EXCEPT ![Front1(t).conn].session = v]
      BY <1>21 DEF ExecutePublish
    <2>3. netRun' = netRun
      BY <1>21 DEF ExecutePublish
    <2>4. QED
      BY <2>1, <2>2, <2>3 DEF SessionsOK, Connections
  <1>22. ASSUME NEW t \in Threads, ExecuteClose(t) PROVE ListedIsServed'
    <2>1. Front1(t).conn \in Conns
      BY <1>22, TakenTyped DEF ExecuteClose, Events
    <2>2. {Front1(t).conn} \in SUBSET Conns /\ OnClose({Front1(t).conn}) /\ netRun' = netRun
      BY <1>22, <2>1 DEF ExecuteClose
    <2>3. QED
      BY <2>2, OnCloseFields
  <1>23. ASSUME NEW t \in Threads, ExecuteMedia(t) PROVE ListedIsServed'
    <2>1. Unheld(box') \in SUBSET Conns /\ OnClose(Unheld(box')) /\ netRun' = netRun
      BY <1>23 DEF ExecuteMedia, Unheld
    <2>2. QED
      BY <2>1, OnCloseFields
  <1>24. ASSUME NEW t \in Threads, Leave(t) PROVE ListedIsServed'
    BY <1>24 DEF Leave
  <1>25. CASE UNCHANGED vars
    BY <1>25 DEF vars
  <1>26. QED
    BY <1>2, <1>3, <1>4, <1>5, <1>6, <1>7, <1>8, <1>9, <1>10, <1>11, <1>12,
       <1>13, <1>14, <1>15, <1>16, <1>17, <1>18, <1>19, <1>20, <1>21, <1>22,
       <1>23, <1>24, <1>25 DEF Next


\* The connection of an event that waits, as QueuedInOrder gives it.
LEMMA QueuedFacts ==
  ASSUME QueuesOK, QueuedInOrder, NEW t \in Threads, NEW k \in 1..Len(box[t])
  PROVE  /\ box[t][k] \in Events /\ box[t][k].conn \in Conns
         /\ box[t][k] = Event(box[t][k].kind, box[t][k].conn)
         /\ conn[box[t][k].conn].net # None
         /\ box[t][k].kind = "publish" =>
              /\ t = conn[box[t][k].conn].thread /\ conn[box[t][k].conn].session = "asked"
              /\ \A l \in 1..Len(box[t]) : box[t][l] = Event("publish", box[t][k].conn) => l = k
              /\ \A l \in 1..Len(box[t]) : box[t][l] = Event("close", box[t][k].conn) => k < l
         /\ box[t][k].kind = "close" =>
              t = conn[box[t][k].conn].thread /\ ~conn[box[t][k].conn].listed
  <1>1. box[t] \in Seq(Events)
    BY DEF QueuesOK
  <1>2. box[t][k] \in Events
    BY <1>1, ElementOfSeq
  <1>3. QED
    BY <1>2 DEF QueuedInOrder, Events, Event

\* QueuedInOrder, one place at a time.
LEMMA QueuedInOrderIf ==
  ASSUME \A t \in Threads : \A k \in 1..Len(box'[t]) :
            /\ conn'[box'[t][k].conn].net # None
            /\ box'[t][k].kind = "publish" =>
                 /\ t = conn'[box'[t][k].conn].thread /\ conn'[box'[t][k].conn].session = "asked"
                 /\ \A l \in 1..Len(box'[t]) :
                        box'[t][l] = Event("publish", box'[t][k].conn) => l = k
                 /\ \A l \in 1..Len(box'[t]) :
                        box'[t][l] = Event("close", box'[t][k].conn) => k < l
            /\ box'[t][k].kind = "close" =>
                 t = conn'[box'[t][k].conn].thread /\ ~conn'[box'[t][k].conn].listed
  PROVE  QueuedInOrder'
  BY DEF QueuedInOrder, Event

\* The order survives when the head of one queue is taken away ...
LEMMA OrderAfterTake ==
  ASSUME QueuesOK, QueuedInOrder, NEW t \in Threads, Taken(t),
         \A c \in Conns : /\ conn'[c].net = conn[c].net /\ conn'[c].thread = conn[c].thread
                          /\ conn'[c].listed = conn[c].listed,
         \A u \in Threads : \A k \in 1..Len(box'[u]) :
            box'[u][k].kind = "publish" =>
              conn'[box'[u][k].conn].session = conn[box'[u][k].conn].session
  PROVE  QueuedInOrder'
  <1> DEFINE Was(u, k) == IF u = t THEN k + 1 ELSE k
  <1>1. \A u \in Threads : \A k \in 1..Len(box'[u]) :
           /\ Was(u, k) \in 1..Len(box[u]) /\ box'[u][k] = box[u][Was(u, k)]
           /\ \A l \in 1..Len(box'[u]) : /\ Was(u, k) = Was(u, l) => k = l
                                         /\ Was(u, k) < Was(u, l) => k < l
    <2>1. SUFFICES ASSUME NEW u \in Threads, NEW k \in 1..Len(box'[u])
          PROVE  /\ Was(u, k) \in 1..Len(box[u]) /\ box'[u][k] = box[u][Was(u, k)]
                 /\ \A l \in 1..Len(box'[u]) : /\ Was(u, k) = Was(u, l) => k = l
                                               /\ Was(u, k) < Was(u, l) => k < l
      OBVIOUS
    <2>2. CASE u = t
      BY <2>2, TakenPlaces
    <2>3. CASE u # t
      BY <2>3, TakenPlaces
    <2>4. QED
      BY <2>2, <2>3
  <1> HIDE DEF Was
  <1>2. ASSUME NEW u \in Threads, NEW k \in 1..Len(box'[u])
        PROVE  /\ conn'[box'[u][k].conn].net # None
               /\ box'[u][k].kind = "publish" =>
                    /\ u = conn'[box'[u][k].conn].thread
                    /\ conn'[box'[u][k].conn].session = "asked"
                    /\ \A l \in 1..Len(box'[u]) :
                           box'[u][l] = Event("publish", box'[u][k].conn) => l = k
                    /\ \A l \in 1..Len(box'[u]) :
                           box'[u][l] = Event("close", box'[u][k].conn) => k < l
               /\ box'[u][k].kind = "close" =>
                    u = conn'[box'[u][k].conn].thread /\ ~conn'[box'[u][k].conn].listed
    <2>1. PICK m \in 1..Len(box[u]) : m = Was(u, k) /\ box'[u][k] = box[u][m]
      BY <1>1
    <2>2. PICK c \in Conns : c = box'[u][k].conn
      BY <2>1, QueuedFacts
    <2>3. /\ conn[c].net # None
          /\ box'[u][k].kind = "publish" =>
               /\ u = conn[c].thread /\ conn[c].session = "asked"
               /\ \A l \in 1..Len(box[u]) : box[u][l] = Event("publish", c) => l = m
               /\ \A l \in 1..Len(box[u]) : box[u][l] = Event("close", c) => m < l
          /\ box'[u][k].kind = "close" => u = conn[c].thread /\ ~conn[c].listed
      BY <2>1, <2>2, QueuedFacts
    <2>4. ASSUME box'[u][k].kind = "publish", NEW l \in 1..Len(box'[u])
          PROVE  /\ box'[u][l] = Event("publish", c) => l = k
                 /\ box'[u][l] = Event("close", c) => k < l
      <3>1. Was(u, l) \in 1..Len(box[u]) /\ box'[u][l] = box[u][Was(u, l)]
        BY <1>1
      <3>2. box'[u][l] = Event("publish", c) => Was(u, l) = m
        BY <2>3, <2>4, <3>1
      <3>3. box'[u][l] = Event("close", c) => m < Was(u, l)
        BY <2>3, <2>4, <3>1
      <3>4. /\ Was(u, k) = Was(u, l) => k = l
            /\ Was(u, k) < Was(u, l) => k < l
        BY <1>1
      <3>5. QED
        BY <2>1, <3>2, <3>3, <3>4
    <2>5. QED
      BY <2>2, <2>3, <2>4
  <1>3. QED
    BY <1>2, QueuedInOrderIf


\* ... when one is added behind the others ...
LEMMA OrderAfterPost ==
  ASSUME QueuesOK, QueuedInOrder, NEW t \in Threads, NEW e \in Events, box' = Posted(t, e),
         \A u \in Threads : \A k \in 1..Len(box[u]) :
            /\ conn'[box[u][k].conn].net = conn[box[u][k].conn].net
            /\ conn'[box[u][k].conn].thread = conn[box[u][k].conn].thread
            /\ conn[box[u][k].conn].listed = FALSE => conn'[box[u][k].conn].listed = FALSE
            /\ box[u][k].kind = "publish" =>
                 conn'[box[u][k].conn].session = conn[box[u][k].conn].session,
         conn'[e.conn].net # None,
         \/ e.kind = "media"
         \/ /\ e.kind = "publish" /\ t = conn'[e.conn].thread /\ conn'[e.conn].session = "asked"
            /\ \A k \in 1..Len(box[t]) : box[t][k] \notin {e, Event("close", e.conn)}
         \/ e.kind = "close" /\ t = conn'[e.conn].thread /\ ~conn'[e.conn].listed
  PROVE  QueuedInOrder'
  <1> USE DEF QueuesOK
  <1>1. PICK m \in Nat : m = Len(box[t])
    BY LenProperties
  <1>2. \A u \in Threads : \A k \in 1..Len(box'[u]) :
           \/ k \in 1..Len(box[u]) /\ box'[u][k] = box[u][k]
           \/ u = t /\ k = m + 1 /\ box'[u][k] = e
    BY <1>1, PostedPlaces
  <1>3. e.kind \in {"publish", "media", "close"} /\ e.conn \in Conns
        /\ e = Event(e.kind, e.conn)
    BY DEF Events, Event
  <1>4. ASSUME NEW u \in Threads, NEW k \in 1..Len(box'[u])
        PROVE  /\ conn'[box'[u][k].conn].net # None
               /\ box'[u][k].kind = "publish" =>
                    /\ u = conn'[box'[u][k].conn].thread
                    /\ conn'[box'[u][k].conn].session = "asked"
                    /\ \A l \in 1..Len(box'[u]) :
                           box'[u][l] = Event("publish", box'[u][k].conn) => l = k
                    /\ \A l \in 1..Len(box'[u]) :
                           box'[u][l] = Event("close", box'[u][k].conn) => k < l
               /\ box'[u][k].kind = "close" =>
                    u = conn'[box'[u][k].conn].thread /\ ~conn'[box'[u][k].conn].listed
    <2>1. CASE k \in 1..Len(box[u]) /\ box'[u][k] = box[u][k]
      <3>1. PICK c \in Conns : c = box[u][k].conn
        BY <2>1, QueuedFacts
      <3>2. /\ conn[c].net # None
            /\ box[u][k] = Event(box[u][k].kind, c)
            /\ box[u][k].kind = "publish" =>
                 /\ u = conn[c].thread /\ conn[c].session = "asked"
                 /\ \A l \in 1..Len(box[u]) : box[u][l] = Event("publish", c) => l = k
                 /\ \A l \in 1..Len(box[u]) : box[u][l] = Event("close", c) => k < l
            /\ box[u][k].kind = "close" => u = conn[c].thread /\ ~conn[c].listed
        BY <2>1, <3>1, QueuedFacts
      <3>3. /\ conn'[c].net = conn[c].net /\ conn'[c].thread = conn[c].thread
            /\ conn[c].listed = FALSE => conn'[c].listed = FALSE
            /\ box[u][k].kind = "publish" => conn'[c].session = conn[c].session
        BY <2>1, <3>1
      <3>4. ASSUME box[u][k].kind = "publish", NEW l \in 1..Len(box'[u])
            PROVE  /\ box'[u][l] = Event("publish", c) => l = k
                   /\ box'[u][l] = Event("close", c) => k < l
        <4>1. CASE l \in 1..Len(box[u]) /\ box'[u][l] = box[u][l]
          BY <3>2, <3>4, <4>1
        <4>2. CASE u = t /\ l = m + 1 /\ box'[u][l] = e
          <5>1. k < m + 1
            BY <1>1, <2>1, <4>2
          <5>2. e # Event("publish", c)
            <6>1. CASE e = Event("publish", c)
              <7>1. e.kind = "publish" /\ box[t][k] = e /\ k \in 1..Len(box[t])
                BY <2>1, <3>2, <3>4, <4>2, <6>1 DEF Event
              <7>2. QED
                BY <7>1
            <6>2. QED
              BY <6>1
          <5>3. QED
            BY <4>2, <5>1, <5>2
        <4>3. QED
          BY <1>2, <4>1, <4>2
      <3>5. box'[u][k].kind = box[u][k].kind /\ box'[u][k].conn = c
        BY <2>1, <3>1
      <3>6. conn'[c].net # None
        BY <3>2, <3>3
      <3>7. box[u][k].kind = "publish" => u = conn'[c].thread /\ conn'[c].session = "asked"
        BY <3>2, <3>3
      <3>8. box[u][k].kind = "close" => u = conn'[c].thread /\ ~conn'[c].listed
        BY <3>2, <3>3
      <3>9. QED
        BY <3>4, <3>5, <3>6, <3>7, <3>8
    <2>2. CASE u = t /\ k = m + 1 /\ box'[u][k] = e
      <3>1. ASSUME e.kind = "publish", NEW l \in 1..Len(box'[t])
            PROVE  /\ box'[t][l] = Event("publish", e.conn) => l = m + 1
                   /\ box'[t][l] = Event("close", e.conn) => m + 1 < l
        <4>1. CASE l \in 1..Len(box[t]) /\ box'[t][l] = box[t][l]
          BY <1>3, <3>1, <4>1
        <4>2. CASE l = m + 1 /\ box'[t][l] = e
          BY <3>1, <4>2 DEF Event
        <4>3. QED
          BY <1>2, <4>1, <4>2
      <3>2. QED
        BY <1>3, <2>2, <3>1
    <2>3. QED
      BY <1>2, <2>1, <2>2
  <1>5. QED
    BY <1>4, QueuedInOrderIf

\* ... and when a queue is emptied.
LEMMA OrderAfterEmptying ==
  ASSUME QueuesOK, QueuedInOrder,
         \A u \in Threads : box'[u] = box[u] \/ box'[u] = <<>>,
         \A c \in Conns : /\ conn'[c].net = conn[c].net /\ conn'[c].thread = conn[c].thread
                          /\ conn'[c].listed = conn[c].listed,
         \A u \in Threads : \A k \in 1..Len(box'[u]) :
            conn'[box'[u][k].conn].session = conn[box'[u][k].conn].session
  PROVE  QueuedInOrder'
  <1>1. ASSUME NEW u \in Threads, NEW k \in 1..Len(box'[u])
        PROVE  /\ conn'[box'[u][k].conn].net # None
               /\ box'[u][k].kind = "publish" =>
                    /\ u = conn'[box'[u][k].conn].thread
                    /\ conn'[box'[u][k].conn].session = "asked"
                    /\ \A l \in 1..Len(box'[u]) :
                           box'[u][l] = Event("publish", box'[u][k].conn) => l = k
                    /\ \A l \in 1..Len(box'[u]) :
                           box'[u][l] = Event("close", box'[u][k].conn) => k < l
               /\ box'[u][k].kind = "close" =>
                    u = conn'[box'[u][k].conn].thread /\ ~conn'[box'[u][k].conn].listed
    <2>1. box'[u] = box[u]
      BY <1>1, EmptySeq
    <2>2. PICK c \in Conns : c = box[u][k].conn
      BY <2>1, QueuedFacts
    <2>3. QED
      BY <2>1, <2>2, QueuedFacts
  <1>2. QED
    BY <1>1, QueuedInOrderIf


\* Who is not in anybody's hands: such a connection has no event in a queue.
LEMMA UnheldHasNone ==
  ASSUME box' \in [Threads -> Seq(Events)], NEW c \in Unheld(box')
  PROVE  /\ c \in Conns /\ conn[c].net # None /\ ~conn[c].listed
         /\ \A u \in Threads : \A k \in 1..Len(box'[u]) : box'[u][k].conn # c
  BY HoldsPlace, ZenonT(60) DEF Unheld

LEMMA OthersAreHeld ==
  ASSUME box' \in [Threads -> Seq(Events)], NEW c \in Conns, c \notin Unheld(box'),
         conn[c].net # None, ~conn[c].listed
  PROVE  \E u \in Threads : \E k \in 1..Len(box'[u]) : box'[u][k].conn = c
  BY HoldsPlace, ZenonT(60) DEF Unheld

\* The connection of an event at the head of a queue.
LEMMA FrontFacts ==
  ASSUME QueuesOK, QueuedInOrder, NEW t \in Threads, Taken(t)
  PROVE  /\ Front1(t).conn \in Conns /\ Front1(t) = Event(Front1(t).kind, Front1(t).conn)
         /\ conn[Front1(t).conn].net # None
         /\ Front1(t).kind = "publish" =>
              /\ t = conn[Front1(t).conn].thread /\ conn[Front1(t).conn].session = "asked"
              /\ \A u \in Threads : \A k \in 1..Len(box'[u]) :
                    box'[u][k] # Event("publish", Front1(t).conn)
         /\ Front1(t).kind = "close" =>
              /\ t = conn[Front1(t).conn].thread /\ ~conn[Front1(t).conn].listed
              /\ \A u \in Threads : \A k \in 1..Len(box'[u]) :
                    box'[u][k] # Event("publish", Front1(t).conn)
  <1>1. PICK e \in Events : e = Front1(t) /\ box[t][1] = e /\ 1 \in 1..Len(box[t])
    BY TakenPlaces
  <1>2. PICK c \in Conns : c = e.conn
    BY DEF Events
  <1>3. /\ e = Event(e.kind, c) /\ conn[c].net # None
        /\ e.kind = "publish" =>
             /\ t = conn[c].thread /\ conn[c].session = "asked"
             /\ \A l \in 1..Len(box[t]) : box[t][l] = Event("publish", c) => l = 1
        /\ e.kind = "close" => t = conn[c].thread /\ ~conn[c].listed
    BY <1>1, <1>2, QueuedFacts
  <1>4. ASSUME e.kind \in {"publish", "close"}, NEW u \in Threads, NEW k \in 1..Len(box'[u]),
               box'[u][k] = Event("publish", c)
        PROVE  FALSE
    <2>1. CASE u # t
      <3>1. k \in 1..Len(box[u]) /\ box[u][k] = Event("publish", c)
        BY <1>4, <2>1, TakenPlaces
      <3>2. box[u][k].kind = "publish" /\ box[u][k].conn = c
        BY <3>1 DEF Event
      <3>3. u = conn[c].thread
        BY <3>1, <3>2, QueuedFacts
      <3>4. QED
        BY <1>3, <1>4, <2>1, <3>3
    <2>2. CASE u = t
      <3>1. PICK l \in 1..Len(box[t]) : l = k + 1 /\ box[t][l] = Event("publish", c)
        BY <1>4, <2>2, TakenPlaces
      <3>2. l # 1
        BY <2>2, <3>1
      <3>3. box[t][l].kind = "publish" /\ box[t][l].conn = c
        BY <3>1 DEF Event
      <3>4. CASE e.kind = "publish"
        BY <1>3, <3>1, <3>2, <3>4
      <3>5. CASE e.kind = "close"
        <4>1. \A m \in 1..Len(box[t]) : box[t][m] = Event("close", c) => l < m
          BY <3>1, <3>3, QueuedFacts
        <4>2. l < 1
          BY <1>1, <1>3, <3>5, <4>1
        <4>3. QED
          BY <4>2
      <3>6. QED
        BY <1>4, <3>4, <3>5
    <2>3. QED
      BY <2>1, <2>2
  <1>5. QED
    BY <1>1, <1>2, <1>3, <1>4


LEMMA QueuedInOrderStep ==
  TypeOK /\ NetworkInv /\ SessionInv /\ [Next]_vars => QueuedInOrder'
  <1> SUFFICES ASSUME TypeOK, NetworkInv, SessionInv, [Next]_vars PROVE QueuedInOrder'
    OBVIOUS
  <1>1. QueuesOK /\ SessionsOK /\ QueuedInOrder
    BY DEF TypeOK, SessionInv
  <1> USE <1>1
  <1>2. ASSUME Start PROVE QueuedInOrder'
    BY <1>2 DEF Start, QueuedInOrder
  <1>3. ASSUME LoadNetwork PROVE QueuedInOrder'
    BY <1>3 DEF LoadNetwork, QueuedInOrder
  <1>4. ASSUME StartNetworkEvent PROVE QueuedInOrder'
    BY <1>4 DEF StartNetworkEvent, QueuedInOrder
  <1>5. ASSUME StartNetwork PROVE QueuedInOrder'
    BY <1>5 DEF StartNetwork, QueuedInOrder
  <1>6. ASSUME Started PROVE QueuedInOrder'
    BY <1>6 DEF Started, QueuedInOrder
  <1>7. ASSUME Stop PROVE QueuedInOrder'
    BY <1>7 DEF Stop, QueuedInOrder
  <1>8. ASSUME ShutdownNetwork PROVE QueuedInOrder'
    BY <1>8 DEF ShutdownNetwork, QueuedInOrder
  <1>9. ASSUME JoinNetwork PROVE QueuedInOrder'
    BY <1>9 DEF JoinNetwork, QueuedInOrder
  <1>10. ASSUME ShutdownDataProcess PROVE QueuedInOrder'
    BY <1>10 DEF ShutdownDataProcess, QueuedInOrder
  <1>11. ASSUME ShutdownNetworkEvent PROVE QueuedInOrder'
    BY <1>11 DEF ShutdownNetworkEvent, QueuedInOrder
  <1>12. ASSUME Stopped PROVE QueuedInOrder'
    BY <1>12 DEF Stopped, QueuedInOrder
  <1>13. ASSUME CleanUpNetworks PROVE QueuedInOrder'
    BY <1>13 DEF CleanUpNetworks, QueuedInOrder
  <1>14. ASSUME CleanUpDataProcess PROVE QueuedInOrder'
    <2>1. Unheld(box') \in SUBSET Conns /\ OnClose(Unheld(box'))
      BY <1>14 DEF CleanUpDataProcess, DeleteQueue, Unheld
    <2>2. \A u \in Threads : box'[u] = box[u] \/ box'[u] = <<>>
      BY <1>14 DEF CleanUpDataProcess, DeleteQueue
    <2>3. box' \in [Threads -> Seq(Events)]
      BY <1>14, EmptySeq DEF CleanUpDataProcess, DeleteQueue, QueuesOK
    <2>4. ASSUME NEW u \in Threads, NEW k \in 1..Len(box'[u])
          PROVE  conn'[box'[u][k].conn].session = conn[box'[u][k].conn].session
      <3>1. box'[u] = box[u]
        BY <2>2, EmptySeq
      <3>2. box'[u][k].conn \in Conns
        BY <3>1, QueuedFacts
      <3>3. box'[u][k].conn \notin Unheld(box')
        BY <2>3, UnheldHasNone
      <3>4. QED
        BY <2>1, <3>2, <3>3, OnCloseFields
    <2>5. QED
      BY <2>1, <2>2, <2>4, OnCloseFields, OrderAfterEmptying
  <1>15. ASSUME CleanUpNetworkEvent PROVE QueuedInOrder'
    <2>1. Unheld(box') \in SUBSET Conns /\ OnClose(Unheld(box'))
      BY <1>15 DEF CleanUpNetworkEvent, DeleteQueue, Unheld
    <2>2. \A u \in Threads : box'[u] = box[u] \/ box'[u] = <<>>
      BY <1>15 DEF CleanUpNetworkEvent, DeleteQueue
    <2>3. box' \in [Threads -> Seq(Events)]
      BY <1>15, EmptySeq DEF CleanUpNetworkEvent, DeleteQueue, QueuesOK
    <2>4. ASSUME NEW u \in Threads, NEW k \in 1..Len(box'[u])
          PROVE  conn'[box'[u][k].conn].session = conn[box'[u][k].conn].session
      <3>1. box'[u] = box[u]
        BY <2>2, EmptySeq
      <3>2. box'[u][k].conn \in Conns
        BY <3>1, QueuedFacts
      <3>3. box'[u][k].conn \notin Unheld(box')
        BY <2>3, UnheldHasNone
      <3>4. QED
        BY <2>1, <3>2, <3>3, OnCloseFields
    <2>5. QED
      BY <2>1, <2>2, <2>4, OnCloseFields, OrderAfterEmptying
  <1>16. ASSUME NEW c \in Conns, NEW n \in Nets, NEW t \in EventThreads, Accept(c, n, t)
         PROVE  QueuedInOrder'
    <2>1. ASSUME NEW u \in Threads, NEW k \in 1..Len(box[u]) PROVE box[u][k].conn # c
      BY <1>16, QueuedFacts DEF Accept
    <2>2. box' = box /\ \A d \in Conns : d # c => conn'[d] = conn[d]
      BY <1>16 DEF Accept, SessionsOK
    <2>3. ASSUME NEW u \in Threads, NEW k \in 1..Len(box[u])
          PROVE  conn'[box[u][k].conn] = conn[box[u][k].conn]
      BY <2>1, <2>2, QueuedFacts
    <2>4. QED
      BY <2>2, <2>3 DEF QueuedInOrder
  <1>17. ASSUME NEW c \in Conns, AskPublish(c) PROVE QueuedInOrder'
    <2>1. /\ conn[c].thread \in Threads /\ conn[c].listed /\ conn[c].net \in Nets
          /\ conn[c].session = "new"
          /\ box' = Posted(conn[c].thread, Event("publish", c))
          /\ conn' = [conn EXCEPT ![c].session = "asked"]
      BY <1>17, ServedThreadRuns DEF AskPublish, SessionInv
    <2>2. PICK t \in Threads : t = conn[c].thread
      BY <2>1
    <2>3. \A d \in Conns :
             /\ conn'[d].net = conn[d].net /\ conn'[d].thread = conn[d].thread
             /\ conn'[d].listed = conn[d].listed
             /\ d # c => conn'[d].session = conn[d].session
      BY <2>1 DEF SessionsOK, Connections
    <2>4. conn'[c].session = "asked"
      BY <2>1 DEF SessionsOK, Connections
    <2>5. ASSUME NEW u \in Threads, NEW k \in 1..Len(box[u])
          PROVE  /\ box[u][k].conn \in Conns
                 /\ box[u][k].kind = "publish" => box[u][k].conn # c
                 /\ box[u][k].kind = "close" => box[u][k].conn # c
      BY <2>1, QueuedFacts
    <2>6. PICK e \in Events : e = Event("publish", c)
      BY EventTyped
    <2>7. e.kind = "publish" /\ e.conn = c /\ Event("close", c).kind = "close"
          /\ Event("close", c).conn = c
      BY <2>6 DEF Event
    <2>8. \A k \in 1..Len(box[t]) : box[t][k] \notin {e, Event("close", e.conn)}
      BY <2>5, <2>7
    <2>9. conn'[e.conn].net # None /\ t = conn'[e.conn].thread
      BY <2>1, <2>2, <2>3, <2>7, NetsAreNumbers
    <2>10. box' = Posted(t, e)
      BY <2>1, <2>2, <2>6
    <2>11. \A u \in Threads : \A k \in 1..Len(box[u]) :
            /\ conn'[box[u][k].conn].net = conn[box[u][k].conn].net
            /\ conn'[box[u][k].conn].thread = conn[box[u][k].conn].thread
            /\ conn[box[u][k].conn].listed = FALSE => conn'[box[u][k].conn].listed = FALSE
            /\ box[u][k].kind = "publish" =>
                 conn'[box[u][k].conn].session = conn[box[u][k].conn].session
      BY <2>3, <2>5
    <2>12. QED
      BY <2>4, <2>7, <2>8, <2>9, <2>10, <2>11, OrderAfterPost
  <1>18. ASSUME NEW c \in Conns, SendMedia(c) PROVE QueuedInOrder'
    <2>1. /\ conn[c].net \in Nets
          /\ box' = Posted(DataThread, Event("media", c))
          /\ conn' = [conn EXCEPT ![c].media = TRUE]
      BY <1>18, ServedThreadRuns DEF SendMedia, SessionInv
    <2>2. \A d \in Conns :
             /\ conn'[d].net = conn[d].net /\ conn'[d].thread = conn[d].thread
             /\ conn'[d].listed = conn[d].listed
             /\ conn'[d].session = conn[d].session
      BY <2>1 DEF SessionsOK, Connections
    <2>3. PICK e \in Events : e = Event("media", c)
      BY EventTyped
    <2>4. e.kind = "media" /\ e.conn = c
      BY <2>3 DEF Event
    <2>5. conn'[e.conn].net # None
      BY <2>1, <2>2, <2>4, NetsAreNumbers
    <2>6. \A u \in Threads : \A k \in 1..Len(box[u]) :
            /\ conn'[box[u][k].conn].net = conn[box[u][k].conn].net
            /\ conn'[box[u][k].conn].thread = conn[box[u][k].conn].thread
            /\ conn[box[u][k].conn].listed = FALSE => conn'[box[u][k].conn].listed = FALSE
            /\ box[u][k].kind = "publish" =>
                 conn'[box[u][k].conn].session = conn[box[u][k].conn].session
      BY <2>2, QueuedFacts
    <2>7. PICK t \in Threads : t = DataThread
      OBVIOUS
    <2>8. box' = Posted(t, e)
      BY <2>1, <2>3, <2>7
    <2>9. QED
      BY <2>4, <2>5, <2>6, <2>8, OrderAfterPost
  <1>19. ASSUME NEW c \in Conns, Unlist(c) PROVE QueuedInOrder'
    <2>1. /\ conn[c].thread \in Threads /\ conn[c].net \in Nets
          /\ box' = Posted(conn[c].thread, Event("close", c))
      BY <1>19, ServedThreadRuns DEF Unlist, SessionInv
    <2>2. PICK b \in BOOLEAN :
             /\ b <=> ~Holds(box', c)
             /\ conn' = [conn EXCEPT ![c].listed = FALSE,
                                     ![c].session = IF b THEN "closed" ELSE @]
      BY <1>19 DEF Unlist
    <2>3. PICK t \in Threads : t = conn[c].thread
      BY <2>1
    <2>4. PICK e \in Events : e = Event("close", c)
      BY EventTyped
    <2>5. e.kind = "close" /\ e.conn = c /\ box' = Posted(t, e)
      BY <2>1, <2>3, <2>4 DEF Event
    <2>6. \A d \in Conns :
             /\ conn'[d].net = conn[d].net /\ conn'[d].thread = conn[d].thread
             /\ d # c => conn'[d].listed = conn[d].listed
             /\ d # c \/ ~b => conn'[d].session = conn[d].session
      BY <2>2, ZenonT(60) DEF SessionsOK, Connections
    <2>7. ~conn'[c].listed
      BY <2>2 DEF SessionsOK, Connections
    <2>8. conn'[e.conn].net # None /\ t = conn'[e.conn].thread /\ ~conn'[e.conn].listed
      BY <2>1, <2>3, <2>5, <2>6, <2>7, NetsAreNumbers
    <2>9. ASSUME NEW u \in Threads, NEW k \in 1..Len(box[u])
          PROVE  /\ conn'[box[u][k].conn].net = conn[box[u][k].conn].net
                 /\ conn'[box[u][k].conn].thread = conn[box[u][k].conn].thread
                 /\ conn[box[u][k].conn].listed = FALSE => conn'[box[u][k].conn].listed = FALSE
                 /\ conn'[box[u][k].conn].session = conn[box[u][k].conn].session
      <3>1. box[u][k].conn \in Conns
        BY QueuedFacts
      <3>2. box[u][k].conn = c => ~b
        <4>1. k \in 1..Len(box'[u]) /\ box'[u][k] = box[u][k]
          BY <2>5, PostedPlaces
        <4>2. box' \in [Threads -> Seq(Events)]
          BY <2>5, PostedTyped
        <4>3. box[u][k].conn = c => Holds(box', c)
          BY <4>1, <4>2, HoldsPlace
        <4>4. QED
          BY <2>2, <4>3
      <3>3. QED
        BY <2>6, <2>7, <3>1, <3>2
    <2>10. QED
      BY <2>5, <2>8, <2>9, OrderAfterPost, ZenonT(60)
  <1>20. ASSUME NEW n \in Nets, EndNetwork(n) PROVE QueuedInOrder'
    BY <1>20 DEF EndNetwork, QueuedInOrder
  <1>21. ASSUME NEW t \in Threads, ExecutePublish(t) PROVE QueuedInOrder'
    <2>1. Taken(t) /\ Front1(t).kind = "publish"
      BY <1>21 DEF ExecutePublish
    <2>2. PICK c \in Conns : c = Front1(t).conn
      BY <2>1, FrontFacts
    <2>3. PICK v \in {"closed", "published"} : conn' = [conn EXCEPT ![c].session = v]
      BY <1>21, <2>2 DEF ExecutePublish
    <2>4. \A d \in Conns :
             /\ conn'[d].net = conn[d].net /\ conn'[d].thread = conn[d].thread
             /\ conn'[d].listed = conn[d].listed
             /\ d # c => conn'[d].session = conn[d].session
      BY <2>3 DEF SessionsOK, Connections
    <2>5. ASSUME NEW u \in Threads, NEW k \in 1..Len(box'[u]), box'[u][k].kind = "publish"
          PROVE  conn'[box'[u][k].conn].session = conn[box'[u][k].conn].session
      <3>1. box'[u][k] # Event("publish", c)
        BY <2>1, <2>2, FrontFacts
      <3>2. box'[u][k] \in Events
        BY <2>1, TakenTyped, ElementOfSeq
      <3>3. box'[u][k].conn \in Conns /\ box'[u][k].conn # c
        BY <2>5, <3>1, <3>2 DEF Events, Event
      <3>4. QED
        BY <2>4, <3>3
    <2>6. QED
      BY <2>1, <2>4, <2>5, OrderAfterTake
  <1>22. ASSUME NEW t \in Threads, ExecuteClose(t) PROVE QueuedInOrder'
    <2>1. Taken(t) /\ Front1(t).kind = "close"
      BY <1>22 DEF ExecuteClose
    <2>2. PICK c \in Conns : c = Front1(t).conn
      BY <2>1, FrontFacts
    <2>3. {c} \in SUBSET Conns /\ OnClose({c})
      BY <1>22, <2>2 DEF ExecuteClose
    <2>4. \A d \in Conns :
             /\ conn'[d].net = conn[d].net /\ conn'[d].thread = conn[d].thread
             /\ conn'[d].listed = conn[d].listed
             /\ d # c => conn'[d].session = conn[d].session
      BY <2>3, OnCloseFields
    <2>5. ASSUME NEW u \in Threads, NEW k \in 1..Len(box'[u]), box'[u][k].kind = "publish"
          PROVE  conn'[box'[u][k].conn].session = conn[box'[u][k].conn].session
      <3>1. box'[u][k] # Event("publish", c)
        BY <2>1, <2>2, FrontFacts
      <3>2. box'[u][k] \in Events
        BY <2>1, TakenTyped, ElementOfSeq
      <3>3. box'[u][k].conn \in Conns /\ box'[u][k].conn # c
        BY <2>5, <3>1, <3>2 DEF Events, Event
      <3>4. QED
        BY <2>4, <3>3
    <2>6. QED
      BY <2>1, <2>4, <2>5, OrderAfterTake
  <1>23. ASSUME NEW t \in Threads, ExecuteMedia(t) PROVE QueuedInOrder'
    <2>1. Taken(t) /\ Unheld(box') \in SUBSET Conns /\ OnClose(Unheld(box'))
      BY <1>23 DEF ExecuteMedia, Unheld
    <2>2. ASSUME NEW u \in Threads, NEW k \in 1..Len(box'[u])
          PROVE  conn'[box'[u][k].conn].session = conn[box'[u][k].conn].session
      <3>1. box'[u][k] \in Events
        BY <2>1, TakenTyped, ElementOfSeq
      <3>2. box'[u][k].conn \in Conns /\ box'[u][k].conn \notin Unheld(box')
        BY <2>1, <3>1, TakenTyped, UnheldHasNone DEF Events
      <3>3. QED
        BY <2>1, <3>2, OnCloseFields
    <2>3. QED
      BY <2>1, <2>2, OnCloseFields, OrderAfterTake
  <1>24. ASSUME NEW t \in Threads, Leave(t) PROVE QueuedInOrder'
    BY <1>24 DEF Leave, QueuedInOrder
  <1>25. CASE UNCHANGED vars
    BY <1>25 DEF vars, QueuedInOrder
  <1>26. QED
    BY <1>2, <1>3, <1>4, <1>5, <1>6, <1>7, <1>8, <1>9, <1>10, <1>11, <1>12,
       <1>13, <1>14, <1>15, <1>16, <1>17, <1>18, <1>19, <1>20, <1>21, <1>22,
       <1>23, <1>24, <1>25 DEF Next

LEMMA CloseIsQueuedStep ==
  TypeOK /\ NetworkInv /\ SessionInv /\ [Next]_vars => CloseIsQueued'
  <1> SUFFICES ASSUME TypeOK, NetworkInv, SessionInv, [Next]_vars PROVE CloseIsQueued'
    OBVIOUS
  <1>1. /\ QueuesOK /\ SessionsOK /\ QueuedInOrder /\ CloseIsQueued /\ NetworkInv
        /\ ListedIsServed
    BY DEF TypeOK, SessionInv
  <1> USE <1>1
  <1>2. ASSUME Start PROVE CloseIsQueued'
    <2>1. \A c \in Conns : conn[c].net # None => conn[c].thread \in EventThreads
      BY DEF ListedIsServed
    <2>2. \A t \in EventThreads : run'[t] = "off" => run[t] = "off"
      BY <1>2 DEF Start, Tell, QueuesOK
    <2>3. box' = box /\ conn' = conn /\ left' = left
      BY <1>2 DEF Start
    <2>4. QED
      BY <2>1, <2>2, <2>3 DEF CloseIsQueued, Parted
  <1>3. ASSUME LoadNetwork PROVE CloseIsQueued'
    BY <1>3 DEF LoadNetwork, CloseIsQueued, Parted
  <1>4. ASSUME StartNetworkEvent PROVE CloseIsQueued'
    <2>1. \A c \in Conns : conn[c].net # None => conn[c].thread \in EventThreads
      BY DEF ListedIsServed
    <2>2. \A t \in EventThreads : run'[t] = "off" => run[t] = "off"
      BY <1>4 DEF StartNetworkEvent, Tell, QueuesOK
    <2>3. box' = box /\ conn' = conn /\ left' = left
      BY <1>4 DEF StartNetworkEvent
    <2>4. QED
      BY <2>1, <2>2, <2>3 DEF CloseIsQueued, Parted
  <1>5. ASSUME StartNetwork PROVE CloseIsQueued'
    BY <1>5 DEF StartNetwork, CloseIsQueued, Parted
  <1>6. ASSUME Started PROVE CloseIsQueued'
    BY <1>6 DEF Started, CloseIsQueued, Parted
  <1>7. ASSUME Stop PROVE CloseIsQueued'
    BY <1>7 DEF Stop, CloseIsQueued, Parted
  <1>8. ASSUME ShutdownNetwork PROVE CloseIsQueued'
    BY <1>8 DEF ShutdownNetwork, CloseIsQueued, Parted
  <1>9. ASSUME JoinNetwork PROVE CloseIsQueued'
    BY <1>9 DEF JoinNetwork, CloseIsQueued, Parted
  <1>10. ASSUME ShutdownDataProcess PROVE CloseIsQueued'
    <2>1. \A c \in Conns : conn[c].net # None => conn[c].thread \in EventThreads
      BY DEF ListedIsServed
    <2>2. \A t \in EventThreads : run'[t] = "off" => run[t] = "off"
      BY <1>10 DEF ShutdownDataProcess, Tell, QueuesOK
    <2>3. box' = box /\ conn' = conn /\ left' = left
      BY <1>10 DEF ShutdownDataProcess
    <2>4. QED
      BY <2>1, <2>2, <2>3 DEF CloseIsQueued, Parted
  <1>11. ASSUME ShutdownNetworkEvent PROVE CloseIsQueued'
    <2>1. \A c \in Conns : conn[c].net # None => conn[c].thread \in EventThreads
      BY DEF ListedIsServed
    <2>2. \A t \in EventThreads : run'[t] = "off" => run[t] = "off"
      BY <1>11 DEF ShutdownNetworkEvent, Tell, QueuesOK
    <2>3. box' = box /\ conn' = conn /\ left' = left
      BY <1>11 DEF ShutdownNetworkEvent
    <2>4. QED
      BY <2>1, <2>2, <2>3 DEF CloseIsQueued, Parted
  <1>12. ASSUME Stopped PROVE CloseIsQueued'
    BY <1>12 DEF Stopped, CloseIsQueued, Parted
  <1>13. ASSUME CleanUpNetworks PROVE CloseIsQueued'
    BY <1>13 DEF CleanUpNetworks, CloseIsQueued, Parted
  <1>14. ASSUME CleanUpDataProcess PROVE CloseIsQueued'
    <2>1. Unheld(box') \in SUBSET Conns /\ OnClose(Unheld(box'))
      BY <1>14 DEF CleanUpDataProcess, DeleteQueue, Unheld
    <2>2. \A t \in EventThreads : box'[t] = box[t]
      BY <1>14 DEF CleanUpDataProcess, DeleteQueue
    <2>3. run' = run /\ left' = left
      BY <1>14 DEF CleanUpDataProcess
    <2>4. \A c \in Conns : Parted(c)' => Parted(c) /\ conn[c].thread \in EventThreads
                                        /\ conn'[c].thread = conn[c].thread
      BY <2>1, OnCloseFields DEF Parted, ListedIsServed
    <2>5. QED
      BY <2>2, <2>3, <2>4 DEF CloseIsQueued
  <1>15. ASSUME CleanUpNetworkEvent PROVE CloseIsQueued'
    <2>1. Unheld(box') \in SUBSET Conns /\ OnClose(Unheld(box'))
      BY <1>15 DEF CleanUpNetworkEvent, DeleteQueue, Unheld
    <2>2. \A t \in Threads : box'[t] = <<>>
      BY <1>15 DEF CleanUpNetworkEvent, DeleteQueue, SessionInv, QueuesDeleted
    <2>3. box' \in [Threads -> Seq(Events)]
      BY <1>15, EmptySeq DEF CleanUpNetworkEvent, DeleteQueue, QueuesOK
    <2>4. ASSUME NEW c \in Conns, Parted(c)' PROVE FALSE
      <3>1. conn[c].net # None /\ ~conn[c].listed /\ c \notin Unheld(box')
        BY <2>1, <2>4, OnCloseFields DEF Parted
      <3>2. QED
        BY <2>2, <2>3, <3>1, OthersAreHeld, EmptySeq
    <2>5. QED
      BY <2>4 DEF CloseIsQueued
  <1>16. ASSUME NEW c \in Conns, NEW n \in Nets, NEW t \in EventThreads, Accept(c, n, t)
         PROVE  CloseIsQueued'
    <2>1. ~Parted(c)' /\ \A d \in Conns : d # c => conn'[d] = conn[d]
      BY <1>16 DEF Accept, SessionsOK, Parted
    <2>2. UNCHANGED <<box, run, left>>
      BY <1>16 DEF Accept
    <2>3. QED
      BY <2>1, <2>2 DEF CloseIsQueued, Parted
  <1>17. ASSUME NEW c \in Conns, AskPublish(c) PROVE CloseIsQueued'
    <2>1. /\ conn[c].thread \in Threads /\ conn[c].listed
          /\ \E t \in Threads, e \in Events : box' = Posted(t, e)
          /\ \/ conn' = [conn EXCEPT ![c].session = "asked"]
             \/ conn' = [conn EXCEPT ![c].media = TRUE]
      BY <1>17, ServedThreadRuns, EventTyped DEF AskPublish, SessionInv
    <2>2. \A d \in Conns :
             /\ conn'[d].net = conn[d].net /\ conn'[d].thread = conn[d].thread
             /\ conn'[d].listed = conn[d].listed
             /\ d # c => conn'[d].session = conn[d].session
      BY <2>1 DEF SessionsOK, Connections
    <2>3. \A d \in Conns : Parted(d)' => Parted(d)
      BY <2>1, <2>2 DEF Parted
    <2>4. \A u \in Threads : \A k \in 1..Len(box[u]) :
             k \in 1..Len(box'[u]) /\ box'[u][k] = box[u][k]
      BY <2>1, PostedPlaces
    <2>5. run' = run /\ left' = left
      BY <1>17 DEF AskPublish
    <2>6. ASSUME NEW d \in Conns, Parted(d)'
          PROVE  /\ \E k \in 1..Len(box'[conn'[d].thread]) :
                       box'[conn'[d].thread][k] = Event("close", d)
                 /\ run'[conn'[d].thread] = "off" => d \in left'
      <3>1. Parted(d) /\ conn'[d].thread = conn[d].thread
        BY <2>2, <2>3, <2>6
      <3>2. conn[d].thread \in Threads
        BY <3>1 DEF Parted, ListedIsServed
      <3>3. PICK k \in 1..Len(box[conn[d].thread]) : box[conn[d].thread][k] = Event("close", d)
        BY <3>1 DEF CloseIsQueued
      <3>4. k \in 1..Len(box'[conn[d].thread]) /\ box'[conn[d].thread][k] = Event("close", d)
        BY <2>4, <3>2, <3>3
      <3>5. QED
        BY <2>5, <3>1, <3>4 DEF CloseIsQueued
    <2>7. QED
      BY <2>6 DEF CloseIsQueued
  <1>18. ASSUME NEW c \in Conns, SendMedia(c) PROVE CloseIsQueued'
    <2>1. /\ conn[c].thread \in Threads /\ conn[c].listed
          /\ \E t \in Threads, e \in Events : box' = Posted(t, e)
          /\ \/ conn' = [conn EXCEPT ![c].session = "asked"]
             \/ conn' = [conn EXCEPT ![c].media = TRUE]
      BY <1>18, ServedThreadRuns, EventTyped DEF SendMedia, SessionInv
    <2>2. \A d \in Conns :
             /\ conn'[d].net = conn[d].net /\ conn'[d].thread = conn[d].thread
             /\ conn'[d].listed = conn[d].listed
             /\ d # c => conn'[d].session = conn[d].session
      BY <2>1 DEF SessionsOK, Connections
    <2>3. \A d \in Conns : Parted(d)' => Parted(d)
      BY <2>1, <2>2 DEF Parted
    <2>4. \A u \in Threads : \A k \in 1..Len(box[u]) :
             k \in 1..Len(box'[u]) /\ box'[u][k] = box[u][k]
      BY <2>1, PostedPlaces
    <2>5. run' = run /\ left' = left
      BY <1>18 DEF SendMedia
    <2>6. ASSUME NEW d \in Conns, Parted(d)'
          PROVE  /\ \E k \in 1..Len(box'[conn'[d].thread]) :
                       box'[conn'[d].thread][k] = Event("close", d)
                 /\ run'[conn'[d].thread] = "off" => d \in left'
      <3>1. Parted(d) /\ conn'[d].thread = conn[d].thread
        BY <2>2, <2>3, <2>6
      <3>2. conn[d].thread \in Threads
        BY <3>1 DEF Parted, ListedIsServed
      <3>3. PICK k \in 1..Len(box[conn[d].thread]) : box[conn[d].thread][k] = Event("close", d)
        BY <3>1 DEF CloseIsQueued
      <3>4. k \in 1..Len(box'[conn[d].thread]) /\ box'[conn[d].thread][k] = Event("close", d)
        BY <2>4, <3>2, <3>3
      <3>5. QED
        BY <2>5, <3>1, <3>4 DEF CloseIsQueued
    <2>7. QED
      BY <2>6 DEF CloseIsQueued
  <1>19. ASSUME NEW c \in Conns, Unlist(c) PROVE CloseIsQueued'
    <2>1. /\ conn[c].thread \in Threads /\ run[conn[c].thread] = "on"
          /\ box' = Posted(conn[c].thread, Event("close", c))
      BY <1>19, ServedThreadRuns DEF Unlist, SessionInv
    <2>2. PICK b \in BOOLEAN :
             conn' = [conn EXCEPT ![c].listed = FALSE,
                                  ![c].session = IF b THEN "closed" ELSE @]
      BY <1>19 DEF Unlist
    <2>3. PICK t \in Threads : t = conn[c].thread
      BY <2>1
    <2>4. PICK e \in Events : e = Event("close", c)
      BY EventTyped
    <2>5. box' = Posted(t, e) /\ Takes(t)
      BY <2>1, <2>3, <2>4 DEF Takes
    <2>6. \A d \in Conns :
             /\ conn'[d].net = conn[d].net /\ conn'[d].thread = conn[d].thread
             /\ d # c => /\ conn'[d].listed = conn[d].listed
                         /\ conn'[d].session = conn[d].session
      BY <2>2 DEF SessionsOK, Connections
    <2>7. run' = run /\ left' = left
      BY <1>19 DEF Unlist
    <2>8. ASSUME NEW d \in Conns, Parted(d)'
          PROVE  /\ \E k \in 1..Len(box'[conn'[d].thread]) :
                       box'[conn'[d].thread][k] = Event("close", d)
                 /\ run'[conn'[d].thread] = "off" => d \in left'
      <3>1. CASE d = c
        <4>1. PICK k \in 1..Len(box'[t]) : box'[t][k] = e
          BY <2>5, PostedPlaces
        <4>2. conn'[d].thread = t
          BY <2>3, <2>6, <3>1
        <4>3. QED
          BY <2>1, <2>3, <2>4, <2>7, <3>1, <4>1, <4>2
      <3>2. CASE d # c
        <4>1. Parted(d) /\ conn'[d].thread = conn[d].thread
          BY <2>6, <2>8, <3>2 DEF Parted
        <4>2. conn[d].thread \in Threads
          BY <4>1 DEF Parted, ListedIsServed
        <4>3. PICK k \in 1..Len(box[conn[d].thread]) : box[conn[d].thread][k] = Event("close", d)
          BY <4>1 DEF CloseIsQueued
        <4>4. k \in 1..Len(box'[conn[d].thread]) /\ box'[conn[d].thread][k] = Event("close", d)
          BY <2>5, <4>2, <4>3, PostedPlaces
        <4>5. QED
          BY <2>7, <4>1, <4>4 DEF CloseIsQueued
      <3>3. QED
        BY <3>1, <3>2
    <2>9. QED
      BY <2>8 DEF CloseIsQueued
  <1>20. ASSUME NEW n \in Nets, EndNetwork(n) PROVE CloseIsQueued'
    BY <1>20 DEF EndNetwork, CloseIsQueued, Parted
  <1>21. ASSUME NEW t \in Threads, ExecutePublish(t) PROVE CloseIsQueued'
    <2>1. Taken(t) /\ left' = left
      BY <1>21 DEF ExecutePublish
    <2>2. \A d \in Conns : /\ conn'[d].thread = conn[d].thread
                           /\ Parted(d)' => Parted(d) /\ Front1(t) # Event("close", d)
      <3>1. PICK c \in Conns : c = Front1(t).conn
        BY <2>1, FrontFacts
      <3>2. Front1(t).kind = "publish" /\ conn[c].session = "asked"
        BY <1>21, <2>1, <3>1, FrontFacts DEF ExecutePublish
      <3>3. PICK v \in {"closed", "published"} : conn' = [conn EXCEPT ![c].session = v]
        BY <1>21, <3>1 DEF ExecutePublish
      <3>4. \A d \in Conns :
               /\ conn'[d].net = conn[d].net /\ conn'[d].thread = conn[d].thread
               /\ conn'[d].listed = conn[d].listed
               /\ d # c => conn'[d].session = conn[d].session
        BY <3>3 DEF SessionsOK, Connections
      <3>5. \A d \in Conns : Parted(d)' => Parted(d)
        BY <3>2, <3>4 DEF Parted
      <3>6. \A d \in Conns : Front1(t) # Event("close", d)
        BY <3>2 DEF Event
      <3>7. QED
        BY <3>4, <3>5, <3>6
    <2>3. ASSUME NEW d \in Conns, Parted(d)'
          PROVE  /\ \E k \in 1..Len(box'[conn'[d].thread]) :
                       box'[conn'[d].thread][k] = Event("close", d)
                 /\ run'[conn'[d].thread] = "off" => d \in left'
      <3>1. Parted(d) /\ conn'[d].thread = conn[d].thread /\ Front1(t) # Event("close", d)
        BY <2>2, <2>3
      <3>2. PICK u \in Threads : u = conn[d].thread
        BY <3>1 DEF Parted, ListedIsServed
      <3>3. PICK k \in 1..Len(box[u]) : box[u][k] = Event("close", d)
        BY <3>1, <3>2 DEF CloseIsQueued
      <3>4. \E l \in 1..Len(box'[u]) : box'[u][l] = Event("close", d)
        <4>1. CASE u = t
          <5>1. k # 1
            BY <2>1, <3>1, <3>3, <4>1, TakenPlaces
          <5>2. k - 1 \in 1..Len(box'[t]) /\ box'[t][k - 1] = box[t][k]
            BY <2>1, <3>3, <4>1, <5>1, TakenPlaces
          <5>3. QED
            BY <3>3, <4>1, <5>2
        <4>2. CASE u # t
          BY <2>1, <3>3, <4>2, TakenPlaces
        <4>3. QED
          BY <4>1, <4>2
      <3>5. run'[u] = "off" => d \in left
        BY <2>1, <3>1, <3>2, TakenPlaces DEF CloseIsQueued
      <3>6. QED
        BY <2>1, <3>1, <3>2, <3>4, <3>5
    <2>4. QED
      BY <2>3 DEF CloseIsQueued
  <1>22. ASSUME NEW t \in Threads, ExecuteClose(t) PROVE CloseIsQueued'
    <2>1. Taken(t) /\ left' = left
      BY <1>22 DEF ExecuteClose
    <2>2. \A d \in Conns : /\ conn'[d].thread = conn[d].thread
                           /\ Parted(d)' => Parted(d) /\ Front1(t) # Event("close", d)
      <3>1. PICK c \in Conns : c = Front1(t).conn
        BY <2>1, FrontFacts
      <3>2. {c} \in SUBSET Conns /\ OnClose({c})
        BY <1>22, <3>1 DEF ExecuteClose
      <3>3. \A d \in Conns : /\ conn'[d].thread = conn[d].thread
                             /\ Parted(d)' => Parted(d) /\ d # c
        BY <3>2, OnCloseFields DEF Parted
      <3>4. \A d \in Conns : d # c => Front1(t) # Event("close", d)
        BY <3>1 DEF Event
      <3>5. QED
        BY <3>3, <3>4
    <2>3. ASSUME NEW d \in Conns, Parted(d)'
          PROVE  /\ \E k \in 1..Len(box'[conn'[d].thread]) :
                       box'[conn'[d].thread][k] = Event("close", d)
                 /\ run'[conn'[d].thread] = "off" => d \in left'
      <3>1. Parted(d) /\ conn'[d].thread = conn[d].thread /\ Front1(t) # Event("close", d)
        BY <2>2, <2>3
      <3>2. PICK u \in Threads : u = conn[d].thread
        BY <3>1 DEF Parted, ListedIsServed
      <3>3. PICK k \in 1..Len(box[u]) : box[u][k] = Event("close", d)
        BY <3>1, <3>2 DEF CloseIsQueued
      <3>4. \E l \in 1..Len(box'[u]) : box'[u][l] = Event("close", d)
        <4>1. CASE u = t
          <5>1. k # 1
            BY <2>1, <3>1, <3>3, <4>1, TakenPlaces
          <5>2. k - 1 \in 1..Len(box'[t]) /\ box'[t][k - 1] = box[t][k]
            BY <2>1, <3>3, <4>1, <5>1, TakenPlaces
          <5>3. QED
            BY <3>3, <4>1, <5>2
        <4>2. CASE u # t
          BY <2>1, <3>3, <4>2, TakenPlaces
        <4>3. QED
          BY <4>1, <4>2
      <3>5. run'[u] = "off" => d \in left
        BY <2>1, <3>1, <3>2, TakenPlaces DEF CloseIsQueued
      <3>6. QED
        BY <2>1, <3>1, <3>2, <3>4, <3>5
    <2>4. QED
      BY <2>3 DEF CloseIsQueued
  <1>23. ASSUME NEW t \in Threads, ExecuteMedia(t) PROVE CloseIsQueued'
    <2>1. Taken(t) /\ left' = left
      BY <1>23 DEF ExecuteMedia
    <2>2. \A d \in Conns : /\ conn'[d].thread = conn[d].thread
                           /\ Parted(d)' => Parted(d) /\ Front1(t) # Event("close", d)
      <3>1. Unheld(box') \in SUBSET Conns /\ OnClose(Unheld(box'))
        BY <1>23 DEF ExecuteMedia, Unheld
      <3>2. \A d \in Conns : conn'[d].thread = conn[d].thread /\ (Parted(d)' => Parted(d))
        BY <3>1, OnCloseFields DEF Parted
      <3>3. Front1(t).kind = "media"
        BY <1>23 DEF ExecuteMedia
      <3>4. \A d \in Conns : Front1(t) # Event("close", d)
        BY <3>3 DEF Event
      <3>5. QED
        BY <3>2, <3>4
    <2>3. ASSUME NEW d \in Conns, Parted(d)'
          PROVE  /\ \E k \in 1..Len(box'[conn'[d].thread]) :
                       box'[conn'[d].thread][k] = Event("close", d)
                 /\ run'[conn'[d].thread] = "off" => d \in left'
      <3>1. Parted(d) /\ conn'[d].thread = conn[d].thread /\ Front1(t) # Event("close", d)
        BY <2>2, <2>3
      <3>2. PICK u \in Threads : u = conn[d].thread
        BY <3>1 DEF Parted, ListedIsServed
      <3>3. PICK k \in 1..Len(box[u]) : box[u][k] = Event("close", d)
        BY <3>1, <3>2 DEF CloseIsQueued
      <3>4. \E l \in 1..Len(box'[u]) : box'[u][l] = Event("close", d)
        <4>1. CASE u = t
          <5>1. k # 1
            BY <2>1, <3>1, <3>3, <4>1, TakenPlaces
          <5>2. k - 1 \in 1..Len(box'[t]) /\ box'[t][k - 1] = box[t][k]
            BY <2>1, <3>3, <4>1, <5>1, TakenPlaces
          <5>3. QED
            BY <3>3, <4>1, <5>2
        <4>2. CASE u # t
          BY <2>1, <3>3, <4>2, TakenPlaces
        <4>3. QED
          BY <4>1, <4>2
      <3>5. run'[u] = "off" => d \in left
        BY <2>1, <3>1, <3>2, TakenPlaces DEF CloseIsQueued
      <3>6. QED
        BY <2>1, <3>1, <3>2, <3>4, <3>5
    <2>4. QED
      BY <2>3 DEF CloseIsQueued
  <1>24. ASSUME NEW t \in Threads, Leave(t) PROVE CloseIsQueued'
    <2>1. /\ run' = [run EXCEPT ![t] = "off"] /\ box' = box /\ conn' = conn
          /\ left' = left \cup {c \in Conns : Event("close", c) \in ToSet(box[t])}
      BY <1>24 DEF Leave
    <2>2. ASSUME NEW d \in Conns, Parted(d), run'[conn[d].thread] = "off" PROVE d \in left'
      <3>1. PICK u \in Threads : u = conn[d].thread
        BY <2>2 DEF Parted, ListedIsServed
      <3>2. PICK k \in 1..Len(box[u]) : box[u][k] = Event("close", d)
        BY <2>2, <3>1 DEF CloseIsQueued
      <3>3. CASE u = t
        <4>1. DOMAIN box[t] = 1..Len(box[t])
          BY LenProperties DEF QueuesOK
        <4>2. Event("close", d) \in ToSet(box[t])
          BY <3>2, <3>3, <4>1 DEF ToSet
        <4>3. QED
          BY <2>1, <4>2
      <3>4. CASE u # t
        BY <2>1, <2>2, <3>1, <3>4 DEF CloseIsQueued, QueuesOK
      <3>5. QED
        BY <3>3, <3>4
    <2>3. QED
      BY <2>1, <2>2 DEF CloseIsQueued, Parted
  <1>25. CASE UNCHANGED vars
    BY <1>25 DEF vars, CloseIsQueued, Parted
  <1>26. QED
    BY <1>2, <1>3, <1>4, <1>5, <1>6, <1>7, <1>8, <1>9, <1>10, <1>11, <1>12,
       <1>13, <1>14, <1>15, <1>16, <1>17, <1>18, <1>19, <1>20, <1>21, <1>22,
       <1>23, <1>24, <1>25 DEF Next

LEMMA SourceIsOpenStep ==
  TypeOK /\ NetworkInv /\ SessionInv /\ [Next]_vars => SourceIsOpen'
  <1> SUFFICES ASSUME TypeOK, NetworkInv, SessionInv, [Next]_vars PROVE SourceIsOpen'
    OBVIOUS
  <1>1. QueuesOK /\ SessionsOK /\ QueuedInOrder /\ SourceIsOpen
    BY DEF TypeOK, SessionInv
  <1> USE <1>1
  <1>2. ASSUME Start PROVE SourceIsOpen'
    BY <1>2 DEF Start, SourceIsOpen
  <1>3. ASSUME LoadNetwork PROVE SourceIsOpen'
    BY <1>3 DEF LoadNetwork, SourceIsOpen
  <1>4. ASSUME StartNetworkEvent PROVE SourceIsOpen'
    BY <1>4 DEF StartNetworkEvent, SourceIsOpen
  <1>5. ASSUME StartNetwork PROVE SourceIsOpen'
    BY <1>5 DEF StartNetwork, SourceIsOpen
  <1>6. ASSUME Started PROVE SourceIsOpen'
    BY <1>6 DEF Started, SourceIsOpen
  <1>7. ASSUME Stop PROVE SourceIsOpen'
    BY <1>7 DEF Stop, SourceIsOpen
  <1>8. ASSUME ShutdownNetwork PROVE SourceIsOpen'
    BY <1>8 DEF ShutdownNetwork, SourceIsOpen
  <1>9. ASSUME JoinNetwork PROVE SourceIsOpen'
    BY <1>9 DEF JoinNetwork, SourceIsOpen
  <1>10. ASSUME ShutdownDataProcess PROVE SourceIsOpen'
    BY <1>10 DEF ShutdownDataProcess, SourceIsOpen
  <1>11. ASSUME ShutdownNetworkEvent PROVE SourceIsOpen'
    BY <1>11 DEF ShutdownNetworkEvent, SourceIsOpen
  <1>12. ASSUME Stopped PROVE SourceIsOpen'
    BY <1>12 DEF Stopped, SourceIsOpen
  <1>13. ASSUME CleanUpNetworks PROVE SourceIsOpen'
    BY <1>13 DEF CleanUpNetworks, SourceIsOpen
  <1>14. ASSUME CleanUpDataProcess PROVE SourceIsOpen'
    <2>1. Unheld(box') \in SUBSET Conns /\ OnClose(Unheld(box'))
      BY <1>14 DEF CleanUpDataProcess, DeleteQueue, Unheld
    <2>2. QED
      BY <2>1, OnCloseFields DEF SourceIsOpen, SessionsOK
  <1>15. ASSUME CleanUpNetworkEvent PROVE SourceIsOpen'
    <2>1. Unheld(box') \in SUBSET Conns /\ OnClose(Unheld(box'))
      BY <1>15 DEF CleanUpNetworkEvent, DeleteQueue, Unheld
    <2>2. QED
      BY <2>1, OnCloseFields DEF SourceIsOpen, SessionsOK
  <1>16. ASSUME NEW c \in Conns, NEW n \in Nets, NEW t \in EventThreads, Accept(c, n, t)
         PROVE  SourceIsOpen'
    <2>1. source # c /\ source' = source /\ \A d \in Conns : d # c => conn'[d] = conn[d]
      BY <1>16 DEF Accept, SessionsOK, SourceIsOpen
    <2>2. QED
      BY <2>1 DEF SourceIsOpen, SessionsOK
  <1>17. ASSUME NEW c \in Conns, AskPublish(c) PROVE SourceIsOpen'
    <2>1. /\ source' = source
          /\ \/ conn[c].session = "new" /\ conn' = [conn EXCEPT ![c].session = "asked"]
             \/ conn' = [conn EXCEPT ![c].media = TRUE]
      BY <1>17 DEF AskPublish
    <2>2. \A d \in Conns : conn'[d].net = conn[d].net
                           /\ (d # c \/ conn[c].session # "new"
                                 => conn'[d].session = conn[d].session)
      BY <2>1 DEF SessionsOK, Connections
    <2>3. QED
      BY <2>1, <2>2 DEF SourceIsOpen, SessionsOK
  <1>18. ASSUME NEW c \in Conns, SendMedia(c) PROVE SourceIsOpen'
    <2>1. /\ source' = source
          /\ \/ conn[c].session = "new" /\ conn' = [conn EXCEPT ![c].session = "asked"]
             \/ conn' = [conn EXCEPT ![c].media = TRUE]
      BY <1>18 DEF SendMedia
    <2>2. \A d \in Conns : conn'[d].net = conn[d].net
                           /\ (d # c \/ conn[c].session # "new"
                                 => conn'[d].session = conn[d].session)
      BY <2>1 DEF SessionsOK, Connections
    <2>3. QED
      BY <2>1, <2>2 DEF SourceIsOpen, SessionsOK
  <1>19. ASSUME NEW c \in Conns, Unlist(c) PROVE SourceIsOpen'
    <2>1. PICK b \in BOOLEAN :
             /\ conn' = [conn EXCEPT ![c].listed = FALSE,
                                     ![c].session = IF b THEN "closed" ELSE @]
             /\ source' = IF b /\ source = c THEN None ELSE source
      BY <1>19 DEF Unlist
    <2>2. \A d \in Conns : conn'[d].net = conn[d].net
                           /\ (d # c \/ ~b => conn'[d].session = conn[d].session)
      BY <2>1 DEF SessionsOK, Connections
    <2>3. QED
      BY <2>1, <2>2 DEF SourceIsOpen, SessionsOK
  <1>20. ASSUME NEW n \in Nets, EndNetwork(n) PROVE SourceIsOpen'
    BY <1>20 DEF EndNetwork, SourceIsOpen
  <1>21. ASSUME NEW t \in Threads, ExecutePublish(t) PROVE SourceIsOpen'
    <2>1. Taken(t) /\ Front1(t).kind = "publish"
      BY <1>21 DEF ExecutePublish
    <2>2. PICK c \in Conns : c = Front1(t).conn
      BY <2>1, FrontFacts
    <2>3. conn[c].session = "asked" /\ conn[c].net # None
      BY <2>1, <2>2, FrontFacts
    <2>4. PICK ends \in BOOLEAN :
             /\ conn' = [conn EXCEPT ![c].session = IF ends THEN "closed" ELSE "published"]
             /\ source' = IF ends THEN None ELSE c
      BY <1>21, <2>2, <2>3 DEF ExecutePublish
    <2>5. conn'[c].net = conn[c].net /\ conn'[c].session = IF ends THEN "closed" ELSE "published"
      BY <2>4 DEF SessionsOK, Connections
    <2>6. QED
      BY <2>3, <2>4, <2>5 DEF SourceIsOpen
  <1>22. ASSUME NEW t \in Threads, ExecuteClose(t) PROVE SourceIsOpen'
    <2>1. PICK c \in Conns : c = Front1(t).conn
      BY <1>22, FrontFacts DEF ExecuteClose
    <2>2. {c} \in SUBSET Conns /\ OnClose({c})
      BY <1>22, <2>1 DEF ExecuteClose
    <2>3. QED
      BY <2>2, OnCloseFields DEF SourceIsOpen, SessionsOK
  <1>23. ASSUME NEW t \in Threads, ExecuteMedia(t) PROVE SourceIsOpen'
    <2>1. Unheld(box') \in SUBSET Conns /\ OnClose(Unheld(box'))
      BY <1>23 DEF ExecuteMedia, Unheld
    <2>2. QED
      BY <2>1, OnCloseFields DEF SourceIsOpen, SessionsOK
  <1>24. ASSUME NEW t \in Threads, Leave(t) PROVE SourceIsOpen'
    BY <1>24 DEF Leave, SourceIsOpen
  <1>25. CASE UNCHANGED vars
    BY <1>25 DEF vars, SourceIsOpen
  <1>26. QED
    BY <1>2, <1>3, <1>4, <1>5, <1>6, <1>7, <1>8, <1>9, <1>10, <1>11, <1>12,
       <1>13, <1>14, <1>15, <1>16, <1>17, <1>18, <1>19, <1>20, <1>21, <1>22,
       <1>23, <1>24, <1>25 DEF Next

LEMMA DeletedIsLeftStep ==
  TypeOK /\ NetworkInv /\ SessionInv /\ [Next]_vars => DeletedIsLeft'
  <1> SUFFICES ASSUME TypeOK, NetworkInv, SessionInv, [Next]_vars PROVE DeletedIsLeft'
    OBVIOUS
  <1>1. /\ QueuesOK /\ SessionsOK /\ NetworksOK /\ QueuedInOrder /\ CloseIsQueued
        /\ ListedIsServed /\ DeletedIsLeft
    BY DEF TypeOK, SessionInv
  <1> USE <1>1
  <1>2. ASSUME Start PROVE DeletedIsLeft'
    BY <1>2 DEF Start, DeletedIsLeft
  <1>3. ASSUME LoadNetwork PROVE DeletedIsLeft'
    <2>1. (pc = "load" \/ pc = "down") /\ conn' = conn /\ left' = left
      BY <1>3 DEF LoadNetwork
    <2>2. \A n \in Nets : netRun[n] = "off"
      BY <2>1 DEF NetworkInv, ThreadsInSlots, Loading
    <2>3. \A t \in EventThreads : run[t] = "off"
      BY <2>1 DEF NetworkInv, QueuesFollow
    <2>4. ASSUME NEW c \in Conns, conn[c].net # None, conn[c].session # "closed"
          PROVE  c \in left
      <3>1. conn[c].net \in Nets
        BY <2>4 DEF SessionsOK, Connections
      <3>2. Parted(c)
        BY <2>2, <2>4, <3>1 DEF ListedIsServed, Parted
      <3>3. run[conn[c].thread] = "off"
        BY <2>3, <2>4 DEF ListedIsServed
      <3>4. QED
        BY <3>2, <3>3 DEF CloseIsQueued
    <2>5. QED
      BY <2>1, <2>4 DEF DeletedIsLeft
  <1>4. ASSUME StartNetworkEvent PROVE DeletedIsLeft'
    BY <1>4 DEF StartNetworkEvent, DeletedIsLeft
  <1>5. ASSUME StartNetwork PROVE DeletedIsLeft'
    BY <1>5 DEF StartNetwork, DeletedIsLeft
  <1>6. ASSUME Started PROVE DeletedIsLeft'
    BY <1>6 DEF Started, DeletedIsLeft
  <1>7. ASSUME Stop PROVE DeletedIsLeft'
    BY <1>7 DEF Stop, DeletedIsLeft
  <1>8. ASSUME ShutdownNetwork PROVE DeletedIsLeft'
    BY <1>8 DEF ShutdownNetwork, DeletedIsLeft
  <1>9. ASSUME JoinNetwork PROVE DeletedIsLeft'
    BY <1>9 DEF JoinNetwork, DeletedIsLeft
  <1>10. ASSUME ShutdownDataProcess PROVE DeletedIsLeft'
    BY <1>10 DEF ShutdownDataProcess, DeletedIsLeft
  <1>11. ASSUME ShutdownNetworkEvent PROVE DeletedIsLeft'
    BY <1>11 DEF ShutdownNetworkEvent, DeletedIsLeft
  <1>12. ASSUME Stopped PROVE DeletedIsLeft'
    BY <1>12 DEF Stopped, DeletedIsLeft
  <1>13. ASSUME CleanUpNetworks PROVE DeletedIsLeft'
    <2>1. (pc = "load" \/ pc = "down") /\ conn' = conn /\ left' = left
      BY <1>13 DEF CleanUpNetworks
    <2>2. \A n \in Nets : netRun[n] = "off"
      BY <2>1 DEF NetworkInv, ThreadsInSlots, Loading
    <2>3. \A t \in EventThreads : run[t] = "off"
      BY <2>1 DEF NetworkInv, QueuesFollow
    <2>4. ASSUME NEW c \in Conns, conn[c].net # None, conn[c].session # "closed"
          PROVE  c \in left
      <3>1. conn[c].net \in Nets
        BY <2>4 DEF SessionsOK, Connections
      <3>2. Parted(c)
        BY <2>2, <2>4, <3>1 DEF ListedIsServed, Parted
      <3>3. run[conn[c].thread] = "off"
        BY <2>3, <2>4 DEF ListedIsServed
      <3>4. QED
        BY <3>2, <3>3 DEF CloseIsQueued
    <2>5. QED
      BY <2>1, <2>4 DEF DeletedIsLeft
  <1>14. ASSUME CleanUpDataProcess PROVE DeletedIsLeft'
    <2>1. Unheld(box') \in SUBSET Conns /\ OnClose(Unheld(box'))
      BY <1>14 DEF CleanUpDataProcess, DeleteQueue, Unheld
    <2>2. life' = life /\ left' = left
      BY <1>14 DEF CleanUpDataProcess
    <2>3. QED
      BY <2>1, <2>2, OnCloseFields DEF DeletedIsLeft
  <1>15. ASSUME CleanUpNetworkEvent PROVE DeletedIsLeft'
    <2>1. Unheld(box') \in SUBSET Conns /\ OnClose(Unheld(box'))
      BY <1>15 DEF CleanUpNetworkEvent, DeleteQueue, Unheld
    <2>2. life' = life /\ left' = left
      BY <1>15 DEF CleanUpNetworkEvent
    <2>3. QED
      BY <2>1, <2>2, OnCloseFields DEF DeletedIsLeft
  <1>16. ASSUME NEW c \in Conns, NEW n \in Nets, NEW t \in EventThreads, Accept(c, n, t)
         PROVE  DeletedIsLeft'
    <2>1. /\ life[n] = "made" /\ life' = life /\ left' = left /\ conn'[c].net = n
          /\ \A d \in Conns : d # c => conn'[d] = conn[d]
      BY <1>16, BoundIsMade DEF Accept, SessionsOK
    <2>2. QED
      BY <2>1 DEF DeletedIsLeft
  <1>17. ASSUME NEW c \in Conns, AskPublish(c) PROVE DeletedIsLeft'
    <2>1. /\ life' = life /\ left' = left
          /\ \/ conn[c].session = "new" /\ conn' = [conn EXCEPT ![c].session = "asked"]
             \/ conn' = [conn EXCEPT ![c].media = TRUE]
      BY <1>17 DEF AskPublish
    <2>2. \A d \in Conns : conn'[d].net = conn[d].net
                           /\ (conn'[d].session # "closed" => conn[d].session # "closed")
      BY <2>1 DEF SessionsOK, Connections
    <2>3. QED
      BY <2>1, <2>2 DEF DeletedIsLeft
  <1>18. ASSUME NEW c \in Conns, SendMedia(c) PROVE DeletedIsLeft'
    <2>1. /\ life' = life /\ left' = left
          /\ \/ conn[c].session = "new" /\ conn' = [conn EXCEPT ![c].session = "asked"]
             \/ conn' = [conn EXCEPT ![c].media = TRUE]
      BY <1>18 DEF SendMedia
    <2>2. \A d \in Conns : conn'[d].net = conn[d].net
                           /\ (conn'[d].session # "closed" => conn[d].session # "closed")
      BY <2>1 DEF SessionsOK, Connections
    <2>3. QED
      BY <2>1, <2>2 DEF DeletedIsLeft
  <1>19. ASSUME NEW c \in Conns, Unlist(c) PROVE DeletedIsLeft'
    <2>1. PICK b \in BOOLEAN :
             /\ conn' = [conn EXCEPT ![c].listed = FALSE,
                                     ![c].session = IF b THEN "closed" ELSE @]
      BY <1>19 DEF Unlist
    <2>2. life' = life /\ left' = left
      BY <1>19 DEF Unlist
    <2>3. \A d \in Conns : conn'[d].net = conn[d].net
                           /\ (conn'[d].session # "closed" => conn[d].session # "closed")
      BY <2>1 DEF SessionsOK, Connections
    <2>4. QED
      BY <2>2, <2>3 DEF DeletedIsLeft
  <1>20. ASSUME NEW n \in Nets, EndNetwork(n) PROVE DeletedIsLeft'
    BY <1>20 DEF EndNetwork, DeletedIsLeft
  <1>21. ASSUME NEW t \in Threads, ExecutePublish(t) PROVE DeletedIsLeft'
    <2>1. Taken(t) /\ Front1(t).kind = "publish" /\ life' = life /\ left' = left
      BY <1>21 DEF ExecutePublish
    <2>2. PICK c \in Conns : c = Front1(t).conn
      BY <2>1, FrontFacts
    <2>3. conn[c].session = "asked"
      BY <2>1, <2>2, FrontFacts
    <2>4. PICK v \in {"closed", "published"} : conn' = [conn EXCEPT ![c].session = v]
      BY <1>21, <2>2 DEF ExecutePublish
    <2>5. \A d \in Conns : conn'[d].net = conn[d].net
                           /\ (conn'[d].session # "closed" => conn[d].session # "closed")
      BY <2>3, <2>4 DEF SessionsOK, Connections
    <2>6. QED
      BY <2>1, <2>5 DEF DeletedIsLeft
  <1>22. ASSUME NEW t \in Threads, ExecuteClose(t) PROVE DeletedIsLeft'
    <2>1. PICK c \in Conns : c = Front1(t).conn
      BY <1>22, FrontFacts DEF ExecuteClose
    <2>2. {c} \in SUBSET Conns /\ OnClose({c}) /\ life' = life /\ left' = left
      BY <1>22, <2>1 DEF ExecuteClose
    <2>3. QED
      BY <2>2, OnCloseFields DEF DeletedIsLeft
  <1>23. ASSUME NEW t \in Threads, ExecuteMedia(t) PROVE DeletedIsLeft'
    <2>1. Unheld(box') \in SUBSET Conns /\ OnClose(Unheld(box')) /\ life' = life /\ left' = left
      BY <1>23 DEF ExecuteMedia, Unheld
    <2>2. QED
      BY <2>1, OnCloseFields DEF DeletedIsLeft
  <1>24. ASSUME NEW t \in Threads, Leave(t) PROVE DeletedIsLeft'
    <2>1. left \subseteq left' /\ life' = life /\ conn' = conn
      BY <1>24 DEF Leave
    <2>2. QED
      BY <2>1 DEF DeletedIsLeft
  <1>25. CASE UNCHANGED vars
    BY <1>25 DEF vars, DeletedIsLeft
  <1>26. QED
    BY <1>2, <1>3, <1>4, <1>5, <1>6, <1>7, <1>8, <1>9, <1>10, <1>11, <1>12,
       <1>13, <1>14, <1>15, <1>16, <1>17, <1>18, <1>19, <1>20, <1>21, <1>22,
       <1>23, <1>24, <1>25 DEF Next

LEMMA QueuesDeletedStep ==
  TypeOK /\ NetworkInv /\ SessionInv /\ [Next]_vars => QueuesDeleted'
  <1> SUFFICES ASSUME TypeOK, NetworkInv, SessionInv, [Next]_vars PROVE QueuesDeleted'
    OBVIOUS
  <1>1. /\ QueuesOK /\ SessionsOK /\ QueuedInOrder /\ QueuesDeleted /\ ListedIsServed
    BY DEF TypeOK, SessionInv
  <1> USE <1>1
  <1>2. ASSUME Start PROVE QueuesDeleted'
    BY <1>2 DEF Start, QueuesDeleted
  <1>3. ASSUME LoadNetwork PROVE QueuesDeleted'
    BY <1>3 DEF LoadNetwork, QueuesDeleted
  <1>4. ASSUME StartNetworkEvent PROVE QueuesDeleted'
    BY <1>4 DEF StartNetworkEvent, QueuesDeleted
  <1>5. ASSUME StartNetwork PROVE QueuesDeleted'
    BY <1>5 DEF StartNetwork, QueuesDeleted
  <1>6. ASSUME Started PROVE QueuesDeleted'
    BY <1>6 DEF Started, QueuesDeleted
  <1>7. ASSUME Stop PROVE QueuesDeleted'
    BY <1>7 DEF Stop, QueuesDeleted
  <1>8. ASSUME ShutdownNetwork PROVE QueuesDeleted'
    BY <1>8 DEF ShutdownNetwork, QueuesDeleted
  <1>9. ASSUME JoinNetwork PROVE QueuesDeleted'
    BY <1>9 DEF JoinNetwork, QueuesDeleted
  <1>10. ASSUME ShutdownDataProcess PROVE QueuesDeleted'
    BY <1>10 DEF ShutdownDataProcess, QueuesDeleted
  <1>11. ASSUME ShutdownNetworkEvent PROVE QueuesDeleted'
    BY <1>11 DEF ShutdownNetworkEvent, QueuesDeleted
  <1>12. ASSUME Stopped PROVE QueuesDeleted'
    BY <1>12 DEF Stopped, QueuesDeleted
  <1>13. ASSUME CleanUpNetworks PROVE QueuesDeleted'
    BY <1>13 DEF CleanUpNetworks, QueuesDeleted
  <1>14. ASSUME CleanUpDataProcess PROVE QueuesDeleted'
    BY <1>14 DEF CleanUpDataProcess, DeleteQueue, QueuesDeleted
  <1>15. ASSUME CleanUpNetworkEvent PROVE QueuesDeleted'
    <2>1. /\ Unheld(box') \in SUBSET Conns /\ OnClose(Unheld(box'))
          /\ pc = "cleanEvent" /\ pc' = "clean"
      BY <1>15 DEF CleanUpNetworkEvent, DeleteQueue, Unheld
    <2>2. \A t \in Threads : box'[t] = <<>>
      BY <1>15 DEF CleanUpNetworkEvent, DeleteQueue, QueuesDeleted
    <2>3. box' \in [Threads -> Seq(Events)]
      BY <1>15, EmptySeq DEF CleanUpNetworkEvent, DeleteQueue, QueuesOK
    <2>4. \A n \in Nets : netRun[n] = "off"
      BY <2>1 DEF NetworkInv, ThreadsInSlots, Loading
    <2>5. ASSUME NEW c \in Conns, conn'[c].net # None PROVE conn'[c].session = "closed"
      <3>1. conn[c].net # None /\ conn[c].net \in Nets
        BY <2>1, <2>5, OnCloseFields DEF SessionsOK, Connections
      <3>2. ~conn[c].listed
        BY <2>4, <3>1 DEF ListedIsServed
      <3>3. c \in Unheld(box')
        BY <2>2, <2>3, <3>1, <3>2, OthersAreHeld, EmptySeq
      <3>4. QED
        BY <2>1, <3>3, OnCloseFields
    <2>6. QED
      BY <2>1, <2>2, <2>5 DEF QueuesDeleted
  <1>16. ASSUME NEW c \in Conns, NEW n \in Nets, NEW t \in EventThreads, Accept(c, n, t)
         PROVE  QueuesDeleted'
    <2>1. netRun[n] # "off" /\ pc' = pc
      BY <1>16 DEF Accept
    <2>2. pc \in {"startNets", "up", "stopNets", "joinNet"}
      BY <2>1, EventThreadsRun
    <2>3. QED
      BY <2>1, <2>2 DEF QueuesDeleted
  <1>17. ASSUME NEW c \in Conns, AskPublish(c) PROVE QueuesDeleted'
    <2>1. Served(c) /\ pc' = pc
      BY <1>17 DEF AskPublish
    <2>2. pc \in {"startNets", "up", "stopNets", "joinNet"}
      BY <2>1, ServedThreadRuns DEF SessionInv
    <2>3. QED
      BY <2>1, <2>2 DEF QueuesDeleted
  <1>18. ASSUME NEW c \in Conns, SendMedia(c) PROVE QueuesDeleted'
    <2>1. Served(c) /\ pc' = pc
      BY <1>18 DEF SendMedia
    <2>2. pc \in {"startNets", "up", "stopNets", "joinNet"}
      BY <2>1, ServedThreadRuns DEF SessionInv
    <2>3. QED
      BY <2>1, <2>2 DEF QueuesDeleted
  <1>19. ASSUME NEW c \in Conns, Unlist(c) PROVE QueuesDeleted'
    <2>1. Served(c) /\ pc' = pc
      BY <1>19 DEF Unlist
    <2>2. pc \in {"startNets", "up", "stopNets", "joinNet"}
      BY <2>1, ServedThreadRuns DEF SessionInv
    <2>3. QED
      BY <2>1, <2>2 DEF QueuesDeleted
  <1>20. ASSUME NEW n \in Nets, EndNetwork(n) PROVE QueuesDeleted'
    BY <1>20 DEF EndNetwork, QueuesDeleted
  <1>21. ASSUME NEW t \in Threads, ExecutePublish(t) PROVE QueuesDeleted'
    <2>1. Taken(t) /\ pc' = pc
      BY <1>21 DEF ExecutePublish
    <2>2. run[t] # "off"
      BY <2>1, TakenPlaces
    <2>3. pc \notin {"cleanEvent", "clean"}
      <3>1. CASE t = DataThread
        BY <2>2, <3>1 DEF NetworkInv, QueuesFollow
      <3>2. CASE t \in EventThreads
        BY <2>2, <3>2 DEF NetworkInv, QueuesFollow
      <3>3. QED
        BY <3>1, <3>2
    <2>4. QED
      BY <2>1, <2>3 DEF QueuesDeleted
  <1>22. ASSUME NEW t \in Threads, ExecuteClose(t) PROVE QueuesDeleted'
    <2>1. Taken(t) /\ pc' = pc
      BY <1>22 DEF ExecuteClose
    <2>2. run[t] # "off"
      BY <2>1, TakenPlaces
    <2>3. pc \notin {"cleanEvent", "clean"}
      <3>1. CASE t = DataThread
        BY <2>2, <3>1 DEF NetworkInv, QueuesFollow
      <3>2. CASE t \in EventThreads
        BY <2>2, <3>2 DEF NetworkInv, QueuesFollow
      <3>3. QED
        BY <3>1, <3>2
    <2>4. QED
      BY <2>1, <2>3 DEF QueuesDeleted
  <1>23. ASSUME NEW t \in Threads, ExecuteMedia(t) PROVE QueuesDeleted'
    <2>1. Taken(t) /\ pc' = pc
      BY <1>23 DEF ExecuteMedia
    <2>2. run[t] # "off"
      BY <2>1, TakenPlaces
    <2>3. pc \notin {"cleanEvent", "clean"}
      <3>1. CASE t = DataThread
        BY <2>2, <3>1 DEF NetworkInv, QueuesFollow
      <3>2. CASE t \in EventThreads
        BY <2>2, <3>2 DEF NetworkInv, QueuesFollow
      <3>3. QED
        BY <3>1, <3>2
    <2>4. QED
      BY <2>1, <2>3 DEF QueuesDeleted
  <1>24. ASSUME NEW t \in Threads, Leave(t) PROVE QueuesDeleted'
    BY <1>24 DEF Leave, QueuesDeleted
  <1>25. CASE UNCHANGED vars
    BY <1>25 DEF vars, QueuesDeleted
  <1>26. QED
    BY <1>2, <1>3, <1>4, <1>5, <1>6, <1>7, <1>8, <1>9, <1>10, <1>11, <1>12,
       <1>13, <1>14, <1>15, <1>16, <1>17, <1>18, <1>19, <1>20, <1>21, <1>22,
       <1>23, <1>24, <1>25 DEF Next

LEMMA OnlyLeftoversStrayStep ==
  TypeOK /\ NetworkInv /\ SessionInv /\ [Next]_vars => OnlyLeftoversStray'
  <1> SUFFICES ASSUME TypeOK, NetworkInv, SessionInv, [Next]_vars PROVE OnlyLeftoversStray'
    OBVIOUS
  <1>1. /\ QueuesOK /\ SessionsOK /\ QueuedInOrder /\ SourceIsOpen /\ DeletedIsLeft
        /\ OnlyLeftoversStray
    BY DEF TypeOK, SessionInv
  <1> USE <1>1
  <1>2. ASSUME Start PROVE OnlyLeftoversStray'
    BY <1>2 DEF Start, OnlyLeftoversStray
  <1>3. ASSUME LoadNetwork PROVE OnlyLeftoversStray'
    BY <1>3 DEF LoadNetwork, OnlyLeftoversStray
  <1>4. ASSUME StartNetworkEvent PROVE OnlyLeftoversStray'
    BY <1>4 DEF StartNetworkEvent, OnlyLeftoversStray
  <1>5. ASSUME StartNetwork PROVE OnlyLeftoversStray'
    BY <1>5 DEF StartNetwork, OnlyLeftoversStray
  <1>6. ASSUME Started PROVE OnlyLeftoversStray'
    BY <1>6 DEF Started, OnlyLeftoversStray
  <1>7. ASSUME Stop PROVE OnlyLeftoversStray'
    BY <1>7 DEF Stop, OnlyLeftoversStray
  <1>8. ASSUME ShutdownNetwork PROVE OnlyLeftoversStray'
    BY <1>8 DEF ShutdownNetwork, OnlyLeftoversStray
  <1>9. ASSUME JoinNetwork PROVE OnlyLeftoversStray'
    BY <1>9 DEF JoinNetwork, OnlyLeftoversStray
  <1>10. ASSUME ShutdownDataProcess PROVE OnlyLeftoversStray'
    BY <1>10 DEF ShutdownDataProcess, OnlyLeftoversStray
  <1>11. ASSUME ShutdownNetworkEvent PROVE OnlyLeftoversStray'
    BY <1>11 DEF ShutdownNetworkEvent, OnlyLeftoversStray
  <1>12. ASSUME Stopped PROVE OnlyLeftoversStray'
    BY <1>12 DEF Stopped, OnlyLeftoversStray
  <1>13. ASSUME CleanUpNetworks PROVE OnlyLeftoversStray'
    BY <1>13 DEF CleanUpNetworks, OnlyLeftoversStray
  <1>14. ASSUME CleanUpDataProcess PROVE OnlyLeftoversStray'
    <2>1. Unheld(box') \in SUBSET Conns /\ OnClose(Unheld(box')) /\ left' = left
      BY <1>14 DEF CleanUpDataProcess, DeleteQueue, Unheld
    <2>2. \A c \in Unheld(box') : conn[c].net # None
      BY DEF Unheld
    <2>3. stray' = stray \cup Strays({c \in Unheld(box') : conn[c].session # "closed"})
      BY <2>1, OnCloseFields
    <2>4. QED
      BY <2>1, <2>2, <2>3 DEF Strays, DeletedIsLeft, OnlyLeftoversStray
  <1>15. ASSUME CleanUpNetworkEvent PROVE OnlyLeftoversStray'
    <2>1. Unheld(box') \in SUBSET Conns /\ OnClose(Unheld(box')) /\ left' = left
      BY <1>15 DEF CleanUpNetworkEvent, DeleteQueue, Unheld
    <2>2. \A c \in Unheld(box') : conn[c].net # None
      BY DEF Unheld
    <2>3. stray' = stray \cup Strays({c \in Unheld(box') : conn[c].session # "closed"})
      BY <2>1, OnCloseFields
    <2>4. QED
      BY <2>1, <2>2, <2>3 DEF Strays, DeletedIsLeft, OnlyLeftoversStray
  <1>16. ASSUME NEW c \in Conns, NEW n \in Nets, NEW t \in EventThreads, Accept(c, n, t)
         PROVE  OnlyLeftoversStray'
    BY <1>16 DEF Accept, OnlyLeftoversStray
  <1>17. ASSUME NEW c \in Conns, AskPublish(c) PROVE OnlyLeftoversStray'
    BY <1>17 DEF AskPublish, OnlyLeftoversStray
  <1>18. ASSUME NEW c \in Conns, SendMedia(c) PROVE OnlyLeftoversStray'
    BY <1>18 DEF SendMedia, OnlyLeftoversStray
  <1>19. ASSUME NEW c \in Conns, Unlist(c) PROVE OnlyLeftoversStray'
    BY <1>19 DEF Unlist, OnlyLeftoversStray
  <1>20. ASSUME NEW n \in Nets, EndNetwork(n) PROVE OnlyLeftoversStray'
    BY <1>20 DEF EndNetwork, OnlyLeftoversStray
  <1>21. ASSUME NEW t \in Threads, ExecutePublish(t) PROVE OnlyLeftoversStray'
    <2>1. stray' = stray \cup (IF source = None THEN {} ELSE Strays({source})) /\ left' = left
      BY <1>21 DEF ExecutePublish
    <2>2. source # None => \A c \in Strays({source}) : c \in left
      BY DEF Strays, SourceIsOpen, DeletedIsLeft, SessionsOK
    <2>3. QED
      BY <2>1, <2>2 DEF OnlyLeftoversStray
  <1>22. ASSUME NEW t \in Threads, ExecuteClose(t) PROVE OnlyLeftoversStray'
    <2>1. PICK c \in Conns : c = Front1(t).conn /\ conn[c].net # None
      BY <1>22, FrontFacts DEF ExecuteClose
    <2>2. {c} \in SUBSET Conns /\ OnClose({c}) /\ left' = left
      BY <1>22, <2>1 DEF ExecuteClose
    <2>3. stray' = stray \cup Strays({d \in {c} : conn[d].session # "closed"})
      BY <2>2, OnCloseFields
    <2>4. QED
      BY <2>1, <2>2, <2>3 DEF Strays, DeletedIsLeft, OnlyLeftoversStray
  <1>23. ASSUME NEW t \in Threads, ExecuteMedia(t) PROVE OnlyLeftoversStray'
    <2>1. Unheld(box') \in SUBSET Conns /\ OnClose(Unheld(box')) /\ left' = left
      BY <1>23 DEF ExecuteMedia, Unheld
    <2>2. \A c \in Unheld(box') : conn[c].net # None
      BY DEF Unheld
    <2>3. stray' = stray \cup Strays({c \in Unheld(box') : conn[c].session # "closed"})
      BY <2>1, OnCloseFields
    <2>4. QED
      BY <2>1, <2>2, <2>3 DEF Strays, DeletedIsLeft, OnlyLeftoversStray
  <1>24. ASSUME NEW t \in Threads, Leave(t) PROVE OnlyLeftoversStray'
    <2>1. left \subseteq left' /\ stray' = stray
      BY <1>24 DEF Leave
    <2>2. QED
      BY <2>1 DEF OnlyLeftoversStray
  <1>25. CASE UNCHANGED vars
    BY <1>25 DEF vars, OnlyLeftoversStray
  <1>26. QED
    BY <1>2, <1>3, <1>4, <1>5, <1>6, <1>7, <1>8, <1>9, <1>10, <1>11, <1>12,
       <1>13, <1>14, <1>15, <1>16, <1>17, <1>18, <1>19, <1>20, <1>21, <1>22,
       <1>23, <1>24, <1>25 DEF Next

-----------------------------------------------------------------------------
(* The theorems.                                                            *)

Inv == TypeOK /\ NetworkInv /\ SessionInv

LEMMA InitInv == Init => Inv
  <1> SUFFICES ASSUME Init PROVE Inv
    OBVIOUS
  <1>1. \A t \in Threads : Len(box[t]) = 0
    BY EmptySeq DEF Init
  <1>2. SessionInv
    BY <1>1 DEF Init, SessionInv, ListedIsServed, QueuedInOrder, CloseIsQueued, Parted,
       SourceIsOpen, DeletedIsLeft, QueuesDeleted, OnlyLeftoversStray
  <1>3. QED
    BY <1>2, InitTypeOK, InitNetworkInv DEF Inv

LEMMA InvStep == Inv /\ [Next]_vars => Inv'
  <1> SUFFICES ASSUME Inv, [Next]_vars PROVE Inv'
    OBVIOUS
  <1>1. TypeOK /\ NetworkInv /\ SessionInv /\ ListedIsServed
    BY DEF Inv, SessionInv
  <1>2. TypeOK' /\ NetworkInv'
    BY <1>1, TypeOKStep, NetworkInvStep
  <1>3. SessionInv'
    BY <1>1, ListedIsServedStep, QueuedInOrderStep, CloseIsQueuedStep, SourceIsOpenStep,
       DeletedIsLeftStep, QueuesDeletedStep, OnlyLeftoversStrayStep DEF SessionInv
  <1>4. QED
    BY <1>2, <1>3 DEF Inv

LEMMA AlwaysInv == Spec => []Inv
  BY InitInv, InvStep, PTL DEF Spec

\* The values of the server's fields; among them, that LoadRTMPNetwork and the
\* loops over m_rtmpNetwork never leave the slots the server has.
THEOREM TypeCorrect == Spec => []TypeOK
  BY AlwaysInv, PTL DEF Inv

LEMMA NetworksFollow == Inv => NetworksFollowServer
  <1> SUFFICES ASSUME Inv PROVE NetworksFollowServer
    OBVIOUS
  <1> USE DEF Inv, NetworkInv, TypeOK
  <1>1. ASSUME pc = "up", NEW n \in bound PROVE netRun[n] = "on"
    <2>1. PICK s \in 1..(j - 1) : slot[s] = n
      BY <1>1 DEF BoundInSlots, Loading
    <2>2. Filled(s) /\ s \in 1..NumNetworks
      BY <1>1 DEF BoundInSlots, Loading, Filled, ControlOK
    <2>3. QED
      BY <1>1, <2>1, <2>2 DEF ThreadsInSlots
  <1>2. pc \in {"joinData", "joinEvent", "down", "cleanData", "cleanEvent", "clean"}
          => bound = {} /\ \A n \in Nets : netRun[n] = "off"
    BY DEF BoundInSlots, ThreadsInSlots, Loading
  <1>3. ASSUME NEW n \in bound, netRun[n] # "off" PROVE "event" \in made
    <2>1. n \in Nets
      BY DEF NetworksOK
    <2>2. pc \in {"startNets", "up", "stopNets", "joinNet"}
      BY <1>3, <2>1, EventThreadsRun
    <2>3. PICK s \in 1..(j - 1) : slot[s] = n
      BY <2>2 DEF BoundInSlots, Loading
    <2>4. j > 1
      BY <2>3 DEF ControlOK
    <2>5. QED
      BY <2>2, <2>4 DEF QueuesFollow, Loading
  <1>4. QED
    BY <1>1, <1>2, <1>3 DEF NetworksFollowServer

\* Over any number of starts and stops, whichever entries could not be bound and
\* whichever slots that emptied: a bound network runs while the server is up, is
\* stopped and unbound before the queues are told to stop, and never accepts a
\* connection without the queue that its events go to.
THEOREM ServerGovernsNetworks == Spec => []NetworksFollowServer
  BY AlwaysInv, NetworksFollow, PTL

LEMMA CleanIsEmpty == Inv => CleanUpLeavesNothing
<1> SUFFICES ASSUME Inv, pc = "clean"
             PROVE  /\ source = None
                    /\ \A c \in Conns : conn[c].net # None => conn[c].session = "closed"
  BY DEF CleanUpLeavesNothing
<1>1. \A c \in Conns : conn[c].net # None => conn[c].session = "closed"
  BY DEF Inv, SessionInv, QueuesDeleted
<1>2. source = None
  <2> SUFFICES ASSUME source # None PROVE FALSE
    OBVIOUS
  <2>1. source \in Conns
    BY DEF Inv, TypeOK, SessionsOK
  <2>2. conn[source].net # None /\ conn[source].session = "published"
    BY DEF Inv, SessionInv, SourceIsOpen
  <2> QED
    BY <1>1, <2>1, <2>2
<1> QED
  BY <1>1, <1>2

\* When CleanUp has deleted the two queues, in its order, with whatever events
\* the stopped threads had left in them, every session has been closed and the
\* registry is empty.
THEOREM CleanUpIsComplete == Spec => []CleanUpLeavesNothing
  BY AlwaysInv, CleanIsEmpty, PTL

\* A network object that was deleted is called only on behalf of a connection
\* whose close event its thread left in the queue.
THEOREM DeletedNetworksRest == Spec => []OnlyLeftoversStray
  BY AlwaysInv, PTL DEF Inv, SessionInv


==============================================================================
