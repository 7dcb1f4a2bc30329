----------------------------- MODULE EventQueue -----------------------------
(***************************************************************************)
(* CObjEventQueue of libcpputil: a pool of worker threads (CEventThread),  *)
(* one private queue per worker and one queue shared by all of them        *)
(* (CEventImp).  Every other part of the server talks through such queues. *)
(*                                                                         *)
(* One step is one access to memory that another thread may touch: the     *)
(* queues are locked, but m_bShutdown, m_nTriggeredEmptyQueue, the thread  *)
(* list, pthread_cond_signal and the event counts are used without a lock. *)
(***************************************************************************)
EXTENDS Naturals, Sequences, FiniteSets

CONSTANTS
    NumThreads,   \* nThreads of the constructor
    Events,       \* the CObjEvent objects posted to it, each at most once
    Ctl,          \* the thread that calls Start and Shutdown
    NoEvent,
    TimedWait,    \* m_nWaitMilliSecond # -1
    Spurious,     \* pthread_cond_wait may return without a signal
    NotifyModes,  \* the values of bNotify that callers pass
    MayShutdown   \* bound: whether Shutdown is called at all

Threads == 1..NumThreads   \* the CEventThread objects, in order of creation
Imp == 0                   \* the CEventImp: shared queue, head of the thread list
Dest == Threads \cup {Imp}
Walkers == Events \cup {Ctl}

ASSUME ConstantsAssumption ==
    /\ NumThreads \in Nat \ {0}
    /\ Ctl \notin Events
    /\ NoEvent \notin Events
    /\ TimedWait \in BOOLEAN /\ Spurious \in BOOLEAN /\ MayShutdown \in BOOLEAN
    /\ NotifyModes \subseteq BOOLEAN /\ NotifyModes # {}

VARIABLES
    queue,        \* m_listQueue of each CEventThread and of the CEventImp
    triggered,    \* m_nTriggeredEmptyQueue, likewise
    shutdown,     \* m_bShutdown, likewise
    next,         \* m_pNextObj of the thread list; Imp is the list head
    \* the workers
    pc, src,      \* where Run is, and which queue it is draining
    cur,          \* pEvent
    emptyCalled,  \* bEmptyCalled
    first,        \* the local "next" of ListMoveHead
    exited,       \* bSignal of the event that WaitForExit waits for
    \* the posters, one per event
    ppc, dest, notify,
    left,         \* nCount - i of the notification walk
    \* a walk over the thread list, by a poster or by Ctl
    item, tmp,    \* pItem and pItemTmp
    cpc,          \* where the caller of Start and Shutdown is
    \* history
    added,        \* the events put into each queue, in order
    done          \* the events of each queue that were executed, in order

queues == <<queue, triggered, added, done>>
locals == <<src, cur, emptyCalled, first>>
posters == <<ppc, dest, notify, left>>
walks == <<item, tmp>>
vars == <<queues, shutdown, next, pc, locals, exited, posters, walks, cpc>>

-----------------------------------------------------------------------------
(* The thread list: CObj's circular list, of which the unlocked walks use   *)
(* the forward pointers only.                                               *)

MovePc == {"headFirst", "headNext", "tailLink"}
ThreadPc == {"none", "created", "drain", "run", "flag", "recheck",
             "recheckAll", "loop", "wait", "blocked", "woken", "tail",
             "end", "exiting", "exitSignal", "ended"} \cup MovePc

\* m_mtxThread is held by a worker that is moving itself, and by nobody else.
MtxThreadFree == \A u \in Threads : pc[u] \notin MovePc

\* The node that points to t: prev, which every holder of the lock can trust.
PrevOf(t) == CHOOSE n \in Dest : n # t /\ next[n] = t

Unlinked(t) == [next EXCEPT ![PrevOf(t)] = next[t]]

\* The last node of the list while t is out of it: m_pPreObj of the head.
LastWithout(t) == CHOOSE n \in Dest \ {t} : next[n] = Imp

-----------------------------------------------------------------------------
(* The workers: CEventThread::Run.                                          *)

\* pthread_cond_signal: only a thread that is already blocked is woken.
Signalled(t) == [pc EXCEPT ![t] = IF @ = "blocked" THEN "woken" ELSE @]

Begin(t) ==
    /\ pc[t] = "created"
    /\ pc' = [pc EXCEPT ![t] = "drain"]
    /\ src' = [src EXCEPT ![t] = t]
    /\ emptyCalled' = [emptyCalled EXCEPT ![t] = FALSE]
    /\ UNCHANGED <<queues, shutdown, next, cur, first, exited, posters, walks, cpc>>

\* Mutant of TakeEvent: the head is read but not unlinked.
TakeEventLeavesIt(t) ==
    /\ pc[t] = "drain" /\ queue[src[t]] # <<>>
    /\ cur' = [cur EXCEPT ![t] = Head(queue[src[t]])]
    /\ pc' = [pc EXCEPT ![t] = "run"]
    /\ UNCHANGED <<queues, shutdown, next, src, emptyCalled,
                   first, exited, posters, walks, cpc>>

\* GetNextEvent, of the worker's own queue or of the shared one.
TakeEvent(t) ==
    /\ pc[t] = "drain" /\ queue[src[t]] # <<>>
    /\ cur' = [cur EXCEPT ![t] = Head(queue[src[t]])]
    /\ queue' = [queue EXCEPT ![src[t]] = Tail(@)]
    /\ pc' = [pc EXCEPT ![t] = "run"]
    /\ UNCHANGED <<triggered, added, done, shutdown, next, src, emptyCalled,
                   first, exited, posters, walks, cpc>>

\* ProcessEvent, then the test of m_bShutdown that follows it.
ProcessEvent(t) ==
    /\ pc[t] = "run"
    /\ done' = [done EXCEPT ![src[t]] = Append(@, cur[t])]
    /\ cur' = [cur EXCEPT ![t] = NoEvent]
    /\ pc' = [pc EXCEPT ![t] = IF shutdown[t] THEN "end" ELSE "drain"]
    /\ UNCHANGED <<queue, triggered, added, shutdown, next, src, emptyCalled,
                   first, exited, posters, walks, cpc>>

\* GetNextEvent returned NULL.
FoundEmpty(t) ==
    /\ pc[t] = "drain" /\ queue[src[t]] = <<>>
    /\ pc' = [pc EXCEPT ![t] = "flag"]
    /\ UNCHANGED <<queues, shutdown, next, locals, exited, posters, walks, cpc>>

\* Mutant of TriggerEmpty: a flag that was already set means nothing is new.
TriggerEmptySkipsShared(t) ==
    /\ pc[t] = "flag"
    /\ triggered' = [triggered EXCEPT ![src[t]] = TRUE]
    /\ emptyCalled' = [emptyCalled EXCEPT ![t] = @ \/ ~triggered[src[t]]]
    /\ src' = [src EXCEPT ![t] = Imp]
    /\ pc' = [pc EXCEPT ![t] = IF src[t] = t /\ ~triggered[t] THEN "drain"
                               ELSE IF emptyCalled'[t] THEN "recheck" ELSE "loop"]
    /\ UNCHANGED <<queue, added, done, shutdown, next, cur, first, exited,
                   posters, walks, cpc>>

\* MtxInterlockedExchange(&m_nTriggeredEmptyQueue, 1) and the OnQueueEmpty call.
TriggerEmpty(t) ==
    /\ pc[t] = "flag"
    /\ triggered' = [triggered EXCEPT ![src[t]] = TRUE]
    /\ emptyCalled' = [emptyCalled EXCEPT ![t] = @ \/ ~triggered[src[t]]]
    /\ src' = [src EXCEPT ![t] = Imp]
    /\ pc' = [pc EXCEPT ![t] = IF src[t] = t THEN "drain"
                               ELSE IF emptyCalled'[t] THEN "recheck" ELSE "loop"]
    /\ UNCHANGED <<queue, added, done, shutdown, next, cur, first, exited,
                   posters, walks, cpc>>

\* GetEventCount(this) > 0, read without the queue's lock.
RecheckOwn(t) ==
    /\ pc[t] = "recheck"
    /\ IF queue[t] # <<>>
       THEN /\ pc' = [pc EXCEPT ![t] = "drain"]
            /\ src' = [src EXCEPT ![t] = t]
       ELSE /\ pc' = [pc EXCEPT ![t] = "recheckAll"]
            /\ UNCHANGED src
    /\ UNCHANGED <<queues, shutdown, next, cur, emptyCalled, first, exited,
                   posters, walks, cpc>>

\* GetEventCount() > 0
RecheckAll(t) ==
    /\ pc[t] = "recheckAll"
    /\ pc' = [pc EXCEPT ![t] = IF queue[Imp] # <<>> THEN "drain" ELSE "loop"]
    /\ UNCHANGED <<queues, shutdown, next, locals, exited, posters, walks, cpc>>

\* MoveThread2Head, in the order in which ListMoveHead writes the pointers.
HeadUnlink(t) ==
    /\ pc[t] = "loop" /\ MtxThreadFree
    /\ next' = Unlinked(t)
    /\ pc' = [pc EXCEPT ![t] = "headFirst"]
    /\ UNCHANGED <<queues, shutdown, locals, exited, posters, walks, cpc>>

HeadFirst(t) ==
    /\ pc[t] = "headFirst"
    /\ first' = [first EXCEPT ![t] = next[Imp]]
    /\ next' = [next EXCEPT ![Imp] = t]
    /\ pc' = [pc EXCEPT ![t] = "headNext"]
    /\ UNCHANGED <<queues, shutdown, src, cur, emptyCalled, exited, posters, walks, cpc>>

HeadNext(t) ==
    /\ pc[t] = "headNext"
    /\ next' = [next EXCEPT ![t] = first[t]]
    /\ first' = [first EXCEPT ![t] = Imp]
    /\ pc' = [pc EXCEPT ![t] = "wait"]
    /\ UNCHANGED <<queues, shutdown, src, cur, emptyCalled, exited, posters, walks, cpc>>

\* The wait has no predicate: a signal sent before this step is lost.
EnterWait(t) ==
    /\ pc[t] = "wait"
    /\ pc' = [pc EXCEPT ![t] = "blocked"]
    /\ UNCHANGED <<queues, shutdown, next, locals, exited, posters, walks, cpc>>

\* pthread_cond_timedwait timed out (OnQueueWaitTimeout), or a spurious return.
WaitTimeout(t) ==
    /\ pc[t] = "blocked" /\ (TimedWait \/ Spurious)
    /\ pc' = [pc EXCEPT ![t] = "woken"]
    /\ UNCHANGED <<queues, shutdown, next, locals, exited, posters, walks, cpc>>

\* Mutant of AfterWait: m_bShutdown is not tested.
AfterWaitIgnoresShutdown(t) ==
    /\ pc[t] = "woken"
    /\ pc' = [pc EXCEPT ![t] = "tail"]
    /\ UNCHANGED <<queues, shutdown, next, locals, exited, posters, walks, cpc>>

\* The test of m_bShutdown after the wait.
AfterWait(t) ==
    /\ pc[t] = "woken"
    /\ pc' = [pc EXCEPT ![t] = IF shutdown[t] THEN "end" ELSE "tail"]
    /\ UNCHANGED <<queues, shutdown, next, locals, exited, posters, walks, cpc>>

\* MoveThread2Tail: t leaves the list pointing at the head ...
TailUnlink(t) ==
    /\ pc[t] = "tail" /\ MtxThreadFree
    /\ next' = [Unlinked(t) EXCEPT ![t] = Imp]
    /\ pc' = [pc EXCEPT ![t] = "tailLink"]
    /\ UNCHANGED <<queues, shutdown, locals, exited, posters, walks, cpc>>

\* ... and is linked behind the last node; then bEmptyCalled = FALSE.
TailLink(t) ==
    /\ pc[t] = "tailLink"
    /\ next' = [next EXCEPT ![LastWithout(t)] = t]
    /\ emptyCalled' = [emptyCalled EXCEPT ![t] = FALSE]
    /\ src' = [src EXCEPT ![t] = t]
    /\ pc' = [pc EXCEPT ![t] = "drain"]
    /\ UNCHANGED <<queues, shutdown, cur, first, exited, posters, walks, cpc>>

\* LABEL_END
LeaveRun(t) ==
    /\ pc[t] = "end"
    /\ shutdown' = [shutdown EXCEPT ![t] = FALSE]
    /\ pc' = [pc EXCEPT ![t] = "exiting"]
    /\ UNCHANGED <<queues, next, locals, exited, posters, walks, cpc>>

\* EvWaitSetEvent writes bSignal and signals without taking the event's mutex.
SetExited(t) ==
    /\ pc[t] = "exiting"
    /\ exited' = [exited EXCEPT ![t] = TRUE]
    /\ pc' = [pc EXCEPT ![t] = "exitSignal"]
    /\ UNCHANGED <<queues, shutdown, next, locals, posters, walks, cpc>>

SignalExited(t) ==
    /\ pc[t] = "exitSignal"
    /\ pc' = [pc EXCEPT ![t] = "ended"]
    /\ cpc' = IF cpc = "joinBlocked" /\ tmp[Ctl] = t THEN "joinVisit" ELSE cpc
    /\ UNCHANGED <<queues, shutdown, next, locals, exited, posters, walks>>

Worker(t) ==
    \/ Begin(t) \/ TakeEvent(t) \/ ProcessEvent(t) \/ FoundEmpty(t)
    \/ TriggerEmpty(t) \/ RecheckOwn(t) \/ RecheckAll(t)
    \/ HeadUnlink(t) \/ HeadFirst(t) \/ HeadNext(t) \/ EnterWait(t)
    \/ AfterWait(t) \/ TailUnlink(t) \/ TailLink(t)
    \/ LeaveRun(t) \/ SetExited(t) \/ SignalExited(t)

-----------------------------------------------------------------------------
(* The posters: PostEvent of CEventThread (dest a thread) and of CEventImp  *)
(* (dest = Imp).  They differ in whom they notify.                          *)

PostCheck(e) ==
    /\ ppc[e] = "new"
    /\ \E d \in Dest, n \in NotifyModes :
         /\ dest' = [dest EXCEPT ![e] = d]
         /\ notify' = [notify EXCEPT ![e] = n]
         /\ ppc' = [ppc EXCEPT ![e] = IF shutdown[d] THEN "rejected" ELSE "checked"]
    /\ UNCHANGED <<queues, shutdown, next, pc, locals, exited, left, walks, cpc>>

\* Mutant of PostAdd: ListAddHead for ListAddTail.
PostAddAtHead(e) ==
    /\ ppc[e] = "checked"
    /\ queue' = [queue EXCEPT ![dest[e]] = <<e>> \o @]
    /\ added' = [added EXCEPT ![dest[e]] = Append(@, e)]
    /\ left' = [left EXCEPT ![e] = IF dest[e] = Imp THEN Len(queue'[Imp]) ELSE 0]
    /\ ppc' = [ppc EXCEPT ![e] = "added"]
    /\ UNCHANGED <<triggered, done, shutdown, next, pc, locals, exited, dest,
                   notify, walks, cpc>>

PostAdd(e) ==
    /\ ppc[e] = "checked"
    /\ queue' = [queue EXCEPT ![dest[e]] = Append(@, e)]
    /\ added' = [added EXCEPT ![dest[e]] = Append(@, e)]
    /\ left' = [left EXCEPT ![e] = IF dest[e] = Imp THEN Len(queue'[Imp]) ELSE 0]
    /\ ppc' = [ppc EXCEPT ![e] = "added"]
    /\ UNCHANGED <<triggered, done, shutdown, next, pc, locals, exited, dest,
                   notify, walks, cpc>>

\* Mutant of PostClear: the flag is not reset.
PostKeepsFlag(e) ==
    /\ ppc[e] = "added"
    /\ ppc' = [ppc EXCEPT ![e] = IF ~notify[e] THEN "accepted"
                                 ELSE IF dest[e] = Imp THEN "walk" ELSE "signal"]
    /\ UNCHANGED <<queues, shutdown, next, pc, locals, exited,
                   dest, notify, left, walks, cpc>>

\* MtxInterlockedExchange(&m_nTriggeredEmptyQueue, 0)
PostClear(e) ==
    /\ ppc[e] = "added"
    /\ triggered' = [triggered EXCEPT ![dest[e]] = FALSE]
    /\ ppc' = [ppc EXCEPT ![e] = IF ~notify[e] THEN "accepted"
                                 ELSE IF dest[e] = Imp THEN "walk" ELSE "signal"]
    /\ UNCHANGED <<queue, added, done, shutdown, next, pc, locals, exited,
                   dest, notify, left, walks, cpc>>

PostSignal(e) ==
    /\ ppc[e] = "signal"
    /\ pc' = Signalled(dest[e])
    /\ ppc' = [ppc EXCEPT ![e] = "accepted"]
    /\ UNCHANGED <<queues, shutdown, next, locals, exited, dest, notify, left,
                   walks, cpc>>

\* A walk's reads: pItem = pItemHead->m_pNextObj, and then, in the loop,
\* pItemTmp = pItem and pItem = pItem->m_pNextObj.
WalkBegin(w) == /\ item' = [item EXCEPT ![w] = next[Imp]]
                /\ UNCHANGED tmp
WalkNext(w) ==  /\ tmp' = [tmp EXCEPT ![w] = item[w]]
                /\ item' = [item EXCEPT ![w] = next[item[w]]]
\* The locals are gone when the function returns.
WalkEnd(w) ==   /\ tmp' = [tmp EXCEPT ![w] = Imp]
                /\ item' = [item EXCEPT ![w] = Imp]

PostWalk(e) ==
    /\ ppc[e] = "walk"
    /\ WalkBegin(e)
    /\ ppc' = [ppc EXCEPT ![e] = "visit"]
    /\ UNCHANGED <<queues, shutdown, next, pc, locals, exited, dest, notify, left, cpc>>

\* Mutant of PostVisit: the walk is bounded by nCount only.
PostVisitPastHead(e) ==
    /\ ppc[e] = "visit"
    /\ IF left[e] > 0
       THEN /\ WalkNext(e)
            /\ ppc' = [ppc EXCEPT ![e] = "notify"]
            /\ UNCHANGED left
       ELSE /\ ppc' = [ppc EXCEPT ![e] = "accepted"]
            /\ WalkEnd(e)
            /\ left' = [left EXCEPT ![e] = 0]
    /\ UNCHANGED <<queues, shutdown, next, pc, locals, exited, dest, notify, cpc>>

PostVisit(e) ==
    /\ ppc[e] = "visit"
    /\ IF item[e] # Imp /\ left[e] > 0
       THEN /\ WalkNext(e)
            /\ ppc' = [ppc EXCEPT ![e] = "notify"]
            /\ UNCHANGED left
       ELSE /\ ppc' = [ppc EXCEPT ![e] = "accepted"]
            /\ WalkEnd(e)
            /\ left' = [left EXCEPT ![e] = 0]
    /\ UNCHANGED <<queues, shutdown, next, pc, locals, exited, dest, notify, cpc>>

PostNotify(e) ==
    /\ ppc[e] = "notify"
    /\ pc' = Signalled(tmp[e])
    /\ left' = [left EXCEPT ![e] = @ - 1]
    /\ ppc' = [ppc EXCEPT ![e] = "visit"]
    /\ UNCHANGED <<queues, shutdown, next, locals, exited, dest, notify, walks, cpc>>

Poster(e) == \/ PostAdd(e) \/ PostClear(e) \/ PostSignal(e)
             \/ PostWalk(e) \/ PostVisit(e) \/ PostNotify(e)

-----------------------------------------------------------------------------
(* Start and Shutdown of CEventImp, each called once, by one thread.  Their *)
(* walks do not take m_mtxThread either.                                    *)

CtlFrame == <<queues, next, locals, posters>>

StartBegin ==
    /\ cpc = "new" /\ WalkBegin(Ctl)
    /\ cpc' = "startVisit"
    /\ UNCHANGED <<CtlFrame, shutdown, pc, exited>>

\* Mutant of StartVisit: the next node is read after the thread was started.
StartVisitReadsLate ==
    /\ cpc = "startVisit"
    /\ LET node == IF tmp[Ctl] = Imp THEN item[Ctl] ELSE next[tmp[Ctl]] IN
       IF node # Imp
       THEN /\ tmp' = [tmp EXCEPT ![Ctl] = node] /\ UNCHANGED item
            /\ cpc' = "startThread"
       ELSE WalkEnd(Ctl) /\ cpc' = "running"
    /\ UNCHANGED <<CtlFrame, shutdown, pc, exited>>

StartVisit ==
    /\ cpc = "startVisit"
    /\ IF item[Ctl] # Imp
       THEN WalkNext(Ctl) /\ cpc' = "startThread"
       ELSE WalkEnd(Ctl) /\ cpc' = "running"
    /\ UNCHANGED <<CtlFrame, shutdown, pc, exited>>

\* CEventThread::Start: a thread that is running is not created again.
StartThread ==
    /\ cpc = "startThread"
    /\ shutdown' = [shutdown EXCEPT ![tmp[Ctl]] = FALSE]
    /\ IF pc[tmp[Ctl]] = "none"
       THEN /\ pc' = [pc EXCEPT ![tmp[Ctl]] = "created"]
            /\ exited' = [exited EXCEPT ![tmp[Ctl]] = FALSE]
       ELSE UNCHANGED <<pc, exited>>
    /\ cpc' = "startVisit"
    /\ UNCHANGED <<CtlFrame, walks>>

ShutdownBegin ==
    /\ cpc = "running" /\ MayShutdown
    /\ shutdown' = [shutdown EXCEPT ![Imp] = TRUE]
    /\ cpc' = "shutWalk"
    /\ UNCHANGED <<CtlFrame, pc, exited, walks>>

ShutdownWalk ==
    /\ cpc \in {"shutWalk", "joinWalk"} /\ WalkBegin(Ctl)
    /\ cpc' = IF cpc = "shutWalk" THEN "shutVisit" ELSE "joinVisit"
    /\ UNCHANGED <<CtlFrame, shutdown, pc, exited>>

ShutdownVisit ==
    /\ cpc = "shutVisit"
    /\ IF item[Ctl] # Imp
       THEN WalkNext(Ctl) /\ cpc' = "shutFlag"
       ELSE WalkEnd(Ctl) /\ cpc' = "joinWalk"
    /\ UNCHANGED <<CtlFrame, shutdown, pc, exited>>

\* CEventThread::Shutdown: the flag first, then the signal.
ShutdownFlag ==
    /\ cpc = "shutFlag"
    /\ shutdown' = [shutdown EXCEPT ![tmp[Ctl]] = TRUE]
    /\ cpc' = "shutSignal"
    /\ UNCHANGED <<CtlFrame, pc, exited, walks>>

ShutdownSignal ==
    /\ cpc = "shutSignal"
    /\ pc' = Signalled(tmp[Ctl])
    /\ cpc' = "shutVisit"
    /\ UNCHANGED <<CtlFrame, shutdown, exited, walks>>

JoinVisit ==
    /\ cpc = "joinVisit"
    /\ IF item[Ctl] # Imp
       THEN WalkNext(Ctl) /\ cpc' = "joinTest" /\ UNCHANGED shutdown
       ELSE /\ shutdown' = [shutdown EXCEPT ![Imp] = FALSE]
            /\ cpc' = "stopped" /\ WalkEnd(Ctl)
    /\ UNCHANGED <<CtlFrame, pc, exited>>

\* EvWaitForEvent tests bSignal, and waits once if it was not set.
JoinTest ==
    /\ cpc = "joinTest"
    /\ cpc' = IF exited[tmp[Ctl]] THEN "joinVisit" ELSE "joinWait"
    /\ UNCHANGED <<CtlFrame, shutdown, pc, exited, walks>>

JoinWait ==
    /\ cpc = "joinWait"
    /\ cpc' = "joinBlocked"
    /\ UNCHANGED <<CtlFrame, shutdown, pc, exited, walks>>

JoinSpurious ==
    /\ cpc = "joinBlocked" /\ Spurious
    /\ cpc' = "joinVisit"
    /\ UNCHANGED <<CtlFrame, shutdown, pc, exited, walks>>

Control == \/ StartBegin \/ StartVisit \/ StartThread
           \/ ShutdownWalk \/ ShutdownVisit \/ ShutdownFlag \/ ShutdownSignal
           \/ JoinVisit \/ JoinTest \/ JoinWait

-----------------------------------------------------------------------------
\* The constructor links the threads in the order of their creation.
InitialNext == [d \in Dest |-> (d + 1) % (NumThreads + 1)]

Init ==
    /\ queue = [d \in Dest |-> <<>>]
    /\ triggered = [d \in Dest |-> FALSE]
    /\ added = [d \in Dest |-> <<>>]
    /\ done = [d \in Dest |-> <<>>]
    /\ shutdown = [d \in Dest |-> FALSE]
    /\ next = InitialNext
    /\ pc = [t \in Threads |-> "none"]
    /\ src = [t \in Threads |-> t]
    /\ cur = [t \in Threads |-> NoEvent]
    /\ emptyCalled = [t \in Threads |-> FALSE]
    /\ first = [t \in Threads |-> Imp]
    /\ exited = [t \in Threads |-> TRUE]
    /\ ppc = [e \in Events |-> "new"]
    /\ dest = [e \in Events |-> Imp]
    /\ notify = [e \in Events |-> TRUE]
    /\ left = [e \in Events |-> 0]
    /\ item = [w \in Walkers |-> Imp]
    /\ tmp = [w \in Walkers |-> Imp]
    /\ cpc = "new"

Next ==
    \/ \E t \in Threads : Worker(t) \/ WaitTimeout(t)
    \/ \E e \in Events : PostCheck(e) \/ Poster(e)
    \/ Control \/ ShutdownBegin \/ JoinSpurious

\* The scheduler runs every thread that can run, a mutex is handed to whoever
\* keeps asking for it, a call of PostEvent or Start or Shutdown that has begun
\* goes on, and OnExecute returns.  Nothing forces an event to be posted,
\* Shutdown to be called, a spurious return, or a wait to time out: a wait of
\* m_nWaitMilliSecond = -1 does not, so the properties say what they need.
Fairness ==
    /\ \A t \in Threads : /\ WF_vars(Worker(t))
                          /\ SF_vars(HeadUnlink(t)) /\ SF_vars(TailUnlink(t))
    /\ \A e \in Events : WF_vars(Poster(e))
    /\ WF_vars(Control)

Spec == Init /\ [][Next]_vars
FairSpec == Spec /\ Fairness

-----------------------------------------------------------------------------
(* Safety.                                                                  *)

\* The shape of the state: which values each field of the C++ objects takes.
QueuesOK ==
    /\ queue \in [Dest -> Seq(Events)]
    /\ added \in [Dest -> Seq(Events)]
    /\ done \in [Dest -> Seq(Events)]
    /\ triggered \in [Dest -> BOOLEAN]
    /\ shutdown \in [Dest -> BOOLEAN]
    /\ next \in [Dest -> Dest]

WorkersOK ==
    /\ pc \in [Threads -> ThreadPc]
    /\ src \in [Threads -> Dest]
    /\ \A t \in Threads : src[t] = t \/ src[t] = Imp
    /\ cur \in [Threads -> Events \cup {NoEvent}]
    /\ \A t \in Threads : pc[t] = "run" => cur[t] \in Events
    /\ emptyCalled \in [Threads -> BOOLEAN]
    /\ first \in [Threads -> Dest]
    /\ exited \in [Threads -> BOOLEAN]

PostersOK ==
    /\ ppc \in [Events -> {"new", "rejected", "checked", "added", "signal",
                           "walk", "visit", "notify", "accepted"}]
    /\ dest \in [Events -> Dest]
    /\ notify \in [Events -> BOOLEAN]
    /\ left \in [Events -> Nat]
    /\ \A e \in Events : ppc[e] = "signal" => dest[e] \in Threads
    /\ \A e \in Events : ppc[e] = "notify" => left[e] > 0 /\ tmp[e] \in Threads

ControlOK ==
    /\ item \in [Walkers -> Dest] /\ tmp \in [Walkers -> Dest]
    /\ cpc \in {"new", "startVisit", "startThread", "running", "shutWalk",
                "shutVisit", "shutFlag", "shutSignal", "joinWalk", "joinVisit",
                "joinTest", "joinWait", "joinBlocked", "stopped"}
    /\ cpc \in {"startThread", "shutFlag", "shutSignal", "joinTest", "joinWait",
                "joinBlocked"} => tmp[Ctl] \in Threads

TypeOK == QueuesOK /\ WorkersOK /\ PostersOK /\ ControlOK

\* The event of queue d that t is executing, as a sequence of at most one.
Running(t, d) == IF pc[t] = "run" /\ src[t] = d THEN <<cur[t]>> ELSE <<>>

\* What a session relies on when it pins its events to one thread: they are
\* executed exactly once and in the order in which PostEvent queued them,
\* whatever the two queues, the wake-ups and Shutdown do in between.
OwnQueueInOrder ==
    \A t \in Threads : done[t] \o Running(t, t) \o queue[t] = added[t]

\* A thread that sleeps on a non-empty private queue has missed its signal
\* (the wait has no predicate).  The flag is what is left of the lost wake-up:
\* it says "not yet reported empty", so the next wake-up for any reason ends in
\* OnQueueEmptyInThread and in a second look at the queue.
LostWakeupIsFlagged ==
    \A t \in Threads :
        pc[t] = "blocked" /\ queue[t] # <<>>
          => triggered[t] = FALSE \/ \E e \in Events : dest[e] = t /\ ppc[e] = "added"

\* The inductive form of LostWakeupIsFlagged: from the moment a worker has seen
\* its own queue empty, an event in it is announced by the flag, or by a poster
\* about to clear the flag, or bEmptyCalled obliges the worker to look again.
Announced(t) ==
    queue[t] # <<>> =>
      triggered[t] = FALSE \/ \E e \in Events : dest[e] = t /\ ppc[e] = "added"
Settled == MovePc \cup {"recheckAll", "loop", "wait", "blocked", "woken", "tail"}
FlagInv ==
    \A t \in Threads :
        /\ pc[t] \in Settled \/ (pc[t] = "flag" /\ src[t] = t) => Announced(t)
        /\ pc[t] = "recheck" \/ (pc[t] \in {"drain", "run", "flag"} /\ src[t] = Imp)
             => Announced(t) \/ emptyCalled[t]

\* Start's walk runs while the threads it has already started move themselves
\* about in the list; it still creates every thread.
StartReachesAll ==
    cpc \in {"running", "shutWalk"} => \A t \in Threads : pc[t] # "none"

-----------------------------------------------------------------------------
(* Liveness.                                                                *)

ShutdownCalled == cpc \notin {"new", "startVisit", "startThread", "running"}
StartCalled == cpc # "new"
Pending(e) == \E d \in Dest : \E i \in 1..Len(queue[d]) : queue[d][i] = e

\* The wait of t ends again and again, by a signal or by its timeout.
WokenAgain(t) == []<>(pc[t] # "blocked")

\* Whatever signals were lost before, an event that PostEvent put into a queue
\* is executed once a thread that drains this queue is woken again, for any
\* reason: another event's signal is as good as its own, and a queue whose wait
\* has a timeout needs none.  Only Shutdown may leave it there.
PendingIsExecuted ==
    \A e \in Events, t \in Threads :
        WokenAgain(t) =>
          (dest[e] \in {t, Imp} /\ Pending(e) /\ StartCalled
             ~> ~Pending(e) \/ ShutdownCalled)

\* A thread whose m_bShutdown was set by Shutdown ends, although the signal that
\* tells it so may be lost: at most the event in hand is executed first.
ToldThreadEnds ==
    \A t \in Threads :
        WokenAgain(t) => (cpc = "shutSignal" /\ tmp[Ctl] = t ~> pc[t] = "ended")

-----------------------------------------------------------------------------
(* The queue implements EventBox.                                           *)

Posted == {e \in Events : ppc[e] \notin {"new", "rejected", "checked"}}
InHand(t) == IF pc[t] = "run" THEN [from |-> src[t], event |-> cur[t]]
             ELSE [from |-> Imp, event |-> NoEvent]
Executed == {e \in Events : \E d \in Dest : \E i \in 1..Len(done[d]) : done[d][i] = e}

Box == INSTANCE EventBox WITH posted <- Posted, box <- queue,
                              hand <- [t \in Threads |-> InHand(t)],
                              executed <- Executed

\* Every step of the queue is a step of the box or changes nothing a caller
\* can tell: an event is delivered to the thread it was posted to, from the
\* front of its queue, and never a second time.
ImplementsBox == Box!Spec
=============================================================================
