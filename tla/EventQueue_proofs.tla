-------------------------- MODULE EventQueue_proofs --------------------------
(* Theorems about EventQueue, for every number of threads and every set of   *)
(* events.                                                                   *)
EXTENDS EventQueue, SequenceTheorems, TLAPS

USE ConstantsAssumption

\* The list head is not one of the threads.
LEMMA ImpNotThread == Imp \notin Threads
  BY DEF Imp, Threads

USE ImpNotThread DEF Dest, Walkers

LEMMA InitTypeOK == Init => TypeOK
  <1>1. InitialNext \in [Dest -> Dest]
    BY DEF InitialNext, Imp, Threads
  <1>2. QED
    BY <1>1 DEF Init, TypeOK, QueuesOK, WorkersOK, PostersOK, ControlOK, ThreadPc

\* Every step keeps the fields of the objects within their types.
LEMMA TypeOKStep == TypeOK /\ [Next]_vars => TypeOK'
  <1> SUFFICES ASSUME TypeOK, [Next]_vars PROVE TypeOK'
    OBVIOUS
  <1> USE DEF TypeOK, ThreadPc, MovePc, queues, locals, posters, walks, CtlFrame
  <1>1. ASSUME NEW t \in Threads, Begin(t) PROVE TypeOK'
    BY <1>1 DEF Begin,
       QueuesOK, WorkersOK, PostersOK, ControlOK
  <1>2. ASSUME NEW t \in Threads, TakeEvent(t) PROVE TypeOK'
    <2>1. QueuesOK'
      BY <1>2 DEF TakeEvent, QueuesOK, WorkersOK, PostersOK, ControlOK
    <2>2. WorkersOK'
      BY SMTT(60), <1>2 DEF TakeEvent, WorkersOK, QueuesOK, PostersOK, ControlOK
    <2>3. PostersOK'
      BY <1>2 DEF TakeEvent, PostersOK, ControlOK, QueuesOK
    <2>4. ControlOK'
      BY <1>2 DEF TakeEvent, ControlOK, QueuesOK, PostersOK
    <2>5. QED
      BY <2>1, <2>2, <2>3, <2>4
  <1>3. ASSUME NEW t \in Threads, ProcessEvent(t) PROVE TypeOK'
    <2>1. QueuesOK'
      BY <1>3 DEF ProcessEvent, QueuesOK, WorkersOK, PostersOK, ControlOK
    <2>2. WorkersOK'
      BY <1>3 DEF ProcessEvent, WorkersOK, QueuesOK, PostersOK, ControlOK
    <2>3. PostersOK'
      BY <1>3 DEF ProcessEvent, PostersOK, ControlOK, QueuesOK
    <2>4. ControlOK'
      BY <1>3 DEF ProcessEvent, ControlOK, QueuesOK, PostersOK
    <2>5. QED
      BY <2>1, <2>2, <2>3, <2>4
  <1>4. ASSUME NEW t \in Threads, FoundEmpty(t) PROVE TypeOK'
    BY <1>4 DEF FoundEmpty,
       QueuesOK, WorkersOK, PostersOK, ControlOK
  <1>5. ASSUME NEW t \in Threads, TriggerEmpty(t) PROVE TypeOK'
    BY <1>5 DEF TriggerEmpty,
       QueuesOK, WorkersOK, PostersOK, ControlOK
  <1>6. ASSUME NEW t \in Threads, RecheckOwn(t) PROVE TypeOK'
    <2>1. \/ /\ pc' = [pc EXCEPT ![t] = "drain"] /\ src' = [src EXCEPT ![t] = t]
          \/ /\ pc' = [pc EXCEPT ![t] = "recheckAll"] /\ src' = src
      BY <1>6 DEF RecheckOwn
    <2>2. UNCHANGED <<queues, shutdown, next, cur, emptyCalled, first, exited,
                      posters, walks, cpc>>
      BY <1>6 DEF RecheckOwn
    <2>3. WorkersOK'
      BY <2>1, <2>2 DEF WorkersOK
    <2>4. QueuesOK' /\ PostersOK' /\ ControlOK'
      BY <2>2 DEF QueuesOK, PostersOK, ControlOK
    <2>5. QED
      BY <2>3, <2>4
  <1>7. ASSUME NEW t \in Threads, RecheckAll(t) PROVE TypeOK'
    BY <1>7 DEF RecheckAll,
       QueuesOK, WorkersOK, PostersOK, ControlOK
  <1>8. ASSUME NEW t \in Threads, HeadUnlink(t) PROVE TypeOK'
    BY <1>8 DEF HeadUnlink, Unlinked,
       QueuesOK, WorkersOK, PostersOK, ControlOK
  <1>9. ASSUME NEW t \in Threads, HeadFirst(t) PROVE TypeOK'
    BY <1>9 DEF HeadFirst,
       QueuesOK, WorkersOK, PostersOK, ControlOK
  <1>10. ASSUME NEW t \in Threads, HeadNext(t) PROVE TypeOK'
    BY <1>10 DEF HeadNext,
       QueuesOK, WorkersOK, PostersOK, ControlOK
  <1>11. ASSUME NEW t \in Threads, EnterWait(t) PROVE TypeOK'
    BY <1>11 DEF EnterWait,
       QueuesOK, WorkersOK, PostersOK, ControlOK
  <1>12. ASSUME NEW t \in Threads, WaitTimeout(t) PROVE TypeOK'
    BY <1>12 DEF WaitTimeout,
       QueuesOK, WorkersOK, PostersOK, ControlOK
  <1>13. ASSUME NEW t \in Threads, AfterWait(t) PROVE TypeOK'
    BY <1>13 DEF AfterWait,
       QueuesOK, WorkersOK, PostersOK, ControlOK
  <1>14. ASSUME NEW t \in Threads, TailUnlink(t) PROVE TypeOK'
    BY <1>14 DEF TailUnlink, Unlinked,
       QueuesOK, WorkersOK, PostersOK, ControlOK
  <1>15. ASSUME NEW t \in Threads, TailLink(t) PROVE TypeOK'
    BY <1>15 DEF TailLink,
       QueuesOK, WorkersOK, PostersOK, ControlOK
  <1>16. ASSUME NEW t \in Threads, LeaveRun(t) PROVE TypeOK'
    BY <1>16 DEF LeaveRun,
       QueuesOK, WorkersOK, PostersOK, ControlOK
  <1>17. ASSUME NEW t \in Threads, SetExited(t) PROVE TypeOK'
    BY <1>17 DEF SetExited,
       QueuesOK, WorkersOK, PostersOK, ControlOK
  <1>18. ASSUME NEW t \in Threads, SignalExited(t) PROVE TypeOK'
    BY <1>18 DEF SignalExited,
       QueuesOK, WorkersOK, PostersOK, ControlOK
  <1>19. ASSUME NEW e \in Events, PostCheck(e) PROVE TypeOK'
    <2>1. QueuesOK'
      BY <1>19 DEF PostCheck, QueuesOK, WorkersOK, PostersOK, ControlOK
    <2>2. WorkersOK'
      BY <1>19 DEF PostCheck, WorkersOK, QueuesOK, PostersOK, ControlOK
    <2>3. PostersOK'
      BY <1>19 DEF PostCheck, PostersOK, ControlOK, QueuesOK
    <2>4. ControlOK'
      BY <1>19 DEF PostCheck, ControlOK, QueuesOK, PostersOK
    <2>5. QED
      BY <2>1, <2>2, <2>3, <2>4
  <1>20. ASSUME NEW e \in Events, PostAdd(e) PROVE TypeOK'
    <2>1. QueuesOK'
      BY <1>20 DEF PostAdd, QueuesOK, WorkersOK, PostersOK, ControlOK
    <2>2. WorkersOK'
      BY <1>20 DEF PostAdd, WorkersOK, QueuesOK, PostersOK, ControlOK
    <2>3. PostersOK'
      BY <1>20 DEF PostAdd, PostersOK, ControlOK, QueuesOK
    <2>4. ControlOK'
      BY <1>20 DEF PostAdd, ControlOK, QueuesOK, PostersOK
    <2>5. QED
      BY <2>1, <2>2, <2>3, <2>4
  <1>21. ASSUME NEW e \in Events, PostClear(e) PROVE TypeOK'
    BY <1>21 DEF PostClear,
       QueuesOK, WorkersOK, PostersOK, ControlOK
  <1>22. ASSUME NEW e \in Events, PostSignal(e) PROVE TypeOK'
    BY <1>22 DEF PostSignal, Signalled,
       QueuesOK, WorkersOK, PostersOK, ControlOK
  <1>23. ASSUME NEW e \in Events, PostWalk(e) PROVE TypeOK'
    BY <1>23 DEF PostWalk, WalkBegin,
       QueuesOK, WorkersOK, PostersOK, ControlOK
  <1>24. ASSUME NEW e \in Events, PostVisit(e) PROVE TypeOK'
    <2>1. CASE item[e] # Imp /\ left[e] > 0
      <3>1. /\ tmp' = [tmp EXCEPT ![e] = item[e]]
            /\ item' = [item EXCEPT ![e] = next[item[e]]]
            /\ ppc' = [ppc EXCEPT ![e] = "notify"]
            /\ UNCHANGED <<queues, shutdown, next, pc, locals, exited, dest, notify, left, cpc>>
        BY <1>24, <2>1 DEF PostVisit, WalkNext
      <3>2. item[e] \in Threads /\ next[item[e]] \in Dest
        BY <2>1 DEF ControlOK, QueuesOK
      <3>3. QueuesOK' /\ WorkersOK'
        BY <3>1 DEF QueuesOK, WorkersOK
      <3>4. PostersOK'
        BY <2>1, <3>1, <3>2 DEF PostersOK, ControlOK
      <3>5. ControlOK'
        BY <3>1, <3>2 DEF ControlOK
      <3>6. QED
        BY <3>3, <3>4, <3>5
    <2>2. CASE ~(item[e] # Imp /\ left[e] > 0)
      <3>1. /\ tmp' = [tmp EXCEPT ![e] = Imp]
            /\ item' = [item EXCEPT ![e] = Imp]
            /\ ppc' = [ppc EXCEPT ![e] = "accepted"]
            /\ left' = [left EXCEPT ![e] = 0]
            /\ UNCHANGED <<queues, shutdown, next, pc, locals, exited, dest, notify, cpc>>
        BY <1>24, <2>2 DEF PostVisit, WalkEnd
      <3>2. QueuesOK' /\ WorkersOK'
        BY <3>1 DEF QueuesOK, WorkersOK
      <3>3. PostersOK'
        BY <3>1 DEF PostersOK, ControlOK
      <3>4. ControlOK'
        BY <3>1 DEF ControlOK
      <3>5. QED
        BY <3>2, <3>3, <3>4
    <2>3. QED
      BY <2>1, <2>2
  <1>25. ASSUME NEW e \in Events, PostNotify(e) PROVE TypeOK'
    <2>1. QueuesOK'
      BY <1>25 DEF PostNotify, Signalled, QueuesOK, WorkersOK, PostersOK, ControlOK
    <2>2. WorkersOK'
      BY <1>25 DEF PostNotify, Signalled, WorkersOK, QueuesOK, PostersOK, ControlOK
    <2>3. PostersOK'
      BY <1>25 DEF PostNotify, Signalled, PostersOK, ControlOK, QueuesOK
    <2>4. ControlOK'
      BY <1>25 DEF PostNotify, Signalled, ControlOK, QueuesOK, PostersOK
    <2>5. QED
      BY <2>1, <2>2, <2>3, <2>4
  <1>26. ASSUME StartBegin \/ StartVisit \/ StartThread PROVE TypeOK'
    <2>1. QueuesOK'
      BY <1>26 DEF StartBegin, StartVisit, StartThread, WalkBegin, WalkNext, WalkEnd, QueuesOK, WorkersOK, PostersOK, ControlOK
    <2>2. WorkersOK'
      <3>1. CASE StartBegin \/ StartVisit
        <4>1. UNCHANGED <<pc, src, cur, emptyCalled, first, exited>>
          BY <3>1 DEF StartBegin, StartVisit
        <4>2. QED
          BY <4>1 DEF WorkersOK
      <3>2. CASE StartThread
        <4>1. UNCHANGED <<src, cur, emptyCalled, first>>
          BY <3>2 DEF StartThread
        <4>2. /\ pc' \in {pc, [pc EXCEPT ![tmp[Ctl]] = "created"]}
              /\ exited' \in {exited, [exited EXCEPT ![tmp[Ctl]] = FALSE]}
          BY <3>2 DEF StartThread
        <4>3. QED
          BY <4>1, <4>2 DEF WorkersOK
      <3>3. QED
        BY <1>26, <3>1, <3>2
    <2>3. PostersOK'
      BY <1>26 DEF StartBegin, StartVisit, StartThread, WalkBegin, WalkNext, WalkEnd, PostersOK, ControlOK, QueuesOK
    <2>4. ControlOK'
      BY <1>26 DEF StartBegin, StartVisit, StartThread, WalkBegin, WalkNext, WalkEnd, ControlOK, QueuesOK, PostersOK
    <2>5. QED
      BY <2>1, <2>2, <2>3, <2>4
  <1>27. ASSUME ShutdownBegin \/ ShutdownWalk \/ ShutdownVisit PROVE TypeOK'
    <2>1. QueuesOK'
      BY <1>27 DEF ShutdownBegin, ShutdownWalk, ShutdownVisit, WalkBegin, WalkNext, WalkEnd, QueuesOK, WorkersOK, PostersOK, ControlOK
    <2>2. WorkersOK'
      BY <1>27 DEF ShutdownBegin, ShutdownWalk, ShutdownVisit, WalkBegin, WalkNext, WalkEnd, WorkersOK, QueuesOK, PostersOK, ControlOK
    <2>3. PostersOK'
      BY <1>27 DEF ShutdownBegin, ShutdownWalk, ShutdownVisit, WalkBegin, WalkNext, WalkEnd, PostersOK, ControlOK, QueuesOK
    <2>4. ControlOK'
      BY <1>27 DEF ShutdownBegin, ShutdownWalk, ShutdownVisit, WalkBegin, WalkNext, WalkEnd, ControlOK, QueuesOK, PostersOK
    <2>5. QED
      BY <2>1, <2>2, <2>3, <2>4
  <1>28. ASSUME ShutdownFlag \/ ShutdownSignal PROVE TypeOK'
    BY <1>28 DEF ShutdownFlag, ShutdownSignal, Signalled,
       QueuesOK, WorkersOK, PostersOK, ControlOK
  <1>29. ASSUME JoinTest \/ JoinWait \/ JoinSpurious PROVE TypeOK'
    BY <1>29 DEF JoinTest, JoinWait, JoinSpurious,
       QueuesOK, WorkersOK, PostersOK, ControlOK
  <1>32. ASSUME JoinVisit PROVE TypeOK'
    <2>1. QueuesOK'
      BY <1>32 DEF JoinVisit, WalkNext, WalkEnd, QueuesOK, WorkersOK, PostersOK, ControlOK
    <2>2. WorkersOK'
      BY <1>32 DEF JoinVisit, WalkNext, WalkEnd, WorkersOK, QueuesOK, PostersOK, ControlOK
    <2>3. PostersOK'
      BY <1>32 DEF JoinVisit, WalkNext, WalkEnd, PostersOK, ControlOK, QueuesOK
    <2>4. ControlOK'
      BY <1>32 DEF JoinVisit, WalkNext, WalkEnd, ControlOK, QueuesOK, PostersOK
    <2>5. QED
      BY <2>1, <2>2, <2>3, <2>4
  <1>30. CASE UNCHANGED vars
    BY <1>30 DEF vars, QueuesOK, WorkersOK, PostersOK, ControlOK
  <1>31. QED
    BY <1>1, <1>2, <1>3, <1>4, <1>5, <1>6, <1>7, <1>8, <1>9, <1>10, <1>11,
       <1>12, <1>13, <1>14, <1>15, <1>16, <1>17, <1>18, <1>19, <1>20, <1>21,
       <1>22, <1>23, <1>24, <1>25, <1>26, <1>27, <1>28, <1>29, <1>30, <1>32
       DEF Next, Worker, Poster, Control

\* The types of the queue's fields, for every number of threads and events.
THEOREM TypeCorrect == Spec => []TypeOK
  BY InitTypeOK, TypeOKStep, PTL DEF Spec

-----------------------------------------------------------------------------
(* Private queues: exactly once and in order.                               *)

\* What taking, finishing and adding an event do to the three sequences.
LEMMA TakeKeepsOrder ==
  ASSUME NEW S, NEW s \in Seq(S), NEW q \in Seq(S), q # <<>>
  PROVE  s \o <<Head(q)>> \o Tail(q) = s \o <<>> \o q
  <1>1. Head(q) \in S /\ Tail(q) \in Seq(S) /\ <<Head(q)>> \in Seq(S)
    BY HeadTailProperties
  <1>2. <<Head(q)>> \o Tail(q) = q
    <2>1. <<Head(q)>> \o Tail(q) \in Seq(S) /\ Len(<<Head(q)>> \o Tail(q)) = Len(q)
      BY <1>1, HeadTailProperties, ConcatProperties
    <2>2. \A i \in 1..Len(q) : (<<Head(q)>> \o Tail(q))[i] = q[i]
      BY <1>1, HeadTailProperties, ConcatProperties
    <2>3. QED
      BY <2>1, <2>2, SeqEqual
  <1>3. QED
    BY <1>1, <1>2, ConcatAssociative, ConcatEmptySeq

LEMMA FinishKeepsOrder ==
  \A s, q \in Seq(Events) : \A c \in Events : Append(s, c) \o <<>> \o q = s \o <<c>> \o q
  BY AppendIsConcat, AppendProperties, ConcatEmptySeq

LEMMA AddKeepsOrder ==
  \A s, r, q \in Seq(Events) : \A e \in Events :
      s \o r \o Append(q, e) = Append(s \o r \o q, e)
  <1> SUFFICES ASSUME NEW s \in Seq(Events), NEW r \in Seq(Events),
                      NEW q \in Seq(Events), NEW e \in Events
               PROVE  s \o r \o Append(q, e) = Append(s \o r \o q, e)
    OBVIOUS
  <1>1. s \o r \in Seq(Events) /\ s \o r \o q \in Seq(Events) /\ <<e>> \in Seq(Events)
    BY ConcatProperties
  <1>2. QED
    BY <1>1, AppendIsConcat, ConcatAssociative

\* Steps that touch neither queue, done, added nor what runs keep the order.
LEMMA OrderFrame ==
  ASSUME OwnQueueInOrder, UNCHANGED <<queue, done, added>>,
         \A t \in Threads : Running(t, t)' = Running(t, t)
  PROVE  OwnQueueInOrder'
  BY DEF OwnQueueInOrder

LEMMA OrderStep == TypeOK /\ OwnQueueInOrder /\ [Next]_vars => OwnQueueInOrder'
  <1> SUFFICES ASSUME TypeOK, OwnQueueInOrder, [Next]_vars PROVE OwnQueueInOrder'
    OBVIOUS
  <1> USE DEF TypeOK, queues, locals, posters, walks, CtlFrame
  <1>1. ASSUME NEW t \in Threads, TakeEvent(t) PROVE OwnQueueInOrder'
    <2>1. ASSUME NEW u \in Threads
          PROVE  done'[u] \o Running(u, u)' \o queue'[u] = added'[u]
      <3>1. CASE u = t /\ src[t] = t
        <4>1. Running(u, u) = <<>> /\ Running(u, u)' = <<Head(queue[u])>>
          BY <1>1, <3>1 DEF TakeEvent, Running, WorkersOK
        <4>2. queue[u] # <<>> /\ queue'[u] = Tail(queue[u])
              /\ done'[u] = done[u] /\ added'[u] = added[u]
          BY <1>1, <3>1 DEF TakeEvent, QueuesOK
        <4>3. QED
          <5>1. done[u] \in Seq(Events) /\ queue[u] \in Seq(Events)
            BY DEF QueuesOK
          <5>2. done[u] \o <<Head(queue[u])>> \o Tail(queue[u]) = done[u] \o <<>> \o queue[u]
            BY <4>2, <5>1, TakeKeepsOrder
          <5>3. done[u] \o Running(u, u) \o queue[u] = added[u]
            BY DEF OwnQueueInOrder
          <5>4. QED
            BY <4>1, <4>2, <5>2, <5>3
      <3>2. CASE ~(u = t /\ src[t] = t)
        <4>1. Running(u, u)' = Running(u, u)
          BY <1>1, <3>2 DEF TakeEvent, Running, WorkersOK
        <4>2. queue'[u] = queue[u] /\ done'[u] = done[u] /\ added'[u] = added[u]
          BY <1>1, <3>2 DEF TakeEvent, QueuesOK, WorkersOK
        <4>3. QED
          BY <4>1, <4>2 DEF OwnQueueInOrder
      <3>3. QED
        BY <3>1, <3>2
    <2>2. QED
      BY <2>1 DEF OwnQueueInOrder
  <1>2. ASSUME NEW t \in Threads, ProcessEvent(t) PROVE OwnQueueInOrder'
    <2>1. ASSUME NEW u \in Threads
          PROVE  done'[u] \o Running(u, u)' \o queue'[u] = added'[u]
      <3>1. CASE u = t /\ src[t] = t
        <4>1. Running(u, u) = <<cur[u]>> /\ Running(u, u)' = <<>> /\ cur[u] \in Events
          BY <1>2, <3>1 DEF ProcessEvent, Running, WorkersOK
        <4>2. queue'[u] = queue[u] /\ added'[u] = added[u]
              /\ done'[u] = Append(done[u], cur[u])
          BY <1>2, <3>1 DEF ProcessEvent, QueuesOK
        <4>3. QED
          <5>1. done[u] \in Seq(Events) /\ queue[u] \in Seq(Events)
            BY DEF QueuesOK
          <5>2. Append(done[u], cur[u]) \o <<>> \o queue[u] = done[u] \o <<cur[u]>> \o queue[u]
            BY <4>1, <5>1, FinishKeepsOrder
          <5>3. done[u] \o Running(u, u) \o queue[u] = added[u]
            BY DEF OwnQueueInOrder
          <5>4. QED
            BY <4>1, <4>2, <5>2, <5>3
      <3>2. CASE ~(u = t /\ src[t] = t)
        <4>1. Running(u, u)' = Running(u, u)
          BY <1>2, <3>2 DEF ProcessEvent, Running, WorkersOK
        <4>2. queue'[u] = queue[u] /\ done'[u] = done[u] /\ added'[u] = added[u]
          BY <1>2, <3>2 DEF ProcessEvent, QueuesOK, WorkersOK
        <4>3. QED
          BY <4>1, <4>2 DEF OwnQueueInOrder
      <3>3. QED
        BY <3>1, <3>2
    <2>2. QED
      BY <2>1 DEF OwnQueueInOrder
  <1>3. ASSUME NEW e \in Events, PostAdd(e) PROVE OwnQueueInOrder'
    <2>1. ASSUME NEW u \in Threads
          PROVE  done'[u] \o Running(u, u)' \o queue'[u] = added'[u]
      <3>1. Running(u, u)' = Running(u, u) /\ Running(u, u) \in Seq(Events)
        BY <1>3 DEF PostAdd, Running, WorkersOK
      <3>2. CASE u = dest[e]
        <4>1. queue'[u] = Append(queue[u], e) /\ done'[u] = done[u]
              /\ added'[u] = Append(added[u], e)
          BY <1>3, <3>2 DEF PostAdd, QueuesOK
        <4>2. QED
          <5>1. u \in Dest /\ done[u] \in Seq(Events) /\ queue[u] \in Seq(Events)
            BY DEF QueuesOK
          <5>2. done[u] \o Running(u, u) \o Append(queue[u], e)
                  = Append(done[u] \o Running(u, u) \o queue[u], e)
            <6> DEFINE s == done[u]
                       r == Running(u, u)
                       q == queue[u]
            <6>1. s \in Seq(Events) /\ r \in Seq(Events) /\ q \in Seq(Events)
              BY <3>1, <5>1
            <6> HIDE DEF s, r, q
            <6>2. s \o r \o Append(q, e) = Append(s \o r \o q, e)
              BY <6>1, AddKeepsOrder
            <6>3. QED
              BY <6>2 DEF s, r, q
          <5>3. done[u] \o Running(u, u) \o queue[u] = added[u]
            BY DEF OwnQueueInOrder
          <5>4. QED
            BY <3>1, <4>1, <5>2, <5>3
      <3>3. CASE u # dest[e]
        BY <1>3, <3>1, <3>3 DEF PostAdd, QueuesOK, OwnQueueInOrder
      <3>4. QED
        BY <3>2, <3>3
    <2>2. QED
      BY <2>1 DEF OwnQueueInOrder
  <1>4. ASSUME NEW t \in Threads,
               \/ Begin(t) \/ FoundEmpty(t) \/ TriggerEmpty(t) \/ RecheckOwn(t)
               \/ RecheckAll(t) \/ HeadUnlink(t) \/ HeadFirst(t) \/ HeadNext(t)
        PROVE  OwnQueueInOrder'
    BY <1>4, OrderFrame DEF Begin, FoundEmpty, TriggerEmpty, RecheckOwn,
       RecheckAll, HeadUnlink, HeadFirst, HeadNext, Running, WorkersOK
  <1>5. ASSUME NEW t \in Threads,
               \/ EnterWait(t) \/ WaitTimeout(t) \/ AfterWait(t) \/ TailUnlink(t)
               \/ TailLink(t) \/ LeaveRun(t) \/ SetExited(t) \/ SignalExited(t)
        PROVE  OwnQueueInOrder'
    BY <1>5, OrderFrame DEF EnterWait, WaitTimeout, AfterWait, TailUnlink,
       TailLink, LeaveRun, SetExited, SignalExited, Running, WorkersOK
  <1>6. ASSUME NEW e \in Events,
               \/ PostCheck(e) \/ PostClear(e) \/ PostSignal(e) \/ PostWalk(e)
               \/ PostVisit(e) \/ PostNotify(e)
        PROVE  OwnQueueInOrder'
    <2>1. UNCHANGED <<queue, done, added, src, cur>>
      BY <1>6 DEF PostCheck, PostClear, PostSignal, PostWalk, PostVisit, PostNotify
    <2>2. pc' = pc \/ \E u \in Threads : pc' = Signalled(u)
      BY <1>6 DEF PostCheck, PostClear, PostSignal, PostWalk, PostVisit,
         PostNotify, PostersOK
    <2>3. QED
      BY <2>1, <2>2, OrderFrame DEF Signalled, Running, WorkersOK
  <1>7. ASSUME Control \/ ShutdownBegin \/ JoinSpurious PROVE OwnQueueInOrder'
    <2>1. UNCHANGED <<queue, done, added, src, cur>>
      BY <1>7 DEF Control, StartBegin, StartVisit, StartThread, ShutdownBegin,
         ShutdownWalk, ShutdownVisit, ShutdownFlag, ShutdownSignal, JoinVisit,
         JoinTest, JoinWait, JoinSpurious
    <2>2. \A u \in Threads : pc'[u] = "run" <=> pc[u] = "run"
      BY <1>7 DEF Control, StartBegin, StartVisit, StartThread, ShutdownBegin,
         ShutdownWalk, ShutdownVisit, ShutdownFlag, ShutdownSignal, JoinVisit,
         JoinTest, JoinWait, JoinSpurious, Signalled, WorkersOK
    <2>3. QED
      BY <2>1, <2>2, OrderFrame DEF Running
  <1>8. CASE UNCHANGED vars
    BY <1>8, OrderFrame DEF vars, Running
  <1>9. QED
    BY <1>1, <1>2, <1>3, <1>4, <1>5, <1>6, <1>7, <1>8 DEF Next, Worker, Poster

\* Events posted to one thread are executed exactly once, in posting order,
\* whatever the number of threads, events, wake-ups and shutdown requests.
THEOREM PrivateQueueInOrder == Spec => []OwnQueueInOrder
  <1>1. Init => OwnQueueInOrder
    BY ConcatEmptySeq, EmptySeq DEF Init, OwnQueueInOrder, Running
  <1>2. QED
    BY <1>1, InitTypeOK, TypeOKStep, OrderStep, PTL DEF Spec

-----------------------------------------------------------------------------
(* The flag of a private queue and the events in it.                        *)

\* Announced(t) survives a step that neither adds to t's queue nor sets its flag
\* nor takes a poster of t past the window between ListAddTail and the exchange.
LEMMA AnnouncedFrame ==
  ASSUME NEW t \in Threads, Announced(t), UNCHANGED <<queue, triggered, ppc, dest>>
  PROVE  Announced(t)'
  BY DEF Announced

LEMMA AnnouncedByPoster ==
  ASSUME TypeOK, NEW t \in Threads, NEW e \in Events, Announced(t),
         PostCheck(e) \/ PostAdd(e) \/ PostClear(e) \/ PostSignal(e)
         \/ PostWalk(e) \/ PostVisit(e) \/ PostNotify(e)
  PROVE  Announced(t)'
  <1> USE DEF TypeOK, QueuesOK, PostersOK, queues, posters, Announced
  <1>1. CASE PostAdd(e)
    <2>1. CASE dest[e] = t
      <3>1. dest'[e] = t /\ ppc'[e] = "added"
        BY <1>1, <2>1 DEF PostAdd
      <3>2. QED
        BY <3>1
    <2>2. CASE dest[e] # t
      <3>1. queue'[t] = queue[t] /\ triggered' = triggered /\ dest' = dest
        BY <1>1, <2>2 DEF PostAdd
      <3>2. \A f \in Events : dest[f] = t /\ ppc[f] = "added" => ppc'[f] = "added"
        BY <1>1 DEF PostAdd
      <3>3. QED
        BY <3>1, <3>2
    <2>3. QED
      BY <2>1, <2>2
  <1>2. CASE PostClear(e)
    <2>1. CASE dest[e] = t
      <3>1. triggered'[t] = FALSE
        BY <1>2, <2>1 DEF PostClear
      <3>2. QED
        BY <3>1
    <2>2. CASE dest[e] # t
      <3>1. queue' = queue /\ triggered'[t] = triggered[t] /\ dest' = dest
        BY <1>2, <2>2 DEF PostClear
      <3>2. \A f \in Events : dest[f] = t /\ ppc[f] = "added" => ppc'[f] = "added"
        BY <1>2, <2>2 DEF PostClear
      <3>3. QED
        BY <3>1, <3>2
    <2>3. QED
      BY <2>1, <2>2
  <1>3. CASE PostCheck(e) \/ PostSignal(e) \/ PostWalk(e) \/ PostVisit(e) \/ PostNotify(e)
    <2>1. queue' = queue /\ triggered' = triggered
      BY <1>3 DEF PostCheck, PostSignal, PostWalk, PostVisit, PostNotify
    <2>2. \A f \in Events : dest[f] = t /\ ppc[f] = "added"
                              => dest'[f] = t /\ ppc'[f] = "added"
      BY <1>3 DEF PostCheck, PostSignal, PostWalk, PostVisit, PostNotify
    <2>3. QED
      BY <2>1, <2>2
  <1>4. QED
    BY <1>1, <1>2, <1>3

\* What FlagInv asks of thread t.
FlagInvOf(t) ==
  /\ pc[t] \in Settled \/ (pc[t] = "flag" /\ src[t] = t) => Announced(t)
  /\ pc[t] = "recheck" \/ (pc[t] \in {"drain", "run", "flag"} /\ src[t] = Imp)
       => Announced(t) \/ emptyCalled[t]

\* A step of another thread on its own fields leaves t's obligation alone.
LEMMA FlagInvFrame ==
  ASSUME NEW t \in Threads, FlagInvOf(t), Announced(t) => Announced(t)',
         pc'[t] = pc[t] \/ (pc[t] = "blocked" /\ pc'[t] = "woken")
           \/ (pc[t] = "none" /\ pc'[t] = "created"),
         src'[t] = src[t], emptyCalled'[t] = emptyCalled[t]
  PROVE  FlagInvOf(t)'
  BY DEF FlagInvOf, Settled, MovePc

LEMMA FlagStep == TypeOK /\ FlagInv /\ [Next]_vars => FlagInv'
  <1> SUFFICES ASSUME TypeOK, FlagInv, [Next]_vars, NEW t \in Threads
               PROVE  FlagInvOf(t)'
    BY DEF FlagInv, FlagInvOf
  <1>0. FlagInvOf(t)
    BY DEF FlagInv, FlagInvOf
  <1> USE DEF TypeOK, WorkersOK, queues, locals, posters, walks, CtlFrame
  <1>1. ASSUME NEW u \in Threads, u # t, Worker(u) PROVE FlagInvOf(t)'
    <2>1. pc'[t] = pc[t] /\ src'[t] = src[t] /\ emptyCalled'[t] = emptyCalled[t]
      BY <1>1 DEF Worker, Begin, TakeEvent, ProcessEvent, FoundEmpty, TriggerEmpty,
         RecheckOwn, RecheckAll, HeadUnlink, HeadFirst, HeadNext, EnterWait,
         AfterWait, TailUnlink, TailLink, LeaveRun, SetExited, SignalExited
    <2>2. queue'[t] = queue[t] /\ triggered'[t] = triggered[t] /\ UNCHANGED <<ppc, dest>>
      BY <1>1 DEF Worker, Begin, TakeEvent, ProcessEvent, FoundEmpty, TriggerEmpty,
         RecheckOwn, RecheckAll, HeadUnlink, HeadFirst, HeadNext, EnterWait,
         AfterWait, TailUnlink, TailLink, LeaveRun, SetExited, SignalExited, QueuesOK
    <2>3. Announced(t) => Announced(t)'
      BY <2>2 DEF Announced
    <2>4. QED
      BY <1>0, <2>1, <2>3, FlagInvFrame
  <1>2. ASSUME Begin(t) \/ TakeEvent(t) \/ ProcessEvent(t) \/ TailLink(t) \/ LeaveRun(t)
               \/ SetExited(t) \/ SignalExited(t)
        PROVE  FlagInvOf(t)'
    <2>1. CASE TakeEvent(t) /\ src[t] = Imp
      <3>1. queue'[t] = queue[t] /\ pc[t] = "drain" /\ pc'[t] = "run" /\ src'[t] = Imp
            /\ UNCHANGED <<triggered, ppc, dest, emptyCalled>>
        BY <2>1 DEF TakeEvent, QueuesOK
      <3>2. Announced(t) \/ emptyCalled[t]
        BY <1>0, <2>1, <3>1 DEF FlagInvOf
      <3>3. Announced(t)' \/ emptyCalled'[t]
        BY <3>1, <3>2 DEF Announced
      <3>4. QED
        BY <3>1, <3>3 DEF FlagInvOf, Settled, MovePc
    <2>2. CASE ProcessEvent(t) /\ src[t] = Imp
      <3>1. pc[t] = "run" /\ pc'[t] \in {"drain", "end"} /\ src'[t] = Imp
            /\ UNCHANGED <<queue, triggered, ppc, dest, emptyCalled>>
        BY <2>2 DEF ProcessEvent
      <3>2. Announced(t) \/ emptyCalled[t]
        BY <1>0, <2>2, <3>1 DEF FlagInvOf
      <3>3. Announced(t)' \/ emptyCalled'[t]
        BY <3>1, <3>2 DEF Announced
      <3>4. QED
        BY <3>1, <3>3 DEF FlagInvOf, Settled, MovePc
    <2>3. CASE (TakeEvent(t) \/ ProcessEvent(t)) /\ src[t] = t
      <3>1. pc'[t] \in {"run", "drain", "end"} /\ src'[t] = t
        BY <2>3 DEF TakeEvent, ProcessEvent
      <3>2. QED
        BY <3>1 DEF FlagInvOf, Settled, MovePc
    <2>4. CASE Begin(t) \/ TailLink(t)
      <3>1. pc'[t] = "drain" /\ src'[t] = t
        BY <2>4 DEF Begin, TailLink
      <3>2. QED
        BY <3>1 DEF FlagInvOf, Settled, MovePc
    <2>5. CASE LeaveRun(t) \/ SetExited(t) \/ SignalExited(t)
      <3>1. pc'[t] \in {"exiting", "exitSignal", "ended"}
        BY <2>5 DEF LeaveRun, SetExited, SignalExited
      <3>2. QED
        BY <3>1 DEF FlagInvOf, Settled, MovePc
    <2>6. QED
      BY <1>2, <2>1, <2>2, <2>3, <2>4, <2>5
  <1>3. ASSUME FoundEmpty(t) PROVE FlagInvOf(t)'
    <2>1. pc[t] = "drain" /\ pc'[t] = "flag"
          /\ UNCHANGED <<queue, triggered, ppc, dest, src, emptyCalled>>
      BY <1>3 DEF FoundEmpty
    <2>2. CASE src[t] = t
      BY <1>3, <2>1, <2>2 DEF FoundEmpty, FlagInvOf, Announced, Settled, MovePc
    <2>3. CASE src[t] = Imp
      BY <1>0, <2>1, <2>3 DEF FlagInvOf, Announced, Settled, MovePc
    <2>4. QED
      BY <2>2, <2>3
  <1>4. ASSUME TriggerEmpty(t) PROVE FlagInvOf(t)'
    <2>1. UNCHANGED <<queue, ppc, dest>> /\ src'[t] = Imp /\ pc[t] = "flag"
      BY <1>4 DEF TriggerEmpty
    <2>2. CASE src[t] = t
      <3>1. pc'[t] = "drain" /\ (emptyCalled'[t] \/ triggered[t])
        BY <1>4, <2>2 DEF TriggerEmpty, QueuesOK
      <3>2. triggered[t] => Announced(t)'
        BY <1>0, <2>1, <2>2 DEF FlagInvOf, Announced
      <3>3. QED
        BY <3>1, <3>2 DEF FlagInvOf, Settled, MovePc
    <2>3. CASE src[t] = Imp
      <3>1. triggered'[t] = triggered[t]
        BY <1>4, <2>3 DEF TriggerEmpty, QueuesOK
      <3>2. Announced(t) => Announced(t)'
        BY <2>1, <3>1 DEF Announced
      <3>3. pc'[t] = IF emptyCalled'[t] THEN "recheck" ELSE "loop"
        BY <1>4, <2>3 DEF TriggerEmpty
      <3>4. emptyCalled[t] => emptyCalled'[t]
        BY <1>4 DEF TriggerEmpty
      <3>5. QED
        BY <1>0, <2>1, <2>3, <3>2, <3>3, <3>4 DEF FlagInvOf, Settled, MovePc
    <2>4. QED
      BY <2>2, <2>3
  <1>5. ASSUME RecheckOwn(t) PROVE FlagInvOf(t)'
    <2>1. UNCHANGED <<queue, triggered, ppc, dest>>
      BY <1>5 DEF RecheckOwn
    <2>2. \/ pc'[t] = "drain" /\ src'[t] = t
          \/ queue[t] = <<>> /\ pc'[t] = "recheckAll"
      BY <1>5 DEF RecheckOwn
    <2>3. queue[t] = <<>> => Announced(t)'
      BY <2>1 DEF Announced
    <2>4. QED
      BY <2>2, <2>3 DEF FlagInvOf, Settled, MovePc
  <1>6. ASSUME RecheckAll(t) \/ HeadUnlink(t) \/ HeadFirst(t) \/ HeadNext(t)
               \/ EnterWait(t) \/ WaitTimeout(t) \/ AfterWait(t) \/ TailUnlink(t)
        PROVE  FlagInvOf(t)'
    <2>1. UNCHANGED <<queue, triggered, ppc, dest>> /\ pc[t] \in Settled
      BY <1>6 DEF RecheckAll, HeadUnlink, HeadFirst, HeadNext, EnterWait,
         WaitTimeout, AfterWait, TailUnlink, Settled, MovePc
    <2>2. Announced(t)'
      BY <1>0, <2>1 DEF FlagInvOf, Announced
    <2>3. QED
      BY <2>2 DEF FlagInvOf
  <1>7. ASSUME NEW u \in Threads, u # t, WaitTimeout(u) PROVE FlagInvOf(t)'
    <2>1. pc'[t] = pc[t] /\ UNCHANGED <<queue, triggered, ppc, dest, src, emptyCalled>>
      BY <1>7 DEF WaitTimeout
    <2>2. QED
      BY <1>0, <2>1, AnnouncedFrame, FlagInvFrame
  <1>8. ASSUME NEW e \in Events, PostCheck(e) \/ Poster(e) PROVE FlagInvOf(t)'
    <2>1. UNCHANGED <<src, emptyCalled>>
      BY <1>8 DEF Poster, PostCheck, PostAdd, PostClear, PostSignal, PostWalk,
         PostVisit, PostNotify
    <2>2. pc' = pc \/ \E u \in Threads : pc' = Signalled(u)
      BY <1>8 DEF Poster, PostCheck, PostAdd, PostClear, PostSignal, PostWalk,
         PostVisit, PostNotify, PostersOK
    <2>3. pc'[t] = pc[t] \/ (pc[t] = "blocked" /\ pc'[t] = "woken")
      BY <2>2 DEF Signalled
    <2>4. Announced(t) => Announced(t)'
      BY <1>8, AnnouncedByPoster DEF Poster
    <2>5. QED
      BY <1>0, <2>1, <2>3, <2>4, FlagInvFrame
  <1>9. ASSUME Control \/ ShutdownBegin \/ JoinSpurious PROVE FlagInvOf(t)'
    <2>1. UNCHANGED <<queue, triggered, ppc, dest, src, emptyCalled>>
      BY <1>9 DEF Control, StartBegin, StartVisit, StartThread, ShutdownBegin,
         ShutdownWalk, ShutdownVisit, ShutdownFlag, ShutdownSignal, JoinVisit,
         JoinTest, JoinWait, JoinSpurious
    <2>2. pc'[t] = pc[t] \/ (pc[t] = "blocked" /\ pc'[t] = "woken")
            \/ (pc[t] = "none" /\ pc'[t] = "created")
      BY <1>9 DEF Control, StartBegin, StartVisit, StartThread, ShutdownBegin,
         ShutdownWalk, ShutdownVisit, ShutdownFlag, ShutdownSignal, JoinVisit,
         JoinTest, JoinWait, JoinSpurious, Signalled
    <2>3. QED
      BY <1>0, <2>1, <2>2, AnnouncedFrame, FlagInvFrame
  <1>10. CASE UNCHANGED vars
    <2>1. UNCHANGED <<queue, triggered, ppc, dest, pc, src, emptyCalled>>
      BY <1>10 DEF vars
    <2>2. QED
      BY <1>0, <2>1, AnnouncedFrame, FlagInvFrame
  <1>11. QED
    BY <1>1, <1>2, <1>3, <1>4, <1>5, <1>6, <1>7, <1>8, <1>9, <1>10
       DEF Next, Worker

\* A thread asleep on a non-empty queue of its own has its flag down, or the
\* poster is about to lower it: the event is late, but not forgotten.
THEOREM LostWakeupRemembered == Spec => []LostWakeupIsFlagged
  <1>1. Init => FlagInv
    BY DEF Init, FlagInv, Settled, MovePc
  <1>2. FlagInv => LostWakeupIsFlagged
    BY DEF FlagInv, LostWakeupIsFlagged, Announced, Settled
  <1>3. QED
    BY <1>1, <1>2, InitTypeOK, TypeOKStep, FlagStep, PTL DEF Spec
-----------------------------------------------------------------------------
(* The thread list, which the workers reorder, and Start's walk over it.     *)

\* The worker that has taken itself out of the list.
Out == {t \in Threads : pc[t] \in {"headFirst", "tailLink"}}
Listed == Dest \ Out

\* Where the nodes point, when a worker that is the first has set its own pointer.
Pointers == [d \in Dest |-> IF d \in Threads /\ pc[d] = "headNext" THEN first[d] ELSE next[d]]

\* The nodes of L are one list from its head back to it: each has one predecessor, and r
\* grows from a node to the next, but where the list ends.
Chain(L, f, r) ==
  /\ L \subseteq Dest /\ Imp \in L /\ f \in [Dest -> Dest] /\ r \in [Dest -> Int]
  /\ \A n \in L : f[n] \in L /\ (f[n] # Imp => r[n] < r[f[n]])
  /\ \A d \in L : \E n \in L : f[n] = d
  /\ \A m, n \in L : f[m] = f[n] => m = n

\* One worker moves at a time, and the others are in the list.
ListInv ==
  /\ \A t, u \in Threads : pc[t] \in MovePc /\ pc[u] \in MovePc => t = u
  /\ \A t \in Threads : pc[t] = "tailLink" => next[t] = Imp
  /\ \E r : Chain(Listed, Pointers, r)

\* The threads from k on are not started, and are still in the order of their creation;
\* Start comes to k next.
Started(k) ==
  /\ \A t \in Threads : pc[t] = "none" <=> t >= k
  /\ \A t \in k .. NumThreads - 1 : next[t] = t + 1
  /\ cpc = "new" => k = 1 /\ next[Imp] = 1
  /\ cpc = "startVisit" /\ k <= NumThreads => item[Ctl] = k
  /\ cpc = "startThread" /\ k <= NumThreads =>
       tmp[Ctl] = k /\ (k < NumThreads => item[Ctl] = k + 1)
  /\ cpc \notin {"new", "startVisit", "startThread"} => k = NumThreads + 1
StartInv == \E k \in 1 .. NumThreads + 1 : Started(k)

\* A worker other than the head has a node before it, and the list has a last node.
LEMMA ChainFacts ==
  ASSUME NEW L, NEW f, NEW r, Chain(L, f, r)
  PROVE  /\ \A t \in L \ {Imp} : \E n \in L : n # t /\ f[n] = t
         /\ \E n \in L : f[n] = Imp
  <1>1. ASSUME NEW t \in L \ {Imp} PROVE \E n \in L : n # t /\ f[n] = t
    <2>1. PICK n \in L : f[n] = t
      BY DEF Chain
    <2>2. r[n] < r[t] /\ r[t] \in Int
      BY <2>1 DEF Chain
    <2>3. n # t
      BY <2>2
    <2>4. QED
      BY <2>1, <2>3
  <1>2. \E n \in L : f[n] = Imp
    BY DEF Chain
  <1>3. QED
    BY <1>1, <1>2

\* What is taken out of the list leaves a list.
LEMMA ChainWithout ==
  ASSUME NEW L, NEW f, NEW r, Chain(L, f, r), NEW t \in L \ {Imp}, NEW n \in L \ {t}, f[n] = t,
         NEW g \in [Dest -> Dest], g[n] = f[t], \A m \in L \ {t, n} : g[m] = f[m]
  PROVE  Chain(L \ {t}, g, r)
  <1> DEFINE M == L \ {t}
  <1>1. /\ L \subseteq Dest /\ Imp \in L /\ f \in [Dest -> Dest] /\ r \in [Dest -> Int]
        /\ \A m \in L : f[m] \in L /\ (f[m] # Imp => r[m] < r[f[m]])
        /\ \A d \in L : \E m \in L : f[m] = d
        /\ \A m, o \in L : f[m] = f[o] => m = o
    BY DEF Chain
  <1>2. r[n] < r[t] /\ r[n] \in Int /\ r[t] \in Int
    BY <1>1
  <1>3. f[t] # t
    BY <1>1, <1>2
  <1>4. ASSUME NEW m \in M PROVE g[m] \in M /\ (g[m] # Imp => r[m] < r[g[m]])
    <2>1. CASE m = n
      <3>1. f[t] \in L /\ (f[t] # Imp => r[t] < r[f[t]])
        BY <1>1
      <3>2. r[f[t]] \in Int
        BY <1>1
      <3>3. QED
        BY <1>2, <1>3, <2>1, <3>1, <3>2
    <2>2. CASE m # n
      <3>1. g[m] = f[m] /\ f[m] # t
        BY <1>1, <2>2
      <3>2. QED
        BY <1>1, <3>1
    <2>3. QED
      BY <2>1, <2>2
  <1>5. ASSUME NEW d \in M PROVE \E m \in M : g[m] = d
    <2>1. PICK m \in L : f[m] = d
      BY <1>1
    <2>2. CASE m = t
      BY <2>1, <2>2
    <2>3. CASE m # t
      <3>1. m # n
        BY <2>1
      <3>2. g[m] = d
        BY <2>1, <2>3, <3>1
      <3>3. QED
        BY <2>3, <3>2
    <2>4. QED
      BY <2>2, <2>3
  <1>6. ASSUME NEW m \in M, NEW o \in M, g[m] = g[o] PROVE m = o
    <2>1. \A x \in M : x # n => g[x] = f[x] /\ f[x] # f[t]
      BY <1>1
    <2>2. QED
      BY <1>1, <1>6, <2>1
  <1>7. QED
    BY <1>1, <1>4, <1>5, <1>6 DEF Chain

\* What is put behind a node of the list is in the list, if it gets a rank between.
LEMMA ChainWith ==
  ASSUME NEW L, NEW f, NEW r, Chain(L, f, r), NEW t \in Threads \ L, NEW n \in L,
         NEW g \in [Dest -> Dest], g[n] = t, g[t] = f[n], \A m \in L \ {n} : g[m] = f[m],
         NEW s \in [Dest -> Int], \A m \in L \ {Imp} : s[m] = r[m], s[Imp] <= r[Imp],
         s[n] < s[t], f[n] # Imp => s[t] < r[f[n]]
  PROVE  Chain(L \cup {t}, g, s)
  <1> DEFINE M == L \cup {t}
  <1>1. /\ L \subseteq Dest /\ Imp \in L /\ f \in [Dest -> Dest] /\ r \in [Dest -> Int]
        /\ \A m \in L : f[m] \in L /\ (f[m] # Imp => r[m] < r[f[m]])
        /\ \A d \in L : \E m \in L : f[m] = d
        /\ \A m, o \in L : f[m] = f[o] => m = o
    BY DEF Chain
  <1>2. t \notin L /\ t # Imp /\ t \in Dest /\ n # t
    OBVIOUS
  <1>3. \A d \in L : (d # Imp => s[d] = r[d]) /\ s[d] <= r[d]
    BY <1>1
  <1>4. ASSUME NEW m \in M PROVE g[m] \in M /\ (g[m] # Imp => s[m] < s[g[m]])
    <2>1. CASE m = n
      BY <2>1
    <2>2. CASE m = t
      <3>1. g[t] = f[n] /\ f[n] \in L
        BY <1>1
      <3>2. f[n] # Imp => s[f[n]] = r[f[n]]
        BY <1>3, <3>1
      <3>3. QED
        BY <2>2, <3>1, <3>2
    <2>3. CASE m \in L \ {n}
      <3>1. g[m] = f[m] /\ f[m] \in L /\ s[m] <= r[m] /\ s[m] \in Int /\ r[m] \in Int
        BY <1>1, <1>3, <2>3
      <3>2. f[m] # Imp => /\ s[f[m]] = r[f[m]] /\ r[f[m]] \in Int
                          /\ r[m] < r[f[m]]
        BY <1>1, <1>3, <2>3, <3>1
      <3>3. QED
        BY <3>1, <3>2
    <2>4. QED
      BY <2>1, <2>2, <2>3
  <1>5. ASSUME NEW d \in M PROVE \E m \in M : g[m] = d
    <2>1. CASE d = t
      BY <2>1
    <2>2. CASE d \in L
      <3>1. PICK m \in L : f[m] = d
        BY <1>1, <2>2
      <3>2. m = n => g[t] = d
        BY <3>1
      <3>3. m # n => g[m] = d
        BY <3>1
      <3>4. QED
        BY <3>2, <3>3
    <2>3. QED
      BY <2>1, <2>2
  <1>6. ASSUME NEW m \in M, NEW o \in M, g[m] = g[o] PROVE m = o
    <2>1. \A x \in L \ {n} : g[x] = f[x] /\ f[x] # f[n] /\ f[x] # t
      BY <1>1, <1>2
    <2>2. f[n] # t
      BY <1>1, <1>2
    <2>3. QED
      BY <1>1, <1>2, <1>6, <2>1, <2>2
  <1>7. M \subseteq Dest /\ Imp \in M
    BY <1>1
  <1> HIDE DEF M
  <1>8. Chain(M, g, s)
    BY <1>4, <1>5, <1>6, <1>7 DEF Chain
  <1>9. QED
    BY <1>8 DEF M

\* A worker that moves itself was started and stays so; Start's walk is where it was.
Keeps(t) ==
  /\ \A u \in Threads \ {t} : pc'[u] = pc[u] /\ first'[u] = first[u]
  /\ pc[t] # "none" /\ pc'[t] # "none" /\ UNCHANGED <<cpc, item, tmp>>

\* Only the thread itself, the node before it, or the last node gets another pointer.
Touches(t) ==
  \A n \in Threads : next'[n] # next[n] => n = t \/ next[n] = t \/ next[n] = Imp

LEMMA UnlinkKeeps ==
  ASSUME TypeOK, ListInv, NEW t \in Threads, HeadUnlink(t) \/ TailUnlink(t)
  PROVE  ListInv' /\ Keeps(t) /\ Touches(t)
  <1>1. /\ pc \in [Threads -> ThreadPc] /\ next \in [Dest -> Dest] /\ first \in [Threads -> Dest]
    BY DEF TypeOK, WorkersOK, QueuesOK
  <1>2. /\ MtxThreadFree /\ pc[t] \in {"loop", "tail"}
        /\ \/ pc' = [pc EXCEPT ![t] = "headFirst"] /\ next' = Unlinked(t)
           \/ pc' = [pc EXCEPT ![t] = "tailLink"] /\ next' = [Unlinked(t) EXCEPT ![t] = Imp]
        /\ first' = first /\ UNCHANGED <<cpc, item, tmp>>
    BY <1>1 DEF HeadUnlink, TailUnlink, locals, walks
  <1>3. \A u \in Threads : pc[u] \notin {"headFirst", "headNext", "tailLink"}
    BY <1>2 DEF MtxThreadFree, MovePc
  <1>4. Listed = Dest /\ Pointers = next
    <2>1. Out = {}
      BY <1>3 DEF Out
    <2>2. Pointers = [d \in Dest |-> next[d]]
      BY <1>3 DEF Pointers
    <2>3. QED
      BY <1>1, <2>1, <2>2 DEF Listed
  <1>5. PICK r : Chain(Dest, next, r)
    BY <1>4 DEF ListInv
  <1>6. PICK n : n = PrevOf(t)
    OBVIOUS
  <1>7. n \in Dest /\ n # t /\ next[n] = t
    <2>1. \E m \in Dest : m # t /\ next[m] = t
      BY <1>5, ChainFacts
    <2>2. QED
      BY <1>6, <2>1 DEF PrevOf
  <1>8. /\ next' \in [Dest -> Dest] /\ next'[n] = next[t]
        /\ \A m \in Dest \ {t, n} : next'[m] = next[m]
    BY <1>1, <1>2, <1>6, <1>7 DEF Unlinked
  <1>9. Chain(Dest \ {t}, next', r)
    <2>1. PICK g \in [Dest -> Dest] : g = next'
      BY <1>8
    <2>2. Chain(Dest \ {t}, g, r)
      BY <1>5, <1>7, <1>8, <2>1, ChainWithout
    <2>3. QED
      BY <2>1, <2>2
  <1>10. /\ pc'[t] \in {"headFirst", "tailLink"}
         /\ \A u \in Threads \ {t} : pc'[u] = pc[u]
         /\ pc'[t] = "tailLink" => next'[t] = Imp
    <2>1. Unlinked(t) \in [Dest -> Dest]
      BY <1>1, <1>6, <1>7 DEF Unlinked
    <2>2. QED
      BY <1>1, <1>2, <2>1
  <1>11. Listed' = Dest \ {t} /\ Pointers' = next'
    <2>1. Out' = {t}
      BY <1>3, <1>10 DEF Out
    <2>2. Pointers' = [d \in Dest |-> next'[d]]
      BY <1>3, <1>10 DEF Pointers
    <2>3. QED
      BY <1>8, <2>1, <2>2 DEF Listed
  <1>12. ListInv'
    <2>1. \E x : Chain(Listed', Pointers', x)
      BY <1>9, <1>11
    <2>2. \A u, v \in Threads : pc'[u] \in MovePc /\ pc'[v] \in MovePc => u = v
      BY <1>3, <1>10 DEF MovePc
    <2>3. \A u \in Threads : pc'[u] = "tailLink" => next'[u] = Imp
      BY <1>3, <1>10
    <2>4. QED
      BY <2>1, <2>2, <2>3 DEF ListInv
  <1>13. Keeps(t)
    BY <1>2, <1>10 DEF Keeps
  <1>14. Touches(t)
    BY <1>7, <1>8 DEF Touches
  <1>15. QED
    BY <1>12, <1>13, <1>14

LEMMA LinkKeeps ==
  ASSUME TypeOK, ListInv, NEW t \in Threads, HeadFirst(t) \/ TailLink(t)
  PROVE  ListInv' /\ Keeps(t) /\ Touches(t)
  <1>1. /\ pc \in [Threads -> ThreadPc] /\ next \in [Dest -> Dest] /\ first \in [Threads -> Dest]
    BY DEF TypeOK, WorkersOK, QueuesOK
  <1>2. pc[t] \in {"headFirst", "tailLink"} /\ UNCHANGED <<cpc, item, tmp>>
    BY DEF HeadFirst, TailLink, walks
  <1>3. \A u \in Threads \ {t} : pc[u] \notin {"headFirst", "headNext", "tailLink"}
    BY <1>2 DEF ListInv, MovePc
  <1>4. Listed = Dest \ {t} /\ Pointers = next
    <2>1. Out = {t}
      BY <1>2, <1>3 DEF Out
    <2>2. Pointers = [d \in Dest |-> next[d]]
      BY <1>2, <1>3 DEF Pointers
    <2>3. QED
      BY <1>1, <2>1, <2>2 DEF Listed
  <1>5. PICK r : Chain(Dest \ {t}, next, r)
    BY <1>4 DEF ListInv
  <1>6. r \in [Dest -> Int] /\ \A m \in Dest \ {t} : next[m] # Imp => r[m] < r[next[m]]
    BY <1>5 DEF Chain
  <1>7. PICK n \in Dest \ {t}, s \in [Dest -> Int] :
          /\ next'[n] = t /\ Pointers'[t] = next[n] /\ \A m \in Dest \ {t, n} : next'[m] = next[m]
          /\ \A m \in Dest \ {t, Imp} : s[m] = r[m]
          /\ s[Imp] <= r[Imp] /\ s[n] < s[t] /\ (next[n] # Imp => s[t] < r[next[n]])
          /\ n = Imp \/ next[n] = Imp
          /\ pc' = [pc EXCEPT ![t] = IF pc[t] = "headFirst" THEN "headNext" ELSE "drain"]
          /\ \A u \in Threads \ {t} : first'[u] = first[u]
          /\ next' \in [Dest -> Dest] /\ first' \in [Threads -> Dest]
    <2>1. CASE HeadFirst(t)
      <3>1. PICK s : s = [d \in Dest |-> IF d = Imp THEN r[Imp] - 2
                                         ELSE IF d = t THEN r[Imp] - 1 ELSE r[d]]
        OBVIOUS
      <3>2. /\ pc[t] = "headFirst" /\ pc' = [pc EXCEPT ![t] = "headNext"]
            /\ first' = [first EXCEPT ![t] = next[Imp]] /\ next' = [next EXCEPT ![Imp] = t]
        BY <2>1 DEF HeadFirst
      <3>3. Pointers'[t] = next[Imp]
        BY <1>1, <3>2 DEF Pointers
      <3>4. /\ s \in [Dest -> Int] /\ \A m \in Dest \ {t, Imp} : s[m] = r[m]
            /\ s[Imp] <= r[Imp] /\ s[Imp] < s[t] /\ (next[Imp] # Imp => s[t] < r[next[Imp]])
        <4>1. r[Imp] \in Int /\ s[Imp] = r[Imp] - 2 /\ s[t] = r[Imp] - 1 /\ s \in [Dest -> Int]
          BY <1>6, <3>1
        <4>2. next[Imp] # Imp => r[Imp] < r[next[Imp]] /\ r[next[Imp]] \in Int
          BY <1>1, <1>6
        <4>3. QED
          BY <3>1, <4>1, <4>2
      <3>5. Imp \in Dest \ {t}
        OBVIOUS
      <3>6. QED
        BY <1>1, <3>2, <3>3, <3>4, <3>5
    <2>2. CASE TailLink(t)
      <3>1. PICK n : n = LastWithout(t)
        OBVIOUS
      <3>2. n \in Dest \ {t} /\ next[n] = Imp
        <4>1. \E m \in Dest \ {t} : next[m] = Imp
          BY <1>5, ChainFacts
        <4>2. QED
          BY <3>1, <4>1 DEF LastWithout
      <3>3. /\ pc[t] = "tailLink" /\ pc' = [pc EXCEPT ![t] = "drain"]
            /\ first' = first /\ next' = [next EXCEPT ![n] = t]
        BY <2>2, <3>1 DEF TailLink
      <3>4. Pointers'[t] = Imp
        BY <1>1, <3>2, <3>3 DEF Pointers, ListInv
      <3>5. PICK s : s = [d \in Dest |-> IF d = t THEN r[n] + 1 ELSE r[d]]
        OBVIOUS
      <3>6. /\ s \in [Dest -> Int] /\ \A m \in Dest \ {t, Imp} : s[m] = r[m]
            /\ s[Imp] <= r[Imp] /\ s[n] < s[t]
        BY <1>6, <3>2, <3>5
      <3>7. QED
        BY <1>1, <3>2, <3>3, <3>4, <3>6
    <2>3. QED
      BY <2>1, <2>2
  <1>8. Pointers' \in [Dest -> Dest] /\ \A m \in Dest \ {t} : Pointers'[m] = next'[m]
    BY <1>3, <1>7, <1>1 DEF Pointers
  <1>9. Chain(Dest, Pointers', s)
    <2>1. PICK g \in [Dest -> Dest], L \in SUBSET Dest : g = Pointers' /\ L = Dest \ {t}
      BY <1>8
    <2>2. /\ Chain(L, next, r) /\ t \in Threads \ L /\ n \in L /\ L \cup {t} = Dest
          /\ g[n] = t /\ g[t] = next[n] /\ \A m \in L \ {n} : g[m] = next[m]
          /\ \A m \in L \ {Imp} : s[m] = r[m]
      BY <1>5, <1>7, <1>8, <2>1
    <2>3. s[Imp] <= r[Imp] /\ s[n] < s[t] /\ (next[n] # Imp => s[t] < r[next[n]])
      BY <1>7
    <2>4. Chain(L \cup {t}, g, s)
      BY <2>2, <2>3, ChainWith
    <2>5. QED
      BY <2>1, <2>2, <2>4
  <1>10. \A u \in Threads : pc'[u] \notin {"headFirst", "tailLink"}
    BY <1>1, <1>3, <1>7
  <1>11. ListInv'
    <2>1. Listed' = Dest
      BY <1>10 DEF Listed, Out
    <2>2. \A u, v \in Threads : pc'[u] \in MovePc /\ pc'[v] \in MovePc => u = v
      BY <1>1, <1>3, <1>7 DEF MovePc
    <2>3. QED
      BY <1>9, <1>10, <2>1, <2>2 DEF ListInv
  <1>12. Keeps(t)
    BY <1>1, <1>2, <1>7 DEF Keeps
  <1>13. Touches(t)
    BY <1>7 DEF Touches
  <1>14. QED
    BY <1>11, <1>12, <1>13

LEMMA HeadNextKeeps ==
  ASSUME TypeOK, ListInv, NEW t \in Threads, HeadNext(t)
  PROVE  ListInv' /\ Keeps(t) /\ Touches(t)
  <1>1. /\ pc \in [Threads -> ThreadPc] /\ next \in [Dest -> Dest] /\ first \in [Threads -> Dest]
    BY DEF TypeOK, WorkersOK, QueuesOK
  <1>2. /\ pc[t] = "headNext" /\ pc' = [pc EXCEPT ![t] = "wait"]
        /\ next' = [next EXCEPT ![t] = first[t]] /\ first' = [first EXCEPT ![t] = Imp]
        /\ UNCHANGED <<cpc, item, tmp>>
    BY DEF HeadNext, walks
  <1>3. \A u \in Threads \ {t} : pc[u] \notin {"headFirst", "headNext", "tailLink"}
    BY <1>2 DEF ListInv, MovePc
  <1>4. Listed' = Listed
    BY <1>1, <1>2 DEF Listed, Out
  <1>5. \A d \in Dest : Pointers'[d] = Pointers[d]
    BY <1>1, <1>2, <1>3 DEF Pointers
  <1>6. Pointers' = Pointers
    BY <1>5 DEF Pointers
  <1>7. ListInv'
    <2>1. \A u \in Threads : pc'[u] \notin MovePc
      BY <1>1, <1>2, <1>3 DEF MovePc
    <2>2. QED
      BY <1>4, <1>6, <2>1 DEF ListInv, MovePc
  <1>8. Keeps(t) /\ Touches(t)
    BY <1>1, <1>2 DEF Keeps, Touches
  <1>9. QED
    BY <1>7, <1>8

\* A step that neither moves nor starts a worker.
Quiet ==
  /\ UNCHANGED <<next, first>>
  /\ \A t \in Threads : \/ pc'[t] = pc[t]
                        \/ pc[t] \notin MovePc \cup {"none"} /\ pc'[t] \notin MovePc \cup {"none"}
CtlRests == cpc' = cpc /\ item'[Ctl] = item[Ctl] /\ tmp'[Ctl] = tmp[Ctl]
Starting == cpc \in {"new", "startVisit", "startThread"}
Moves(t) == HeadUnlink(t) \/ TailUnlink(t) \/ HeadFirst(t) \/ TailLink(t) \/ HeadNext(t)

LEMMA ListFrame ==
  ASSUME ListInv, UNCHANGED <<next, first>>,
         \A t \in Threads : pc'[t] = pc[t] \/ (pc[t] \notin MovePc /\ pc'[t] \notin MovePc)
  PROVE  ListInv'
  <1>1. Listed' = Listed /\ Pointers' = Pointers
    BY DEF Listed, Out, Pointers, MovePc
  <1>2. QED
    BY <1>1 DEF ListInv, MovePc

\* What a step does to the list and to Start's walk.
LEMMA StepKinds ==
  ASSUME TypeOK, [Next]_vars
  PROVE  \/ \E t \in Threads : Moves(t)
         \/ Quiet /\ CtlRests
         \/ Quiet /\ ~Starting /\ ~Starting'
         \/ StartBegin \/ StartVisit \/ StartThread
  <1> USE DEF Quiet, CtlRests, MovePc, queues, locals, posters, walks, CtlFrame
  <1>1. /\ pc \in [Threads -> ThreadPc] /\ item \in [Walkers -> Dest] /\ tmp \in [Walkers -> Dest]
        /\ \A e \in Events : e # Ctl
    BY DEF TypeOK, WorkersOK, ControlOK
  <1>2. ASSUME NEW t \in Threads, Worker(t), ~Moves(t), ~SignalExited(t)
        PROVE  Quiet /\ CtlRests
    BY <1>1, <1>2 DEF Worker, Moves, Begin, TakeEvent, ProcessEvent, FoundEmpty, TriggerEmpty,
       RecheckOwn, RecheckAll, EnterWait, AfterWait, LeaveRun, SetExited
  <1>3. ASSUME NEW t \in Threads, SignalExited(t)
        PROVE  (Quiet /\ CtlRests) \/ (Quiet /\ ~Starting /\ ~Starting')
    BY <1>1, <1>3 DEF SignalExited, Starting
  <1>4. ASSUME NEW t \in Threads, WaitTimeout(t) PROVE Quiet /\ CtlRests
    BY <1>1, <1>4 DEF WaitTimeout
  <1>5. ASSUME NEW e \in Events, PostCheck(e) \/ Poster(e) PROVE Quiet /\ CtlRests
    <2>1. UNCHANGED <<next, first, cpc>>
      BY <1>5 DEF PostCheck, Poster, PostAdd, PostClear, PostSignal, PostWalk, PostVisit,
         PostNotify
    <2>2. item'[Ctl] = item[Ctl] /\ tmp'[Ctl] = tmp[Ctl]
      BY <1>1, <1>5 DEF PostCheck, Poster, PostAdd, PostClear, PostSignal, PostWalk, PostVisit,
         PostNotify, WalkBegin, WalkNext, WalkEnd
    <2>3. pc' = pc \/ \E d : pc' = Signalled(d)
      BY <1>5 DEF PostCheck, Poster, PostAdd, PostClear, PostSignal, PostWalk, PostVisit,
         PostNotify
    <2>4. QED
      BY <1>1, <2>1, <2>2, <2>3 DEF Signalled
  <1>6. ASSUME Control \/ ShutdownBegin \/ JoinSpurious, ~StartBegin, ~StartVisit, ~StartThread
        PROVE  Quiet /\ ~Starting /\ ~Starting'
    <2>1. UNCHANGED <<next, first>> /\ ~Starting /\ ~Starting'
      BY <1>6 DEF Control, Starting, ShutdownBegin, ShutdownWalk, ShutdownVisit, ShutdownFlag,
         ShutdownSignal, JoinVisit, JoinTest, JoinWait, JoinSpurious
    <2>2. pc' = pc \/ \E d : pc' = Signalled(d)
      BY <1>6 DEF Control, ShutdownBegin, ShutdownWalk, ShutdownVisit, ShutdownFlag,
         ShutdownSignal, JoinVisit, JoinTest, JoinWait, JoinSpurious
    <2>3. QED
      BY <1>1, <2>1, <2>2 DEF Signalled
  <1>7. CASE UNCHANGED vars
    BY <1>7 DEF vars
  <1>8. QED
    BY <1>2, <1>3, <1>4, <1>5, <1>6, <1>7 DEF Next

LEMMA ListStep == TypeOK /\ ListInv /\ [Next]_vars => ListInv'
  <1> SUFFICES ASSUME TypeOK, ListInv, [Next]_vars PROVE ListInv'
    OBVIOUS
  <1>1. ASSUME NEW t \in Threads, Moves(t) PROVE ListInv'
    BY <1>1, UnlinkKeeps, LinkKeeps, HeadNextKeeps DEF Moves
  <1>2. CASE Quiet
    BY <1>2, ListFrame DEF Quiet
  <1>3. CASE StartBegin \/ StartVisit \/ StartThread
    <2>1. UNCHANGED <<next, first>>
      BY <1>3 DEF StartBegin, StartVisit, StartThread, CtlFrame, locals
    <2>2. \A t \in Threads : pc'[t] = pc[t] \/ (pc[t] \notin MovePc /\ pc'[t] \notin MovePc)
      BY <1>3 DEF StartBegin, StartVisit, StartThread, MovePc, TypeOK, WorkersOK
    <2>3. QED
      BY <2>1, <2>2, ListFrame
  <1>4. QED
    BY <1>1, <1>2, <1>3, StepKinds

LEMMA StartStep == TypeOK /\ ListInv /\ StartInv /\ [Next]_vars => StartInv'
  <1> SUFFICES ASSUME TypeOK, ListInv, StartInv, [Next]_vars PROVE StartInv'
    OBVIOUS
  <1>1. PICK k \in 1 .. NumThreads + 1 : Started(k)
    BY DEF StartInv
  <1>2. /\ pc \in [Threads -> ThreadPc] /\ next \in [Dest -> Dest]
        /\ item \in [Walkers -> Dest] /\ tmp \in [Walkers -> Dest]
    BY DEF TypeOK, WorkersOK, QueuesOK, ControlOK
  <1>3. ASSUME NEW t \in Threads, Moves(t) PROVE Started(k)'
    <2>1. Keeps(t) /\ Touches(t)
      BY <1>3, UnlinkKeeps, LinkKeeps, HeadNextKeeps DEF Moves
    <2>2. t < k /\ t > 0 /\ t \in Nat /\ k \in Nat
      BY <1>1, <2>1 DEF Started, Keeps, Threads
    <2>3. \A u \in Threads : pc'[u] = "none" <=> u >= k
      BY <1>1, <2>1, <2>2 DEF Started, Keeps
    <2>4. \A n \in k .. NumThreads - 1 : next'[n] = n + 1
      <3>1. SUFFICES ASSUME NEW n \in k .. NumThreads - 1, next'[n] # n + 1 PROVE FALSE
        OBVIOUS
      <3>2. next[n] = n + 1 /\ n \in Threads
        BY <1>1, <2>2 DEF Started, Threads
      <3>3. n = t \/ n + 1 = t \/ n + 1 = Imp
        BY <2>1, <3>1, <3>2 DEF Touches
      <3>4. QED
        BY <2>2, <3>3 DEF Imp
    <2>5. cpc # "new"
      BY <1>1, <2>2 DEF Started
    <2>6. QED
      BY <1>1, <2>1, <2>3, <2>4, <2>5 DEF Started, Keeps
  <1>4. CASE Quiet /\ CtlRests
    <2>1. \A u \in Threads : pc'[u] = "none" <=> pc[u] = "none"
      BY <1>4 DEF Quiet
    <2>2. next' = next
      BY <1>4 DEF Quiet
    <2>3. Started(k)'
      BY <1>1, <1>4, <2>1, <2>2 DEF Started, CtlRests
    <2>4. QED
      BY <2>3 DEF StartInv
  <1>5. CASE Quiet /\ ~Starting /\ ~Starting'
    <2>1. \A u \in Threads : pc'[u] = "none" <=> pc[u] = "none"
      BY <1>5 DEF Quiet
    <2>2. next' = next
      BY <1>5 DEF Quiet
    <2>3. Started(k)'
      BY <1>1, <1>5, <2>1, <2>2 DEF Started, Starting
    <2>4. QED
      BY <2>3 DEF StartInv
  <1>6. CASE StartBegin
    <2>1. /\ cpc = "new" /\ cpc' = "startVisit" /\ item'[Ctl] = next[Imp]
          /\ pc' = pc /\ next' = next
      BY <1>2, <1>6 DEF StartBegin, WalkBegin, CtlFrame
    <2>2. Started(k)'
      BY <1>1, <2>1 DEF Started
    <2>3. QED
      BY <2>2 DEF StartInv
  <1>7. CASE StartVisit
    <2>1. cpc = "startVisit" /\ pc' = pc /\ next' = next
      BY <1>7 DEF StartVisit, CtlFrame
    <2>2. CASE item[Ctl] # Imp
      <3>1. /\ cpc' = "startThread" /\ tmp'[Ctl] = item[Ctl] /\ item'[Ctl] = next[item[Ctl]]
        BY <1>2, <1>7, <2>2 DEF StartVisit, WalkNext
      <3>2. k < NumThreads => next[k] = k + 1
        BY <1>1 DEF Started
      <3>3. Started(k)'
        BY <1>1, <2>1, <3>1, <3>2 DEF Started
      <3>4. QED
        BY <3>3 DEF StartInv
    <2>3. CASE item[Ctl] = Imp
      <3>1. cpc' = "running"
        BY <1>7, <2>3 DEF StartVisit
      <3>2. k = NumThreads + 1
        BY <1>1, <2>1, <2>3 DEF Started, Imp
      <3>3. Started(k)'
        BY <1>1, <2>1, <3>1, <3>2 DEF Started
      <3>4. QED
        BY <3>3 DEF StartInv
    <2>4. QED
      BY <2>2, <2>3
  <1>8. CASE StartThread
    <2>1. /\ cpc = "startThread" /\ cpc' = "startVisit" /\ tmp[Ctl] \in Threads
          /\ next' = next /\ item' = item /\ tmp' = tmp
      BY <1>8 DEF StartThread, CtlFrame, walks, TypeOK, ControlOK
    <2>2. CASE k > NumThreads
      <3>1. \A u \in Threads : pc[u] # "none"
        BY <1>1, <2>2 DEF Started, Threads
      <3>2. pc' = pc
        BY <1>8, <2>1, <3>1 DEF StartThread
      <3>3. Started(k)'
        BY <1>1, <2>1, <2>2, <3>2 DEF Started
      <3>4. QED
        BY <3>3 DEF StartInv
    <2>3. CASE k <= NumThreads
      <3>1. /\ tmp[Ctl] = k /\ k \in Threads /\ pc[k] = "none"
            /\ k < NumThreads => item[Ctl] = k + 1
        BY <1>1, <2>1, <2>3 DEF Started, Threads
      <3>2. pc' = [pc EXCEPT ![k] = "created"]
        BY <1>8, <3>1 DEF StartThread
      <3>3. \A u \in Threads : pc'[u] = "none" <=> u >= k + 1
        BY <1>1, <1>2, <3>1, <3>2 DEF Started, Threads
      <3>4. Started(k + 1)'
        BY <1>1, <2>1, <3>1, <3>3 DEF Started
      <3>5. k + 1 \in 1 .. NumThreads + 1
        BY <2>3
      <3>6. QED
        BY <3>4, <3>5 DEF StartInv
    <2>4. QED
      BY <2>2, <2>3
  <1>9. QED
    BY <1>3, <1>4, <1>5, <1>6, <1>7, <1>8, StepKinds DEF StartInv

\* The constructor makes one list of the threads, none of them started.
LEMMA InitList == Init => ListInv /\ StartInv
  <1> SUFFICES ASSUME Init PROVE ListInv /\ StartInv
    OBVIOUS
  <1>1. /\ next \in [Dest -> Dest] /\ \A d \in Dest : next[d] = (d + 1) % (NumThreads + 1)
    BY InitTypeOK DEF Init, InitialNext, TypeOK, QueuesOK
  <1>2. \A d \in Dest : next[d] = IF d = NumThreads THEN 0 ELSE d + 1
    <2>1. SUFFICES ASSUME NEW d \in Dest
                   PROVE  (d + 1) % (NumThreads + 1) = IF d = NumThreads THEN 0 ELSE d + 1
      BY <1>1
    <2>2. d \in 0 .. NumThreads
      BY DEF Threads, Imp
    <2>3. QED
      BY <2>2
  <1>3. \A t \in Threads : pc[t] = "none"
    BY DEF Init
  <1>4. Listed = Dest /\ Pointers = next
    <2>1. Out = {}
      BY <1>3 DEF Out
    <2>2. Pointers = [d \in Dest |-> next[d]]
      BY <1>3 DEF Pointers
    <2>3. QED
      BY <1>1, <2>1, <2>2 DEF Listed
  <1>5. Dest = 0 .. NumThreads /\ Imp = 0
    BY DEF Threads, Imp
  <1>6. Chain(Dest, next, [d \in Dest |-> d])
    <2> DEFINE r == [d \in Dest |-> d]
    <2>1. r \in [Dest -> Int] /\ \A d \in Dest : r[d] = d
      BY <1>5
    <2> HIDE DEF r
    <2>2. \A n \in Dest : next[n] \in Dest /\ (next[n] # Imp => r[n] < r[next[n]])
      BY <1>1, <1>2, <1>5, <2>1
    <2>3. ASSUME NEW d \in Dest PROVE \E n \in Dest : next[n] = d
      <3>1. CASE d = 0
        <4>1. next[NumThreads] = 0 /\ NumThreads \in Dest
          BY <1>2, <1>5
        <4>2. QED
          BY <3>1, <4>1
      <3>2. CASE d # 0
        <4>1. d - 1 \in Dest /\ d - 1 # NumThreads /\ (d - 1) + 1 = d
          BY <1>5, <3>2
        <4>2. QED
          BY <1>2, <4>1
      <3>3. QED
        BY <3>1, <3>2
    <2>4. \A m, n \in Dest : next[m] = next[n] => m = n
      BY <1>2, <1>5
    <2>5. Chain(Dest, next, r)
      BY <1>1, <1>5, <2>1, <2>2, <2>3, <2>4 DEF Chain
    <2>6. QED
      BY <2>5 DEF r
  <1>7. ListInv
    BY <1>3, <1>4, <1>6 DEF ListInv, MovePc
  <1>8. Started(1)
    <2>1. \A t \in Threads : pc[t] = "none" <=> t >= 1
      BY <1>3 DEF Threads
    <2>2. next[Imp] = 1 /\ \A t \in 1 .. NumThreads - 1 : next[t] = t + 1
      BY <1>2, <1>5
    <2>3. QED
      BY <2>1, <2>2 DEF Started, Init
  <1>9. QED
    BY <1>7, <1>8 DEF StartInv

\* Whatever the workers that run already do to the list, in whatever order, it stays one
\* list from its head back to it, but for the one worker that is out of it to move.
THEOREM ListStaysWhole == Spec => []ListInv
  BY InitTypeOK, InitList, TypeOKStep, ListStep, PTL DEF Spec

\* Start's unlocked walk creates every thread, although the threads that it has created
\* move themselves to either end of the list meanwhile.
THEOREM StartCreatesAll == Spec => []StartReachesAll
  <1>1. StartInv => StartReachesAll
    BY DEF StartInv, Started, StartReachesAll, Threads
  <1>2. QED
    BY <1>1, InitTypeOK, InitList, TypeOKStep, ListStep, StartStep, PTL DEF Spec

-----------------------------------------------------------------------------
(* CObjEventQueue implements EventBox, for every number of threads and every *)
(* set of events: the initial state maps to an initial state of the box, and *)
(* every step to a step of the box or to a stutter.                          *)
-----------------------------------------------------------------------------
(* An event is in one place at a time.  The box forbids to put in what was   *)
(* put in before and to finish what was finished before, and the code never  *)
(* tests either: it is so because PostEvent queues an event once, GetNextEvent *)
(* unlinks what it returns, and a worker forgets the event it has executed.  *)

\* What waits was accepted, waits in one place of one queue, and is not yet done.
WaitingOnce ==
    \A d \in Dest : \A i \in 1..Len(queue[d]) :
        /\ queue[d][i] \in Posted /\ queue[d][i] \notin Executed
        /\ \A c \in Dest : \A j \in 1..Len(queue[c]) :
               queue[d][i] = queue[c][j] => d = c /\ i = j

\* What is executed was accepted, is executed by one thread, is not yet done,
\* and does not wait in a queue any more.
RunningOnce ==
    \A t \in Threads : pc[t] = "run" =>
        /\ cur[t] \in Posted /\ cur[t] \notin Executed
        /\ \A u \in Threads : pc[u] = "run" /\ cur[u] = cur[t] => u = t
        /\ \A d \in Dest : \A i \in 1..Len(queue[d]) : queue[d][i] # cur[t]

OnePlace == WaitingOnce /\ RunningOnce /\ Executed \subseteq Posted

\* Steps that leave the queues, the events at work and the posters' progress
\* past the queueing alone.
Elsewhere ==
    /\ UNCHANGED <<queue, done>>
    /\ \A t \in Threads : InHand(t)' = InHand(t)
    /\ \A t \in Threads : (pc'[t] = "run") <=> (pc[t] = "run")
    /\ \A t \in Threads : pc[t] = "run" => cur'[t] = cur[t]
    /\ Posted' = Posted

\* Three kinds of step move an event; every other leaves all of them in place.
LEMMA OthersMoveNothing ==
  ASSUME TypeOK, [Next]_vars
  PROVE  \/ Elsewhere
         \/ \E t \in Threads : TakeEvent(t) \/ ProcessEvent(t)
         \/ \E e \in Events : PostAdd(e)
  <1> USE DEF TypeOK, WorkersOK, PostersOK, ControlOK, queues, locals, posters,
              walks, CtlFrame, MovePc, Elsewhere, InHand, Posted
  <1>1. ASSUME NEW t \in Threads, Begin(t) PROVE Elsewhere
    BY <1>1 DEF Begin
  <1>2. ASSUME NEW t \in Threads, FoundEmpty(t) PROVE Elsewhere
    BY <1>2 DEF FoundEmpty
  <1>3. ASSUME NEW t \in Threads, TriggerEmpty(t) PROVE Elsewhere
    BY <1>3 DEF TriggerEmpty
  <1>4. ASSUME NEW t \in Threads, RecheckOwn(t) PROVE Elsewhere
    BY <1>4 DEF RecheckOwn
  <1>5. ASSUME NEW t \in Threads, RecheckAll(t) PROVE Elsewhere
    BY <1>5 DEF RecheckAll
  <1>6. ASSUME NEW t \in Threads, HeadUnlink(t) PROVE Elsewhere
    BY <1>6 DEF HeadUnlink
  <1>7. ASSUME NEW t \in Threads, HeadFirst(t) PROVE Elsewhere
    BY <1>7 DEF HeadFirst
  <1>8. ASSUME NEW t \in Threads, HeadNext(t) PROVE Elsewhere
    BY <1>8 DEF HeadNext
  <1>9. ASSUME NEW t \in Threads, EnterWait(t) PROVE Elsewhere
    BY <1>9 DEF EnterWait
  <1>10. ASSUME NEW t \in Threads, WaitTimeout(t) PROVE Elsewhere
    BY <1>10 DEF WaitTimeout
  <1>11. ASSUME NEW t \in Threads, AfterWait(t) PROVE Elsewhere
    BY <1>11 DEF AfterWait
  <1>12. ASSUME NEW t \in Threads, TailUnlink(t) PROVE Elsewhere
    BY <1>12 DEF TailUnlink
  <1>13. ASSUME NEW t \in Threads, TailLink(t) PROVE Elsewhere
    BY <1>13 DEF TailLink
  <1>14. ASSUME NEW t \in Threads, LeaveRun(t) PROVE Elsewhere
    BY <1>14 DEF LeaveRun
  <1>15. ASSUME NEW t \in Threads, SetExited(t) PROVE Elsewhere
    BY <1>15 DEF SetExited
  <1>16. ASSUME NEW t \in Threads, SignalExited(t) PROVE Elsewhere
    BY <1>16 DEF SignalExited
  <1>17. ASSUME NEW e \in Events, PostCheck(e) PROVE Elsewhere
    BY <1>17 DEF PostCheck
  <1>18. ASSUME NEW e \in Events, PostClear(e) PROVE Elsewhere
    BY <1>18 DEF PostClear
  <1>19. ASSUME NEW e \in Events, PostSignal(e) PROVE Elsewhere
    BY <1>19 DEF PostSignal, Signalled
  <1>20. ASSUME NEW e \in Events, PostWalk(e) PROVE Elsewhere
    BY <1>20 DEF PostWalk, WalkBegin
  <1>21. ASSUME NEW e \in Events, PostVisit(e) PROVE Elsewhere
    BY <1>21 DEF PostVisit, WalkNext, WalkEnd
  <1>22. ASSUME NEW e \in Events, PostNotify(e) PROVE Elsewhere
    BY <1>22 DEF PostNotify, Signalled
  <1>23. ASSUME StartBegin PROVE Elsewhere
    BY <1>23 DEF StartBegin
  <1>24. ASSUME StartVisit PROVE Elsewhere
    BY <1>24 DEF StartVisit
  <1>25. ASSUME StartThread PROVE Elsewhere
    BY <1>25 DEF StartThread
  <1>26. ASSUME ShutdownBegin PROVE Elsewhere
    BY <1>26 DEF ShutdownBegin
  <1>27. ASSUME ShutdownWalk PROVE Elsewhere
    BY <1>27 DEF ShutdownWalk
  <1>28. ASSUME ShutdownVisit PROVE Elsewhere
    BY <1>28 DEF ShutdownVisit
  <1>29. ASSUME ShutdownFlag PROVE Elsewhere
    BY <1>29 DEF ShutdownFlag
  <1>30. ASSUME ShutdownSignal PROVE Elsewhere
    BY <1>30 DEF ShutdownSignal, Signalled
  <1>31. ASSUME JoinVisit PROVE Elsewhere
    BY <1>31 DEF JoinVisit
  <1>32. ASSUME JoinTest PROVE Elsewhere
    BY <1>32 DEF JoinTest
  <1>33. ASSUME JoinWait PROVE Elsewhere
    BY <1>33 DEF JoinWait
  <1>34. ASSUME JoinSpurious PROVE Elsewhere
    BY <1>34 DEF JoinSpurious
  <1>35. CASE UNCHANGED vars
    BY <1>35 DEF vars
  <1>36. QED
    BY <1>1, <1>2, <1>3, <1>4, <1>5, <1>6, <1>7, <1>8, <1>9, <1>10, <1>11,
       <1>12, <1>13, <1>14, <1>15, <1>16, <1>17, <1>18, <1>19, <1>20, <1>21,
       <1>22, <1>23, <1>24, <1>25, <1>26, <1>27, <1>28, <1>29, <1>30, <1>31,
       <1>32, <1>33, <1>34, <1>35
       DEF Next, Worker, Poster, Control

\* Membership in Executed, before and after a step of ProcessEvent.
LEMMA FinishedJoinsExecuted ==
  ASSUME TypeOK, NEW t \in Threads, ProcessEvent(t)
  PROVE  Executed' = Executed \cup {cur[t]}
  <1> USE DEF TypeOK, QueuesOK, WorkersOK
  <1>1. cur[t] \in Events /\ src[t] \in Dest /\ done[src[t]] \in Seq(Events)
        /\ done' = [done EXCEPT ![src[t]] = Append(@, cur[t])]
    BY DEF ProcessEvent
  <1>2. /\ done'[src[t]] = Append(done[src[t]], cur[t])
        /\ \A d \in Dest : d # src[t] => done'[d] = done[d]
    BY <1>1
  <1>3. /\ Len(done'[src[t]]) = Len(done[src[t]]) + 1
        /\ \A i \in 1..Len(done[src[t]]) : done'[src[t]][i] = done[src[t]][i]
        /\ done'[src[t]][Len(done[src[t]]) + 1] = cur[t]
    BY <1>1, <1>2, AppendProperties
  <1>4. Len(done[src[t]]) \in Nat
    BY <1>1, LenProperties
  <1>5. ASSUME NEW e \in Executed PROVE e \in Executed'
    <2>1. PICK d \in Dest : \E i \in 1..Len(done[d]) : done[d][i] = e
      BY DEF Executed
    <2>2. PICK i \in 1..Len(done[d]) : done[d][i] = e
      BY <2>1
    <2>3. e \in Events
      BY DEF Executed
    <2>4. CASE d = src[t]
      <3>1. i \in 1..Len(done'[d]) /\ done'[d][i] = e
        BY <1>3, <1>4, <2>2, <2>4
      <3>2. QED
        BY <2>3, <3>1 DEF Executed
    <2>5. CASE d # src[t]
      BY <1>2, <2>2, <2>3, <2>5 DEF Executed
    <2>6. QED
      BY <2>4, <2>5
  <1>6. cur[t] \in Executed'
    <2>1. Len(done[src[t]]) + 1 \in 1..Len(done'[src[t]])
      BY <1>3, <1>4
    <2>2. QED
      BY <1>1, <1>3, <2>1 DEF Executed
  <1>7. ASSUME NEW e \in Executed', e # cur[t] PROVE e \in Executed
    <2>1. PICK d \in Dest : \E i \in 1..Len(done'[d]) : done'[d][i] = e
      BY DEF Executed
    <2>2. PICK i \in 1..Len(done'[d]) : done'[d][i] = e
      BY <2>1
    <2>3. e \in Events
      BY DEF Executed
    <2>4. CASE d = src[t]
      <3>1. i \in 1..Len(done[d])
        BY <1>3, <1>4, <1>7, <2>2, <2>4
      <3>2. QED
        BY <1>3, <2>2, <2>3, <2>4, <3>1 DEF Executed
    <2>5. CASE d # src[t]
      BY <1>2, <2>2, <2>3, <2>5 DEF Executed
    <2>6. QED
      BY <2>4, <2>5
  <1>8. QED
    BY <1>5, <1>6, <1>7

\* What a poster adds was not accepted before, is then, and is put at the end.
LEMMA AddedJoinsPosted ==
  ASSUME TypeOK, NEW e \in Events, PostAdd(e)
  PROVE  /\ e \notin Posted /\ Posted' = Posted \cup {e}
         /\ dest[e] \in Dest
         /\ queue' = [queue EXCEPT ![dest[e]] = Append(@, e)]
         /\ Executed' = Executed
         /\ UNCHANGED <<pc, src, cur>>
  BY DEF TypeOK, PostersOK, PostAdd, Posted, Executed, locals

\* Taking: the head leaves its queue, the others move up by one.
LEMMA TakeKeepsOnePlace ==
  ASSUME TypeOK, OnePlace, NEW t \in Threads, TakeEvent(t)
  PROVE  OnePlace'
  <1> USE DEF TypeOK, QueuesOK, WorkersOK
  <1> DEFINE s == src[t]
             q == queue[s]
  <1>1. /\ s \in Dest /\ q \in Seq(Events) /\ q # <<>>
        /\ queue' = [queue EXCEPT ![s] = Tail(q)]
        /\ cur' = [cur EXCEPT ![t] = Head(q)]
        /\ pc' = [pc EXCEPT ![t] = "run"] /\ pc[t] # "run"
    BY DEF TakeEvent
  <1>2. Posted' = Posted /\ Executed' = Executed
    BY DEF TakeEvent, Posted, Executed, posters
  <1>3. /\ Len(q) \in Nat /\ 1 \in 1..Len(q) /\ Head(q) = q[1]
        /\ Len(Tail(q)) = Len(q) - 1
        /\ \A i \in 1..Len(Tail(q)) : Tail(q)[i] = q[i + 1]
    BY <1>1, HeadTailProperties, LenProperties, EmptySeq
  <1>4. /\ queue'[s] = Tail(q)
        /\ \A d \in Dest : d # s => queue'[d] = queue[d]
    BY <1>1
  <1>5. \A i \in 1..Len(queue'[s]) : i + 1 \in 1..Len(q) /\ queue'[s][i] = q[i + 1]
    BY <1>3, <1>4
  <1>6. \A d \in Dest : \A i \in 1..Len(queue[d]) : i \in Nat
    OBVIOUS
  <1> DEFINE Was(d, i) == IF d = s THEN i + 1 ELSE i
  <1>7. ASSUME NEW d \in Dest, NEW i \in 1..Len(queue'[d])
        PROVE  /\ Was(d, i) \in 1..Len(queue[d]) /\ queue'[d][i] = queue[d][Was(d, i)]
               /\ d = s => Was(d, i) # 1
    <2>1. CASE d = s
      <3>1. i \in 1..Len(queue'[s])
        BY <2>1
      <3>2. i + 1 \in 1..Len(q) /\ queue'[s][i] = q[i + 1]
        BY <1>5, <3>1
      <3>3. i + 1 # 1
        BY <3>1
      <3>4. QED
        BY <2>1, <3>2, <3>3
    <2>2. CASE d # s
      BY <1>4, <2>2
    <2>3. QED
      BY <2>1, <2>2
  <1>8. ASSUME NEW d \in Dest, NEW i \in 1..Len(queue[d])
         PROVE  /\ queue[d][i] \in Posted /\ queue[d][i] \notin Executed
                /\ \A c \in Dest : \A j \in 1..Len(queue[c]) :
                       queue[d][i] = queue[c][j] => d = c /\ i = j
    BY DEF OnePlace, WaitingOnce
  <1>9. \A d \in Dest : \A i, j \in 1..Len(queue'[d]) : Was(d, i) = Was(d, j) => i = j
    OBVIOUS
  <1> HIDE DEF Was
  <1>10. ASSUME NEW d \in Dest, NEW i \in 1..Len(queue'[d])
        PROVE  queue'[d][i] # q[1]
    <2>1. /\ Was(d, i) \in 1..Len(queue[d]) /\ queue'[d][i] = queue[d][Was(d, i)]
          /\ d = s => Was(d, i) # 1
      BY <1>7
    <2>2. s \in Dest /\ 1 \in 1..Len(queue[s])
      BY <1>1, <1>3
    <2>3. queue[d][Was(d, i)] = queue[s][1] => d = s /\ Was(d, i) = 1
      BY <1>8, <2>1, <2>2
    <2>4. QED
      BY <2>1, <2>3
  <1> HIDE DEF s, q
  <1>11. WaitingOnce'
    <2>1. SUFFICES ASSUME NEW d \in Dest, NEW i \in 1..Len(queue'[d])
                   PROVE  /\ queue'[d][i] \in Posted' /\ queue'[d][i] \notin Executed'
                          /\ \A c \in Dest : \A j \in 1..Len(queue'[c]) :
                                 queue'[d][i] = queue'[c][j] => d = c /\ i = j
      BY DEF WaitingOnce
    <2>2. Was(d, i) \in 1..Len(queue[d]) /\ queue'[d][i] = queue[d][Was(d, i)]
      BY <1>7
    <2>3. queue'[d][i] \in Posted /\ queue'[d][i] \notin Executed
      BY <1>8, <2>2
    <2>4. ASSUME NEW c \in Dest, NEW j \in 1..Len(queue'[c]),
                 queue'[d][i] = queue'[c][j]
          PROVE  d = c /\ i = j
      <3>1. Was(c, j) \in 1..Len(queue[c]) /\ queue'[c][j] = queue[c][Was(c, j)]
        BY <1>7
      <3>2. \A m \in 1..Len(queue[d]), n \in 1..Len(queue[c]) :
                queue[d][m] = queue[c][n] => d = c /\ m = n
        BY <1>8
      <3>3. queue[d][Was(d, i)] = queue[c][Was(c, j)]
        BY <2>2, <2>4, <3>1
      <3>4. d = c /\ Was(d, i) = Was(c, j)
        BY <2>2, <3>1, <3>2, <3>3
      <3>5. QED
        BY <1>9, <3>4
    <2>5. QED
      BY <1>2, <2>3, <2>4
  <1>12. /\ \A u \in Threads : pc'[u] = "run" <=> u = t \/ pc[u] = "run"
         /\ cur'[t] = q[1] /\ \A u \in Threads : u # t => cur'[u] = cur[u]
    BY <1>1, <1>3
  <1>13. \A u \in Threads : pc[u] = "run" => cur[u] # q[1]
    BY <1>1, <1>3 DEF OnePlace, RunningOnce, s, q
  <1>14. q[1] \in Posted /\ q[1] \notin Executed
    BY <1>1, <1>3 DEF OnePlace, WaitingOnce, s, q
  <1>15. ASSUME NEW u \in Threads, pc[u] = "run",
                NEW d \in Dest, NEW i \in 1..Len(queue'[d])
         PROVE  queue'[d][i] # cur[u]
    <2>1. \A j \in 1..Len(queue[d]) : queue[d][j] # cur[u]
      BY <1>15 DEF OnePlace, RunningOnce
    <2>2. Was(d, i) \in 1..Len(queue[d]) /\ queue'[d][i] = queue[d][Was(d, i)]
      BY <1>7
    <2>3. QED
      BY <2>1, <2>2
  <1>16. RunningOnce'
    <2>1. SUFFICES ASSUME NEW u \in Threads, pc'[u] = "run"
                   PROVE  /\ cur'[u] \in Posted' /\ cur'[u] \notin Executed'
                          /\ \A v \in Threads : pc'[v] = "run" /\ cur'[v] = cur'[u] => v = u
                          /\ \A d \in Dest : \A i \in 1..Len(queue'[d]) : queue'[d][i] # cur'[u]
      BY DEF RunningOnce
    <2>2. CASE u = t
      BY <1>2, <1>10, <1>12, <1>13, <1>14, <2>2
    <2>3. CASE u # t
      <3>1. pc[u] = "run" /\ cur'[u] = cur[u]
        BY <1>12, <2>1, <2>3
      <3>2. cur[u] \in Posted /\ cur[u] \notin Executed
            /\ \A v \in Threads : pc[v] = "run" /\ cur[v] = cur[u] => v = u
        BY <3>1 DEF OnePlace, RunningOnce
      <3>3. \A v \in Threads : pc'[v] = "run" /\ cur'[v] = cur'[u] => v = u
        BY <1>12, <1>13, <3>1, <3>2
      <3>4. QED
        BY <1>2, <1>15, <3>1, <3>2, <3>3
    <2>4. QED
      BY <2>2, <2>3
  <1>17. QED
    BY <1>2, <1>11, <1>16 DEF OnePlace

\* Finishing: the event leaves the hand of its worker for good.
LEMMA FinishKeepsOnePlace ==
  ASSUME TypeOK, OnePlace, NEW t \in Threads, ProcessEvent(t)
  PROVE  OnePlace'
  <1>1. Executed' = Executed \cup {cur[t]} /\ Posted' = Posted /\ queue' = queue
    BY FinishedJoinsExecuted DEF ProcessEvent, Posted, posters
  <1>2. /\ pc[t] = "run" /\ pc'[t] # "run"
        /\ \A u \in Threads : u # t => pc'[u] = pc[u] /\ cur'[u] = cur[u]
    BY DEF ProcessEvent, TypeOK, WorkersOK
  <1>3. cur[t] \in Posted /\ \A u \in Threads : pc[u] = "run" /\ cur[u] = cur[t] => u = t
    BY <1>2 DEF OnePlace, RunningOnce
  <1>4. \A d \in Dest : \A i \in 1..Len(queue[d]) : queue[d][i] # cur[t]
    BY <1>2 DEF OnePlace, RunningOnce
  <1>5. WaitingOnce'
    BY <1>1, <1>4 DEF OnePlace, WaitingOnce
  <1>6. RunningOnce'
    BY <1>1, <1>2, <1>3 DEF OnePlace, RunningOnce
  <1>7. QED
    BY <1>1, <1>3, <1>5, <1>6 DEF OnePlace

\* Adding: the event is new to every queue, hand and result.
LEMMA AddKeepsOnePlace ==
  ASSUME TypeOK, OnePlace, NEW e \in Events, PostAdd(e)
  PROVE  OnePlace'
  <1> USE DEF TypeOK, QueuesOK, WorkersOK
  <1> DEFINE s == dest[e]
             q == queue[s]
  <1>1. /\ e \notin Posted /\ Posted' = Posted \cup {e} /\ s \in Dest
        /\ queue' = [queue EXCEPT ![s] = Append(q, e)]
        /\ Executed' = Executed /\ pc' = pc /\ cur' = cur
    BY AddedJoinsPosted
  <1>2. q \in Seq(Events) /\ Len(q) \in Nat
    BY <1>1, LenProperties
  <1>3. /\ Len(Append(q, e)) = Len(q) + 1
        /\ \A i \in 1..Len(q) : Append(q, e)[i] = q[i]
        /\ Append(q, e)[Len(q) + 1] = e
    BY <1>2, AppendProperties
  <1>4. /\ queue'[s] = Append(q, e)
        /\ \A d \in Dest : d # s => queue'[d] = queue[d]
    BY <1>1
  <1>5. \A d \in Dest : \A i \in 1..Len(queue'[d]) :
            \/ i \in 1..Len(queue[d]) /\ queue'[d][i] = queue[d][i]
            \/ d = s /\ i = Len(q) + 1 /\ queue'[d][i] = e
    <2>1. SUFFICES ASSUME NEW d \in Dest, NEW i \in 1..Len(queue'[d])
                   PROVE  \/ i \in 1..Len(queue[d]) /\ queue'[d][i] = queue[d][i]
                          \/ d = s /\ i = Len(q) + 1 /\ queue'[d][i] = e
      OBVIOUS
    <2>2. CASE d = s
      <3>1. i \in 1..(Len(q) + 1)
        BY <1>3, <1>4, <2>2
      <3>2. \A n \in Nat : \A k \in 1..(n + 1) : k \in 1..n \/ k = n + 1
        OBVIOUS
      <3>3. i \in 1..Len(q) \/ i = Len(q) + 1
        BY <1>2, <3>1, <3>2
      <3>4. i \in 1..Len(q) => i \in 1..Len(queue[d]) /\ queue'[d][i] = queue[d][i]
        BY <1>3, <1>4, <2>2
      <3>5. i = Len(q) + 1 => queue'[d][i] = e
        BY <1>3, <1>4, <2>2
      <3>6. QED
        BY <2>2, <3>3, <3>4, <3>5
    <2>3. CASE d # s
      BY <1>4, <2>3
    <2>4. QED
      BY <2>2, <2>3
  <1>6. ASSUME NEW d \in Dest, NEW i \in 1..Len(queue[d])
         PROVE  /\ queue[d][i] \in Posted /\ queue[d][i] \notin Executed
                /\ \A c \in Dest : \A j \in 1..Len(queue[c]) :
                       queue[d][i] = queue[c][j] => d = c /\ i = j
    BY DEF OnePlace, WaitingOnce
  <1>7. /\ \A d \in Dest : \A i \in 1..Len(queue[d]) : queue[d][i] # e
        /\ \A u \in Threads : pc[u] = "run" => cur[u] # e
        /\ e \notin Executed
    <2>1. \A d \in Dest : \A i \in 1..Len(queue[d]) : queue[d][i] # e
      BY <1>1, <1>6
    <2>2. \A u \in Threads : pc[u] = "run" => cur[u] # e
      BY <1>1 DEF OnePlace, RunningOnce
    <2>3. e \notin Executed
      BY <1>1 DEF OnePlace
    <2>4. QED
      BY <2>1, <2>2, <2>3
  <1> HIDE DEF s, q
  <1>8. WaitingOnce'
    <2>1. SUFFICES ASSUME NEW d \in Dest, NEW i \in 1..Len(queue'[d])
                   PROVE  /\ queue'[d][i] \in Posted' /\ queue'[d][i] \notin Executed'
                          /\ \A c \in Dest : \A j \in 1..Len(queue'[c]) :
                                 queue'[d][i] = queue'[c][j] => d = c /\ i = j
      BY DEF WaitingOnce
    <2>2. queue'[d][i] \in Posted' /\ queue'[d][i] \notin Executed'
      <3>1. CASE i \in 1..Len(queue[d]) /\ queue'[d][i] = queue[d][i]
        BY <1>1, <1>6, <3>1
      <3>2. CASE queue'[d][i] = e
        BY <1>1, <1>7, <3>2
      <3>3. QED
        BY <1>5, <3>1, <3>2
    <2>3. ASSUME NEW c \in Dest, NEW j \in 1..Len(queue'[c]),
                 queue'[d][i] = queue'[c][j]
          PROVE  d = c /\ i = j
      <3>1. \/ j \in 1..Len(queue[c]) /\ queue'[c][j] = queue[c][j]
            \/ c = s /\ j = Len(q) + 1 /\ queue'[c][j] = e
        BY <1>5
      <3>2. \/ i \in 1..Len(queue[d]) /\ queue'[d][i] = queue[d][i]
            \/ d = s /\ i = Len(q) + 1 /\ queue'[d][i] = e
        BY <1>5
      <3>3. CASE i \in 1..Len(queue[d]) /\ queue'[d][i] = queue[d][i]
        <4>1. queue[d][i] # e
          BY <1>7, <3>3
        <4>2. j \in 1..Len(queue[c]) /\ queue[d][i] = queue[c][j]
          BY <2>3, <3>1, <3>3, <4>1
        <4>3. QED
          BY <1>6, <3>3, <4>2
      <3>4. CASE d = s /\ i = Len(q) + 1 /\ queue'[d][i] = e
        <4>1. ~(j \in 1..Len(queue[c]) /\ queue'[c][j] = queue[c][j])
          BY <1>7, <2>3, <3>4
        <4>2. QED
          BY <3>1, <3>4, <4>1
      <3>5. QED
        BY <3>2, <3>3, <3>4
    <2>4. QED
      BY <2>2, <2>3
  <1>9. RunningOnce'
    <2>1. SUFFICES ASSUME NEW u \in Threads, pc[u] = "run"
                   PROVE  /\ cur[u] \in Posted' /\ cur[u] \notin Executed
                          /\ \A v \in Threads : pc[v] = "run" /\ cur[v] = cur[u] => v = u
                          /\ \A d \in Dest : \A i \in 1..Len(queue'[d]) : queue'[d][i] # cur[u]
      BY <1>1 DEF RunningOnce
    <2>2. /\ cur[u] \in Posted /\ cur[u] \notin Executed
          /\ \A v \in Threads : pc[v] = "run" /\ cur[v] = cur[u] => v = u
          /\ \A d \in Dest : \A i \in 1..Len(queue[d]) : queue[d][i] # cur[u]
      BY <2>1 DEF OnePlace, RunningOnce
    <2>3. QED
      BY <1>1, <1>5, <1>7, <2>1, <2>2
  <1>10. QED
    BY <1>1, <1>8, <1>9 DEF OnePlace

\* Every other step leaves each event where it is.
LEMMA ElsewhereKeepsOnePlace ==
  ASSUME OnePlace, Elsewhere
  PROVE  OnePlace'
  <1>1. Executed' = Executed /\ Posted' = Posted /\ queue' = queue
    BY DEF Elsewhere, Executed
  <1>2. \A t \in Threads : /\ pc'[t] = "run" <=> pc[t] = "run"
                           /\ pc[t] = "run" => cur'[t] = cur[t]
    BY DEF Elsewhere
  <1>3. WaitingOnce'
    BY <1>1 DEF OnePlace, WaitingOnce
  <1>4. RunningOnce'
    BY <1>1, <1>2 DEF OnePlace, RunningOnce
  <1>5. QED
    BY <1>1, <1>3, <1>4 DEF OnePlace

LEMMA InitOnePlace == Init => OnePlace
  <1> SUFFICES ASSUME Init PROVE OnePlace
    OBVIOUS
  <1>1. \A d \in Dest : Len(queue[d]) = 0 /\ Len(done[d]) = 0
    BY EmptySeq DEF Init
  <1>2. \A t \in Threads : pc[t] # "run"
    BY DEF Init
  <1>3. Executed = {}
    BY <1>1 DEF Executed
  <1>4. QED
    BY <1>1, <1>2, <1>3 DEF OnePlace, WaitingOnce, RunningOnce

LEMMA OnePlaceStep == TypeOK /\ OnePlace /\ [Next]_vars => OnePlace'
  BY OthersMoveNothing, TakeKeepsOnePlace, FinishKeepsOnePlace, AddKeepsOnePlace,
     ElsewhereKeepsOnePlace

\* Wherever threads are between queueing, taking and executing, every accepted
\* event waits in one place of one queue, or is executed by one worker, or has
\* been executed: GetNextEvent hands no event to two workers of the pool.
THEOREM EventsInOnePlace == Spec => []OnePlace
  BY InitTypeOK, TypeOKStep, InitOnePlace, OnePlaceStep, PTL DEF Spec

-----------------------------------------------------------------------------
(* The refinement.                                                          *)

\* The initial state of the queue is an initial state of the box.
LEMMA InitIsBoxInit == Init => Box!Init
  <1> SUFFICES ASSUME Init PROVE Box!Init
    OBVIOUS
  <1>1. Posted = {}
    BY DEF Init, Posted
  <1>2. Executed = {}
    <2>1. \A d \in Dest : Len(done[d]) = 0
      BY EmptySeq DEF Init
    <2>2. QED
      BY <2>1 DEF Executed
  <1>3. [t \in Threads |-> InHand(t)] = [t \in Threads |-> Box!Idle]
    BY DEF Init, InHand, Box!Idle
  <1>4. queue = [d \in Box!Dest |-> <<>>]
    BY DEF Init, Box!Dest
  <1>5. QED
    BY <1>1, <1>2, <1>3, <1>4 DEF Box!Init

\* GetNextEvent is a Take of the box, by a thread whose hand is empty.
LEMMA TakeIsBoxTake ==
  ASSUME TypeOK, NEW t \in Threads, TakeEvent(t)
  PROVE  Box!Take(t, src[t])
  <1> USE DEF TypeOK, QueuesOK, WorkersOK
  <1>1. Posted' = Posted /\ Executed' = Executed
    BY DEF TakeEvent, Posted, Executed, posters
  <1>2. src[t] \in {t, Imp} /\ queue[src[t]] # <<>>
    BY DEF TakeEvent
  <1>3. InHand(t).event = NoEvent
    BY DEF TakeEvent, InHand
  <1>4. [u \in Threads |-> InHand(u)]'
          = [[u \in Threads |-> InHand(u)] EXCEPT
               ![t] = [from |-> src[t], event |-> Head(queue[src[t]])]]
    <2>1. InHand(t)' = [from |-> src[t], event |-> Head(queue[src[t]])]
      BY DEF TakeEvent, InHand
    <2>2. \A u \in Threads : u # t => InHand(u)' = InHand(u)
      BY DEF TakeEvent, InHand
    <2>3. QED
      BY <2>1, <2>2
  <1>5. queue' = [queue EXCEPT ![src[t]] = Tail(@)]
    BY DEF TakeEvent
  <1>6. QED
    BY <1>1, <1>2, <1>3, <1>4, <1>5 DEF Box!Take

\* ProcessEvent is a Finish of the box, of an event that was not finished before.
LEMMA FinishIsBoxFinish ==
  ASSUME TypeOK, OnePlace, NEW t \in Threads, ProcessEvent(t)
  PROVE  Box!Finish(t)
  <1> USE DEF TypeOK, QueuesOK, WorkersOK
  <1>1. Posted' = Posted /\ queue' = queue /\ Executed' = Executed \cup {cur[t]}
    BY FinishedJoinsExecuted DEF ProcessEvent, Posted, posters
  <1>2. pc[t] = "run" /\ cur[t] # NoEvent /\ cur[t] \notin Executed
    BY DEF ProcessEvent, OnePlace, RunningOnce
  <1>3. InHand(t).event = cur[t]
    BY <1>2 DEF InHand
  <1>4. [u \in Threads |-> InHand(u)]'
          = [[u \in Threads |-> InHand(u)] EXCEPT ![t] = Box!Idle]
    <2>1. InHand(t)' = Box!Idle
      BY DEF ProcessEvent, InHand, Box!Idle
    <2>2. \A u \in Threads : u # t => InHand(u)' = InHand(u)
      BY DEF ProcessEvent, InHand
    <2>3. QED
      BY <2>1, <2>2
  <1>5. QED
    BY <1>1, <1>2, <1>3, <1>4 DEF Box!Finish

\* PostEvent's ListAddTail is a Put of the box.
LEMMA AddIsBoxPut ==
  ASSUME TypeOK, NEW e \in Events, PostAdd(e)
  PROVE  Box!Put(e, dest[e])
  <1>1. [u \in Threads |-> InHand(u)]' = [u \in Threads |-> InHand(u)]
    BY AddedJoinsPosted DEF InHand
  <1>2. QED
    BY <1>1, AddedJoinsPosted DEF Box!Put

\* The rest of the code's steps are invisible to the box.
LEMMA ElsewhereIsStutter ==
  ASSUME Elsewhere
  PROVE  UNCHANGED Box!bvars
  <1>1. [u \in Threads |-> InHand(u)]' = [u \in Threads |-> InHand(u)]
    BY DEF Elsewhere
  <1>2. Executed' = Executed /\ Posted' = Posted /\ queue' = queue
    BY DEF Elsewhere, Executed
  <1>3. QED
    BY <1>1, <1>2 DEF Box!bvars

LEMMA StepIsBoxStep == TypeOK /\ OnePlace /\ [Next]_vars => [Box!Next]_(Box!bvars)
  <1> SUFFICES ASSUME TypeOK, OnePlace, [Next]_vars PROVE [Box!Next]_(Box!bvars)
    OBVIOUS
  <1>1. CASE Elsewhere
    BY <1>1, ElsewhereIsStutter
  <1>2. ASSUME NEW t \in Threads, TakeEvent(t) PROVE Box!Next
    <2>1. src[t] \in Box!Dest
      BY DEF TypeOK, WorkersOK, Box!Dest
    <2>2. QED
      BY <1>2, <2>1, TakeIsBoxTake DEF Box!Next
  <1>3. ASSUME NEW t \in Threads, ProcessEvent(t) PROVE Box!Next
    BY <1>3, FinishIsBoxFinish DEF Box!Next
  <1>4. ASSUME NEW e \in Events, PostAdd(e) PROVE Box!Next
    <2>1. dest[e] \in Box!Dest
      BY DEF TypeOK, PostersOK, Box!Dest
    <2>2. QED
      BY <1>4, <2>1, AddIsBoxPut DEF Box!Next
  <1>5. QED
    BY <1>1, <1>2, <1>3, <1>4, OthersMoveNothing

\* Whatever the worker threads, the wake-ups, the flags and Shutdown do, a
\* caller of CObjEventQueue sees a box: an accepted event is taken from the
\* front of the queue it was posted to, by a thread that may take it and has
\* nothing in hand, and OnExecute returns once for it.
THEOREM QueueImplementsBox == Spec => ImplementsBox
  BY InitTypeOK, TypeOKStep, InitOnePlace, OnePlaceStep, InitIsBoxInit, StepIsBoxStep,
     PTL DEF Spec, ImplementsBox, Box!Spec
=============================================================================
