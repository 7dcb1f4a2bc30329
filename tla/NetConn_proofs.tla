---------------------------- MODULE NetConn_proofs ----------------------------
(* Theorems about NetConn, for every number of connections and buffers and   *)
(* every limit.                                                              *)
EXTENDS NetConn, SequenceTheorems, TLAPS

USE ConstantsAssumption

-----------------------------------------------------------------------------
(* The list operations.                                                      *)

OnceEach(l) == \A i, j \in 1..Len(l) : l[i] = l[j] => i = j

\* ListDel takes one entry out and leaves the others.
LEMMA ListDelProperties ==
  ASSUME NEW S, NEW l \in Seq(S), NEW c
  PROVE  /\ ListDel(l, c) \in Seq(S)
         /\ OnceEach(l) => /\ OnceEach(ListDel(l, c))
                           /\ \A d : In(d, ListDel(l, c)) <=> In(d, l) /\ d # c
  <1>1. CASE ~In(c, l)
    BY <1>1 DEF ListDel, In
  <1>2. CASE In(c, l)
    <2> DEFINE i == CHOOSE i \in 1..Len(l) : l[i] = c
               m == [j \in 1..(Len(l) - 1) |-> IF j < i THEN l[j] ELSE l[j + 1]]
    <2>1. i \in 1..Len(l) /\ l[i] = c
      BY <1>2 DEF In
    <2>2. ListDel(l, c) = m
      BY <1>2 DEF ListDel
    <2> HIDE DEF i
    <2>3. Len(l) - 1 \in Nat /\ \A j \in 1..(Len(l) - 1) : m[j] \in S
      BY <2>1
    <2>4. m \in Seq(S) /\ Len(m) = Len(l) - 1
      BY <2>3, IsASeq
    <2>5. ASSUME OnceEach(l) PROVE OnceEach(m)
      BY <2>1, <2>4, <2>5 DEF OnceEach
    <2>6. ASSUME OnceEach(l), NEW d PROVE In(d, m) <=> In(d, l) /\ d # c
      <3>1. ASSUME In(d, m) PROVE In(d, l) /\ d # c
        <4>1. PICK j \in 1..Len(m) : m[j] = d
          BY <3>1 DEF In
        <4>2. CASE j < i
          BY <4>1, <4>2, <2>1, <2>4, <2>6 DEF In, OnceEach
        <4>3. CASE ~(j < i)
          <5>1. j + 1 \in 1..Len(l) /\ l[j + 1] = d /\ j + 1 # i
            BY <4>1, <4>3, <2>1, <2>4
          <5>2. QED
            BY <5>1, <2>1, <2>6 DEF In, OnceEach
        <4>4. QED
          BY <4>2, <4>3
      <3>2. ASSUME In(d, l), d # c PROVE In(d, m)
        <4>1. PICK j \in 1..Len(l) : l[j] = d
          BY <3>2 DEF In
        <4>2. CASE j < i
          <5>1. j \in 1..Len(m) /\ m[j] = d
            BY <4>1, <4>2, <2>1, <2>4
          <5>2. QED
            BY <5>1 DEF In
        <4>3. CASE ~(j < i)
          <5>1. j - 1 \in 1..Len(m) /\ m[j - 1] = d
            BY <4>1, <4>3, <3>2, <2>1, <2>4
          <5>2. QED
            BY <5>1 DEF In
        <4>4. QED
          BY <4>2, <4>3
      <3>3. QED
        BY <3>1, <3>2
    <2>7. QED
      BY <2>2, <2>4, <2>5, <2>6
  <1>3. QED
    BY <1>1, <1>2

\* Append adds one entry at the end.
LEMMA AppendMembers ==
  ASSUME NEW S, NEW l \in Seq(S), NEW c \in S
  PROVE  /\ Append(l, c) \in Seq(S)
         /\ \A d : In(d, Append(l, c)) <=> In(d, l) \/ d = c
         /\ OnceEach(l) /\ ~In(c, l) => OnceEach(Append(l, c))
  <1> DEFINE m == Append(l, c)
  <1>1. /\ m \in Seq(S) /\ Len(m) = Len(l) + 1 /\ m[Len(l) + 1] = c
        /\ \A i \in 1..Len(l) : m[i] = l[i]
    BY AppendProperties
  <1>2. Len(l) \in Nat
    OBVIOUS
  <1> HIDE DEF m
  <1>3. ASSUME NEW d PROVE In(d, m) <=> In(d, l) \/ d = c
    <2>1. ASSUME In(d, m) PROVE In(d, l) \/ d = c
      <3>1. PICK i \in 1..Len(m) : m[i] = d
        BY <2>1 DEF In
      <3>2. QED
        BY <3>1, <1>1, <1>2 DEF In
    <2>2. ASSUME In(d, l) PROVE In(d, m)
      BY <2>2, <1>1, <1>2 DEF In
    <2>3. ASSUME d = c PROVE In(d, m)
      <3>1. Len(l) + 1 \in 1..Len(m) /\ m[Len(l) + 1] = d
        BY <2>3, <1>1, <1>2
      <3>2. QED
        BY <3>1 DEF In
    <2>4. QED
      BY <2>1, <2>2, <2>3
  <1>4. ASSUME OnceEach(l), ~In(c, l) PROVE OnceEach(m)
    BY <1>1, <1>2, <1>4 DEF In, OnceEach
  <1>5. QED
    BY <1>1, <1>3, <1>4 DEF m

\* ListMoveTail changes the order only.
LEMMA MovedToTailProperties ==
  ASSUME NEW S, NEW l \in Seq(S), NEW c \in S
  PROVE  /\ MovedToTail(l, c) \in Seq(S)
         /\ OnceEach(l) => /\ OnceEach(MovedToTail(l, c))
                           /\ \A d : In(d, MovedToTail(l, c)) <=> In(d, l)
  <1>1. CASE ~In(c, l)
    BY <1>1 DEF MovedToTail
  <1>2. CASE In(c, l)
    <2> DEFINE m == ListDel(l, c)
    <2>1. MovedToTail(l, c) = Append(m, c)
      BY <1>2 DEF MovedToTail
    <2>2. m \in Seq(S) /\ (OnceEach(l) => /\ OnceEach(m)
                                          /\ \A d : In(d, m) <=> In(d, l) /\ d # c)
      BY ListDelProperties
    <2> HIDE DEF m
    <2>3. /\ Append(m, c) \in Seq(S)
          /\ \A d : In(d, Append(m, c)) <=> In(d, m) \/ d = c
          /\ OnceEach(m) /\ ~In(c, m) => OnceEach(Append(m, c))
      BY <2>2, AppendMembers
    <2>4. QED
      BY <1>2, <2>1, <2>2, <2>3
  <1>3. QED
    BY <1>1, <1>2

\* The units of a buffer are units.
LEMMA UnitsType ==
  ASSUME NEW b \in Bufs, NEW n \in Nat, NEW k \in Nat
  PROVE  Units(b, n, k) \in Seq(Bufs \X Nat)
  <1>1. \A i \in 1..k : <<b, n + i>> \in Bufs \X Nat
    OBVIOUS
  <1>2. QED
    BY <1>1, IsASeq DEF Units

-----------------------------------------------------------------------------
(* Types.                                                                    *)

LEMMA BufferType == ASSUME NEW b \in Bufs
                    PROVE  Target[b] \in Conns /\ Size[b] \in Nat \ {0}
  OBVIOUS

LEMMA LimitTypes == Timeout \in Nat /\ 0 \in 0..Timeout
  OBVIOUS

LEMMA InitTypeOK == Init => TypeOK
  <1> SUFFICES ASSUME Init PROVE TypeOK
    OBVIOUS
  <1>1. ConnsOK
    BY DEF Init, ConnsOK
  <1>2. SendsOK
    <2>1. \A b \in Bufs : 0 <= Size[b]
      BY BufferType
    <2>2. /\ sendq \in [Conns -> Seq(Bufs)] /\ queued \in [Conns -> Seq(Bufs)]
          /\ wire \in [Conns -> Seq(Bufs \X Nat)]
      BY EmptySeq DEF Init
    <2>3. QED
      BY <2>1, <2>2 DEF Init, SendsOK
  <1>3. ThreadOK
    BY EmptySeq DEF Init, ThreadOK
  <1>4. QED
    BY <1>1, <1>2, <1>3 DEF TypeOK

\* What the network thread is at.
LEMMA HeadOfWalk ==
  ASSUME ThreadOK, polled # <<>>
  PROVE  /\ Head(polled).c \in Conns /\ Head(polled).events \subseteq Events
         /\ Tail(polled) \in Seq([c : Conns, events : SUBSET Events])
  <1> DEFINE E == [c : Conns, events : SUBSET Events]
  <1>1. polled \in Seq(E)
    BY DEF ThreadOK
  <1> HIDE DEF E
  <1>2. Head(polled) \in E /\ Tail(polled) \in Seq(E)
    BY <1>1, HeadTailProperties
  <1>3. QED
    BY <1>2 DEF E

LEMMA HeadOfTodo ==
  ASSUME ThreadOK, todo # <<>>
  PROVE  Head(todo) \in Conns /\ Tail(todo) \in Seq(Conns)
  BY HeadTailProperties DEF ThreadOK

LEMMA HandledType ==
  ASSUME ThreadOK, polled # <<>>, NEW e, Handled(e)
  PROVE  polled' \in Seq([c : Conns, events : SUBSET Events]) /\ polled' # <<>>
  <1> DEFINE E == [c : Conns, events : SUBSET Events]
             p == [polled[1] EXCEPT !.events = @ \ {e}]
  <1>1. polled \in Seq(E) /\ 1 \in 1..Len(polled)
    BY DEF ThreadOK
  <1>2. polled[1] \in E
    BY <1>1, ElementOfSeq
  <1>3. p \in E
    BY <1>2
  <1>4. polled' = [polled EXCEPT ![1] = p]
    BY DEF Handled
  <1> HIDE DEF E, p
  <1>5. polled' \in Seq(E) /\ Len(polled') = Len(polled)
    BY <1>1, <1>3, <1>4, ExceptSeq
  <1>6. QED
    BY <1>1, <1>5 DEF E

LEMMA ActiveType ==
  ASSUME ThreadOK, NEW c \in Conns
  PROVE  ListDel(active, c) \in Seq(Conns) /\ (Activate(c) => active' \in Seq(Conns))
  <1>1. active \in Seq(Conns)
    BY DEF ThreadOK
  <1>2. ListDel(active, c) \in Seq(Conns)
    BY <1>1, ListDelProperties
  <1>3. Append(active, c) \in Seq(Conns)
    BY <1>1, AppendMembers
  <1>4. QED
    BY <1>1, <1>2, <1>3 DEF Activate

LEMMA CloseCtxType ==
  ASSUME ConnsOK, ThreadOK, NEW c \in Conns, CloseCtx(c)
  PROVE  /\ list' \in Seq(Conns)
         /\ closing' \in [Conns -> BOOLEAN] /\ soc' \in [Conns -> BOOLEAN]
         /\ closed' \in [Conns -> BOOLEAN]
         /\ phase' \in [Conns -> {"none", "pending", "refused", "listed", "closed",
                                  "destroyed"}]
  <1>1. list \in Seq(Conns)
    BY DEF ThreadOK
  <1>2. list' \in Seq(Conns)
    BY <1>1, ListDelProperties DEF CloseCtx
  <1>3. QED
    BY <1>2 DEF CloseCtx, ConnsOK

LEMMA CloseConnectionType ==
  ASSUME ConnsOK, NEW c \in Conns, CloseConnection(c)
  PROVE  /\ closing' \in [Conns -> BOOLEAN] /\ shut' \in [Conns -> BOOLEAN]
         /\ soc' = soc
  BY DEF CloseConnection, ConnsOK

\* k more units of a buffer on the wire of its connection.
LEMMA WireType ==
  ASSUME SendsOK, NEW c \in Conns, NEW b \in Bufs, NEW n \in Nat, NEW k \in Nat
  PROVE  [wire EXCEPT ![c] = @ \o Units(b, n, k)] \in [Conns -> Seq(Bufs \X Nat)]
  <1>1. wire[c] \in Seq(Bufs \X Nat)
    BY DEF SendsOK
  <1>2. wire[c] \o Units(b, n, k) \in Seq(Bufs \X Nat)
    BY <1>1, UnitsType, ConcatProperties
  <1>3. QED
    BY <1>2 DEF SendsOK

LEMMA TypeOKStep == TypeOK /\ [Next]_vars => TypeOK'
  <1> SUFFICES ASSUME TypeOK, [Next]_vars PROVE TypeOK'
    OBVIOUS
  <1> USE DEF TypeOK, NetFrame, peer, flags, out, life, net
  <1>1. ASSUME LoopTop PROVE TypeOK'
    <2>1. ConnsOK'
      BY <1>1 DEF LoopTop, ConnsOK, SendsOK, ThreadOK
    <2>2. SendsOK'
      BY <1>1 DEF LoopTop, ConnsOK, SendsOK, ThreadOK
    <2>3. ThreadOK'
      BY <1>1 DEF LoopTop, ConnsOK, SendsOK, ThreadOK
    <2>4. QED
      BY <2>1, <2>2, <2>3
  <1>2. ASSUME ScanConn PROVE TypeOK'
    <2>1. ConnsOK'
      BY <1>2, CloseCtxType, HeadOfTodo DEF ScanConn, ConnsOK, SendsOK, ThreadOK
    <2>2. SendsOK'
      BY <1>2 DEF ScanConn, ConnsOK, SendsOK, ThreadOK
    <2>3. ThreadOK'
      <3> DEFINE c == Head(todo)
                 p == [c |-> c, events |-> {"in"} \cup (IF sendq[c] # <<>> THEN {"out"} ELSE {})]
      <3>1. c \in Conns /\ Tail(todo) \in Seq(Conns) /\ npc = "scan"
        BY <1>2, HeadOfTodo DEF ScanConn
      <3>2. Append(polled, p) \in Seq([c : Conns, events : SUBSET Events])
        <4>1. p \in [c : Conns, events : SUBSET Events]
          BY <3>1 DEF Events
        <4>2. QED
          BY <4>1, AppendMembers DEF ThreadOK
      <3>3. polled' \in Seq([c : Conns, events : SUBSET Events]) /\ todo' \in Seq(Conns)
        BY <1>2, <3>1, <3>2, EmptySeq DEF ScanConn, ThreadOK
      <3>4. list' \in Seq(Conns)
        BY <1>2, <3>1, CloseCtxType DEF ScanConn, ThreadOK
      <3>5. UNCHANGED <<npc, active, did, declined, stop, ctl>>
        BY <1>2 DEF ScanConn
      <3>6. QED
        BY <3>1, <3>3, <3>4, <3>5 DEF ThreadOK
    <2>4. QED
      BY <2>1, <2>2, <2>3
  <1>3. ASSUME ScanEnd PROVE TypeOK'
    <2>1. ConnsOK'
      BY <1>3 DEF ScanEnd, ConnsOK, SendsOK, ThreadOK
    <2>2. SendsOK'
      BY <1>3 DEF ScanEnd, ConnsOK, SendsOK, ThreadOK
    <2>3. ThreadOK'
      BY <1>3 DEF ScanEnd, ConnsOK, SendsOK, ThreadOK
    <2>4. QED
      BY <2>1, <2>2, <2>3
  <1>4. ASSUME Poll PROVE TypeOK'
    <2>1. ConnsOK'
      BY <1>4 DEF Poll, ConnsOK, SendsOK, ThreadOK
    <2>2. SendsOK'
      BY <1>4 DEF Poll, ConnsOK, SendsOK, ThreadOK
    <2>3. ThreadOK'
      <3> DEFINE E == [c : Conns, events : SUBSET Events]
      <3>1. Len(polled) \in Nat
        BY DEF ThreadOK
      <3>2. polled' \in [1..Len(polled) -> E]
        BY <1>4 DEF Poll, Events
      <3> HIDE DEF E
      <3>3. polled' \in Seq(E)
        BY <3>1, <3>2, SeqDef
      <3>4. npc' \in {"timeout", "accept"}
            /\ UNCHANGED <<list, todo, active, did, declined, stop, ctl>>
        BY <1>4 DEF Poll
      <3>5. QED
        BY <3>3, <3>4 DEF ThreadOK, E
    <2>4. QED
      BY <2>1, <2>2, <2>3
  <1>5. ASSUME HandleEventAccept PROVE TypeOK'
    <2>1. ConnsOK'
      <3>1. CASE UNCHANGED <<flags, list, life, age>>
        BY <1>5, <3>1 DEF HandleEventAccept, ConnsOK
      <3>2. CASE ~UNCHANGED <<flags, list, life, age>>
        <4>1. PICK c \in Conns :
                /\ \/ phase' = [phase EXCEPT ![c] = "refused"] /\ soc' = soc
                   \/ phase' = [phase EXCEPT ![c] = "listed"] /\ soc' = [soc EXCEPT ![c] = TRUE]
                /\ age' = [age EXCEPT ![c] = 0]
                /\ UNCHANGED <<closing, shut, closed>>
          BY <1>5, <3>2 DEF HandleEventAccept
        <4>2. UNCHANGED <<broken, readable>>
          BY <1>5 DEF HandleEventAccept
        <4>3. age' \in [Conns -> 0..Timeout]
          BY <4>1, LimitTypes DEF ConnsOK
        <4>4. phase' \in [Conns -> {"none", "pending", "refused", "listed", "closed",
                                   "destroyed"}]
          BY <4>1 DEF ConnsOK
        <4>5. soc' \in [Conns -> BOOLEAN]
          BY <4>1 DEF ConnsOK
        <4>6. QED
          BY <4>1, <4>2, <4>3, <4>4, <4>5 DEF ConnsOK
      <3>3. QED
        BY <3>1, <3>2
    <2>2. SendsOK'
      BY <1>5 DEF HandleEventAccept, ConnsOK, SendsOK, ThreadOK
    <2>3. ThreadOK'
      <3>1. list' = list \/ \E c \in Conns : list' = Append(list, c)
        BY <1>5 DEF HandleEventAccept
      <3>2. list' \in Seq(Conns)
        <4>1. list \in Seq(Conns)
          BY DEF ThreadOK
        <4>2. \A c \in Conns : Append(list, c) \in Seq(Conns)
          BY <4>1, AppendMembers
        <4>3. QED
          BY <3>1, <4>1, <4>2
      <3>3. npc' = "conn" /\ UNCHANGED <<todo, polled, active, did, declined, stop, ctl>>
        BY <1>5 DEF HandleEventAccept
      <3>4. QED
        BY <3>2, <3>3 DEF ThreadOK
    <2>4. QED
      BY <2>1, <2>2, <2>3
  <1>6. ASSUME NextConn PROVE TypeOK'
    <2>1. ConnsOK'
      BY <1>6, CloseCtxType, HeadOfWalk DEF NextConn, ConnsOK, SendsOK, ThreadOK
    <2>2. SendsOK'
      BY <1>6 DEF NextConn, ConnsOK, SendsOK, ThreadOK
    <2>3. ThreadOK'
      BY <1>6, CloseCtxType, HeadOfWalk DEF NextConn, ConnsOK, SendsOK, ThreadOK
    <2>4. QED
      BY <2>1, <2>2, <2>3
  <1>7. ASSUME HandleEventRead PROVE TypeOK'
    <2>1. ConnsOK'
      BY <1>7, CloseConnectionType, HeadOfWalk DEF HandleEventRead, ConnsOK, SendsOK, ThreadOK
    <2>2. SendsOK'
      BY <1>7 DEF HandleEventRead, ConnsOK, SendsOK, ThreadOK
    <2>3. ThreadOK'
      <3>1. polled # <<>> /\ Handled("in")
        BY <1>7 DEF HandleEventRead, ThreadOK
      <3>2. polled' \in Seq([c : Conns, events : SUBSET Events]) /\ polled' # <<>>
        BY <3>1, HandledType
      <3>3. did' \in BOOLEAN
        BY <1>7, <3>1, HeadOfWalk DEF HandleEventRead, ConnsOK, ThreadOK
      <3>4. npc' \in {"events", "recv"} /\ UNCHANGED <<list, todo, active, declined, stop, ctl>>
        BY <1>7 DEF HandleEventRead
      <3>5. QED
        BY <3>2, <3>3, <3>4 DEF ThreadOK
    <2>4. QED
      BY <2>1, <2>2, <2>3
  <1>8. ASSUME HandleReadEnd PROVE TypeOK'
    <2>1. ConnsOK'
      <3> DEFINE c == Head(polled).c
      <3>1. c \in Conns
        BY <1>8, HeadOfWalk DEF HandleReadEnd, ThreadOK
      <3>2. UNCHANGED <<broken, readable>>
        BY <1>8 DEF HandleReadEnd
      <3>3. \/ CloseCtx(c) /\ UNCHANGED <<shut, age>>
            \/ UNCHANGED <<flags, life>> /\ age' \in {age, [age EXCEPT ![c] = 0]}
        BY <1>8 DEF HandleReadEnd
      <3>4. CASE CloseCtx(c) /\ UNCHANGED <<shut, age>>
        BY <3>1, <3>2, <3>4, CloseCtxType DEF ConnsOK
      <3>5. CASE UNCHANGED <<flags, life>> /\ age' \in {age, [age EXCEPT ![c] = 0]}
        BY <3>1, <3>2, <3>5, LimitTypes DEF ConnsOK
      <3>6. QED
        BY <3>3, <3>4, <3>5
    <2>2. SendsOK'
      BY <1>8 DEF HandleReadEnd, ConnsOK, SendsOK, ThreadOK
    <2>3. ThreadOK'
      BY <1>8, CloseCtxType, HeadOfWalk, ActiveType DEF HandleReadEnd, ConnsOK, SendsOK, ThreadOK
    <2>4. QED
      BY <2>1, <2>2, <2>3
  <1>9. ASSUME HandleHup PROVE TypeOK'
    <2>1. ConnsOK'
      BY <1>9, CloseCtxType, HeadOfWalk DEF HandleHup, ConnsOK, SendsOK, ThreadOK
    <2>2. SendsOK'
      BY <1>9 DEF HandleHup, ConnsOK, SendsOK, ThreadOK
    <2>3. ThreadOK'
      BY <1>9, CloseCtxType, HeadOfWalk, ActiveType DEF HandleHup, ConnsOK, SendsOK, ThreadOK
    <2>4. QED
      BY <2>1, <2>2, <2>3
  <1>10. ASSUME HandleEventWrite PROVE TypeOK'
    <2>1. ConnsOK'
      BY <1>10 DEF HandleEventWrite, ConnsOK, SendsOK, ThreadOK
    <2>2. SendsOK'
      BY <1>10 DEF HandleEventWrite, ConnsOK, SendsOK, ThreadOK
    <2>3. ThreadOK'
      BY <1>10, HandledType DEF HandleEventWrite, ConnsOK, SendsOK, ThreadOK
    <2>4. QED
      BY <2>1, <2>2, <2>3
  <1>11. ASSUME EventsDone PROVE TypeOK'
    <2>1. ConnsOK'
      BY <1>11 DEF EventsDone, ConnsOK, SendsOK, ThreadOK
    <2>2. SendsOK'
      BY <1>11 DEF EventsDone, ConnsOK, SendsOK, ThreadOK
    <2>3. ThreadOK'
      BY <1>11, HeadOfWalk DEF EventsDone, ConnsOK, SendsOK, ThreadOK
    <2>4. QED
      BY <2>1, <2>2, <2>3
  <1>12. ASSUME WriteEmpty PROVE TypeOK'
    <2>1. ConnsOK'
      <3>1. Head(polled).c \in Conns
        BY <1>12, HeadOfWalk DEF WriteEmpty, ThreadOK
      <3>2. UNCHANGED <<peer, flags, life>>
            /\ age' \in {age, [age EXCEPT ![Head(polled).c] = 0]}
        BY <1>12 DEF WriteEmpty, WriteReturns
      <3>3. QED
        BY <3>1, <3>2, LimitTypes DEF ConnsOK
    <2>2. SendsOK'
      BY <1>12 DEF WriteEmpty, ConnsOK, SendsOK, ThreadOK
    <2>3. ThreadOK'
      BY <1>12, HeadOfWalk, ActiveType DEF WriteEmpty, WriteReturns, ConnsOK, SendsOK, ThreadOK
    <2>4. QED
      BY <2>1, <2>2, <2>3
  <1>13. ASSUME WriteBuffer PROVE TypeOK'
    <2>1. ConnsOK'
      <3> DEFINE c == Head(polled).c
      <3>1. c \in Conns
        BY <1>13, HeadOfWalk DEF WriteBuffer, ThreadOK
      <3>2. UNCHANGED <<peer, life>> /\ (CloseConnection(c) \/ UNCHANGED flags)
        BY <1>13 DEF WriteBuffer
      <3>3. age' \in {age, [age EXCEPT ![c] = 0]}
        BY <1>13 DEF WriteBuffer, WriteReturns
      <3>4. age' \in [Conns -> 0..Timeout]
        BY <3>1, <3>3, LimitTypes DEF ConnsOK
      <3>5. QED
        BY <3>1, <3>2, <3>4, CloseConnectionType DEF ConnsOK
    <2>2. SendsOK'
      <3> DEFINE c == Head(polled).c
                 b == Head(sendq[c])
      <3>1. c \in Conns /\ sendq[c] # <<>>
        BY <1>13, HeadOfWalk DEF WriteBuffer, ThreadOK
      <3>2. b \in Bufs /\ Tail(sendq[c]) \in Seq(Bufs)
        BY <3>1, HeadTailProperties DEF SendsOK
      <3>3. PICK k \in 0..(Size[b] - sent[b]) :
              /\ sent' = [sent EXCEPT ![b] = @ + k]
              /\ writting' = [writting EXCEPT ![c] = @ - k]
              /\ wire' = [wire EXCEPT ![c] = @ \o Units(b, sent[b], k)]
        BY <1>13 DEF WriteBuffer
      <3>4. /\ sendq' \in {sendq, [sendq EXCEPT ![c] = Tail(@)]}
            /\ refs' \in {refs, [refs EXCEPT ![b] = @ - 1]}
            /\ UNCHANGED <<queued, spc>>
        BY <1>13 DEF WriteBuffer
      <3> HIDE DEF c, b
      <3>5. sent[b] \in Nat /\ Size[b] \in Nat /\ sent[b] <= Size[b]
        BY <3>2, BufferType DEF SendsOK
      <3>6. k \in Nat /\ sent[b] + k <= Size[b]
        BY <3>3, <3>5
      <3>7. wire' \in [Conns -> Seq(Bufs \X Nat)]
        BY <3>1, <3>2, <3>3, <3>5, <3>6, WireType
      <3>8. sent' \in [Bufs -> Nat] /\ \A d \in Bufs : sent'[d] <= Size[d]
        <4>1. sent \in [Bufs -> Nat] /\ \A d \in Bufs : sent[d] <= Size[d]
          BY DEF SendsOK
        <4>2. sent[b] + k \in Nat /\ sent' = [sent EXCEPT ![b] = sent[b] + k]
          BY <3>3, <3>5, <3>6
        <4>3. QED
          BY <3>2, <3>6, <4>1, <4>2
      <3>9. writting' \in [Conns -> Int]
        <4>1. writting \in [Conns -> Int]
          BY DEF SendsOK
        <4>2. writting[c] - k \in Int /\ writting' = [writting EXCEPT ![c] = writting[c] - k]
          BY <3>1, <3>3, <3>6, <4>1
        <4>3. QED
          BY <4>1, <4>2
      <3>10. sendq' \in [Conns -> Seq(Bufs)]
        BY <3>1, <3>2, <3>4 DEF SendsOK, b
      <3>11. refs' \in [Bufs -> Int]
        BY <3>2, <3>4 DEF SendsOK
      <3>12. QED
        BY <3>4, <3>7, <3>8, <3>9, <3>10, <3>11 DEF SendsOK
    <2>3. ThreadOK'
      BY <1>13, HeadOfWalk, ActiveType DEF WriteBuffer, WriteReturns, ConnsOK, SendsOK, ThreadOK
    <2>4. QED
      BY <2>1, <2>2, <2>3
  <1>14. ASSUME WriteError PROVE TypeOK'
    <2>1. ConnsOK'
      BY <1>14, CloseCtxType, HeadOfWalk DEF WriteError, ConnsOK, SendsOK, ThreadOK
    <2>2. SendsOK'
      <3> DEFINE c == Head(polled).c
                 b == Head(sendq[c])
      <3>1. c \in Conns /\ sendq[c] # <<>>
        BY <1>14, HeadOfWalk DEF WriteError, ThreadOK
      <3>2. b \in Bufs /\ Tail(sendq[c]) \in Seq(Bufs)
        BY <3>1, HeadTailProperties DEF SendsOK
      <3>3. PICK k \in 0..(Size[b] - sent[b] - 1) :
              wire' = [wire EXCEPT ![c] = @ \o Units(b, sent[b], k)]
        BY <1>14 DEF WriteError
      <3>4. sendq' = [sendq EXCEPT ![c] = Tail(@)]
            /\ UNCHANGED <<writting, sent, queued, spc, refs>>
        BY <1>14 DEF WriteError
      <3> HIDE DEF c, b
      <3>5. sent[b] \in Nat /\ Size[b] \in Nat
        BY <3>2, BufferType DEF SendsOK
      <3>6. k \in Nat
        BY <3>3, <3>5
      <3>7. wire' \in [Conns -> Seq(Bufs \X Nat)]
        BY <3>1, <3>2, <3>3, <3>5, <3>6, WireType
      <3>8. sendq' \in [Conns -> Seq(Bufs)]
        BY <3>1, <3>2, <3>4 DEF SendsOK, b
      <3>9. QED
        BY <3>4, <3>7, <3>8 DEF SendsOK
    <2>3. ThreadOK'
      BY <1>14, CloseCtxType, HeadOfWalk, ActiveType DEF WriteError, ConnsOK, SendsOK, ThreadOK
    <2>4. QED
      BY <2>1, <2>2, <2>3
  <1>15. ASSUME ConnsDone PROVE TypeOK'
    <2>1. ConnsOK'
      BY <1>15 DEF ConnsDone, ConnsOK, SendsOK, ThreadOK
    <2>2. SendsOK'
      BY <1>15 DEF ConnsDone, ConnsOK, SendsOK, ThreadOK
    <2>3. ThreadOK'
      BY <1>15, EmptySeq DEF ConnsDone, ConnsOK, SendsOK, ThreadOK
    <2>4. QED
      BY <2>1, <2>2, <2>3
  <1>16. ASSUME MoveActive PROVE TypeOK'
    <2>1. ConnsOK'
      BY <1>16 DEF MoveActive, ConnsOK, SendsOK, ThreadOK
    <2>2. SendsOK'
      BY <1>16 DEF MoveActive, ConnsOK, SendsOK, ThreadOK
    <2>3. ThreadOK'
      BY <1>16, HeadTailProperties, MovedToTailProperties DEF MoveActive, ConnsOK, SendsOK, ThreadOK
    <2>4. QED
      BY <2>1, <2>2, <2>3
  <1>17. ASSUME MoveEnd PROVE TypeOK'
    <2>1. ConnsOK'
      BY <1>17 DEF MoveEnd, ConnsOK, SendsOK, ThreadOK
    <2>2. SendsOK'
      BY <1>17 DEF MoveEnd, ConnsOK, SendsOK, ThreadOK
    <2>3. ThreadOK'
      BY <1>17 DEF MoveEnd, ConnsOK, SendsOK, ThreadOK
    <2>4. QED
      BY <2>1, <2>2, <2>3
  <1>18. ASSUME TimeoutBegin PROVE TypeOK'
    <2>1. ConnsOK'
      BY <1>18 DEF TimeoutBegin, ConnsOK, SendsOK, ThreadOK
    <2>2. SendsOK'
      BY <1>18 DEF TimeoutBegin, ConnsOK, SendsOK, ThreadOK
    <2>3. ThreadOK'
      BY <1>18 DEF TimeoutBegin, ConnsOK, SendsOK, ThreadOK
    <2>4. QED
      BY <2>1, <2>2, <2>3
  <1>19. ASSUME ExpireConn PROVE TypeOK'
    <2>1. ConnsOK'
      <3> DEFINE c == Head(todo)
      <3>1. c \in Conns
        BY <1>19, HeadOfTodo DEF ExpireConn
      <3>2. UNCHANGED <<peer, age, soc>>
        BY <1>19 DEF ExpireConn
      <3>3. \/ UNCHANGED <<flags, life>>
            \/ /\ closing' = [closing EXCEPT ![c] = TRUE]
               /\ shut' = [shut EXCEPT ![c] = @ \/ soc[c]]
               /\ phase' = [phase EXCEPT ![c] = "closed"]
               /\ closed' = [closed EXCEPT ![c] = TRUE]
        BY <1>19 DEF ExpireConn
      <3> HIDE DEF c
      <3>4. QED
        BY <3>1, <3>2, <3>3 DEF ConnsOK
    <2>2. SendsOK'
      BY <1>19 DEF ExpireConn, ConnsOK, SendsOK, ThreadOK
    <2>3. ThreadOK'
      <3> DEFINE c == Head(todo)
      <3>1. c \in Conns /\ Tail(todo) \in Seq(Conns)
        BY <1>19, HeadOfTodo DEF ExpireConn
      <3>2. /\ list' \in {list, ListDel(list, c)}
            /\ todo' \in {<<>>, Tail(todo)} /\ npc' \in {"top", npc} /\ npc = "expire"
            /\ declined' \in {declined, declined \cup {c}}
            /\ UNCHANGED <<polled, active, did, stop, ctl>>
        BY <1>19 DEF ExpireConn
      <3> HIDE DEF c
      <3>3. list' \in Seq(Conns)
        BY <3>2, ListDelProperties DEF ThreadOK
      <3>4. todo' \in Seq(Conns)
        BY <3>1, <3>2, EmptySeq
      <3>5. QED
        BY <3>1, <3>2, <3>3, <3>4 DEF ThreadOK
    <2>4. QED
      BY <2>1, <2>2, <2>3
  <1>20. ASSUME ExpireEnd PROVE TypeOK'
    <2>1. ConnsOK'
      BY <1>20 DEF ExpireEnd, ConnsOK, SendsOK, ThreadOK
    <2>2. SendsOK'
      BY <1>20 DEF ExpireEnd, ConnsOK, SendsOK, ThreadOK
    <2>3. ThreadOK'
      BY <1>20 DEF ExpireEnd, ConnsOK, SendsOK, ThreadOK
    <2>4. QED
      BY <2>1, <2>2, <2>3
  <1>21. ASSUME FinalClose PROVE TypeOK'
    <2>1. ConnsOK'
      BY <1>21, CloseCtxType, HeadOfTodo DEF FinalClose, ConnsOK, SendsOK, ThreadOK
    <2>2. SendsOK'
      BY <1>21 DEF FinalClose, ConnsOK, SendsOK, ThreadOK
    <2>3. ThreadOK'
      BY <1>21, CloseCtxType, HeadOfTodo DEF FinalClose, ConnsOK, SendsOK, ThreadOK
    <2>4. QED
      BY <2>1, <2>2, <2>3
  <1>22. ASSUME FinalEnd PROVE TypeOK'
    <2>1. ConnsOK'
      BY <1>22 DEF FinalEnd, ConnsOK, SendsOK, ThreadOK
    <2>2. SendsOK'
      BY <1>22 DEF FinalEnd, ConnsOK, SendsOK, ThreadOK
    <2>3. ThreadOK'
      BY <1>22 DEF FinalEnd, ConnsOK, SendsOK, ThreadOK
    <2>4. QED
      BY <2>1, <2>2, <2>3
  <1>23. ASSUME NEW b \in Bufs, SendCheck(b) PROVE TypeOK'
    <2>1. ConnsOK'
      BY <1>23 DEF SendCheck, ConnsOK, SendsOK, ThreadOK
    <2>2. SendsOK'
      BY <1>23 DEF SendCheck, ConnsOK, SendsOK, ThreadOK
    <2>3. ThreadOK'
      BY <1>23 DEF SendCheck, ConnsOK, SendsOK, ThreadOK
    <2>4. QED
      BY <2>1, <2>2, <2>3
  <1>24. ASSUME NEW b \in Bufs, SendQueue(b) PROVE TypeOK'
    <2>1. ConnsOK'
      BY <1>24 DEF SendQueue, ConnsOK, SendsOK, ThreadOK
    <2>2. SendsOK'
      <3> DEFINE c == Target[b]
      <3>1. c \in Conns /\ Size[b] \in Nat
        BY BufferType
      <3>2. CASE writting[c] >= MaxWritting
        BY <1>24, <3>2 DEF SendQueue, SendsOK
      <3>3. CASE ~(writting[c] >= MaxWritting)
        <4>1. PICK k \in 0..Size[b] :
                /\ sendq' = [sendq EXCEPT ![c] = Append(@, b)]
                /\ queued' = [queued EXCEPT ![c] = Append(@, b)]
                /\ writting' = [writting EXCEPT ![c] = @ + Size[b] - k]
                /\ sent' = [sent EXCEPT ![b] = k]
                /\ wire' = [wire EXCEPT ![c] = @ \o Units(b, 0, k)]
                /\ \E s \in {"accepted", "failed", "active"} : spc' = [spc EXCEPT ![b] = s]
          <5>1. 0 \in 0..Size[b]
            BY <3>1
          <5>2. QED
            BY <1>24, <3>3, <5>1 DEF SendQueue
        <4> HIDE DEF c
        <4>2. k \in Nat /\ k <= Size[b]
          BY <3>1, <4>1
        <4>3. wire' \in [Conns -> Seq(Bufs \X Nat)]
          BY <3>1, <4>1, <4>2, WireType
        <4>4. sendq' \in [Conns -> Seq(Bufs)] /\ queued' \in [Conns -> Seq(Bufs)]
          BY <3>1, <4>1, AppendMembers DEF SendsOK
        <4>5. sent' \in [Bufs -> Nat] /\ \A d \in Bufs : sent'[d] <= Size[d]
          BY <4>1, <4>2 DEF SendsOK
        <4>6. writting' \in [Conns -> Int]
          <5>1. writting \in [Conns -> Int]
            BY DEF SendsOK
          <5>2. /\ writting[c] + Size[b] - k \in Int
                /\ writting' = [writting EXCEPT ![c] = writting[c] + Size[b] - k]
            BY <3>1, <4>1, <4>2, <5>1
          <5>3. QED
            BY <5>1, <5>2
        <4>7. refs' = refs
          BY <1>24 DEF SendQueue
        <4>8. QED
          BY <4>1, <4>3, <4>4, <4>5, <4>6, <4>7 DEF SendsOK
      <3>4. QED
        BY <3>2, <3>3
    <2>3. ThreadOK'
      BY <1>24 DEF SendQueue, ConnsOK, SendsOK, ThreadOK
    <2>4. QED
      BY <2>1, <2>2, <2>3
  <1>25. ASSUME NEW b \in Bufs, SendFail(b) PROVE TypeOK'
    <2>1. ConnsOK'
      BY <1>25, BufferType, CloseConnectionType DEF SendFail, ConnsOK, SendsOK, ThreadOK
    <2>2. SendsOK'
      <3>1. refs' \in [Bufs -> Int]
        BY <1>25 DEF SendFail, SendsOK
      <3>2. UNCHANGED <<sent, queued, wire, writting, sendq>> /\ spc' = [spc EXCEPT ![b] = "rejected"]
        BY <1>25 DEF SendFail
      <3>3. QED
        BY <3>1, <3>2 DEF SendsOK
    <2>3. ThreadOK'
      BY <1>25 DEF SendFail, ConnsOK, SendsOK, ThreadOK
    <2>4. QED
      BY <2>1, <2>2, <2>3
  <1>26. ASSUME NEW b \in Bufs, CallerRelease(b) PROVE TypeOK'
    <2>1. ConnsOK'
      BY <1>26 DEF CallerRelease, ConnsOK, SendsOK, ThreadOK
    <2>2. SendsOK'
      <3>1. refs' \in [Bufs -> Int]
        BY <1>26 DEF CallerRelease, SendsOK
      <3>2. UNCHANGED <<sent, queued, wire, writting, sendq>> /\ spc' = [spc EXCEPT ![b] = "returned"]
        BY <1>26 DEF CallerRelease
      <3>3. QED
        BY <3>1, <3>2 DEF SendsOK
    <2>3. ThreadOK'
      BY <1>26 DEF CallerRelease, ConnsOK, SendsOK, ThreadOK
    <2>4. QED
      BY <2>1, <2>2, <2>3
  <1>27. ASSUME NEW b \in Bufs, SendActive(b) PROVE TypeOK'
    <2>1. ConnsOK'
      BY <1>27, BufferType, LimitTypes DEF SendActive, ConnsOK, SendsOK, ThreadOK
    <2>2. SendsOK'
      BY <1>27 DEF SendActive, ConnsOK, SendsOK, ThreadOK
    <2>3. ThreadOK'
      BY <1>27 DEF SendActive, ConnsOK, SendsOK, ThreadOK
    <2>4. QED
      BY <2>1, <2>2, <2>3
  <1>28. ASSUME NEW b \in Bufs, SendMove(b) PROVE TypeOK'
    <2>1. ConnsOK'
      BY <1>28 DEF SendMove, ConnsOK, SendsOK, ThreadOK
    <2>2. SendsOK'
      BY <1>28 DEF SendMove, ConnsOK, SendsOK, ThreadOK
    <2>3. ThreadOK'
      BY <1>28, BufferType, MovedToTailProperties DEF SendMove, ConnsOK, SendsOK, ThreadOK
    <2>4. QED
      BY <2>1, <2>2, <2>3
  <1>29. ASSUME NEW c \in Conns, AppClose(c) PROVE TypeOK'
    <2>1. ConnsOK'
      BY <1>29, CloseConnectionType DEF AppClose, ConnsOK, SendsOK, ThreadOK
    <2>2. SendsOK'
      BY <1>29 DEF AppClose, ConnsOK, SendsOK, ThreadOK
    <2>3. ThreadOK'
      BY <1>29 DEF AppClose, ConnsOK, SendsOK, ThreadOK
    <2>4. QED
      BY <2>1, <2>2, <2>3
  <1>30. ASSUME NEW c \in Conns, Destroy(c) PROVE TypeOK'
    <2>1. ConnsOK'
      BY <1>30 DEF Destroy, ConnsOK, SendsOK, ThreadOK
    <2>2. SendsOK'
      <3>1. \A b \in Bufs : refs[b] \in Int /\ refs[b] - 1 \in Int
        BY DEF SendsOK
      <3>2. refs' \in [Bufs -> Int]
        BY <1>30, <3>1 DEF Destroy
      <3>3. sendq' \in [Conns -> Seq(Bufs)]
        BY <1>30, EmptySeq DEF Destroy, SendsOK
      <3>4. UNCHANGED <<writting, sent, queued, wire, spc>>
        BY <1>30 DEF Destroy
      <3>5. QED
        BY <3>2, <3>3, <3>4 DEF SendsOK
    <2>3. ThreadOK'
      BY <1>30 DEF Destroy, ConnsOK, SendsOK, ThreadOK
    <2>4. QED
      BY <2>1, <2>2, <2>3
  <1>31. ASSUME NEW c \in Conns, PeerConnect(c) PROVE TypeOK'
    <2>1. ConnsOK'
      BY <1>31 DEF PeerConnect, ConnsOK, SendsOK, ThreadOK
    <2>2. SendsOK'
      BY <1>31 DEF PeerConnect, ConnsOK, SendsOK, ThreadOK
    <2>3. ThreadOK'
      BY <1>31 DEF PeerConnect, ConnsOK, SendsOK, ThreadOK
    <2>4. QED
      BY <2>1, <2>2, <2>3
  <1>32. ASSUME NEW c \in Conns, PeerSend(c) PROVE TypeOK'
    <2>1. ConnsOK'
      BY <1>32 DEF PeerSend, ConnsOK, SendsOK, ThreadOK
    <2>2. SendsOK'
      BY <1>32 DEF PeerSend, ConnsOK, SendsOK, ThreadOK
    <2>3. ThreadOK'
      BY <1>32 DEF PeerSend, ConnsOK, SendsOK, ThreadOK
    <2>4. QED
      BY <2>1, <2>2, <2>3
  <1>33. ASSUME NEW c \in Conns, PeerGone(c) PROVE TypeOK'
    <2>1. ConnsOK'
      BY <1>33 DEF PeerGone, ConnsOK, SendsOK, ThreadOK
    <2>2. SendsOK'
      BY <1>33 DEF PeerGone, ConnsOK, SendsOK, ThreadOK
    <2>3. ThreadOK'
      BY <1>33 DEF PeerGone, ConnsOK, SendsOK, ThreadOK
    <2>4. QED
      BY <2>1, <2>2, <2>3
  <1>34. ASSUME Tick PROVE TypeOK'
    <2>1. ConnsOK'
      <3>1. age' \in [Conns -> 0..Timeout]
        BY <1>34, LimitTypes DEF Tick, ConnsOK
      <3>2. QED
        BY <1>34, <3>1 DEF Tick, ConnsOK
    <2>2. SendsOK'
      BY <1>34 DEF Tick, ConnsOK, SendsOK, ThreadOK
    <2>3. ThreadOK'
      BY <1>34 DEF Tick, ConnsOK, SendsOK, ThreadOK
    <2>4. QED
      BY <2>1, <2>2, <2>3
  <1>35. ASSUME ShutdownBegin PROVE TypeOK'
    <2>1. ConnsOK'
      BY <1>35 DEF ShutdownBegin, ConnsOK, SendsOK, ThreadOK
    <2>2. SendsOK'
      BY <1>35 DEF ShutdownBegin, ConnsOK, SendsOK, ThreadOK
    <2>3. ThreadOK'
      BY <1>35 DEF ShutdownBegin, ConnsOK, SendsOK, ThreadOK
    <2>4. QED
      BY <2>1, <2>2, <2>3
  <1>36. ASSUME CloseAllConnections PROVE TypeOK'
    <2>1. ConnsOK'
      BY <1>36 DEF CloseAllConnections, ConnsOK, SendsOK, ThreadOK
    <2>2. SendsOK'
      BY <1>36 DEF CloseAllConnections, ConnsOK, SendsOK, ThreadOK
    <2>3. ThreadOK'
      BY <1>36 DEF CloseAllConnections, ConnsOK, SendsOK, ThreadOK
    <2>4. QED
      BY <2>1, <2>2, <2>3
  <1>37. ASSUME Join PROVE TypeOK'
    <2>1. ConnsOK'
      BY <1>37 DEF Join, ConnsOK, SendsOK, ThreadOK
    <2>2. SendsOK'
      BY <1>37 DEF Join, ConnsOK, SendsOK, ThreadOK
    <2>3. ThreadOK'
      BY <1>37 DEF Join, ConnsOK, SendsOK, ThreadOK
    <2>4. QED
      BY <2>1, <2>2, <2>3
  <1>38. CASE UNCHANGED vars
    BY <1>38 DEF vars, peer, flags, out, net, life, ConnsOK, SendsOK, ThreadOK
  <1>39. QED
    BY <1>1, <1>2, <1>3, <1>4, <1>5, <1>6, <1>7, <1>8, <1>9, <1>10, <1>11, <1>12, <1>13, <1>14, <1>15, <1>16, <1>17, <1>18, <1>19, <1>20, <1>21, <1>22, <1>23, <1>24, <1>25, <1>26, <1>27, <1>28, <1>29, <1>30, <1>31, <1>32, <1>33, <1>34, <1>35, <1>36, <1>37, <1>38 DEF Next, ThreadWorker, Sender

\* Every variable keeps its type, for any connections, buffers and limits, and the
\* network thread never handles the events of an entry that is not there.
THEOREM TypeCorrect == Spec => []TypeOK
  BY InitTypeOK, TypeOKStep, PTL DEF Spec

-----------------------------------------------------------------------------
(* The list of connections.                                                  *)

LEMMA TailMembers ==
  ASSUME NEW S, NEW l \in Seq(S), l # <<>>, NEW d, In(d, l)
  PROVE  d = Head(l) \/ In(d, Tail(l))
  <1>1. PICK i \in 1..Len(l) : l[i] = d
    BY DEF In
  <1>2. CASE i = 1
    BY <1>1, <1>2
  <1>3. CASE i # 1
    <2>1. /\ i - 1 \in 1..Len(Tail(l)) /\ Tail(l)[i - 1] = l[i - 1 + 1] /\ i - 1 + 1 = i
      BY <1>1, <1>3, HeadTailProperties
    <2>2. Tail(l)[i - 1] = d
      BY <1>1, <2>1
    <2>3. QED
      BY <2>1, <2>2 DEF In
  <1>4. QED
    BY <1>2, <1>3

\* What the list holds at any time.
Listed == /\ OnceEach(list)
          /\ \A c \in Conns : In(c, list) <=> phase[c] = "listed"

\* The last walk: what it has not reached yet is all that is left.
Emptied == /\ npc = "final" => \A c \in Conns : phase[c] = "listed" => In(c, todo)
           /\ npc = "ended" => \A c \in Conns : phase[c] # "listed"
           /\ ctl = "stopped" => npc = "ended"

ListInv == Listed /\ Emptied

LEMMA RemovedFromList ==
  ASSUME TypeOK, Listed, NEW c \in Conns, list' = ListDel(list, c),
         phase' = [phase EXCEPT ![c] = "closed"]
  PROVE  /\ Listed'
         /\ \A d \in Conns : phase'[d] = "listed" => phase[d] = "listed" /\ d # c
  <1>1. list \in Seq(Conns) /\ phase \in [Conns -> {"none", "pending", "refused", "listed",
                                                   "closed", "destroyed"}]
    BY DEF TypeOK, ConnsOK, ThreadOK
  <1>2. OnceEach(list') /\ \A d : In(d, list') <=> In(d, list) /\ d # c
    BY <1>1, ListDelProperties DEF Listed
  <1>3. \A d \in Conns : phase'[d] = IF d = c THEN "closed" ELSE phase[d]
    BY <1>1
  <1>4. \A d \in Conns : In(d, list) <=> phase[d] = "listed"
    BY DEF Listed
  <1>5. \A d \in Conns : In(d, list') <=> phase'[d] = "listed"
    BY <1>2, <1>3, <1>4
  <1>6. Listed'
    BY <1>2, <1>5 DEF Listed, OnceEach, In
  <1>7. QED
    BY <1>3, <1>6

LEMMA MovedInList ==
  ASSUME TypeOK, Listed, NEW c \in Conns, list' = MovedToTail(list, c), phase' = phase
  PROVE  Listed'
  <1>1. list \in Seq(Conns)
    BY DEF TypeOK, ThreadOK
  <1>2. OnceEach(list') /\ \A d : In(d, list') <=> In(d, list)
    BY <1>1, MovedToTailProperties DEF Listed
  <1>3. QED
    BY <1>2 DEF Listed, OnceEach, In

LEMMA KeptInList ==
  ASSUME TypeOK, Listed, list' = list,
         \A c \in Conns : phase'[c] = "listed" <=> phase[c] = "listed"
  PROVE  Listed'
  BY DEF Listed, OnceEach, In

LEMMA InitListInv == Init => ListInv
  BY DEF Init, ListInv, Listed, Emptied, OnceEach, In

LEMMA ListInvStep == TypeOK /\ ListInv /\ [Next]_vars => ListInv'
  <1> SUFFICES ASSUME TypeOK, ListInv, [Next]_vars PROVE ListInv'
    OBVIOUS
  <1> USE DEF ListInv, NetFrame, peer, flags, out, life, net
  <1>0. ConnsOK /\ ThreadOK /\ Listed /\ Emptied
    BY DEF TypeOK
  <1>1. ASSUME LoopTop PROVE ListInv'
    <2>1. UNCHANGED <<list, phase, ctl>> /\ npc = "top" /\ npc' \in {"final", "scan"}
          /\ todo' = list
      BY <1>1 DEF LoopTop
    <2>2. Listed'
      BY <1>0, <2>1, KeptInList
    <2>3. QED
      BY <1>0, <2>1, <2>2 DEF Emptied, Listed
  <1>2. ASSUME ScanConn PROVE ListInv'
    <2> DEFINE c == Head(todo)
    <2>1. c \in Conns
      BY <1>2, <1>0, HeadOfTodo DEF ScanConn, ThreadOK
    <2>2. \/ CloseCtx(c)
          \/ UNCHANGED <<list, phase>>
      BY <1>2 DEF ScanConn
    <2>3. Listed' /\ Emptied'
      <3>1. npc \notin {"final", "ended"} /\ npc' \notin {"final", "ended"} /\ ctl' = ctl
        BY <1>2 DEF ScanConn
      <3>2. Listed'
        BY <1>0, <2>1, <2>2, RemovedFromList, KeptInList DEF CloseCtx
      <3>3. QED
        BY <1>0, <3>1, <3>2 DEF Emptied
    <2>4. QED
      BY <2>3
  <1>3. ASSUME ScanEnd PROVE ListInv'
    <2>1. UNCHANGED <<list, phase, ctl>> /\ {npc, npc'} \cap {"final", "ended"} = {}
      BY <1>3 DEF ScanEnd
    <2>2. QED
      BY <1>0, <2>1, KeptInList DEF Emptied
  <1>4. ASSUME Poll PROVE ListInv'
    <2>1. UNCHANGED <<list, phase, ctl>> /\ {npc, npc'} \cap {"final", "ended"} = {}
      BY <1>4 DEF Poll
    <2>2. QED
      BY <1>0, <2>1, KeptInList DEF Emptied
  <1>5. ASSUME HandleEventAccept PROVE ListInv'
    <2>1. npc = "accept" /\ npc' = "conn" /\ ctl' = ctl
      BY <1>5 DEF HandleEventAccept
    <2>2. \/ UNCHANGED <<list, phase>>
          \/ \E c \in Conns : phase[c] = "pending" /\
               \/ list' = list /\ phase' = [phase EXCEPT ![c] = "refused"]
               \/ list' = Append(list, c) /\ phase' = [phase EXCEPT ![c] = "listed"]
      BY <1>5 DEF HandleEventAccept
    <2>3. CASE UNCHANGED <<list, phase>>
      BY <1>0, <2>1, <2>3, KeptInList DEF Emptied
    <2>4. ASSUME NEW c \in Conns, phase[c] = "pending", list' = list,
                 phase' = [phase EXCEPT ![c] = "refused"]
          PROVE  Listed'
      BY <1>0, <2>4, KeptInList DEF ConnsOK
    <2>5. ASSUME NEW c \in Conns, phase[c] = "pending", list' = Append(list, c),
                 phase' = [phase EXCEPT ![c] = "listed"]
          PROVE  Listed'
      <3>1. ~In(c, list) /\ OnceEach(list) /\ list \in Seq(Conns)
        BY <1>0, <2>5 DEF Listed, ThreadOK
      <3>2. OnceEach(list') /\ \A d : In(d, list') <=> In(d, list) \/ d = c
        BY <2>5, <3>1, AppendMembers
      <3>3. \A d \in Conns : phase'[d] = IF d = c THEN "listed" ELSE phase[d]
        BY <1>0, <2>5 DEF ConnsOK
      <3>4. QED
        BY <1>0, <3>2, <3>3 DEF Listed, OnceEach, In
    <2>6. QED
      BY <1>0, <2>1, <2>2, <2>3, <2>4, <2>5 DEF Emptied
  <1>6. ASSUME NextConn PROVE ListInv'
    <2> DEFINE c == Head(polled).c
    <2>1. c \in Conns
      BY <1>6, <1>0, HeadOfWalk DEF NextConn, ThreadOK
    <2>2. \/ CloseCtx(c)
          \/ UNCHANGED <<list, phase>>
      BY <1>6 DEF NextConn
    <2>3. Listed' /\ Emptied'
      <3>1. npc \notin {"final", "ended"} /\ npc' \notin {"final", "ended"} /\ ctl' = ctl
        BY <1>6 DEF NextConn
      <3>2. Listed'
        BY <1>0, <2>1, <2>2, RemovedFromList, KeptInList DEF CloseCtx
      <3>3. QED
        BY <1>0, <3>1, <3>2 DEF Emptied
    <2>4. QED
      BY <2>3
  <1>7. ASSUME HandleEventRead PROVE ListInv'
    <2>1. UNCHANGED <<list, phase, ctl>> /\ {npc, npc'} \cap {"final", "ended"} = {}
      BY <1>7 DEF HandleEventRead, Handled
    <2>2. QED
      BY <1>0, <2>1, KeptInList DEF Emptied
  <1>8. ASSUME HandleReadEnd PROVE ListInv'
    <2> DEFINE c == Head(polled).c
    <2>1. c \in Conns
      BY <1>8, <1>0, HeadOfWalk DEF HandleReadEnd, ThreadOK
    <2>2. \/ CloseCtx(c)
          \/ UNCHANGED <<list, phase>>
      BY <1>8 DEF HandleReadEnd
    <2>3. Listed' /\ Emptied'
      <3>1. npc \notin {"final", "ended"} /\ npc' \notin {"final", "ended"} /\ ctl' = ctl
        BY <1>8 DEF HandleReadEnd
      <3>2. Listed'
        BY <1>0, <2>1, <2>2, RemovedFromList, KeptInList DEF CloseCtx
      <3>3. QED
        BY <1>0, <3>1, <3>2 DEF Emptied
    <2>4. QED
      BY <2>3
  <1>9. ASSUME HandleHup PROVE ListInv'
    <2> DEFINE c == Head(polled).c
    <2>1. c \in Conns
      BY <1>9, <1>0, HeadOfWalk DEF HandleHup, ThreadOK
    <2>2. \/ CloseCtx(c)
          \/ UNCHANGED <<list, phase>>
      BY <1>9 DEF HandleHup
    <2>3. Listed' /\ Emptied'
      <3>1. npc \notin {"final", "ended"} /\ npc' \notin {"final", "ended"} /\ ctl' = ctl
        BY <1>9 DEF HandleHup
      <3>2. Listed'
        BY <1>0, <2>1, <2>2, RemovedFromList, KeptInList DEF CloseCtx
      <3>3. QED
        BY <1>0, <3>1, <3>2 DEF Emptied
    <2>4. QED
      BY <2>3
  <1>10. ASSUME HandleEventWrite PROVE ListInv'
    <2>1. UNCHANGED <<list, phase, ctl>> /\ {npc, npc'} \cap {"final", "ended"} = {}
      BY <1>10 DEF HandleEventWrite
    <2>2. QED
      BY <1>0, <2>1, KeptInList DEF Emptied
  <1>11. ASSUME EventsDone PROVE ListInv'
    <2>1. UNCHANGED <<list, phase, ctl>> /\ {npc, npc'} \cap {"final", "ended"} = {}
      BY <1>11 DEF EventsDone
    <2>2. QED
      BY <1>0, <2>1, KeptInList DEF Emptied
  <1>12. ASSUME WriteEmpty PROVE ListInv'
    <2>1. UNCHANGED <<list, phase, ctl>> /\ {npc, npc'} \cap {"final", "ended"} = {}
      BY <1>12 DEF WriteEmpty, WriteReturns
    <2>2. QED
      BY <1>0, <2>1, KeptInList DEF Emptied
  <1>13. ASSUME WriteBuffer PROVE ListInv'
    <2>1. UNCHANGED <<list, phase, ctl>> /\ {npc, npc'} \cap {"final", "ended"} = {}
      BY <1>13 DEF WriteBuffer, WriteReturns
    <2>2. QED
      BY <1>0, <2>1, KeptInList DEF Emptied
  <1>14. ASSUME WriteError PROVE ListInv'
    <2> DEFINE c == Head(polled).c
    <2>1. c \in Conns
      BY <1>14, <1>0, HeadOfWalk DEF WriteError, ThreadOK
    <2>2. \/ CloseCtx(c)
          \/ UNCHANGED <<list, phase>>
      BY <1>14 DEF WriteError
    <2>3. Listed' /\ Emptied'
      <3>1. npc \notin {"final", "ended"} /\ npc' \notin {"final", "ended"} /\ ctl' = ctl
        BY <1>14 DEF WriteError
      <3>2. Listed'
        BY <1>0, <2>1, <2>2, RemovedFromList, KeptInList DEF CloseCtx
      <3>3. QED
        BY <1>0, <3>1, <3>2 DEF Emptied
    <2>4. QED
      BY <2>3
  <1>15. ASSUME ConnsDone PROVE ListInv'
    <2>1. UNCHANGED <<list, phase, ctl>> /\ {npc, npc'} \cap {"final", "ended"} = {}
      BY <1>15 DEF ConnsDone
    <2>2. QED
      BY <1>0, <2>1, KeptInList DEF Emptied
  <1>16. ASSUME MoveActive PROVE ListInv'
    <2>1. Head(active) \in Conns /\ list' = MovedToTail(list, Head(active)) /\ phase' = phase
      BY <1>16, <1>0, HeadTailProperties DEF MoveActive, ThreadOK
    <2>2. npc = "move" /\ UNCHANGED <<npc, ctl>>
      BY <1>16 DEF MoveActive
    <2>3. QED
      BY <1>0, <2>1, <2>2, MovedInList DEF Emptied
  <1>17. ASSUME MoveEnd PROVE ListInv'
    <2>1. UNCHANGED <<list, phase, ctl>> /\ {npc, npc'} \cap {"final", "ended"} = {}
      BY <1>17 DEF MoveEnd
    <2>2. QED
      BY <1>0, <2>1, KeptInList DEF Emptied
  <1>18. ASSUME TimeoutBegin PROVE ListInv'
    <2>1. UNCHANGED <<list, phase, ctl>> /\ {npc, npc'} \cap {"final", "ended"} = {}
      BY <1>18 DEF TimeoutBegin
    <2>2. QED
      BY <1>0, <2>1, KeptInList DEF Emptied
  <1>19. ASSUME ExpireConn PROVE ListInv'
    <2> DEFINE c == Head(todo)
    <2>1. c \in Conns
      BY <1>19, <1>0, HeadOfTodo DEF ExpireConn, ThreadOK
    <2>2. \/ list' = ListDel(list, c) /\ phase' = [phase EXCEPT ![c] = "closed"]
          \/ UNCHANGED <<list, phase>>
      BY <1>19 DEF ExpireConn
    <2>3. Listed' /\ Emptied'
      <3>1. npc \notin {"final", "ended"} /\ npc' \notin {"final", "ended"} /\ ctl' = ctl
        BY <1>19 DEF ExpireConn
      <3>2. Listed'
        BY <1>0, <2>1, <2>2, RemovedFromList, KeptInList
      <3>3. QED
        BY <1>0, <3>1, <3>2 DEF Emptied
    <2>4. QED
      BY <2>3
  <1>20. ASSUME ExpireEnd PROVE ListInv'
    <2>1. UNCHANGED <<list, phase, ctl>> /\ {npc, npc'} \cap {"final", "ended"} = {}
      BY <1>20 DEF ExpireEnd
    <2>2. QED
      BY <1>0, <2>1, KeptInList DEF Emptied
  <1>21. ASSUME FinalClose PROVE ListInv'
    <2> DEFINE c == Head(todo)
    <2>1. c \in Conns /\ todo \in Seq(Conns) /\ todo # <<>> /\ npc = "final"
      BY <1>21, <1>0, HeadOfTodo DEF FinalClose, ThreadOK
    <2>2. list' = ListDel(list, c) /\ phase' = [phase EXCEPT ![c] = "closed"]
      BY <1>21 DEF FinalClose, CloseCtx
    <2>3. todo' = Tail(todo) /\ UNCHANGED <<npc, ctl>>
      BY <1>21 DEF FinalClose
    <2>4. Listed' /\ \A d \in Conns : phase'[d] = "listed" => phase[d] = "listed" /\ d # c
      BY <1>0, <2>1, <2>2, RemovedFromList
    <2>5. \A d \in Conns : phase'[d] = "listed" => In(d, todo')
      BY <1>0, <2>1, <2>3, <2>4, TailMembers DEF Emptied
    <2>6. QED
      BY <1>0, <2>1, <2>3, <2>4, <2>5 DEF Emptied
  <1>22. ASSUME FinalEnd PROVE ListInv'
    <2>1. npc = "final" /\ npc' = "ended" /\ todo = <<>> /\ UNCHANGED <<list, phase, ctl>>
      BY <1>22 DEF FinalEnd
    <2>2. \A c \in Conns : phase[c] # "listed"
      BY <1>0, <2>1 DEF Emptied, In
    <2>3. QED
      BY <1>0, <2>1, <2>2, KeptInList DEF Emptied
  <1>23. ASSUME NEW b \in Bufs, SendCheck(b) PROVE ListInv'
    <2>1. UNCHANGED <<list, phase, npc, todo>> /\ (ctl' = "stopped" => ctl = "stopped")
      BY <1>23 DEF SendCheck
    <2>2. QED
      BY <1>0, <2>1, KeptInList DEF Emptied
  <1>24. ASSUME NEW b \in Bufs, SendQueue(b) PROVE ListInv'
    <2>1. UNCHANGED <<list, phase, npc, todo>> /\ (ctl' = "stopped" => ctl = "stopped")
      BY <1>24 DEF SendQueue
    <2>2. QED
      BY <1>0, <2>1, KeptInList DEF Emptied
  <1>25. ASSUME NEW b \in Bufs, SendFail(b) PROVE ListInv'
    <2>1. UNCHANGED <<list, phase, npc, todo>> /\ (ctl' = "stopped" => ctl = "stopped")
      BY <1>25 DEF SendFail
    <2>2. QED
      BY <1>0, <2>1, KeptInList DEF Emptied
  <1>26. ASSUME NEW b \in Bufs, CallerRelease(b) PROVE ListInv'
    <2>1. UNCHANGED <<list, phase, npc, todo>> /\ (ctl' = "stopped" => ctl = "stopped")
      BY <1>26 DEF CallerRelease
    <2>2. QED
      BY <1>0, <2>1, KeptInList DEF Emptied
  <1>27. ASSUME NEW b \in Bufs, SendActive(b) PROVE ListInv'
    <2>1. UNCHANGED <<list, phase, npc, todo>> /\ (ctl' = "stopped" => ctl = "stopped")
      BY <1>27 DEF SendActive
    <2>2. QED
      BY <1>0, <2>1, KeptInList DEF Emptied
  <1>28. ASSUME NEW b \in Bufs, SendMove(b) PROVE ListInv'
    <2>1. Target[b] \in Conns /\ list' = MovedToTail(list, Target[b]) /\ phase' = phase
      BY <1>28, BufferType DEF SendMove
    <2>2. UNCHANGED <<npc, todo, ctl>>
      BY <1>28 DEF SendMove
    <2>3. Listed'
      BY <1>0, <2>1, MovedInList
    <2>4. Emptied'
      BY <1>0, <2>1, <2>2 DEF Emptied
    <2>5. QED
      BY <2>3, <2>4
  <1>29. ASSUME NEW c \in Conns, AppClose(c) PROVE ListInv'
    <2>1. UNCHANGED <<list, phase, npc, todo>> /\ (ctl' = "stopped" => ctl = "stopped")
      BY <1>29 DEF AppClose
    <2>2. QED
      BY <1>0, <2>1, KeptInList DEF Emptied
  <1>30. ASSUME NEW c \in Conns, Destroy(c) PROVE ListInv'
    <2>1. UNCHANGED <<list, npc, todo, ctl>>
      BY <1>30 DEF Destroy
    <2>2. \A d \in Conns : phase'[d] = "listed" <=> phase[d] = "listed"
      BY <1>30, <1>0 DEF Destroy, ConnsOK
    <2>3. QED
      BY <1>0, <2>1, <2>2, KeptInList DEF Emptied
  <1>31. ASSUME NEW c \in Conns, PeerConnect(c) PROVE ListInv'
    <2>1. UNCHANGED <<list, npc, todo, ctl>>
      BY <1>31 DEF PeerConnect
    <2>2. \A d \in Conns : phase'[d] = "listed" <=> phase[d] = "listed"
      BY <1>31, <1>0 DEF PeerConnect, ConnsOK
    <2>3. QED
      BY <1>0, <2>1, <2>2, KeptInList DEF Emptied
  <1>32. ASSUME NEW c \in Conns, PeerSend(c) PROVE ListInv'
    <2>1. UNCHANGED <<list, phase, npc, todo>> /\ (ctl' = "stopped" => ctl = "stopped")
      BY <1>32 DEF PeerSend
    <2>2. QED
      BY <1>0, <2>1, KeptInList DEF Emptied
  <1>33. ASSUME NEW c \in Conns, PeerGone(c) PROVE ListInv'
    <2>1. UNCHANGED <<list, phase, npc, todo>> /\ (ctl' = "stopped" => ctl = "stopped")
      BY <1>33 DEF PeerGone
    <2>2. QED
      BY <1>0, <2>1, KeptInList DEF Emptied
  <1>34. ASSUME Tick PROVE ListInv'
    <2>1. UNCHANGED <<list, phase, npc, todo>> /\ (ctl' = "stopped" => ctl = "stopped")
      BY <1>34 DEF Tick
    <2>2. QED
      BY <1>0, <2>1, KeptInList DEF Emptied
  <1>35. ASSUME ShutdownBegin PROVE ListInv'
    <2>1. UNCHANGED <<list, phase, npc, todo>> /\ (ctl' = "stopped" => ctl = "stopped")
      BY <1>35 DEF ShutdownBegin
    <2>2. QED
      BY <1>0, <2>1, KeptInList DEF Emptied
  <1>36. ASSUME CloseAllConnections PROVE ListInv'
    <2>1. UNCHANGED <<list, phase, npc, todo>> /\ ctl' # "stopped"
      BY <1>36 DEF CloseAllConnections
    <2>2. QED
      BY <1>0, <2>1, KeptInList DEF Emptied
  <1>37. ASSUME Join PROVE ListInv'
    <2>1. UNCHANGED <<list, phase, npc, todo>> /\ npc = "ended"
      BY <1>37 DEF Join
    <2>2. QED
      BY <1>0, <2>1, KeptInList DEF Emptied
  <1>38. CASE UNCHANGED vars
    BY <1>0, <1>38, KeptInList DEF vars, Emptied
  <1>39. QED
    BY <1>1, <1>2, <1>3, <1>4, <1>5, <1>6, <1>7, <1>8, <1>9, <1>10, <1>11, <1>12, <1>13, <1>14, <1>15, <1>16, <1>17, <1>18, <1>19, <1>20, <1>21, <1>22, <1>23, <1>24, <1>25, <1>26, <1>27, <1>28, <1>29, <1>30, <1>31, <1>32, <1>33, <1>34, <1>35, <1>36, <1>37, <1>38 DEF Next, ThreadWorker, Sender
\* m_listContext holds every open connection once, a connection that was removed is not
\* put back by a Send that was past its tests, and none is left open after Shutdown.
THEOREM ListIsExact == Spec => []RemovedStaysOut
  <1>1. Init => TypeOK /\ ListInv
    BY InitTypeOK, InitListInv
  <1>2. (TypeOK /\ ListInv) /\ [Next]_vars => (TypeOK /\ ListInv)'
    BY TypeOKStep, ListInvStep
  <1>3. TypeOK /\ ListInv => RemovedStaysOut
    BY DEF TypeOK, ListInv, Listed, Emptied, OnceEach, RemovedStaysOut
  <1>4. QED
    BY <1>1, <1>2, <1>3, PTL DEF Spec

===============================================================================
