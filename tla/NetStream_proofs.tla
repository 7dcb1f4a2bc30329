---------------------------- MODULE NetStream_proofs ----------------------------
(* Theorems about what NetConn sends and about the references to what it is     *)
(* given to send, for every number of connections and buffers and every limit. *)
EXTENDS NetConn_proofs, FiniteSetTheorems

USE ConstantsAssumption

-----------------------------------------------------------------------------
(* Streams and queues.                                                       *)

\* A stream that ends with the n-th unit of b.
Ends(w, b, n) == w # <<>> /\ w[Len(w)] = <<b, n>>

\* A stream of the first g buffers of q, whole, as far as its last unit tells.
UpTo(w, q, g) == IF g = 0 THEN w = <<>> ELSE Ends(w, q[g], Size[q[g]])

\* What the end of the stream w has to do with the queue s of the buffers of q that are
\* left, of which snt tells how far they were sent.
Chain(q, s, w, snt) ==
    IF s # <<>> /\ snt[s[1]] > 0 THEN Ends(w, s[1], snt[s[1]])
                                 ELSE UpTo(w, q, Len(q) - Len(s))

\* The stream w has reached unit n of b, one of the buffers of q.
Reached(w, q, b, n) ==
    \E p \in 1..Len(q) : /\ q[p] = b
                         /\ n > 0 => Ends(w, b, n)
                         /\ n = 0 => UpTo(w, q, p - 1)

Suffix(s, q) == Len(s) <= Len(q) /\ \A i \in 1..Len(s) : s[i] = q[Len(q) - Len(s) + i]
Waiting(s, snt) == \A i \in 2..Len(s) : snt[s[i]] = 0

Stream == Seq(Bufs \X Nat)

LEMMA UnitsProperties ==
  ASSUME NEW b \in Bufs, NEW n \in Nat, NEW k \in Nat
  PROVE  /\ Units(b, n, k) \in Stream /\ Len(Units(b, n, k)) = k
         /\ \A i \in 1..k : Units(b, n, k)[i] = <<b, n + i>>
  <1>1. Units(b, n, k) \in Stream
    BY UnitsType DEF Stream
  <1>2. Units(b, n, k) = [i \in 1..k |-> <<b, n + i>>]
    BY DEF Units
  <1>3. Len(Units(b, n, k)) = k
    BY <1>2
  <1>4. QED
    BY <1>1, <1>2, <1>3

\* A stream goes on with the next units of the buffer it ends in, or with the first ones
\* of the buffer behind.
LEMMA GrowInOrder ==
  ASSUME NEW q \in Seq(Bufs), NEW w \in Stream, InOrder(w, q),
         NEW b \in Bufs, NEW n \in Nat, NEW k \in Nat, Reached(w, q, b, n)
  PROVE  /\ w \o Units(b, n, k) \in Stream
         /\ InOrder(w \o Units(b, n, k), q)
         /\ k > 0 => Ends(w \o Units(b, n, k), b, n + k)
         /\ k = 0 => w \o Units(b, n, k) = w
  <1> DEFINE u == Units(b, n, k)
             v == w \o u
             L == Len(w)
  <1>0. PICK p \in 1..Len(q) : /\ q[p] = b
                               /\ n > 0 => Ends(w, b, n)
                               /\ n = 0 => UpTo(w, q, p - 1)
    BY DEF Reached
  <1>1. /\ u \in Stream /\ Len(u) = k
        /\ \A i \in 1..k : u[i] = <<b, n + i>>
    BY UnitsProperties
  <1>2. L \in Nat
    BY DEF Stream
  <1> HIDE DEF u
  <1>3. /\ v \in Stream /\ Len(v) = L + k
        /\ \A i \in 1..L : v[i] = w[i]
        /\ \A i \in (L + 1)..(L + k) : v[i] = <<b, n + (i - L)>>
    <2>1. /\ v \in Stream /\ Len(v) = L + k
          /\ \A i \in 1..(L + k) : v[i] = IF i <= L THEN w[i] ELSE u[i - L]
      <3>1. w \in Seq(Bufs \X Nat) /\ u \in Seq(Bufs \X Nat)
        BY <1>1 DEF Stream
      <3> HIDE DEF L
      <3>2. /\ v \in Seq(Bufs \X Nat) /\ Len(v) = Len(w) + Len(u)
            /\ \A i \in 1..(Len(w) + Len(u)) : v[i] = IF i <= Len(w) THEN w[i] ELSE u[i - Len(w)]
        BY <3>1, ConcatProperties
      <3> HIDE DEF v
      <3>3. QED
        BY <1>1, <3>2 DEF Stream, L
    <2>2. ASSUME NEW i \in (L + 1)..(L + k) PROVE v[i] = <<b, n + (i - L)>>
      <3> HIDE DEF v, L
      <3>1. i \in 1..(L + k) /\ ~(i <= L)
        BY <1>2
      <3>4. i - L \in 1..k
        BY <1>2
      <3>2. v[i] = u[i - L]
        BY <2>1, <3>1
      <3>3. QED
        BY <1>1, <3>2, <3>4
    <2>3. ASSUME NEW i \in 1..L PROVE v[i] = w[i]
      <3>1. i \in 1..(L + k) /\ i <= L
        BY <1>2
      <3>2. QED
        BY <2>1, <3>1
    <2>4. QED
      BY <2>1, <2>2, <2>3
  <1>4. k = 0 => v = w
    <2>1. ASSUME k = 0 PROVE u = <<>>
      BY <1>1, <2>1 DEF Stream
    <2>2. QED
      BY <2>1, ConcatEmptySeq DEF Stream
  <1> DEFINE Follows(x, m) ==
               IF x[m][2] > 1 THEN m > 1 /\ x[m - 1] = <<x[m][1], x[m][2] - 1>>
               ELSE \E o \in 1..Len(q) :
                      /\ q[o] = x[m][1]
                      /\ IF m = 1 THEN o = 1
                         ELSE o > 1 /\ x[m - 1] = <<q[o - 1], Size[q[o - 1]]>>
  <1>5. InOrder(w, q) <=> \A m \in 1..L : Follows(w, m)
    BY DEF InOrder
  <1>6. InOrder(v, q) <=> \A m \in 1..Len(v) : Follows(v, m)
    BY DEF InOrder
  <1> HIDE DEF v, L
  <1>7. ASSUME NEW m \in 1..L PROVE Follows(v, m)
    <2>1. v[m] = w[m]
      BY <1>3
    <2>2. m > 1 => v[m - 1] = w[m - 1]
      <3>1. m > 1 => m - 1 \in 1..L
        BY <1>2
      <3>2. QED
        BY <1>3, <3>1
    <2>3. Follows(w, m)
      BY <1>5
    <2>4. m \in Nat
      BY <1>2
    <2>5. CASE w[m][2] > 1
      BY <2>1, <2>2, <2>3, <2>5
    <2>6. CASE ~(w[m][2] > 1)
      <3>1. PICK o \in 1..Len(q) : /\ q[o] = w[m][1]
                                   /\ IF m = 1 THEN o = 1
                                      ELSE o > 1 /\ w[m - 1] = <<q[o - 1], Size[q[o - 1]]>>
        BY <2>3, <2>6
      <3>2. m # 1 => m > 1
        BY <2>4
      <3>3. IF m = 1 THEN o = 1 ELSE o > 1 /\ v[m - 1] = <<q[o - 1], Size[q[o - 1]]>>
        BY <2>2, <3>1, <3>2
      <3>4. QED
        BY <2>1, <2>6, <3>1, <3>3
    <2>7. QED
      BY <2>5, <2>6
  <1>8. ASSUME NEW m \in (L + 1)..(L + k) PROVE Follows(v, m)
    <2>1. m \in Nat /\ v[m] = <<b, n + (m - L)>> /\ m - L >= 1
      <3>1. v[m] = <<b, n + (m - L)>>
        BY <1>3
      <3>2. m \in Nat /\ m - L >= 1
        BY <1>2
      <3>3. QED
        BY <3>1, <3>2
    <2>2. v[m][1] = b /\ v[m][2] = n + (m - L)
      BY <2>1
    <2>3. CASE m > L + 1
      <3>1. m - 1 \in (L + 1)..(L + k) /\ m > 1
        BY <1>2, <2>3
      <3>2. v[m - 1] = <<b, n + ((m - 1) - L)>>
        BY <1>3, <3>1
      <3>3. n + ((m - 1) - L) = (n + (m - L)) - 1 /\ n + (m - L) > 1
        BY <1>2, <2>1, <2>3
      <3>4. QED
        BY <2>2, <3>1, <3>2, <3>3
    <2>4. CASE m = L + 1 /\ n > 0
      <3>1. w # <<>> /\ w[L] = <<b, n>>
        BY <1>0, <2>4 DEF Ends, L
      <3>2. L >= 1
        BY <1>2, <3>1 DEF Stream, L
      <3>3. m - 1 = L /\ L \in 1..L /\ m > 1 /\ n + (m - L) = n + 1
        BY <1>2, <2>4, <3>2
      <3>4. v[L] = <<b, n>>
        BY <1>3, <3>1, <3>3
      <3>5. v[m][1] = b /\ v[m][2] = n + 1 /\ v[m - 1] = <<b, n>>
        BY <2>2, <3>3, <3>4
      <3>6. n + 1 > 1 /\ (n + 1) - 1 = n
        BY <2>4
      <3>7. QED
        BY <3>3, <3>5, <3>6
    <2>5. CASE m = L + 1 /\ n = 0
      <3>1. v[m][2] = 1 /\ UpTo(w, q, p - 1)
        BY <1>0, <1>2, <2>2, <2>5
      <3>2. CASE p = 1
        <4>1. w = <<>>
          BY <3>1, <3>2 DEF UpTo
        <4>2. m = 1
          BY <4>1, <2>5 DEF L
        <4>3. QED
          BY <1>0, <2>2, <3>1, <3>2, <4>2
      <3>3. CASE p # 1
        <4>0. Ends(w, q[p - 1], Size[q[p - 1]])
          BY <3>1, <3>3 DEF UpTo
        <4>1. w # <<>> /\ w[L] = <<q[p - 1], Size[q[p - 1]]>>
          BY <4>0 DEF Ends, L
        <4>2. L >= 1
          BY <1>2, <4>1 DEF Stream, L
        <4>3. m - 1 = L /\ L \in 1..L /\ m # 1 /\ p > 1
          BY <1>2, <2>5, <3>3, <4>2
        <4>4. v[L] = <<q[p - 1], Size[q[p - 1]]>>
          BY <1>3, <4>1, <4>3
        <4>5. v[m - 1] = <<q[p - 1], Size[q[p - 1]]>>
          BY <4>3, <4>4
        <4>6. v[m][1] = q[p] /\ ~(v[m][2] > 1)
          BY <1>0, <2>2, <3>1
        <4>7. QED
          BY <4>3, <4>5, <4>6
      <3>4. QED
        BY <3>2, <3>3
    <2>6. m = L + 1 \/ m > L + 1
      BY <1>2
    <2>7. n = 0 \/ n > 0
      OBVIOUS
    <2>8. QED
      BY <2>3, <2>4, <2>5, <2>6, <2>7
  <1>9. InOrder(v, q)
    <2>1. ASSUME NEW m \in 1..Len(v) PROVE Follows(v, m)
      <3>1. m \in 1..L \/ m \in (L + 1)..(L + k)
        BY <1>2, <1>3
      <3>2. QED
        BY <1>7, <1>8, <3>1
    <2>2. QED
      BY <1>6, <2>1
  <1>10. k > 0 => Ends(v, b, n + k)
    <2>1. ASSUME k > 0 PROVE v # <<>> /\ v[Len(v)] = <<b, n + k>>
      <3>1. Len(v) = L + k /\ L + k \in (L + 1)..(L + k) /\ (L + k) - L = k
        BY <1>2, <1>3, <2>1
      <3>2. v[Len(v)] = <<b, n + k>>
        BY <1>3, <3>1
      <3>3. QED
        BY <1>2, <2>1, <3>1, <3>2
    <2>2. QED
      BY <2>1 DEF Ends
  <1>11. v \in Stream
    BY <1>3
  <1>12. QED
    BY <1>4, <1>9, <1>10, <1>11 DEF v, u

LEMMA BeginInOrder ==
  ASSUME NEW q \in Seq(Bufs), NEW w \in Stream, InOrder(w, q),
         NEW b \in Bufs, NEW k \in Nat, Reached(w, q, b, 0)
  PROVE  /\ w \o Units(b, 0, k) \in Stream
         /\ InOrder(w \o Units(b, 0, k), q)
         /\ k > 0 => Ends(w \o Units(b, 0, k), b, k)
         /\ k = 0 => w \o Units(b, 0, k) = w
  <1>1. \A n \in Nat : Reached(w, q, b, n) =>
          /\ w \o Units(b, n, k) \in Stream
          /\ InOrder(w \o Units(b, n, k), q)
          /\ k > 0 => Ends(w \o Units(b, n, k), b, n + k)
          /\ k = 0 => w \o Units(b, n, k) = w
    BY GrowInOrder
  <1>2. 0 \in Nat /\ 0 + k = k
    OBVIOUS
  <1>3. QED
    BY <1>1, <1>2

\* One more buffer behind the others changes nothing about the stream.
LEMMA LongerInOrder ==
  ASSUME NEW q \in Seq(Bufs), NEW w \in Stream, InOrder(w, q), NEW b \in Bufs
  PROVE  InOrder(w, Append(q, b))
  <1> DEFINE r == Append(q, b)
  <1>1. Len(r) = Len(q) + 1 /\ Len(q) \in Nat /\ \A i \in 1..Len(q) : r[i] = q[i]
    BY AppendProperties
  <1> HIDE DEF r
  <1>2. ASSUME NEW o \in 1..Len(q)
        PROVE  o \in 1..Len(r) /\ r[o] = q[o] /\ (o > 1 => r[o - 1] = q[o - 1])
    <2>1. o \in 1..Len(r) /\ (o > 1 => o - 1 \in 1..Len(q))
      BY <1>1
    <2>2. QED
      BY <1>1, <2>1
  <1>3. ASSUME NEW m \in 1..Len(w), NEW o \in 1..Len(q),
               q[o] = w[m][1], m # 1 => o > 1 /\ w[m - 1] = <<q[o - 1], Size[q[o - 1]]>>
        PROVE  r[o] = w[m][1] /\ (m # 1 => w[m - 1] = <<r[o - 1], Size[r[o - 1]]>>)
    BY <1>2, <1>3
  <1>4. QED
    <2>1. ASSUME NEW m \in 1..Len(w), ~(w[m][2] > 1)
          PROVE  \E o \in 1..Len(r) :
                   /\ r[o] = w[m][1]
                   /\ IF m = 1 THEN o = 1
                      ELSE o > 1 /\ w[m - 1] = <<r[o - 1], Size[r[o - 1]]>>
      <3>1. PICK o \in 1..Len(q) : /\ q[o] = w[m][1]
                                   /\ IF m = 1 THEN o = 1
                                      ELSE o > 1 /\ w[m - 1] = <<q[o - 1], Size[q[o - 1]]>>
        BY <2>1 DEF InOrder
      <3>2. QED
        BY <1>2, <1>3, <3>1
    <2>2. QED
      BY <2>1 DEF InOrder, r

LEMMA SuffixMembers ==
  ASSUME NEW q \in Seq(Bufs), NEW s \in Seq(Bufs), Suffix(s, q), NEW i \in 1..Len(s)
  PROVE  /\ Len(q) - Len(s) + i \in 1..Len(q) /\ s[i] = q[Len(q) - Len(s) + i]
         /\ In(s[i], q)
  <1>1. Len(q) \in Nat /\ Len(s) \in Nat /\ Len(s) <= Len(q)
    BY DEF Suffix
  <1>2. Len(q) - Len(s) + i \in 1..Len(q)
    BY <1>1
  <1>3. s[i] = q[Len(q) - Len(s) + i]
    BY DEF Suffix
  <1>4. QED
    BY <1>2, <1>3 DEF In

LEMMA SuffixOnce ==
  ASSUME NEW q \in Seq(Bufs), NEW s \in Seq(Bufs), Suffix(s, q), OnceEach(q),
         NEW i \in 1..Len(s), NEW j \in 1..Len(s), s[i] = s[j]
  PROVE  i = j
  <1> DEFINE d == Len(q) - Len(s)
  <1>1. d + i \in 1..Len(q) /\ d + j \in 1..Len(q) /\ s[i] = q[d + i] /\ s[j] = q[d + j]
    BY SuffixMembers
  <1>2. d + i = d + j
    BY <1>1 DEF OnceEach
  <1>3. d \in Int
    OBVIOUS
  <1> HIDE DEF d
  <1>4. QED
    BY <1>2, <1>3

\* The head of the queue leaves it.
LEMMA TailSuffix ==
  ASSUME NEW q \in Seq(Bufs), NEW s \in Seq(Bufs), Suffix(s, q), s # <<>>,
         NEW snt \in [Bufs -> Nat], Waiting(s, snt)
  PROVE  /\ Tail(s) \in Seq(Bufs) /\ Len(Tail(s)) = Len(s) - 1
         /\ Suffix(Tail(s), q) /\ Waiting(Tail(s), snt)
         /\ Tail(s) # <<>> => snt[Tail(s)[1]] = 0
  <1> DEFINE t == Tail(s)
  <1>1. /\ t \in Seq(Bufs) /\ Len(t) = Len(s) - 1
        /\ \A i \in 1..Len(t) : t[i] = s[i + 1]
    BY HeadTailProperties
  <1>2. Len(q) \in Nat /\ Len(s) \in Nat /\ Len(s) <= Len(q)
    BY DEF Suffix
  <1> HIDE DEF t
  <1>3. ASSUME NEW i \in 1..Len(t)
        PROVE  t[i] = q[Len(q) - Len(t) + i] /\ snt[t[i]] = 0
    <2>0. t[i] = s[i + 1]
      BY <1>1
    <2>1. i + 1 \in 1..Len(s) /\ i + 1 \in 2..Len(s) /\ t[i] = s[i + 1]
      BY <1>1, <1>2, <2>0
    <2>2. s[i + 1] = q[Len(q) - Len(s) + (i + 1)]
      BY <2>1, SuffixMembers
    <2>3. Len(q) - Len(s) + (i + 1) = Len(q) - Len(t) + i
      BY <1>1, <1>2
    <2>4. snt[s[i + 1]] = 0
      BY <2>1 DEF Waiting
    <2>5. QED
      BY <2>1, <2>2, <2>3, <2>4
  <1>4. Suffix(t, q)
    <2>1. Len(t) <= Len(q)
      BY <1>1, <1>2
    <2>2. QED
      BY <1>3, <2>1 DEF Suffix
  <1>5. Waiting(t, snt)
    <2>1. \A i \in 2..Len(t) : i \in 1..Len(t)
      BY <1>1, <1>2
    <2>2. QED
      BY <1>3, <2>1 DEF Waiting
  <1>6. ASSUME t # <<>> PROVE snt[t[1]] = 0
    <2>1. 1 \in 1..Len(t)
      BY <1>1, <1>6
    <2>2. QED
      BY <1>3, <2>1
  <1>7. QED
    BY <1>1, <1>4, <1>5, <1>6 DEF t

\* A buffer is queued behind the others.  Units of it are sent if there are none.
LEMMA QueuedBehind ==
  ASSUME NEW q \in Seq(Bufs), NEW s \in Seq(Bufs), Suffix(s, q),
         NEW snt \in [Bufs -> Nat], Waiting(s, snt),
         NEW b \in Bufs, ~In(b, q), NEW k \in Nat, k > 0 => s = <<>>
  PROVE  /\ Suffix(Append(s, b), Append(q, b))
         /\ Waiting(Append(s, b), [snt EXCEPT ![b] = k])
  <1> DEFINE u == Append(s, b)
             r == Append(q, b)
             m == [snt EXCEPT ![b] = k]
  <1>1. /\ Len(r) = Len(q) + 1 /\ Len(q) \in Nat /\ r[Len(q) + 1] = b
        /\ \A i \in 1..Len(q) : r[i] = q[i]
    BY AppendProperties
  <1>2. /\ Len(u) = Len(s) + 1 /\ Len(s) \in Nat /\ u[Len(s) + 1] = b
        /\ \A i \in 1..Len(s) : u[i] = s[i]
    BY AppendProperties
  <1>3. m[b] = k /\ \A a \in Bufs : a # b => m[a] = snt[a]
    OBVIOUS
  <1> HIDE DEF u, r, m
  <1>4. Len(s) <= Len(q)
    BY DEF Suffix
  <1>5. ASSUME NEW i \in 1..Len(u)
        PROVE  /\ u[i] = r[Len(r) - Len(u) + i]
               /\ i >= 2 => m[u[i]] = 0
    <2>1. CASE i = Len(s) + 1
      <3>1. Len(r) - Len(u) + i = Len(q) + 1
        BY <1>1, <1>2, <2>1
      <3>2. u[i] = b
        BY <1>2, <2>1
      <3>3. i >= 2 => s # <<>>
        BY <1>2, <2>1
      <3>4. i >= 2 => k = 0
        BY <3>3
      <3>5. QED
        BY <1>1, <1>3, <3>1, <3>2, <3>4
    <2>2. CASE i # Len(s) + 1
      <3>1. i \in 1..Len(s)
        BY <1>2, <2>2
      <3>2. Len(q) - Len(s) + i \in 1..Len(q) /\ s[i] = q[Len(q) - Len(s) + i] /\ In(s[i], q)
        BY <3>1, SuffixMembers
      <3>3. Len(r) - Len(u) + i = Len(q) - Len(s) + i
        BY <1>1, <1>2, <3>1
      <3>4. r[Len(q) - Len(s) + i] = q[Len(q) - Len(s) + i]
        BY <1>1, <3>2
      <3>5. u[i] = s[i] /\ s[i] \in Bufs
        BY <1>2, <3>1, ElementOfSeq
      <3>6. s[i] # b
        BY <3>2
      <3>7. ASSUME i >= 2 PROVE snt[s[i]] = 0
        <4>1. i \in 2..Len(s)
          BY <1>2, <3>1, <3>7
        <4>2. QED
          BY <4>1 DEF Waiting
      <3>8. QED
        BY <1>3, <3>2, <3>3, <3>4, <3>5, <3>6, <3>7
    <2>3. QED
      BY <2>1, <2>2
  <1>6. Suffix(u, r)
    BY <1>1, <1>2, <1>4, <1>5 DEF Suffix
  <1>7. Waiting(u, m)
    <2>1. \A i \in 2..Len(u) : i \in 1..Len(u) /\ i >= 2
      BY <1>2
    <2>2. QED
      BY <1>5, <2>1 DEF Waiting
  <1>8. QED
    BY <1>6, <1>7 DEF u, r, m

LEMMA SentAtOnce ==
  ASSUME NEW q \in Seq(Bufs), NEW s \in Seq(Bufs), Suffix(s, q),
         NEW snt \in [Bufs -> Nat], NEW w \in Stream, InOrder(w, q), Chain(q, s, w, snt),
         NEW b \in Bufs, ~In(b, q), NEW k \in Nat, k > 0 => s = <<>>
  PROVE  /\ w \o Units(b, 0, k) \in Stream
         /\ InOrder(w \o Units(b, 0, k), Append(q, b))
         /\ Chain(Append(q, b), Append(s, b), w \o Units(b, 0, k), [snt EXCEPT ![b] = k])
  <1> DEFINE u == Append(s, b)
             r == Append(q, b)
             m == [snt EXCEPT ![b] = k]
             v == w \o Units(b, 0, k)
  <1>1. /\ r \in Seq(Bufs) /\ Len(r) = Len(q) + 1 /\ Len(q) \in Nat /\ r[Len(q) + 1] = b
        /\ \A i \in 1..Len(q) : r[i] = q[i]
    BY AppendProperties
  <1>2. /\ Len(u) = Len(s) + 1 /\ Len(s) \in Nat /\ u[Len(s) + 1] = b /\ u # <<>>
        /\ \A i \in 1..Len(s) : u[i] = s[i]
    <2>1. /\ Len(u) = Len(s) + 1 /\ Len(s) \in Nat /\ u[Len(s) + 1] = b
          /\ \A i \in 1..Len(s) : u[i] = s[i]
      BY AppendProperties
    <2> HIDE DEF u
    <2>2. Len(u) # 0
      BY <2>1
    <2>3. QED
      BY <2>1, <2>2, EmptySeq
  <1>3. m[b] = k /\ \A a \in Bufs : a # b => m[a] = snt[a]
    OBVIOUS
  <1>4. InOrder(w, r)
    BY LongerInOrder
  <1>5. Len(s) <= Len(q)
    BY DEF Suffix
  <1>6. ASSUME NEW g \in 0..Len(q), UpTo(w, q, g) PROVE UpTo(w, r, g)
    <2>1. g # 0 => g \in 1..Len(q)
      BY <1>1
    <2>2. g # 0 => r[g] = q[g]
      BY <1>1, <2>1
    <2>3. QED
      BY <1>6, <2>2 DEF UpTo
  <1> HIDE DEF u, r, m
  <1>7. CASE s = <<>>
    <2>1. Len(s) = 0 /\ Len(q) - Len(s) = Len(q) /\ u[1] = b /\ Len(r) - Len(u) = Len(q)
      BY <1>1, <1>2, <1>7
    <2>2. UpTo(w, q, Len(q))
      BY <1>7, <2>1 DEF Chain
    <2>3. UpTo(w, r, Len(q))
      BY <1>1, <1>6, <2>2
    <2>4. Len(q) + 1 \in 1..Len(r) /\ (Len(q) + 1) - 1 = Len(q) /\ 0 \in Nat /\ ~(0 > 0)
      BY <1>1
    <2>5. Reached(w, r, b, 0)
      <3> DEFINE p == Len(q) + 1
      <3>1. p \in 1..Len(r) /\ r[p] = b /\ UpTo(w, r, p - 1)
        BY <1>1, <2>3, <2>4
      <3>2. QED
        BY <2>4, <3>1 DEF Reached
    <2>6. /\ v \in Stream /\ InOrder(v, r)
          /\ k > 0 => Ends(v, b, k)
          /\ k = 0 => v = w
      <3>1. r \in Seq(Bufs)
        BY <1>1
      <3>2. QED
        BY <1>4, <2>5, <3>1, BeginInOrder, SMTT(30)
    <2> HIDE DEF v
    <2>10. m[u[1]] = k
      BY <1>3, <2>1
    <2>7. CASE k > 0
      <3>1. Ends(v, u[1], m[u[1]]) /\ m[u[1]] > 0
        BY <2>1, <2>6, <2>7, <2>10
      <3>2. Chain(r, u, v, m)
        BY <1>2, <3>1 DEF Chain
      <3>3. QED
        BY <2>6, <3>2 DEF u, r, m, v
    <2>8. CASE k = 0
      <3>1. UpTo(v, r, Len(r) - Len(u)) /\ ~(m[u[1]] > 0)
        BY <2>1, <2>3, <2>6, <2>8, <2>10
      <3>2. Chain(r, u, v, m)
        BY <3>1 DEF Chain
      <3>3. QED
        BY <2>6, <3>2 DEF u, r, m, v
    <2>9. QED
      BY <2>7, <2>8
  <1>8. CASE s # <<>>
    <2>1. k = 0
      BY <1>8
    <2>2. v = w
      <3>1. Units(b, 0, 0) \in Stream /\ Len(Units(b, 0, 0)) = 0
        BY UnitsProperties
      <3>2. Units(b, 0, 0) = <<>>
        BY <3>1 DEF Stream
      <3>3. QED
        BY <2>1, <3>2, ConcatEmptySeq DEF Stream
    <2>3. 1 \in 1..Len(s) /\ u[1] = s[1] /\ s[1] \in Bufs
      <3>1. 1 \in 1..Len(s)
        BY <1>2, <1>8
      <3>2. QED
        BY <1>2, <3>1, ElementOfSeq
    <2>4. m[u[1]] = snt[s[1]]
      <3>1. In(s[1], q)
        BY <2>3, SuffixMembers
      <3>2. QED
        BY <1>3, <2>3, <3>1
    <2>5. Len(r) - Len(u) = Len(q) - Len(s) /\ Len(q) - Len(s) \in 0..Len(q)
      BY <1>1, <1>2, <1>5
    <2> HIDE DEF v
    <2>6. Chain(r, u, w, m)
      BY <1>2, <1>6, <1>8, <2>3, <2>4, <2>5 DEF Chain
    <2>7. QED
      BY <1>4, <2>2, <2>6 DEF u, r, m, v
  <1>9. QED
    BY <1>7, <1>8

\* The head of the queue is sent from where it was left to where the kernel stops.
LEMMA SentOn ==
  ASSUME NEW q \in Seq(Bufs), NEW s \in Seq(Bufs), Suffix(s, q), OnceEach(q), s # <<>>,
         NEW snt \in [Bufs -> Nat], Waiting(s, snt),
         NEW w \in Stream, InOrder(w, q), Chain(q, s, w, snt),
         NEW k \in Nat, NEW n \in Nat, n = snt[Head(s)]
  PROVE  LET b == Head(s)
             v == w \o Units(b, n, k)
             m == [snt EXCEPT ![b] = n + k]
         IN  /\ v \in Stream /\ InOrder(v, q)
             /\ Waiting(s, m) /\ Chain(q, s, v, m)
             /\ n + k = Size[b] => Waiting(Tail(s), m) /\ Chain(q, Tail(s), v, m)
  <1> DEFINE b == Head(s)
             v == w \o Units(b, n, k)
             m == [snt EXCEPT ![b] = n + k]
             g == Len(q) - Len(s)
  <1>1. Len(s) \in Nat /\ Len(q) \in Nat /\ Len(s) <= Len(q) /\ Len(s) >= 1
    <2>1. Len(s) \in Nat \ {0} /\ Len(q) \in Nat
      BY EmptySeq
    <2>2. Len(s) <= Len(q)
      BY DEF Suffix
    <2>3. QED
      BY <2>1, <2>2
  <1>2. b = s[1] /\ b \in Bufs /\ 1 \in 1..Len(s)
    BY <1>1, ElementOfSeq
  <1>3. g + 1 \in 1..Len(q) /\ s[1] = q[g + 1]
    BY <1>2, SuffixMembers
  <1>4. m[b] = n + k /\ m \in [Bufs -> Nat] /\ \A a \in Bufs : a # b => m[a] = snt[a]
    <2> DEFINE x == n + k
    <2>1. x \in Nat /\ m = [snt EXCEPT ![b] = x]
      OBVIOUS
    <2> HIDE DEF b, m, x
    <2>2. m[b] = x /\ m \in [Bufs -> Nat] /\ \A a \in Bufs : a # b => m[a] = snt[a]
      BY <1>2, <2>1
    <2>3. QED
      BY <2>2 DEF x
  <1>5. (g + 1) - 1 = g /\ g \in Nat
    BY <1>1
  <1>6. IF n > 0 THEN Ends(w, b, n) ELSE UpTo(w, q, (g + 1) - 1)
    <2>1. s # <<>> /\ snt[s[1]] = n
      BY <1>2
    <2>2. QED
      BY <1>2, <1>5, <2>1 DEF Chain
  <1>7. /\ v \in Stream /\ InOrder(v, q)
        /\ k > 0 => Ends(v, b, n + k)
        /\ k = 0 => v = w
    <2>1. Reached(w, q, b, n)
      <3>1. n = 0 => UpTo(w, q, (g + 1) - 1)
        BY <1>6
      <3>2. n > 0 => Ends(w, b, n)
        BY <1>6
      <3> HIDE DEF b, g
      <3>3. q[g + 1] = b
        BY <1>2, <1>3
      <3>4. QED
        BY <1>3, <3>1, <3>2, <3>3 DEF Reached
    <2> HIDE DEF b
    <2>2. v = w \o Units(b, n, k)
      OBVIOUS
    <2> HIDE DEF v
    <2>3. b \in Bufs
      BY <1>2
    <2>4. QED
      BY <2>1, <2>2, <2>3, GrowInOrder, SMTT(30)
  <1> HIDE DEF v, m, b
  <1>8. n + k > 0 => Ends(v, b, n + k)
    <2>1. CASE k > 0
      BY <1>7, <2>1
    <2>2. CASE k = 0
      BY <1>6, <1>7, <2>2
    <2>3. QED
      BY <2>1, <2>2
  <1>9. Chain(q, s, v, m)
    <2>1. CASE n + k > 0
      BY <1>2, <1>4, <1>8, <2>1 DEF Chain
    <2>2. CASE ~(n + k > 0)
      <3>1. n = 0 /\ k = 0 /\ v = w
        BY <1>7, <2>2
      <3>2. UpTo(v, q, g) /\ ~(m[s[1]] > 0)
        BY <1>2, <1>4, <1>5, <1>6, <3>1
      <3>3. QED
        BY <3>2 DEF Chain
    <2>3. QED
      BY <2>1, <2>2
  <1>10. Waiting(s, m)
    <2>1. ASSUME NEW i \in 2..Len(s) PROVE m[s[i]] = 0
      <3>1. i \in 1..Len(s) /\ i # 1
        BY <1>1
      <3>2. s[i] \in Bufs /\ s[i] # b
        BY <1>2, <3>1, SuffixOnce, ElementOfSeq
      <3>3. snt[s[i]] = 0
        BY DEF Waiting
      <3>4. QED
        BY <1>4, <3>2, <3>3
    <2>2. QED
      BY <2>1 DEF Waiting
  <1>11. ASSUME n + k = Size[b] PROVE Waiting(Tail(s), m) /\ Chain(q, Tail(s), v, m)
    <2>1. /\ Len(Tail(s)) = Len(s) - 1 /\ Waiting(Tail(s), m)
          /\ Tail(s) # <<>> => m[Tail(s)[1]] = 0
      BY <1>4, <1>10, TailSuffix
    <2> DEFINE t == Tail(s)
    <2> HIDE DEF t
    <2>2. Len(q) - Len(t) = g + 1 /\ g + 1 # 0
      <3>1. Len(t) = Len(s) - 1
        BY <2>1 DEF t
      <3> HIDE DEF g
      <3>2. g = Len(q) - Len(s) /\ Len(s) \in Nat /\ Len(q) \in Nat /\ g \in Nat
        BY <1>1, <1>5 DEF g
      <3>3. Len(q) - Len(t) = g + 1
        BY <3>1, <3>2
      <3>4. QED
        BY <3>2, <3>3
    <2>3. Ends(v, q[g + 1], Size[q[g + 1]])
      <3>1. n + k > 0
        BY <1>2, <1>11, BufferType
      <3>2. QED
        BY <1>2, <1>3, <1>8, <1>11, <3>1
    <2>4. UpTo(v, q, Len(q) - Len(t))
      BY <2>2, <2>3 DEF UpTo
    <2>5. t # <<>> => m[t[1]] = 0
      BY <2>1 DEF t
    <2>6. Chain(q, t, v, m)
      BY <2>4, <2>5 DEF Chain
    <2>7. QED
      BY <2>1, <2>6 DEF t
  <1>12. QED
    BY <1>7, <1>9, <1>10, <1>11 DEF v, m, b

-----------------------------------------------------------------------------
(* Connections.                                                              *)

\* What a step can do to a connection: it is listed with an open socket, it comes to
\* an end for good, and a dead socket stays dead.
Ended == {"listed", "closed", "destroyed"}
ConnStep(c) ==
    /\ phase[c] \in Ended => phase'[c] \in Ended
    /\ phase[c] \in {"closed", "destroyed"} => phase'[c] \in {"closed", "destroyed"}
    /\ soc'[c] => soc[c] \/ phase[c] = "pending"
    /\ phase'[c] = "listed" => soc'[c] \/ (phase[c] = "listed" /\ soc'[c] = soc[c])
    /\ Dead(c) => Dead(c)'

\* Nothing of a connection that ConnStep speaks of.
Untouched(c) == phase'[c] = phase[c] /\ soc'[c] = soc[c] /\ (Dead(c) => Dead(c)')

LEMMA UntouchedStep == \A c \in Conns : Untouched(c) => ConnStep(c)
  BY DEF Untouched, ConnStep

LEMMA ClosedStep ==
  ASSUME ConnsOK, NEW c \in Conns, CloseCtx(c), UNCHANGED <<shut, broken>>
  PROVE  \A d \in Conns : ConnStep(d)
  <1>1. /\ phase'[c] = "closed" /\ ~soc'[c]
        /\ \A d \in Conns : d # c => phase'[d] = phase[d] /\ soc'[d] = soc[d]
    BY DEF CloseCtx, ConnsOK
  <1>2. \A d \in Conns : Dead(d)' <=> Dead(d)
    BY DEF Dead
  <1>3. QED
    BY <1>1, <1>2 DEF ConnStep, Ended

LEMMA ShutStep ==
  ASSUME ConnsOK, NEW c \in Conns, CloseConnection(c), UNCHANGED <<phase, broken>>
  PROVE  \A d \in Conns : ConnStep(d)
  <1>1. soc' = soc /\ \A d \in Conns : shut[d] => shut'[d]
    BY DEF CloseConnection, ConnsOK
  <1>2. \A d \in Conns : Untouched(d)
    BY <1>1 DEF Untouched, Dead
  <1>3. QED
    BY <1>2, UntouchedStep

LEMMA StillStep ==
  ASSUME UNCHANGED <<phase, soc, shut, broken>>
  PROVE  \A d \in Conns : ConnStep(d)
  <1>1. \A d \in Conns : Untouched(d)
    BY DEF Untouched, Dead
  <1>2. QED
    BY <1>1, UntouchedStep

LEMMA EveryConnStep == TypeOK /\ [Next]_vars => \A c \in Conns : ConnStep(c)
  <1> SUFFICES ASSUME TypeOK, [Next]_vars PROVE \A c \in Conns : ConnStep(c)
    OBVIOUS
  <1> DEFINE Steps == \A c \in Conns : ConnStep(c)
  <1> SUFFICES Steps
    OBVIOUS
  <1>0. ConnsOK /\ ThreadOK
    BY DEF TypeOK
  <1> USE DEF NetFrame, peer, flags, life, net
  <1> HIDE DEF Steps
  <1>1. ASSUME LoopTop PROVE Steps
    BY <1>1, StillStep DEF LoopTop, out, Steps
  <1>2. ASSUME ScanConn PROVE Steps
    <2> DEFINE c == Head(todo)
    <2>1. c \in Conns
      BY <1>2, <1>0, HeadOfTodo DEF ScanConn, ThreadOK
    <2>2. \/ CloseCtx(c) /\ UNCHANGED <<shut, broken>>
          \/ UNCHANGED <<phase, soc, shut, broken>>
      BY <1>2 DEF ScanConn
    <2>3. QED
      BY <1>0, <2>1, <2>2, ClosedStep, StillStep DEF Steps
  <1>3. ASSUME ScanEnd PROVE Steps
    BY <1>3, StillStep DEF ScanEnd, out, Steps
  <1>4. ASSUME Poll PROVE Steps
    BY <1>4, StillStep DEF Poll, out, Steps
  <1>5. ASSUME HandleEventAccept PROVE Steps
    <2>1. UNCHANGED <<shut, broken>>
      BY <1>5 DEF HandleEventAccept
    <2>2. \A d \in Conns : Dead(d) => Dead(d)'
      BY <2>1 DEF Dead
    <2>3. CASE UNCHANGED <<phase, soc>>
      BY <2>1, <2>3, StillStep DEF Steps
    <2>4. ASSUME NEW c \in Conns, phase[c] = "pending", soc' = soc,
                 phase' = [phase EXCEPT ![c] = "refused"]
          PROVE  Steps
      BY <1>0, <2>2, <2>4 DEF ConnStep, ConnsOK, Ended, Steps
    <2>5. ASSUME NEW c \in Conns, phase[c] = "pending", soc' = [soc EXCEPT ![c] = TRUE],
                 phase' = [phase EXCEPT ![c] = "listed"]
          PROVE  Steps
      BY <1>0, <2>2, <2>5 DEF ConnStep, ConnsOK, Ended, Steps
    <2>6. QED
      BY <1>5, <2>3, <2>4, <2>5 DEF HandleEventAccept
  <1>6. ASSUME NextConn PROVE Steps
    <2> DEFINE c == Head(polled).c
    <2>1. c \in Conns
      BY <1>6, <1>0, HeadOfWalk DEF NextConn, ThreadOK
    <2>2. \/ CloseCtx(c) /\ UNCHANGED <<shut, broken>>
          \/ UNCHANGED <<phase, soc, shut, broken>>
      BY <1>6 DEF NextConn
    <2>3. QED
      BY <1>0, <2>1, <2>2, ClosedStep, StillStep DEF Steps
  <1>7. ASSUME HandleEventRead PROVE Steps
    <2> DEFINE c == Head(polled).c
    <2>1. c \in Conns
      BY <1>7, <1>0, HeadOfWalk DEF HandleEventRead, ThreadOK
    <2>2. \/ CloseConnection(c) /\ UNCHANGED <<phase, broken>>
          \/ UNCHANGED <<phase, soc, shut, broken>>
      BY <1>7 DEF HandleEventRead
    <2>3. QED
      BY <1>0, <2>1, <2>2, ShutStep, StillStep DEF Steps
  <1>8. ASSUME HandleReadEnd PROVE Steps
    <2> DEFINE c == Head(polled).c
    <2>1. c \in Conns
      BY <1>8, <1>0, HeadOfWalk DEF HandleReadEnd, ThreadOK
    <2>2. \/ CloseCtx(c) /\ UNCHANGED <<shut, broken>>
          \/ UNCHANGED <<phase, soc, shut, broken>>
      BY <1>8 DEF HandleReadEnd
    <2>3. QED
      BY <1>0, <2>1, <2>2, ClosedStep, StillStep DEF Steps
  <1>9. ASSUME HandleHup PROVE Steps
    <2> DEFINE c == Head(polled).c
    <2>1. c \in Conns
      BY <1>9, <1>0, HeadOfWalk DEF HandleHup, ThreadOK
    <2>2. \/ CloseCtx(c) /\ UNCHANGED <<shut, broken>>
          \/ UNCHANGED <<phase, soc, shut, broken>>
      BY <1>9 DEF HandleHup
    <2>3. QED
      BY <1>0, <2>1, <2>2, ClosedStep, StillStep DEF Steps
  <1>10. ASSUME HandleEventWrite PROVE Steps
    BY <1>10, StillStep DEF HandleEventWrite, out, Steps
  <1>11. ASSUME EventsDone PROVE Steps
    BY <1>11, StillStep DEF EventsDone, out, Steps
  <1>12. ASSUME WriteEmpty PROVE Steps
    BY <1>12, StillStep DEF WriteEmpty, out, Steps
  <1>13. ASSUME WriteBuffer PROVE Steps
    <2> DEFINE c == Head(polled).c
    <2>1. c \in Conns
      BY <1>13, <1>0, HeadOfWalk DEF WriteBuffer, ThreadOK
    <2>2. \/ CloseConnection(c) /\ UNCHANGED <<phase, broken>>
          \/ UNCHANGED <<phase, soc, shut, broken>>
      BY <1>13 DEF WriteBuffer
    <2>3. QED
      BY <1>0, <2>1, <2>2, ShutStep, StillStep DEF Steps
  <1>14. ASSUME WriteError PROVE Steps
    <2> DEFINE c == Head(polled).c
    <2>1. c \in Conns
      BY <1>14, <1>0, HeadOfWalk DEF WriteError, ThreadOK
    <2>2. \/ CloseCtx(c) /\ UNCHANGED <<shut, broken>>
          \/ UNCHANGED <<phase, soc, shut, broken>>
      BY <1>14 DEF WriteError
    <2>3. QED
      BY <1>0, <2>1, <2>2, ClosedStep, StillStep DEF Steps
  <1>15. ASSUME ConnsDone PROVE Steps
    BY <1>15, StillStep DEF ConnsDone, out, Steps
  <1>16. ASSUME MoveActive PROVE Steps
    BY <1>16, StillStep DEF MoveActive, out, Steps
  <1>17. ASSUME MoveEnd PROVE Steps
    BY <1>17, StillStep DEF MoveEnd, out, Steps
  <1>18. ASSUME TimeoutBegin PROVE Steps
    BY <1>18, StillStep DEF TimeoutBegin, out, Steps
  <1>19. ASSUME ExpireConn PROVE Steps
    <2> DEFINE c == Head(todo)
    <2>1. c \in Conns
      BY <1>19, <1>0, HeadOfTodo DEF ExpireConn, ThreadOK
    <2>2. \/ /\ phase' = [phase EXCEPT ![c] = "closed"] /\ shut' = [shut EXCEPT ![c] = @ \/ soc[c]]
             /\ UNCHANGED <<soc, broken>>
          \/ UNCHANGED <<phase, soc, shut, broken>>
      BY <1>19 DEF ExpireConn
    <2> HIDE DEF c
    <2>3. ASSUME phase' = [phase EXCEPT ![c] = "closed"], shut' = [shut EXCEPT ![c] = @ \/ soc[c]],
                 UNCHANGED <<soc, broken>>
          PROVE  Steps
      <3>1. \A d \in Conns : phase'[d] = IF d = c THEN "closed" ELSE phase[d]
        BY <1>0, <2>1, <2>3 DEF ConnsOK
      <3>2. \A d \in Conns : shut[d] => shut'[d]
        BY <1>0, <2>1, <2>3 DEF ConnsOK
      <3>3. QED
        BY <2>3, <3>1, <3>2 DEF ConnStep, Ended, Dead, Steps
    <2>4. QED
      BY <2>2, <2>3, StillStep DEF Steps
  <1>20. ASSUME ExpireEnd PROVE Steps
    BY <1>20, StillStep DEF ExpireEnd, out, Steps
  <1>21. ASSUME FinalClose PROVE Steps
    <2> DEFINE c == Head(todo)
    <2>1. c \in Conns
      BY <1>21, <1>0, HeadOfTodo DEF FinalClose, ThreadOK
    <2>2. \/ CloseCtx(c) /\ UNCHANGED <<shut, broken>>
          \/ UNCHANGED <<phase, soc, shut, broken>>
      BY <1>21 DEF FinalClose
    <2>3. QED
      BY <1>0, <2>1, <2>2, ClosedStep, StillStep DEF Steps
  <1>22. ASSUME FinalEnd PROVE Steps
    BY <1>22, StillStep DEF FinalEnd, out, Steps
  <1>23. ASSUME NEW b \in Bufs, SendCheck(b) PROVE Steps
    BY <1>23, StillStep DEF SendCheck, out, Steps
  <1>24. ASSUME NEW b \in Bufs, SendQueue(b) PROVE Steps
    BY <1>24, StillStep DEF SendQueue, out, Steps
  <1>25. ASSUME NEW b \in Bufs, SendFail(b) PROVE Steps
    <2>1. Target[b] \in Conns /\ CloseConnection(Target[b]) /\ UNCHANGED <<phase, broken>>
      BY <1>25, BufferType DEF SendFail
    <2>2. QED
      BY <1>0, <2>1, ShutStep DEF Steps
  <1>26. ASSUME NEW b \in Bufs, CallerRelease(b) PROVE Steps
    BY <1>26, StillStep DEF CallerRelease, out, Steps
  <1>27. ASSUME NEW b \in Bufs, SendActive(b) PROVE Steps
    BY <1>27, StillStep DEF SendActive, out, Steps
  <1>28. ASSUME NEW b \in Bufs, SendMove(b) PROVE Steps
    BY <1>28, StillStep DEF SendMove, out, Steps
  <1>29. ASSUME NEW c \in Conns, AppClose(c) PROVE Steps
    BY <1>0, <1>29, ShutStep DEF AppClose, Steps
  <1>30. ASSUME NEW c \in Conns, Destroy(c) PROVE Steps
    <2>1. phase[c] = "closed" /\ UNCHANGED <<shut, broken>>
      BY <1>30 DEF Destroy
    <2>2. \A d \in Conns : /\ phase'[d] = IF d = c THEN "destroyed" ELSE phase[d]
                           /\ soc'[d] = IF d = c THEN FALSE ELSE soc[d]
      BY <1>30, <1>0 DEF Destroy, ConnsOK
    <2>3. QED
      BY <2>1, <2>2 DEF ConnStep, Ended, Dead, Steps
  <1>31. ASSUME NEW c \in Conns, PeerConnect(c) PROVE Steps
    <2>1. phase[c] = "none" /\ UNCHANGED <<soc, shut, broken>>
      BY <1>31 DEF PeerConnect
    <2>2. \A d \in Conns : phase'[d] = IF d = c THEN "pending" ELSE phase[d]
      BY <1>31, <1>0 DEF PeerConnect, ConnsOK
    <2>3. QED
      BY <2>1, <2>2 DEF ConnStep, Ended, Dead, Steps
  <1>32. ASSUME NEW c \in Conns, PeerSend(c) PROVE Steps
    BY <1>32, StillStep DEF PeerSend, out, Steps
  <1>33. ASSUME NEW c \in Conns, PeerGone(c) PROVE Steps
    <2>1. UNCHANGED <<phase, soc, shut>> /\ \A d \in Conns : broken[d] => broken'[d]
      BY <1>33, <1>0 DEF PeerGone, ConnsOK
    <2>2. \A d \in Conns : Untouched(d)
      BY <2>1 DEF Untouched, Dead
    <2>3. QED
      BY <2>2, UntouchedStep DEF Steps
  <1>34. ASSUME Tick PROVE Steps
    BY <1>34, StillStep DEF Tick, out, Steps
  <1>35. ASSUME ShutdownBegin PROVE Steps
    BY <1>35, StillStep DEF ShutdownBegin, out, Steps
  <1>36. ASSUME CloseAllConnections PROVE Steps
    <2>1. UNCHANGED <<phase, soc, broken>> /\ \A d \in Conns : shut[d] => shut'[d]
      BY <1>36 DEF CloseAllConnections
    <2>2. \A d \in Conns : Untouched(d)
      BY <2>1 DEF Untouched, Dead
    <2>3. QED
      BY <2>2, UntouchedStep DEF Steps
  <1>37. ASSUME Join PROVE Steps
    BY <1>37, StillStep DEF Join, out, Steps
  <1>38. CASE UNCHANGED vars
    BY <1>38, StillStep DEF vars, Steps
  <1>39. QED
    BY <1>1, <1>2, <1>3, <1>4, <1>5, <1>6, <1>7, <1>8, <1>9, <1>10, <1>11, <1>12,
       <1>13, <1>14, <1>15, <1>16, <1>17, <1>18, <1>19, <1>20, <1>21, <1>22, <1>23,
       <1>24, <1>25, <1>26, <1>27, <1>28, <1>29, <1>30, <1>31, <1>32, <1>33, <1>34,
       <1>35, <1>36, <1>37, <1>38 DEF Next, ThreadWorker, Sender

\* What a step can do to a buffer: it is sent only on a connection that was accepted,
\* and once.
BufStep(b) ==
    /\ spc'[b] # "new" => spc[b] # "new" \/ phase[Target[b]] \in Ended
    /\ spc'[b] \in {"new", "checked"} => spc[b] \in {"new", "checked"}

LEMMA MovedBuffer ==
  ASSUME SendsOK, NEW b \in Bufs, NEW s,
         spc' = [spc EXCEPT ![b] = s], s \notin {"new", "checked"}, spc[b] # "new"
  PROVE  \A a \in Bufs : BufStep(a)
  <1>1. \A a \in Bufs : spc'[a] = IF a = b THEN s ELSE spc[a]
    BY DEF SendsOK
  <1>2. QED
    BY <1>1 DEF BufStep

LEMMA EveryBufStep == TypeOK /\ [Next]_vars => \A b \in Bufs : BufStep(b)
  <1> SUFFICES ASSUME TypeOK, [Next]_vars PROVE \A b \in Bufs : BufStep(b)
    OBVIOUS
  <1> DEFINE Steps == \A b \in Bufs : BufStep(b)
  <1> SUFFICES Steps
    OBVIOUS
  <1>0. SendsOK
    BY DEF TypeOK
  <1>a. UNCHANGED spc => Steps
    BY DEF BufStep
  <1> USE DEF NetFrame
  <1> HIDE DEF Steps
  <1>1. ASSUME LoopTop PROVE Steps
    BY <1>1, <1>a DEF LoopTop
  <1>2. ASSUME ScanConn PROVE Steps
    BY <1>2, <1>a DEF ScanConn
  <1>3. ASSUME ScanEnd PROVE Steps
    BY <1>3, <1>a DEF ScanEnd
  <1>4. ASSUME Poll PROVE Steps
    BY <1>4, <1>a DEF Poll
  <1>5. ASSUME HandleEventAccept PROVE Steps
    BY <1>5, <1>a DEF HandleEventAccept
  <1>6. ASSUME NextConn PROVE Steps
    BY <1>6, <1>a DEF NextConn
  <1>7. ASSUME HandleEventRead PROVE Steps
    BY <1>7, <1>a DEF HandleEventRead
  <1>8. ASSUME HandleReadEnd PROVE Steps
    BY <1>8, <1>a DEF HandleReadEnd
  <1>9. ASSUME HandleHup PROVE Steps
    BY <1>9, <1>a DEF HandleHup
  <1>10. ASSUME HandleEventWrite PROVE Steps
    BY <1>10, <1>a DEF HandleEventWrite
  <1>11. ASSUME EventsDone PROVE Steps
    BY <1>11, <1>a DEF EventsDone
  <1>12. ASSUME WriteEmpty PROVE Steps
    BY <1>12, <1>a DEF WriteEmpty
  <1>13. ASSUME WriteBuffer PROVE Steps
    BY <1>13, <1>a DEF WriteBuffer
  <1>14. ASSUME WriteError PROVE Steps
    BY <1>14, <1>a DEF WriteError
  <1>15. ASSUME ConnsDone PROVE Steps
    BY <1>15, <1>a DEF ConnsDone
  <1>16. ASSUME MoveActive PROVE Steps
    BY <1>16, <1>a DEF MoveActive
  <1>17. ASSUME MoveEnd PROVE Steps
    BY <1>17, <1>a DEF MoveEnd
  <1>18. ASSUME TimeoutBegin PROVE Steps
    BY <1>18, <1>a DEF TimeoutBegin
  <1>19. ASSUME ExpireConn PROVE Steps
    BY <1>19, <1>a DEF ExpireConn
  <1>20. ASSUME ExpireEnd PROVE Steps
    BY <1>20, <1>a DEF ExpireEnd
  <1>21. ASSUME FinalClose PROVE Steps
    BY <1>21, <1>a DEF FinalClose
  <1>22. ASSUME FinalEnd PROVE Steps
    BY <1>22, <1>a DEF FinalEnd
  <1>23. ASSUME NEW b \in Bufs, SendCheck(b) PROVE Steps
    <2>1. spc[b] = "new" /\ phase[Target[b]] \in {"listed", "closed"}
      BY <1>23 DEF SendCheck
    <2>2. \E s \in {"rejected", "checked"} : spc' = [spc EXCEPT ![b] = s]
      BY <1>23 DEF SendCheck
    <2>3. \E s \in {"rejected", "checked"} : \A a \in Bufs : spc'[a] = IF a = b THEN s ELSE spc[a]
      BY <1>0, <2>2 DEF SendsOK
    <2>4. QED
      BY <2>1, <2>3 DEF BufStep, Ended, Steps
  <1>24. ASSUME NEW b \in Bufs, SendQueue(b) PROVE Steps
    <2>1. spc[b] = "checked"
      BY <1>24 DEF SendQueue
    <2>2. \E s \in {"rejected", "accepted", "failed", "active"} : spc' = [spc EXCEPT ![b] = s]
      BY <1>24 DEF SendQueue
    <2>3. QED
      BY <1>0, <2>1, <2>2, MovedBuffer DEF Steps
  <1>25. ASSUME NEW b \in Bufs, SendFail(b) PROVE Steps
    <2>1. \E s : s \notin {"new", "checked"} /\ spc' = [spc EXCEPT ![b] = s] /\ spc[b] # "new"
      BY <1>25 DEF SendFail
    <2>2. QED
      BY <1>0, <2>1, MovedBuffer DEF Steps
  <1>26. ASSUME NEW b \in Bufs, CallerRelease(b) PROVE Steps
    <2>1. \E s : s \notin {"new", "checked"} /\ spc' = [spc EXCEPT ![b] = s] /\ spc[b] # "new"
      BY <1>26 DEF CallerRelease
    <2>2. QED
      BY <1>0, <2>1, MovedBuffer DEF Steps
  <1>27. ASSUME NEW b \in Bufs, SendActive(b) PROVE Steps
    <2>1. \E s : s \notin {"new", "checked"} /\ spc' = [spc EXCEPT ![b] = s] /\ spc[b] # "new"
      BY <1>27 DEF SendActive
    <2>2. QED
      BY <1>0, <2>1, MovedBuffer DEF Steps
  <1>28. ASSUME NEW b \in Bufs, SendMove(b) PROVE Steps
    <2>1. \E s : s \notin {"new", "checked"} /\ spc' = [spc EXCEPT ![b] = s] /\ spc[b] # "new"
      BY <1>28 DEF SendMove
    <2>2. QED
      BY <1>0, <2>1, MovedBuffer DEF Steps
  <1>29. ASSUME NEW c \in Conns, AppClose(c) PROVE Steps
    BY <1>29, <1>a DEF AppClose
  <1>30. ASSUME NEW c \in Conns, Destroy(c) PROVE Steps
    BY <1>30, <1>a DEF Destroy
  <1>31. ASSUME NEW c \in Conns, PeerConnect(c) PROVE Steps
    BY <1>31, <1>a DEF PeerConnect
  <1>32. ASSUME NEW c \in Conns, PeerSend(c) PROVE Steps
    BY <1>32, <1>a DEF PeerSend
  <1>33. ASSUME NEW c \in Conns, PeerGone(c) PROVE Steps
    BY <1>33, <1>a DEF PeerGone
  <1>34. ASSUME Tick PROVE Steps
    BY <1>34, <1>a DEF Tick
  <1>35. ASSUME ShutdownBegin PROVE Steps
    BY <1>35, <1>a DEF ShutdownBegin
  <1>36. ASSUME CloseAllConnections PROVE Steps
    BY <1>36, <1>a DEF CloseAllConnections
  <1>37. ASSUME Join PROVE Steps
    BY <1>37, <1>a DEF Join
  <1>38. CASE UNCHANGED vars
    BY <1>38, <1>a DEF vars
  <1>39. QED
    BY <1>1, <1>2, <1>3, <1>4, <1>5, <1>6, <1>7, <1>8, <1>9, <1>10, <1>11, <1>12,
       <1>13, <1>14, <1>15, <1>16, <1>17, <1>18, <1>19, <1>20, <1>21, <1>22, <1>23,
       <1>24, <1>25, <1>26, <1>27, <1>28, <1>29, <1>30, <1>31, <1>32, <1>33, <1>34,
       <1>35, <1>36, <1>37, <1>38 DEF Next, ThreadWorker, Sender

-----------------------------------------------------------------------------
(* The walks of the network thread.                                          *)

\* From the scan to the last event, the entries of pollfds are listed connections, each
\* there once.
Handling == {"scan", "poll", "accept", "conn", "events", "recv", "write"}
PolledListed ==
    npc \in Handling =>
        /\ \A i \in 1..Len(polled) : phase[polled[i].c] = "listed"
        /\ \A i, j \in 1..Len(polled) : polled[i].c = polled[j].c => i = j

\* So are the connections that the scan has before it, none of them in pollfds already.
ToScan ==
    npc = "scan" =>
        /\ OnceEach(todo)
        /\ \A i \in 1..Len(todo) : /\ phase[todo[i]] = "listed"
                                   /\ \A j \in 1..Len(polled) : polled[j].c # todo[i]

\* A listed connection has an open socket, and nothing is sent on one that was not accepted.
Opened ==
    /\ \A c \in Conns : phase[c] = "listed" => soc[c]
    /\ \A b \in Bufs : spc[b] # "new" => phase[Target[b]] \in Ended

WalkInv == PolledListed /\ ToScan /\ Opened

LEMMA OpenedStep == TypeOK /\ Opened /\ [Next]_vars => Opened'
  <1> SUFFICES ASSUME TypeOK, Opened, [Next]_vars PROVE Opened'
    OBVIOUS
  <1>1. /\ \A c \in Conns : ConnStep(c)
        /\ \A b \in Bufs : BufStep(b)
    BY EveryConnStep, EveryBufStep
  <1>2. ASSUME NEW c \in Conns, phase'[c] = "listed" PROVE soc'[c]
    BY <1>1, <1>2 DEF ConnStep, Opened
  <1>3. ASSUME NEW b \in Bufs, spc'[b] # "new" PROVE phase'[Target[b]] \in Ended
    BY <1>1, <1>3, BufferType DEF ConnStep, BufStep, Opened
  <1>4. QED
    BY <1>2, <1>3 DEF Opened

\* The entry at the head of pollfds is done with; its connection may have been removed.
LEMMA RestPolled ==
  ASSUME ConnsOK, ThreadOK, PolledListed, npc \in Handling, npc # "scan", npc' # "scan",
         polled # <<>>, polled' = Tail(polled),
         \A d \in Conns : d # Head(polled).c => phase'[d] = phase[d]
  PROVE  PolledListed' /\ ToScan'
  <1> DEFINE E == [c : Conns, events : SUBSET Events]
             t == Tail(polled)
  <1>1. polled \in Seq(E) /\ Len(polled) \in Nat \ {0}
    BY EmptySeq DEF ThreadOK
  <1> HIDE DEF E
  <1>2. Len(t) = Len(polled) - 1 /\ \A i \in 1..Len(t) : t[i] = polled[i + 1]
    BY <1>1, HeadTailProperties
  <1> HIDE DEF t
  <1>3. ASSUME NEW i \in 1..Len(t)
        PROVE  i + 1 \in 1..Len(polled) /\ t[i] = polled[i + 1] /\ phase'[t[i].c] = "listed"
    <2>1. i + 1 \in 1..Len(polled) /\ 1 \in 1..Len(polled) /\ i + 1 # 1
      BY <1>1, <1>2
    <2>2. polled[i + 1].c # polled[1].c /\ phase[polled[i + 1].c] = "listed"
      BY <2>1 DEF PolledListed
    <2>3. polled[i + 1] \in E
      BY <1>1, <2>1, ElementOfSeq
    <2>4. polled[i + 1].c \in Conns /\ Head(polled) = polled[1]
      BY <2>3 DEF E
    <2>5. phase'[polled[i + 1].c] = "listed"
      BY <2>2, <2>4
    <2>6. QED
      BY <1>2, <2>1, <2>5
  <1>4. ASSUME NEW i \in 1..Len(t), NEW j \in 1..Len(t), t[i].c = t[j].c PROVE i = j
    <2>1. polled[i + 1].c = polled[j + 1].c /\ i + 1 \in 1..Len(polled) /\ j + 1 \in 1..Len(polled)
      BY <1>3, <1>4
    <2>2. i + 1 = j + 1
      BY <2>1 DEF PolledListed
    <2>3. i \in Int /\ j \in Int
      OBVIOUS
    <2>4. QED
      BY <2>2, <2>3
  <1>5. polled' = t
    BY DEF t
  <1>6. QED
    BY <1>3, <1>4, <1>5 DEF PolledListed, ToScan

\* Those that the network thread walks over are connections.
LEMMA WalkMembers ==
  ASSUME ThreadOK
  PROVE  /\ \A i \in 1..Len(polled) : polled[i].c \in Conns
         /\ \A i \in 1..Len(todo) : todo[i] \in Conns
  <1> DEFINE E == [c : Conns, events : SUBSET Events]
  <1>1. polled \in Seq(E) /\ todo \in Seq(Conns)
    BY DEF ThreadOK
  <1>2. \A i \in 1..Len(polled) : polled[i] \in E
    BY <1>1, ElementOfSeq
  <1>3. QED
    BY <1>1, <1>2, ElementOfSeq

\* pollfds keeps its connections, and they stay listed.
LEMMA SamePolled ==
  ASSUME ThreadOK, PolledListed, npc' \notin Handling \/ (npc \in Handling /\ npc' # "scan"),
         Len(polled') = Len(polled),
         \A i \in 1..Len(polled) : polled'[i].c = polled[i].c,
         \A d \in Conns : phase[d] = "listed" => phase'[d] = "listed"
  PROVE  PolledListed' /\ ToScan'
  <1>1. \A i \in 1..Len(polled) : polled[i].c \in Conns
    BY WalkMembers
  <1>2. QED
    BY <1>1 DEF PolledListed, ToScan, Handling

LEMMA StillWalk ==
  ASSUME ThreadOK, PolledListed, ToScan, UNCHANGED <<npc, polled, todo>>,
         \A d \in Conns : phase[d] = "listed" => phase'[d] = "listed"
  PROVE  PolledListed' /\ ToScan'
  <1>1. PolledListed'
    BY WalkMembers DEF PolledListed
  <1>2. ToScan'
    BY WalkMembers DEF ToScan, OnceEach
  <1>3. QED
    BY <1>1, <1>2

LEMMA HandledSame ==
  ASSUME ThreadOK, polled # <<>>, NEW e, Handled(e)
  PROVE  Len(polled') = Len(polled) /\ \A i \in 1..Len(polled) : polled'[i].c = polled[i].c
  <1> DEFINE E == [c : Conns, events : SUBSET Events]
             p == [polled[1] EXCEPT !.events = @ \ {e}]
  <1>1. polled \in Seq(E) /\ 1 \in 1..Len(polled)
    BY DEF ThreadOK
  <1>2. polled[1] \in E
    BY <1>1, ElementOfSeq
  <1>3. p \in E /\ p.c = polled[1].c
    BY <1>2
  <1>4. polled' = [polled EXCEPT ![1] = p]
    BY DEF Handled
  <1> HIDE DEF E, p
  <1>5. /\ Len(polled') = Len(polled)
        /\ \A i \in 1..Len(polled) : polled'[i] = IF i = 1 THEN p ELSE polled[i]
    BY <1>1, <1>3, <1>4, ExceptSeq
  <1>6. QED
    BY <1>3, <1>5

LEMMA WalkStep == TypeOK /\ Listed /\ WalkInv /\ [Next]_vars => WalkInv'
  <1> SUFFICES ASSUME TypeOK, Listed, WalkInv, [Next]_vars PROVE WalkInv'
    OBVIOUS
  <1> DEFINE Goal == PolledListed' /\ ToScan'
  <1>0. ConnsOK /\ ThreadOK /\ PolledListed /\ ToScan
    BY DEF TypeOK, WalkInv
  <1>o. Opened'
    BY OpenedStep DEF WalkInv
  <1> SUFFICES Goal
    BY <1>o DEF WalkInv
  <1>a. npc' \notin Handling => Goal
    BY DEF PolledListed, ToScan, Handling
  <1>b. UNCHANGED <<npc, polled, todo, phase>> => Goal
    BY <1>0, StillWalk
  <1> USE DEF NetFrame, peer, flags, life, net
  <1> HIDE DEF Goal
  <1>1. ASSUME LoopTop PROVE Goal
    <2>1. /\ npc' \in {"final", "scan"} /\ todo' = list /\ polled' = <<>> /\ UNCHANGED phase
      BY <1>1 DEF LoopTop
    <2>2. OnceEach(list) /\ \A i \in 1..Len(list) : phase[list[i]] = "listed"
      <3>1. list \in Seq(Conns)
        BY <1>0 DEF ThreadOK
      <3>2. \A i \in 1..Len(list) : list[i] \in Conns /\ In(list[i], list)
        BY <3>1, ElementOfSeq DEF In
      <3>3. QED
        BY <3>2 DEF Listed
    <2>3. Len(polled') = 0
      BY <2>1
    <2>4. PolledListed'
      BY <2>3 DEF PolledListed
    <2>5. ToScan'
      BY <2>1, <2>2, <2>3 DEF ToScan, OnceEach
    <2>6. QED
      BY <2>4, <2>5 DEF Goal
  <1>2. ASSUME ScanConn PROVE Goal
    <2> DEFINE c == Head(todo)
               t == Tail(todo)
    <2>1. npc = "scan" /\ npc' = "scan" /\ c = todo[1] /\ 1 \in 1..Len(todo)
      <3>1. npc = "scan" /\ npc' = "scan" /\ todo # <<>>
        BY <1>2 DEF ScanConn
      <3>2. QED
        BY <1>0, <3>1 DEF ThreadOK
    <2>2. /\ c \in Conns /\ t \in Seq(Conns) /\ Len(t) = Len(todo) - 1
          /\ \A i \in 1..Len(t) : t[i] = todo[i + 1]
      <3>1. todo \in Seq(Conns) /\ todo # <<>>
        BY <1>2 , <1>0 DEF ScanConn, ThreadOK
      <3>2. QED
        BY <3>1, HeadTailProperties
    <2>3. \/ CloseCtx(c) /\ todo' = t /\ UNCHANGED polled
          \/ /\ UNCHANGED phase /\ todo' \in {<<>>, t}
             /\ \E e : polled' = Append(polled, [c |-> c, events |-> e])
      BY <1>2 DEF ScanConn
    <2> HIDE DEF c, t
    <2>4. ASSUME NEW i \in 1..Len(t)
          PROVE  i + 1 \in 1..Len(todo) /\ t[i] = todo[i + 1] /\ t[i] # c /\ phase[t[i]] = "listed"
                 /\ t[i] \in Conns
      <3>1. i + 1 \in 1..Len(todo) /\ i + 1 # 1
        BY <2>1, <2>2
      <3>2. t[i] = todo[i + 1] /\ t[i] \in Conns
        BY <2>2, ElementOfSeq
      <3>3. QED
        BY <1>0, <2>1, <3>1, <3>2 DEF ToScan, OnceEach
    <2>5. OnceEach(t)
      <3>1. ASSUME NEW i \in 1..Len(t), NEW j \in 1..Len(t), t[i] = t[j] PROVE i = j
        <4>1. i + 1 \in 1..Len(todo) /\ j + 1 \in 1..Len(todo) /\ todo[i + 1] = todo[j + 1]
          BY <2>4, <3>1
        <4>2. i + 1 = j + 1
          BY <1>0, <2>1, <4>1 DEF ToScan, OnceEach
        <4>3. i \in Int /\ j \in Int
          OBVIOUS
        <4>4. QED
          BY <4>2, <4>3
      <3>2. QED
        BY <3>1 DEF OnceEach
    <2>6. /\ \A i \in 1..Len(polled) : phase[polled[i].c] = "listed" /\ polled[i].c # c
          /\ \A i, j \in 1..Len(polled) : polled[i].c = polled[j].c => i = j
          /\ \A i \in 1..Len(t), j \in 1..Len(polled) : polled[j].c # t[i]
      <3>1. npc \in Handling
        BY <2>1 DEF Handling
      <3>2. QED
        BY <1>0, <2>1, <2>4, <3>1 DEF PolledListed, ToScan
    <2>7. CASE CloseCtx(c) /\ todo' = t /\ UNCHANGED polled
      <3>1. \A d \in Conns : d # c /\ phase[d] = "listed" => phase'[d] = "listed"
        BY <1>0, <2>2, <2>7 DEF CloseCtx, ConnsOK
      <3>2. PolledListed'
        BY <1>0, <2>6, <2>7, <3>1, WalkMembers DEF PolledListed
      <3>3. ToScan'
        <4>1. OnceEach(todo')
          BY <2>5, <2>7
        <4>2. QED
          BY <2>4, <2>6, <2>7, <3>1, <4>1 DEF ToScan, OnceEach
      <3>4. QED
        BY <3>2, <3>3 DEF Goal
    <2>8. CASE /\ UNCHANGED phase /\ todo' \in {<<>>, t}
               /\ \E e : polled' = Append(polled, [c |-> c, events |-> e])
      <3>1. /\ Len(polled') = Len(polled) + 1 /\ Len(polled) \in Nat
            /\ polled'[Len(polled) + 1].c = c
            /\ \A i \in 1..Len(polled) : polled'[i] = polled[i]
        <4>1. PICK e : polled' = Append(polled, [c |-> c, events |-> e])
          BY <2>8
        <4> DEFINE p == [c |-> c, events |-> e]
                   E == [c : Conns, events : SUBSET Events]
        <4>2. p.c = c /\ polled \in Seq(E)
          BY <1>0 DEF ThreadOK
        <4>3. polled' = Append(polled, p)
          BY <4>1
        <4> HIDE DEF p, E
        <4>4. polled \in Seq(E \cup {p}) /\ p \in E \cup {p}
          BY <4>2, SeqMonotonic
        <4>5. QED
          BY <4>2, <4>3, <4>4, AppendProperties
      <3>2. \A i \in 1..Len(polled') : i \in 1..Len(polled) \/ i = Len(polled) + 1
        BY <3>1
      <3>3. phase[c] = "listed"
        BY <1>0, <2>1 DEF ToScan
      <3>4. PolledListed'
        <4>1. ASSUME NEW i \in 1..Len(polled') PROVE phase'[polled'[i].c] = "listed"
          BY <2>6, <2>8, <3>1, <3>2, <3>3
        <4>2. ASSUME NEW i \in 1..Len(polled'), NEW j \in 1..Len(polled'),
                     polled'[i].c = polled'[j].c
              PROVE  i = j
          BY <2>6, <3>1, <3>2, <4>2
        <4>3. QED
          BY <4>1, <4>2 DEF PolledListed
      <3>5. ToScan'
        <4>1. ASSUME todo' = t PROVE ToScan'
          <5>1. \A i \in 1..Len(t), j \in 1..Len(polled') : polled'[j].c # t[i]
            BY <2>4, <2>6, <3>1, <3>2
          <5>2. OnceEach(todo')
            BY <2>5, <4>1
          <5>3. QED
            BY <2>4, <2>8, <4>1, <5>1, <5>2 DEF ToScan, OnceEach
        <4>2. ASSUME todo' = <<>> PROVE ToScan'
          <5>1. Len(todo') = 0
            BY <4>2
          <5>2. QED
            BY <5>1 DEF ToScan, OnceEach
        <4>3. QED
          BY <2>8, <4>1, <4>2
      <3>6. QED
        BY <3>4, <3>5 DEF Goal
    <2>9. QED
      BY <2>3, <2>7, <2>8
  <1>3. ASSUME ScanEnd PROVE Goal
    <2>1. npc \in Handling /\ npc' # "scan" /\ UNCHANGED <<polled, phase>>
      BY <1>3 DEF ScanEnd, Handling
    <2>2. QED
      BY <1>0, <2>1, SamePolled DEF Goal
  <1>4. ASSUME Poll PROVE Goal
    <2>1. /\ npc = "poll" /\ npc' \in {"timeout", "accept"} /\ UNCHANGED phase
          /\ polled' \in [1..Len(polled) -> [c : Conns, events : SUBSET {"in", "out", "hup"}]]
          /\ \A i \in 1..Len(polled) : polled'[i].c = polled[i].c
      BY <1>4 DEF Poll
    <2>2. Len(polled) \in Nat
      BY <1>0 DEF ThreadOK
    <2>3. Len(polled') = Len(polled)
      <3> DEFINE E == [c : Conns, events : SUBSET {"in", "out", "hup"}]
      <3>1. polled' \in [1..Len(polled) -> E]
        BY <2>1
      <3> HIDE DEF E
      <3>2. polled' \in Seq(E) /\ DOMAIN polled' = 1..Len(polled)
        BY <2>2, <3>1, SeqDef
      <3>3. Len(polled') \in Nat /\ DOMAIN polled' = 1..Len(polled')
        BY <3>2, LenProperties
      <3>4. QED
        BY <2>2, <3>2, <3>3
    <2>4. QED
      BY <1>0, <2>1, <2>3, SamePolled DEF Goal, Handling
  <1>5. ASSUME HandleEventAccept PROVE Goal
    <2>1. npc = "accept" /\ npc' = "conn" /\ UNCHANGED polled
      BY <1>5 DEF HandleEventAccept
    <2>2. \A d \in Conns : phase[d] = "listed" => phase'[d] = "listed"
      <3>1. \/ UNCHANGED phase
            \/ \E c \in Conns, s \in {"listed", "refused"} :
                 phase[c] = "pending" /\ phase' = [phase EXCEPT ![c] = s]
        BY <1>5 DEF HandleEventAccept
      <3>2. QED
        BY <1>0, <3>1 DEF ConnsOK
    <2>3. QED
      BY <1>0, <2>1, <2>2, SamePolled DEF Goal, Handling
  <1>6. ASSUME NextConn PROVE Goal
    <2>1. /\ npc \in Handling /\ npc # "scan" /\ npc' # "scan" /\ polled # <<>>
          /\ \/ polled' = Tail(polled) /\ (CloseCtx(Head(polled).c) \/ UNCHANGED phase)
             \/ UNCHANGED <<polled, phase>>
      BY <1>6, <1>0 DEF NextConn, Handling, ThreadOK
    <2>2. CASE UNCHANGED <<polled, phase>>
      BY <1>0, <2>1, <2>2, SamePolled DEF Goal
    <2>3. CASE polled' = Tail(polled) /\ (CloseCtx(Head(polled).c) \/ UNCHANGED phase)
      <3>1. \A d \in Conns : d # Head(polled).c => phase'[d] = phase[d]
        BY <1>0, <2>3 DEF CloseCtx, ConnsOK
      <3>2. QED
        BY <1>0, <2>1, <2>3, <3>1, RestPolled DEF Goal
    <2>4. QED
      BY <2>1, <2>2, <2>3
  <1>7. ASSUME HandleEventRead PROVE Goal
    <2>1. npc \in Handling /\ npc' # "scan" /\ UNCHANGED phase /\ Handled("in") /\ polled # <<>>
      BY <1>7, <1>0 DEF HandleEventRead, Handling, ThreadOK
    <2>2. Len(polled') = Len(polled) /\ \A i \in 1..Len(polled) : polled'[i].c = polled[i].c
      BY <1>0, <2>1, HandledSame
    <2>3. QED
      BY <1>0, <2>1, <2>2, SamePolled DEF Goal
  <1>8. ASSUME HandleReadEnd PROVE Goal
    <2>1. /\ npc \in Handling /\ npc # "scan" /\ npc' # "scan" /\ polled # <<>>
          /\ \/ polled' = Tail(polled) /\ (CloseCtx(Head(polled).c) \/ UNCHANGED phase)
             \/ UNCHANGED <<polled, phase>>
      BY <1>8, <1>0 DEF HandleReadEnd, Handling, ThreadOK
    <2>2. CASE UNCHANGED <<polled, phase>>
      BY <1>0, <2>1, <2>2, SamePolled DEF Goal
    <2>3. CASE polled' = Tail(polled) /\ (CloseCtx(Head(polled).c) \/ UNCHANGED phase)
      <3>1. \A d \in Conns : d # Head(polled).c => phase'[d] = phase[d]
        BY <1>0, <2>3 DEF CloseCtx, ConnsOK
      <3>2. QED
        BY <1>0, <2>1, <2>3, <3>1, RestPolled DEF Goal
    <2>4. QED
      BY <2>1, <2>2, <2>3
  <1>9. ASSUME HandleHup PROVE Goal
    <2>1. /\ npc \in Handling /\ npc # "scan" /\ npc' # "scan" /\ polled # <<>>
          /\ \/ polled' = Tail(polled) /\ (CloseCtx(Head(polled).c) \/ UNCHANGED phase)
             \/ UNCHANGED <<polled, phase>>
      BY <1>9, <1>0 DEF HandleHup, Handling, ThreadOK
    <2>2. CASE UNCHANGED <<polled, phase>>
      BY <1>0, <2>1, <2>2, SamePolled DEF Goal
    <2>3. CASE polled' = Tail(polled) /\ (CloseCtx(Head(polled).c) \/ UNCHANGED phase)
      <3>1. \A d \in Conns : d # Head(polled).c => phase'[d] = phase[d]
        BY <1>0, <2>3 DEF CloseCtx, ConnsOK
      <3>2. QED
        BY <1>0, <2>1, <2>3, <3>1, RestPolled DEF Goal
    <2>4. QED
      BY <2>1, <2>2, <2>3
  <1>10. ASSUME HandleEventWrite PROVE Goal
    <2>1. npc \in Handling /\ npc' # "scan" /\ UNCHANGED phase /\ Handled("out") /\ polled # <<>>
      BY <1>10, <1>0 DEF HandleEventWrite, Handling, ThreadOK
    <2>2. Len(polled') = Len(polled) /\ \A i \in 1..Len(polled) : polled'[i].c = polled[i].c
      BY <1>0, <2>1, HandledSame
    <2>3. QED
      BY <1>0, <2>1, <2>2, SamePolled DEF Goal
  <1>11. ASSUME EventsDone PROVE Goal
    <2>1. /\ npc \in Handling /\ npc # "scan" /\ npc' # "scan" /\ polled # <<>>
          /\ \/ polled' = Tail(polled) /\ (CloseCtx(Head(polled).c) \/ UNCHANGED phase)
             \/ UNCHANGED <<polled, phase>>
      BY <1>11, <1>0 DEF EventsDone, Handling, ThreadOK
    <2>2. CASE UNCHANGED <<polled, phase>>
      BY <1>0, <2>1, <2>2, SamePolled DEF Goal
    <2>3. CASE polled' = Tail(polled) /\ (CloseCtx(Head(polled).c) \/ UNCHANGED phase)
      <3>1. \A d \in Conns : d # Head(polled).c => phase'[d] = phase[d]
        BY <1>0, <2>3 DEF CloseCtx, ConnsOK
      <3>2. QED
        BY <1>0, <2>1, <2>3, <3>1, RestPolled DEF Goal
    <2>4. QED
      BY <2>1, <2>2, <2>3
  <1>12. ASSUME WriteEmpty PROVE Goal
    <2>1. npc \in Handling /\ npc' # "scan" /\ UNCHANGED <<polled, phase>>
      BY <1>12 DEF WriteEmpty, WriteReturns, Handling
    <2>2. QED
      BY <1>0, <2>1, SamePolled DEF Goal
  <1>13. ASSUME WriteBuffer PROVE Goal
    <2>1. npc \in Handling /\ npc' # "scan" /\ UNCHANGED <<polled, phase>>
      BY <1>13 DEF WriteBuffer, WriteReturns, Handling
    <2>2. QED
      BY <1>0, <2>1, SamePolled DEF Goal
  <1>14. ASSUME WriteError PROVE Goal
    <2>1. /\ npc \in Handling /\ npc # "scan" /\ npc' # "scan" /\ polled # <<>>
          /\ \/ polled' = Tail(polled) /\ (CloseCtx(Head(polled).c) \/ UNCHANGED phase)
             \/ UNCHANGED <<polled, phase>>
      BY <1>14, <1>0 DEF WriteError, Handling, ThreadOK
    <2>2. CASE UNCHANGED <<polled, phase>>
      BY <1>0, <2>1, <2>2, SamePolled DEF Goal
    <2>3. CASE polled' = Tail(polled) /\ (CloseCtx(Head(polled).c) \/ UNCHANGED phase)
      <3>1. \A d \in Conns : d # Head(polled).c => phase'[d] = phase[d]
        BY <1>0, <2>3 DEF CloseCtx, ConnsOK
      <3>2. QED
        BY <1>0, <2>1, <2>3, <3>1, RestPolled DEF Goal
    <2>4. QED
      BY <2>1, <2>2, <2>3
  <1>15. ASSUME ConnsDone PROVE Goal
    <2>1. npc' \notin Handling
      BY <1>15 DEF ConnsDone, Handling
    <2>2. QED
      BY <1>a, <2>1
  <1>16. ASSUME MoveActive PROVE Goal
    <2>1. npc' \notin Handling
      BY <1>16 DEF MoveActive, Handling
    <2>2. QED
      BY <1>a, <2>1
  <1>17. ASSUME MoveEnd PROVE Goal
    <2>1. npc' \notin Handling
      BY <1>17 DEF MoveEnd, Handling
    <2>2. QED
      BY <1>a, <2>1
  <1>18. ASSUME TimeoutBegin PROVE Goal
    <2>1. npc' \notin Handling
      BY <1>18 DEF TimeoutBegin, Handling
    <2>2. QED
      BY <1>a, <2>1
  <1>19. ASSUME ExpireConn PROVE Goal
    <2>1. npc' \notin Handling
      BY <1>19 DEF ExpireConn, Handling
    <2>2. QED
      BY <1>a, <2>1
  <1>20. ASSUME ExpireEnd PROVE Goal
    <2>1. npc' \notin Handling
      BY <1>20 DEF ExpireEnd, Handling
    <2>2. QED
      BY <1>a, <2>1
  <1>21. ASSUME FinalClose PROVE Goal
    <2>1. npc' \notin Handling
      BY <1>21 DEF FinalClose, Handling
    <2>2. QED
      BY <1>a, <2>1
  <1>22. ASSUME FinalEnd PROVE Goal
    <2>1. npc' \notin Handling
      BY <1>22 DEF FinalEnd, Handling
    <2>2. QED
      BY <1>a, <2>1
  <1>23. ASSUME NEW b \in Bufs, SendCheck(b) PROVE Goal
    BY <1>23, <1>b DEF SendCheck
  <1>24. ASSUME NEW b \in Bufs, SendQueue(b) PROVE Goal
    BY <1>24, <1>b DEF SendQueue
  <1>25. ASSUME NEW b \in Bufs, SendFail(b) PROVE Goal
    BY <1>25, <1>b DEF SendFail
  <1>26. ASSUME NEW b \in Bufs, CallerRelease(b) PROVE Goal
    BY <1>26, <1>b DEF CallerRelease
  <1>27. ASSUME NEW b \in Bufs, SendActive(b) PROVE Goal
    BY <1>27, <1>b DEF SendActive
  <1>28. ASSUME NEW b \in Bufs, SendMove(b) PROVE Goal
    BY <1>28, <1>b DEF SendMove
  <1>29. ASSUME NEW c \in Conns, AppClose(c) PROVE Goal
    BY <1>29, <1>b DEF AppClose
  <1>30. ASSUME NEW c \in Conns, Destroy(c) PROVE Goal
    <2>1. UNCHANGED <<npc, polled, todo>>
      BY <1>30 DEF Destroy
    <2>2. \A d \in Conns : phase[d] = "listed" => phase'[d] = "listed"
      BY <1>30, <1>0 DEF Destroy, ConnsOK
    <2>3. QED
      BY <1>0, <2>1, <2>2, StillWalk DEF Goal
  <1>31. ASSUME NEW c \in Conns, PeerConnect(c) PROVE Goal
    <2>1. UNCHANGED <<npc, polled, todo>>
      BY <1>31 DEF PeerConnect
    <2>2. \A d \in Conns : phase[d] = "listed" => phase'[d] = "listed"
      BY <1>31, <1>0 DEF PeerConnect, ConnsOK
    <2>3. QED
      BY <1>0, <2>1, <2>2, StillWalk DEF Goal
  <1>32. ASSUME NEW c \in Conns, PeerSend(c) PROVE Goal
    BY <1>32, <1>b DEF PeerSend
  <1>33. ASSUME NEW c \in Conns, PeerGone(c) PROVE Goal
    BY <1>33, <1>b DEF PeerGone
  <1>34. ASSUME Tick PROVE Goal
    BY <1>34, <1>b DEF Tick
  <1>35. ASSUME ShutdownBegin PROVE Goal
    BY <1>35, <1>b DEF ShutdownBegin
  <1>36. ASSUME CloseAllConnections PROVE Goal
    BY <1>36, <1>b DEF CloseAllConnections
  <1>37. ASSUME Join PROVE Goal
    BY <1>37, <1>b DEF Join
  <1>38. CASE UNCHANGED vars
    BY <1>38, <1>b DEF vars
  <1>39. QED
    BY <1>1, <1>2, <1>3, <1>4, <1>5, <1>6, <1>7, <1>8, <1>9, <1>10, <1>11, <1>12,
       <1>13, <1>14, <1>15, <1>16, <1>17, <1>18, <1>19, <1>20, <1>21, <1>22, <1>23,
       <1>24, <1>25, <1>26, <1>27, <1>28, <1>29, <1>30, <1>31, <1>32, <1>33, <1>34,
       <1>35, <1>36, <1>37, <1>38 DEF Next, ThreadWorker, Sender

-----------------------------------------------------------------------------
(* What is sent on a connection.                                             *)

\* The buffers of q were given to Send for c.
Owned(q, c) == \A i \in 1..Len(q) : Target[q[i]] = c /\ spc[q[i]] \notin {"new", "checked"}

\* What was queued on c was queued once, and what is left is the end of it, of which only
\* the first buffer was begun.
QueueKept(c) ==
    /\ OnceEach(queued[c]) /\ Owned(queued[c], c)
    /\ Suffix(sendq[c], queued[c]) /\ Waiting(sendq[c], sent)

\* The stream is in order, and as long as the socket is open it ends where the next unit
\* goes on.
Sending(c) ==
    /\ QueueKept(c) /\ InOrder(wire[c], queued[c])
    /\ soc[c] => Chain(queued[c], sendq[c], wire[c], sent)

StreamInv == \A c \in Conns : Sending(c)

LEMMA StreamTypes ==
  ASSUME SendsOK, NEW c \in Conns
  PROVE  /\ queued[c] \in Seq(Bufs) /\ sendq[c] \in Seq(Bufs) /\ wire[c] \in Stream
         /\ sent \in [Bufs -> Nat]
  BY DEF SendsOK, Stream

\* Nothing was queued on a connection that is not yet accepted, and nothing was sent.
LEMMA NotYetOpen ==
  ASSUME TypeOK, Opened, NEW c \in Conns, Sending(c), phase[c] = "pending"
  PROVE  Chain(queued[c], sendq[c], wire[c], sent)
  <1>0. SendsOK
    BY DEF TypeOK
  <1> DEFINE q == queued[c]
             s == sendq[c]
             w == wire[c]
  <1>1. q \in Seq(Bufs) /\ s \in Seq(Bufs) /\ w \in Stream
    BY <1>0, StreamTypes
  <1>2. /\ \A i \in 1..Len(q) : Target[q[i]] = c /\ spc[q[i]] # "new"
        /\ InOrder(w, q) /\ Len(s) <= Len(q)
    BY DEF Sending, QueueKept, Owned, Suffix
  <1> HIDE DEF q, s, w
  <1>3. Len(q) \in Nat /\ Len(s) \in Nat /\ Len(w) \in Nat
    BY <1>1 DEF Stream
  <1>4. Len(q) = 0
    <2>1. SUFFICES ASSUME 1 \in 1..Len(q) PROVE FALSE
      BY <1>3
    <2>2. q[1] \in Bufs /\ Target[q[1]] = c /\ spc[q[1]] # "new"
      BY <1>1, <1>2, <2>1, ElementOfSeq
    <2>3. phase[Target[q[1]]] \in Ended
      BY <2>2 DEF Opened
    <2>4. QED
      BY <2>2, <2>3 DEF Ended
  <1>5. Len(w) = 0
    <2>1. SUFFICES ASSUME 1 \in 1..Len(w) PROVE FALSE
      BY <1>3
    <2>2. \A p : p \notin 1..Len(q)
      BY <1>4
    <2>3. QED
      BY <1>2, <2>1, <2>2 DEF InOrder
  <1>6. s = <<>> /\ w = <<>> /\ Len(q) - Len(s) = 0
    BY <1>1, <1>2, <1>3, <1>4, <1>5 DEF Stream
  <1>7. QED
    BY <1>6 DEF Chain, UpTo, q, s, w

\* What was queued is still there, and has been sent as far as before.
LEMMA KeptQueue ==
  ASSUME NEW s \in Seq(Bufs), NEW q \in Seq(Bufs), Suffix(s, q), NEW w, NEW m, NEW n,
         \A i \in 1..Len(q) : n[q[i]] = m[q[i]]
  PROVE  /\ Waiting(s, m) => Waiting(s, n)
         /\ Chain(q, s, w, m) => Chain(q, s, w, n)
  <1>1. Len(s) \in Nat /\ \A i \in 1..Len(s) : n[s[i]] = m[s[i]]
    <2>1. ASSUME NEW i \in 1..Len(s) PROVE n[s[i]] = m[s[i]]
      <3> DEFINE e == Len(q) - Len(s) + i
      <3>1. e \in 1..Len(q) /\ s[i] = q[e]
        BY SuffixMembers
      <3> HIDE DEF e
      <3>2. QED
        BY <3>1
    <2>2. QED
      BY <2>1
  <1>2. \A i \in 2..Len(s) : i \in 1..Len(s)
    BY <1>1
  <1>3. Waiting(s, m) => Waiting(s, n)
    BY <1>1, <1>2 DEF Waiting
  <1>4. s # <<>> => 1 \in 1..Len(s)
    BY EmptySeq, <1>1
  <1>5. s # <<>> => n[s[1]] = m[s[1]]
    BY <1>1, <1>4
  <1>6. QED
    BY <1>3, <1>5 DEF Chain

\* A buffer that was given to Send for c stays so.
LEMMA StillOwned ==
  ASSUME NEW c, NEW q \in Seq(Bufs), Owned(q, c), \A b \in Bufs : BufStep(b)
  PROVE  \A i \in 1..Len(q) : Target[q[i]] = c /\ spc'[q[i]] \notin {"new", "checked"}
  <1>1. ASSUME NEW i \in 1..Len(q)
        PROVE  Target[q[i]] = c /\ spc'[q[i]] \notin {"new", "checked"}
    <2>1. q[i] \in Bufs
      BY ElementOfSeq
    <2>2. BufStep(q[i])
      BY <2>1
    <2>3. QED
      BY <2>2 DEF Owned, BufStep
  <1>2. QED
    BY <1>1

LEMMA KeptStream ==
  ASSUME TypeOK, Opened, NEW c \in Conns, Sending(c), ConnStep(c), \A b \in Bufs : BufStep(b),
         sendq'[c] = sendq[c], queued'[c] = queued[c], wire'[c] = wire[c],
         \A b \in Bufs : Target[b] = c => sent'[b] = sent[b]
  PROVE  Sending(c)'
  <1> DEFINE q == queued[c]
             s == sendq[c]
             w == wire[c]
  <1>1. SendsOK
    BY DEF TypeOK
  <1>2. q \in Seq(Bufs) /\ s \in Seq(Bufs)
    BY <1>1, StreamTypes
  <1>3. /\ OnceEach(q) /\ Owned(q, c) /\ Suffix(s, q) /\ Waiting(s, sent) /\ InOrder(w, q)
        /\ soc[c] => Chain(q, s, w, sent)
    BY DEF Sending, QueueKept
  <1>4. soc'[c] => Chain(q, s, w, sent)
    BY <1>3, NotYetOpen DEF ConnStep
  <1>5. q' = q /\ s' = s /\ w' = w
    OBVIOUS
  <1> HIDE DEF q, s, w
  <1>6. \A i \in 1..Len(q) : sent'[q[i]] = sent[q[i]]
    <2>1. \A i \in 1..Len(q) : q[i] \in Bufs /\ Target[q[i]] = c
      BY <1>2, <1>3, ElementOfSeq DEF Owned
    <2>2. QED
      BY <2>1
  <1>7. Waiting(s, sent') /\ (soc'[c] => Chain(q, s, w, sent'))
    BY <1>2, <1>3, <1>4, <1>6, KeptQueue
  <1>8. \A i \in 1..Len(q) : Target[q[i]] = c /\ spc'[q[i]] \notin {"new", "checked"}
    BY <1>2, <1>3, StillOwned
  <1>9. QED
    BY <1>3, <1>5, <1>7, <1>8 DEF Sending, QueueKept, Owned, q, s, w

\* A buffer that was not yet put into a queue is in none.
LEMMA NotQueued ==
  ASSUME NEW c \in Conns, NEW b \in Bufs, Sending(c), spc[b] \in {"new", "checked"}
  PROVE  ~In(b, queued[c])
  BY DEF In, Sending, QueueKept, Owned

\* Send puts a buffer at the end of the queue, and sends the beginning of it when the queue
\* was empty.
LEMMA QueuedStream ==
  ASSUME TypeOK, NEW b \in Bufs, SendQueue(b), writting[Target[b]] < MaxWritting,
         Sending(Target[b]), \A a \in Bufs : BufStep(a)
  PROVE  Sending(Target[b])'
  <1> DEFINE c == Target[b]
             q == queued[c]
             s == sendq[c]
             w == wire[c]
  <1>1. SendsOK /\ c \in Conns /\ Size[b] \in Nat
    BY BufferType DEF TypeOK
  <1>2. q \in Seq(Bufs) /\ s \in Seq(Bufs) /\ w \in Stream /\ sent \in [Bufs -> Nat]
    BY <1>1, StreamTypes
  <1>3. /\ OnceEach(q) /\ Owned(q, c) /\ Suffix(s, q) /\ Waiting(s, sent) /\ InOrder(w, q)
        /\ soc[c] => Chain(q, s, w, sent)
    BY DEF Sending, QueueKept
  <1>4. ~In(b, q)
    BY <1>1, NotQueued DEF SendQueue
  <1>5. PICK k \in (IF s = <<>> /\ soc[c] THEN 0..Size[b] ELSE {0}) :
          /\ sendq' = [sendq EXCEPT ![c] = Append(@, b)]
          /\ queued' = [queued EXCEPT ![c] = Append(@, b)]
          /\ sent' = [sent EXCEPT ![b] = k]
          /\ wire' = [wire EXCEPT ![c] = @ \o Units(b, 0, k)]
          /\ \E x \in {"accepted", "failed", "active"} : spc' = [spc EXCEPT ![b] = x]
    <2>1. ~(writting[c] >= MaxWritting)
      BY <1>1, LimitTypes DEF SendsOK
    <2>2. QED
      BY <2>1 DEF SendQueue
  <1>6. k \in Nat /\ (k > 0 => s = <<>> /\ soc[c]) /\ soc' = soc
    BY <1>1, <1>5 DEF SendQueue, flags
  <1>7. /\ queued'[c] = Append(q, b) /\ sendq'[c] = Append(s, b) /\ wire'[c] = w \o Units(b, 0, k)
        /\ spc'[b] \notin {"new", "checked"}
    BY <1>1, <1>5 DEF SendsOK
  <1>a. sent' = [sent EXCEPT ![b] = k]
    BY <1>5
  <1> HIDE DEF q, s, w, c
  <1>8. /\ Append(q, b) \in Seq(Bufs) /\ OnceEach(Append(q, b))
        /\ \A i \in 1..Len(Append(q, b)) : Append(q, b)[i] = b \/ In(Append(q, b)[i], q)
    <2>1. /\ Append(q, b) \in Seq(Bufs) /\ OnceEach(Append(q, b))
          /\ \A d : In(d, Append(q, b)) <=> In(d, q) \/ d = b
      BY <1>2, <1>3, <1>4, AppendMembers
    <2>2. QED
      BY <2>1 DEF In
  <1>9. Suffix(Append(s, b), Append(q, b)) /\ Waiting(Append(s, b), sent')
    BY <1>2, <1>3, <1>4, <1>6, <1>a, QueuedBehind
  <1>10. InOrder(w \o Units(b, 0, k), Append(q, b))
    <2>1. CASE soc[c]
      BY <1>2, <1>3, <1>4, <1>6, <2>1, SentAtOnce
    <2>2. CASE ~soc[c]
      <3>1. k = 0
        BY <1>6, <2>2
      <3>2. Units(b, 0, k) \in Stream /\ Len(Units(b, 0, k)) = 0
        BY <3>1, UnitsProperties
      <3>3. Units(b, 0, k) = <<>>
        BY <3>2, EmptySeq DEF Stream
      <3>4. w \o Units(b, 0, k) = w
        BY <1>2, <3>3, ConcatEmptySeq DEF Stream
      <3>5. QED
        BY <1>2, <1>3, <3>4, LongerInOrder
    <2>3. QED
      BY <2>1, <2>2
  <1>11. soc[c] => Chain(Append(q, b), Append(s, b), w \o Units(b, 0, k), sent')
    BY <1>2, <1>3, <1>4, <1>6, <1>a, SentAtOnce
  <1>12. \A i \in 1..Len(Append(q, b)) :
           Target[Append(q, b)[i]] = c /\ spc'[Append(q, b)[i]] \notin {"new", "checked"}
    <2>1. \A d \in Bufs : In(d, q) => Target[d] = c /\ spc'[d] \notin {"new", "checked"}
      BY <1>3 DEF Owned, In, BufStep
    <2>2. \A i \in 1..Len(Append(q, b)) : Append(q, b)[i] \in Bufs
      BY <1>8, ElementOfSeq
    <2>3. Target[b] = c
      BY DEF c
    <2>4. QED
      BY <1>7, <1>8, <2>1, <2>2, <2>3
  <1>13. c = Target[b]
    BY DEF c
  <1>14. Sending(c)'
    BY <1>6, <1>7, <1>8, <1>9, <1>10, <1>11, <1>12 DEF Sending, QueueKept, Owned
  <1>15. QED
    BY <1>13, <1>14

\* The connection that the network thread writes on is open, and the head of its queue is
\* one of its buffers.
LEMMA WrittenTo ==
  ASSUME TypeOK, WalkInv, StreamInv, npc = "write", sendq[Head(polled).c] # <<>>
  PROVE  LET c == Head(polled).c
             b == Head(sendq[c])
         IN  /\ c \in Conns /\ phase[c] = "listed" /\ soc[c] /\ Sending(c)
             /\ b \in Bufs /\ Target[b] = c /\ b = sendq[c][1]
             /\ sent[b] \in Nat /\ Size[b] \in Nat /\ sent[b] <= Size[b]
  <1> DEFINE c == Head(polled).c
             b == Head(sendq[c])
  <1>1. SendsOK /\ ThreadOK /\ polled # <<>>
    BY DEF TypeOK, ThreadOK
  <1>2. c \in Conns
    BY <1>1, HeadOfWalk
  <1>3. 1 \in 1..Len(polled) /\ Head(polled) = polled[1]
    BY <1>1 DEF ThreadOK
  <1>4. phase[c] = "listed" /\ soc[c]
    BY <1>2, <1>3 DEF WalkInv, PolledListed, Handling, Opened
  <1>5. Sending(c)
    BY <1>2 DEF StreamInv
  <1> HIDE DEF c
  <1>6. sendq[c] \in Seq(Bufs) /\ sendq[c] # <<>> /\ queued[c] \in Seq(Bufs)
    BY <1>1, <1>2, StreamTypes DEF c
  <1>7. b \in Bufs /\ b = sendq[c][1] /\ 1 \in 1..Len(sendq[c])
    BY <1>6, EmptySeq
  <1>8. In(b, queued[c])
    BY <1>5, <1>6, <1>7, SuffixMembers DEF Sending, QueueKept
  <1>9. Target[b] = c
    BY <1>5, <1>8 DEF Sending, QueueKept, Owned, In
  <1>10. sent[b] \in Nat /\ Size[b] \in Nat /\ sent[b] <= Size[b]
    BY <1>1, <1>7, BufferType DEF SendsOK
  <1>11. QED
    BY <1>2, <1>4, <1>5, <1>7, <1>9, <1>10 DEF c

\* The network thread sends more of the first buffer, which leaves the queue when it was
\* sent whole.
LEMMA WrittenStream ==
  ASSUME TypeOK, WalkInv, StreamInv, WriteBuffer, \A a \in Bufs : BufStep(a),
         NEW c \in Conns, c = Head(polled).c
  PROVE  /\ Sending(c)'
         /\ \A d \in Conns \ {c} : /\ sendq'[d] = sendq[d] /\ queued'[d] = queued[d]
                                   /\ wire'[d] = wire[d]
         /\ \A a \in Bufs : Target[a] # c => sent'[a] = sent[a]
  <1> DEFINE q == queued[c]
             s == sendq[c]
             w == wire[c]
             b == Head(s)
             n == sent[b]
  <1>0. npc = "write" /\ s # <<>> /\ SendsOK
    BY DEF WriteBuffer, TypeOK
  <1>1. /\ c \in Conns /\ soc[c] /\ Sending(c)
        /\ b \in Bufs /\ Target[b] = c
        /\ n \in Nat /\ Size[b] \in Nat /\ n <= Size[b]
    BY <1>0, WrittenTo
  <1>2. q \in Seq(Bufs) /\ s \in Seq(Bufs) /\ w \in Stream /\ sent \in [Bufs -> Nat]
    BY <1>0, <1>1, StreamTypes
  <1>3. /\ OnceEach(q) /\ Owned(q, c) /\ Suffix(s, q) /\ Waiting(s, sent) /\ InOrder(w, q)
        /\ Chain(q, s, w, sent)
    BY <1>1 DEF Sending, QueueKept
  <1>4. PICK k \in 0..(Size[b] - n) :
          /\ sent' = [sent EXCEPT ![b] = @ + k]
          /\ wire' = [wire EXCEPT ![c] = @ \o Units(b, n, k)]
          /\ \/ sent'[b] = Size[b] /\ sendq' = [sendq EXCEPT ![c] = Tail(@)]
             \/ UNCHANGED sendq
    BY DEF WriteBuffer
  <1>5. UNCHANGED queued
    BY DEF WriteBuffer
  <1>6. k \in Nat /\ sent' = [sent EXCEPT ![b] = n + k] /\ sent'[b] = n + k
    <2>1. sent' = [sent EXCEPT ![b] = n + k]
      BY <1>4
    <2>2. k \in Nat
      <3> HIDE DEF n, b
      <3>1. QED
        BY <1>1, <1>4
    <2>3. QED
      BY <1>1, <1>2, <2>1, <2>2
  <1>7. /\ wire'[c] = w \o Units(b, n, k) /\ queued'[c] = q
        /\ sendq'[c] = s \/ (sendq'[c] = Tail(s) /\ n + k = Size[b])
    BY <1>0, <1>1, <1>4, <1>5, <1>6 DEF SendsOK
  <1>8. \A d \in Conns \ {c} : /\ sendq'[d] = sendq[d] /\ queued'[d] = queued[d]
                               /\ wire'[d] = wire[d]
    BY <1>0, <1>4, <1>5 DEF SendsOK
  <1>9. \A a \in Bufs : Target[a] # c => sent'[a] = sent[a]
    BY <1>1, <1>2, <1>6
  <1> HIDE DEF q, s, w, n
  <1>10. /\ InOrder(w \o Units(b, n, k), q)
         /\ Waiting(s, sent') /\ Chain(q, s, w \o Units(b, n, k), sent')
         /\ n + k = Size[b] => /\ Waiting(Tail(s), sent')
                               /\ Chain(q, Tail(s), w \o Units(b, n, k), sent')
    <2>1. n = sent[Head(s)]
      BY DEF n
    <2>2. QED
      BY <1>0, <1>1, <1>2, <1>3, <1>6, <2>1, SentOn
  <1>11. Suffix(Tail(s), q)
    BY <1>0, <1>2, <1>3, TailSuffix
  <1>12. \A i \in 1..Len(q) : Target[q[i]] = c /\ spc'[q[i]] \notin {"new", "checked"}
    <2>1. \A x \in Seq(Bufs) : Owned(x, c) =>
            \A i \in 1..Len(x) : Target[x[i]] = c /\ spc'[x[i]] \notin {"new", "checked"}
      BY StillOwned
    <2>2. q \in Seq(Bufs) /\ Owned(q, c)
      BY <1>2, <1>3
    <2>3. QED
      BY <2>1, <2>2
  <1>13. Sending(c)'
    <2>1. CASE sendq'[c] = s
      BY <1>3, <1>7, <1>10, <1>12, <2>1 DEF Sending, QueueKept, Owned
    <2>2. CASE sendq'[c] = Tail(s) /\ n + k = Size[b]
      BY <1>3, <1>7, <1>10, <1>11, <1>12, <2>2 DEF Sending, QueueKept, Owned
    <2>3. QED
      BY <1>7, <2>1, <2>2
  <1>14. QED
    BY <1>8, <1>9, <1>13

\* The connection is removed: what it had sent is all that it sends.
LEMMA BrokenStream ==
  ASSUME TypeOK, WalkInv, StreamInv, WriteError, \A a \in Bufs : BufStep(a),
         NEW c \in Conns, c = Head(polled).c
  PROVE  /\ Sending(c)'
         /\ \A d \in Conns \ {c} : /\ sendq'[d] = sendq[d] /\ queued'[d] = queued[d]
                                   /\ wire'[d] = wire[d]
         /\ UNCHANGED sent
  <1> DEFINE q == queued[c]
             s == sendq[c]
             w == wire[c]
             b == Head(s)
             n == sent[b]
  <1>0. npc = "write" /\ s # <<>> /\ ConnsOK /\ SendsOK
    BY DEF WriteError, TypeOK
  <1>1. /\ c \in Conns /\ soc[c] /\ Sending(c)
        /\ b \in Bufs /\ Target[b] = c
        /\ n \in Nat /\ Size[b] \in Nat /\ n <= Size[b]
    BY <1>0, WrittenTo
  <1>2. q \in Seq(Bufs) /\ s \in Seq(Bufs) /\ w \in Stream /\ sent \in [Bufs -> Nat]
    BY <1>0, <1>1, StreamTypes
  <1>3. /\ OnceEach(q) /\ Owned(q, c) /\ Suffix(s, q) /\ Waiting(s, sent) /\ InOrder(w, q)
        /\ Chain(q, s, w, sent)
    BY <1>1 DEF Sending, QueueKept
  <1>4. PICK k \in 0..(Size[b] - n - 1) : wire' = [wire EXCEPT ![c] = @ \o Units(b, n, k)]
    BY DEF WriteError
  <1>5. /\ sendq' = [sendq EXCEPT ![c] = Tail(@)] /\ UNCHANGED <<queued, sent>>
        /\ soc' = [soc EXCEPT ![c] = FALSE]
    BY DEF WriteError, CloseCtx
  <1>6. /\ k \in Nat /\ wire'[c] = w \o Units(b, n, k) /\ queued'[c] = q
        /\ sendq'[c] = Tail(s) /\ ~soc'[c]
    <2>1. k \in Nat
      <3> HIDE DEF n, b
      <3>1. QED
        BY <1>1, <1>4
    <2>2. wire'[c] = w \o Units(b, n, k) /\ queued'[c] = q /\ sendq'[c] = Tail(s)
      BY <1>0, <1>1, <1>4, <1>5 DEF SendsOK
    <2>3. ~soc'[c]
      BY <1>0, <1>1, <1>5 DEF ConnsOK
    <2>4. QED
      BY <2>1, <2>2, <2>3
  <1>8. \A d \in Conns \ {c} : /\ sendq'[d] = sendq[d] /\ queued'[d] = queued[d]
                               /\ wire'[d] = wire[d]
    BY <1>0, <1>4, <1>5 DEF SendsOK
  <1> HIDE DEF q, s, w, n
  <1>10. InOrder(w \o Units(b, n, k), q)
    <2>1. n = sent[Head(s)]
      BY DEF n
    <2>2. QED
      BY <1>0, <1>1, <1>2, <1>3, <1>6, <2>1, SentOn
  <1>11. Suffix(Tail(s), q) /\ Waiting(Tail(s), sent)
    BY <1>0, <1>2, <1>3, TailSuffix
  <1>12. \A i \in 1..Len(q) : Target[q[i]] = c /\ spc'[q[i]] \notin {"new", "checked"}
    <2>1. \A x \in Seq(Bufs) : Owned(x, c) =>
            \A i \in 1..Len(x) : Target[x[i]] = c /\ spc'[x[i]] \notin {"new", "checked"}
      BY StillOwned
    <2>2. q \in Seq(Bufs) /\ Owned(q, c)
      BY <1>2, <1>3
    <2>3. QED
      BY <2>1, <2>2
  <1>13. Sending(c)'
    <2>1. InOrder(wire'[c], queued'[c]) /\ ~soc'[c]
      BY <1>6, <1>10
    <2>2. QueueKept(c)'
      <3>1. OnceEach(q) /\ Suffix(Tail(s), q) /\ Waiting(Tail(s), sent)
        BY <1>3, <1>11
      <3>2. QED
        BY <1>5, <1>6, <1>12, <3>1 DEF QueueKept, Owned
    <2>3. QED
      BY <2>1, <2>2 DEF Sending
  <1>14. QED
    BY <1>5, <1>8, <1>13

\* What is left to send on a connection is given up with it.
LEMMA DestroyedStream ==
  ASSUME TypeOK, NEW c \in Conns, Destroy(c), Sending(c), \A a \in Bufs : BufStep(a)
  PROVE  Sending(c)'
  <1>1. /\ ~soc'[c] /\ sendq'[c] = <<>> /\ queued'[c] = queued[c] /\ wire'[c] = wire[c]
        /\ UNCHANGED sent
    BY DEF Destroy, TypeOK, ConnsOK, SendsOK
  <1>2. queued[c] \in Seq(Bufs) /\ Len(queued[c]) \in Nat
    BY StreamTypes DEF TypeOK
  <1>3. Suffix(<<>>, queued[c]) /\ Waiting(<<>>, sent)
    <2>1. Len(<<>>) = 0
      OBVIOUS
    <2>2. QED
      BY <1>2, <2>1 DEF Suffix, Waiting
  <1>4. \A i \in 1..Len(queued[c]) : /\ Target[queued[c][i]] = c
                                     /\ spc'[queued[c][i]] \notin {"new", "checked"}
    BY <1>2, StillOwned DEF Sending, QueueKept
  <1>5. QED
    BY <1>1, <1>3, <1>4 DEF Sending, QueueKept, Owned

LEMMA StreamStep == TypeOK /\ WalkInv /\ StreamInv /\ [Next]_vars => StreamInv'
  <1> SUFFICES ASSUME TypeOK, WalkInv, StreamInv, [Next]_vars PROVE StreamInv'
    OBVIOUS
  <1> DEFINE Goal == StreamInv'
  <1> SUFFICES Goal
    OBVIOUS
  <1>0. ConnsOK /\ SendsOK /\ ThreadOK
    BY DEF TypeOK
  <1>a. /\ \A b \in Bufs : BufStep(b)
        /\ \A c \in Conns : ConnStep(c) /\ Sending(c)
    BY EveryBufStep, EveryConnStep DEF StreamInv
  <1>b. ASSUME NEW c \in Conns,
               sendq'[c] = sendq[c], queued'[c] = queued[c], wire'[c] = wire[c],
               \A b \in Bufs : Target[b] = c => sent'[b] = sent[b]
        PROVE  Sending(c)'
    BY <1>a, <1>b, KeptStream DEF WalkInv
  <1>c. UNCHANGED out => Goal
    BY <1>b DEF out, StreamInv
  <1> USE DEF NetFrame
  <1> HIDE DEF Goal
  <1>1. ASSUME LoopTop PROVE Goal
    BY <1>1, <1>c DEF LoopTop
  <1>2. ASSUME ScanConn PROVE Goal
    BY <1>2, <1>c DEF ScanConn
  <1>3. ASSUME ScanEnd PROVE Goal
    BY <1>3, <1>c DEF ScanEnd
  <1>4. ASSUME Poll PROVE Goal
    BY <1>4, <1>c DEF Poll
  <1>5. ASSUME HandleEventAccept PROVE Goal
    BY <1>5, <1>c DEF HandleEventAccept
  <1>6. ASSUME NextConn PROVE Goal
    BY <1>6, <1>c DEF NextConn
  <1>7. ASSUME HandleEventRead PROVE Goal
    BY <1>7, <1>c DEF HandleEventRead
  <1>8. ASSUME HandleReadEnd PROVE Goal
    BY <1>8, <1>c DEF HandleReadEnd
  <1>9. ASSUME HandleHup PROVE Goal
    BY <1>9, <1>c DEF HandleHup
  <1>10. ASSUME HandleEventWrite PROVE Goal
    BY <1>10, <1>c DEF HandleEventWrite
  <1>11. ASSUME EventsDone PROVE Goal
    BY <1>11, <1>c DEF EventsDone
  <1>12. ASSUME WriteEmpty PROVE Goal
    BY <1>12, <1>c DEF WriteEmpty
  <1>13. ASSUME WriteBuffer PROVE Goal
    <2>1. PICK c \in Conns : c = Head(polled).c
      BY <1>13, <1>0, HeadOfWalk DEF WriteBuffer, ThreadOK
    <2>2. /\ Sending(c)'
          /\ \A d \in Conns \ {c} : /\ sendq'[d] = sendq[d] /\ queued'[d] = queued[d]
                                    /\ wire'[d] = wire[d]
          /\ \A a \in Bufs : Target[a] # c => sent'[a] = sent[a]
      BY <1>13, <1>a, <2>1, WrittenStream
    <2>3. ASSUME NEW d \in Conns, d # c PROVE Sending(d)'
      <3>1. d \in Conns \ {c}
        BY <2>3
      <3>2. \A a \in Bufs : Target[a] = d => sent'[a] = sent[a]
        BY <2>2, <2>3
      <3>3. QED
        BY <1>b, <2>2, <3>1, <3>2
    <2>4. QED
      BY <2>2, <2>3 DEF Goal, StreamInv
  <1>14. ASSUME WriteError PROVE Goal
    <2>1. PICK c \in Conns : c = Head(polled).c
      BY <1>14, <1>0, HeadOfWalk DEF WriteError, ThreadOK
    <2>2. /\ Sending(c)'
          /\ \A d \in Conns \ {c} : /\ sendq'[d] = sendq[d] /\ queued'[d] = queued[d]
                                    /\ wire'[d] = wire[d]
          /\ \A a \in Bufs : Target[a] # c => sent'[a] = sent[a]
      BY <1>14, <1>a, <2>1, BrokenStream
    <2>3. ASSUME NEW d \in Conns, d # c PROVE Sending(d)'
      <3>1. d \in Conns \ {c}
        BY <2>3
      <3>2. \A a \in Bufs : Target[a] = d => sent'[a] = sent[a]
        BY <2>2, <2>3
      <3>3. QED
        BY <1>b, <2>2, <3>1, <3>2
    <2>4. QED
      BY <2>2, <2>3 DEF Goal, StreamInv
  <1>15. ASSUME ConnsDone PROVE Goal
    BY <1>15, <1>c DEF ConnsDone
  <1>16. ASSUME MoveActive PROVE Goal
    BY <1>16, <1>c DEF MoveActive
  <1>17. ASSUME MoveEnd PROVE Goal
    BY <1>17, <1>c DEF MoveEnd
  <1>18. ASSUME TimeoutBegin PROVE Goal
    BY <1>18, <1>c DEF TimeoutBegin
  <1>19. ASSUME ExpireConn PROVE Goal
    BY <1>19, <1>c DEF ExpireConn
  <1>20. ASSUME ExpireEnd PROVE Goal
    BY <1>20, <1>c DEF ExpireEnd
  <1>21. ASSUME FinalClose PROVE Goal
    BY <1>21, <1>c DEF FinalClose
  <1>22. ASSUME FinalEnd PROVE Goal
    BY <1>22, <1>c DEF FinalEnd
  <1>23. ASSUME NEW b \in Bufs, SendCheck(b) PROVE Goal
    BY <1>23, <1>c DEF SendCheck
  <1>24. ASSUME NEW b \in Bufs, SendQueue(b) PROVE Goal
    <2> DEFINE c == Target[b]
    <2>1. c \in Conns
      BY BufferType
    <2>2. CASE writting[c] >= MaxWritting
      BY <1>24, <1>c, <2>2 DEF SendQueue
    <2>3. CASE ~(writting[c] >= MaxWritting)
      <3>1. Sending(c)'
        <4>1. writting[c] < MaxWritting
          BY <1>0, <2>1, <2>3, LimitTypes DEF SendsOK
        <4>2. QED
          BY <1>24, <1>a, <2>1, <4>1, QueuedStream
      <3>2. PICK k : /\ sendq' = [sendq EXCEPT ![c] = Append(@, b)]
                     /\ queued' = [queued EXCEPT ![c] = Append(@, b)]
                     /\ sent' = [sent EXCEPT ![b] = k]
                     /\ wire' = [wire EXCEPT ![c] = @ \o Units(b, 0, k)]
        BY <1>24, <2>3 DEF SendQueue
      <3>3. ASSUME NEW d \in Conns, d # c PROVE Sending(d)'
        <4>1. sendq'[d] = sendq[d] /\ queued'[d] = queued[d] /\ wire'[d] = wire[d]
          BY <1>0, <2>1, <3>2, <3>3 DEF SendsOK
        <4>2. \A a \in Bufs : Target[a] = d => sent'[a] = sent[a]
          BY <1>0, <3>2, <3>3 DEF SendsOK
        <4>3. QED
          BY <1>b, <4>1, <4>2
      <3>4. QED
        BY <3>1, <3>3 DEF Goal, StreamInv
    <2>4. QED
      BY <2>2, <2>3
  <1>25. ASSUME NEW b \in Bufs, SendFail(b) PROVE Goal
    BY <1>25, <1>c DEF SendFail
  <1>26. ASSUME NEW b \in Bufs, CallerRelease(b) PROVE Goal
    BY <1>26, <1>c DEF CallerRelease
  <1>27. ASSUME NEW b \in Bufs, SendActive(b) PROVE Goal
    BY <1>27, <1>c DEF SendActive
  <1>28. ASSUME NEW b \in Bufs, SendMove(b) PROVE Goal
    BY <1>28, <1>c DEF SendMove
  <1>29. ASSUME NEW c \in Conns, AppClose(c) PROVE Goal
    BY <1>29, <1>c DEF AppClose
  <1>30. ASSUME NEW c \in Conns, Destroy(c) PROVE Goal
    <2>1. Sending(c)'
      BY <1>30, <1>a, DestroyedStream
    <2>2. UNCHANGED <<queued, wire, sent>> /\ sendq' = [sendq EXCEPT ![c] = <<>>]
      BY <1>30 DEF Destroy
    <2>3. ASSUME NEW d \in Conns, d # c PROVE Sending(d)'
      <3>1. sendq'[d] = sendq[d]
        BY <1>0, <2>2, <2>3 DEF SendsOK
      <3>2. QED
        BY <1>b, <2>2, <3>1
    <2>4. QED
      BY <2>1, <2>3 DEF Goal, StreamInv
  <1>31. ASSUME NEW c \in Conns, PeerConnect(c) PROVE Goal
    BY <1>31, <1>c DEF PeerConnect
  <1>32. ASSUME NEW c \in Conns, PeerSend(c) PROVE Goal
    BY <1>32, <1>c DEF PeerSend
  <1>33. ASSUME NEW c \in Conns, PeerGone(c) PROVE Goal
    BY <1>33, <1>c DEF PeerGone
  <1>34. ASSUME Tick PROVE Goal
    BY <1>34, <1>c DEF Tick
  <1>35. ASSUME ShutdownBegin PROVE Goal
    BY <1>35, <1>c DEF ShutdownBegin
  <1>36. ASSUME CloseAllConnections PROVE Goal
    BY <1>36, <1>c DEF CloseAllConnections
  <1>37. ASSUME Join PROVE Goal
    BY <1>37, <1>c DEF Join
  <1>38. CASE UNCHANGED vars
    BY <1>38, <1>c DEF vars, out
  <1>39. QED
    BY <1>1, <1>2, <1>3, <1>4, <1>5, <1>6, <1>7, <1>8, <1>9, <1>10, <1>11, <1>12,
       <1>13, <1>14, <1>15, <1>16, <1>17, <1>18, <1>19, <1>20, <1>21, <1>22, <1>23,
       <1>24, <1>25, <1>26, <1>27, <1>28, <1>29, <1>30, <1>31, <1>32, <1>33, <1>34,
       <1>35, <1>36, <1>37, <1>38 DEF Next, ThreadWorker, Sender

LEMMA InitWalkInv == Init => WalkInv
  BY DEF Init, WalkInv, PolledListed, ToScan, Opened, Handling

LEMMA InitStreamInv == Init => StreamInv
  <1> SUFFICES ASSUME Init, NEW c \in Conns PROVE Sending(c)
    BY DEF StreamInv
  <1>1. queued[c] = <<>> /\ sendq[c] = <<>> /\ wire[c] = <<>> /\ Len(<<>>) = 0
    BY DEF Init
  <1>2. InOrder(wire[c], queued[c]) /\ Chain(queued[c], sendq[c], wire[c], sent)
    BY <1>1 DEF InOrder, Chain, UpTo
  <1>3. QED
    BY <1>1, <1>2 DEF Sending, QueueKept, OnceEach, Owned, Suffix, Waiting

\* All that the proofs below know of a state.
NetInv == TypeOK /\ ListInv /\ WalkInv /\ StreamInv

LEMMA InitNetInv == Init => NetInv
  BY InitTypeOK, InitListInv, InitWalkInv, InitStreamInv DEF NetInv

LEMMA NetInvStep == NetInv /\ [Next]_vars => NetInv'
  <1>1. ListInv => Listed
    BY DEF ListInv
  <1>2. QED
    BY <1>1, TypeOKStep, ListInvStep, WalkStep, StreamStep DEF NetInv

(* A peer receives whole buffers in the order in which Send queued them, and    *)
(* none of them twice: the first part is sent by the thread that called Send,  *)
(* the rest in pieces by HandleEventWrite, and neither skips a unit, repeats   *)
(* one or lets a later buffer in between.                                      *)
THEOREM StreamsInOrder == Spec => []StreamInOrder
  <1>1. NetInv => StreamInOrder
    BY DEF NetInv, StreamInv, Sending, StreamInOrder
  <1>2. QED
    BY <1>1, InitNetInv, NetInvStep, PTL DEF Spec

-----------------------------------------------------------------------------
(* References to the buffers.                                                *)

\* A Send that is about to call AddObjRef has not sent its buffer whole, and its
\* connection cannot be sent on any more.
Failing(b) ==
    spc[b] = "failed" => /\ sent[b] < Size[b]
                         /\ Dead(Target[b]) \/ ~soc[Target[b]]

LEMMA StillFailing ==
  ASSUME TypeOK, Opened, NEW b \in Bufs, Failing(b), ConnStep(Target[b]),
         spc'[b] = "failed" => spc[b] = "failed" /\ sent'[b] = sent[b]
  PROVE  Failing(b)'
  <1>1. SUFFICES ASSUME spc'[b] = "failed"
                 PROVE  sent'[b] < Size[b] /\ (Dead(Target[b])' \/ ~soc'[Target[b]])
    BY DEF Failing
  <1>2. spc[b] = "failed" /\ sent'[b] = sent[b]
    BY <1>1
  <1>3. phase[Target[b]] \in Ended
    BY <1>2 DEF Opened
  <1>4. sent[b] < Size[b] /\ (Dead(Target[b]) \/ ~soc[Target[b]])
    BY <1>2 DEF Failing
  <1>5. Dead(Target[b])' \/ ~soc'[Target[b]]
    BY <1>3, <1>4 DEF ConnStep, Ended
  <1>6. QED
    BY <1>2, <1>4, <1>5

LEMMA FailingStep ==
  TypeOK /\ WalkInv /\ StreamInv /\ (\A b \in Bufs : Failing(b)) /\ [Next]_vars
    => \A b \in Bufs : Failing(b)'
  <1> SUFFICES ASSUME TypeOK, WalkInv, StreamInv, \A b \in Bufs : Failing(b), [Next]_vars
               PROVE  \A b \in Bufs : Failing(b)'
    OBVIOUS
  <1> DEFINE Goal == \A b \in Bufs : Failing(b)'
  <1> SUFFICES Goal
    OBVIOUS
  <1>0. ConnsOK /\ SendsOK /\ ThreadOK /\ Opened
    BY DEF TypeOK, WalkInv
  <1>a. ASSUME NEW b \in Bufs, spc'[b] = "failed" => spc[b] = "failed" /\ sent'[b] = sent[b]
        PROVE  Failing(b)'
    BY <1>0, <1>a, EveryConnStep, BufferType, StillFailing
  <1>b. UNCHANGED <<spc, sent>> => Goal
    BY <1>a
  <1>c. ASSUME NEW b \in Bufs, NEW s, s # "failed", spc' = [spc EXCEPT ![b] = s], UNCHANGED sent
        PROVE  Goal
    <2>1. \A a \in Bufs : spc'[a] = "failed" => spc[a] = "failed"
      BY <1>0, <1>c DEF SendsOK
    <2>2. QED
      BY <1>a, <1>c, <2>1
  <1> USE DEF NetFrame, out
  <1> HIDE DEF Goal
  <1>1. ASSUME LoopTop PROVE Goal
    BY <1>1, <1>b DEF LoopTop
  <1>2. ASSUME ScanConn PROVE Goal
    BY <1>2, <1>b DEF ScanConn
  <1>3. ASSUME ScanEnd PROVE Goal
    BY <1>3, <1>b DEF ScanEnd
  <1>4. ASSUME Poll PROVE Goal
    BY <1>4, <1>b DEF Poll
  <1>5. ASSUME HandleEventAccept PROVE Goal
    BY <1>5, <1>b DEF HandleEventAccept
  <1>6. ASSUME NextConn PROVE Goal
    BY <1>6, <1>b DEF NextConn
  <1>7. ASSUME HandleEventRead PROVE Goal
    BY <1>7, <1>b DEF HandleEventRead
  <1>8. ASSUME HandleReadEnd PROVE Goal
    BY <1>8, <1>b DEF HandleReadEnd
  <1>9. ASSUME HandleHup PROVE Goal
    BY <1>9, <1>b DEF HandleHup
  <1>10. ASSUME HandleEventWrite PROVE Goal
    BY <1>10, <1>b DEF HandleEventWrite
  <1>11. ASSUME EventsDone PROVE Goal
    BY <1>11, <1>b DEF EventsDone
  <1>12. ASSUME WriteEmpty PROVE Goal
    BY <1>12, <1>b DEF WriteEmpty
  <1>13. ASSUME WriteBuffer PROVE Goal
    <2> DEFINE c == Head(polled).c
               b == Head(sendq[c])
    <2>1. npc = "write" /\ sendq[c] # <<>>
      BY <1>13 DEF WriteBuffer
    <2>2. /\ b \in Bufs /\ Target[b] = c /\ soc[c] /\ sent[b] \in Nat /\ Size[b] \in Nat
      BY <2>1, WrittenTo
    <2>3. UNCHANGED spc /\ (Dead(c) => sent[b] = Size[b]) /\ \E k : sent' = [sent EXCEPT ![b] = k]
      BY <1>13 DEF WriteBuffer
    <2> HIDE DEF c, b
    <2>4. spc[b] # "failed"
      BY <2>2, <2>3 DEF Failing
    <2>5. \A a \in Bufs : a # b => sent'[a] = sent[a]
      BY <1>0, <2>2, <2>3 DEF SendsOK
    <2>6. QED
      BY <1>a, <2>3, <2>4, <2>5 DEF Goal
  <1>14. ASSUME WriteError PROVE Goal
    BY <1>14, <1>b DEF WriteError
  <1>15. ASSUME ConnsDone PROVE Goal
    BY <1>15, <1>b DEF ConnsDone
  <1>16. ASSUME MoveActive PROVE Goal
    BY <1>16, <1>b DEF MoveActive
  <1>17. ASSUME MoveEnd PROVE Goal
    BY <1>17, <1>b DEF MoveEnd
  <1>18. ASSUME TimeoutBegin PROVE Goal
    BY <1>18, <1>b DEF TimeoutBegin
  <1>19. ASSUME ExpireConn PROVE Goal
    BY <1>19, <1>b DEF ExpireConn
  <1>20. ASSUME ExpireEnd PROVE Goal
    BY <1>20, <1>b DEF ExpireEnd
  <1>21. ASSUME FinalClose PROVE Goal
    BY <1>21, <1>b DEF FinalClose
  <1>22. ASSUME FinalEnd PROVE Goal
    BY <1>22, <1>b DEF FinalEnd
  <1>23. ASSUME NEW b \in Bufs, SendCheck(b) PROVE Goal
    <2>1. PICK s \in {"rejected", "checked"} : spc' = [spc EXCEPT ![b] = s]
      BY <1>23 DEF SendCheck
    <2>2. UNCHANGED sent
      BY <1>23 DEF SendCheck
    <2>3. QED
      BY <1>c, <2>1, <2>2
  <1>24. ASSUME NEW b \in Bufs, SendQueue(b) PROVE Goal
    <2> DEFINE c == Target[b]
    <2>1. CASE writting[c] >= MaxWritting
      BY <1>24, <1>c, <2>1 DEF SendQueue
    <2>2. CASE ~(writting[c] >= MaxWritting)
      <3> DEFINE S(k) == IF sendq[c] # <<>> THEN {"accepted"}
                        ELSE IF ~soc[c] THEN {"failed", "accepted"}
                        ELSE IF Dead(c) /\ k < Size[b] THEN {"failed"}
                        ELSE IF k > 0 THEN {"active"} ELSE {"accepted"}
      <3>0. PICK k \in (IF sendq[c] = <<>> /\ soc[c] THEN 0..Size[b] ELSE {0}) :
              /\ sent' = [sent EXCEPT ![b] = k]
              /\ spc' \in {[spc EXCEPT ![b] = s] : s \in S(k)}
        BY <1>24, <2>2 DEF SendQueue
      <3>1. PICK s \in S(k) : spc' = [spc EXCEPT ![b] = s]
        <4> HIDE DEF S
        <4>1. QED
          BY <3>0
      <3>2. /\ sent'[b] = k /\ spc'[b] = s
            /\ \A a \in Bufs \ {b} : sent'[a] = sent[a] /\ spc'[a] = spc[a]
        BY <1>0, <3>0, <3>1 DEF SendsOK
      <3>3. s = "failed" => k < Size[b] /\ (Dead(c) \/ ~soc[c])
        <4>1. Size[b] \in Nat \ {0}
          BY BufferType
        <4>2. ~soc[c] => k = 0
          BY <3>0
        <4>3. QED
          BY <3>1, <4>1, <4>2
      <3>4. UNCHANGED <<soc, shut, broken>>
        BY <1>24 DEF SendQueue, flags, peer
      <3>5. Failing(b)'
        BY <3>2, <3>3, <3>4 DEF Failing, Dead
      <3>6. QED
        BY <1>a, <3>2, <3>5 DEF Goal
    <2>3. QED
      BY <2>1, <2>2
  <1>25. ASSUME NEW b \in Bufs, SendFail(b) PROVE Goal
    BY <1>25, <1>c DEF SendFail
  <1>26. ASSUME NEW b \in Bufs, CallerRelease(b) PROVE Goal
    BY <1>26, <1>c DEF CallerRelease
  <1>27. ASSUME NEW b \in Bufs, SendActive(b) PROVE Goal
    BY <1>27, <1>c DEF SendActive
  <1>28. ASSUME NEW b \in Bufs, SendMove(b) PROVE Goal
    BY <1>28, <1>c DEF SendMove
  <1>29. ASSUME NEW c \in Conns, AppClose(c) PROVE Goal
    BY <1>29, <1>b DEF AppClose
  <1>30. ASSUME NEW c \in Conns, Destroy(c) PROVE Goal
    BY <1>30, <1>b DEF Destroy
  <1>31. ASSUME NEW c \in Conns, PeerConnect(c) PROVE Goal
    BY <1>31, <1>b DEF PeerConnect
  <1>32. ASSUME NEW c \in Conns, PeerSend(c) PROVE Goal
    BY <1>32, <1>b DEF PeerSend
  <1>33. ASSUME NEW c \in Conns, PeerGone(c) PROVE Goal
    BY <1>33, <1>b DEF PeerGone
  <1>34. ASSUME Tick PROVE Goal
    BY <1>34, <1>b DEF Tick
  <1>35. ASSUME ShutdownBegin PROVE Goal
    BY <1>35, <1>b DEF ShutdownBegin
  <1>36. ASSUME CloseAllConnections PROVE Goal
    BY <1>36, <1>b DEF CloseAllConnections
  <1>37. ASSUME Join PROVE Goal
    BY <1>37, <1>b DEF Join
  <1>38. CASE UNCHANGED vars
    BY <1>38, <1>b DEF vars
  <1>39. QED
    BY <1>1, <1>2, <1>3, <1>4, <1>5, <1>6, <1>7, <1>8, <1>9, <1>10, <1>11, <1>12,
       <1>13, <1>14, <1>15, <1>16, <1>17, <1>18, <1>19, <1>20, <1>21, <1>22, <1>23,
       <1>24, <1>25, <1>26, <1>27, <1>28, <1>29, <1>30, <1>31, <1>32, <1>33, <1>34,
       <1>35, <1>36, <1>37, <1>38 DEF Next, ThreadWorker, Sender

\* A step that leaves the references to b balanced: their number changes as that of those
\* who hold one does.  No reference is given up by a Send that is about to take another.
RefStep(b) ==
    /\ refs'[b] - Owners(b)' = refs[b] - Owners(b)
    /\ spc'[b] = "failed" => refs'[b] = refs[b] /\ spc[b] \in {"checked", "failed"}

LEMMA OwnersType == ASSUME NEW b PROVE Owners(b) \in Nat
  BY DEF Owners

LEMMA SameReferences ==
  ASSUME SendsOK, NEW b \in Bufs, spc'[b] = spc[b], refs'[b] = refs[b],
         In(b, sendq'[Target[b]]) <=> In(b, sendq[Target[b]])
  PROVE  RefStep(b)
  <1>1. Owners(b)' = Owners(b)
    BY DEF Owners, InQueue
  <1>2. QED
    BY <1>1 DEF RefStep

\* A queue holds its buffers once, and loses the first one when that is taken out.
LEMMA TakenOut ==
  ASSUME SendsOK, NEW c \in Conns, Sending(c), sendq[c] # <<>>, NEW d
  PROVE  /\ In(Head(sendq[c]), sendq[c])
         /\ In(d, Tail(sendq[c])) <=> In(d, sendq[c]) /\ d # Head(sendq[c])
  <1> DEFINE s == sendq[c]
             t == Tail(s)
             q == queued[c]
  <1>1. s \in Seq(Bufs) /\ s # <<>> /\ q \in Seq(Bufs) /\ Suffix(s, q) /\ OnceEach(q)
    BY StreamTypes DEF Sending, QueueKept
  <1> HIDE DEF s, q
  <1>2. /\ Len(s) \in Nat /\ Len(t) = Len(s) - 1 /\ Head(s) = s[1] /\ 1 \in 1..Len(s)
        /\ \A i \in 1..Len(t) : t[i] = s[i + 1]
    BY <1>1, HeadTailProperties, EmptySeq
  <1>3. In(d, s) => d = Head(s) \/ In(d, t)
    BY <1>1, TailMembers
  <1> HIDE DEF t
  <1>4. ASSUME NEW i \in 1..Len(t), t[i] = d PROVE In(d, s) /\ d # Head(s)
    <2>1. i + 1 \in 1..Len(s) /\ i + 1 # 1
      BY <1>2
    <2>2. s[i + 1] = d
      BY <1>2, <1>4
    <2>3. d # s[1]
      BY <1>1, <1>2, <2>1, <2>2, SuffixOnce
    <2>4. QED
      BY <1>2, <2>1, <2>2, <2>3 DEF In
  <1>5. In(Head(s), s)
    BY <1>2 DEF In
  <1>6. QED
    BY <1>3, <1>4, <1>5 DEF In, s, t

LEMMA BalancedStep ==
  TypeOK /\ WalkInv /\ StreamInv /\ (\A b \in Bufs : Failing(b)) /\ [Next]_vars
    => WriteError \/ \A b \in Bufs : RefStep(b)
  <1> SUFFICES ASSUME TypeOK, WalkInv, StreamInv, \A b \in Bufs : Failing(b), [Next]_vars
               PROVE  WriteError \/ \A b \in Bufs : RefStep(b)
    OBVIOUS
  <1> DEFINE Goal == WriteError \/ \A b \in Bufs : RefStep(b)
  <1> SUFFICES Goal
    OBVIOUS
  <1>0. ConnsOK /\ SendsOK /\ ThreadOK
    BY DEF TypeOK
  <1>a. ASSUME UNCHANGED <<spc, refs, sendq>> PROVE Goal
    BY <1>0, <1>a, SameReferences
  <1>b. ASSUME NEW b \in Bufs, RefStep(b),
               \A a \in Bufs \ {b} : /\ spc'[a] = spc[a] /\ refs'[a] = refs[a]
                                     /\ In(a, sendq'[Target[a]]) <=> In(a, sendq[Target[a]])
        PROVE  Goal
    <2>1. \A a \in Bufs : a # b => RefStep(a)
      BY <1>0, <1>b, SameReferences
    <2>2. QED
      BY <1>b, <2>1
  <1> DEFINE Waits(s) == IF s \in {"new", "checked", "rejected"} THEN 1 ELSE 0
  <1>c. ASSUME NEW b \in Bufs, NEW s, s # "failed", spc' = [spc EXCEPT ![b] = s], UNCHANGED sendq,
               \A a \in Bufs \ {b} : refs'[a] = refs[a],
               refs'[b] = refs[b] + (Waits(s) - Waits(spc[b]))
        PROVE  Goal
    <2>1. spc'[b] = s /\ \A a \in Bufs \ {b} : spc'[a] = spc[a]
      BY <1>0, <1>c DEF SendsOK
    <2>2. /\ Owners(b)' - Owners(b) = Waits(s) - Waits(spc[b])
          /\ Owners(b)' \in Int /\ Owners(b) \in Int /\ Waits(s) - Waits(spc[b]) \in Int
      BY <1>c, <2>1 DEF Owners, InQueue
    <2>3. refs[b] \in Int
      BY <1>0 DEF SendsOK
    <2> HIDE DEF Waits
    <2>4. refs'[b] - Owners(b)' = refs[b] - Owners(b)
      <3> DEFINE w == Waits(s) - Waits(spc[b])
      <3>1. w \in Int /\ refs'[b] = refs[b] + w /\ Owners(b)' - Owners(b) = w
        BY <1>c, <2>2
      <3> HIDE DEF w
      <3>2. QED
        BY <2>2, <2>3, <3>1
    <2>5. RefStep(b)
      BY <1>c, <2>1, <2>4 DEF RefStep
    <2>6. QED
      BY <1>b, <1>c, <2>1, <2>5
  <1> USE DEF NetFrame, out
  <1> HIDE DEF Goal, Waits
  <1>1. ASSUME LoopTop PROVE Goal
    BY <1>1, <1>a DEF LoopTop
  <1>2. ASSUME ScanConn PROVE Goal
    BY <1>2, <1>a DEF ScanConn
  <1>3. ASSUME ScanEnd PROVE Goal
    BY <1>3, <1>a DEF ScanEnd
  <1>4. ASSUME Poll PROVE Goal
    BY <1>4, <1>a DEF Poll
  <1>5. ASSUME HandleEventAccept PROVE Goal
    BY <1>5, <1>a DEF HandleEventAccept
  <1>6. ASSUME NextConn PROVE Goal
    BY <1>6, <1>a DEF NextConn
  <1>7. ASSUME HandleEventRead PROVE Goal
    BY <1>7, <1>a DEF HandleEventRead
  <1>8. ASSUME HandleReadEnd PROVE Goal
    BY <1>8, <1>a DEF HandleReadEnd
  <1>9. ASSUME HandleHup PROVE Goal
    BY <1>9, <1>a DEF HandleHup
  <1>10. ASSUME HandleEventWrite PROVE Goal
    BY <1>10, <1>a DEF HandleEventWrite
  <1>11. ASSUME EventsDone PROVE Goal
    BY <1>11, <1>a DEF EventsDone
  <1>12. ASSUME WriteEmpty PROVE Goal
    BY <1>12, <1>a DEF WriteEmpty
  <1>13. ASSUME WriteBuffer PROVE Goal
    <2>1. npc = "write" /\ sendq[Head(polled).c] # <<>>
      BY <1>13 DEF WriteBuffer
    <2>a. PICK c \in Conns, b \in Bufs : c = Head(polled).c /\ b = Head(sendq[c])
      BY <2>1, WrittenTo
    <2>2. Sending(c) /\ Target[b] = c /\ soc[c] /\ sent[b] \in Nat /\ Size[b] \in Nat
      BY <2>1, <2>a, WrittenTo
    <2>3. /\ UNCHANGED spc /\ (Dead(c) => sent[b] = Size[b])
          /\ \/ /\ sendq' = [sendq EXCEPT ![c] = Tail(@)]
                /\ refs' = [refs EXCEPT ![b] = @ - 1]
             \/ UNCHANGED <<sendq, refs>>
      BY <1>13, <2>a DEF WriteBuffer
    <2>4. In(b, sendq[c]) /\ \A d : In(d, Tail(sendq[c])) <=> In(d, sendq[c]) /\ d # b
      BY <1>0, <2>1, <2>2, <2>a, TakenOut
    <2>5. spc[b] # "failed"
      BY <2>2, <2>3 DEF Failing
    <2>6. CASE UNCHANGED <<sendq, refs>>
      BY <1>a, <2>3, <2>6
    <2>7. CASE sendq' = [sendq EXCEPT ![c] = Tail(@)] /\ refs' = [refs EXCEPT ![b] = @ - 1]
      <3>1. sendq'[c] = Tail(sendq[c]) /\ \A d \in Conns : d # c => sendq'[d] = sendq[d]
        BY <1>0, <2>2, <2>7 DEF SendsOK
      <3>2. /\ refs'[b] = refs[b] - 1 /\ refs[b] \in Int
            /\ \A a \in Bufs \ {b} : refs'[a] = refs[a]
        BY <1>0, <2>2, <2>7 DEF SendsOK
      <3>3. ~In(b, sendq'[c]) /\ In(b, sendq[c])
        BY <2>4, <3>1
      <3>4. Owners(b)' = Owners(b) - 1 /\ Owners(b) \in Int
        BY <2>2, <2>3, <3>3 DEF Owners, InQueue
      <3>5. RefStep(b)
        BY <2>3, <2>5, <3>2, <3>4 DEF RefStep
      <3>6. \A a \in Bufs \ {b} : In(a, sendq'[Target[a]]) <=> In(a, sendq[Target[a]])
        BY <2>4, <3>1, BufferType
      <3>7. QED
        BY <1>b, <2>2, <2>3, <3>2, <3>5, <3>6
    <2>8. QED
      BY <2>3, <2>6, <2>7
  <1>14. ASSUME WriteError PROVE Goal
    BY <1>14 DEF Goal
  <1>15. ASSUME ConnsDone PROVE Goal
    BY <1>15, <1>a DEF ConnsDone
  <1>16. ASSUME MoveActive PROVE Goal
    BY <1>16, <1>a DEF MoveActive
  <1>17. ASSUME MoveEnd PROVE Goal
    BY <1>17, <1>a DEF MoveEnd
  <1>18. ASSUME TimeoutBegin PROVE Goal
    BY <1>18, <1>a DEF TimeoutBegin
  <1>19. ASSUME ExpireConn PROVE Goal
    BY <1>19, <1>a DEF ExpireConn
  <1>20. ASSUME ExpireEnd PROVE Goal
    BY <1>20, <1>a DEF ExpireEnd
  <1>21. ASSUME FinalClose PROVE Goal
    BY <1>21, <1>a DEF FinalClose
  <1>22. ASSUME FinalEnd PROVE Goal
    BY <1>22, <1>a DEF FinalEnd
  <1>23. ASSUME NEW b \in Bufs, SendCheck(b) PROVE Goal
    <2>1. PICK s \in {"rejected", "checked"} : spc' = [spc EXCEPT ![b] = s]
      BY <1>23 DEF SendCheck
    <2>2. spc[b] = "new" /\ UNCHANGED <<sendq, refs>>
      BY <1>23 DEF SendCheck
    <2>3. refs'[b] = refs[b] + (Waits(s) - Waits(spc[b]))
      BY <1>0, <2>1, <2>2 DEF SendsOK, Waits
    <2>4. QED
      BY <1>c, <2>1, <2>2, <2>3
  <1>24. ASSUME NEW b \in Bufs, SendQueue(b) PROVE Goal
    <2> DEFINE c == Target[b]
    <2>1. spc[b] = "checked" /\ UNCHANGED refs /\ c \in Conns
      BY <1>24, BufferType DEF SendQueue
    <2>2. CASE writting[c] >= MaxWritting
      <3>1. spc' = [spc EXCEPT ![b] = "rejected"] /\ UNCHANGED sendq
        BY <1>24, <2>2 DEF SendQueue
      <3>2. refs'[b] = refs[b] + (Waits("rejected") - Waits(spc[b]))
        BY <1>0, <2>1 DEF SendsOK, Waits
      <3>3. QED
        BY <1>c, <2>1, <3>1, <3>2
    <2>3. CASE ~(writting[c] >= MaxWritting)
      <3>1. /\ sendq' = [sendq EXCEPT ![c] = Append(@, b)]
            /\ \E s \in {"accepted", "failed", "active"} : spc' = [spc EXCEPT ![b] = s]
        BY <1>24, <2>3 DEF SendQueue
      <3>2. spc'[b] \in {"accepted", "failed", "active"} /\ \A a \in Bufs \ {b} : spc'[a] = spc[a]
        BY <1>0, <3>1 DEF SendsOK
      <3>3. sendq[c] \in Seq(Bufs) /\ sendq'[c] = Append(sendq[c], b)
        BY <1>0, <2>1, <3>1 DEF SendsOK
      <3>4. /\ In(b, sendq'[c])
            /\ \A a \in Bufs \ {b} : In(a, sendq'[Target[a]]) <=> In(a, sendq[Target[a]])
        <4>1. \A d : In(d, sendq'[c]) <=> In(d, sendq[c]) \/ d = b
          BY <3>3, AppendMembers
        <4>2. \A d \in Conns : d # c => sendq'[d] = sendq[d]
          BY <1>0, <3>1 DEF SendsOK
        <4>3. QED
          BY <4>1, <4>2, BufferType
      <3>5. ~In(b, sendq[c])
        <4>1. Sending(c)
          BY <2>1 DEF StreamInv
        <4>2. ~In(b, queued[c])
          BY <2>1, <4>1, NotQueued
        <4>3. Suffix(sendq[c], queued[c]) /\ queued[c] \in Seq(Bufs)
          BY <1>0, <2>1, <4>1, StreamTypes DEF Sending, QueueKept
        <4>4. \A i \in 1..Len(sendq[c]) : In(sendq[c][i], queued[c])
          BY <3>3, <4>3, SuffixMembers
        <4>5. QED
          BY <4>2, <4>4 DEF In
      <3>6. Owners(b)' = 1 /\ Owners(b) = 1
        BY <2>1, <3>2, <3>4, <3>5 DEF Owners, InQueue
      <3>7. RefStep(b)
        BY <2>1, <3>6 DEF RefStep
      <3>8. QED
        BY <1>b, <2>1, <3>2, <3>4, <3>7
    <2>4. QED
      BY <2>2, <2>3
  <1>25. ASSUME NEW b \in Bufs, SendFail(b) PROVE Goal
    <2>1. /\ spc[b] = "failed" /\ spc' = [spc EXCEPT ![b] = "rejected"] /\ UNCHANGED sendq
          /\ refs' = [refs EXCEPT ![b] = @ + 1]
      BY <1>25 DEF SendFail
    <2>2. Waits("rejected") - Waits(spc[b]) = 1
      BY <2>1 DEF Waits
    <2>3. refs'[b] = refs[b] + 1 /\ \A a \in Bufs \ {b} : refs'[a] = refs[a]
      BY <1>0, <2>1 DEF SendsOK
    <2>4. QED
      BY <1>c, <2>1, <2>2, <2>3
  <1>26. ASSUME NEW b \in Bufs, CallerRelease(b) PROVE Goal
    <2>1. /\ spc[b] = "rejected" /\ spc' = [spc EXCEPT ![b] = "returned"] /\ UNCHANGED sendq
          /\ refs' = [refs EXCEPT ![b] = @ - 1]
      BY <1>26 DEF CallerRelease
    <2>2. Waits("returned") - Waits(spc[b]) = -1
      BY <2>1 DEF Waits
    <2>3. refs'[b] = refs[b] + (-1) /\ \A a \in Bufs \ {b} : refs'[a] = refs[a]
      BY <1>0, <2>1 DEF SendsOK
    <2>4. QED
      BY <1>c, <2>1, <2>2, <2>3
  <1>27. ASSUME NEW b \in Bufs, SendActive(b) PROVE Goal
    <2>1. /\ spc[b] = "active" /\ spc' = [spc EXCEPT ![b] = "move"] /\ UNCHANGED sendq
          /\ UNCHANGED refs
      BY <1>27 DEF SendActive
    <2>2. Waits("move") - Waits(spc[b]) = 0
      BY <2>1 DEF Waits
    <2>3. refs'[b] = refs[b] + 0 /\ \A a \in Bufs \ {b} : refs'[a] = refs[a]
      BY <1>0, <2>1 DEF SendsOK
    <2>4. QED
      BY <1>c, <2>1, <2>2, <2>3
  <1>28. ASSUME NEW b \in Bufs, SendMove(b) PROVE Goal
    <2>1. /\ spc[b] = "move" /\ spc' = [spc EXCEPT ![b] = "accepted"] /\ UNCHANGED sendq
          /\ UNCHANGED refs
      BY <1>28 DEF SendMove
    <2>2. Waits("accepted") - Waits(spc[b]) = 0
      BY <2>1 DEF Waits
    <2>3. refs'[b] = refs[b] + 0 /\ \A a \in Bufs \ {b} : refs'[a] = refs[a]
      BY <1>0, <2>1 DEF SendsOK
    <2>4. QED
      BY <1>c, <2>1, <2>2, <2>3
  <1>29. ASSUME NEW c \in Conns, AppClose(c) PROVE Goal
    BY <1>29, <1>a DEF AppClose
  <1>30. ASSUME NEW c \in Conns, Destroy(c) PROVE Goal
    <2>1. /\ UNCHANGED spc /\ sendq'[c] = <<>> /\ \A d \in Conns : d # c => sendq'[d] = sendq[d]
          /\ \A b \in Bufs : refs'[b] = IF In(b, sendq[c]) THEN refs[b] - 1 ELSE refs[b]
          /\ \A b \in Bufs : Target[b] = c => spc[b] # "failed"
      BY <1>30, <1>0 DEF Destroy, SendsOK
    <2>2. ASSUME NEW b \in Bufs PROVE RefStep(b)
      <3>0. Target[b] \in Conns
        BY BufferType
      <3>1. In(b, sendq[c]) => Target[b] = c
        <4>1. Sending(c) /\ sendq[c] \in Seq(Bufs) /\ queued[c] \in Seq(Bufs)
          BY <1>0, StreamTypes DEF StreamInv
        <4>2. \A i \in 1..Len(sendq[c]) : In(sendq[c][i], queued[c])
          BY <4>1, SuffixMembers DEF Sending, QueueKept
        <4>3. \A d : In(d, queued[c]) => Target[d] = c
          BY <4>1 DEF In, Sending, QueueKept, Owned
        <4>4. QED
          BY <4>2, <4>3 DEF In
      <3>2. CASE In(b, sendq[c])
        <4>1. refs'[b] = refs[b] - 1 /\ refs[b] \in Int /\ spc'[b] = spc[b] /\ spc'[b] # "failed"
          BY <1>0, <2>1, <3>1, <3>2 DEF SendsOK
        <4>2. ~In(b, sendq'[Target[b]]) /\ In(b, sendq[Target[b]])
          <5>1. ~In(b, <<>>)
            BY DEF In
          <5>2. QED
            BY <2>1, <3>1, <3>2, <5>1
        <4>3. Owners(b)' = Owners(b) - 1 /\ Owners(b) \in Int
          BY <4>1, <4>2 DEF Owners, InQueue
        <4>4. QED
          BY <4>1, <4>3 DEF RefStep
      <3>3. CASE ~In(b, sendq[c])
        <4>1. ~In(b, <<>>)
          BY DEF In
        <4>2. In(b, sendq'[Target[b]]) <=> In(b, sendq[Target[b]])
          BY <2>1, <3>0, <3>3, <4>1
        <4>3. spc'[b] = spc[b] /\ refs'[b] = refs[b]
          BY <2>1, <3>3
        <4>4. QED
          BY <1>0, <4>2, <4>3, SameReferences
      <3>4. QED
        BY <3>2, <3>3
    <2>3. QED
      BY <2>2 DEF Goal
  <1>31. ASSUME NEW c \in Conns, PeerConnect(c) PROVE Goal
    BY <1>31, <1>a DEF PeerConnect
  <1>32. ASSUME NEW c \in Conns, PeerSend(c) PROVE Goal
    BY <1>32, <1>a DEF PeerSend
  <1>33. ASSUME NEW c \in Conns, PeerGone(c) PROVE Goal
    BY <1>33, <1>a DEF PeerGone
  <1>34. ASSUME Tick PROVE Goal
    BY <1>34, <1>a DEF Tick
  <1>35. ASSUME ShutdownBegin PROVE Goal
    BY <1>35, <1>a DEF ShutdownBegin
  <1>36. ASSUME CloseAllConnections PROVE Goal
    BY <1>36, <1>a DEF CloseAllConnections
  <1>37. ASSUME Join PROVE Goal
    BY <1>37, <1>a DEF Join
  <1>38. CASE UNCHANGED vars
    BY <1>38, <1>a DEF vars
  <1>39. QED
    BY <1>1, <1>2, <1>3, <1>4, <1>5, <1>6, <1>7, <1>8, <1>9, <1>10, <1>11, <1>12,
       <1>13, <1>14, <1>15, <1>16, <1>17, <1>18, <1>19, <1>20, <1>21, <1>22, <1>23,
       <1>24, <1>25, <1>26, <1>27, <1>28, <1>29, <1>30, <1>31, <1>32, <1>33, <1>34,
       <1>35, <1>36, <1>37, <1>38 DEF Next, ThreadWorker, Sender

RefInv == ReferencesOwned /\ \A b \in Bufs : Failing(b)

LEMMA InitRefInv == Init => RefInv
  <1> SUFFICES ASSUME Init PROVE RefInv
    OBVIOUS
  <1>1. ASSUME NEW b \in Bufs PROVE refs[b] = 1 /\ Owners(b) = 1 /\ spc[b] # "failed"
    <2>1. ~In(b, sendq[Target[b]])
      BY BufferType DEF Init, In
    <2>2. QED
      BY <2>1 DEF Init, Owners, InQueue
  <1>2. LeftOver = {}
    BY <1>1 DEF LeftOver
  <1>3. QED
    BY <1>1, <1>2 DEF RefInv, ReferencesOwned, Failing

\* A step in which the references stay balanced adds nothing to what is left over.
LEMMA BalancedRefs ==
  ASSUME SendsOK, SendsOK', RefInv, \A b \in Bufs : RefStep(b), \A c \in Conns : ConnStep(c)
  PROVE  ReferencesOwned'
  <1>1. ASSUME NEW b \in Bufs
        PROVE  /\ refs[b] >= Owners(b) => refs'[b] >= Owners(b)'
               /\ refs'[b] > Owners(b)' => refs[b] > Owners(b)
    <2>1. refs[b] \in Int /\ refs'[b] \in Int /\ Owners(b) \in Nat
      BY OwnersType DEF SendsOK
    <2>2. Owners(b)' \in Nat
      BY DEF Owners
    <2>3. refs'[b] - Owners(b)' = refs[b] - Owners(b)
      BY DEF RefStep
    <2>4. QED
      BY <2>1, <2>2, <2>3
  <1>2. ASSUME NEW b \in Bufs, spc'[b] = "failed" PROVE refs'[b] > 0
    <2>1. refs'[b] = refs[b] /\ spc[b] \in {"checked", "failed"} /\ refs[b] \in Int
      BY <1>2 DEF RefStep, SendsOK
    <2>2. spc[b] = "checked" => Owners(b) >= 1 /\ Owners(b) \in Nat
      BY DEF Owners
    <2>3. refs[b] > 0
      BY <2>1, <2>2 DEF RefInv, ReferencesOwned
    <2>4. QED
      BY <2>1, <2>3
  <1>3. LeftOver' \subseteq LeftOver
    BY <1>1 DEF LeftOver
  <1>4. ASSUME NEW b \in LeftOver
        PROVE  phase'[Target[b]] \in {"closed", "destroyed"} /\ Dead(Target[b])'
    <2>1. Target[b] \in Conns
      BY BufferType DEF LeftOver
    <2>2. QED
      BY <2>1 DEF RefInv, ReferencesOwned, ConnStep
  <1>5. \A a, b \in LeftOver' : Target[a] = Target[b] => a = b
    BY <1>3 DEF RefInv, ReferencesOwned
  <1>6. \A b \in Bufs : refs'[b] >= Owners(b)'
    BY <1>1 DEF RefInv, ReferencesOwned
  <1>7. QED
    BY <1>2, <1>3, <1>4, <1>5, <1>6 DEF ReferencesOwned

\* WriteError leaves one buffer over, on a connection that had none.
LEMMA ErrorRefs ==
  ASSUME TypeOK, WalkInv, StreamInv, RefInv, WriteError
  PROVE  ReferencesOwned'
  <1>0. ConnsOK /\ SendsOK
    BY DEF TypeOK
  <1>1. npc = "write" /\ sendq[Head(polled).c] # <<>>
    BY DEF WriteError
  <1>2. PICK c \in Conns, b \in Bufs : c = Head(polled).c /\ b = Head(sendq[c])
    BY <1>1, WrittenTo
  <1>3. phase[c] = "listed" /\ Sending(c) /\ Target[b] = c
    BY <1>1, <1>2, WrittenTo
  <1>4. /\ UNCHANGED <<spc, refs, shut, broken>> /\ Dead(c)
        /\ sendq' = [sendq EXCEPT ![c] = Tail(@)] /\ phase' = [phase EXCEPT ![c] = "closed"]
    BY <1>2 DEF WriteError, CloseCtx, peer
  <1>5. sendq'[c] = Tail(sendq[c]) /\ \A d \in Conns : d # c => sendq'[d] = sendq[d]
    BY <1>0, <1>4 DEF SendsOK
  <1>6. In(b, sendq[c]) /\ \A d : In(d, sendq'[c]) <=> In(d, sendq[c]) /\ d # b
    BY <1>0, <1>1, <1>2, <1>3, <1>5, TakenOut
  <1>7. /\ InQueue(b) /\ ~InQueue(b)'
        /\ \A a \in Bufs \ {b} : InQueue(a)' <=> InQueue(a)
    BY <1>3, <1>5, <1>6, BufferType DEF InQueue
  <1>8. /\ Owners(b)' = Owners(b) - 1
        /\ \A a \in Bufs \ {b} : Owners(a)' = Owners(a)
    BY <1>4, <1>7 DEF Owners
  <1>9. \A a \in Bufs : refs[a] \in Int /\ Owners(a) \in Nat /\ refs'[a] = refs[a]
    BY <1>0, <1>4, OwnersType DEF SendsOK
  <1>10. \A a \in Bufs : refs'[a] >= Owners(a)' /\ (spc'[a] = "failed" => refs'[a] > 0)
    BY <1>4, <1>8, <1>9 DEF RefInv, ReferencesOwned
  <1>11. ASSUME NEW a \in LeftOver' PROVE a = b \/ (a \in LeftOver /\ Target[a] # c)
    <2>1. a # b => a \in LeftOver
      BY <1>8, <1>9 DEF LeftOver
    <2>2. a \in LeftOver => phase[Target[a]] # "listed"
      BY DEF RefInv, ReferencesOwned
    <2>3. QED
      BY <1>3, <2>1, <2>2
  <1>12. phase'[c] = "closed" /\ \A d \in Conns : d # c => phase'[d] = phase[d]
    BY <1>0, <1>4 DEF ConnsOK
  <1>13. \A a \in LeftOver' : phase'[Target[a]] \in {"closed", "destroyed"} /\ Dead(Target[a])'
    <2>1. \A d : Dead(d)' <=> Dead(d)
      BY <1>4 DEF Dead
    <2>2. \A a \in LeftOver : a \in Bufs /\ Target[a] \in Conns
      BY BufferType DEF LeftOver
    <2>3. QED
      BY <1>3, <1>4, <1>11, <1>12, <2>1, <2>2 DEF RefInv, ReferencesOwned
  <1>14. \A a, d \in LeftOver' : Target[a] = Target[d] => a = d
    BY <1>3, <1>11 DEF RefInv, ReferencesOwned
  <1>15. QED
    BY <1>10, <1>13, <1>14 DEF ReferencesOwned

LEMMA RefInvStep == NetInv /\ RefInv /\ [Next]_vars => RefInv'
  <1> SUFFICES ASSUME NetInv, RefInv, [Next]_vars PROVE RefInv'
    OBVIOUS
  <1>1. TypeOK /\ WalkInv /\ StreamInv /\ SendsOK /\ \A b \in Bufs : Failing(b)
    BY DEF NetInv, TypeOK, RefInv
  <1>2. \A b \in Bufs : Failing(b)'
    BY <1>1, FailingStep
  <1>3. SendsOK'
    BY <1>1, TypeOKStep DEF TypeOK
  <1>4. WriteError \/ \A b \in Bufs : RefStep(b)
    BY <1>1, BalancedStep
  <1>5. ReferencesOwned'
    BY <1>1, <1>3, <1>4, ErrorRefs, BalancedRefs, EveryConnStep
  <1>6. QED
    BY <1>2, <1>5 DEF RefInv

(* Whoever may still touch a buffer holds a reference to it, and a buffer is    *)
(* never released too often: Send takes its reference for a refused buffer     *)
(* after it gave up the lock, while the network thread or the destructor of    *)
(* the connection may release the one of the queue.  A buffer is left over on  *)
(* a connection that ended in a hard error only, one at most.                  *)
THEOREM BuffersOwned == Spec => []ReferencesOwned
  <1>1. Init => NetInv /\ RefInv
    BY InitNetInv, InitRefInv
  <1>2. (NetInv /\ RefInv) /\ [Next]_vars => (NetInv /\ RefInv)'
    BY NetInvStep, RefInvStep
  <1>3. RefInv => ReferencesOwned
    BY DEF RefInv
  <1>4. QED
    BY <1>1, <1>2, <1>3, PTL DEF Spec

-----------------------------------------------------------------------------
(* The bytes that are still to be sent.                                      *)

\* The units i + 1 to j of a buffer.
Piece(b, i, j) == {b} \X ((i + 1)..j)

\* B is A and a piece of a buffer that is not in A.
Adds(A, B, b, i, j) ==
    i <= j /\ B = A \cup Piece(b, i, j) /\ A \cap Piece(b, i, j) = {}

\* What is known of m_nWrittingBytes: that it counts the units still to be sent, as
\* long as the connection was not removed, and that it never passed the limit by a
\* whole buffer.
Counts(c) ==
    /\ IsFiniteSet(Unsent(c))
    /\ phase[c] \notin {"closed", "destroyed"} => writting[c] = Cardinality(Unsent(c))
Limited(c) ==
    writting[c] > 0 => \E b \in Bufs : Target[b] = c /\ writting[c] < MaxWritting + Size[b]
ByteInv == \A c \in Conns : Counts(c) /\ Limited(c)

LEMMA PieceSize ==
  ASSUME NEW b, NEW i \in Nat, NEW j \in Nat, i <= j
  PROVE  IsFiniteSet(Piece(b, i, j)) /\ Cardinality(Piece(b, i, j)) = j - i
  <1> DEFINE T == (i + 1)..j
  <1>1. IsFiniteSet(T) /\ Cardinality(T) = IF i + 1 > j THEN 0 ELSE j - (i + 1) + 1
    <2>1. i + 1 \in Int /\ j \in Int
      OBVIOUS
    <2>2. QED
      BY <2>1, FS_Interval
  <1>2. Cardinality(T) = j - i
    BY <1>1
  <1>3. IsFiniteSet({b}) /\ Cardinality({b}) = 1
    BY FS_Singleton
  <1>4. IsFiniteSet({b} \X T) /\ Cardinality({b} \X T) = Cardinality({b}) * Cardinality(T)
    BY <1>1, <1>3, FS_Product
  <1>5. 1 * (j - i) = j - i
    OBVIOUS
  <1> HIDE DEF T
  <1>6. Cardinality({b} \X T) = j - i
    BY <1>2, <1>3, <1>4, <1>5
  <1>7. QED
    BY <1>4, <1>6 DEF Piece, T

\* A piece of a buffer that is added to a set or taken out of it counts for its length.
LEMMA PieceCounts ==
  ASSUME NEW A, NEW B, NEW b, NEW i \in Nat, NEW j \in Nat, Adds(A, B, b, i, j),
         IsFiniteSet(A) \/ IsFiniteSet(B)
  PROVE  /\ IsFiniteSet(A) /\ IsFiniteSet(B)
         /\ Cardinality(A) \in Nat /\ Cardinality(B) \in Nat
         /\ Cardinality(B) = Cardinality(A) + (j - i)
  <1> DEFINE P == Piece(b, i, j)
  <1>1. IsFiniteSet(P) /\ Cardinality(P) = j - i
    BY PieceSize DEF Adds
  <1>2. B = A \cup P /\ A \cap P = {}
    BY DEF Adds
  <1> HIDE DEF P
  <1>3. IsFiniteSet(A)
    <2>1. A \in SUBSET B
      BY <1>2
    <2>2. QED
      BY <2>1, FS_Subset
  <1>4. /\ IsFiniteSet(B)
        /\ Cardinality(B) = Cardinality(A) + Cardinality(P) - Cardinality(A \cap P)
    BY <1>1, <1>2, <1>3, FS_Union
  <1>5. Cardinality(A \cap P) = 0
    BY <1>2, FS_EmptySet
  <1>6. Cardinality(A) \in Nat /\ Cardinality(B) \in Nat
    BY <1>3, <1>4, FS_CardinalityType
  <1>7. Cardinality(B) = Cardinality(A) + (j - i)
    BY <1>1, <1>4, <1>5, <1>6
  <1>8. QED
    BY <1>3, <1>4, <1>6, <1>7

LEMMA UnsentMember ==
  ASSUME NEW c, NEW x
  PROVE  x \in Unsent(c) <=>
           \E a \in Bufs : /\ Target[a] = c /\ In(a, sendq[c])
                           /\ \E i \in (sent[a] + 1)..Size[a] : x = <<a, i>>
  BY DEF Unsent, InQueue

LEMMA UnsentMemberNext ==
  ASSUME NEW c, NEW x
  PROVE  x \in Unsent(c)' <=>
           \E a \in Bufs : /\ Target[a] = c /\ In(a, sendq'[c])
                           /\ \E i \in (sent'[a] + 1)..Size[a] : x = <<a, i>>
  BY DEF Unsent, InQueue

LEMMA PieceMember ==
  ASSUME NEW b, NEW i, NEW j, NEW x
  PROVE  x \in Piece(b, i, j) <=> \E n \in (i + 1)..j : x = <<b, n>>
  BY DEF Piece

\* A connection on which nothing is queued, sent or counted keeps its count.
LEMMA SameCount ==
  ASSUME NEW c \in Conns, Counts(c), ConnStep(c), sendq'[c] = sendq[c],
         writting'[c] = writting[c], \A b \in Bufs : Target[b] = c => sent'[b] = sent[b]
  PROVE  Counts(c)'
  <1>1. \A x : x \in Unsent(c)' <=> x \in Unsent(c)
    BY UnsentMember, UnsentMemberNext
  <1>2. Unsent(c)' = Unsent(c)
    BY <1>1
  <1>3. phase'[c] \notin {"closed", "destroyed"} => phase[c] \notin {"closed", "destroyed"}
    BY DEF ConnStep
  <1>4. QED
    BY <1>2, <1>3 DEF Counts

\* A connection that is removed has no more units to send than it had.
LEMMA RemovedCount ==
  ASSUME NEW c \in Conns, Counts(c), phase'[c] \in {"closed", "destroyed"}, UNCHANGED sent,
         \A b : In(b, sendq'[c]) => In(b, sendq[c])
  PROVE  Counts(c)'
  <1>1. Unsent(c)' \subseteq Unsent(c)
    BY UnsentMember, UnsentMemberNext
  <1>2. IsFiniteSet(Unsent(c)')
    <2>1. Unsent(c)' \in SUBSET Unsent(c)
      BY <1>1
    <2>2. IsFiniteSet(Unsent(c))
      BY DEF Counts
    <2>3. QED
      BY <2>1, <2>2, FS_Subset
  <1>3. QED
    BY <1>2 DEF Counts

LEMMA SameLimit ==
  ASSUME NEW c \in Conns, Limited(c), writting'[c] = writting[c]
  PROVE  Limited(c)'
  BY DEF Limited

\* Send adds what is left of its buffer.
LEMMA QueuedCount ==
  ASSUME TypeOK, NEW b \in Bufs, SendQueue(b), writting[Target[b]] < MaxWritting,
         Sending(Target[b]), Counts(Target[b]), \A d \in Conns : ConnStep(d)
  PROVE  Counts(Target[b])' /\ Limited(Target[b])'
  <1> DEFINE c == Target[b]
             A == Unsent(c)
             B == Unsent(c)'
  <1>0. SendsOK /\ c \in Conns /\ Size[b] \in Nat \ {0} /\ spc[b] = "checked"
    BY BufferType DEF TypeOK, SendQueue
  <1>1. PICK k \in 0..Size[b] :
          /\ sendq' = [sendq EXCEPT ![c] = Append(@, b)]
          /\ writting' = [writting EXCEPT ![c] = @ + Size[b] - k]
          /\ sent' = [sent EXCEPT ![b] = k]
    <2>1. ~(writting[c] >= MaxWritting)
      BY <1>0, LimitTypes DEF SendsOK
    <2>2. PICK k \in (IF sendq[c] = <<>> /\ soc[c] THEN 0..Size[b] ELSE {0}) :
            /\ sendq' = [sendq EXCEPT ![c] = Append(@, b)]
            /\ writting' = [writting EXCEPT ![c] = @ + Size[b] - k]
            /\ sent' = [sent EXCEPT ![b] = k]
      BY <2>1 DEF SendQueue
    <2>3. k \in 0..Size[b]
      BY <1>0
    <2>4. QED
      BY <2>2, <2>3
  <1>2. /\ sendq'[c] = Append(sendq[c], b) /\ sendq[c] \in Seq(Bufs)
        /\ writting'[c] = writting[c] + Size[b] - k /\ writting[c] \in Int
        /\ sent'[b] = k /\ \A a \in Bufs : a # b => sent'[a] = sent[a]
    BY <1>0, <1>1 DEF SendsOK
  <1>3. \A d : In(d, sendq'[c]) <=> In(d, sendq[c]) \/ d = b
    BY <1>2, AppendMembers
  <1>4. ~In(b, sendq[c])
    <2>1. ~In(b, queued[c])
      BY <1>0, NotQueued
    <2>2. queued[c] \in Seq(Bufs) /\ Suffix(sendq[c], queued[c])
      BY <1>0, StreamTypes DEF Sending, QueueKept
    <2>3. \A i \in 1..Len(sendq[c]) : In(sendq[c][i], queued[c])
      BY <1>2, <2>2, SuffixMembers
    <2>4. QED
      BY <2>1, <2>3 DEF In
  <1> HIDE DEF c
  <1>5. Target[b] = c
    BY DEF c
  <1>6. B = A \cup Piece(b, k, Size[b]) /\ A \cap Piece(b, k, Size[b]) = {}
    <2>1. ASSUME NEW x PROVE x \in B <=> x \in A \/ x \in Piece(b, k, Size[b])
      <3>1. x \in B <=> \E a \in Bufs : /\ Target[a] = c /\ (In(a, sendq[c]) \/ a = b)
                                        /\ \E i \in (sent'[a] + 1)..Size[a] : x = <<a, i>>
        BY <1>3, UnsentMemberNext
      <3>2. x \in A <=> \E a \in Bufs : /\ Target[a] = c /\ In(a, sendq[c])
                                        /\ \E i \in (sent[a] + 1)..Size[a] : x = <<a, i>>
        BY UnsentMember
      <3>3. x \in Piece(b, k, Size[b]) <=> \E i \in (sent'[b] + 1)..Size[b] : x = <<b, i>>
        BY <1>2, PieceMember
      <3>4. QED
        BY <1>2, <1>4, <1>5, <3>1, <3>2, <3>3
    <2>2. ASSUME NEW x, x \in A, x \in Piece(b, k, Size[b]) PROVE FALSE
      <3>1. PICK a \in Bufs : In(a, sendq[c]) /\ \E i \in (sent[a] + 1)..Size[a] : x = <<a, i>>
        BY <2>2, UnsentMember
      <3>2. \E i \in (k + 1)..Size[b] : x = <<b, i>>
        BY <2>2, PieceMember
      <3>3. a = b
        BY <3>1, <3>2
      <3>4. QED
        BY <1>4, <3>1, <3>3
    <2>3. QED
      BY <2>1, <2>2
  <1> HIDE DEF A, B
  <1>7. k \in Nat /\ k <= Size[b] /\ Size[b] \in Nat
    BY <1>0
  <1>8. IsFiniteSet(A)
    BY DEF Counts, A, c
  <1>9. /\ IsFiniteSet(B) /\ Cardinality(A) \in Nat /\ Cardinality(B) \in Nat
        /\ Cardinality(B) = Cardinality(A) + (Size[b] - k)
    <2>1. Adds(A, B, b, k, Size[b])
      BY <1>6, <1>7 DEF Adds
    <2>2. QED
      BY <1>7, <1>8, <2>1, PieceCounts
  <1>10. phase'[c] \notin {"closed", "destroyed"} => writting'[c] = Cardinality(B)
    <2>1. SUFFICES ASSUME phase'[c] \notin {"closed", "destroyed"}
                   PROVE  writting'[c] = Cardinality(B)
      OBVIOUS
    <2>2. ConnStep(c)
      BY <1>0
    <2>3. phase[c] \notin {"closed", "destroyed"}
      BY <2>1, <2>2 DEF ConnStep
    <2>4. writting[c] = Cardinality(A)
      BY <2>3 DEF Counts, A, c
    <2>5. ASSUME NEW u \in Int, NEW v \in Int, NEW w \in Int
          PROVE  u + v - w = u + (v - w)
      OBVIOUS
    <2>6. Cardinality(A) + Size[b] - k = Cardinality(A) + (Size[b] - k)
      BY <1>7, <1>9, <2>5
    <2>7. QED
      BY <1>2, <1>9, <2>4, <2>6
  <1>11. writting'[c] < MaxWritting + Size[b]
    BY <1>2, <1>7, LimitTypes DEF c
  <1>12. Limited(c)'
    BY <1>5, <1>11 DEF Limited
  <1>13. Counts(c)'
    BY <1>9, <1>10 DEF Counts, B
  <1>14. QED
    BY <1>12, <1>13 DEF c

\* The network thread takes off what it sent.
LEMMA WrittenCount ==
  ASSUME TypeOK, WalkInv, StreamInv, WriteBuffer, NEW c \in Conns, c = Head(polled).c,
         Counts(c), Limited(c), \A d \in Conns : ConnStep(d)
  PROVE  /\ Counts(c)' /\ Limited(c)'
         /\ \A d \in Conns \ {c} : sendq'[d] = sendq[d] /\ writting'[d] = writting[d]
         /\ \A a \in Bufs : Target[a] # c => sent'[a] = sent[a]
  <1> DEFINE b == Head(sendq[c])
             n == sent[b]
             A == Unsent(c)
             B == Unsent(c)'
  <1>0. npc = "write" /\ sendq[c] # <<>> /\ SendsOK
    BY DEF WriteBuffer, TypeOK
  <1>1. /\ phase[c] = "listed" /\ Sending(c)
        /\ b \in Bufs /\ Target[b] = c
        /\ n \in Nat /\ Size[b] \in Nat /\ n <= Size[b]
    BY <1>0, WrittenTo
  <1>2. /\ In(b, sendq[c])
        /\ \A d : In(d, Tail(sendq[c])) <=> In(d, sendq[c]) /\ d # b
    BY <1>0, <1>1, TakenOut
  <1>3. PICK k \in 0..(Size[b] - n) :
          /\ sent' = [sent EXCEPT ![b] = @ + k]
          /\ writting' = [writting EXCEPT ![c] = @ - k]
          /\ \/ sent'[b] = Size[b] /\ sendq' = [sendq EXCEPT ![c] = Tail(@)]
             \/ sent'[b] # Size[b] /\ UNCHANGED sendq
    BY DEF WriteBuffer
  <1> HIDE DEF b, n
  <1>4. k \in Nat /\ n + k \in Nat /\ n <= n + k /\ n + k <= Size[b] /\ (n + k) - n = k
    BY <1>1, <1>3
  <1>5. sent'[b] = n + k /\ \A a \in Bufs : a # b => sent'[a] = sent[a]
    BY <1>0, <1>1, <1>3 DEF SendsOK, n
  <1>6. /\ writting'[c] = writting[c] - k /\ writting[c] \in Int
        /\ \A d \in Conns \ {c} : sendq'[d] = sendq[d] /\ writting'[d] = writting[d]
    BY <1>0, <1>3 DEF SendsOK
  <1>7. \/ sent'[b] = Size[b] /\ sendq'[c] = Tail(sendq[c])
        \/ sent'[b] # Size[b] /\ sendq'[c] = sendq[c]
    BY <1>0, <1>3 DEF SendsOK
  <1>8. \A a \in Bufs \ {b} : In(a, sendq'[c]) <=> In(a, sendq[c])
    BY <1>2, <1>7
  <1>9. ASSUME NEW i PROVE In(b, sendq'[c]) /\ i \in (n + k + 1)..Size[b]
                           <=> i \in (n + k + 1)..Size[b]
    <2>1. CASE sendq'[c] = sendq[c]
      BY <1>2, <2>1
    <2>2. CASE sent'[b] = Size[b]
      <3>1. i \notin (n + k + 1)..Size[b]
        BY <1>1, <1>4, <1>5, <2>2
      <3>2. QED
        BY <3>1
    <2>3. QED
      BY <1>7, <2>1, <2>2
  <1>10. ASSUME NEW i
         PROVE  i \in (n + 1)..Size[b] <=> i \in (n + k + 1)..Size[b] \/ i \in (n + 1)..(n + k)
    BY <1>1, <1>4
  <1>11. A = B \cup Piece(b, n, n + k) /\ B \cap Piece(b, n, n + k) = {}
    <2> DEFINE Others(x) ==
                 \E a \in Bufs \ {b} : /\ Target[a] = c /\ In(a, sendq[c])
                                       /\ \E i \in (sent[a] + 1)..Size[a] : x = <<a, i>>
    <2>1. ASSUME NEW x
          PROVE  x \in A <=> Others(x) \/ \E i \in (n + 1)..Size[b] : x = <<b, i>>
      <3>1. x \in A <=> \E a \in Bufs : /\ Target[a] = c /\ In(a, sendq[c])
                                        /\ \E i \in (sent[a] + 1)..Size[a] : x = <<a, i>>
        BY UnsentMember
      <3>2. n = sent[b]
        BY DEF n
      <3>3. QED
        BY <1>1, <1>2, <3>1, <3>2
    <2>2. ASSUME NEW x
          PROVE  x \in B <=> Others(x) \/ \E i \in (n + k + 1)..Size[b] : x = <<b, i>>
      <3>1. x \in B <=> \E a \in Bufs : /\ Target[a] = c /\ In(a, sendq'[c])
                                        /\ \E i \in (sent'[a] + 1)..Size[a] : x = <<a, i>>
        BY UnsentMemberNext
      <3>2. x \in B <=> \/ Others(x)
                        \/ \E i : In(b, sendq'[c]) /\ i \in (n + k + 1)..Size[b] /\ x = <<b, i>>
        BY <1>1, <1>5, <1>8, <3>1
      <3>3. QED
        BY <1>9, <3>2
    <2>3. ASSUME NEW x, x \in B, x \in Piece(b, n, n + k) PROVE FALSE
      <3>1. PICK i \in (n + 1)..(n + k) : x = <<b, i>>
        BY <2>3, PieceMember
      <3>2. ~Others(x)
        BY <3>1
      <3>3. PICK j \in (n + k + 1)..Size[b] : x = <<b, j>>
        BY <2>2, <2>3, <3>2
      <3>4. i = j
        BY <3>1, <3>3
      <3>5. QED
        BY <1>1, <1>4, <3>4
    <2>4. ASSUME NEW x PROVE x \in A <=> x \in B \/ x \in Piece(b, n, n + k)
      <3>1. x \in Piece(b, n, n + k) <=> \E i \in (n + 1)..(n + k) : x = <<b, i>>
        BY PieceMember
      <3>2. QED
        BY <1>10, <2>1, <2>2, <3>1
    <2>5. QED
      BY <2>3, <2>4
  <1> HIDE DEF A, B
  <1>12. IsFiniteSet(A) /\ writting[c] = Cardinality(A)
    BY <1>1 DEF Counts, A
  <1>13. /\ IsFiniteSet(B) /\ Cardinality(A) \in Nat /\ Cardinality(B) \in Nat
         /\ Cardinality(A) = Cardinality(B) + ((n + k) - n)
    <2>1. Adds(B, A, b, n, n + k)
      BY <1>4, <1>11 DEF Adds
    <2>2. QED
      BY <1>1, <1>4, <1>12, <2>1, PieceCounts
  <1>14. writting'[c] = Cardinality(B)
    BY <1>4, <1>6, <1>12, <1>13
  <1>15. Counts(c)'
    BY <1>13, <1>14 DEF Counts, B
  <1>16. Limited(c)'
    <2>1. SUFFICES ASSUME writting'[c] > 0
                   PROVE  \E a \in Bufs : Target[a] = c /\ writting'[c] < MaxWritting + Size[a]
      BY DEF Limited
    <2>2. writting[c] > 0 /\ writting'[c] <= writting[c]
      BY <1>4, <1>6, <2>1
    <2>3. PICK a \in Bufs : Target[a] = c /\ writting[c] < MaxWritting + Size[a]
      BY <2>2 DEF Limited
    <2>4. Size[a] \in Nat /\ MaxWritting \in Nat /\ writting'[c] \in Int
      BY <1>13, <1>14, BufferType
    <2>5. ASSUME NEW u \in Int, NEW v \in Int, NEW w \in Int, u <= v, v < w PROVE u < w
      BY <2>5
    <2>6. MaxWritting + Size[a] \in Int /\ writting[c] \in Int
      BY <1>6, <2>4
    <2>7. writting'[c] < MaxWritting + Size[a]
      BY <2>2, <2>3, <2>4, <2>5, <2>6
    <2>8. QED
      BY <2>3, <2>7
  <1>17. \A a \in Bufs : Target[a] # c => sent'[a] = sent[a]
    BY <1>1, <1>5
  <1>18. QED
    BY <1>6, <1>15, <1>16, <1>17

LEMMA InitByteInv == Init => ByteInv
  <1> SUFFICES ASSUME Init, NEW c \in Conns PROVE Counts(c) /\ Limited(c)
    BY DEF ByteInv
  <1>1. sendq[c] = <<>> /\ writting[c] = 0
    BY DEF Init
  <1>2. \A d : ~In(d, sendq[c])
    BY <1>1 DEF In
  <1>3. Unsent(c) = {}
    BY <1>2, UnsentMember
  <1>4. IsFiniteSet({}) /\ Cardinality({}) = 0
    BY FS_EmptySet
  <1>5. QED
    BY <1>1, <1>3, <1>4 DEF Counts, Limited

LEMMA ByteInvStep == NetInv /\ ByteInv /\ [Next]_vars => ByteInv'
  <1> SUFFICES ASSUME NetInv, ByteInv, [Next]_vars PROVE ByteInv'
    OBVIOUS
  <1> DEFINE Goal == ByteInv'
  <1> SUFFICES Goal
    OBVIOUS
  <1>0. TypeOK /\ WalkInv /\ StreamInv /\ ConnsOK /\ SendsOK /\ ThreadOK
    BY DEF NetInv, TypeOK
  <1>a. \A c \in Conns : ConnStep(c) /\ Counts(c) /\ Limited(c)
    BY <1>0, EveryConnStep DEF ByteInv
  <1>b. ASSUME NEW c \in Conns, sendq'[c] = sendq[c], writting'[c] = writting[c],
               \A b \in Bufs : Target[b] = c => sent'[b] = sent[b]
        PROVE  Counts(c)' /\ Limited(c)'
    BY <1>a, <1>b, SameCount, SameLimit
  <1>c. UNCHANGED out => Goal
    BY <1>b DEF out, ByteInv
  <1> USE DEF NetFrame
  <1> HIDE DEF Goal
  <1>1. ASSUME LoopTop PROVE Goal
    BY <1>1, <1>c DEF LoopTop
  <1>2. ASSUME ScanConn PROVE Goal
    BY <1>2, <1>c DEF ScanConn
  <1>3. ASSUME ScanEnd PROVE Goal
    BY <1>3, <1>c DEF ScanEnd
  <1>4. ASSUME Poll PROVE Goal
    BY <1>4, <1>c DEF Poll
  <1>5. ASSUME HandleEventAccept PROVE Goal
    BY <1>5, <1>c DEF HandleEventAccept
  <1>6. ASSUME NextConn PROVE Goal
    BY <1>6, <1>c DEF NextConn
  <1>7. ASSUME HandleEventRead PROVE Goal
    BY <1>7, <1>c DEF HandleEventRead
  <1>8. ASSUME HandleReadEnd PROVE Goal
    BY <1>8, <1>c DEF HandleReadEnd
  <1>9. ASSUME HandleHup PROVE Goal
    BY <1>9, <1>c DEF HandleHup
  <1>10. ASSUME HandleEventWrite PROVE Goal
    BY <1>10, <1>c DEF HandleEventWrite
  <1>11. ASSUME EventsDone PROVE Goal
    BY <1>11, <1>c DEF EventsDone
  <1>12. ASSUME WriteEmpty PROVE Goal
    BY <1>12, <1>c DEF WriteEmpty
  <1>13. ASSUME WriteBuffer PROVE Goal
    <2>1. PICK c \in Conns : c = Head(polled).c
      BY <1>13, <1>0, HeadOfWalk DEF WriteBuffer, ThreadOK
    <2>2. /\ Counts(c)' /\ Limited(c)'
          /\ \A d \in Conns \ {c} : sendq'[d] = sendq[d] /\ writting'[d] = writting[d]
          /\ \A a \in Bufs : Target[a] # c => sent'[a] = sent[a]
      BY <1>13, <1>0, <1>a, <2>1, WrittenCount
    <2>3. ASSUME NEW d \in Conns, d # c PROVE Counts(d)' /\ Limited(d)'
      <3>1. sendq'[d] = sendq[d] /\ writting'[d] = writting[d]
        BY <2>2, <2>3
      <3>2. \A a \in Bufs : Target[a] = d => sent'[a] = sent[a]
        BY <2>2, <2>3
      <3>3. QED
        BY <1>b, <3>1, <3>2
    <2>4. QED
      BY <2>2, <2>3 DEF Goal, ByteInv
  <1>14. ASSUME WriteError PROVE Goal
    <2>1. npc = "write" /\ sendq[Head(polled).c] # <<>>
      BY <1>14 DEF WriteError
    <2>2. PICK c \in Conns, b \in Bufs : c = Head(polled).c /\ b = Head(sendq[c])
      BY <1>0, <2>1, WrittenTo
    <2>3. /\ UNCHANGED <<writting, sent>> /\ sendq' = [sendq EXCEPT ![c] = Tail(@)]
          /\ phase' = [phase EXCEPT ![c] = "closed"]
      BY <1>14, <2>2 DEF WriteError, CloseCtx
    <2>4. /\ phase'[c] = "closed" /\ sendq'[c] = Tail(sendq[c])
          /\ \A d \in Conns : d # c => sendq'[d] = sendq[d]
      BY <1>0, <2>3 DEF ConnsOK, SendsOK
    <2>5. \A d : In(d, sendq'[c]) => In(d, sendq[c])
      <3>1. Sending(c) /\ sendq[c] # <<>>
        BY <1>0, <2>1, <2>2 DEF StreamInv
      <3>2. QED
        BY <1>0, <2>4, <3>1, TakenOut
    <2>6. Counts(c)' /\ Limited(c)'
      BY <1>a, <2>3, <2>4, <2>5, RemovedCount, SameLimit
    <2>7. \A d \in Conns : d # c => Counts(d)' /\ Limited(d)'
      BY <1>b, <2>3, <2>4
    <2>8. QED
      BY <2>6, <2>7 DEF Goal, ByteInv
  <1>15. ASSUME ConnsDone PROVE Goal
    BY <1>15, <1>c DEF ConnsDone
  <1>16. ASSUME MoveActive PROVE Goal
    BY <1>16, <1>c DEF MoveActive
  <1>17. ASSUME MoveEnd PROVE Goal
    BY <1>17, <1>c DEF MoveEnd
  <1>18. ASSUME TimeoutBegin PROVE Goal
    BY <1>18, <1>c DEF TimeoutBegin
  <1>19. ASSUME ExpireConn PROVE Goal
    BY <1>19, <1>c DEF ExpireConn
  <1>20. ASSUME ExpireEnd PROVE Goal
    BY <1>20, <1>c DEF ExpireEnd
  <1>21. ASSUME FinalClose PROVE Goal
    BY <1>21, <1>c DEF FinalClose
  <1>22. ASSUME FinalEnd PROVE Goal
    BY <1>22, <1>c DEF FinalEnd
  <1>23. ASSUME NEW b \in Bufs, SendCheck(b) PROVE Goal
    BY <1>23, <1>c DEF SendCheck
  <1>24. ASSUME NEW b \in Bufs, SendQueue(b) PROVE Goal
    <2> DEFINE c == Target[b]
    <2>1. c \in Conns
      BY BufferType
    <2>2. CASE writting[c] >= MaxWritting
      BY <1>24, <1>c, <2>2 DEF SendQueue, out
    <2>3. CASE ~(writting[c] >= MaxWritting)
      <3>1. Counts(c)' /\ Limited(c)'
        <4>1. writting[c] < MaxWritting
          BY <1>0, <2>1, <2>3, LimitTypes DEF SendsOK
        <4>2. Sending(c)
          BY <1>0, <2>1 DEF StreamInv
        <4>3. QED
          BY <1>24, <1>0, <1>a, <2>1, <4>1, <4>2, QueuedCount
      <3>2. PICK k : /\ sendq' = [sendq EXCEPT ![c] = Append(@, b)]
                     /\ writting' = [writting EXCEPT ![c] = @ + Size[b] - k]
                     /\ sent' = [sent EXCEPT ![b] = k]
        BY <1>24, <2>3 DEF SendQueue
      <3>3. ASSUME NEW d \in Conns, d # c PROVE Counts(d)' /\ Limited(d)'
        <4>1. sendq'[d] = sendq[d] /\ writting'[d] = writting[d]
          BY <1>0, <2>1, <3>2, <3>3 DEF SendsOK
        <4>2. \A a \in Bufs : Target[a] = d => sent'[a] = sent[a]
          BY <1>0, <3>2, <3>3 DEF SendsOK
        <4>3. QED
          BY <1>b, <4>1, <4>2
      <3>4. QED
        BY <3>1, <3>3 DEF Goal, ByteInv
    <2>4. QED
      BY <2>2, <2>3
  <1>25. ASSUME NEW b \in Bufs, SendFail(b) PROVE Goal
    BY <1>25, <1>c DEF SendFail
  <1>26. ASSUME NEW b \in Bufs, CallerRelease(b) PROVE Goal
    BY <1>26, <1>c DEF CallerRelease
  <1>27. ASSUME NEW b \in Bufs, SendActive(b) PROVE Goal
    BY <1>27, <1>c DEF SendActive
  <1>28. ASSUME NEW b \in Bufs, SendMove(b) PROVE Goal
    BY <1>28, <1>c DEF SendMove
  <1>29. ASSUME NEW c \in Conns, AppClose(c) PROVE Goal
    BY <1>29, <1>c DEF AppClose
  <1>30. ASSUME NEW c \in Conns, Destroy(c) PROVE Goal
    <2>1. /\ UNCHANGED <<writting, sent>> /\ sendq' = [sendq EXCEPT ![c] = <<>>]
          /\ phase' = [phase EXCEPT ![c] = "destroyed"]
      BY <1>30 DEF Destroy
    <2>2. /\ phase'[c] = "destroyed" /\ sendq'[c] = <<>>
          /\ \A d \in Conns : d # c => sendq'[d] = sendq[d]
      BY <1>0, <2>1 DEF ConnsOK, SendsOK
    <2>3. \A d : ~In(d, sendq'[c])
      BY <2>2 DEF In
    <2>4. Counts(c)' /\ Limited(c)'
      BY <1>a, <2>1, <2>2, <2>3, RemovedCount, SameLimit
    <2>5. \A d \in Conns : d # c => Counts(d)' /\ Limited(d)'
      BY <1>b, <2>1, <2>2
    <2>6. QED
      BY <2>4, <2>5 DEF Goal, ByteInv
  <1>31. ASSUME NEW c \in Conns, PeerConnect(c) PROVE Goal
    BY <1>31, <1>c DEF PeerConnect
  <1>32. ASSUME NEW c \in Conns, PeerSend(c) PROVE Goal
    BY <1>32, <1>c DEF PeerSend
  <1>33. ASSUME NEW c \in Conns, PeerGone(c) PROVE Goal
    BY <1>33, <1>c DEF PeerGone
  <1>34. ASSUME Tick PROVE Goal
    BY <1>34, <1>c DEF Tick
  <1>35. ASSUME ShutdownBegin PROVE Goal
    BY <1>35, <1>c DEF ShutdownBegin
  <1>36. ASSUME CloseAllConnections PROVE Goal
    BY <1>36, <1>c DEF CloseAllConnections
  <1>37. ASSUME Join PROVE Goal
    BY <1>37, <1>c DEF Join
  <1>38. CASE UNCHANGED vars
    BY <1>38, <1>c DEF vars, out
  <1>39. QED
    BY <1>1, <1>2, <1>3, <1>4, <1>5, <1>6, <1>7, <1>8, <1>9, <1>10, <1>11, <1>12,
       <1>13, <1>14, <1>15, <1>16, <1>17, <1>18, <1>19, <1>20, <1>21, <1>22, <1>23,
       <1>24, <1>25, <1>26, <1>27, <1>28, <1>29, <1>30, <1>31, <1>32, <1>33, <1>34,
       <1>35, <1>36, <1>37, <1>38 DEF Next, ThreadWorker, Sender

(* m_nWrittingBytes of an open connection is what its queued buffers still have *)
(* to send, in whatever pieces Send and the network thread send them, and never *)
(* negative: "system bug (m_nWrittingBytes < 0)" is not reached.  It passes the *)
(* limit m_nMaxWrittingBytes by less than one buffer, however many threads send *)
(* at the same time.                                                           *)
THEOREM BacklogCounted == Spec => []BytesAccounted
  <1>1. Init => NetInv /\ ByteInv
    BY InitNetInv, InitByteInv
  <1>2. (NetInv /\ ByteInv) /\ [Next]_vars => (NetInv /\ ByteInv)'
    BY NetInvStep, ByteInvStep
  <1>3. ByteInv => BytesAccounted
    BY DEF ByteInv, Counts, Limited, BytesAccounted
  <1>4. QED
    BY <1>1, <1>2, <1>3, PTL DEF Spec
=============================================================================
