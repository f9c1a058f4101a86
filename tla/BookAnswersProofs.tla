-------------------------- MODULE BookAnswersProofs --------------------------
(* Proofs that the three books answer every query as the queues say, for    *)
(* every set of slots, band, word width and block.                          *)
EXTENDS BooksProofs

-----------------------------------------------------------------------------
(* The total of a level is the sum of the open sizes along its queue.       *)

\* g adds up the sizes z of the orders of q, from the oldest.
RunsUp(g, q, z) ==
    /\ g \in [0..Len(q) -> Int] /\ g[0] = 0
    /\ \A k \in 1..Len(q) : g[k] = g[k - 1] + z[q[k]]
Sums(q, z, t) == \E g : RunsUp(g, q, z) /\ t = g[Len(q)]
TotalOf(q, z) ==
    LET upto[k \in 0..Len(q)] == IF k = 0 THEN 0 ELSE upto[k - 1] + z[q[k]] IN upto[Len(q)]

\* A running sum is what LevelOf computes.
LEMMA TotalIs ==
    ASSUME NEW q \in Seq(Slot), NEW z, NEW t, Sums(q, z, t)
    PROVE  TotalOf(q, z) = t /\ t \in Int
<1> DEFINE n == Len(q)
           step(f, k) == IF k = 0 THEN 0 ELSE f[k - 1] + z[q[k]]
           upto[k \in 0..Len(q)] == IF k = 0 THEN 0 ELSE upto[k - 1] + z[q[k]]
<1>1. n \in Nat
  BY LenProperties
<1>2. PICK g : RunsUp(g, q, z) /\ t = g[n]
  BY DEF Sums
<1>3. g = [k \in 0..n |-> step(g, k)]
  <2>1. g = [k \in 0..n |-> g[k]]
    BY <1>2 DEF RunsUp
  <2>2. ASSUME NEW k \in 0..n PROVE g[k] = step(g, k)
    <3>1. k = 0 \/ k \in 1..n
      BY <1>1
    <3>2. ASSUME k \in 1..n PROVE k # 0 /\ g[k] = g[k - 1] + z[q[k]]
      BY <1>1, <1>2, <3>2 DEF RunsUp
    <3>. QED  BY <1>2, <3>1, <3>2 DEF RunsUp
  <2> HIDE DEF step, n
  <2>. QED  BY <2>1, <2>2
<1>4. upto = [k \in 0..n |-> step(upto, k)]
  BY <1>3
<1> HIDE DEF upto, n
<1>5. \A k \in 0..n : upto[k] = step(upto, k) /\ g[k] = step(g, k)
  BY <1>3, <1>4
<1>6. \A k \in 0..n : upto[k] = g[k]
  <2> DEFINE T == {k \in 0..n : upto[k] # g[k]}
  <2>1. CASE T = {}
    BY <2>1
  <2>2. CASE T # {}
    <3>0. T \subseteq Nat
      BY <1>1
    <3>1. PICK k \in T : \A j \in T : k <= j
      BY <2>2, <3>0, LeastNat
    <3>2. k \in 0..n /\ upto[k] # g[k]
      OBVIOUS
    <3>3. k # 0
      BY <1>5, <3>2
    <3>4. k - 1 \in 0..n /\ ~(k <= k - 1)
      BY <1>1, <3>2, <3>3
    <3>5. k - 1 \notin T
      BY <3>1, <3>4
    <3>6. upto[k - 1] = g[k - 1]
      BY <3>4, <3>5
    <3> HIDE DEF T
    <3>. QED  BY <1>5, <3>2, <3>3, <3>6
  <2>. QED  BY <2>1, <2>2
<1>7. n \in 0..n
  BY <1>1
<1>8. t \in Int
  BY <1>2, <1>7 DEF RunsUp, n
<1>9. upto[n] = t
  BY <1>2, <1>6, <1>7
<1>. QED  BY <1>8, <1>9 DEF TotalOf, upto, n

\* No order, no size.
LEMMA SumsNone ==
    ASSUME NEW q \in Seq(Slot), Len(q) = 0, NEW z
    PROVE  Sums(q, z, 0)
<1> DEFINE g == [k \in 0..0 |-> 0]
<1>1. RunsUp(g, q, z)
  BY DEF RunsUp
<1>2. g[Len(q)] = 0
  OBVIOUS
<1> HIDE DEF g
<1>. QED  BY <1>1, <1>2 DEF Sums

\* The same sizes, the same sum.
LEMMA SumsSame ==
    ASSUME NEW q \in Seq(Slot), NEW z \in [Slot -> Int], NEW y \in [Slot -> Int],
           NEW t, Sums(q, z, t), \A k \in 1..Len(q) : y[q[k]] = z[q[k]]
    PROVE  Sums(q, y, t)
<1>1. PICK g : RunsUp(g, q, z) /\ t = g[Len(q)]
  BY DEF Sums
<1>2. RunsUp(g, q, y)
  BY <1>1 DEF RunsUp
<1>. QED  BY <1>1, <1>2 DEF Sums

\* A newest order adds its size.
LEMMA SumsAppend ==
    ASSUME NEW q \in Seq(Slot), NEW o \in Slot,
           NEW z \in [Slot -> Int], NEW y \in [Slot -> Int],
           NEW t, Sums(q, z, t), \A k \in 1..Len(q) : y[q[k]] = z[q[k]]
    PROVE  Sums(Append(q, o), y, t + y[o])
<1> DEFINE n == Len(q)  r == Append(q, o)
<1>1. n \in Nat /\ r \in Seq(Slot) /\ Len(r) = n + 1 /\ r[n + 1] = o
      /\ \A k \in 1..n : r[k] = q[k]
  BY AppendProperties, LenProperties
<1>2. PICK g : RunsUp(g, q, z) /\ t = g[n]
  BY DEF Sums
<1>8. \A k \in 1..n : y[q[k]] = z[q[k]]
  OBVIOUS
<1> DEFINE h == [k \in 0..(n + 1) |-> IF k = n + 1 THEN g[n] + y[o] ELSE g[k]]
<1>3. /\ g \in [0..n -> Int] /\ g[0] = 0
      /\ \A k \in 1..n : g[k] = g[k - 1] + z[q[k]]
  BY <1>2 DEF RunsUp
<1> HIDE DEF n, r
<1>4. h \in [0..(n + 1) -> Int] /\ h[0] = 0
  <2>1. \A k \in 0..(n + 1) : k = n + 1 \/ k \in 0..n
    BY <1>1
  <2>2. n \in 0..n
    BY <1>1
  <2>5. g[n] + y[o] \in Int
    BY <1>3, <2>2
  <2>3. \A k \in 0..(n + 1) : (IF k = n + 1 THEN g[n] + y[o] ELSE g[k]) \in Int
    <3> TAKE k \in 0..(n + 1)
    <3>1. CASE k = n + 1
      BY <2>5, <3>1
    <3>2. CASE k # n + 1
      BY <1>3, <2>1, <3>2
    <3>. QED  BY <3>1, <3>2
  <2>4. 0 \in 0..(n + 1) /\ 0 # n + 1
    BY <1>1
  <2>. QED  BY <1>3, <2>3, <2>4
<1>5. ASSUME NEW k \in 1..(n + 1) PROVE h[k] = h[k - 1] + y[r[k]]
  <2>1. k - 1 \in 0..(n + 1) /\ k \in 0..(n + 1) /\ k - 1 # n + 1
    BY <1>1
  <2>2. h[k - 1] = g[k - 1]
    BY <2>1
  <2>3. h[k] = IF k = n + 1 THEN g[n] + y[o] ELSE g[k]
    BY <2>1
  <2> HIDE DEF h
  <2>4. CASE k = n + 1
    <3>1. k - 1 = n
      BY <1>1, <2>4
    <3>. QED  BY <1>1, <2>2, <2>3, <2>4, <3>1
  <2>5. CASE k # n + 1
    <3>1. k \in 1..n
      BY <1>1, <2>5
    <3>2. y[r[k]] = z[q[k]] /\ g[k] = g[k - 1] + z[q[k]]
      BY <1>1, <1>3, <1>8, <3>1
    <3>. QED  BY <2>2, <2>3, <2>5, <3>2
  <2>. QED  BY <2>4, <2>5
<1>6. h[n + 1] = t + y[o]
  BY <1>1, <1>2
<1> HIDE DEF h
<1>7. RunsUp(h, r, y)
  BY <1>1, <1>4, <1>5 DEF RunsUp
<1>. QED  BY <1>1, <1>6, <1>7 DEF Sums, r

\* An order that goes takes its size with it.
LEMMA SumsRemove ==
    ASSUME NEW q \in Seq(Slot), NEW z \in [Slot -> Int], NEW y \in [Slot -> Int],
           NEW t, Sums(q, z, t),
           NEW i \in 1..Len(q),
           \A k \in 1..Len(q) : k # i => y[q[k]] = z[q[k]]
    PROVE  Sums(RemoveAt(q, i), y, t - z[q[i]])
<1> DEFINE n == Len(q)  r == RemoveAt(q, i)  d == z[q[i]]
<1>1. n \in Nat \ {0} /\ r \in Seq(Slot) /\ Len(r) = n - 1
      /\ \A k \in 1..(n - 1) : r[k] = IF k < i THEN q[k] ELSE q[k + 1]
  <2>1. n \in Nat /\ DOMAIN q = 1..n
    BY LenProperties
  <2>2. n # 0 /\ i \in DOMAIN q
    BY <2>1
  <2> HIDE DEF n
  <2>3. /\ r \in Seq(Slot) /\ Len(r) = Len(q) - 1
        /\ \A k \in 1..(Len(q) - 1) : r[k] = IF k < i THEN q[k] ELSE q[k + 1]
    BY <2>2, RemoveAtFacts
  <2>. QED  BY <2>1, <2>2, <2>3 DEF n
<1>2. PICK g : RunsUp(g, q, z) /\ t = g[n]
  BY DEF Sums
<1>3. /\ g \in [0..n -> Int] /\ g[0] = 0
      /\ \A k \in 1..n : g[k] = g[k - 1] + z[q[k]]
  BY <1>2 DEF RunsUp
<1> DEFINE h == [k \in 0..(n - 1) |-> IF k < i THEN g[k] ELSE g[k + 1] - d]
<1>7. \A k \in 1..n : z[q[k]] \in Int
  <2>1. \A k \in 1..n : q[k] \in Slot
    BY QueueTypes
  <2>. QED  BY <2>1
<1>8. \A k \in 1..n : k # i => y[q[k]] = z[q[k]]
  OBVIOUS
<1>0. i \in 1..n /\ d \in Int
  BY <1>7
<1> HIDE DEF n, r, d
<1>4. h \in [0..(n - 1) -> Int] /\ h[0] = 0
  <2>1. \A k \in 0..(n - 1) : k \in 0..n /\ k + 1 \in 0..n
    BY <1>1
  <2>2. \A k \in 0..(n - 1) : (IF k < i THEN g[k] ELSE g[k + 1] - d) \in Int
    <3> TAKE k \in 0..(n - 1)
    <3>1. g[k] \in Int /\ g[k + 1] \in Int
      BY <1>3, <2>1
    <3>. QED  BY <1>0, <3>1
  <2>3. 0 \in 0..(n - 1) /\ 0 < i
    BY <1>0, <1>1
  <2>. QED  BY <1>3, <2>2, <2>3
<1>5. ASSUME NEW k \in 1..(n - 1) PROVE h[k] = h[k - 1] + y[r[k]]
  <2>1. k - 1 \in 0..(n - 1) /\ k \in 0..(n - 1) /\ (k - 1) + 1 = k /\ k \in 1..n /\ k + 1 \in 1..n
        /\ (k + 1) - 1 = k
    BY <1>1
  <2>2. h[k - 1] = IF k - 1 < i THEN g[k - 1] ELSE g[k] - d
    BY <2>1
  <2>3. h[k] = IF k < i THEN g[k] ELSE g[k + 1] - d
    BY <2>1
  <2> HIDE DEF h
  <2>4. /\ g[k] = g[k - 1] + z[q[k]] /\ g[k + 1] = g[k] + z[q[k + 1]]
        /\ z[q[k]] \in Int /\ z[q[k + 1]] \in Int
        /\ g[k - 1] \in Int /\ g[k] \in Int /\ g[k + 1] \in Int
    <3>1. g[k] = g[k - 1] + z[q[k]] /\ g[(k + 1)] = g[(k + 1) - 1] + z[q[k + 1]]
      BY <1>3, <2>1
    <3>2. z[q[k]] \in Int /\ z[q[k + 1]] \in Int
      BY <1>7, <2>1
    <3>3. k - 1 \in 0..n /\ k \in 0..n /\ k + 1 \in 0..n
      BY <1>1
    <3>. QED  BY <1>3, <2>1, <3>1, <3>2, <3>3
  <2>5. CASE k < i
    <3>1. k - 1 < i /\ k # i
      BY <1>0, <2>5
    <3>2. y[r[k]] = z[q[k]]
      BY <1>1, <1>8, <2>1, <2>5, <3>1
    <3>. QED  BY <2>2, <2>3, <2>4, <2>5, <3>1, <3>2
  <2>6. CASE ~(k < i)
    <3>1. k + 1 # i
      BY <1>0, <2>6
    <3>2. y[r[k]] = z[q[k + 1]]
      <4>1. r[k] = q[k + 1]
        BY <1>1, <2>6
      <4>. QED  BY <1>8, <2>1, <3>1, <4>1, SMTT(30)
    <3>3. CASE k = i
      <4>1. h[k - 1] = g[k - 1] /\ h[k] = g[k + 1] - d /\ z[q[k]] = d
        <5>1. k - 1 < i /\ ~(k < i)
          BY <1>0, <3>3
        <5>2. z[q[k]] = d
          BY <3>3 DEF d
        <5>. QED  BY <2>2, <2>3, <5>1, <5>2
      <4>2. g[k] = g[k - 1] + d /\ d \in Int
        BY <1>0, <2>4, <4>1
      <4>3. PICK a, b, c, w : a = g[k - 1] /\ b = g[k] /\ c = g[k + 1] /\ w = z[q[k + 1]]
        OBVIOUS
      <4>4. /\ a \in Int /\ b \in Int /\ c \in Int /\ w \in Int
            /\ b = a + d /\ c = b + w
        BY <2>4, <4>2, <4>3
      <4>5. c - d = a + w
        BY <4>2, <4>4
      <4>. QED  BY <3>2, <4>1, <4>3, <4>5
    <3>4. CASE k # i
      <4>1. ~(k - 1 < i)
        BY <1>0, <2>6, <3>4
      <4>2. h[k - 1] = g[k] - d /\ h[k] = g[k + 1] - d
        BY <2>2, <2>3, <2>6, <4>1
      <4>. QED  BY <1>0, <2>4, <3>2, <4>2, SMTT(30)
    <3>. QED  BY <3>3, <3>4
  <2>. QED  BY <2>5, <2>6
<1>6. h[n - 1] = t - d
  <2>1. n - 1 \in 0..(n - 1) /\ (n - 1) + 1 = n /\ (n - 1 < i <=> n = i)
    BY <1>0, <1>1
  <2>2. h[n - 1] = IF n - 1 < i THEN g[n - 1] ELSE g[n] - d
    BY <2>1
  <2>3. n \in 1..n /\ g[n] = g[n - 1] + z[q[n]] /\ g[n - 1] \in Int
    BY <1>1, <1>3
  <2> HIDE DEF h
  <2>4. CASE n = i
    <3>1. z[q[n]] = d
      BY <2>4 DEF d
    <3>. QED  BY <1>0, <1>2, <2>1, <2>2, <2>3, <2>4, <3>1
  <2>5. CASE n # i
    BY <1>2, <2>1, <2>2, <2>5
  <2>. QED  BY <2>4, <2>5
<1> HIDE DEF h
<1>9. RunsUp(h, r, y)
  BY <1>1, <1>4, <1>5 DEF RunsUp
<1>10. t - d = t - z[q[i]]
  BY DEF d
<1>. QED  BY <1>1, <1>6, <1>9, <1>10 DEF Sums, r

\* Part of one order's size goes.
LEMMA SumsReduce ==
    ASSUME NEW q \in Seq(Slot), NEW z \in [Slot -> Int], NEW y \in [Slot -> Int],
           NEW t, Sums(q, z, t),
           NEW i \in 1..Len(q), NEW d \in Int, y[q[i]] = z[q[i]] - d,
           \A k \in 1..Len(q) : k # i => y[q[k]] = z[q[k]]
    PROVE  Sums(q, y, t - d)
<1> DEFINE n == Len(q)
<1>1. n \in Nat /\ \A k \in 1..n : z[q[k]] \in Int /\ y[q[k]] \in Int
  <2>1. \A k \in 1..n : q[k] \in Slot
    BY QueueTypes
  <2>. QED  BY <2>1, QueueTypes
<1>2. PICK g : RunsUp(g, q, z) /\ t = g[n]
  BY DEF Sums
<1>3. /\ g \in [0..n -> Int] /\ g[0] = 0
      /\ \A k \in 1..n : g[k] = g[k - 1] + z[q[k]]
  BY <1>2 DEF RunsUp
<1>8. \A k \in 1..n : y[q[k]] = IF k = i THEN z[q[k]] - d ELSE z[q[k]]
  OBVIOUS
<1>0. i \in 1..n
  OBVIOUS
<1> DEFINE h == [k \in 0..n |-> IF k < i THEN g[k] ELSE g[k] - d]
<1> HIDE DEF n
<1>4. h \in [0..n -> Int] /\ h[0] = 0
  <2>1. 0 \in 0..n /\ 0 < i
    BY <1>0, <1>1
  <2>2. \A k \in 0..n : (IF k < i THEN g[k] ELSE g[k] - d) \in Int
    BY <1>3, SMTT(30)
  <2>. QED  BY <1>3, <2>1, <2>2
<1>5. ASSUME NEW k \in 1..n PROVE h[k] = h[k - 1] + y[q[k]]
  <2>1. k - 1 \in 0..n /\ k \in 0..n
    BY <1>1
  <2>2. /\ h[k - 1] = (IF k - 1 < i THEN g[k - 1] ELSE g[k - 1] - d)
        /\ h[k] = (IF k < i THEN g[k] ELSE g[k] - d)
    BY <2>1
  <2> HIDE DEF h
  <2>3. /\ g[k] = g[k - 1] + z[q[k]] /\ g[k] \in Int /\ g[k - 1] \in Int
        /\ z[q[k]] \in Int /\ y[q[k]] = IF k = i THEN z[q[k]] - d ELSE z[q[k]]
    <3>1. y[q[k]] = IF k = i THEN z[q[k]] - d ELSE z[q[k]]
      BY <1>8
    <3>2. g[k] = g[k - 1] + z[q[k]] /\ g[k] \in Int /\ g[k - 1] \in Int
      BY <1>3, <2>1
    <3>. QED  BY <1>1, <3>1, <3>2
  <2>4. k - 1 < i <=> k < i \/ k = i
    BY <1>0
  <2>5. CASE k < i
    BY <1>0, <2>2, <2>3, <2>4, <2>5
  <2>6. CASE k = i
    BY <1>0, <2>2, <2>3, <2>4, <2>6
  <2>7. CASE ~(k < i) /\ k # i
    BY <2>2, <2>3, <2>4, <2>7, SMTT(30)
  <2>. QED  BY <2>5, <2>6, <2>7
<1>6. h[n] = t - d
  BY <1>0, <1>1, <1>2
<1> HIDE DEF h
<1>7. RunsUp(h, q, y)
  BY <1>1, <1>4, <1>5 DEF RunsUp, n
<1>. QED  BY <1>6, <1>7 DEF Sums, n

-----------------------------------------------------------------------------
(* What the levels of a book say of the queues Q, with the open sizes z.    *)

Sized(lv, Q, z) ==
    \A s \in Side, p \in Price :
        /\ lv[s][p] \in Level
        /\ Sums(Q[s][p], z, lv[s][p].total)
        /\ Len(Q[s][p]) # 0 => lv[s][p].price = p
Queueing == [Side -> [Price -> Seq(Slot)]]

\* The open sizes are numbers.
LEMMA OpenTyped ==
    ASSUME SlotsInv
    PROVE  Open \in [Slot -> Int] /\ \A o \in Slot : Open[o] = order[o].remaining
<1>1. \A o \in Slot : order[o].remaining \in Int
  BY DEF SlotsInv, Holding
<1>. QED  BY <1>1 DEF Open

\* An order o joins the queue of s and p, and the level there takes its size.
Joins(Q, R, z, y, lv, mv, s, p, o) ==
    /\ Q \in Queueing /\ z \in [Slot -> Int] /\ y \in [Slot -> Int]
    /\ Sized(lv, Q, z)
    /\ s \in Side /\ p \in Price /\ o \in Slot
    /\ \A x \in Slot : x # o => y[x] = z[x]
    /\ \A t \in Side, q \in Price : \A k \in 1..Len(Q[t][q]) : Q[t][q][k] # o
    /\ mv[s][p] \in Level /\ mv[s][p].total = lv[s][p].total + y[o] /\ mv[s][p].price = p
    /\ \A t \in Side, q \in Price : ~(t = s /\ q = p) => mv[t][q] = lv[t][q]
    /\ R = Behind(Q, s, p, o)

\* What a level says once an order has joined its queue.
LEMMA SizedJoins ==
    ASSUME NEW Q, NEW R, NEW z, NEW y, NEW lv, NEW mv, NEW s, NEW p, NEW o,
           Joins(Q, R, z, y, lv, mv, s, p, o)
    PROVE  Sized(mv, R, y)
<1> USE DEF Joins
<1>1. /\ R[s][p] = Append(Q[s][p], o)
      /\ \A t \in Side, q \in Price : ~(t = s /\ q = p) => R[t][q] = Q[t][q]
  <2>1. Append(Q[s][p], o) \in Seq(Slot)
    BY AppendProperties DEF Queueing
  <2>. QED  BY <2>1, OneCell DEF Behind, Queueing
<1>2. \A t \in Side, q \in Price : Q[t][q] \in Seq(Slot)
  BY DEF Queueing
<1>3. ASSUME NEW t \in Side, NEW q \in Price
      PROVE  \A k \in 1..Len(Q[t][q]) : y[Q[t][q][k]] = z[Q[t][q][k]]
  <2>1. \A k \in 1..Len(Q[t][q]) : Q[t][q][k] \in Slot
    BY <1>2, QueueTypes
  <2>. QED  BY <2>1
<1>4. Sums(R[s][p], y, mv[s][p].total)
  <2>1. Sums(Q[s][p], z, lv[s][p].total) /\ y[o] \in Int
    BY DEF Sized
  <2>3. PICK h : h = Q[s][p]
    OBVIOUS
  <2>4. h \in Seq(Slot) /\ Sums(h, z, lv[s][p].total) /\ \A k \in 1..Len(h) : y[h[k]] = z[h[k]]
    BY <1>2, <1>3, <2>1, <2>3
  <2>5. Sums(Append(h, o), y, lv[s][p].total + y[o])
    BY <2>1, <2>4, SumsAppend
  <2>2. Sums(Append(Q[s][p], o), y, lv[s][p].total + y[o])
    BY <2>3, <2>5
  <2>. QED  BY <1>1, <2>2
<1>5. ASSUME NEW t \in Side, NEW q \in Price, ~(t = s /\ q = p)
      PROVE  /\ mv[t][q] \in Level /\ Sums(R[t][q], y, mv[t][q].total)
             /\ Len(R[t][q]) # 0 => mv[t][q].price = q
  <2>1. /\ lv[t][q] \in Level /\ Sums(Q[t][q], z, lv[t][q].total)
        /\ Len(Q[t][q]) # 0 => lv[t][q].price = q
    BY DEF Sized
  <2>3. PICK h : h = Q[t][q]
    OBVIOUS
  <2>4. h \in Seq(Slot) /\ Sums(h, z, lv[t][q].total) /\ \A k \in 1..Len(h) : y[h[k]] = z[h[k]]
    BY <1>2, <1>3, <2>1, <2>3
  <2>2. Sums(Q[t][q], y, lv[t][q].total)
    BY <2>3, <2>4, SumsSame
  <2>. QED  BY <1>1, <1>5, <2>1, <2>2
<1>6. ASSUME NEW t \in Side, NEW q \in Price
      PROVE  /\ mv[t][q] \in Level /\ Sums(R[t][q], y, mv[t][q].total)
             /\ Len(R[t][q]) # 0 => mv[t][q].price = q
  BY <1>4, <1>5
<1>. QED  BY <1>6 DEF Sized

\* The order at position i leaves the queue of s and p: a level that empties may be
\* made blank.
Leaves(Q, R, z, y, lv, mv, s, p, i, o) ==
    /\ Q \in Queueing /\ NoRepeats(Q) /\ z \in [Slot -> Int] /\ y \in [Slot -> Int]
    /\ Sized(lv, Q, z)
    /\ s \in Side /\ p \in Price /\ i \in 1..Len(Q[s][p]) /\ o = Q[s][p][i]
    /\ \A x \in Slot : x # o => y[x] = z[x]
    /\ \A t \in Side, q \in Price : ~(t = s /\ q = p) =>
          \A k \in 1..Len(Q[t][q]) : Q[t][q][k] # o
    /\ R = Left(Q, s, p, i)
    /\ mv[s][p] \in Level
    /\ \/ mv[s][p].total = lv[s][p].total - z[o] /\ mv[s][p].price = lv[s][p].price
       \/ mv[s][p].total = lv[s][p].total - z[o] /\ Len(R[s][p]) = 0
       \/ mv[s][p].total = 0 /\ Len(R[s][p]) = 0
    /\ \A t \in Side, q \in Price : ~(t = s /\ q = p) => mv[t][q] = lv[t][q]

\* And once one has left it.
LEMMA SizedLeft ==
    ASSUME NEW Q, NEW R, NEW z, NEW y, NEW lv, NEW mv, NEW s, NEW p, NEW i, NEW o,
           Leaves(Q, R, z, y, lv, mv, s, p, i, o)
    PROVE  Sized(mv, R, y)
<1> USE DEF Leaves
<1>2. \A t \in Side, q \in Price : Q[t][q] \in Seq(Slot)
  BY DEF Queueing
<1>0. \A k \in 1..Len(Q[s][p]) : Q[s][p][k] \in Slot
  BY <1>2, QueueTypes
<1>1. /\ R[s][p] = RemoveAt(Q[s][p], i) /\ R[s][p] \in Seq(Slot)
      /\ \A t \in Side, q \in Price : ~(t = s /\ q = p) => R[t][q] = Q[t][q]
  <2>1. i \in DOMAIN Q[s][p]
    BY <1>2, QueueTypes
  <2>2. RemoveAt(Q[s][p], i) \in Seq(Slot)
    BY <1>2, <2>1, RemoveAtFacts
  <2>. QED  BY <2>2, OneCell DEF Left, Queueing
<1>3. ASSUME NEW t \in Side, NEW q \in Price, ~(t = s /\ q = p)
      PROVE  \A k \in 1..Len(Q[t][q]) : y[Q[t][q][k]] = z[Q[t][q][k]]
  <2>1. \A k \in 1..Len(Q[t][q]) : Q[t][q][k] \in Slot /\ Q[t][q][k] # o
    BY <1>2, <1>3, QueueTypes
  <2>. QED  BY <2>1
<1>4. /\ Sums(R[s][p], y, mv[s][p].total)
      /\ Len(R[s][p]) # 0 => mv[s][p].price = p
  <2>1. /\ Sums(Q[s][p], z, lv[s][p].total)
        /\ Len(Q[s][p]) # 0 => lv[s][p].price = p
    BY DEF Sized
  <2>2. \A k \in 1..Len(Q[s][p]) : k # i => y[Q[s][p][k]] = z[Q[s][p][k]]
    BY <1>0 DEF NoRepeats
  <2>3. PICK q : q = Q[s][p]
    OBVIOUS
  <2>4. Sums(RemoveAt(q, i), y, lv[s][p].total - z[q[i]])
    <3>1. q \in Seq(Slot) /\ i \in 1..Len(q) /\ Sums(q, z, lv[s][p].total)
          /\ \A k \in 1..Len(q) : k # i => y[q[k]] = z[q[k]]
      BY <1>2, <2>1, <2>2, <2>3
    <3>. QED  BY <3>1, SumsRemove
  <2>5. Sums(R[s][p], y, lv[s][p].total - z[o])
    BY <1>1, <2>3, <2>4
  <2>6. Len(Q[s][p]) # 0
    OBVIOUS
  <2>7. Len(R[s][p]) = 0 => Sums(R[s][p], y, 0)
    BY <1>1, SumsNone
  <2>. QED  BY <2>1, <2>5, <2>6, <2>7
<1>5. ASSUME NEW t \in Side, NEW q \in Price, ~(t = s /\ q = p)
      PROVE  /\ mv[t][q] \in Level /\ Sums(R[t][q], y, mv[t][q].total)
             /\ Len(R[t][q]) # 0 => mv[t][q].price = q
  <2>1. /\ lv[t][q] \in Level /\ Sums(Q[t][q], z, lv[t][q].total)
        /\ Len(Q[t][q]) # 0 => lv[t][q].price = q
    BY DEF Sized
  <2>3. PICK h : h = Q[t][q]
    OBVIOUS
  <2>4. h \in Seq(Slot) /\ Sums(h, z, lv[t][q].total) /\ \A k \in 1..Len(h) : y[h[k]] = z[h[k]]
    BY <1>2, <1>3, <1>5, <2>1, <2>3
  <2>2. Sums(Q[t][q], y, lv[t][q].total)
    BY <2>3, <2>4, SumsSame
  <2>. QED  BY <1>1, <1>5, <2>1, <2>2
<1>6. ASSUME NEW t \in Side, NEW q \in Price
      PROVE  /\ mv[t][q] \in Level /\ Sums(R[t][q], y, mv[t][q].total)
             /\ Len(R[t][q]) # 0 => mv[t][q].price = q
  BY <1>4, <1>5
<1>. QED  BY <1>6 DEF Sized

\* The order at position i of the queue of s and p becomes smaller by d.
Shrinks(Q, z, y, lv, mv, s, p, i, o, d) ==
    /\ Q \in Queueing /\ NoRepeats(Q) /\ z \in [Slot -> Int] /\ y \in [Slot -> Int]
    /\ Sized(lv, Q, z) /\ d \in Int
    /\ s \in Side /\ p \in Price /\ i \in 1..Len(Q[s][p]) /\ o = Q[s][p][i]
    /\ y[o] = z[o] - d /\ \A x \in Slot : x # o => y[x] = z[x]
    /\ \A t \in Side, q \in Price : ~(t = s /\ q = p) =>
          \A k \in 1..Len(Q[t][q]) : Q[t][q][k] # o
    /\ \A t \in Side, q \in Price :
          /\ mv[t][q] \in Level /\ mv[t][q].price = lv[t][q].price
          /\ mv[t][q].total = IF t = s /\ q = p THEN lv[t][q].total - d ELSE lv[t][q].total

\* And once one of its orders has become smaller.
LEMMA SizedReduced ==
    ASSUME NEW Q, NEW z, NEW y, NEW lv, NEW mv, NEW s, NEW p, NEW i, NEW o, NEW d,
           Shrinks(Q, z, y, lv, mv, s, p, i, o, d)
    PROVE  Sized(mv, Q, y)
<1> USE DEF Shrinks
<1>2. \A t \in Side, q \in Price : Q[t][q] \in Seq(Slot)
  BY DEF Queueing
<1>3. ASSUME NEW t \in Side, NEW q \in Price
      PROVE  /\ mv[t][q] \in Level /\ Sums(Q[t][q], y, mv[t][q].total)
             /\ Len(Q[t][q]) # 0 => mv[t][q].price = q
  <2>1. /\ lv[t][q] \in Level /\ Sums(Q[t][q], z, lv[t][q].total)
        /\ Len(Q[t][q]) # 0 => lv[t][q].price = q
    BY DEF Sized
  <2>2. \A k \in 1..Len(Q[t][q]) : Q[t][q][k] \in Slot
    BY <1>2, QueueTypes
  <2>3. CASE t = s /\ q = p
    <3>1. \A k \in 1..Len(Q[s][p]) : k # i => y[Q[s][p][k]] = z[Q[s][p][k]]
      BY <2>2, <2>3 DEF NoRepeats
    <3>2. PICK h : h = Q[s][p]
      OBVIOUS
    <3>3. /\ h \in Seq(Slot) /\ i \in 1..Len(h) /\ Sums(h, z, lv[s][p].total)
          /\ y[h[i]] = z[h[i]] - d
          /\ \A k \in 1..Len(h) : k # i => y[h[k]] = z[h[k]]
      BY <1>2, <2>1, <2>3, <3>1, <3>2
    <3>4. Sums(h, y, lv[s][p].total - d)
      BY <3>3, SumsReduce
    <3>. QED  BY <2>1, <2>3, <3>2, <3>4
  <2>4. CASE ~(t = s /\ q = p)
    <3>1. \A k \in 1..Len(Q[t][q]) : y[Q[t][q][k]] = z[Q[t][q][k]]
      BY <2>2, <2>4
    <3>2. Sums(Q[t][q], y, lv[t][q].total)
      BY <1>2, <2>1, <3>1, SumsSame
    <3>. QED  BY <2>1, <2>4, <3>2
  <2>. QED  BY <2>3, <2>4
<1>. QED  BY <1>3 DEF Sized

\* At the start nothing is queued and every total is 0.
LEMMA SizedAtFirst ==
    ASSUME NEW Q, \A s \in Side, p \in Price : Q[s][p] = <<>>, NEW z,
           NEW lv, \A s \in Side, p \in Price : lv[s][p] = EmptyLevel
    PROVE  Sized(lv, Q, z)
<1>1. EmptyLevel \in Level /\ EmptyLevel.total = 0
  BY PriceAssumption DEF EmptyLevel, Level
<1>2. ASSUME NEW q, q = <<>> PROVE Sums(q, z, 0) /\ Len(q) = 0
  <2>1. q \in Seq(Slot) /\ Len(q) = 0
    BY <1>2, EmptySeq
  <2>. QED  BY <2>1, SumsNone
<1>. QED  BY <1>1, <1>2 DEF Sized

-----------------------------------------------------------------------------
(* The levels of the bitset book and of the map book say what is queued.    *)

BookInv ==
    /\ ListInv /\ MapInv
    /\ Sized(BitLevels, Bitset!Queue, Open)
    /\ Sized(MapLevels, Bitset!Queue, Open)

\* A level's list is its queue.
LEMMA ListMeans ==
    ASSUME NEW lv, NEW links, NEW Q, Holds(lv, links, Q), NEW s \in Side, NEW p \in Price
    PROVE  /\ Q[s][p] \in Seq(Slot) /\ Len(Q[s][p]) \in Nat
           /\ lv[s][p].count = Len(Q[s][p])
           /\ lv[s][p].head = Null <=> Len(Q[s][p]) = 0
           /\ Len(Q[s][p]) # 0 => /\ lv[s][p].head = Q[s][p][1]
                                  /\ lv[s][p].tail = Q[s][p][Len(Q[s][p])]
<1>1. IsList(lv[s][p], links, Q[s][p])
  BY DEF Holds
<1>2. PICK q, l : q = Q[s][p] /\ l = lv[s][p]
  OBVIOUS
<1>3. IsList(l, links, q)
  BY <1>1, <1>2
<1>4. /\ q \in Seq(Slot) /\ l.count = Len(q)
      /\ l.head = IF Len(q) = 0 THEN Null ELSE q[1]
      /\ l.tail = IF Len(q) = 0 THEN Null ELSE q[Len(q)]
  BY <1>3 DEF IsList
<1>5. Len(q) \in Nat /\ \A k \in 1..Len(q) : q[k] # Null
  BY <1>4, QueueTypes
<1>6. Len(q) # 0 => 1 \in 1..Len(q)
  BY <1>5
<1>. QED  BY <1>2, <1>4, <1>5, <1>6

\* The queues: an order is in one place of one of them.
LEMMA QueuesMeans ==
    ASSUME NEW lv, NEW links, NEW Q, Holds(lv, links, Q)
    PROVE  /\ Q \in Queueing /\ NoRepeats(Q)
           /\ \A s, t \in Side, p, q \in Price : ~(t = s /\ q = p) =>
                 \A i \in 1..Len(Q[s][p]), k \in 1..Len(Q[t][q]) : Q[t][q][k] # Q[s][p][i]
<1>1. Q \in Queueing
  BY DEF Holds, Queueing
<1>2. NoRepeats(Q)
  <2>1. \A s \in Side, p \in Price : IsList(lv[s][p], links, Q[s][p])
    BY DEF Holds
  <2>. QED  BY <2>1 DEF IsList, NoRepeats
<1>3. \A s, t \in Side, p, q \in Price :
         \A i \in 1..Len(Q[s][p]), k \in 1..Len(Q[t][q]) :
            Q[s][p][i] = Q[t][q][k] => s = t /\ p = q
  BY DEF Holds
<1>. QED  BY <1>1, <1>2, <1>3

\* An order that rests, as the queues see it.
LEMMA JoinsQueues ==
    ASSUME ListInv, NEW o \in Slot, NEW r \in Offers, Rest(o, r)
    PROVE  /\ Bitset!Queue \in Queueing
           /\ Open \in [Slot -> Int] /\ Open' \in [Slot -> Int]
           /\ \A x \in Slot : x # o => Open'[x] = Open[x]
           /\ Open'[o] = r.remaining
           /\ \A t \in Side, q \in Price : \A k \in 1..Len(Bitset!Queue[t][q]) :
                 Bitset!Queue[t][q][k] # o
           /\ Bitset!Queue' = Behind(Bitset!Queue, r.side, r.price, o)
<1>1. SlotsInv /\ Placed(Bitset!Queue) /\ Bitset!Queue \in Queueing
  BY QueuesMeans DEF ListInv
<1>2. SlotsInv' /\ Idle(o) /\ order'[o] = r /\ \A x \in Slot : x # o => order'[x] = order[x]
  BY <1>1, SlotTaken
<1>3. Bitset!Queue' = Behind(Bitset!Queue, r.side, r.price, o)
  BY RestLists DEF Joined, Behind
<1>4. \A t \in Side, q \in Price : \A k \in 1..Len(Bitset!Queue[t][q]) :
         Bitset!Queue[t][q][k] # o
  BY <1>1, <1>2, IdleIsOut
<1>5. Open \in [Slot -> Int] /\ \A x \in Slot : Open[x] = order[x].remaining
  BY <1>1, OpenTyped
<1>6. Open' \in [Slot -> Int] /\ \A x \in Slot : Open'[x] = order'[x].remaining
  <2>1. \A x \in Slot : order'[x].remaining \in Int
    BY <1>2 DEF SlotsInv, Holding
  <2>. QED  BY <2>1, OpenIs
<1>7. ASSUME NEW x \in Slot, x # o PROVE Open'[x] = Open[x]
  BY <1>2, <1>5, <1>6, <1>7
<1>8. Open'[o] = r.remaining
  BY <1>2, <1>6
<1>. QED  BY <1>1, <1>3, <1>4, <1>5, <1>6, <1>7, <1>8

\* An order that leaves, as the queues see it: it was at position i.
LeftAt(o, s, p, i) ==
    /\ s \in Side /\ p \in Price /\ i \in 1..Len(Bitset!Queue[s][p])
    /\ s = order[o].side /\ p = order[o].price /\ Bitset!Queue[s][p][i] = o
    /\ \A t \in Side, q \in Price : ~(t = s /\ q = p) =>
          \A k \in 1..Len(Bitset!Queue[t][q]) : Bitset!Queue[t][q][k] # o
LEMMA LeavesQueues ==
    ASSUME ListInv, NEW o \in Slot, Leave(o)
    PROVE  /\ Bitset!Queue \in Queueing /\ NoRepeats(Bitset!Queue)
           /\ Open \in [Slot -> Int] /\ Open' \in [Slot -> Int]
           /\ Open[o] = order[o].remaining
           /\ \A x \in Slot : x # o => Open'[x] = Open[x]
           /\ \E s, p, i : LeftAt(o, s, p, i) /\ Bitset!Queue' = Left(Bitset!Queue, s, p, i)
<1>1. /\ SlotsInv /\ Bitset!Queue \in Queueing /\ NoRepeats(Bitset!Queue)
      /\ \A s, t \in Side, p, q \in Price : ~(t = s /\ q = p) =>
            \A i \in 1..Len(Bitset!Queue[s][p]), k \in 1..Len(Bitset!Queue[t][q]) :
               Bitset!Queue[t][q][k] # Bitset!Queue[s][p][i]
  BY QueuesMeans DEF ListInv
<1>2. SlotsInv' /\ \A x \in Slot : x # o => order'[x] = order[x]
  BY <1>1, SlotGiven
<1>3. PICK s \in Side, p \in Price : \E i \in 1..Len(Bitset!Queue[s][p]) :
         /\ s = order[o].side /\ p = order[o].price
         /\ Bitset!Queue[s][p][i] = o
         /\ Bitset!Queue' = Left(Bitset!Queue, s, p, i)
  BY LeaveLists
<1>4. PICK i \in 1..Len(Bitset!Queue[s][p]) :
         /\ s = order[o].side /\ p = order[o].price
         /\ Bitset!Queue[s][p][i] = o
         /\ Bitset!Queue' = Left(Bitset!Queue, s, p, i)
  BY <1>3
<1>5. \A t \in Side, q \in Price : ~(t = s /\ q = p) =>
         \A k \in 1..Len(Bitset!Queue[t][q]) : Bitset!Queue[t][q][k] # o
  BY <1>1, <1>4, SMTT(30)
<1>6. LeftAt(o, s, p, i)
  BY <1>3, <1>4, <1>5 DEF LeftAt
<1>7. Open \in [Slot -> Int] /\ \A x \in Slot : Open[x] = order[x].remaining
  BY <1>1, OpenTyped
<1>8. Open' \in [Slot -> Int] /\ \A x \in Slot : Open'[x] = order'[x].remaining
  <2>1. \A x \in Slot : order'[x].remaining \in Int
    BY <1>2 DEF SlotsInv, Holding
  <2>. QED  BY <2>1, OpenIs
<1>9. ASSUME NEW x \in Slot, x # o PROVE Open'[x] = Open[x]
  BY <1>2, <1>7, <1>8, <1>9
<1>. QED  BY <1>1, <1>4, <1>6, <1>7, <1>8, <1>9

\* And one that is reduced.
LEMMA ReducesQueues ==
    ASSUME ListInv, NEW o \in Slot, NEW traded \in Sizes, Reduce(o, traded)
    PROVE  /\ Bitset!Queue \in Queueing /\ NoRepeats(Bitset!Queue) /\ traded \in Int
           /\ Open \in [Slot -> Int] /\ Open' \in [Slot -> Int]
           /\ Open'[o] = Open[o] - traded
           /\ \A x \in Slot : x # o => Open'[x] = Open[x]
           /\ \E s, p, i : LeftAt(o, s, p, i)
           /\ Bitset!Queue' = Bitset!Queue
<1>1. /\ SlotsInv /\ Placed(Bitset!Queue)
      /\ Bitset!Queue \in Queueing /\ NoRepeats(Bitset!Queue)
      /\ \A s, t \in Side, p, q \in Price : ~(t = s /\ q = p) =>
            \A i \in 1..Len(Bitset!Queue[s][p]), k \in 1..Len(Bitset!Queue[t][q]) :
               Bitset!Queue[t][q][k] # Bitset!Queue[s][p][i]
  BY QueuesMeans DEF ListInv
<1>2. /\ SlotsInv' /\ ~Idle(o) /\ traded \in Int
      /\ order'[o].remaining = order[o].remaining - traded
      /\ \A x \in Slot : x # o => order'[x].remaining = order[x].remaining
  BY <1>1, SlotReduced
<1>3. PICK s, p : s = order[o].side /\ p = order[o].price
  OBVIOUS
<1>4. s \in Side /\ p \in Price
  <2>1. order[o] \in Holding
    BY <1>1 DEF SlotsInv
  <2>. QED  BY <1>1, <1>2, <1>3, <2>1 DEF SlotsInv, Holding
<1>5. PICK i \in 1..Len(Bitset!Queue[s][p]) : Bitset!Queue[s][p][i] = o
  BY <1>1, <1>2, <1>3 DEF Placed
<1>6. \A t \in Side, q \in Price : ~(t = s /\ q = p) =>
         \A k \in 1..Len(Bitset!Queue[t][q]) : Bitset!Queue[t][q][k] # o
  BY <1>1, <1>4, <1>5
<1>7. LeftAt(o, s, p, i)
  BY <1>3, <1>4, <1>5, <1>6 DEF LeftAt
<1>8. Open \in [Slot -> Int] /\ \A x \in Slot : Open[x] = order[x].remaining
  BY <1>1, OpenTyped
<1>9. Open' \in [Slot -> Int] /\ \A x \in Slot : Open'[x] = order'[x].remaining
  <2>1. \A x \in Slot : order'[x].remaining \in Int
    BY <1>2 DEF SlotsInv, Holding
  <2>. QED  BY <2>1, OpenIs
<1>10. ASSUME NEW x \in Slot, x # o PROVE Open'[x] = Open[x]
  BY <1>2, <1>8, <1>9, <1>10
<1>11. Bitset!Queue' = Bitset!Queue
  BY ReduceLists
<1>. QED  BY <1>1, <1>2, <1>7, <1>8, <1>9, <1>10, <1>11

\* A tree's levels are levels.
LEMMA MapLevelTyped ==
    ASSUME NEW s \in Side, NEW p \in Price
    PROVE  /\ MapTyped => MapLevels[s][p] \in Level
           /\ MapTyped' => MapLevels'[s][p] \in Level
<1>1. EmptyLevel \in Level
  BY PriceAssumption DEF EmptyLevel, Level
<1>2. MapTyped => MapLevels[s][p] \in Level
  <2> SUFFICES ASSUME MapTyped PROVE MapLevels[s][p] \in Level
    OBVIOUS
  <2>1. p \in DOMAIN tree[s] => tree[s][p] \in Nodes
    BY DEF MapTyped, IsTree
  <2>2. p \in DOMAIN tree[s] => cell[s][tree[s][p]] \in Level
    BY <2>1 DEF MapTyped
  <2>. QED  BY <1>1, <2>2, MapLevelIs
<1>3. MapTyped' => MapLevels'[s][p] \in Level
  <2> SUFFICES ASSUME MapTyped' PROVE MapLevels'[s][p] \in Level
    OBVIOUS
  <2>1. p \in DOMAIN tree'[s] => tree'[s][p] \in Nodes
    BY DEF MapTyped, IsTree
  <2>2. p \in DOMAIN tree'[s] => cell'[s][tree'[s][p]] \in Level
    BY <2>1 DEF MapTyped
  <2>. QED  BY <1>1, <2>2, MapLevelIs
<1>. QED  BY <1>2, <1>3

\* The array of levels, by side and price.
LEMMA BitLevelTyped ==
    ASSUME LevelsTyped, NEW s \in Side, NEW p \in Price
    PROVE  BitLevels[s][p] \in Level
<1>1. p - MinPrice \in Indexes
  BY BandFacts
<1>. QED  BY <1>1, BitLevelIs DEF LevelsTyped

\* The bitset book's level gets the size of an order that rests, and its price.
LEMMA BitSizesRest ==
    ASSUME BookInv, NEW o \in Slot, NEW r \in Offers, Rest(o, r)
    PROVE  Sized(BitLevels, Bitset!Queue, Open)'
<1>1. PICK Q, R, z, y, lv, mv, s, p, i :
         /\ Q = Bitset!Queue /\ R = Bitset!Queue' /\ z = Open /\ y = Open'
         /\ lv = BitLevels /\ mv = BitLevels'
         /\ s = r.side /\ p = r.price /\ i = p - MinPrice
  OBVIOUS
<1>2. /\ Q \in Queueing /\ z \in [Slot -> Int] /\ y \in [Slot -> Int]
      /\ \A x \in Slot : x # o => y[x] = z[x]
      /\ y[o] = r.remaining
      /\ \A t \in Side, q \in Price : \A k \in 1..Len(Q[t][q]) : Q[t][q][k] # o
      /\ R = Behind(Q, s, p, o)
  BY <1>1, JoinsQueues DEF BookInv
<1>3. LevelsTyped /\ Sized(lv, Q, z) /\ Holds(lv, bitLinks, Q)
  BY <1>1 DEF BookInv, ListInv
<1>4. /\ s \in Side /\ i \in Indexes /\ LevelsTyped'
      /\ level'[s][i].price = (IF IsEmpty(level[s][i]) THEN p ELSE level[s][i].price)
      /\ level'[s][i].total = level[s][i].total + r.remaining
      /\ \A t \in Side, j \in Indexes : ~(t = s /\ j = i) => level'[t][j] = level[t][j]
  BY <1>1, <1>3, RestLevel
<1>5. p \in Price
  BY <1>1, OfferTypes
<1>6. lv[s][p] = level[s][i] /\ mv[s][p] = level'[s][i]
  BY <1>1, <1>4, <1>5, BitLevelIs
<1>7. ASSUME NEW t \in Side, NEW q \in Price, ~(t = s /\ q = p)
      PROVE  mv[t][q] = lv[t][q]
  <2>1. q - MinPrice \in Indexes /\ ~(t = s /\ q - MinPrice = i)
    BY <1>1, <1>5, <1>7, BandFacts
  <2>2. level'[t][q - MinPrice] = level[t][q - MinPrice]
    BY <1>4, <2>1
  <2>. QED  BY <1>1, <2>2, BitLevelIs
<1>8. mv[s][p] \in Level
  BY <1>4, <1>6 DEF LevelsTyped
<1>9. mv[s][p].price = p
  <2>1. lv[s][p].head = Null <=> Len(Q[s][p]) = 0
    BY <1>3, <1>4, <1>5, ListMeans
  <2>2. Len(Q[s][p]) # 0 => lv[s][p].price = p
    BY <1>3, <1>4, <1>5 DEF Sized
  <2>. QED  BY <1>4, <1>6, <2>1, <2>2 DEF IsEmpty
<1>10. mv[s][p].total = lv[s][p].total + y[o]
  BY <1>2, <1>4, <1>6
<1>11. Sized(mv, R, y)
  <2>1. Sized(lv, Q, z) /\ s \in Side
    BY <1>3, <1>4
  <2>2. \A t \in Side, q \in Price : ~(t = s /\ q = p) => mv[t][q] = lv[t][q]
    BY <1>7
  <2>3. Joins(Q, R, z, y, lv, mv, s, p, o)
    BY <1>2, <1>5, <1>8, <1>9, <1>10, <2>1, <2>2, Zenon DEF Joins
  <2>. QED  BY <2>3, SizedJoins
<1>. QED  BY <1>1, <1>11 DEF Sized

\* So does the map book's.
LEMMA MapSizesRest ==
    ASSUME BookInv, NEW o \in Slot, NEW r \in Offers, Rest(o, r)
    PROVE  Sized(MapLevels, Bitset!Queue, Open)'
<1>1. PICK Q, R, z, y, lv, mv, s, p :
         /\ Q = Bitset!Queue /\ R = Bitset!Queue' /\ z = Open /\ y = Open'
         /\ lv = MapLevels /\ mv = MapLevels'
         /\ s = r.side /\ p = r.price
  OBVIOUS
<1>2. /\ Q \in Queueing /\ z \in [Slot -> Int] /\ y \in [Slot -> Int]
      /\ \A x \in Slot : x # o => y[x] = z[x]
      /\ y[o] = r.remaining
      /\ \A t \in Side, q \in Price : \A k \in 1..Len(Q[t][q]) : Q[t][q][k] # o
      /\ R = Behind(Q, s, p, o)
  BY <1>1, JoinsQueues DEF BookInv
<1>3. MapTyped /\ Sized(lv, Q, z) /\ Holds(lv, mapLinks, Q)
  BY <1>1 DEF BookInv, MapInv
<1>4. /\ s \in Side /\ p \in Price /\ MapTyped'
      /\ mv[s][p].total = lv[s][p].total + r.remaining
      /\ mv[s][p].price = (IF IsEmpty(lv[s][p]) THEN p ELSE lv[s][p].price)
      /\ \A t \in Side, q \in Price : ~(t = s /\ q = p) => mv[t][q] = lv[t][q]
  BY <1>1, <1>3, RestNodes
<1>5. mv[s][p] \in Level
  BY <1>1, <1>4, MapLevelTyped
<1>6. mv[s][p].price = p
  <2>1. lv[s][p].head = Null <=> Len(Q[s][p]) = 0
    BY <1>3, <1>4, ListMeans
  <2>2. Len(Q[s][p]) # 0 => lv[s][p].price = p
    BY <1>3, <1>4 DEF Sized
  <2>. QED  BY <1>4, <2>1, <2>2 DEF IsEmpty
<1>7. mv[s][p].total = lv[s][p].total + y[o]
  BY <1>2, <1>4
<1>8. Sized(mv, R, y)
  <2>1. Joins(Q, R, z, y, lv, mv, s, p, o)
    BY <1>2, <1>3, <1>4, <1>5, <1>6, <1>7, Zenon DEF Joins
  <2>. QED  BY <2>1, SizedJoins
<1>. QED  BY <1>1, <1>8 DEF Sized

\* An order that leaves takes its size out of its level, in the bitset book.
LEMMA BitSizesLeave ==
    ASSUME BookInv, NEW o \in Slot, Leave(o)
    PROVE  Sized(BitLevels, Bitset!Queue, Open)'
<1>1. PICK Q, R, z, y, lv, mv :
         /\ Q = Bitset!Queue /\ R = Bitset!Queue' /\ z = Open /\ y = Open'
         /\ lv = BitLevels /\ mv = BitLevels'
  OBVIOUS
<1>2. /\ Q \in Queueing /\ NoRepeats(Q) /\ z \in [Slot -> Int] /\ y \in [Slot -> Int]
      /\ z[o] = order[o].remaining
      /\ \A x \in Slot : x # o => y[x] = z[x]
      /\ \E s, p, i : LeftAt(o, s, p, i) /\ R = Left(Q, s, p, i)
  BY <1>1, LeavesQueues DEF BookInv
<1>3. PICK s, p, k : LeftAt(o, s, p, k) /\ R = Left(Q, s, p, k)
  BY <1>2
<1>4. /\ s \in Side /\ p \in Price /\ k \in 1..Len(Q[s][p])
      /\ s = order[o].side /\ p = order[o].price /\ Q[s][p][k] = o
      /\ \A t \in Side, q \in Price : ~(t = s /\ q = p) =>
            \A j \in 1..Len(Q[t][q]) : Q[t][q][j] # o
  BY <1>1, <1>3 DEF LeftAt
<1>5. SlotsInv /\ LevelsTyped /\ Sized(lv, Q, z) /\ bitLinks \in [Slot -> Link]
  BY <1>1 DEF BookInv, ListInv, Holds
<1>6. PICK i : i = p - MinPrice
  OBVIOUS
<1>7. /\ i \in Indexes /\ LevelsTyped'
      /\ level'[s][i].price = (IF level'[s][i].head = Null THEN NoPrice ELSE level[s][i].price)
      /\ level'[s][i].total = level[s][i].total - order[o].remaining
      /\ \A t \in Side, j \in Indexes : ~(t = s /\ j = i) => level'[t][j] = level[t][j]
  BY <1>4, <1>5, <1>6, LeaveLevel
<1>8. lv[s][p] = level[s][i] /\ mv[s][p] = level'[s][i]
  BY <1>1, <1>4, <1>6, BitLevelIs
<1>9. ASSUME NEW t \in Side, NEW q \in Price, ~(t = s /\ q = p)
      PROVE  mv[t][q] = lv[t][q]
  <2>1. q - MinPrice \in Indexes /\ ~(t = s /\ q - MinPrice = i)
    BY <1>4, <1>6, <1>9, BandFacts
  <2>2. level'[t][q - MinPrice] = level[t][q - MinPrice]
    BY <1>7, <2>1
  <2>. QED  BY <1>1, <2>2, BitLevelIs
<1>10. mv[s][p] \in Level
  BY <1>4, <1>7, <1>8 DEF LevelsTyped
<1>11. mv[s][p].head = Null <=> Len(R[s][p]) = 0
  <2>1. ListInv'
    BY LeaveLists DEF BookInv
  <2>2. Holds(mv, bitLinks', R)
    BY <1>1, <2>1 DEF ListInv
  <2>. QED  BY <1>4, <2>2, ListMeans
<1>12. \/ mv[s][p].total = lv[s][p].total - z[o] /\ mv[s][p].price = lv[s][p].price
       \/ mv[s][p].total = lv[s][p].total - z[o] /\ Len(R[s][p]) = 0
  BY <1>2, <1>7, <1>8, <1>11
<1>13. Sized(mv, R, y)
  <2>1. \A t \in Side, q \in Price : ~(t = s /\ q = p) => mv[t][q] = lv[t][q]
    BY <1>9
  <2>2. Leaves(Q, R, z, y, lv, mv, s, p, k, o)
    BY <1>2, <1>3, <1>4, <1>5, <1>10, <1>12, <2>1, Zenon DEF Leaves
  <2>. QED  BY <2>2, SizedLeft
<1>. QED  BY <1>1, <1>13 DEF Sized

\* And in the map book, which takes an emptied level out of its tree.
LEMMA MapSizesLeave ==
    ASSUME BookInv, NEW o \in Slot, Leave(o)
    PROVE  Sized(MapLevels, Bitset!Queue, Open)'
<1>1. PICK Q, R, z, y, lv, mv :
         /\ Q = Bitset!Queue /\ R = Bitset!Queue' /\ z = Open /\ y = Open'
         /\ lv = MapLevels /\ mv = MapLevels'
  OBVIOUS
<1>2. /\ Q \in Queueing /\ NoRepeats(Q) /\ z \in [Slot -> Int] /\ y \in [Slot -> Int]
      /\ z[o] = order[o].remaining
      /\ \A x \in Slot : x # o => y[x] = z[x]
      /\ \E s, p, i : LeftAt(o, s, p, i) /\ R = Left(Q, s, p, i)
  BY <1>1, LeavesQueues DEF BookInv
<1>3. PICK s, p, k : LeftAt(o, s, p, k) /\ R = Left(Q, s, p, k)
  BY <1>2
<1>4. /\ s \in Side /\ p \in Price /\ k \in 1..Len(Q[s][p])
      /\ s = order[o].side /\ p = order[o].price /\ Q[s][p][k] = o
      /\ \A t \in Side, q \in Price : ~(t = s /\ q = p) =>
            \A j \in 1..Len(Q[t][q]) : Q[t][q][j] # o
  BY <1>1, <1>3 DEF LeftAt
<1>5. /\ SlotsInv /\ MapTyped /\ Sized(lv, Q, z) /\ mapLinks \in [Slot -> Link]
      /\ \A t \in Side, q \in Price : q \in DOMAIN tree[t] <=> Len(Q[t][q]) # 0
  BY <1>1 DEF BookInv, ListInv, MapInv, Holds
<1>6. p \in DOMAIN tree[s]
  BY <1>4, <1>5
<1>7. PICK l : l = UnlinkedFrom(lv[s][p], mapLinks, o, order[o].remaining)
  OBVIOUS
<1>8. l.price = lv[s][p].price /\ l.total = lv[s][p].total - z[o]
  <2>1. lv[s][p] \in Level
    BY <1>1, <1>4, <1>5, MapLevelTyped
  <2>2. order[o].remaining \in Int
    BY <1>5 DEF SlotsInv, Holding
  <2>3. PICK c, n : c = lv[s][p] /\ n = order[o].remaining
    OBVIOUS
  <2>4. c \in Level /\ n \in Int /\ l = UnlinkedFrom(c, mapLinks, o, n)
    BY <1>7, <2>1, <2>2, <2>3
  <2>5. l.price = c.price /\ l.total = c.total - n
    BY <1>5, <2>4, UnlinkedFields
  <2>. QED  BY <1>2, <2>3, <2>5
<1>9. /\ MapTyped'
      /\ mv[s][p] = (IF l.head = Null THEN EmptyLevel ELSE l)
      /\ \A t \in Side, q \in Price : ~(t = s /\ q = p) => mv[t][q] = lv[t][q]
  <2>1. l = UnlinkedFrom(MapLevels[s][p], mapLinks, o, order[o].remaining)
    BY <1>1, <1>7
  <2>2. MapUnlinks(l, s, p, o)
    BY <1>4, <1>5, <1>6, <2>1, LeaveNodes
  <2>. QED  BY <1>1, <2>2 DEF MapUnlinks
<1>10. mv[s][p] \in Level
  BY <1>1, <1>4, <1>9, MapLevelTyped
<1>11. l.head = Null => mv[s][p].total = 0 /\ Len(R[s][p]) = 0
  <2>1. MapInv'
    BY MapLeave DEF BookInv
  <2>2. Holds(mv, mapLinks', R)
    BY <1>1, <2>1 DEF MapInv
  <2>3. mv[s][p].head = Null <=> Len(R[s][p]) = 0
    BY <1>4, <2>2, ListMeans
  <2>. QED  BY <1>9, <2>3 DEF EmptyLevel
<1>12. \/ mv[s][p].total = lv[s][p].total - z[o] /\ mv[s][p].price = lv[s][p].price
       \/ mv[s][p].total = 0 /\ Len(R[s][p]) = 0
  BY <1>8, <1>9, <1>11
<1>13. Leaves(Q, R, z, y, lv, mv, s, p, k, o)
  BY <1>2, <1>3, <1>4, <1>5, <1>9, <1>10, <1>12, Zenon DEF Leaves
<1>14. Sized(mv, R, y)
  BY <1>13, SizedLeft
<1>. QED  BY <1>1, <1>14 DEF Sized

\* A reduction takes what was traded off one total, in the bitset book.
LEMMA BitSizesReduce ==
    ASSUME BookInv, NEW o \in Slot, NEW traded \in Sizes, Reduce(o, traded)
    PROVE  Sized(BitLevels, Bitset!Queue, Open)'
<1>1. PICK Q, z, y, lv, mv :
         /\ Q = Bitset!Queue /\ z = Open /\ y = Open'
         /\ lv = BitLevels /\ mv = BitLevels'
  OBVIOUS
<1>2. /\ Q \in Queueing /\ NoRepeats(Q) /\ traded \in Int
      /\ z \in [Slot -> Int] /\ y \in [Slot -> Int]
      /\ y[o] = z[o] - traded /\ \A x \in Slot : x # o => y[x] = z[x]
      /\ \E s, p, i : LeftAt(o, s, p, i)
      /\ Bitset!Queue' = Q
  BY <1>1, ReducesQueues DEF BookInv
<1>3. PICK s, p, k : LeftAt(o, s, p, k)
  BY <1>2
<1>4. /\ s \in Side /\ p \in Price /\ k \in 1..Len(Q[s][p])
      /\ s = order[o].side /\ p = order[o].price /\ o = Q[s][p][k]
      /\ \A t \in Side, q \in Price : ~(t = s /\ q = p) =>
            \A j \in 1..Len(Q[t][q]) : Q[t][q][j] # o
  BY <1>1, <1>3 DEF LeftAt
<1>5. SlotsInv /\ LevelsTyped /\ Sized(lv, Q, z)
  BY <1>1 DEF BookInv, ListInv
<1>6. ASSUME NEW t \in Side, NEW q \in Price
      PROVE  /\ mv[t][q] \in Level /\ mv[t][q].price = lv[t][q].price
             /\ mv[t][q].total = IF t = s /\ q = p THEN lv[t][q].total - traded
                                 ELSE lv[t][q].total
  <2>1. PICK j : j = q - MinPrice
    OBVIOUS
  <2>2. j \in Indexes /\ (j = order[o].price - MinPrice <=> q = p)
    BY <1>4, <2>1, BandFacts
  <2>3. lv[t][q] = level[t][j] /\ mv[t][q] = level'[t][j]
    BY <1>1, <2>1, BitLevelIs
  <2>4. /\ LevelsTyped' /\ level'[t][j].price = level[t][j].price
        /\ level'[t][j].total = (IF t = order[o].side /\ j = order[o].price - MinPrice
                                 THEN level[t][j].total - traded ELSE level[t][j].total)
    BY <1>5, <2>2, ReduceLevel
  <2>5. level'[t][j] \in Level
    BY <2>2, <2>4 DEF LevelsTyped
  <2>. QED  BY <1>4, <2>2, <2>3, <2>4, <2>5
<1>7. Shrinks(Q, z, y, lv, mv, s, p, k, o, traded)
  <2>1. \A t \in Side, q \in Price :
           /\ mv[t][q] \in Level /\ mv[t][q].price = lv[t][q].price
           /\ mv[t][q].total = IF t = s /\ q = p THEN lv[t][q].total - traded
                               ELSE lv[t][q].total
    BY <1>6
  <2>. QED  BY <1>2, <1>4, <1>5, <2>1, Zenon DEF Shrinks
<1>8. Sized(mv, Q, y)
  BY <1>7, SizedReduced
<1>. QED  BY <1>1, <1>2, <1>8 DEF Sized

\* And in the map book.
LEMMA MapSizesReduce ==
    ASSUME BookInv, NEW o \in Slot, NEW traded \in Sizes, Reduce(o, traded)
    PROVE  Sized(MapLevels, Bitset!Queue, Open)'
<1>1. PICK Q, z, y, lv, mv :
         /\ Q = Bitset!Queue /\ z = Open /\ y = Open'
         /\ lv = MapLevels /\ mv = MapLevels'
  OBVIOUS
<1>2. /\ Q \in Queueing /\ NoRepeats(Q) /\ traded \in Int
      /\ z \in [Slot -> Int] /\ y \in [Slot -> Int]
      /\ y[o] = z[o] - traded /\ \A x \in Slot : x # o => y[x] = z[x]
      /\ \E s, p, i : LeftAt(o, s, p, i)
      /\ Bitset!Queue' = Q
  BY <1>1, ReducesQueues DEF BookInv
<1>3. PICK s, p, k : LeftAt(o, s, p, k)
  BY <1>2
<1>4. /\ s \in Side /\ p \in Price /\ k \in 1..Len(Q[s][p])
      /\ s = order[o].side /\ p = order[o].price /\ o = Q[s][p][k]
      /\ \A t \in Side, q \in Price : ~(t = s /\ q = p) =>
            \A j \in 1..Len(Q[t][q]) : Q[t][q][j] # o
  BY <1>1, <1>3 DEF LeftAt
<1>5. /\ SlotsInv /\ MapTyped /\ Sized(lv, Q, z)
      /\ \A t \in Side, q \in Price : q \in DOMAIN tree[t] <=> Len(Q[t][q]) # 0
  BY <1>1 DEF BookInv, ListInv, MapInv
<1>6. p \in DOMAIN tree[s]
  <2>1. Len(Q[s][p]) # 0
    <3>1. Len(Q[s][p]) \in Nat /\ k \in 1..Len(Q[s][p])
      BY <1>2, <1>4, QueueTypes DEF Queueing
    <3>. QED  BY <3>1
  <2>. QED  BY <1>4, <1>5, <2>1
<1>7. /\ MapTyped'
      /\ \A t \in Side, q \in Price :
            /\ mv[t][q].price = lv[t][q].price
            /\ mv[t][q].total = IF t = s /\ q = p THEN lv[t][q].total - traded
                                ELSE lv[t][q].total
  <2>1. MapTyped /\ SlotsInv /\ s = order[o].side /\ p = order[o].price
    BY <1>4, <1>5
  <2>2. /\ MapTyped'
        /\ \A t \in Side, q \in Price :
              /\ MapLevels'[t][q].price = MapLevels[t][q].price
              /\ MapLevels'[t][q].total = (IF t = s /\ q = p
                                          THEN MapLevels[t][q].total - traded
                                          ELSE MapLevels[t][q].total)
    BY <1>6, <2>1, ReduceNodes
  <2>. QED  BY <1>1, <2>2
<1>8. \A t \in Side, q \in Price : mv[t][q] \in Level
  BY <1>1, <1>7, MapLevelTyped
<1>9. Shrinks(Q, z, y, lv, mv, s, p, k, o, traded)
  <2>1. \A t \in Side, q \in Price :
           /\ mv[t][q] \in Level /\ mv[t][q].price = lv[t][q].price
           /\ mv[t][q].total = IF t = s /\ q = p THEN lv[t][q].total - traded
                               ELSE lv[t][q].total
    BY <1>7, <1>8
  <2>. QED  BY <1>2, <1>4, <1>5, <2>1, Zenon DEF Shrinks
<1>10. Sized(mv, Q, y)
  BY <1>9, SizedReduced
<1>. QED  BY <1>1, <1>2, <1>10 DEF Sized

\* A step that changes nothing leaves the levels as they are.
LEMMA StillSized ==
    ASSUME BookInv, UNCHANGED vars
    PROVE  BookInv'
<1>1. ListInv' /\ MapInv' /\ Bitset!Queue' = Bitset!Queue
  BY StillLists, StillMapped DEF BookInv
<1>2. level' = level /\ tree' = tree /\ cell' = cell /\ order' = order
  BY DEF vars, Bitset!vars, Map!vars
<1>3. BitLevels' = BitLevels /\ MapLevels' = MapLevels /\ Open' = Open
  BY <1>2, OpenIs DEF BitLevels, MapLevels
<1>. QED  BY <1>1, <1>3 DEF BookInv, Sized

\* At the start there is nothing to say.
LEMMA BookStarts ==
    ASSUME Init
    PROVE  BookInv
<1>1. /\ ListInv /\ Bitset!Queue = [s \in Side |-> [p \in Price |-> <<>>]]
      /\ MapInv
  BY ListInit, MapInit
<1>2. \A s \in Side, p \in Price : Bitset!Queue[s][p] = <<>>
  BY <1>1
<1>3. \A s \in Side, p \in Price : BitLevels[s][p] = EmptyLevel
  <2>1. level = [s \in Side |-> [i \in Indexes |-> EmptyLevel]]
    BY SameBitset DEF Init, Bitset!Init, Indexes
  <2>. QED  BY <2>1, BandFacts, BitLevelIs
<1>4. \A s \in Side, p \in Price : MapLevels[s][p] = EmptyLevel
  <2>1. tree = [s \in Side |-> <<>>]
    BY SameMap DEF Init, Map!Init
  <2>2. DOMAIN <<>> = {}
    BY EmptySeq
  <2>. QED  BY <2>1, <2>2, MapLevelIs
<1>5. Sized(BitLevels, Bitset!Queue, Open) /\ Sized(MapLevels, Bitset!Queue, Open)
  BY <1>2, <1>3, <1>4, SizedAtFirst
<1>. QED  BY <1>1, <1>5 DEF BookInv

\* In every reachable state each level of the bitset book and of the map book has the
\* price of its place and, as its total, the sum of the open sizes of the orders in
\* its list (the total_qty of price_level.hpp, which reduce_in_place keeps).
THEOREM LevelsSized == Spec => []BookInv
<1>1. Init => BookInv
  BY BookStarts
<1>2. BookInv /\ [Next]_vars => BookInv'
  <2> SUFFICES ASSUME BookInv, [Next]_vars PROVE BookInv'
    OBVIOUS
  <2>1. ListInv /\ MapInv
    BY DEF BookInv
  <2>2. CASE UNCHANGED vars
    BY <2>2, StillSized
  <2>3. ASSUME NEW o \in Slot, NEW r \in Offers, Rest(o, r) PROVE BookInv'
    BY <2>1, <2>3, RestLists, MapRest, BitSizesRest, MapSizesRest DEF BookInv
  <2>4. ASSUME NEW o \in Slot, Leave(o) PROVE BookInv'
    BY <2>1, <2>4, LeaveLists, MapLeave, BitSizesLeave, MapSizesLeave DEF BookInv
  <2>5. ASSUME NEW o \in Slot, NEW traded \in Sizes, Reduce(o, traded) PROVE BookInv'
    BY <2>1, <2>5, ReduceLists, MapReduce, BitSizesReduce, MapSizesReduce DEF BookInv
  <2>. QED  BY <2>2, <2>3, <2>4, <2>5 DEF Next
<1>. QED  BY <1>1, <1>2, PTL DEF Spec

-----------------------------------------------------------------------------
(* A side of the vector book: its levels in order of price, best first.     *)

IsRow(v, s) ==
    /\ v \in Seq(Level)
    /\ \A k \in 1..Len(v) : v[k].price \in Price
    /\ \A j, k \in 1..Len(v) : j < k => Better(s, v[j].price, v[k].price)
\* lower_bound over the levels v, and the level it finds.
SeekIn(v, s, p) == Min({k \in DOMAIN v : ~Better(s, v[k].price, p)} \cup {Len(v) + 1})
FoundIn(v, s, p) == SeekIn(v, s, p) \in DOMAIN v /\ v[SeekIn(v, s, p)].price = p
LevelIn(v, s, p) == IF FoundIn(v, s, p) THEN v[SeekIn(v, s, p)] ELSE EmptyLevel

\* The vector book has helpers of its own, too.
LEMMA SameVector ==
    /\ Vector!Side = Side /\ Vector!Price = Price
    /\ Vector!EmptyLevel = EmptyLevel /\ Vector!Unlinked = Unlinked
    /\ \A l : Vector!IsEmpty(l) <=> IsEmpty(l)
    /\ \A l, o, q : Vector!Pushed(l, o, q) = Pushed(l, o, q)
    /\ \A lk, l, o : Vector!PushLinks(lk, l, o) = PushLinks(lk, l, o)
    /\ \A l, lk, o, q : Vector!UnlinkedFrom(l, lk, o, q) = UnlinkedFrom(l, lk, o, q)
    /\ \A lk, o : Vector!UnlinkLinks(lk, o) = UnlinkLinks(lk, o)
<1>0. Vector!Side = Side /\ Vector!Price = Price
  BY DEF Vector!Side, Side, Vector!Price, Price
<1>1. Vector!EmptyLevel = EmptyLevel /\ Vector!Unlinked = Unlinked
  BY DEF Vector!EmptyLevel, EmptyLevel, Vector!Unlinked, Unlinked
<1>2. \A l : Vector!IsEmpty(l) <=> IsEmpty(l)
  BY DEF Vector!IsEmpty, IsEmpty
<1>3. \A l, o, q : Vector!Pushed(l, o, q) = Pushed(l, o, q)
  BY DEF Vector!Pushed, Pushed
<1>4. \A lk, l, o : Vector!PushLinks(lk, l, o) = PushLinks(lk, l, o)
  BY DEF Vector!PushLinks, PushLinks
<1>5. \A l, lk, o, q : Vector!UnlinkedFrom(l, lk, o, q) = UnlinkedFrom(l, lk, o, q)
  BY DEF Vector!UnlinkedFrom, UnlinkedFrom
<1>6. \A lk, o : Vector!UnlinkLinks(lk, o) = UnlinkLinks(lk, o)
  BY DEF Vector!UnlinkLinks, UnlinkLinks, Vector!Unlinked, Unlinked
<1>. QED  BY <1>0, <1>1, <1>2, <1>3, <1>4, <1>5, <1>6

\* And so do its sequences and its lower_bound.
LEMMA SameSeek ==
    /\ \A v, k, l : Vector!InsertAt(v, k, l) = InsertAt(v, k, l)
    /\ \A v, k : Vector!RemoveAt(v, k) = RemoveAt(v, k)
    /\ \A s, p : /\ Vector!Seek(s, p) = SeekIn(nodes[s], s, p)
                 /\ Vector!Found(s, p) <=> FoundIn(nodes[s], s, p)
<1>1. \A v, k, l : Vector!InsertAt(v, k, l) = InsertAt(v, k, l)
  BY DEF Vector!InsertAt, InsertAt
<1>2. \A v, k : Vector!RemoveAt(v, k) = RemoveAt(v, k)
  BY DEF Vector!RemoveAt, RemoveAt
<1>3. ASSUME NEW s, NEW p PROVE Vector!Seek(s, p) = SeekIn(nodes[s], s, p)
  <2>1. \A q, r : Vector!Better(s, q, r) <=> Better(s, q, r)
    BY DEF Vector!Better, Better
  <2>2. {k \in DOMAIN nodes[s] : ~Vector!Better(s, nodes[s][k].price, p)}
        = {k \in DOMAIN nodes[s] : ~Better(s, nodes[s][k].price, p)}
    BY <2>1
  <2>3. \A S : Vector!Min(S) = Min(S)
    BY DEF Vector!Min, Min
  <2>. QED  BY <2>2, <2>3 DEF Vector!Seek, SeekIn
<1>4. ASSUME NEW s, NEW p PROVE Vector!Found(s, p) <=> FoundIn(nodes[s], s, p)
  BY <1>3 DEF Vector!Found, FoundIn
<1>. QED  BY <1>1, <1>2, <1>3, <1>4

\* Prices of the band are in a strict order, best first.
LEMMA BetterFacts ==
    ASSUME NEW s \in Side
    PROVE  /\ \A p \in Price : p \in Int /\ ~Better(s, p, p)
           /\ \A p, q \in Price : p # q => (Better(s, p, q) <=> ~Better(s, q, p))
           /\ \A p, q, r \in Price : Better(s, p, q) /\ Better(s, q, r) => Better(s, p, r)
  BY PriceAssumption DEF Side, Price, Better

\* A nonempty set of positions has a first.
LEMMA MinIs ==
    ASSUME NEW S, S \subseteq Nat, S # {}
    PROVE  Min(S) \in S /\ \A k \in S : Min(S) <= k
<1>1. \E x \in S : \A y \in S : x <= y
  BY LeastNat
<1>. QED  BY <1>1, Zenon DEF Min

\* What a row is made of.
LEMMA RowFacts ==
    ASSUME NEW s \in Side, NEW v, IsRow(v, s)
    PROVE  /\ Len(v) \in Nat /\ DOMAIN v = 1..Len(v)
           /\ \A k \in 1..Len(v) : v[k] \in Level /\ v[k].price \in Price
<1>1. v \in Seq(Level)
  BY DEF IsRow
<1>2. Len(v) \in Nat /\ DOMAIN v = 1..Len(v) /\ \A k \in 1..Len(v) : v[k] \in Level
  BY <1>1, LenProperties, ElementOfSeq
<1>. QED  BY <1>2 DEF IsRow

\* lower_bound: better prices before it, none at or after it.
LEMMA SeekIs ==
    ASSUME NEW s \in Side, NEW v, IsRow(v, s), NEW p \in Price, NEW k, k = SeekIn(v, s, p)
    PROVE  /\ k \in 1..(Len(v) + 1)
           /\ \A j \in 1..Len(v) : j < k => Better(s, v[j].price, p)
           /\ \A j \in 1..Len(v) : j >= k => ~Better(s, v[j].price, p)
           /\ \A j \in 1..Len(v) : v[j].price = p => j = k
           /\ FoundIn(v, s, p) <=> \E j \in 1..Len(v) : v[j].price = p
<1>0. /\ Len(v) \in Nat /\ DOMAIN v = 1..Len(v)
      /\ \A j \in 1..Len(v) : v[j] \in Level /\ v[j].price \in Price
      /\ \A i, j \in 1..Len(v) : i < j => Better(s, v[i].price, v[j].price)
  BY RowFacts DEF IsRow
<1> DEFINE n == Len(v)
           S == {j \in DOMAIN v : ~Better(s, v[j].price, p)} \cup {Len(v) + 1}
<1>1. k \in S /\ \A j \in S : k <= j
  <2>1. S \subseteq Nat /\ S # {}
    BY <1>0
  <2>2. k = Min(S)
    BY DEF SeekIn
  <2> HIDE DEF S
  <2>. QED  BY <2>1, <2>2, MinIs
<1>2. k \in 1..(n + 1)
  BY <1>0, <1>1
<1>3. ASSUME NEW j \in 1..n, j < k PROVE Better(s, v[j].price, p)
  <2>1. j \notin S
    BY <1>0, <1>1, <1>2, <1>3
  <2>. QED  BY <1>0, <2>1
<1>4. ASSUME NEW j \in 1..n, j >= k PROVE ~Better(s, v[j].price, p)
  <2>1. k \in 1..n /\ ~Better(s, v[k].price, p)
    BY <1>0, <1>1, <1>2, <1>4
  <2>2. CASE j = k
    BY <2>1, <2>2
  <2>3. CASE j # k
    <3>1. Better(s, v[k].price, v[j].price)
      BY <1>0, <1>2, <1>4, <2>1, <2>3
    <3>2. v[k].price \in Price /\ v[j].price \in Price
      BY <1>0, <2>1
    <3>. QED  BY <2>1, <3>1, <3>2, BetterFacts
  <2>. QED  BY <2>2, <2>3
<1>5. ASSUME NEW j \in 1..n, v[j].price = p PROVE j = k
  <2>1. ~Better(s, v[j].price, p)
    BY <1>5, BetterFacts
  <2>2. ~(j < k)
    BY <1>3, <2>1
  <2>3. ASSUME k < j PROVE FALSE
    <3>1. k \in 1..n /\ ~Better(s, v[k].price, p)
      <4>1. k \in 1..n /\ k >= k
        BY <1>0, <1>2, <2>3
      <4>. QED  BY <1>4, <4>1
    <3>2. Better(s, v[k].price, v[j].price)
      BY <1>0, <2>3, <3>1
    <3>. QED  BY <1>5, <3>1, <3>2
  <2>. QED  BY <1>0, <1>2, <2>2, <2>3
<1>6. FoundIn(v, s, p) <=> \E j \in 1..n : v[j].price = p
  BY <1>0, <1>5 DEF FoundIn
<1>. QED  BY <1>2, <1>3, <1>4, <1>5, <1>6

\* The level of a price is the one in the row that has it.
LEMMA LevelAtPrice ==
    ASSUME NEW s \in Side, NEW v, IsRow(v, s)
    PROVE  /\ \A j \in 1..Len(v) : FoundIn(v, s, v[j].price) /\ LevelIn(v, s, v[j].price) = v[j]
           /\ \A p \in Price : (\A j \in 1..Len(v) : v[j].price # p) =>
                 ~FoundIn(v, s, p) /\ LevelIn(v, s, p) = EmptyLevel
           /\ \A p \in Price : FoundIn(v, s, p) =>
                 \E j \in 1..Len(v) : j = SeekIn(v, s, p) /\ v[j].price = p /\ LevelIn(v, s, p) = v[j]
<1>1. ASSUME NEW j \in 1..Len(v)
      PROVE FoundIn(v, s, v[j].price) /\ LevelIn(v, s, v[j].price) = v[j]
  <2>1. PICK p : p = v[j].price
    OBVIOUS
  <2>2. p \in Price
    BY <2>1, RowFacts
  <2>3. FoundIn(v, s, p) /\ SeekIn(v, s, p) = j
    BY <2>1, <2>2, SeekIs
  <2>. QED  BY <2>1, <2>3 DEF LevelIn
<1>2. ASSUME NEW p \in Price, \A j \in 1..Len(v) : v[j].price # p
      PROVE  ~FoundIn(v, s, p) /\ LevelIn(v, s, p) = EmptyLevel
  BY <1>2, SeekIs DEF LevelIn
<1>3. ASSUME NEW p \in Price, FoundIn(v, s, p)
      PROVE  \E j \in 1..Len(v) :
                j = SeekIn(v, s, p) /\ v[j].price = p /\ LevelIn(v, s, p) = v[j]
  <2>1. SeekIn(v, s, p) \in 1..Len(v) /\ v[SeekIn(v, s, p)].price = p
    BY <1>3, RowFacts DEF FoundIn
  <2>. QED  BY <1>3, <2>1 DEF LevelIn
<1>. QED  BY <1>1, <1>2, <1>3

\* Putting e at position k moves what was there, and what came after, one on.
LEMMA InsertAtFacts ==
    ASSUME NEW S, NEW q \in Seq(S), NEW k \in 1..(Len(q) + 1), NEW e \in S
    PROVE  /\ InsertAt(q, k, e) \in Seq(S)
           /\ Len(InsertAt(q, k, e)) = Len(q) + 1
           /\ \A j \in 1..(Len(q) + 1) :
                 InsertAt(q, k, e)[j] = IF j < k THEN q[j] ELSE IF j = k THEN e ELSE q[j - 1]
<1>0. Len(q) \in Nat /\ k \in Nat /\ \A j \in 1..Len(q) : q[j] \in S
  <2>1. Len(q) \in Nat /\ \A j \in 1..Len(q) : q[j] \in S
    BY LenProperties, ElementOfSeq
  <2>. QED  BY <2>1
<1> DEFINE a == SubSeq(q, 1, k - 1)
           b == SubSeq(q, k, Len(q))
           m == a \o <<e>>
           c == m \o b
<1>1. /\ a \in Seq(S)
      /\ Len(a) = k - 1
      /\ \A j \in 1..(k - 1) : a[j] = q[j]
  <2>1. \A j \in 1..(k - 1) : q[j] \in S
    BY <1>0
  <2>. QED  BY <1>0, <2>1, SubSeqProperties
<1>2. /\ b \in Seq(S)
      /\ Len(b) = Len(q) - k + 1
      /\ \A j \in 1..(Len(q) - k + 1) : b[j] = q[j + k - 1]
  <2>1. \A j \in k..Len(q) : q[j] \in S
    BY <1>0
  <2>. QED  BY <1>0, <2>1, SubSeqProperties
<1>3. <<e>> \in Seq(S) /\ Len(<<e>>) = 1 /\ <<e>>[1] = e
  OBVIOUS
<1>4. /\ m \in Seq(S) /\ Len(m) = k
      /\ \A j \in 1..k : m[j] = IF j <= k - 1 THEN a[j] ELSE <<e>>[j - (k - 1)]
  <2>1. /\ m \in Seq(S) /\ Len(m) = Len(a) + Len(<<e>>)
        /\ \A j \in 1..(Len(a) + Len(<<e>>)) :
              m[j] = IF j <= Len(a) THEN a[j] ELSE <<e>>[j - Len(a)]
    BY <1>1, <1>3, ConcatProperties
  <2> HIDE DEF m, a
  <2>2. Len(a) + Len(<<e>>) = k
    BY <1>0, <1>1, <1>3
  <2>. QED  BY <1>1, <2>1, <2>2
<1>5. /\ c \in Seq(S) /\ Len(c) = Len(q) + 1
      /\ \A j \in 1..(Len(q) + 1) : c[j] = IF j <= k THEN m[j] ELSE b[j - k]
  <2> HIDE DEF m
  <2>1. /\ c \in Seq(S) /\ Len(c) = Len(m) + Len(b)
        /\ \A j \in 1..(Len(m) + Len(b)) : c[j] = IF j <= Len(m) THEN m[j] ELSE b[j - Len(m)]
    BY <1>2, <1>4, ConcatProperties
  <2> HIDE DEF c, b
  <2>2. Len(m) + Len(b) = Len(q) + 1
    BY <1>0, <1>2, <1>4
  <2>. QED  BY <1>4, <2>1, <2>2
<1>6. InsertAt(q, k, e) = c
  BY DEF InsertAt
<1> HIDE DEF a, b, m, c
<1>7. ASSUME NEW j \in 1..(Len(q) + 1)
      PROVE  c[j] = IF j < k THEN q[j] ELSE IF j = k THEN e ELSE q[j - 1]
  <2>1. CASE j < k
    <3>1. j <= k /\ j <= k - 1 /\ j \in 1..k /\ j \in 1..(k - 1)
      BY <1>0, <2>1
    <3>. QED  BY <1>1, <1>4, <1>5, <2>1, <3>1
  <2>2. CASE j = k
    <3>1. j <= k /\ ~(j <= k - 1) /\ j \in 1..k /\ j - (k - 1) = 1 /\ ~(j < k)
      BY <1>0, <2>2
    <3>. QED  BY <1>3, <1>4, <1>5, <2>2, <3>1
  <2>3. CASE j > k
    <3>1. ~(j <= k) /\ j - k \in 1..(Len(q) - k + 1) /\ (j - k) + k - 1 = j - 1
          /\ ~(j < k) /\ j # k
      BY <1>0, <2>3
    <3>. QED  BY <1>2, <1>5, <3>1
  <2>. QED  BY <1>0, <2>1, <2>2, <2>3
<1>. QED  BY <1>5, <1>6, <1>7

\* What becomes of the levels of a row when the level of p does.
Turns(v, w, s, p) ==
    /\ IsRow(w, s)
    /\ \A q \in Price : q # p => /\ LevelIn(w, s, q) = LevelIn(v, s, q)
                                 /\ FoundIn(w, s, q) <=> FoundIn(v, s, q)

\* Two rows that differ at one position, where both have the price p.
Alike(v, w, s, k) ==
    /\ s \in Side /\ IsRow(v, s) /\ IsRow(w, s) /\ Len(w) = Len(v)
    /\ k \in 1..Len(v) /\ v[k].price = w[k].price
    /\ \A j \in 1..Len(v) : j # k => w[j] = v[j]
LEMMA RowsAlike ==
    ASSUME NEW s, NEW v, NEW w, NEW k, Alike(v, w, s, k)
    PROVE  Turns(v, w, s, v[k].price) /\ FoundIn(w, s, v[k].price)
           /\ LevelIn(w, s, v[k].price) = w[k]
<1> USE DEF Alike
<1>1. \A j \in 1..Len(v) : w[j].price = v[j].price
  OBVIOUS
<1>2. ASSUME NEW q \in Price, q # v[k].price
      PROVE  LevelIn(w, s, q) = LevelIn(v, s, q) /\ (FoundIn(w, s, q) <=> FoundIn(v, s, q))
  <2>1. CASE \E j \in 1..Len(v) : v[j].price = q
    <3>1. PICK j \in 1..Len(v) : v[j].price = q
      BY <2>1
    <3>2. j # k /\ w[j] = v[j] /\ w[j].price = q /\ j \in 1..Len(w)
      BY <1>1, <1>2, <3>1
    <3>3. FoundIn(v, s, q) /\ LevelIn(v, s, q) = v[j]
      BY <3>1, LevelAtPrice
    <3>4. FoundIn(w, s, q) /\ LevelIn(w, s, q) = w[j]
      BY <3>2, LevelAtPrice
    <3>. QED  BY <3>2, <3>3, <3>4
  <2>2. CASE \A j \in 1..Len(v) : v[j].price # q
    <3>1. \A j \in 1..Len(w) : w[j].price # q
      BY <1>1, <2>2
    <3>2. ~FoundIn(v, s, q) /\ LevelIn(v, s, q) = EmptyLevel
      BY <2>2, LevelAtPrice
    <3>3. ~FoundIn(w, s, q) /\ LevelIn(w, s, q) = EmptyLevel
      BY <3>1, LevelAtPrice
    <3>. QED  BY <3>2, <3>3
  <2>. QED  BY <2>1, <2>2
<1>3. FoundIn(w, s, v[k].price) /\ LevelIn(w, s, v[k].price) = w[k]
  BY LevelAtPrice
<1>. QED  BY <1>2, <1>3 DEF Turns

\* The level of a price in the row is replaced.
Replaced(v, k, l) == [v EXCEPT ![k] = l]
LEMMA RowReplaced ==
    ASSUME NEW s \in Side, NEW v, IsRow(v, s), NEW p \in Price, FoundIn(v, s, p),
           NEW l \in Level, l.price = p,
           NEW w, w = Replaced(v, SeekIn(v, s, p), l)
    PROVE  Turns(v, w, s, p) /\ FoundIn(w, s, p) /\ LevelIn(w, s, p) = l
<1>1. PICK k \in 1..Len(v) : k = SeekIn(v, s, p) /\ v[k].price = p
  BY LevelAtPrice
<1>2. /\ Len(v) \in Nat /\ DOMAIN v = 1..Len(v) /\ v \in Seq(Level)
      /\ \A j \in 1..Len(v) : v[j] \in Level /\ v[j].price \in Price
      /\ \A i, j \in 1..Len(v) : i < j => Better(s, v[i].price, v[j].price)
  BY RowFacts DEF IsRow
<1>3. /\ w \in Seq(Level) /\ Len(w) = Len(v) /\ w[k] = l
      /\ \A j \in 1..Len(v) : j # k => w[j] = v[j]
  <2>1. w = [v EXCEPT ![k] = l]
    BY <1>1 DEF Replaced
  <2>. QED  BY <1>1, <1>2, <2>1, ExceptSeq
<1>4. \A j \in 1..Len(v) : w[j].price = v[j].price
  BY <1>1, <1>3
<1>5. IsRow(w, s)
  BY <1>2, <1>3, <1>4 DEF IsRow
<1>6. Alike(v, w, s, k)
  BY <1>1, <1>3, <1>5, Zenon DEF Alike
<1>7. FoundIn(w, s, v[k].price) /\ LevelIn(w, s, v[k].price) = w[k] /\ Turns(v, w, s, v[k].price)
  BY <1>6, RowsAlike
<1>. QED  BY <1>1, <1>3, <1>7

\* A level of a new price is put where lower_bound says.
LEMMA RowInserted ==
    ASSUME NEW s \in Side, NEW v, IsRow(v, s), NEW p \in Price, ~FoundIn(v, s, p),
           NEW l \in Level, l.price = p,
           NEW w, w = InsertAt(v, SeekIn(v, s, p), l)
    PROVE  Turns(v, w, s, p) /\ FoundIn(w, s, p) /\ LevelIn(w, s, p) = l
<1>1. PICK k : k = SeekIn(v, s, p)
  OBVIOUS
<1>2. /\ Len(v) \in Nat /\ DOMAIN v = 1..Len(v) /\ v \in Seq(Level)
      /\ \A j \in 1..Len(v) : v[j] \in Level /\ v[j].price \in Price
      /\ \A i, j \in 1..Len(v) : i < j => Better(s, v[i].price, v[j].price)
  BY RowFacts DEF IsRow
<1>3. /\ k \in 1..(Len(v) + 1) /\ k \in Nat
      /\ \A j \in 1..Len(v) : v[j].price # p
      /\ \A j \in 1..Len(v) : j < k => Better(s, v[j].price, p)
      /\ \A j \in 1..Len(v) : j >= k => Better(s, p, v[j].price)
  <2>1. /\ k \in 1..(Len(v) + 1)
        /\ \A j \in 1..Len(v) : v[j].price # p
        /\ \A j \in 1..Len(v) : j < k => Better(s, v[j].price, p)
        /\ \A j \in 1..Len(v) : j >= k => ~Better(s, v[j].price, p)
    BY <1>1, SeekIs
  <2>2. \A j \in 1..Len(v) : j >= k => Better(s, p, v[j].price)
    BY <1>2, <2>1, BetterFacts
  <2>. QED  BY <1>2, <2>1, <2>2
<1>4. /\ w \in Seq(Level) /\ Len(w) = Len(v) + 1
      /\ \A j \in 1..(Len(v) + 1) :
            w[j] = IF j < k THEN v[j] ELSE IF j = k THEN l ELSE v[j - 1]
  <2>1. w = InsertAt(v, k, l)
    BY <1>1
  <2>2. v \in Seq(Level) /\ k \in 1..(Len(v) + 1) /\ l \in Level
    BY <1>2, <1>3
  <2>3. \A e \in Level :
           LET x == InsertAt(v, k, e) IN
           /\ x \in Seq(Level) /\ Len(x) = Len(v) + 1
           /\ \A j \in 1..(Len(v) + 1) :
                 x[j] = IF j < k THEN v[j] ELSE IF j = k THEN e ELSE v[j - 1]
    BY <2>2, InsertAtFacts
  <2>. QED  BY <2>1, <2>2, <2>3
<1>5. /\ w[k] = l /\ k \in 1..Len(w)
      /\ \A j \in 1..Len(w) : j # k =>
            \E i \in 1..Len(v) : /\ w[j] = v[i] /\ i = (IF j < k THEN j ELSE j - 1)
      /\ \A i \in 1..Len(v) : \E j \in 1..Len(w) :
            /\ w[j] = v[i] /\ j = (IF i < k THEN i ELSE i + 1)
  <2>1. w[k] = l /\ k \in 1..Len(w)
    BY <1>3, <1>4
  <2>2. ASSUME NEW j \in 1..Len(w), j # k
        PROVE  \E i \in 1..Len(v) : w[j] = v[i] /\ i = (IF j < k THEN j ELSE j - 1)
    <3>1. PICK i : i = IF j < k THEN j ELSE j - 1
      OBVIOUS
    <3>2. i \in 1..Len(v)
      BY <1>2, <1>3, <1>4, <2>2, <3>1
    <3>3. w[j] = v[i]
      BY <1>4, <2>2, <3>1
    <3>. QED  BY <3>1, <3>2, <3>3
  <2>3. ASSUME NEW i \in 1..Len(v)
        PROVE  \E j \in 1..Len(w) : w[j] = v[i] /\ j = (IF i < k THEN i ELSE i + 1)
    <3>1. PICK j : j = IF i < k THEN i ELSE i + 1
      OBVIOUS
    <3>2. j \in 1..Len(w) /\ (j < k <=> i < k) /\ j # k /\ (~(i < k) => j - 1 = i)
      BY <1>2, <1>3, <1>4, <3>1
    <3>3. w[j] = v[i]
      BY <1>4, <3>1, <3>2
    <3>. QED  BY <3>1, <3>2, <3>3
  <2>. QED  BY <2>1, <2>2, <2>3
<1>6. \A j \in 1..Len(w) : w[j].price \in Price
  <2> SUFFICES ASSUME NEW j \in 1..Len(w) PROVE w[j].price \in Price
    OBVIOUS
  <2>1. CASE j = k
    BY <1>5, <2>1
  <2>2. CASE j # k
    BY <1>2, <1>5, <2>2
  <2>. QED  BY <2>1, <2>2
<1>7. ASSUME NEW i \in 1..Len(w), NEW j \in 1..Len(w), i < j
      PROVE  Better(s, w[i].price, w[j].price)
  <2>1. CASE i = k
    <3>1. PICK b \in 1..Len(v) : w[j] = v[b] /\ b = IF j < k THEN j ELSE j - 1
      BY <1>5, <1>7, <2>1
    <3>2. b >= k
      BY <1>3, <1>7, <2>1, <3>1
    <3>. QED  BY <1>3, <1>5, <2>1, <3>1, <3>2
  <2>2. CASE j = k
    <3>1. PICK a \in 1..Len(v) : w[i] = v[a] /\ a = IF i < k THEN i ELSE i - 1
      BY <1>5, <1>7, <2>2
    <3>2. a < k
      BY <1>3, <1>7, <2>2, <3>1
    <3>. QED  BY <1>3, <1>5, <2>2, <3>1, <3>2
  <2>3. CASE i # k /\ j # k
    <3>1. PICK a \in 1..Len(v) : w[i] = v[a] /\ a = IF i < k THEN i ELSE i - 1
      BY <1>5, <2>3
    <3>2. PICK b \in 1..Len(v) : w[j] = v[b] /\ b = IF j < k THEN j ELSE j - 1
      BY <1>5, <2>3
    <3>3. a < b
      BY <1>3, <1>7, <2>3, <3>1, <3>2
    <3>. QED  BY <1>2, <3>1, <3>2, <3>3
  <2>. QED  BY <2>1, <2>2, <2>3
<1>8. IsRow(w, s)
  BY <1>4, <1>6, <1>7 DEF IsRow
<1>9. ASSUME NEW q \in Price, q # p
      PROVE  LevelIn(w, s, q) = LevelIn(v, s, q) /\ (FoundIn(w, s, q) <=> FoundIn(v, s, q))
  <2>1. CASE \E i \in 1..Len(v) : v[i].price = q
    <3>1. PICK i \in 1..Len(v) : v[i].price = q
      BY <2>1
    <3>2. PICK j \in 1..Len(w) : w[j] = v[i]
      BY <1>5
    <3>3. FoundIn(v, s, q) /\ LevelIn(v, s, q) = v[i]
      BY <3>1, LevelAtPrice
    <3>4. FoundIn(w, s, q) /\ LevelIn(w, s, q) = w[j]
      BY <1>8, <3>1, <3>2, LevelAtPrice
    <3>. QED  BY <3>2, <3>3, <3>4
  <2>2. CASE \A i \in 1..Len(v) : v[i].price # q
    <3>1. \A j \in 1..Len(w) : w[j].price # q
      BY <1>5, <1>9, <2>2
    <3>. QED  BY <1>8, <2>2, <3>1, LevelAtPrice
  <2>. QED  BY <2>1, <2>2
<1>10. FoundIn(w, s, p) /\ LevelIn(w, s, p) = l
  BY <1>5, <1>8, LevelAtPrice
<1>. QED  BY <1>8, <1>9, <1>10 DEF Turns

\* The level of a price is taken out.
LEMMA RowRemoved ==
    ASSUME NEW s \in Side, NEW v, IsRow(v, s), NEW p \in Price, FoundIn(v, s, p),
           NEW w, w = RemoveAt(v, SeekIn(v, s, p))
    PROVE  Turns(v, w, s, p) /\ ~FoundIn(w, s, p) /\ LevelIn(w, s, p) = EmptyLevel
<1>1. PICK k \in 1..Len(v) : k = SeekIn(v, s, p) /\ v[k].price = p
  BY LevelAtPrice
<1>2. /\ Len(v) \in Nat /\ DOMAIN v = 1..Len(v) /\ v \in Seq(Level)
      /\ \A j \in 1..Len(v) : v[j] \in Level /\ v[j].price \in Price
      /\ \A i, j \in 1..Len(v) : i < j => Better(s, v[i].price, v[j].price)
  BY RowFacts DEF IsRow
<1>3. \A j \in 1..Len(v) : v[j].price = p => j = k
  BY <1>1, SeekIs
<1>4. /\ w \in Seq(Level) /\ Len(w) = Len(v) - 1
      /\ \A j \in 1..(Len(v) - 1) : w[j] = IF j < k THEN v[j] ELSE v[j + 1]
  BY <1>1, <1>2, RemoveAtFacts
<1>5. /\ \A j \in 1..Len(w) : \E i \in 1..Len(v) :
            i # k /\ w[j] = v[i] /\ i = (IF j < k THEN j ELSE j + 1)
      /\ \A i \in 1..Len(v) : i # k => \E j \in 1..Len(w) : w[j] = v[i]
  <2>1. ASSUME NEW j \in 1..Len(w)
        PROVE  \E i \in 1..Len(v) : i # k /\ w[j] = v[i] /\ i = (IF j < k THEN j ELSE j + 1)
    <3>1. PICK i : i = IF j < k THEN j ELSE j + 1
      OBVIOUS
    <3>2. i \in 1..Len(v) /\ i # k
      BY <1>1, <1>2, <1>4, <3>1
    <3>3. w[j] = v[i]
      BY <1>4, <3>1
    <3>. QED  BY <3>1, <3>2, <3>3
  <2>2. ASSUME NEW i \in 1..Len(v), i # k PROVE \E j \in 1..Len(w) : w[j] = v[i]
    <3>1. PICK j : j = IF i < k THEN i ELSE i - 1
      OBVIOUS
    <3>2. j \in 1..Len(w) /\ (j < k <=> i < k) /\ (~(i < k) => j + 1 = i)
      BY <1>1, <1>2, <1>4, <2>2, <3>1
    <3>3. w[j] = v[i]
      BY <1>4, <3>1, <3>2
    <3>. QED  BY <3>2, <3>3
  <2>. QED  BY <2>1, <2>2
<1>6. \A j \in 1..Len(w) : w[j].price \in Price
  BY <1>2, <1>5
<1>7. ASSUME NEW i \in 1..Len(w), NEW j \in 1..Len(w), i < j
      PROVE  Better(s, w[i].price, w[j].price)
  <2>1. PICK a \in 1..Len(v) : w[i] = v[a] /\ a = IF i < k THEN i ELSE i + 1
    BY <1>5
  <2>2. PICK b \in 1..Len(v) : w[j] = v[b] /\ b = IF j < k THEN j ELSE j + 1
    BY <1>5
  <2>3. a < b
    BY <1>1, <1>7, <2>1, <2>2
  <2>. QED  BY <1>2, <2>1, <2>2, <2>3
<1>8. IsRow(w, s)
  BY <1>4, <1>6, <1>7 DEF IsRow
<1>9. ASSUME NEW q \in Price, q # p
      PROVE  LevelIn(w, s, q) = LevelIn(v, s, q) /\ (FoundIn(w, s, q) <=> FoundIn(v, s, q))
  <2>1. CASE \E i \in 1..Len(v) : v[i].price = q
    <3>1. PICK i \in 1..Len(v) : v[i].price = q
      BY <2>1
    <3>2. PICK j \in 1..Len(w) : w[j] = v[i]
      BY <1>1, <1>5, <1>9, <3>1
    <3>3. FoundIn(v, s, q) /\ LevelIn(v, s, q) = v[i]
      BY <3>1, LevelAtPrice
    <3>4. FoundIn(w, s, q) /\ LevelIn(w, s, q) = w[j]
      BY <1>8, <3>1, <3>2, LevelAtPrice
    <3>. QED  BY <3>2, <3>3, <3>4
  <2>2. CASE \A i \in 1..Len(v) : v[i].price # q
    <3>1. \A j \in 1..Len(w) : w[j].price # q
      BY <1>5, <2>2
    <3>. QED  BY <1>8, <2>2, <3>1, LevelAtPrice
  <2>. QED  BY <2>1, <2>2
<1>10. ~FoundIn(w, s, p) /\ LevelIn(w, s, p) = EmptyLevel
  <2>1. \A j \in 1..Len(w) : w[j].price # p
    BY <1>3, <1>5
  <2>. QED  BY <1>8, <2>1, LevelAtPrice
<1>. QED  BY <1>8, <1>9, <1>10 DEF Turns

-----------------------------------------------------------------------------
(* The vector book: its rows and the lists in them.                         *)

VecTyped == nodes = [s \in Side |-> nodes[s]] /\ \A s \in Side : IsRow(nodes[s], s)
VecLevels == [s \in Side |-> [p \in Price |-> LevelIn(nodes[s], s, p)]]
VecInv ==
    /\ VecTyped
    /\ Holds(VecLevels, vecLinks, Bitset!Queue)
    /\ \A s \in Side, p \in Price : FoundIn(nodes[s], s, p) <=> Len(Bitset!Queue[s][p]) # 0
    /\ Sized(VecLevels, Bitset!Queue, Open)

\* The level, before a step and after.
LEMMA VecLevelIs ==
    ASSUME NEW s \in Side, NEW p \in Price
    PROVE  /\ VecLevels[s][p] = LevelIn(nodes[s], s, p)
           /\ VecLevels'[s][p] = LevelIn(nodes'[s], s, p)
  BY DEF VecLevels

\* A row's levels are levels.
LEMMA VecLevelTyped ==
    ASSUME NEW s \in Side, NEW p \in Price
    PROVE  /\ VecTyped => VecLevels[s][p] \in Level
           /\ VecTyped' => VecLevels'[s][p] \in Level
<1>1. EmptyLevel \in Level
  BY PriceAssumption DEF EmptyLevel, Level
<1>2. ASSUME NEW v, IsRow(v, s) PROVE LevelIn(v, s, p) \in Level
  <2>1. CASE FoundIn(v, s, p)
    BY <1>2, <2>1, LevelAtPrice, RowFacts
  <2>2. CASE ~FoundIn(v, s, p)
    BY <1>1, <2>2 DEF LevelIn
  <2>. QED  BY <2>1, <2>2
<1>3. /\ VecTyped => IsRow(nodes[s], s)
      /\ VecTyped' => IsRow(nodes'[s], s)
  BY DEF VecTyped
<1>. QED  BY <1>2, <1>3, VecLevelIs

\* push_back on a level that has its price.
LEMMA PushedPlain ==
    ASSUME NEW l \in Level, NEW o \in Slot, NEW q \in Int, NEW m, m = Pushed(l, o, q)
    PROVE  /\ m \in Level /\ m.price = l.price
           /\ m.head = IF l.tail = Null THEN o ELSE l.head
           /\ m.tail = o /\ m.count = l.count + 1 /\ m.total = l.total + q
<1> DEFINE h == IF l.tail = Null THEN o ELSE l.head
<1>1. /\ l.head \in Slot \cup {Null} /\ l.price \in Int /\ l.total \in Int /\ l.count \in Int
      /\ h \in Slot \cup {Null} /\ l.total + q \in Int /\ l.count + 1 \in Int
  BY DEF Level
<1>2. m = [l EXCEPT !.head = h, !.tail = o, !.total = l.total + q, !.count = l.count + 1]
  BY DEF Pushed
<1>3. h = IF l.tail = Null THEN o ELSE l.head
  OBVIOUS
<1> HIDE DEF h
<1>4. m = [price |-> l.price, total |-> l.total + q, count |-> l.count + 1, head |-> h, tail |-> o]
  BY <1>2 DEF Level
<1>5. m \in Level
  BY <1>1, <1>4 DEF Level
<1>6. /\ m.price = l.price /\ m.head = h
      /\ m.tail = o /\ m.total = l.total + q /\ m.count = l.count + 1
  BY <1>4
<1>. QED  BY <1>3, <1>5, <1>6

\* The rows after a step that changes the level of s and p, and no other.
RowsTurn(s, p) ==
    /\ VecTyped'
    /\ \A t \in Side, q \in Price : ~(t = s /\ q = p) =>
          /\ VecLevels'[t][q] = VecLevels[t][q]
          /\ FoundIn(nodes'[t], t, q) <=> FoundIn(nodes[t], t, q)
LEMMA RowTurns ==
    ASSUME VecTyped, NEW s \in Side, NEW p \in Price,
           NEW w, nodes' = [nodes EXCEPT ![s] = w], Turns(nodes[s], w, s, p)
    PROVE  nodes'[s] = w /\ RowsTurn(s, p)
<1>1. /\ nodes' = [t \in Side |-> nodes'[t]] /\ nodes'[s] = w
      /\ \A t \in Side : t # s => nodes'[t] = nodes[t]
  BY OneSide DEF VecTyped
<1>2. \A t \in Side : IsRow(nodes'[t], t)
  BY <1>1 DEF VecTyped, Turns
<1>3. VecTyped'
  BY <1>1, <1>2 DEF VecTyped
<1>4. ASSUME NEW t \in Side, NEW q \in Price, ~(t = s /\ q = p)
      PROVE  /\ LevelIn(nodes'[t], t, q) = LevelIn(nodes[t], t, q)
             /\ FoundIn(nodes'[t], t, q) <=> FoundIn(nodes[t], t, q)
  <2>1. CASE t = s
    BY <1>1, <1>4, <2>1 DEF Turns
  <2>2. CASE t # s
    BY <1>1, <2>2
  <2>. QED  BY <2>1, <2>2
<1>. QED  BY <1>1, <1>3, <1>4, VecLevelIs DEF RowsTurn

\* What the vector book makes of an order that rests.
RowPushed(s, p, o, q) ==
    /\ RowsTurn(s, p) /\ FoundIn(nodes'[s], s, p)
    /\ VecLevels'[s][p].head = (IF VecLevels[s][p].tail = Null THEN o ELSE VecLevels[s][p].head)
    /\ VecLevels'[s][p].tail = o
    /\ VecLevels'[s][p].count = VecLevels[s][p].count + 1
    /\ VecLevels'[s][p].total = VecLevels[s][p].total + q
    /\ VecLevels'[s][p].price = p
    /\ vecLinks' = PushLinks(vecLinks, VecLevels[s][p], o)
LEMMA RestRow ==
    ASSUME VecTyped, NEW o \in Slot, NEW r \in Offers, Rest(o, r),
           NEW s, s = r.side, NEW p, p = r.price
    PROVE  s \in Side /\ p \in Price /\ RowPushed(s, p, o, r.remaining)
<1>1. s \in Side /\ p \in Price /\ p \in Int /\ r.remaining \in Int
  BY OfferTypes
<1>2. PICK v, k : v = nodes[s] /\ k = SeekIn(v, s, p)
  OBVIOUS
<1>3. IsRow(v, s) /\ VecLevels[s][p] = LevelIn(v, s, p)
  BY <1>1, <1>2, VecLevelIs DEF VecTyped
<1>4. PICK l : l = IF FoundIn(v, s, p) THEN v[k] ELSE [EmptyLevel EXCEPT !.price = p]
  OBVIOUS
<1>5. PICK m : m = Pushed(l, o, r.remaining)
  OBVIOUS
<1>6. EmptyLevel \in Level
  BY PriceAssumption DEF EmptyLevel, Level
<1>7. /\ l \in Level /\ l.price = p
      /\ l.head = LevelIn(v, s, p).head /\ l.tail = LevelIn(v, s, p).tail
      /\ l.count = LevelIn(v, s, p).count /\ l.total = LevelIn(v, s, p).total
  <2>1. CASE FoundIn(v, s, p)
    <3>1. PICK j \in 1..Len(v) : j = k /\ v[j].price = p /\ LevelIn(v, s, p) = v[j]
      BY <1>1, <1>2, <1>3, <2>1, LevelAtPrice
    <3>2. v[j] \in Level /\ l = v[j]
      BY <1>1, <1>3, <1>4, <2>1, <3>1, RowFacts
    <3>. QED  BY <3>1, <3>2
  <2>2. CASE ~FoundIn(v, s, p)
    <3>1. LevelIn(v, s, p) = EmptyLevel /\ l = [EmptyLevel EXCEPT !.price = p]
      BY <1>4, <2>2 DEF LevelIn
    <3>2. /\ l \in Level /\ l.price = p /\ l.head = EmptyLevel.head /\ l.tail = EmptyLevel.tail
          /\ l.count = EmptyLevel.count /\ l.total = EmptyLevel.total
      BY <1>1, <1>6, <3>1, PricedFields
    <3>. QED  BY <3>1, <3>2
  <2>. QED  BY <2>1, <2>2
<1>8. /\ m \in Level /\ m.price = l.price
      /\ m.head = (IF l.tail = Null THEN o ELSE l.head)
      /\ m.tail = o /\ m.count = l.count + 1 /\ m.total = l.total + r.remaining
  BY <1>1, <1>5, <1>7, PushedPlain
<1>9. /\ nodes' = [nodes EXCEPT ![s] = IF FoundIn(v, s, p) THEN Replaced(v, k, m)
                                       ELSE InsertAt(v, k, m)]
      /\ vecLinks' = PushLinks(vecLinks, l, o)
  <2>1. Vector!AddOrder(o, r)
    BY DEF Rest
  <2>2. /\ Vector!Seek(s, p) = k /\ (Vector!Found(s, p) <=> FoundIn(v, s, p))
        /\ Vector!EmptyLevel = EmptyLevel
    BY <1>2, SameSeek, SameVector
  <2>3. /\ nodes' = [nodes EXCEPT ![s] =
                        IF FoundIn(v, s, p) THEN [v EXCEPT ![k] = Vector!Pushed(l, o, r.remaining)]
                        ELSE Vector!InsertAt(v, k, Vector!Pushed(l, o, r.remaining))]
        /\ vecLinks' = Vector!PushLinks(vecLinks, l, o)
    BY <1>2, <1>4, <2>1, <2>2 DEF Vector!AddOrder
  <2>4. /\ Vector!Pushed(l, o, r.remaining) = m
        /\ Vector!PushLinks(vecLinks, l, o) = PushLinks(vecLinks, l, o)
        /\ Vector!InsertAt(v, k, m) = InsertAt(v, k, m)
    BY <1>5, SameVector, SameSeek
  <2>. QED  BY <2>3, <2>4 DEF Replaced
<1>10. PICK w : w = IF FoundIn(v, s, p) THEN Replaced(v, k, m) ELSE InsertAt(v, k, m)
  OBVIOUS
<1>11. Turns(v, w, s, p) /\ FoundIn(w, s, p) /\ LevelIn(w, s, p) = m
  <2>1. m \in Level /\ m.price = p
    BY <1>7, <1>8
  <2>2. CASE FoundIn(v, s, p)
    <3>1. w = Replaced(v, SeekIn(v, s, p), m)
      BY <1>2, <1>10, <2>2
    <3>. QED  BY <1>1, <1>3, <2>1, <2>2, <3>1, RowReplaced
  <2>3. CASE ~FoundIn(v, s, p)
    <3>1. w = InsertAt(v, SeekIn(v, s, p), m)
      BY <1>2, <1>10, <2>3
    <3>. QED  BY <1>1, <1>3, <2>1, <2>3, <3>1, RowInserted
  <2>. QED  BY <2>2, <2>3
<1>12. nodes'[s] = w /\ RowsTurn(s, p)
  <2>1. nodes' = [nodes EXCEPT ![s] = w] /\ Turns(nodes[s], w, s, p)
    BY <1>2, <1>9, <1>10, <1>11
  <2>. QED  BY <1>1, <2>1, RowTurns
<1>13. VecLevels'[s][p] = m
  BY <1>1, <1>11, <1>12, VecLevelIs
<1>14. vecLinks' = PushLinks(vecLinks, VecLevels[s][p], o)
  <2>1. l.tail = VecLevels[s][p].tail
    BY <1>3, <1>7
  <2>. QED  BY <1>9, <2>1 DEF PushLinks
<1>. QED  BY <1>1, <1>3, <1>7, <1>8, <1>11, <1>12, <1>13, <1>14 DEF RowPushed

\* What the vector book makes of an order that leaves, l its level after unlink.
RowUnlinks(l, s, p, o) ==
    /\ RowsTurn(s, p)
    /\ l \in Level /\ l.price = VecLevels[s][p].price
    /\ l.head = (IF vecLinks[o].prev = Null THEN vecLinks[o].next ELSE VecLevels[s][p].head)
    /\ l.tail = (IF vecLinks[o].next = Null THEN vecLinks[o].prev ELSE VecLevels[s][p].tail)
    /\ l.count = VecLevels[s][p].count - 1
    /\ VecLevels'[s][p] = (IF l.head = Null THEN EmptyLevel ELSE l)
    /\ FoundIn(nodes'[s], s, p) <=> l.head # Null
    /\ vecLinks' = UnlinkLinks(vecLinks, o)
LEMMA LeaveRow ==
    ASSUME VecTyped, vecLinks \in [Slot -> Link], NEW o \in Slot, Leave(o),
           NEW s \in Side, s = order[o].side, NEW p \in Price, p = order[o].price,
           order[o].remaining \in Int, FoundIn(nodes[s], s, p),
           NEW l, l = UnlinkedFrom(VecLevels[s][p], vecLinks, o, order[o].remaining)
    PROVE  RowUnlinks(l, s, p, o) /\ l.total = VecLevels[s][p].total - order[o].remaining
<1>2. PICK v, c : v = nodes[s] /\ c = VecLevels[s][p]
  OBVIOUS
<1>3. IsRow(v, s) /\ c = LevelIn(v, s, p) /\ FoundIn(v, s, p)
  BY <1>2, VecLevelIs DEF VecTyped
<1>4. PICK k \in 1..Len(v) : k = SeekIn(v, s, p) /\ v[k].price = p /\ c = v[k]
  BY <1>3, LevelAtPrice
<1>5. /\ c \in Level /\ c.price = p
  BY <1>3, <1>4, RowFacts
<1>6. /\ l \in Level /\ l.price = c.price
      /\ l.head = (IF vecLinks[o].prev = Null THEN vecLinks[o].next ELSE c.head)
      /\ l.tail = (IF vecLinks[o].next = Null THEN vecLinks[o].prev ELSE c.tail)
      /\ l.count = c.count - 1 /\ l.total = c.total - order[o].remaining
  <2>1. l = UnlinkedFrom(c, vecLinks, o, order[o].remaining)
    BY <1>2
  <2>. QED  BY <1>5, <2>1, UnlinkedFields
<1>7. /\ nodes' = [nodes EXCEPT ![s] = IF l.head = Null THEN RemoveAt(v, k) ELSE Replaced(v, k, l)]
      /\ vecLinks' = UnlinkLinks(vecLinks, o)
  <2>1. Vector!RemoveOrder(o, order[o])
    BY DEF Leave
  <2>2. Vector!Seek(s, p) = k
    BY <1>2, <1>4, SameSeek
  <2>3. Vector!UnlinkedFrom(nodes[s][k], vecLinks, o, order[o].remaining) = l
    BY <1>2, <1>4, SameVector
  <2>4. /\ nodes' = [nodes EXCEPT ![s] = IF Vector!IsEmpty(l) THEN Vector!RemoveAt(v, k)
                                         ELSE [v EXCEPT ![k] = l]]
        /\ vecLinks' = Vector!UnlinkLinks(vecLinks, o)
    BY <1>2, <2>1, <2>2, <2>3 DEF Vector!RemoveOrder
  <2>5. /\ Vector!IsEmpty(l) <=> l.head = Null
        /\ Vector!RemoveAt(v, k) = RemoveAt(v, k)
        /\ Vector!UnlinkLinks(vecLinks, o) = UnlinkLinks(vecLinks, o)
    BY SameVector, SameSeek DEF IsEmpty
  <2>. QED  BY <2>4, <2>5 DEF Replaced
<1>8. PICK w : w = IF l.head = Null THEN RemoveAt(v, k) ELSE Replaced(v, k, l)
  OBVIOUS
<1>9. /\ Turns(v, w, s, p) /\ (FoundIn(w, s, p) <=> l.head # Null)
      /\ LevelIn(w, s, p) = (IF l.head = Null THEN EmptyLevel ELSE l)
  <2>1. CASE l.head = Null
    <3>1. w = RemoveAt(v, SeekIn(v, s, p))
      BY <1>4, <1>8, <2>1
    <3>. QED  BY <1>3, <2>1, <3>1, RowRemoved
  <2>2. CASE l.head # Null
    <3>1. w = Replaced(v, SeekIn(v, s, p), l) /\ l \in Level /\ l.price = p
      BY <1>4, <1>5, <1>6, <1>8, <2>2
    <3>. QED  BY <1>3, <2>2, <3>1, RowReplaced
  <2>. QED  BY <2>1, <2>2
<1>10. nodes'[s] = w /\ RowsTurn(s, p)
  <2>1. nodes' = [nodes EXCEPT ![s] = w] /\ Turns(nodes[s], w, s, p)
    BY <1>2, <1>7, <1>8, <1>9
  <2>. QED  BY <2>1, RowTurns
<1>11. VecLevels'[s][p] = LevelIn(w, s, p)
  BY <1>10, VecLevelIs
<1>. QED  BY <1>2, <1>6, <1>7, <1>9, <1>10, <1>11 DEF RowUnlinks

\* And of one that is reduced.
RowReduces(s, p, d) ==
    /\ RowsTurn(s, p) /\ FoundIn(nodes'[s], s, p)
    /\ VecLevels'[s][p].head = VecLevels[s][p].head
    /\ VecLevels'[s][p].tail = VecLevels[s][p].tail
    /\ VecLevels'[s][p].count = VecLevels[s][p].count
    /\ VecLevels'[s][p].price = VecLevels[s][p].price
    /\ VecLevels'[s][p].total = VecLevels[s][p].total - d
    /\ vecLinks' = vecLinks
LEMMA ReduceRow ==
    ASSUME VecTyped, NEW o \in Slot, NEW traded \in Sizes, Reduce(o, traded), traded \in Int,
           NEW s \in Side, s = order[o].side, NEW p \in Price, p = order[o].price,
           FoundIn(nodes[s], s, p)
    PROVE  RowReduces(s, p, traded)
<1>2. PICK v, c : v = nodes[s] /\ c = VecLevels[s][p]
  OBVIOUS
<1>3. IsRow(v, s) /\ c = LevelIn(v, s, p) /\ FoundIn(v, s, p)
  BY <1>2, VecLevelIs DEF VecTyped
<1>4. PICK k \in 1..Len(v) : k = SeekIn(v, s, p) /\ v[k].price = p /\ c = v[k]
  BY <1>3, LevelAtPrice
<1>5. c \in Level /\ c.price = p /\ c.total - traded \in Int
  <2>1. c \in Level /\ c.price = p
    BY <1>3, <1>4, RowFacts
  <2>. QED  BY <2>1 DEF Level
<1>6. PICK l : l = [c EXCEPT !.total = c.total - traded]
  OBVIOUS
<1>7. /\ l \in Level /\ l.price = c.price /\ l.head = c.head /\ l.tail = c.tail
      /\ l.count = c.count /\ l.total = c.total - traded
  BY <1>5, <1>6, ReducedFields
<1>8. vecLinks' = vecLinks /\ nodes' = [nodes EXCEPT ![s] = Replaced(v, k, l)]
  <2>1. Vector!ReduceInPlace(o, order[o], traded)
    BY DEF Reduce
  <2>2. Vector!Seek(s, p) = k
    BY <1>2, <1>4, SameSeek
  <2>3. /\ nodes' = [nodes EXCEPT ![s][k].total = @ - traded]
        /\ vecLinks' = vecLinks
    BY <2>1, <2>2 DEF Vector!ReduceInPlace
  <2>4. [nodes EXCEPT ![s][k].total = @ - traded]
        = [nodes EXCEPT ![s] = [nodes[s] EXCEPT ![k] =
              [nodes[s][k] EXCEPT !.total = nodes[s][k].total - traded]]]
    OBVIOUS
  <2>5. [nodes[s][k] EXCEPT !.total = nodes[s][k].total - traded] = l
    BY <1>2, <1>4, <1>6
  <2>. QED  BY <1>2, <2>3, <2>4, <2>5 DEF Replaced
<1>9. PICK w : w = Replaced(v, k, l)
  OBVIOUS
<1>10. Turns(v, w, s, p) /\ FoundIn(w, s, p) /\ LevelIn(w, s, p) = l
  <2>1. w = Replaced(v, SeekIn(v, s, p), l) /\ l \in Level /\ l.price = p
    BY <1>4, <1>5, <1>7, <1>9
  <2>. QED  BY <1>3, <2>1, RowReplaced
<1>11. nodes'[s] = w /\ RowsTurn(s, p)
  <2>1. nodes' = [nodes EXCEPT ![s] = w] /\ Turns(nodes[s], w, s, p)
    BY <1>2, <1>8, <1>9, <1>10
  <2>. QED  BY <2>1, RowTurns
<1>12. VecLevels'[s][p] = l
  BY <1>10, <1>11, VecLevelIs
<1>. QED  BY <1>2, <1>7, <1>8, <1>10, <1>11, <1>12 DEF RowReduces

\* The lists after a step are the queues after it, and so are the rows' prices.
LEMMA VecBecomes ==
    ASSUME VecTyped', NEW R, Bitset!Queue' = R, Holds(VecLevels', vecLinks', R),
           \A t \in Side, q \in Price : FoundIn(nodes'[t], t, q) <=> Len(R[t][q]) # 0,
           NEW y, Open' = y, Sized(VecLevels', R, y)
    PROVE  VecInv'
<1>1. Holds(VecLevels, vecLinks, Bitset!Queue)'
  BY DEF Holds, IsList
<1>2. Sized(VecLevels, Bitset!Queue, Open)'
  BY DEF Sized
<1>. QED  BY <1>1, <1>2 DEF VecInv

\* An order that rests is pushed on the level of its price, put in the row if need be.
LEMMA VecRest ==
    ASSUME BookInv, VecInv, NEW o \in Slot, NEW r \in Offers, Rest(o, r)
    PROVE  VecInv'
<1>1. PICK Q, R, z, y, lv, mv, s, p :
         /\ Q = Bitset!Queue /\ R = Bitset!Queue' /\ z = Open /\ y = Open'
         /\ lv = VecLevels /\ mv = VecLevels'
         /\ s = r.side /\ p = r.price
  OBVIOUS
<1>2. /\ Q \in Queueing /\ z \in [Slot -> Int] /\ y \in [Slot -> Int]
      /\ \A x \in Slot : x # o => y[x] = z[x]
      /\ y[o] = r.remaining
      /\ \A t \in Side, q \in Price : \A k \in 1..Len(Q[t][q]) : Q[t][q][k] # o
      /\ R = Behind(Q, s, p, o)
  BY <1>1, JoinsQueues DEF BookInv
<1>3. /\ VecTyped /\ Sized(lv, Q, z) /\ Holds(lv, vecLinks, Q)
      /\ \A t \in Side, q \in Price : FoundIn(nodes[t], t, q) <=> Len(Q[t][q]) # 0
  BY <1>1 DEF VecInv
<1>4. s \in Side /\ p \in Price /\ RowPushed(s, p, o, r.remaining)
  BY <1>1, <1>3, RestRow
<1>5. /\ VecTyped' /\ FoundIn(nodes'[s], s, p)
      /\ mv[s][p].head = (IF lv[s][p].tail = Null THEN o ELSE lv[s][p].head)
      /\ mv[s][p].tail = o /\ mv[s][p].count = lv[s][p].count + 1
      /\ mv[s][p].total = lv[s][p].total + y[o] /\ mv[s][p].price = p
      /\ \A t \in Side, q \in Price : ~(t = s /\ q = p) =>
            /\ mv[t][q] = lv[t][q]
            /\ FoundIn(nodes'[t], t, q) <=> FoundIn(nodes[t], t, q)
      /\ vecLinks' = PushLinks(vecLinks, lv[s][p], o)
  BY <1>1, <1>2, <1>4 DEF RowPushed, RowsTurn
<1>6. mv[s][p] \in Level
  BY <1>1, <1>4, <1>5, VecLevelTyped
<1>7. Joins(Q, R, z, y, lv, mv, s, p, o)
  BY <1>2, <1>3, <1>4, <1>5, <1>6, Zenon DEF Joins
<1>8. Sized(mv, R, y)
  BY <1>7, SizedJoins
<1>9. Holds(mv, vecLinks', R)
  <2>1. PushedAt(lv, mv, s, p, o)
    BY <1>5 DEF PushedAt
  <2>2. Holds(mv, PushLinks(vecLinks, lv[s][p], o), Behind(Q, s, p, o))
    BY <1>2, <1>3, <1>4, <2>1, HoldsPush
  <2>. QED  BY <1>2, <1>5, <2>2
<1>10. /\ R[s][p] = Append(Q[s][p], o)
       /\ \A t \in Side, q \in Price : ~(t = s /\ q = p) => R[t][q] = Q[t][q]
  <2>1. Append(Q[s][p], o) \in Seq(Slot)
    BY <1>2, <1>4, AppendProperties DEF Queueing
  <2>. QED  BY <1>2, <1>4, <2>1, OneCell DEF Behind, Queueing
<1>11. Len(R[s][p]) # 0
  <2>1. Q[s][p] \in Seq(Slot)
    BY <1>2, <1>4 DEF Queueing
  <2>2. Len(R[s][p]) = Len(Q[s][p]) + 1 /\ Len(Q[s][p]) \in Nat
    BY <1>10, <2>1, AppendProperties, LenProperties
  <2>. QED  BY <2>2
<1>12. \A t \in Side, q \in Price : FoundIn(nodes'[t], t, q) <=> Len(R[t][q]) # 0
  <2> SUFFICES ASSUME NEW t \in Side, NEW q \in Price
               PROVE  FoundIn(nodes'[t], t, q) <=> Len(R[t][q]) # 0
    OBVIOUS
  <2>1. CASE t = s /\ q = p
    BY <1>5, <1>11, <2>1
  <2>2. CASE ~(t = s /\ q = p)
    BY <1>3, <1>5, <1>10, <2>2
  <2>. QED  BY <2>1, <2>2
<1>. QED  BY <1>1, <1>5, <1>8, <1>9, <1>12, VecBecomes

\* An order that leaves is unlinked, and a level it empties leaves the row.
LEMMA VecLeave ==
    ASSUME BookInv, VecInv, NEW o \in Slot, Leave(o)
    PROVE  VecInv'
<1>1. PICK Q, R, z, y, lv, mv :
         /\ Q = Bitset!Queue /\ R = Bitset!Queue' /\ z = Open /\ y = Open'
         /\ lv = VecLevels /\ mv = VecLevels'
  OBVIOUS
<1>2. /\ Q \in Queueing /\ NoRepeats(Q) /\ z \in [Slot -> Int] /\ y \in [Slot -> Int]
      /\ z[o] = order[o].remaining
      /\ \A x \in Slot : x # o => y[x] = z[x]
      /\ \E s, p, i : LeftAt(o, s, p, i) /\ R = Left(Q, s, p, i)
  BY <1>1, LeavesQueues DEF BookInv
<1>3. PICK s, p, k : LeftAt(o, s, p, k) /\ R = Left(Q, s, p, k)
  BY <1>2
<1>4. /\ s \in Side /\ p \in Price /\ k \in 1..Len(Q[s][p])
      /\ s = order[o].side /\ p = order[o].price /\ Q[s][p][k] = o
      /\ \A t \in Side, q \in Price : ~(t = s /\ q = p) =>
            \A j \in 1..Len(Q[t][q]) : Q[t][q][j] # o
  BY <1>1, <1>3 DEF LeftAt
<1>5. /\ VecTyped /\ Sized(lv, Q, z) /\ Holds(lv, vecLinks, Q) /\ vecLinks \in [Slot -> Link]
      /\ \A t \in Side, q \in Price : FoundIn(nodes[t], t, q) <=> Len(Q[t][q]) # 0
  BY <1>1 DEF VecInv, Holds
<1>6. Q[s][p] \in Seq(Slot) /\ Len(Q[s][p]) \in Nat /\ DOMAIN Q[s][p] = 1..Len(Q[s][p])
  BY <1>2, <1>4, LenProperties DEF Queueing
<1>7. FoundIn(nodes[s], s, p)
  <2>1. Len(Q[s][p]) # 0
    BY <1>4, <1>6
  <2>. QED  BY <1>4, <1>5, <2>1
<1>8. PICK l : l = UnlinkedFrom(lv[s][p], vecLinks, o, order[o].remaining)
  OBVIOUS
<1>9. RowUnlinks(l, s, p, o) /\ l.total = lv[s][p].total - z[o]
  <2>1. order[o].remaining \in Int
    BY <1>2
  <2>2. l = UnlinkedFrom(VecLevels[s][p], vecLinks, o, order[o].remaining)
    BY <1>1, <1>8
  <2>3. RowUnlinks(l, s, p, o) /\ l.total = VecLevels[s][p].total - order[o].remaining
    BY <1>4, <1>5, <1>7, <2>1, <2>2, LeaveRow
  <2>. QED  BY <1>1, <1>2, <2>3
<1>10. /\ VecTyped' /\ l \in Level /\ l.price = lv[s][p].price
       /\ l.head = (IF vecLinks[o].prev = Null THEN vecLinks[o].next ELSE lv[s][p].head)
       /\ l.tail = (IF vecLinks[o].next = Null THEN vecLinks[o].prev ELSE lv[s][p].tail)
       /\ l.count = lv[s][p].count - 1
       /\ mv[s][p] = (IF l.head = Null THEN EmptyLevel ELSE l)
       /\ (FoundIn(nodes'[s], s, p) <=> l.head # Null)
       /\ \A t \in Side, q \in Price : ~(t = s /\ q = p) =>
             /\ mv[t][q] = lv[t][q]
             /\ FoundIn(nodes'[t], t, q) <=> FoundIn(nodes[t], t, q)
       /\ vecLinks' = UnlinkLinks(vecLinks, o)
  BY <1>1, <1>9 DEF RowUnlinks, RowsTurn
\* The levels as unlink leaves them, before an empty one is erased.
<1>11. PICK xv : xv = [t \in Side |-> [q \in Price |-> IF t = s /\ q = p THEN l ELSE lv[t][q]]]
  OBVIOUS
<1>12. xv[s][p] = l /\ \A t \in Side, q \in Price : ~(t = s /\ q = p) => xv[t][q] = lv[t][q]
  BY <1>4, <1>11
<1>13. Holds(xv, vecLinks', R)
  <2>1. Unhooked(lv, xv, vecLinks, o, s, p)
    BY <1>10, <1>12 DEF Unhooked
  <2>2. o = Q[s][p][k]
    BY <1>4
  <2>3. Holds(xv, UnlinkLinks(vecLinks, o), [Q EXCEPT ![s][p] = RemoveAt(Q[s][p], k)])
    BY <1>4, <1>5, <2>1, <2>2, HoldsUnlink
  <2>. QED  BY <1>3, <1>10, <2>3 DEF Left
<1>14. /\ l.count = Len(R[s][p]) /\ Len(R[s][p]) \in Nat
       /\ l.head = Null <=> Len(R[s][p]) = 0
       /\ l.head = Null => l.tail = Null
  <2>1. /\ Len(R[s][p]) \in Nat /\ xv[s][p].count = Len(R[s][p])
        /\ xv[s][p].head = Null <=> Len(R[s][p]) = 0
    BY <1>4, <1>13, ListMeans
  <2>2. xv[s][p].tail = IF Len(R[s][p]) = 0 THEN Null ELSE R[s][p][Len(R[s][p])]
    BY <1>4, <1>13 DEF Holds, IsList
  <2>. QED  BY <1>12, <2>1, <2>2
<1>15. Holds(mv, vecLinks', R)
  <2>1. /\ mv[s][p].head = l.head /\ mv[s][p].tail = l.tail /\ mv[s][p].count = l.count
    <3>1. CASE l.head = Null
      <4>1. EmptyLevel.head = Null /\ EmptyLevel.tail = Null /\ EmptyLevel.count = 0
        BY DEF EmptyLevel
      <4>. QED  BY <1>10, <1>14, <3>1, <4>1
    <3>2. CASE l.head # Null
      BY <1>10, <3>2
    <3>. QED  BY <3>1, <3>2
  <2>2. \A t \in Side, q \in Price : /\ mv[t][q].head = xv[t][q].head
                                     /\ mv[t][q].tail = xv[t][q].tail
                                     /\ mv[t][q].count = xv[t][q].count
    BY <1>10, <1>12, <2>1
  <2>. QED  BY <1>13, <2>2, HoldsSame
<1>16. Sized(mv, R, y)
  <2>1. mv[s][p] \in Level
    BY <1>1, <1>4, <1>10, VecLevelTyped
  <2>2. \/ mv[s][p].total = lv[s][p].total - z[o] /\ mv[s][p].price = lv[s][p].price
        \/ mv[s][p].total = 0 /\ Len(R[s][p]) = 0
    BY <1>9, <1>10, <1>14 DEF EmptyLevel
  <2>3. \A t \in Side, q \in Price : ~(t = s /\ q = p) => mv[t][q] = lv[t][q]
    BY <1>10
  <2>4. Leaves(Q, R, z, y, lv, mv, s, p, k, o)
    BY <1>2, <1>3, <1>4, <1>5, <2>1, <2>2, <2>3, Zenon DEF Leaves
  <2>. QED  BY <2>4, SizedLeft
<1>17. \A t \in Side, q \in Price : ~(t = s /\ q = p) => R[t][q] = Q[t][q]
  <2>1. RemoveAt(Q[s][p], k) \in Seq(Slot)
    BY <1>4, <1>6, RemoveAtFacts
  <2>. QED  BY <1>2, <1>3, <1>4, <2>1, OneCell DEF Left, Queueing
<1>18. \A t \in Side, q \in Price : FoundIn(nodes'[t], t, q) <=> Len(R[t][q]) # 0
  <2> SUFFICES ASSUME NEW t \in Side, NEW q \in Price
               PROVE  FoundIn(nodes'[t], t, q) <=> Len(R[t][q]) # 0
    OBVIOUS
  <2>1. CASE t = s /\ q = p
    BY <1>10, <1>14, <2>1
  <2>2. CASE ~(t = s /\ q = p)
    BY <1>5, <1>10, <1>17, <2>2
  <2>. QED  BY <2>1, <2>2
<1>. QED  BY <1>1, <1>10, <1>15, <1>16, <1>18, VecBecomes

\* A reduction changes one level's total.
LEMMA VecReduce ==
    ASSUME BookInv, VecInv, NEW o \in Slot, NEW traded \in Sizes, Reduce(o, traded)
    PROVE  VecInv'
<1>1. PICK Q, z, y, lv, mv :
         /\ Q = Bitset!Queue /\ z = Open /\ y = Open'
         /\ lv = VecLevels /\ mv = VecLevels'
  OBVIOUS
<1>2. /\ Q \in Queueing /\ NoRepeats(Q) /\ traded \in Int
      /\ z \in [Slot -> Int] /\ y \in [Slot -> Int]
      /\ y[o] = z[o] - traded /\ \A x \in Slot : x # o => y[x] = z[x]
      /\ \E s, p, i : LeftAt(o, s, p, i)
      /\ Bitset!Queue' = Q
  BY <1>1, ReducesQueues DEF BookInv
<1>3. PICK s, p, k : LeftAt(o, s, p, k)
  BY <1>2
<1>4. /\ s \in Side /\ p \in Price /\ k \in 1..Len(Q[s][p])
      /\ s = order[o].side /\ p = order[o].price /\ o = Q[s][p][k]
      /\ \A t \in Side, q \in Price : ~(t = s /\ q = p) =>
            \A j \in 1..Len(Q[t][q]) : Q[t][q][j] # o
  BY <1>1, <1>3 DEF LeftAt
<1>5. /\ VecTyped /\ Sized(lv, Q, z) /\ Holds(lv, vecLinks, Q)
      /\ \A t \in Side, q \in Price : FoundIn(nodes[t], t, q) <=> Len(Q[t][q]) # 0
  BY <1>1 DEF VecInv
<1>6. FoundIn(nodes[s], s, p)
  <2>1. Len(Q[s][p]) # 0
    <3>1. Len(Q[s][p]) \in Nat /\ k \in 1..Len(Q[s][p])
      BY <1>2, <1>4, QueueTypes DEF Queueing
    <3>. QED  BY <3>1
  <2>. QED  BY <1>4, <1>5, <2>1
<1>7. RowReduces(s, p, traded)
  BY <1>2, <1>4, <1>5, <1>6, ReduceRow
<1>8. /\ VecTyped' /\ FoundIn(nodes'[s], s, p) /\ vecLinks' = vecLinks
      /\ mv[s][p].head = lv[s][p].head /\ mv[s][p].tail = lv[s][p].tail
      /\ mv[s][p].count = lv[s][p].count /\ mv[s][p].price = lv[s][p].price
      /\ mv[s][p].total = lv[s][p].total - traded
      /\ \A t \in Side, q \in Price : ~(t = s /\ q = p) =>
            /\ mv[t][q] = lv[t][q]
            /\ FoundIn(nodes'[t], t, q) <=> FoundIn(nodes[t], t, q)
  BY <1>1, <1>7 DEF RowReduces, RowsTurn
<1>9. \A t \in Side, q \in Price : mv[t][q] \in Level
  BY <1>1, <1>8, VecLevelTyped
<1>10. ASSUME NEW t \in Side, NEW q \in Price
       PROVE  /\ mv[t][q].head = lv[t][q].head /\ mv[t][q].tail = lv[t][q].tail
              /\ mv[t][q].count = lv[t][q].count /\ mv[t][q].price = lv[t][q].price
              /\ mv[t][q].total = IF t = s /\ q = p THEN lv[t][q].total - traded
                                  ELSE lv[t][q].total
              /\ FoundIn(nodes'[t], t, q) <=> FoundIn(nodes[t], t, q)
  <2>1. CASE t = s /\ q = p
    BY <1>6, <1>8, <2>1
  <2>2. CASE ~(t = s /\ q = p)
    BY <1>8, <2>2
  <2>. QED  BY <2>1, <2>2
<1>11. Shrinks(Q, z, y, lv, mv, s, p, k, o, traded)
  <2>1. \A t \in Side, q \in Price :
           /\ mv[t][q] \in Level /\ mv[t][q].price = lv[t][q].price
           /\ mv[t][q].total = IF t = s /\ q = p THEN lv[t][q].total - traded
                               ELSE lv[t][q].total
    BY <1>9, <1>10
  <2>. QED  BY <1>2, <1>4, <1>5, <2>1, Zenon DEF Shrinks
<1>12. Sized(mv, Q, y)
  BY <1>11, SizedReduced
<1>13. Holds(mv, vecLinks', Q)
  BY <1>5, <1>8, <1>10, HoldsSame
<1>14. \A t \in Side, q \in Price : FoundIn(nodes'[t], t, q) <=> Len(Q[t][q]) # 0
  BY <1>5, <1>10
<1>. QED  BY <1>1, <1>2, <1>8, <1>12, <1>13, <1>14, VecBecomes

\* A step that changes nothing leaves the rows as they are.
LEMMA StillVec ==
    ASSUME BookInv, VecInv, UNCHANGED vars
    PROVE  VecInv'
<1>1. nodes' = nodes /\ vecLinks' = vecLinks /\ order' = order
  BY DEF vars, Vector!vars
<1>2. Bitset!Queue' = Bitset!Queue
  BY StillLists DEF BookInv
<1>3. VecLevels' = VecLevels /\ Open' = Open
  BY <1>1, OpenIs DEF VecLevels
<1>4. VecTyped'
  BY <1>1 DEF VecInv, VecTyped
<1>5. PICK R, y : R = Bitset!Queue /\ y = Open
  OBVIOUS
<1>6. Holds(VecLevels', vecLinks', R) /\ Sized(VecLevels', R, y)
  BY <1>1, <1>3, <1>5 DEF VecInv
<1>7. \A t \in Side, q \in Price : FoundIn(nodes'[t], t, q) <=> Len(R[t][q]) # 0
  BY <1>1, <1>5 DEF VecInv
<1>. QED  BY <1>2, <1>3, <1>4, <1>5, <1>6, <1>7, VecBecomes

\* The rows are empty at the start.
LEMMA VecInit ==
    ASSUME Init
    PROVE  VecInv
<1>1. /\ ListInv /\ Bitset!Queue = [s \in Side |-> [p \in Price |-> <<>>]]
  BY ListInit
<1>2. nodes = [s \in Side |-> <<>>] /\ vecLinks = [o \in Slot |-> Unlinked]
  BY SameVector DEF Init, Vector!Init
<1>3. Len(<<>>) = 0 /\ <<>> \in Seq(Level) /\ <<>> \in Seq(Slot) /\ 1..0 = {}
  BY EmptySeq
<1>4. ASSUME NEW s \in Side, NEW v, v = <<>> PROVE IsRow(v, s)
  BY <1>3, <1>4 DEF IsRow
<1>5. VecTyped
  BY <1>2, <1>4 DEF VecTyped
<1>6. ASSUME NEW s \in Side, NEW p \in Price
      PROVE  VecLevels[s][p] = EmptyLevel /\ ~FoundIn(nodes[s], s, p)
  <2>1. IsRow(nodes[s], s) /\ \A j \in 1..Len(nodes[s]) : nodes[s][j].price # p
    BY <1>2, <1>3, <1>4
  <2>. QED  BY <2>1, LevelAtPrice, VecLevelIs
<1>7. \A s \in Side, p \in Price : Bitset!Queue[s][p] = <<>>
  BY <1>1
<1>8. Holds(VecLevels, vecLinks, Bitset!Queue)
  <2>1. vecLinks \in [Slot -> Link]
    BY <1>2 DEF Unlinked, Link
  <2>2. Bitset!Queue \in [Side -> [Price -> Seq(Slot)]]
    BY <1>1, <1>3
  <2>3. ASSUME NEW s \in Side, NEW p \in Price
        PROVE  IsList(VecLevels[s][p], vecLinks, Bitset!Queue[s][p])
    <3>1. /\ EmptyLevel.head = Null /\ EmptyLevel.tail = Null /\ EmptyLevel.count = 0
      BY DEF EmptyLevel
    <3>2. ASSUME NEW l, NEW q, l = EmptyLevel, q = <<>> PROVE IsList(l, vecLinks, q)
      BY <1>3, <3>1, <3>2 DEF IsList
    <3>. QED  BY <1>6, <1>7, <3>2
  <2>4. \A s, t \in Side, p, q \in Price :
           \A j \in 1..Len(Bitset!Queue[s][p]), k \in 1..Len(Bitset!Queue[t][q]) :
              Bitset!Queue[s][p][j] = Bitset!Queue[t][q][k] => s = t /\ p = q
    BY <1>3, <1>7
  <2>. QED  BY <2>1, <2>2, <2>3, <2>4 DEF Holds
<1>9. Sized(VecLevels, Bitset!Queue, Open)
  BY <1>6, <1>7, SizedAtFirst
<1>10. \A s \in Side, p \in Price : FoundIn(nodes[s], s, p) <=> Len(Bitset!Queue[s][p]) # 0
  BY <1>3, <1>6, <1>7
<1>. QED  BY <1>5, <1>8, <1>9, <1>10 DEF VecInv

\* The vector book spells the same queues as the bitset book, in rows sorted best price
\* first with a level for exactly the prices that queue an order, each with its price
\* and the sum of the sizes in its list (sorted_vector_order_book.hpp).
THEOREM VectorHolds == Spec => []VecInv
<1>1. Init => VecInv
  BY VecInit
<1>2. BookInv /\ VecInv /\ [Next]_vars => VecInv'
  <2> SUFFICES ASSUME BookInv, VecInv, [Next]_vars PROVE VecInv'
    OBVIOUS
  <2>1. CASE UNCHANGED vars
    BY <2>1, StillVec
  <2>2. ASSUME NEW o \in Slot, NEW r \in Offers, Rest(o, r) PROVE VecInv'
    BY <2>2, VecRest
  <2>3. ASSUME NEW o \in Slot, Leave(o) PROVE VecInv'
    BY <2>3, VecLeave
  <2>4. ASSUME NEW o \in Slot, NEW traded \in Sizes, Reduce(o, traded) PROVE VecInv'
    BY <2>4, VecReduce
  <2>. QED  BY <2>1, <2>2, <2>3, <2>4 DEF Next
<1>. QED  BY <1>1, <1>2, LevelsSized, PTL DEF Spec

\* So the queues of the vector book are the same.
LEMMA VecQueueIs ==
    ASSUME VecInv
    PROVE  Vector!Queue = Bitset!Queue
<1>1. \A l, lk : Vector!Chain(l, lk) = Chain(l, lk)
  BY Zenon DEF Vector!Chain, Chain
<1>2. Bitset!Queue = [s \in Side |-> [p \in Price |-> Chain(VecLevels[s][p], vecLinks)]]
  BY ChainsAre DEF VecInv
<1>3. Vector!Queue = [s \in Side |-> [p \in Price |->
                         IF FoundIn(nodes[s], s, p)
                         THEN Chain(nodes[s][SeekIn(nodes[s], s, p)], vecLinks) ELSE <<>>]]
  BY <1>1, SameVector, SameSeek DEF Vector!Queue
<1>4. \A s \in Side, p \in Price :
         (IF FoundIn(nodes[s], s, p)
          THEN Chain(nodes[s][SeekIn(nodes[s], s, p)], vecLinks) ELSE <<>>)
            = Chain(VecLevels[s][p], vecLinks)
  <2> SUFFICES ASSUME NEW s \in Side, NEW p \in Price
               PROVE  (IF FoundIn(nodes[s], s, p)
                       THEN Chain(nodes[s][SeekIn(nodes[s], s, p)], vecLinks) ELSE <<>>)
                         = Chain(VecLevels[s][p], vecLinks)
    OBVIOUS
  <2>1. CASE FoundIn(nodes[s], s, p)
    BY <2>1, VecLevelIs DEF LevelIn
  <2>2. CASE ~FoundIn(nodes[s], s, p)
    <3>1. Chain(VecLevels[s][p], vecLinks) = Bitset!Queue[s][p]
      BY <1>2
    <3>2. Len(Bitset!Queue[s][p]) = 0 /\ Bitset!Queue[s][p] \in Seq(Slot)
      BY <2>2 DEF VecInv, Holds
    <3>3. Bitset!Queue[s][p] = <<>>
      BY <3>2, EmptySeq
    <3>. QED  BY <2>2, <3>1, <3>3
  <2>. QED  BY <2>1, <2>2
<1>. QED  BY <1>2, <1>3, <1>4

\* Walking the vector book meets the orders the bitset book meets, price by price and
\* in the same order: the other half of what tests/test_book_equivalence.cpp samples.
THEOREM VectorQueuesAgree == Spec => [](Vector!Queue = Bitset!Queue)
<1>1. VecInv => Vector!Queue = Bitset!Queue
  BY VecQueueIs
<1>. QED  BY <1>1, VectorHolds, PTL

-----------------------------------------------------------------------------
(* The books' counts are the orders that rest.                              *)

RestingOn(s) == {o \in Slot : ~Idle(o) /\ order[o].side = s}
CountOf(c) == c = [s \in Side |-> Cardinality(RestingOn(s))]
CountInv == CountOf(bitCount) /\ CountOf(mapCount) /\ CountOf(vecCount)

\* There are finitely many slots, as Storage lists them.
LEMMA SlotsFinite == IsFiniteSet(Slot)
<1>1. /\ Storage \in Seq(Slot) /\ Len(Storage) \in Nat /\ DOMAIN Storage = 1..Len(Storage)
      /\ \A o \in Slot : \E k \in 1..Len(Storage) : Storage[k] = o
  BY StorageFacts
<1>2. PICK n : n = Len(Storage)
  OBVIOUS
<1>3. Storage \in [1..n -> Slot]
  BY <1>1, <1>2
<1>4. Storage \in Surjection(1..n, Slot)
  BY <1>1, <1>2, <1>3 DEF Surjection
<1>5. IsFiniteSet(1..n)
  BY <1>1, <1>2, FS_Interval
<1>. QED  BY <1>4, <1>5, FS_Surjection

\* One side's orders, one more or one less.
LEMMA CountFacts ==
    ASSUME NEW s
    PROVE  /\ IsFiniteSet(RestingOn(s)) /\ Cardinality(RestingOn(s)) \in Nat
           /\ \A o : o \notin RestingOn(s) =>
                 Cardinality(RestingOn(s) \cup {o}) = Cardinality(RestingOn(s)) + 1
           /\ \A o : o \in RestingOn(s) =>
                 Cardinality(RestingOn(s) \ {o}) = Cardinality(RestingOn(s)) - 1
<1>1. IsFiniteSet(RestingOn(s))
  BY SlotsFinite, FS_Subset DEF RestingOn
<1>2. Cardinality(RestingOn(s)) \in Nat
  BY <1>1, FS_CardinalityType
<1>3. ASSUME NEW o, o \notin RestingOn(s)
      PROVE  Cardinality(RestingOn(s) \cup {o}) = Cardinality(RestingOn(s)) + 1
  BY <1>1, <1>3, FS_AddElement
<1>4. ASSUME NEW o, o \in RestingOn(s)
      PROVE  Cardinality(RestingOn(s) \ {o}) = Cardinality(RestingOn(s)) - 1
  BY <1>1, <1>4, FS_RemoveElement
<1>. QED  BY <1>1, <1>2, <1>3, <1>4

\* The orders of each side after a step.
LEMMA CountSteps ==
    ASSUME SlotsInv, NEW s \in Side
    PROVE  /\ \A o \in Slot, r \in Offers : Rest(o, r) =>
                 IF s = r.side THEN o \notin RestingOn(s) /\ RestingOn(s)' = RestingOn(s) \cup {o}
                 ELSE RestingOn(s)' = RestingOn(s)
           /\ \A o \in Slot : Leave(o) =>
                 IF s = order[o].side
                 THEN o \in RestingOn(s) /\ RestingOn(s)' = RestingOn(s) \ {o}
                 ELSE RestingOn(s)' = RestingOn(s)
           /\ \A o \in Slot, traded \in Sizes : Reduce(o, traded) =>
                 RestingOn(s)' = RestingOn(s)
<1>0. RestingOn(s)' = {x \in Slot : ~Idle(x)' /\ order'[x].side = s}
  BY DEF RestingOn
<1>1. ASSUME NEW o \in Slot, NEW r \in Offers, Rest(o, r)
      PROVE  IF s = r.side THEN o \notin RestingOn(s) /\ RestingOn(s)' = RestingOn(s) \cup {o}
             ELSE RestingOn(s)' = RestingOn(s)
  <2>1. /\ Idle(o) /\ \A x \in Slot : Idle(x)' <=> Idle(x) /\ x # o
        /\ order'[o] = r /\ \A x \in Slot : x # o => order'[x] = order[x]
    BY <1>1, SlotTaken
  <2>. QED  BY <1>0, <2>1 DEF RestingOn
<1>2. ASSUME NEW o \in Slot, Leave(o)
      PROVE  IF s = order[o].side THEN o \in RestingOn(s) /\ RestingOn(s)' = RestingOn(s) \ {o}
             ELSE RestingOn(s)' = RestingOn(s)
  <2>1. /\ ~Idle(o) /\ \A x \in Slot : Idle(x)' <=> Idle(x) \/ x = o
        /\ \A x \in Slot : x # o => order'[x] = order[x]
    BY <1>2, SlotGiven
  <2>. QED  BY <1>0, <2>1 DEF RestingOn
<1>3. ASSUME NEW o \in Slot, NEW traded \in Sizes, Reduce(o, traded)
      PROVE  RestingOn(s)' = RestingOn(s)
  <2>1. \A x \in Slot : (Idle(x)' <=> Idle(x)) /\ order'[x].side = order[x].side
    BY <1>3, SlotReduced
  <2>. QED  BY <1>0, <2>1 DEF RestingOn
<1>. QED  BY <1>1, <1>2, <1>3

\* A count that goes up and down with them.
CountMoves(c, d) ==
    /\ \A o \in Slot, r \in Offers : Rest(o, r) => d = [c EXCEPT ![r.side] = c[r.side] + 1]
    /\ \A o \in Slot : Leave(o) => d = [c EXCEPT ![order[o].side] = c[order[o].side] - 1]
    /\ \A o \in Slot, traded \in Sizes : Reduce(o, traded) => d = c
    /\ UNCHANGED vars => d = c
LEMMA CountKept ==
    ASSUME SlotsInv, NEW c, CountOf(c), NEW d, CountMoves(c, d), [Next]_vars
    PROVE  d = [s \in Side |-> Cardinality(RestingOn(s)')]
<1>1. \A s \in Side : c[s] = Cardinality(RestingOn(s))
  BY DEF CountOf
<1>2. c = [s \in Side |-> c[s]]
  BY DEF CountOf
<1>3. ASSUME NEW o \in Slot, NEW r \in Offers, Rest(o, r)
      PROVE  d = [s \in Side |-> Cardinality(RestingOn(s)')]
  <2>1. d = [c EXCEPT ![r.side] = c[r.side] + 1] /\ r.side \in Side
    BY <1>3, OfferTypes DEF CountMoves
  <2>2. \A s \in Side : Cardinality(RestingOn(s)') = IF s = r.side THEN c[s] + 1 ELSE c[s]
    BY <1>1, <1>3, CountSteps, CountFacts
  <2>3. d = [s \in Side |-> IF s = r.side THEN c[s] + 1 ELSE c[s]]
    BY <1>2, <2>1
  <2>. QED  BY <2>2, <2>3
<1>4. ASSUME NEW o \in Slot, Leave(o)
      PROVE  d = [s \in Side |-> Cardinality(RestingOn(s)')]
  <2>1. d = [c EXCEPT ![order[o].side] = c[order[o].side] - 1]
    BY <1>4 DEF CountMoves
  <2>2. \A s \in Side : Cardinality(RestingOn(s)') = IF s = order[o].side THEN c[s] - 1 ELSE c[s]
    BY <1>1, <1>4, CountSteps, CountFacts
  <2>3. d = [s \in Side |-> IF s = order[o].side THEN c[s] - 1 ELSE c[s]]
    BY <1>2, <2>1
  <2>. QED  BY <2>2, <2>3
<1>5. ASSUME NEW o \in Slot, NEW traded \in Sizes, Reduce(o, traded)
      PROVE  d = [s \in Side |-> Cardinality(RestingOn(s)')]
  <2>1. d = c
    BY <1>5 DEF CountMoves
  <2>2. \A s \in Side : Cardinality(RestingOn(s)') = c[s]
    BY <1>1, <1>5, CountSteps
  <2>. QED  BY <1>2, <2>1, <2>2
<1>6. CASE UNCHANGED vars
  <2>1. d = c
    BY <1>6 DEF CountMoves
  <2>2. \A s : RestingOn(s)' = RestingOn(s)
    BY <1>6 DEF RestingOn, Idle, vars
  <2>. QED  BY <1>1, <1>2, <2>1, <2>2
<1>. QED  BY <1>3, <1>4, <1>5, <1>6 DEF Next

\* The three books keep such a count.
LEMMA BooksCount ==
    /\ CountMoves(bitCount, bitCount') /\ CountMoves(mapCount, mapCount')
    /\ CountMoves(vecCount, vecCount')
<1>1. CountMoves(bitCount, bitCount')
  BY DEF CountMoves, Rest, Leave, Reduce, vars, Bitset!AddOrder, Bitset!RemoveOrder,
         Bitset!ReduceInPlace, Bitset!vars
<1>2. CountMoves(mapCount, mapCount')
  BY DEF CountMoves, Rest, Leave, Reduce, vars, Map!AddOrder, Map!RemoveOrder,
         Map!ReduceInPlace, Map!vars
<1>3. CountMoves(vecCount, vecCount')
  BY DEF CountMoves, Rest, Leave, Reduce, vars, Vector!AddOrder, Vector!RemoveOrder,
         Vector!ReduceInPlace, Vector!vars
<1>. QED  BY <1>1, <1>2, <1>3

\* Nobody rests at the start.
LEMMA CountsStart ==
    ASSUME Init
    PROVE  CountInv
<1>1. \A s : RestingOn(s) = {}
  BY SlotsInit DEF RestingOn
<1>2. \A s : Cardinality(RestingOn(s)) = 0
  BY <1>1, FS_EmptySet
<1>3. /\ bitCount = [s \in Side |-> 0] /\ mapCount = [s \in Side |-> 0]
      /\ vecCount = [s \in Side |-> 0]
  BY SameBitset, SameMap, SameVector DEF Init, Bitset!Init, Map!Init, Vector!Init
<1>. QED  BY <1>2, <1>3 DEF CountInv, CountOf

\* Each book's count of a side is the number of orders of that side that rest
\* (order_count_ of order_book.hpp, count_ of the baselines).
THEOREM CountsHold == Spec => []CountInv
<1>1. Init => CountInv
  BY CountsStart
<1>2. ListInv /\ CountInv /\ [Next]_vars => CountInv'
  <2> SUFFICES ASSUME ListInv, CountInv, [Next]_vars PROVE CountInv'
    OBVIOUS
  <2>1. SlotsInv /\ CountOf(bitCount) /\ CountOf(mapCount) /\ CountOf(vecCount)
    BY DEF ListInv, CountInv
  <2>2. /\ bitCount' = [s \in Side |-> Cardinality(RestingOn(s)')]
        /\ mapCount' = [s \in Side |-> Cardinality(RestingOn(s)')]
        /\ vecCount' = [s \in Side |-> Cardinality(RestingOn(s)')]
    BY <2>1, BooksCount, CountKept
  <2>. QED  BY <2>2 DEF CountInv, CountOf
<1>. QED  BY <1>1, <1>2, ListsHold, PTL DEF Spec

-----------------------------------------------------------------------------
(* Prices in order: the one enumeration of a set, best price first.         *)

\* g lists the prices of S, best first, each once.
Lists(g, n, S, s) ==
    /\ n \in Nat /\ g = [k \in 1..n |-> g[k]]
    /\ \A k \in 1..n : g[k] \in S
    /\ \A p \in S : \E k \in 1..n : g[k] = p
    /\ \A j, k \in 1..n : j < k => Better(s, g[j], g[k])

\* As many as are listed.
LEMMA CountListed ==
    ASSUME NEW n \in Nat, NEW T, NEW g, \A k \in 1..n : g[k] \in T,
           \A t \in T : \E k \in 1..n : g[k] = t,
           \A j, k \in 1..n : g[j] = g[k] => j = k
    PROVE  IsFiniteSet(T) /\ Cardinality(T) = n
<1> DEFINE h == [k \in 1..n |-> g[k]]
<1>1. h \in [1..n -> T] /\ \A k \in 1..n : h[k] = g[k]
  OBVIOUS
<1> HIDE DEF h
<1>2. h \in Surjection(1..n, T)
  BY <1>1 DEF Surjection
<1>3. h \in Injection(1..n, T)
  BY <1>1 DEF Injection, IsInjective
<1>4. IsFiniteSet(1..n) /\ Cardinality(1..n) = n
  <2>1. IsFiniteSet(1..n) /\ Cardinality(1..n) = IF 1 > n THEN 0 ELSE n - 1 + 1
    BY FS_Interval
  <2>. QED  BY <2>1
<1>. QED  BY <1>2, <1>3, <1>4, FS_Surjection

\* So the rank of a price is its place in the list, and BestFirst is the list.
LEMMA BestFirstIs ==
    ASSUME NEW s \in Side, NEW S, S \subseteq Price, NEW n, NEW g, Lists(g, n, S, s)
    PROVE  /\ IsFiniteSet(S) /\ Cardinality(S) = n
           /\ BestFirst(s, S) = g
<1>1. /\ n \in Nat /\ g = [k \in 1..n |-> g[k]]
      /\ \A k \in 1..n : g[k] \in S /\ g[k] \in Price
      /\ \A p \in S : \E k \in 1..n : g[k] = p
      /\ \A j, k \in 1..n : j < k => Better(s, g[j], g[k])
  BY DEF Lists
<1>2. \A j, k \in 1..n : Better(s, g[j], g[k]) <=> j < k
  <2> SUFFICES ASSUME NEW j \in 1..n, NEW k \in 1..n
               PROVE  Better(s, g[j], g[k]) <=> j < k
    OBVIOUS
  <2>1. g[j] \in Price /\ g[k] \in Price
    BY <1>1
  <2>2. j < k => Better(s, g[j], g[k])
    BY <1>1
  <2>3. k < j => Better(s, g[k], g[j])
    BY <1>1
  <2>4. ~(Better(s, g[j], g[k]) /\ Better(s, g[k], g[j])) /\ (j = k => ~Better(s, g[j], g[k]))
    BY <2>1, BetterFacts
  <2>5. j < k \/ k < j \/ j = k
    BY <1>1
  <2>. QED  BY <1>1, <2>2, <2>3, <2>4, <2>5
<1>3. \A j, k \in 1..n : g[j] = g[k] => j = k
  BY <1>1, <1>2
<1>4. IsFiniteSet(S) /\ Cardinality(S) = n
  BY <1>1, <1>3, CountListed
<1> DEFINE Rank(p) == Cardinality({q \in S : Better(s, q, p)})
<1>5. ASSUME NEW k \in 1..n PROVE Rank(g[k]) = k - 1
  <2> DEFINE T == {q \in S : Better(s, q, g[k])}
  <2>1. k - 1 \in Nat /\ \A j \in 1..(k - 1) : j \in 1..n /\ j < k
    BY <1>1
  <2>2. \A j \in 1..(k - 1) : g[j] \in T
    BY <1>1, <2>1
  <2>3. \A t \in T : \E j \in 1..(k - 1) : g[j] = t
    <3> SUFFICES ASSUME NEW t \in T PROVE \E j \in 1..(k - 1) : g[j] = t
      OBVIOUS
    <3>1. PICK j \in 1..n : g[j] = t
      BY <1>1
    <3>2. j < k
      BY <1>2, <3>1
    <3>3. j \in 1..(k - 1)
      BY <1>1, <3>2
    <3>. QED  BY <3>1, <3>3
  <2>4. \A i, j \in 1..(k - 1) : g[i] = g[j] => i = j
    BY <1>3, <2>1
  <2> HIDE DEF T
  <2>5. Cardinality(T) = k - 1
    BY <2>1, <2>2, <2>3, <2>4, CountListed
  <2>. QED  BY <2>5 DEF T
<1> HIDE DEF Rank
<1>6. ASSUME NEW k \in 1..n PROVE (CHOOSE p \in S : Rank(p) = k - 1) = g[k]
  <2>1. g[k] \in S /\ Rank(g[k]) = k - 1
    BY <1>1, <1>5
  <2>2. ASSUME NEW p \in S, Rank(p) = k - 1 PROVE p = g[k]
    <3>1. PICK j \in 1..n : g[j] = p
      BY <1>1
    <3>2. j - 1 = k - 1
      BY <1>5, <2>2, <3>1
    <3>. QED  BY <1>1, <3>1, <3>2
  <2>. QED  BY <2>1, <2>2
<1>7. BestFirst(s, S) = [k \in 1..n |-> CHOOSE p \in S : Rank(p) = k - 1]
  BY <1>4, Zenon DEF BestFirst, Rank
<1>8. [k \in 1..n |-> CHOOSE p \in S : Rank(p) = k - 1] = [k \in 1..n |-> g[k]]
  BY <1>6, Zenon
<1>. QED  BY <1>1, <1>4, <1>7, <1>8

-----------------------------------------------------------------------------
(* The levels of a side, best first, from the queues and from each book.    *)

\* The prices of the vector book's levels, in its order.
Row(s) == [k \in 1..Len(nodes[s]) |-> nodes[s][k].price]

\* The occupied prices, as queues that are not empty.
LEMMA OccupiedIs ==
    ASSUME ListInv, NEW s \in Side
    PROVE  /\ Queues!Occupied(s) \subseteq Price
           /\ \A p \in Price : p \in Queues!Occupied(s) <=> Len(Bitset!Queue[s][p]) # 0
<1>1. \A p \in Price : Bitset!Queue[s][p] \in Seq(Slot)
  BY DEF ListInv, Holds
<1>2. \A p \in Price : Bitset!Queue[s][p] # <<>> <=> Len(Bitset!Queue[s][p]) # 0
  BY <1>1, EmptySeq
<1>. QED  BY <1>2, SameQueues DEF Queues!Occupied

\* The rows list them.
LEMMA RowLists ==
    ASSUME ListInv, VecInv, NEW s \in Side
    PROVE  /\ Lists(Row(s), Len(nodes[s]), Queues!Occupied(s), s)
           /\ IsRow(nodes[s], s) /\ Len(nodes[s]) \in Nat
           /\ \A k \in 1..Len(nodes[s]) : /\ Row(s)[k] = nodes[s][k].price
                                          /\ Row(s)[k] \in Queues!Occupied(s)
                                          /\ Row(s)[k] \in Price
                                          /\ VecLevels[s][Row(s)[k]] = nodes[s][k]
<1> DEFINE v == nodes[s]
           n == Len(nodes[s])
           O == Queues!Occupied(s)
<1>1. IsRow(v, s)
  BY DEF VecInv, VecTyped
<1>2. n \in Nat /\ \A k \in 1..n : v[k].price \in Price
  BY <1>1, RowFacts
<1>3. Row(s) = [k \in 1..n |-> Row(s)[k]] /\ \A k \in 1..n : Row(s)[k] = v[k].price
  BY DEF Row
<1>4. \A k \in 1..n : FoundIn(v, s, v[k].price) /\ LevelIn(v, s, v[k].price) = v[k]
  BY <1>1, LevelAtPrice
<1>5. \A p \in Price : p \in O <=> FoundIn(v, s, p)
  BY OccupiedIs DEF VecInv
<1>6. ASSUME NEW k \in 1..n
      PROVE  Row(s)[k] \in O /\ Row(s)[k] \in Price /\ VecLevels[s][Row(s)[k]] = v[k]
  <2>1. PICK p : p = Row(s)[k] /\ p = v[k].price
    BY <1>3
  <2>2. p \in Price /\ FoundIn(v, s, p) /\ LevelIn(v, s, p) = v[k]
    BY <1>2, <1>4, <2>1
  <2>3. p \in O /\ VecLevels[s][p] = v[k]
    BY <1>5, <2>2, VecLevelIs
  <2>. QED  BY <2>1, <2>2, <2>3
<1>7. ASSUME NEW p \in O PROVE \E k \in 1..n : Row(s)[k] = p
  <2>1. p \in Price /\ FoundIn(v, s, p)
    BY <1>5, OccupiedIs
  <2>2. PICK j \in 1..n : v[j].price = p
    BY <1>1, <2>1, LevelAtPrice
  <2>. QED  BY <1>3, <2>2
<1>8. \A j, k \in 1..n : j < k => Better(s, Row(s)[j], Row(s)[k])
  BY <1>1, <1>3 DEF IsRow
<1>. QED  BY <1>1, <1>2, <1>3, <1>6, <1>7, <1>8 DEF Lists

\* The queues count sets as the books do.
LEMMA QueuesCount == \A S : Queues!Cardinality(S) = Cardinality(S)
  BY Zenon DEF Queues!Cardinality, Cardinality

\* An instance ranks prices as the others do.
LEMMA SameRanks ==
    \A s, S : Queues!BestFirst(s, S) = BestFirst(s, S) /\ Map!BestFirst(s, S) = BestFirst(s, S)
<1>1. ASSUME NEW s, NEW S PROVE Queues!BestFirst(s, S) = BestFirst(s, S)
  <2>1. \A p, q : Queues!Better(s, p, q) <=> Better(s, p, q)
    BY DEF Queues!Better, Better
  <2>2. \A T : Queues!Cardinality(T) = Cardinality(T)
    BY QueuesCount
  <2> DEFINE Mine(p) == {q \in S : Better(s, q, p)}
             Its(p) == {q \in S : Queues!Better(s, q, p)}
  <2>3. \A p : Queues!Cardinality(Its(p)) = Cardinality(Mine(p))
    BY <2>1, <2>2
  <2> HIDE DEF Mine, Its
  <2>4. \A k : (CHOOSE p \in S : Queues!Cardinality(Its(p)) = k - 1)
               = CHOOSE p \in S : Cardinality(Mine(p)) = k - 1
    BY <2>3
  <2>5. [k \in 1..Queues!Cardinality(S) |-> CHOOSE p \in S : Queues!Cardinality(Its(p)) = k - 1]
        = [k \in 1..Cardinality(S) |-> CHOOSE p \in S : Cardinality(Mine(p)) = k - 1]
    BY <2>2, <2>4
  <2>. QED  BY <2>5, Zenon DEF Queues!BestFirst, BestFirst, Mine, Its
<1>2. ASSUME NEW s, NEW S PROVE Map!BestFirst(s, S) = BestFirst(s, S)
  <2>1. \A p, q : Map!Better(s, p, q) <=> Better(s, p, q)
    BY DEF Map!Better, Better
  <2> DEFINE Mine(p) == {q \in S : Better(s, q, p)}
             Its(p) == {q \in S : Map!Better(s, q, p)}
  <2>3. \A p : Map!Cardinality(Its(p)) = Cardinality(Mine(p))
    BY <2>1, SameCardinality
  <2> HIDE DEF Mine, Its
  <2>4. \A k : (CHOOSE p \in S : Map!Cardinality(Its(p)) = k - 1)
               = CHOOSE p \in S : Cardinality(Mine(p)) = k - 1
    BY <2>3
  <2>5. [k \in 1..Map!Cardinality(S) |-> CHOOSE p \in S : Map!Cardinality(Its(p)) = k - 1]
        = [k \in 1..Cardinality(S) |-> CHOOSE p \in S : Cardinality(Mine(p)) = k - 1]
    BY <2>4, SameCardinality
  <2>. QED  BY <2>5, Zenon DEF Map!BestFirst, BestFirst, Mine, Its
<1>. QED  BY <1>1, <1>2

\* The level the queues tell of is the one a book keeps.
LEMMA LevelIsOf ==
    ASSUME NEW lv, NEW links, Holds(lv, links, Bitset!Queue), Sized(lv, Bitset!Queue, Open),
           NEW s \in Side, NEW p \in Price, Len(Bitset!Queue[s][p]) # 0
    PROVE  Queues!LevelOf(s, p) = lv[s][p]
<1> DEFINE q == Bitset!Queue[s][p]
           l == lv[s][p]
<1>1. /\ q \in Seq(Slot) /\ l.count = Len(q) /\ l.head = q[1] /\ l.tail = q[Len(q)]
  BY ListMeans
<1>2. l \in Level /\ l.price = p /\ Sums(q, Open, l.total)
  BY DEF Sized
<1> HIDE DEF q, l
<1>3. TotalOf(q, Open) = l.total
  BY <1>1, <1>2, TotalIs
<1>4. Queues!LevelOf(s, p) = [price |-> p, total |-> TotalOf(q, Open), count |-> Len(q),
                              head |-> q[1], tail |-> q[Len(q)]]
  BY Zenon DEF Queues!LevelOf, TotalOf, q
<1>5. l = [price |-> l.price, total |-> l.total, count |-> l.count, head |-> l.head, tail |-> l.tail]
  BY <1>2 DEF Level
<1>. QED  BY <1>1, <1>2, <1>3, <1>4, <1>5 DEF l

\* The levels the queues tell of, along the vector book's rows.
LEMMA LevelsAre ==
    ASSUME ListInv, VecInv, NEW s \in Side
    PROVE  Queues!Levels(s) = [k \in 1..Len(nodes[s]) |-> Queues!LevelOf(s, Row(s)[k])]
<1>1. /\ Cardinality(Queues!Occupied(s)) = Len(nodes[s])
      /\ BestFirst(s, Queues!Occupied(s)) = Row(s)
  BY RowLists, OccupiedIs, BestFirstIs
<1>. QED  BY <1>1, QueuesCount, SameRanks DEF Queues!Levels

\* A book that keeps the levels of the queues' prices keeps those.
LEMMA LevelsFollow ==
    ASSUME ListInv, VecInv, NEW s \in Side,
           NEW lv, NEW links, Holds(lv, links, Bitset!Queue), Sized(lv, Bitset!Queue, Open),
           NEW f, f = [k \in 1..Len(nodes[s]) |-> lv[s][Row(s)[k]]]
    PROVE  f = Queues!Levels(s)
<1>1. ASSUME NEW k \in 1..Len(nodes[s]) PROVE lv[s][Row(s)[k]] = Queues!LevelOf(s, Row(s)[k])
  <2>1. PICK p : p = Row(s)[k]
    OBVIOUS
  <2>2. p \in Price /\ Len(Bitset!Queue[s][p]) # 0
    BY <2>1, RowLists, OccupiedIs
  <2>3. Queues!LevelOf(s, p) = lv[s][p]
    BY <2>2, LevelIsOf
  <2>. QED  BY <2>1, <2>3
<1>2. \A k \in 1..Len(nodes[s]) : lv[s][Row(s)[k]] = Queues!LevelOf(s, Row(s)[k])
  BY <1>1
<1>3. f = [k \in 1..Len(nodes[s]) |-> Queues!LevelOf(s, Row(s)[k])]
  BY <1>2, Zenon
<1>. QED  BY <1>3, LevelsAre

\* The vector book's levels.
LEMMA VectorLevels ==
    ASSUME ListInv, VecInv, NEW s \in Side
    PROVE  Vector!Levels(s) = Queues!Levels(s)
<1>1. nodes[s] \in Seq(Level)
  BY RowLists DEF IsRow
<1>2. nodes[s] = [k \in 1..Len(nodes[s]) |-> nodes[s][k]]
  BY <1>1
<1>3. \A k \in 1..Len(nodes[s]) : nodes[s][k] = VecLevels[s][Row(s)[k]]
  BY RowLists
<1>4. nodes[s] = [k \in 1..Len(nodes[s]) |-> VecLevels[s][Row(s)[k]]]
  BY <1>2, <1>3, Zenon
<1>5. nodes[s] = Queues!Levels(s)
  BY <1>4, LevelsFollow DEF VecInv
<1>. QED  BY <1>5 DEF Vector!Levels

\* The map book's levels.
LEMMA MapLevelsAre ==
    ASSUME BookInv, VecInv, NEW s \in Side
    PROVE  Map!Levels(s) = Queues!Levels(s)
<1>1. ListInv /\ MapInv /\ Sized(MapLevels, Bitset!Queue, Open)
  BY DEF BookInv
<1>2. DOMAIN tree[s] = Queues!Occupied(s)
  <2>1. DOMAIN tree[s] \subseteq Price
    BY <1>1 DEF MapInv, MapTyped, IsTree
  <2>2. \A p \in Price : p \in DOMAIN tree[s] <=> Len(Bitset!Queue[s][p]) # 0
    BY <1>1 DEF MapInv
  <2>3. /\ Queues!Occupied(s) \subseteq Price
        /\ \A p \in Price : p \in Queues!Occupied(s) <=> Len(Bitset!Queue[s][p]) # 0
    BY <1>1, OccupiedIs
  <2>. QED  BY <2>1, <2>2, <2>3
<1>3. Map!BestFirst(s, DOMAIN tree[s]) = Row(s)
  BY <1>1, <1>2, RowLists, OccupiedIs, BestFirstIs, SameRanks
<1>4. Map!Levels(s) = [k \in 1..Len(nodes[s]) |-> cell[s][tree[s][Row(s)[k]]]]
  BY <1>3 DEF Map!Levels, Row
<1>5. \A k \in 1..Len(nodes[s]) : cell[s][tree[s][Row(s)[k]]] = MapLevels[s][Row(s)[k]]
  BY <1>1, <1>2, RowLists, MapLevelIs
<1>6. Map!Levels(s) = [k \in 1..Len(nodes[s]) |-> MapLevels[s][Row(s)[k]]]
  BY <1>4, <1>5, Zenon
<1>. QED  BY <1>1, <1>6, LevelsFollow DEF MapInv

-----------------------------------------------------------------------------
(* The bit scans: from the top of the book inward.                          *)

\* Every one bit is that of a level, and every one bit of a summary that of a word.
BitsPlaced ==
    /\ \A s \in Side, w \in WordIndexes : \A b \in words[s][w] :
          \E i \in Indexes : w = i \div Bits /\ b = i % Bits
    /\ \A s \in Side, v \in SummaryIndexes : \A c \in summary[s][v] :
          \E w \in WordIndexes : v = w \div Bits /\ c = w % Bits

\* Setting a level's bit.
LEMMA PlacedSet ==
    ASSUME WordsTyped, BitsPlaced, NEW s \in Side, NEW i \in Indexes, Bitset!SetBit(s, i)
    PROVE  BitsPlaced'
<1> DEFINE w == i \div Bits
           b == i % Bits
           v == w \div Bits
           c == w % Bits
           wd == words[s][w] \cup {b}
           sm == summary[s][v] \cup {c}
<1>1. w \in WordIndexes /\ b \in Nat /\ v \in SummaryIndexes /\ c \in Nat
  BY BitFacts
<1>2. words' = [words EXCEPT ![s][w] = wd] /\ summary' = [summary EXCEPT ![s][v] = sm]
  BY DEF Bitset!SetBit
<1>3. wd \in SUBSET Nat /\ sm \in SUBSET Nat
  BY <1>1 DEF WordsTyped
<1> HIDE DEF wd, sm
<1>4. /\ words'[s][w] = wd
      /\ \A t \in Side, x \in WordIndexes : ~(t = s /\ x = w) => words'[t][x] = words[t][x]
  BY <1>1, <1>2, <1>3, OneCell DEF WordsTyped
<1>5. /\ summary'[s][v] = sm
      /\ \A t \in Side, x \in SummaryIndexes : ~(t = s /\ x = v) => summary'[t][x] = summary[t][x]
  BY <1>1, <1>2, <1>3, OneCell DEF WordsTyped
<1>6. ASSUME NEW t \in Side, NEW x \in WordIndexes, NEW d \in words'[t][x]
      PROVE  \E j \in Indexes : x = j \div Bits /\ d = j % Bits
  <2>1. CASE t = s /\ x = w /\ d = b
    BY <2>1
  <2>2. CASE d \in words[t][x]
    BY <2>2 DEF BitsPlaced
  <2>. QED  BY <1>4, <2>1, <2>2 DEF wd
<1>7. ASSUME NEW t \in Side, NEW x \in SummaryIndexes, NEW d \in summary'[t][x]
      PROVE  \E j \in WordIndexes : x = j \div Bits /\ d = j % Bits
  <2>1. CASE t = s /\ x = v /\ d = c
    BY <1>1, <2>1
  <2>2. CASE d \in summary[t][x]
    BY <2>2 DEF BitsPlaced
  <2>. QED  BY <1>5, <2>1, <2>2 DEF sm
<1>. QED  BY <1>6, <1>7 DEF BitsPlaced

\* Clearing one.
LEMMA PlacedCleared ==
    ASSUME WordsTyped, BitsPlaced, NEW s \in Side, NEW i \in Indexes, Bitset!ClearBit(s, i)
    PROVE  BitsPlaced'
<1> DEFINE w == i \div Bits
           v == w \div Bits
           wd == words[s][w] \ {i % Bits}
           sm == summary[s][v] \ {w % Bits}
<1>1. w \in WordIndexes /\ v \in SummaryIndexes
  BY BitFacts
<1>2. /\ words' = [words EXCEPT ![s][w] = wd]
      /\ summary' = [summary EXCEPT ![s][v] = sm] \/ summary' = summary
  BY DEF Bitset!ClearBit
<1>3. wd \in SUBSET Nat /\ sm \in SUBSET Nat /\ wd \subseteq words[s][w] /\ sm \subseteq summary[s][v]
  BY <1>1 DEF WordsTyped
<1> HIDE DEF wd, sm
<1>4. /\ words'[s][w] = wd
      /\ \A t \in Side, x \in WordIndexes : ~(t = s /\ x = w) => words'[t][x] = words[t][x]
  BY <1>1, <1>2, <1>3, OneCell DEF WordsTyped
<1>5. \A t \in Side, x \in WordIndexes : words'[t][x] \subseteq words[t][x]
  BY <1>3, <1>4
<1>6. \A t \in Side, x \in SummaryIndexes : summary'[t][x] \subseteq summary[t][x]
  <2>1. CASE summary' = [summary EXCEPT ![s][v] = sm]
    <3>1. /\ summary'[s][v] = sm
          /\ \A t \in Side, x \in SummaryIndexes :
                ~(t = s /\ x = v) => summary'[t][x] = summary[t][x]
      BY <1>1, <1>3, <2>1, OneCell DEF WordsTyped
    <3>. QED  BY <1>3, <3>1
  <2>2. CASE summary' = summary
    BY <2>2
  <2>. QED  BY <1>2, <2>1, <2>2
<1>. QED  BY <1>5, <1>6 DEF BitsPlaced

\* The index of an order's level.
LEMMA IndexIn ==
    ASSUME NEW p \in Price
    PROVE  Bitset!Index(p) \in Indexes
  BY BandFacts

\* So the bits stay in place.
LEMMA StillPlaced ==
    ASSUME ListInv, WordsTyped, BitsPlaced, [Next]_vars
    PROVE  BitsPlaced'
<1>1. CASE UNCHANGED <<words, summary>>
  BY <1>1 DEF BitsPlaced
<1>2. ASSUME NEW o \in Slot, NEW r \in Offers, Rest(o, r) PROVE BitsPlaced'
  <2>1. r.side \in Side /\ Bitset!Index(r.price) \in Indexes
    BY OfferTypes, IndexIn
  <2>2. Bitset!SetBit(r.side, Bitset!Index(r.price)) \/ UNCHANGED <<words, summary>>
    BY <1>2 DEF Rest, Bitset!AddOrder
  <2>. QED  BY <1>1, <2>1, <2>2, PlacedSet
<1>3. ASSUME NEW o \in Slot, Leave(o) PROVE BitsPlaced'
  <2>1. order[o] \in Holding /\ order[o].price \in Price
    BY <1>3, SlotGiven DEF ListInv, SlotsInv
  <2>2. order[o].side \in Side /\ Bitset!Index(order[o].price) \in Indexes
    BY <2>1, IndexIn DEF Holding
  <2>3. Bitset!ClearBit(order[o].side, Bitset!Index(order[o].price)) \/ UNCHANGED <<words, summary>>
    BY <1>3 DEF Leave, Bitset!RemoveOrder
  <2>. QED  BY <1>1, <2>2, <2>3, PlacedCleared
<1>4. ASSUME NEW o \in Slot, NEW traded \in Sizes, Reduce(o, traded) PROVE BitsPlaced'
  BY <1>1, <1>4 DEF Reduce, Bitset!ReduceInPlace
<1>5. CASE UNCHANGED vars
  BY <1>1, <1>5 DEF vars, Bitset!vars
<1>. QED  BY <1>2, <1>3, <1>4, <1>5 DEF Next

\* No bit is one at the start.
LEMMA PlacedInit ==
    ASSUME Init
    PROVE  BitsPlaced
<1>1. /\ words = [s \in Side |-> [w \in WordIndexes |-> {}]]
      /\ summary = [s \in Side |-> [v \in SummaryIndexes |-> {}]]
  BY SameBitset DEF Init, Bitset!Init, WordIndexes, SummaryIndexes
<1>. QED  BY <1>1 DEF BitsPlaced

\* The bits of a step: ScanInv holds with the lists and in every reachable state.
ScanInv == BitsInv /\ BitsPlaced
LEMMA ScansHold == Spec => []ScanInv
<1>1. Init => ScanInv
  BY BitsInit, PlacedInit DEF ScanInv
<1>2. ListInv /\ ScanInv /\ [Next]_vars => ScanInv'
  <2> SUFFICES ASSUME ListInv, ScanInv, [Next]_vars PROVE ScanInv'
    OBVIOUS
  <2>1. BitsPlaced'
    BY StillPlaced DEF ScanInv, BitsInv
  <2>2. CASE UNCHANGED vars
    <3>1. UNCHANGED <<level, words, summary>>
      BY <2>2 DEF vars, Bitset!vars
    <3>2. BitsInv'
      BY <3>1 DEF ScanInv, BitsInv, WordsTyped, BitsTrue, SummaryTrue, PricesTrue
    <3>. QED  BY <2>1, <3>2 DEF ScanInv
  <2>3. CASE Next
    <3>1. BitsInv'
      BY <2>3, BitsRest, BitsLeave, BitsReduce DEF Next, ScanInv
    <3>. QED  BY <2>1, <3>1 DEF ScanInv
  <2>. QED  BY <2>2, <2>3
<1>. QED  BY <1>1, <1>2, ListsHold, PTL DEF Spec

\* A bit is one exactly when its price is occupied.
LEMMA TestBitIs ==
    ASSUME ListInv, ScanInv, NEW s \in Side, NEW i \in Indexes
    PROVE  /\ Bitset!TestBit(s, i) <=> i % Bits \in words[s][i \div Bits]
           /\ Bitset!TestBit(s, i) <=> i + MinPrice \in Queues!Occupied(s)
<1>1. Bitset!TestBit(s, i) <=> i % Bits \in words[s][i \div Bits]
  BY DEF Bitset!TestBit
<1>2. i % Bits \in words[s][i \div Bits] <=> level[s][i].head # Null
  BY DEF ScanInv, BitsInv, BitsTrue
<1>3. PICK p : p = i + MinPrice
  OBVIOUS
<1>4. p \in Price /\ p - MinPrice = i
  BY <1>3, BandFacts
<1>5. level[s][i].head = Null <=> Len(Bitset!Queue[s][p]) = 0
  <2>1. BitLevels[s][p] = level[s][i]
    BY <1>4, BitLevelIs
  <2>2. BitLevels[s][p].head = Null <=> Len(Bitset!Queue[s][p]) = 0
    BY <1>4, ListMeans DEF ListInv
  <2>. QED  BY <2>1, <2>2
<1>6. p \in Queues!Occupied(s) <=> Len(Bitset!Queue[s][p]) # 0
  BY <1>4, OccupiedIs
<1>. QED  BY <1>1, <1>2, <1>3, <1>5, <1>6

\* What is lower is in a lower group, or lower in the same.
LEMMA GroupOrder ==
    ASSUME NEW b \in Nat \ {0}, NEW i \in Int, NEW j \in Int, j <= i
    PROVE  j \div b <= i \div b /\ (j \div b = i \div b => j % b <= i % b)
<1> DEFINE d == i \div b
           r == i % b
           e == j \div b
           t == j % b
<1>1. d \in Int /\ r \in 0..(b - 1) /\ i = b * d + r
  BY GroupOf
<1>2. e \in Int /\ t \in 0..(b - 1) /\ j = b * e + t
  BY GroupOf
<1> HIDE DEF d, r, e, t
<1> DEFINE x == b * d
           y == b * e
<1>3. x \in Int /\ y \in Int /\ i = x + r /\ j = y + t
  BY <1>1, <1>2
<1>4. ASSUME d < e PROVE FALSE
  <2>1. x + b <= y
    BY <1>1, <1>2, <1>4, LargerMultiple
  <2> HIDE DEF x, y
  <2>. QED  BY <1>1, <1>2, <1>3, <2>1
<1>5. ASSUME e = d PROVE t <= r
  <2>1. x = y
    BY <1>5
  <2> HIDE DEF x, y
  <2>. QED  BY <1>1, <1>2, <1>3, <2>1
<1>6. e <= d
  BY <1>1, <1>2, <1>4
<1>. QED  BY <1>5, <1>6 DEF d, r, e, t

\* Words and summary words with a one bit in them.
LEMMA BusyWords ==
    ASSUME ScanInv, NEW s \in Side
    PROVE  /\ \A w \in WordIndexes : \A b \in words[s][w] :
                 \E j \in Indexes : Bitset!TestBit(s, j) /\ w = j \div Bits /\ b = j % Bits
           /\ \A v \in SummaryIndexes : \A c \in summary[s][v] :
                 \E w \in WordIndexes : words[s][w] # {} /\ v = w \div Bits /\ c = w % Bits
           /\ \A j \in Indexes : Bitset!TestBit(s, j) =>
                 /\ j \div Bits \in WordIndexes /\ j % Bits \in words[s][j \div Bits]
                 /\ (j \div Bits) \div Bits \in SummaryIndexes
                 /\ (j \div Bits) % Bits \in summary[s][(j \div Bits) \div Bits]
           /\ DOMAIN summary[s] = SummaryIndexes
<1>1. /\ \A w \in WordIndexes : \A b \in words[s][w] :
            \E i \in Indexes : w = i \div Bits /\ b = i % Bits
      /\ \A v \in SummaryIndexes : \A c \in summary[s][v] :
            \E w \in WordIndexes : v = w \div Bits /\ c = w % Bits
  BY DEF ScanInv, BitsPlaced
<1>2. \A w \in WordIndexes : w % Bits \in summary[s][w \div Bits] <=> words[s][w] # {}
  BY DEF ScanInv, BitsInv, SummaryTrue
<1>3. \A j : Bitset!TestBit(s, j) <=> j % Bits \in words[s][j \div Bits]
  BY DEF Bitset!TestBit
<1>4. \A j \in Indexes : Bitset!TestBit(s, j) =>
         /\ j \div Bits \in WordIndexes /\ j % Bits \in words[s][j \div Bits]
         /\ (j \div Bits) \div Bits \in SummaryIndexes
         /\ (j \div Bits) % Bits \in summary[s][(j \div Bits) \div Bits]
  <2> SUFFICES ASSUME NEW j \in Indexes, Bitset!TestBit(s, j)
               PROVE  /\ j \div Bits \in WordIndexes /\ j % Bits \in words[s][j \div Bits]
                      /\ (j \div Bits) \div Bits \in SummaryIndexes
                      /\ (j \div Bits) % Bits \in summary[s][(j \div Bits) \div Bits]
    OBVIOUS
  <2>1. PICK w : w = j \div Bits
    OBVIOUS
  <2>2. w \in WordIndexes /\ j % Bits \in words[s][w]
    BY <1>3, <2>1, BitFacts
  <2>3. w \div Bits \in SummaryIndexes /\ w % Bits \in summary[s][w \div Bits]
    BY <1>2, <2>2, BitFacts
  <2>. QED  BY <2>1, <2>2, <2>3
<1>5. DOMAIN summary[s] = SummaryIndexes
  BY DEF ScanInv, BitsInv, WordsTyped
<1>. QED  BY <1>1, <1>2, <1>3, <1>4, <1>5

\* The greatest and the least of a set of numbers.
LEMMA BitsetMax ==
    ASSUME NEW S, S \subseteq Int, NEW x \in S
    PROVE  /\ (\A y \in S : y <= x) => Bitset!Max(S) = x
           /\ (\A y \in S : x <= y) => Bitset!Min(S) = x
<1>1. ASSUME \A y \in S : y <= x PROVE Bitset!Max(S) = x
  <2> DEFINE P(z) == \A y \in S : z >= y
  <2>1. P(x) /\ \A z \in S : P(z) => z = x
    BY <1>1
  <2> HIDE DEF P
  <2>2. (CHOOSE z \in S : P(z)) = x
    BY <2>1
  <2>. QED  BY <2>2, Zenon DEF Bitset!Max, P
<1>2. ASSUME \A y \in S : x <= y PROVE Bitset!Min(S) = x
  <2> DEFINE P(z) == \A y \in S : z <= y
  <2>1. P(x) /\ \A z \in S : P(z) => z = x
    BY <1>2
  <2> HIDE DEF P
  <2>2. (CHOOSE z \in S : P(z)) = x
    BY <2>1
  <2>. QED  BY <2>2, Zenon DEF Bitset!Min, P
<1>. QED  BY <1>1, <1>2

\* Factors may change places.
LEMMA Swap ==
    ASSUME NEW a \in Int, NEW b \in Int
    PROVE  a * b = b * a
  BY Z3

\* Where a level's bit is, put together again.
LEMMA BitSum ==
    ASSUME NEW i \in Indexes
    PROVE  /\ (i \div Bits) * Bits + (i % Bits) = i
           /\ ((i \div Bits) \div Bits) * Bits + ((i \div Bits) % Bits) = i \div Bits
<1>1. ASSUME NEW a \in Int PROVE (a \div Bits) * Bits + (a % Bits) = a
  <2>1. a \div Bits \in Int /\ a % Bits \in Int /\ a = Bits * (a \div Bits) + (a % Bits) /\ Bits \in Int
    <3>1. a \div Bits \in Int /\ a % Bits \in 0..(Bits - 1) /\ a = Bits * (a \div Bits) + (a % Bits)
      BY BitFacts, GroupOf
    <3>. QED  BY <3>1, BitFacts
  <2> DEFINE d == a \div Bits
             r == a % Bits
  <2>2. d \in Int /\ r \in Int /\ Bits \in Int /\ a = Bits * d + r
    BY <2>1
  <2> HIDE DEF d, r
  <2>3. d * Bits = Bits * d
    BY <2>2, Swap
  <2>4. d * Bits + r = a
    BY <2>2, <2>3
  <2>. QED  BY <2>4 DEF d, r
<1>2. i \in Int /\ i \div Bits \in Int
  BY BitFacts
<1>. QED  BY <1>1, <1>2

\* The scan from the top (highest_set) finds the highest level with an order.
LEMMA TopScan ==
    ASSUME ScanInv, NEW s \in Side, NEW i \in Indexes, Bitset!TestBit(s, i),
           \A j \in Indexes : Bitset!TestBit(s, j) => j <= i
    PROVE  Bitset!HighestSet(s) = i
<1> DEFINE w == i \div Bits
           v == w \div Bits
           busy == {y \in DOMAIN summary[s] : summary[s][y] # {}}
<1>1. /\ w \in WordIndexes /\ i % Bits \in words[s][w]
      /\ v \in SummaryIndexes /\ w % Bits \in summary[s][v]
  BY BusyWords
<1>2. Bits \in Nat \ {0} /\ i \in Int /\ w \in Int /\ v \in Int
  BY <1>1, BitFacts
<1>3. ASSUME NEW x \in WordIndexes, NEW b \in words[s][x]
      PROVE  x <= w /\ (x = w => b <= i % Bits)
  <2>1. PICK j \in Indexes : Bitset!TestBit(s, j) /\ x = j \div Bits /\ b = j % Bits
    BY BusyWords
  <2>2. j <= i /\ j \in Int
    BY <2>1, BitFacts
  <2>. QED  BY <1>2, <2>1, <2>2, GroupOrder
<1>4. ASSUME NEW y \in SummaryIndexes, NEW c \in summary[s][y]
      PROVE  y <= v /\ (y = v => c <= w % Bits)
  <2>1. PICK x \in WordIndexes : words[s][x] # {} /\ y = x \div Bits /\ c = x % Bits
    BY BusyWords
  <2>2. x <= w /\ x \in Int
    BY <1>3, <2>1, BitFacts
  <2>. QED  BY <1>2, <2>1, <2>2, GroupOrder
<1> HIDE DEF w, v
<1>5. Bitset!Max(busy) = v
  <2>1. busy \subseteq SummaryIndexes /\ v \in busy /\ \A y \in busy : y <= v
    BY <1>1, <1>4, BusyWords
  <2>2. busy \subseteq Int
    BY <2>1 DEF SummaryIndexes
  <2> HIDE DEF busy
  <2>. QED  BY <2>1, <2>2, BitsetMax
<1>6. Bitset!HighBit(summary[s][v]) = w % Bits
  <2>1. summary[s][v] \subseteq Int
    BY <1>1 DEF ScanInv, BitsInv, WordsTyped
  <2>2. Bitset!Max(summary[s][v]) = w % Bits
    BY <1>1, <1>4, <2>1, BitsetMax
  <2>. QED  BY <1>1, <2>2 DEF Bitset!HighBit
<1>7. Bitset!HighBit(words[s][w]) = i % Bits
  <2>1. words[s][w] \subseteq Int
    BY <1>1 DEF ScanInv, BitsInv, WordsTyped
  <2>2. Bitset!Max(words[s][w]) = i % Bits
    BY <1>1, <1>3, <2>1, BitsetMax
  <2>. QED  BY <1>1, <2>2 DEF Bitset!HighBit
<1>8. v * Bits + (w % Bits) = w /\ w * Bits + (i % Bits) = i
  BY BitSum DEF w, v
<1>9. busy # {}
  BY <1>1, BusyWords
<1> HIDE DEF busy
<1> DEFINE u == Bitset!Max(busy) * Bits + Bitset!HighBit(summary[s][Bitset!Max(busy)])
<1>10. u = w
  BY <1>5, <1>6, <1>8, Zenon DEF u
<1>11. Bitset!HighestSet(s) = IF busy = {} THEN -1 ELSE u * Bits + Bitset!HighBit(words[s][u])
  BY DEF Bitset!HighestSet, busy
<1> HIDE DEF u
<1>. QED  BY <1>7, <1>8, <1>9, <1>10, <1>11, Zenon

\* The scan from the bottom (lowest_set) finds the lowest.
LEMMA BottomScan ==
    ASSUME ScanInv, NEW s \in Side, NEW i \in Indexes, Bitset!TestBit(s, i),
           \A j \in Indexes : Bitset!TestBit(s, j) => i <= j
    PROVE  Bitset!LowestSet(s) = i
<1> DEFINE w == i \div Bits
           v == w \div Bits
           busy == {y \in DOMAIN summary[s] : summary[s][y] # {}}
<1>1. /\ w \in WordIndexes /\ i % Bits \in words[s][w]
      /\ v \in SummaryIndexes /\ w % Bits \in summary[s][v]
  BY BusyWords
<1>2. Bits \in Nat \ {0} /\ i \in Int /\ w \in Int /\ v \in Int
  BY <1>1, BitFacts
<1>3. ASSUME NEW x \in WordIndexes, NEW b \in words[s][x]
      PROVE  w <= x /\ (x = w => i % Bits <= b)
  <2>1. PICK j \in Indexes : Bitset!TestBit(s, j) /\ x = j \div Bits /\ b = j % Bits
    BY BusyWords
  <2>2. i <= j /\ j \in Int
    BY <2>1, BitFacts
  <2>. QED  BY <1>2, <2>1, <2>2, GroupOrder
<1>4. ASSUME NEW y \in SummaryIndexes, NEW c \in summary[s][y]
      PROVE  v <= y /\ (y = v => w % Bits <= c)
  <2>1. PICK x \in WordIndexes : words[s][x] # {} /\ y = x \div Bits /\ c = x % Bits
    BY BusyWords
  <2>2. w <= x /\ x \in Int
    BY <1>3, <2>1, BitFacts
  <2>. QED  BY <1>2, <2>1, <2>2, GroupOrder
<1> HIDE DEF w, v
<1>5. Bitset!Min(busy) = v
  <2>1. busy \subseteq SummaryIndexes /\ v \in busy /\ \A y \in busy : v <= y
    BY <1>1, <1>4, BusyWords
  <2>2. busy \subseteq Int
    BY <2>1 DEF SummaryIndexes
  <2> HIDE DEF busy
  <2>. QED  BY <2>1, <2>2, BitsetMax
<1>6. Bitset!LowBit(summary[s][v]) = w % Bits
  <2>1. summary[s][v] \subseteq Int
    BY <1>1 DEF ScanInv, BitsInv, WordsTyped
  <2>2. Bitset!Min(summary[s][v]) = w % Bits
    BY <1>1, <1>4, <2>1, BitsetMax
  <2>. QED  BY <1>1, <2>2 DEF Bitset!LowBit
<1>7. Bitset!LowBit(words[s][w]) = i % Bits
  <2>1. words[s][w] \subseteq Int
    BY <1>1 DEF ScanInv, BitsInv, WordsTyped
  <2>2. Bitset!Min(words[s][w]) = i % Bits
    BY <1>1, <1>3, <2>1, BitsetMax
  <2>. QED  BY <1>1, <2>2 DEF Bitset!LowBit
<1>8. v * Bits + (w % Bits) = w /\ w * Bits + (i % Bits) = i
  BY BitSum DEF w, v
<1>9. busy # {}
  BY <1>1, BusyWords
<1> HIDE DEF busy
<1> DEFINE u == Bitset!Min(busy) * Bits + Bitset!LowBit(summary[s][Bitset!Min(busy)])
<1>10. u = w
  BY <1>5, <1>6, <1>8, Zenon DEF u
<1>11. Bitset!LowestSet(s) = IF busy = {} THEN -1 ELSE u * Bits + Bitset!LowBit(words[s][u])
  BY DEF Bitset!LowestSet, busy
<1> HIDE DEF u
<1>. QED  BY <1>7, <1>8, <1>9, <1>10, <1>11, Zenon

\* And neither finds any when there is none.
LEMMA NoScan ==
    ASSUME ScanInv, NEW s \in Side, \A j \in Indexes : ~Bitset!TestBit(s, j)
    PROVE  Bitset!HighestSet(s) = -1 /\ Bitset!LowestSet(s) = -1
<1>1. \A x \in WordIndexes : words[s][x] = {}
  BY BusyWords
<1>2. \A y \in SummaryIndexes : summary[s][y] = {}
  BY <1>1, BusyWords
<1>3. {y \in DOMAIN summary[s] : summary[s][y] # {}} = {}
  BY <1>2, BusyWords
<1>. QED  BY <1>3 DEF Bitset!HighestSet, Bitset!LowestSet

\* The index of the k-th price of a row.
Place(s, k) == Row(s)[k] - MinPrice

\* The one bits are those of the rows, in their order.
LEMMA ListedBits ==
    ASSUME ListInv, VecInv, ScanInv, NEW s \in Side
    PROVE  /\ Len(nodes[s]) \in Nat
           /\ \A k \in 1..Len(nodes[s]) :
                 Place(s, k) \in Indexes /\ Place(s, k) \in Nat /\ Bitset!TestBit(s, Place(s, k))
           /\ \A j \in Indexes : Bitset!TestBit(s, j) => \E k \in 1..Len(nodes[s]) : Place(s, k) = j
           /\ \A j, k \in 1..Len(nodes[s]) : j < k =>
                 IF s = "Buy" THEN Place(s, k) < Place(s, j) ELSE Place(s, j) < Place(s, k)
<1> DEFINE n == Len(nodes[s])
<1>1. /\ n \in Nat /\ \A k \in 1..n : Row(s)[k] \in Price /\ Row(s)[k] \in Queues!Occupied(s)
      /\ \A p \in Queues!Occupied(s) : \E k \in 1..n : Row(s)[k] = p
      /\ \A j, k \in 1..n : j < k => Better(s, Row(s)[j], Row(s)[k])
  BY RowLists DEF Lists
<1>2. ASSUME NEW k \in 1..n
      PROVE  Place(s, k) \in Indexes /\ Place(s, k) \in Nat /\ Bitset!TestBit(s, Place(s, k))
  <2>1. PICK p : p = Row(s)[k]
    OBVIOUS
  <2>2. /\ p \in Price /\ p \in Queues!Occupied(s) /\ p - MinPrice \in Indexes
        /\ p - MinPrice \in Nat /\ (p - MinPrice) + MinPrice = p
    BY <1>1, <2>1, PriceAssumption, BandFacts DEF Price
  <2>3. Bitset!TestBit(s, p - MinPrice)
    BY <2>2, TestBitIs
  <2>. QED  BY <2>1, <2>2, <2>3 DEF Place
<1>3. ASSUME NEW j \in Indexes, Bitset!TestBit(s, j) PROVE \E k \in 1..n : Place(s, k) = j
  <2>1. j + MinPrice \in Queues!Occupied(s) /\ (j + MinPrice) - MinPrice = j
    BY <1>3, TestBitIs, BandFacts
  <2>2. PICK k \in 1..n : Row(s)[k] = j + MinPrice
    BY <1>1, <2>1
  <2>. QED  BY <2>1, <2>2 DEF Place
<1>4. ASSUME NEW j \in 1..n, NEW k \in 1..n, j < k
      PROVE  IF s = "Buy" THEN Place(s, k) < Place(s, j) ELSE Place(s, j) < Place(s, k)
  <2>1. PICK p, q : p = Row(s)[j] /\ q = Row(s)[k]
    OBVIOUS
  <2>2. p \in Int /\ q \in Int /\ MinPrice \in Int
    BY <1>1, <2>1, BandFacts
  <2>3. Better(s, p, q)
    BY <1>1, <1>4, <2>1
  <2>4. Place(s, j) = p - MinPrice /\ Place(s, k) = q - MinPrice
    BY <2>1 DEF Place
  <2>. QED  BY <2>2, <2>3, <2>4 DEF Better
<1>. QED  BY <1>1, <1>2, <1>3, <1>4

\* Best first: no later price is higher on the bid side, lower on the ask side.
LEMMA PlacesFollow ==
    ASSUME ListInv, VecInv, ScanInv, NEW s \in Side,
           NEW j \in 1..Len(nodes[s]), NEW k \in 1..Len(nodes[s])
    PROVE  /\ s = "Buy" => (Place(s, k) < Place(s, j) <=> j < k)
           /\ s # "Buy" => (Place(s, j) < Place(s, k) <=> j < k)
<1>1. /\ Len(nodes[s]) \in Nat /\ Place(s, j) \in Nat /\ Place(s, k) \in Nat
      /\ j < k => IF s = "Buy" THEN Place(s, k) < Place(s, j) ELSE Place(s, j) < Place(s, k)
      /\ k < j => IF s = "Buy" THEN Place(s, j) < Place(s, k) ELSE Place(s, k) < Place(s, j)
  BY ListedBits
<1>. QED  BY <1>1

\* best_bid, best_ask: the first of the row, or none.
LEMMA BestPlace ==
    ASSUME ListInv, VecInv, ScanInv, NEW s \in Side
    PROVE  Bitset!BestIndex(s) = IF Len(nodes[s]) = 0 THEN -1 ELSE Place(s, 1)
<1> DEFINE n == Len(nodes[s])
<1>1. n \in Nat
  BY ListedBits
<1>2. CASE n = 0
  <2>1. \A j \in Indexes : ~Bitset!TestBit(s, j)
    BY <1>2, ListedBits
  <2>2. Bitset!HighestSet(s) = -1 /\ Bitset!LowestSet(s) = -1
    BY <2>1, NoScan
  <2>. QED  BY <1>2, <2>2 DEF Bitset!BestIndex
<1>3. CASE n # 0
  <2> DEFINE i == Place(s, 1)
  <2>1. 1 \in 1..n
    BY <1>1, <1>3
  <2>2. i \in Indexes /\ i \in Nat /\ Bitset!TestBit(s, i)
    BY <2>1, ListedBits
  <2>3. ASSUME NEW j \in Indexes, Bitset!TestBit(s, j)
        PROVE  IF s = "Buy" THEN j <= i ELSE i <= j
    <3>1. PICK k \in 1..n : Place(s, k) = j
      BY <2>3, ListedBits
    <3>2. ~(k < 1) /\ j \in Nat
      BY <1>1, <3>1, ListedBits
    <3>3. /\ s = "Buy" => (Place(s, 1) < Place(s, k) <=> k < 1)
          /\ s # "Buy" => (Place(s, k) < Place(s, 1) <=> k < 1)
      BY <2>1, PlacesFollow
    <3>. QED  BY <2>2, <3>1, <3>2, <3>3
  <2> HIDE DEF i
  <2>4. IF s = "Buy" THEN Bitset!HighestSet(s) = i ELSE Bitset!LowestSet(s) = i
    BY <2>2, <2>3, TopScan, BottomScan
  <2>. QED  BY <1>3, <2>4 DEF Bitset!BestIndex, i
<1>. QED  BY <1>2, <1>3

\* next_level_toward_mid: the next of the row, or none.
LEMMA NextPlace ==
    ASSUME ListInv, VecInv, ScanInv, NEW s \in Side, NEW k \in 1..Len(nodes[s])
    PROVE  Bitset!NextIndex(s, Place(s, k)) = IF k = Len(nodes[s]) THEN -1 ELSE Place(s, k + 1)
<1> DEFINE n == Len(nodes[s])
           i == Place(s, k)
           worse == {j \in Indexes : Bitset!TestBit(s, j) /\ Bitset!Better(s, i, j)}
<1>1. n \in Nat /\ i \in Nat
  BY ListedBits
<1>2. \A j : Bitset!Better(s, i, j) <=> IF s = "Buy" THEN i > j ELSE i < j
  BY DEF Bitset!Better
<1>3. ASSUME NEW x \in 1..n PROVE Place(s, x) \in worse <=> k < x
  <2>1. Place(s, x) \in Indexes /\ Bitset!TestBit(s, Place(s, x)) /\ Place(s, x) \in Nat
    BY ListedBits
  <2>2. /\ s = "Buy" => (Place(s, x) < i <=> k < x)
        /\ s # "Buy" => (i < Place(s, x) <=> k < x)
    BY PlacesFollow
  <2>. QED  BY <1>1, <1>2, <2>1, <2>2
<1>4. \A j \in worse : \E x \in 1..n : Place(s, x) = j
  BY ListedBits
<1>5. worse \subseteq Int
  BY BandFacts
<1>6. Bitset!NextIndex(s, i) = IF i = -1 \/ worse = {} THEN -1
                               ELSE IF s = "Buy" THEN Bitset!Max(worse) ELSE Bitset!Min(worse)
  BY DEF Bitset!NextIndex, Indexes
<1> HIDE DEF worse
<1>7. CASE k = n
  <2>1. worse = {}
    BY <1>1, <1>3, <1>4, <1>7
  <2>. QED  BY <1>6, <1>7, <2>1
<1>8. CASE k # n
  <2> DEFINE m == Place(s, k + 1)
  <2>1. k + 1 \in 1..n /\ k < k + 1
    BY <1>1, <1>8
  <2>2. m \in worse /\ m \in Nat
    BY <1>3, <2>1, ListedBits
  <2>3. ASSUME NEW j \in worse PROVE IF s = "Buy" THEN j <= m ELSE m <= j
    <3>1. PICK x \in 1..n : Place(s, x) = j
      BY <1>4
    <3>2. k < x /\ j \in Nat
      BY <1>3, <3>1, ListedBits
    <3>3. ~(x < k + 1)
      BY <1>1, <2>1, <3>2
    <3>4. /\ s = "Buy" => (Place(s, k + 1) < Place(s, x) <=> x < k + 1)
          /\ s # "Buy" => (Place(s, x) < Place(s, k + 1) <=> x < k + 1)
      BY <2>1, PlacesFollow
    <3>. QED  BY <2>2, <3>1, <3>2, <3>3, <3>4
  <2> HIDE DEF m
  <2>4. IF s = "Buy" THEN Bitset!Max(worse) = m ELSE Bitset!Min(worse) = m
    BY <1>5, <2>2, <2>3, BitsetMax
  <2>5. i # -1 /\ worse # {}
    BY <1>1, <2>2
  <2>. QED  BY <1>6, <1>8, <2>4, <2>5 DEF m
<1>. QED  BY <1>7, <1>8

\* A row is no longer than the band.
LEMMA RowFits ==
    ASSUME ListInv, VecInv, NEW s \in Side
    PROVE  Len(nodes[s]) \in Nat /\ Bitset!Span \in Nat /\ Len(nodes[s]) <= Bitset!Span
<1>1. /\ Queues!Occupied(s) \subseteq Price
      /\ Cardinality(Queues!Occupied(s)) = Len(nodes[s])
  BY OccupiedIs, RowLists, BestFirstIs
<1>2. IsFiniteSet(Price) /\ Cardinality(Price) = Bitset!Span
  <2>1. MinPrice \in Int /\ MaxPrice \in Int /\ MinPrice <= MaxPrice
    BY PriceAssumption
  <2>2. /\ IsFiniteSet(MinPrice..MaxPrice)
        /\ Cardinality(MinPrice..MaxPrice) = IF MinPrice > MaxPrice THEN 0 ELSE MaxPrice - MinPrice + 1
    BY <2>1, FS_Interval
  <2>. QED  BY <2>1, <2>2 DEF Price, Bitset!Span
<1>3. Cardinality(Queues!Occupied(s)) <= Cardinality(Price)
  BY <1>1, <1>2, FS_Subset
<1>. QED  BY <1>1, <1>2, <1>3, RowLists, BandFacts

\* Following next_level_toward_mid from the best visits the row, and then nothing.
LEMMA BitsetLevels ==
    ASSUME BookInv, VecInv, ScanInv, NEW s \in Side
    PROVE  Bitset!Levels(s) = Queues!Levels(s)
<1> DEFINE n == Len(nodes[s])
           m == Bitset!Span
           step(f, k) == IF k = 1 THEN Bitset!BestIndex(s) ELSE Bitset!NextIndex(s, f[k - 1])
           at[k \in 1..m] == IF k = 1 THEN Bitset!BestIndex(s) ELSE Bitset!NextIndex(s, at[k - 1])
           h == [k \in 1..m |-> IF k <= n THEN Place(s, k) ELSE -1]
<1>0. ListInv /\ Holds(BitLevels, bitLinks, Bitset!Queue) /\ Sized(BitLevels, Bitset!Queue, Open)
  BY DEF BookInv, ListInv
<1>1. n \in Nat /\ m \in Nat /\ n <= m
  BY <1>0, RowFits
<1>2. Bitset!Levels(s) = [k \in 1..Bitset!Cardinality({k \in 1..m : at[k] # -1}) |-> level[s][at[k]]]
  BY Zenon DEF Bitset!Levels
<1>3. \A S : Bitset!Cardinality(S) = Cardinality(S)
  BY Zenon DEF Bitset!Cardinality, Cardinality
<1>4. /\ \A k \in 1..n : Place(s, k) \in Nat
      /\ Bitset!BestIndex(s) = IF n = 0 THEN -1 ELSE Place(s, 1)
      /\ \A k \in 1..n : Bitset!NextIndex(s, Place(s, k)) = IF k = n THEN -1 ELSE Place(s, k + 1)
      /\ Bitset!NextIndex(s, -1) = -1
  BY <1>0, ListedBits, BestPlace, NextPlace DEF Bitset!NextIndex
<1>5. \A k \in 1..m : h[k] = (IF k <= n THEN Place(s, k) ELSE -1)
  OBVIOUS
<1> HIDE DEF n, m
<1>6. ASSUME NEW k \in 1..m PROVE h[k] = step(h, k)
  <2>1. CASE k = 1
    BY <1>1, <1>4, <1>5, <2>1
  <2>2. CASE k # 1
    <3>1. k - 1 \in 1..m /\ (k - 1) + 1 = k
      BY <1>1, <2>2
    <3>2. PICK j : j = k - 1
      OBVIOUS
    <3>3. j \in 1..m /\ j + 1 = k
      BY <3>1, <3>2
    <3>4. CASE j <= n
      <4>1. j \in 1..n /\ h[j] = Place(s, j)
        BY <1>1, <1>5, <3>3, <3>4
      <4>2. Bitset!NextIndex(s, h[j]) = IF j = n THEN -1 ELSE Place(s, k)
        BY <1>4, <3>3, <4>1
      <4>3. h[k] = IF j = n THEN -1 ELSE Place(s, k)
        BY <1>1, <1>5, <3>3, <3>4
      <4>. QED  BY <2>2, <3>2, <4>2, <4>3
    <3>5. CASE ~(j <= n)
      <4>1. h[j] = -1 /\ h[k] = -1
        BY <1>1, <1>5, <3>3, <3>5
      <4>. QED  BY <1>4, <2>2, <3>2, <4>1
    <3>. QED  BY <3>4, <3>5
  <2>. QED  BY <2>1, <2>2
<1>7. h = [k \in 1..m |-> step(h, k)]
  <2>1. h = [k \in 1..m |-> h[k]]
    OBVIOUS
  <2> HIDE DEF h, step
  <2>. QED  BY <1>6, <2>1
<1>8. at = [k \in 1..m |-> step(at, k)]
  BY <1>7
<1> HIDE DEF at, h
<1>9. \A k \in 1..m : at[k] = step(at, k) /\ h[k] = step(h, k)
  BY <1>6, <1>8
<1>10. \A k \in 1..m : at[k] = h[k]
  <2> DEFINE T == {k \in 1..m : at[k] # h[k]}
  <2>1. CASE T = {}
    BY <2>1
  <2>2. CASE T # {}
    <3>0. T \subseteq Nat
      BY <1>1
    <3>1. PICK k \in T : \A j \in T : k <= j
      BY <2>2, <3>0, LeastNat
    <3>2. k \in 1..m /\ at[k] # h[k]
      OBVIOUS
    <3>3. k # 1
      BY <1>9, <3>2
    <3>4. k - 1 \in 1..m /\ ~(k <= k - 1)
      BY <1>1, <3>2, <3>3
    <3>5. at[k - 1] = h[k - 1]
      BY <3>1, <3>4
    <3> HIDE DEF T
    <3>. QED  BY <1>9, <3>2, <3>3, <3>5
  <2>. QED  BY <2>1, <2>2
<1>11. \A k \in 1..n : k \in 1..m /\ at[k] = Place(s, k)
  BY <1>1, <1>5, <1>10
<1>12. {k \in 1..m : at[k] # -1} = 1..n
  BY <1>1, <1>4, <1>5, <1>10
<1>13. Cardinality(1..n) = n
  <2>1. Cardinality(1..n) = IF 1 > n THEN 0 ELSE n - 1 + 1
    BY <1>1, FS_Interval
  <2>. QED  BY <1>1, <2>1
<1>14. Bitset!Levels(s) = [k \in 1..n |-> level[s][at[k]]]
  BY <1>2, <1>3, <1>12, <1>13
<1>15. \A k \in 1..n : level[s][at[k]] = BitLevels[s][Row(s)[k]]
  BY <1>0, <1>11, RowLists, BitLevelIs DEF Place, n
<1>16. Bitset!Levels(s) = [k \in 1..n |-> BitLevels[s][Row(s)[k]]]
  BY <1>14, <1>15, Zenon
<1>. QED  BY <1>0, <1>16, LevelsFollow DEF n

-----------------------------------------------------------------------------
(* The answers.                                                             *)

\* level_at of each book.
LEMMA AtPrice ==
    ASSUME BookInv, VecInv, ScanInv, NEW s \in Side, NEW p \in Price,
           NEW a, a = IF Bitset!Queue[s][p] = <<>> THEN NoPrice ELSE p
    PROVE  Bitset!LevelAt(s, p) = a /\ Map!LevelAt(s, p) = a /\ Vector!LevelAt(s, p) = a
<1>0. /\ ListInv /\ MapInv
      /\ Holds(BitLevels, bitLinks, Bitset!Queue) /\ Sized(BitLevels, Bitset!Queue, Open)
      /\ Holds(MapLevels, mapLinks, Bitset!Queue) /\ Sized(MapLevels, Bitset!Queue, Open)
  BY DEF BookInv, ListInv, MapInv
<1>1. Bitset!Queue[s][p] \in Seq(Slot)
  BY <1>0 DEF Holds
<1>2. a = IF Len(Bitset!Queue[s][p]) = 0 THEN NoPrice ELSE p
  BY <1>1, EmptySeq
<1>3. Bitset!LevelAt(s, p) = a
  <2>1. BitLevels[s][p] = level[s][p - MinPrice] /\ Bitset!Index(p) = p - MinPrice
    BY BitLevelIs, BandFacts
  <2>2. Bitset!IsEmpty(BitLevels[s][p]) <=> Len(Bitset!Queue[s][p]) = 0
    BY <1>0, ListMeans, SameBitset DEF IsEmpty
  <2>3. Len(Bitset!Queue[s][p]) # 0 => BitLevels[s][p].price = p
    BY <1>0 DEF Sized
  <2>. QED  BY <1>2, <2>1, <2>2, <2>3 DEF Bitset!LevelAt
<1>4. Map!LevelAt(s, p) = a
  <2>1. p \in DOMAIN tree[s] <=> Len(Bitset!Queue[s][p]) # 0
    BY <1>0 DEF MapInv
  <2>2. p \in DOMAIN tree[s] => MapLevels[s][p] = cell[s][tree[s][p]]
    BY MapLevelIs
  <2>3. Len(Bitset!Queue[s][p]) # 0 => MapLevels[s][p].price = p
    BY <1>0 DEF Sized
  <2>. QED  BY <1>2, <2>1, <2>2, <2>3 DEF Map!LevelAt
<1>5. Vector!LevelAt(s, p) = a
  <2>1. FoundIn(nodes[s], s, p) <=> Len(Bitset!Queue[s][p]) # 0
    BY DEF VecInv
  <2>. QED  BY <1>2, <2>1, SameSeek DEF Vector!LevelAt
<1>. QED  BY <1>3, <1>4, <1>5

\* The orders of a side are those that rest there.
LEMMA QueuedOn ==
    ASSUME ListInv, NEW s \in Side
    PROVE  {o \in Slot : \E p \in Price : o \in Queues!ToSet(Bitset!Queue[s][p])} = RestingOn(s)
<1>1. \A p \in Price : /\ Bitset!Queue[s][p] \in Seq(Slot)
                       /\ DOMAIN Bitset!Queue[s][p] = 1..Len(Bitset!Queue[s][p])
  BY LenProperties DEF ListInv, Holds
<1>2. \A p \in Price, o \in Slot :
         o \in Queues!ToSet(Bitset!Queue[s][p]) <=>
            \E k \in 1..Len(Bitset!Queue[s][p]) : Bitset!Queue[s][p][k] = o
  BY <1>1, SameQueues DEF ToSet
<1>3. ASSUME NEW o \in Slot, o \in RestingOn(s)
      PROVE  \E p \in Price : o \in Queues!ToSet(Bitset!Queue[s][p])
  <2>1. ~Idle(o) /\ order[o].side = s
    BY <1>3 DEF RestingOn
  <2>2. order[o].price \in Price
    BY <2>1 DEF ListInv, SlotsInv
  <2>3. \E k \in 1..Len(Bitset!Queue[s][order[o].price]) : Bitset!Queue[s][order[o].price][k] = o
    BY <2>1 DEF ListInv, Placed
  <2>. QED  BY <1>2, <2>2, <2>3
<1>4. ASSUME NEW o \in Slot, NEW p \in Price, o \in Queues!ToSet(Bitset!Queue[s][p])
      PROVE  o \in RestingOn(s)
  <2>1. PICK k \in 1..Len(Bitset!Queue[s][p]) : Bitset!Queue[s][p][k] = o
    BY <1>2, <1>4
  <2>2. ~Idle(Bitset!Queue[s][p][k]) /\ order[Bitset!Queue[s][p][k]].side = s
    BY DEF ListInv, Placed
  <2>. QED  BY <2>1, <2>2 DEF RestingOn
<1>. QED  BY <1>3, <1>4 DEF RestingOn

\* So the books answer as the queues say.
LEMMA AnswersAre ==
    ASSUME BookInv, VecInv, ScanInv, CountInv
    PROVE  SameAnswers
<1>1. Map!Queue = Bitset!Queue /\ Vector!Queue = Bitset!Queue
  <2>1. Map!Queue = Bitset!Queue
    BY MapQueueIs DEF BookInv
  <2>. QED  BY <2>1, VecQueueIs
<1>2. ASSUME NEW s \in Side
      PROVE  LET expected == Queues!Expected(s) IN
             /\ expected = Queues!Answers(Bitset!Levels(s), s, bitCount[s],
                                          LAMBDA p : Bitset!LevelAt(s, p))
             /\ expected = Queues!Answers(Map!Levels(s), s, mapCount[s],
                                          LAMBDA p : Map!LevelAt(s, p))
             /\ expected = Queues!Answers(Vector!Levels(s), s, vecCount[s],
                                          LAMBDA p : Vector!LevelAt(s, p))
  <2> DEFINE L == Queues!Levels(s)
             c == Cardinality(RestingOn(s))
  <2>1. /\ Bitset!Levels(s) = L /\ Map!Levels(s) = L /\ Vector!Levels(s) = L
    BY BitsetLevels, MapLevelsAre, VectorLevels DEF BookInv
  <2>2. bitCount[s] = c /\ mapCount[s] = c /\ vecCount[s] = c
    BY DEF CountInv, CountOf
  <2>3. Queues!Cardinality({o \in Slot : \E p \in Queues!Price :
                               o \in Queues!ToSet(Bitset!Queue[s][p])}) = c
    BY QueuedOn, QueuesCount, SameQueues DEF BookInv
  <2> HIDE DEF L, c
  <2>4. Queues!Expected(s)
        = Queues!Answers(L, s, c, LAMBDA p : IF Bitset!Queue[s][p] = <<>> THEN NoPrice ELSE p)
    BY <2>3, Zenon DEF Queues!Expected, L
  <2>5. \A p \in Price :
           /\ Bitset!LevelAt(s, p) = (IF Bitset!Queue[s][p] = <<>> THEN NoPrice ELSE p)
           /\ Map!LevelAt(s, p) = (IF Bitset!Queue[s][p] = <<>> THEN NoPrice ELSE p)
           /\ Vector!LevelAt(s, p) = (IF Bitset!Queue[s][p] = <<>> THEN NoPrice ELSE p)
    BY AtPrice
  <2>6. Queues!Answers(L, s, c, LAMBDA p : Bitset!LevelAt(s, p))
        = Queues!Answers(L, s, c, LAMBDA p : IF Bitset!Queue[s][p] = <<>> THEN NoPrice ELSE p)
    BY <2>5, Zenon DEF Queues!Answers, Queues!Price, Price
  <2>7. Queues!Answers(L, s, c, LAMBDA p : Map!LevelAt(s, p))
        = Queues!Answers(L, s, c, LAMBDA p : IF Bitset!Queue[s][p] = <<>> THEN NoPrice ELSE p)
    BY <2>5, Zenon DEF Queues!Answers, Queues!Price, Price
  <2>8. Queues!Answers(L, s, c, LAMBDA p : Vector!LevelAt(s, p))
        = Queues!Answers(L, s, c, LAMBDA p : IF Bitset!Queue[s][p] = <<>> THEN NoPrice ELSE p)
    BY <2>5, Zenon DEF Queues!Answers, Queues!Price, Price
  <2>. QED  BY <2>1, <2>2, <2>4, <2>6, <2>7, <2>8, Zenon
<1>. QED  BY <1>1, <1>2, Zenon DEF SameAnswers

\* The three books answer every query as the queues say, in every reachable state and
\* for every band, word width, block and set of orders: best price, number of orders,
\* the level of each price, the quantity an aggressor could take at each limit and the
\* depth snapshot.  This is what tests/test_book_equivalence.cpp compares after each
\* command of one stream.
THEOREM AnswersAgree == Spec => []SameAnswers
  BY AnswersAre, LevelsSized, VectorHolds, ScansHold, CountsHold, PTL
=============================================================================
