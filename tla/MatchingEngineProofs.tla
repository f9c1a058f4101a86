------------------------ MODULE MatchingEngineProofs ------------------------
(* Proofs about MatchingEngine and its listener EventView, for every set of *)
(* ids and clients, every band, pool size, self-trade prevention mode and   *)
(* set of commands: first the engine, then what its events tell a listener. *)
EXTENDS EventView, FiniteSetTheorems, SequenceTheorems, WellFoundedInduction, TLAPS

-----------------------------------------------------------------------------
(* Facts about levels.                                                      *)

\* Taking position k out of a level closes the gap and keeps the order.
LEMMA RemoveAtFacts ==
    ASSUME NEW S, NEW q \in Seq(S), NEW k \in DOMAIN q
    PROVE  /\ RemoveAt(q, k) \in Seq(S)
           /\ Len(RemoveAt(q, k)) = Len(q) - 1
           /\ \A j \in 1..(Len(q) - 1) :
                 RemoveAt(q, k)[j] = IF j < k THEN q[j] ELSE q[j + 1]
<1>0. k \in 1..Len(q) /\ Len(q) \in Nat /\ \A j \in 1..Len(q) : q[j] \in S
  BY LenProperties, ElementOfSeq
<1>1. /\ SubSeq(q, 1, k - 1) \in Seq(S)
      /\ Len(SubSeq(q, 1, k - 1)) = k - 1
      /\ \A j \in 1..(k - 1) : SubSeq(q, 1, k - 1)[j] = q[j]
  <2>1. \A j \in 1..(k - 1) : q[j] \in S
    BY <1>0
  <2>. QED  BY <1>0, <2>1, SubSeqProperties
<1>2. /\ SubSeq(q, k + 1, Len(q)) \in Seq(S)
      /\ Len(SubSeq(q, k + 1, Len(q))) = Len(q) - k
      /\ \A j \in 1..(Len(q) - k) : SubSeq(q, k + 1, Len(q))[j] = q[j + k]
  <2>1. \A j \in (k + 1)..Len(q) : q[j] \in S
    BY <1>0
  <2>. QED  BY <1>0, <2>1, SubSeqProperties
<1> DEFINE a == SubSeq(q, 1, k - 1)
           b == SubSeq(q, k + 1, Len(q))
           c == a \o b
<1>3. /\ c \in Seq(S)
      /\ Len(c) = Len(a) + Len(b)
      /\ \A j \in 1..(Len(a) + Len(b)) :
            c[j] = IF j <= Len(a) THEN a[j] ELSE b[j - Len(a)]
  BY <1>1, <1>2, ConcatProperties
<1>4. RemoveAt(q, k) = c
  BY DEF RemoveAt
<1>5. /\ Len(a) = k - 1 /\ \A j \in 1..(k - 1) : a[j] = q[j]
      /\ Len(b) = Len(q) - k /\ \A j \in 1..(Len(q) - k) : b[j] = q[j + k]
  BY <1>1, <1>2
<1> HIDE DEF a, b, c
<1>6. ASSUME NEW j \in 1..(Len(q) - 1)
      PROVE  c[j] = IF j < k THEN q[j] ELSE q[j + 1]
  <2>1. c[j] = IF j <= k - 1 THEN a[j] ELSE b[j - (k - 1)]
    <3>1. Len(a) + Len(b) = Len(q) - 1
      BY <1>0, <1>5
    <3>2. c[j] = IF j <= Len(a) THEN a[j] ELSE b[j - Len(a)]
      BY <1>3, <3>1
    <3>. QED  BY <1>5, <3>2
  <2>2. CASE j < k
    BY <1>0, <1>5, <2>1, <2>2
  <2>3. CASE ~(j < k)
    <3>1. j - (k - 1) \in 1..(Len(q) - k) /\ (j - (k - 1)) + k = j + 1
      BY <1>0, <2>3
    <3>2. c[j] = b[j - (k - 1)]
      BY <1>0, <2>1, <2>3
    <3>. QED  BY <1>5, <2>3, <3>1, <3>2
  <2>. QED  BY <2>2, <2>3
<1>7. Len(c) = Len(q) - 1
  BY <1>0, <1>3, <1>5
<1>. QED  BY <1>3, <1>4, <1>6, <1>7

-----------------------------------------------------------------------------
(* The book part of the invariant, and the steps that change the book.      *)

BookTypeOK ==
    /\ queue \in [Side -> [Price -> Seq(OrderId)]]
    /\ total \in [Side -> [Price -> Int]]
    /\ index \in SUBSET OrderId
    /\ order \in [OrderId -> Order]
    /\ \A i \in index : order[i].client \in Client
    /\ inUse \in Int

BookInv == /\ IndexMatchesBook /\ TimePriority /\ BookUncrossed
           /\ RestingIsOpen /\ SlotsAccounted

\* An id is queued once.
LEMMA QueuedOnce ==
    ASSUME BookTypeOK, TimePriority,
           NEW s \in Side, NEW p \in Price,
           NEW j \in DOMAIN queue[s][p], NEW k \in DOMAIN queue[s][p],
           queue[s][p][j] = queue[s][p][k]
    PROVE  j = k
<1>1. queue[s][p] \in Seq(OrderId)
  BY DEF BookTypeOK
<1>2. j \in Nat /\ k \in Nat
  BY <1>1, LenProperties
<1>3. order[queue[s][p][j]].seq \in Nat
  BY <1>1, LenProperties, ElementOfSeq DEF BookTypeOK, Order
<1>. QED  BY <1>2, <1>3 DEF TimePriority

\* remove + erase + release of an indexed order.
LEMMA ReleaseBook ==
    ASSUME BookTypeOK, BookInv, NEW i \in index, Release(i)
    PROVE  BookTypeOK' /\ BookInv'
<1> DEFINE o == order[i]
           q == queue[o.side][o.price]
<1>1. i \in OrderId /\ o \in Order /\ o.side \in Side /\ o.price \in Price
  BY DEF BookTypeOK, BookInv, IndexMatchesBook, Order
<1>2. q \in Seq(OrderId)
  BY <1>1 DEF BookTypeOK
<1>3. PICK k \in DOMAIN q :
        /\ q[k] = i
        /\ queue' = [queue EXCEPT ![o.side][o.price] = RemoveAt(@, k)]
  BY DEF Release, Unlink
<1>4. /\ RemoveAt(q, k) \in Seq(OrderId)
      /\ Len(RemoveAt(q, k)) = Len(q) - 1
      /\ \A j \in 1..(Len(q) - 1) :
            RemoveAt(q, k)[j] = IF j < k THEN q[j] ELSE q[j + 1]
  BY <1>2, RemoveAtFacts
<1>5. /\ index' = index \ {i}
      /\ order' = [order EXCEPT ![i] = EmptyOrder]
      /\ inUse' = inUse - 1
      /\ total' = [total EXCEPT ![o.side][o.price] = @ - o.remaining]
  BY DEF Release, Unlink
<1>6. EmptyOrder \in Order
  BY DEF EmptyOrder, Order, Side, OrderType
<1>8. \A x \in index' : x \in index /\ x # i /\ order'[x] = order[x]
  BY <1>1, <1>5 DEF BookTypeOK
<1>7. BookTypeOK'
  <2>1. queue' \in [Side -> [Price -> Seq(OrderId)]]
    BY <1>1, <1>3, <1>4 DEF BookTypeOK
  <2>2. total' \in [Side -> [Price -> Int]]
    <3>1. o.remaining \in Int /\ total[o.side][o.price] \in Int
      BY <1>1 DEF BookTypeOK, Order
    <3>. QED  BY <1>1, <1>5, <3>1 DEF BookTypeOK
  <2>3. index' \in SUBSET OrderId /\ inUse' \in Int
    BY <1>5 DEF BookTypeOK
  <2>4. order' \in [OrderId -> Order]
    BY <1>5, <1>6 DEF BookTypeOK
  <2>5. \A x \in index' : order'[x].client \in Client
    BY <1>8 DEF BookTypeOK
  <2>. QED  BY <2>1, <2>2, <2>3, <2>4, <2>5 DEF BookTypeOK
\* Every position of a new level is a position of the old one, in the same order.
<1>9. \A s \in Side, p \in Price : \A j \in DOMAIN queue'[s][p] :
        \E m \in DOMAIN queue[s][p] :
            /\ queue'[s][p][j] = queue[s][p][m]
            /\ m = IF s = o.side /\ p = o.price /\ j >= k THEN j + 1 ELSE j
            /\ ~(s = o.side /\ p = o.price /\ m = k)
  <2> SUFFICES ASSUME NEW s \in Side, NEW p \in Price, NEW j \in DOMAIN queue'[s][p]
               PROVE  \E m \in DOMAIN queue[s][p] :
                        /\ queue'[s][p][j] = queue[s][p][m]
                        /\ m = IF s = o.side /\ p = o.price /\ j >= k
                               THEN j + 1 ELSE j
                        /\ ~(s = o.side /\ p = o.price /\ m = k)
    OBVIOUS
  <2>1. CASE s = o.side /\ p = o.price
    <3>1. queue'[s][p] = RemoveAt(q, k)
      BY <1>1, <1>3, <2>1 DEF BookTypeOK
    <3>2. /\ Len(q) \in Nat /\ DOMAIN q = 1..Len(q)
          /\ DOMAIN RemoveAt(q, k) = 1..(Len(q) - 1)
      BY <1>2, <1>4, LenProperties
    <3>3. j \in 1..(Len(q) - 1) /\ k \in 1..Len(q)
      BY <1>3, <3>1, <3>2
    <3>4. CASE j >= k
      <4>1. j + 1 \in 1..Len(q) /\ j + 1 # k
        BY <3>2, <3>3, <3>4
      <4>2. RemoveAt(q, k)[j] = q[j + 1]
        <5> HIDE DEF q
        <5>1. ~(j < k)
          BY <3>2, <3>3, <3>4
        <5>. QED  BY <1>4, <3>3, <5>1
      <4>. QED  BY <2>1, <3>1, <3>2, <3>4, <4>1, <4>2
    <3>5. CASE ~(j >= k)
      <4>1. j \in DOMAIN q /\ j # k /\ RemoveAt(q, k)[j] = q[j]
        <5> HIDE DEF q
        <5>1. j < k /\ j \in 1..Len(q)
          BY <3>2, <3>3, <3>5
        <5>. QED  BY <1>4, <3>2, <3>3, <5>1
      <4>. QED  BY <2>1, <3>1, <3>5, <4>1
    <3>. QED  BY <3>4, <3>5
  <2>2. CASE ~(s = o.side /\ p = o.price)
    <3>1. queue'[s][p] = queue[s][p]
      BY <1>1, <1>3, <2>2 DEF BookTypeOK
    <3>. QED  BY <2>2, <3>1
  <2>. QED  BY <2>1, <2>2
<1>10. ASSUME NEW s \in Side, NEW p \in Price, NEW j \in DOMAIN queue'[s][p]
       PROVE  /\ queue'[s][p][j] \in index'
              /\ order'[queue'[s][p][j]] = order[queue'[s][p][j]]
              /\ order'[queue'[s][p][j]].side = s
              /\ order'[queue'[s][p][j]].price = p
  <2>1. PICK m \in DOMAIN queue[s][p] :
          /\ queue'[s][p][j] = queue[s][p][m]
          /\ ~(s = o.side /\ p = o.price /\ m = k)
    BY <1>9
  <2>2. LET x == queue[s][p][m] IN x \in index /\ order[x].side = s /\ order[x].price = p
    BY DEF BookInv, IndexMatchesBook
  <2>3. queue[s][p][m] # i
    <3> SUFFICES ASSUME queue[s][p][m] = i PROVE FALSE
      OBVIOUS
    <3>1. s = o.side /\ p = o.price
      BY <2>2
    <3>2. m = k
      BY <1>3, <3>1, QueuedOnce DEF BookInv
    <3>. QED  BY <2>1, <3>1, <3>2
  <2>. QED  BY <1>5, <2>1, <2>2, <2>3 DEF BookTypeOK
<1>11. ASSUME NEW x \in index'
       PROVE  /\ order'[x].price \in Price
              /\ \E m \in DOMAIN queue'[order'[x].side][order'[x].price] :
                    queue'[order'[x].side][order'[x].price][m] = x
  <2> DEFINE s == order[x].side
             p == order[x].price
  <2>1. x \in index /\ x # i /\ order'[x] = order[x]
    BY <1>8
  <2>2. s \in Side /\ p \in Price /\ queue[s][p] \in Seq(OrderId)
    BY <2>1 DEF BookTypeOK, BookInv, IndexMatchesBook, Order
  <2>3. PICK m \in DOMAIN queue[s][p] : queue[s][p][m] = x
    BY <2>1 DEF BookInv, IndexMatchesBook
  <2>4. CASE s = o.side /\ p = o.price
    <3>1. queue'[s][p] = RemoveAt(q, k)
      BY <1>1, <1>3, <2>4 DEF BookTypeOK
    <3>2. /\ Len(q) \in Nat /\ DOMAIN q = 1..Len(q)
          /\ DOMAIN RemoveAt(q, k) = 1..(Len(q) - 1)
      BY <1>2, <1>4, LenProperties
    <3>3. m \in 1..Len(q) /\ k \in 1..Len(q) /\ m # k
      BY <1>3, <2>1, <2>3, <2>4, <3>2
    <3>4. CASE m < k
      <4>1. m \in 1..(Len(q) - 1)
        BY <3>2, <3>3, <3>4
      <4>2. RemoveAt(q, k)[m] = q[m]
        BY <1>4, <3>4, <4>1
      <4>. QED  BY <2>1, <2>2, <2>3, <2>4, <3>1, <3>2, <4>1, <4>2
    <3>5. CASE k < m
      <4>1. m - 1 \in 1..(Len(q) - 1) /\ ~(m - 1 < k) /\ (m - 1) + 1 = m
        BY <3>2, <3>3, <3>5
      <4>2. RemoveAt(q, k)[m - 1] = q[m]
        BY <1>4, <4>1
      <4>. QED  BY <2>1, <2>2, <2>3, <2>4, <3>1, <3>2, <4>1, <4>2
    <3>. QED  BY <3>2, <3>3, <3>4, <3>5
  <2>5. CASE ~(s = o.side /\ p = o.price)
    BY <1>1, <1>3, <2>1, <2>2, <2>3, <2>5 DEF BookTypeOK
  <2>. QED  BY <2>4, <2>5
<1>12. IndexMatchesBook'
  BY <1>10, <1>11 DEF IndexMatchesBook
<1>13. TimePriority'
  <2> SUFFICES ASSUME NEW s \in Side, NEW p \in Price,
                      NEW j \in DOMAIN queue'[s][p], NEW l \in DOMAIN queue'[s][p],
                      j < l
               PROVE  order'[queue'[s][p][j]].seq < order'[queue'[s][p][l]].seq
    BY DEF TimePriority
  <2>1. queue'[s][p] \in Seq(OrderId)
    BY <1>7 DEF BookTypeOK
  <2>2. j \in Nat /\ l \in Nat /\ k \in Nat
    <3>1. DOMAIN queue'[s][p] = 1..Len(queue'[s][p])
      BY <2>1, LenProperties
    <3>2. DOMAIN q = 1..Len(q)
      BY <1>2, LenProperties
    <3> HIDE DEF q
    <3>. QED  BY <3>1, <3>2
  <2>3. PICK mj \in DOMAIN queue[s][p] :
          /\ queue'[s][p][j] = queue[s][p][mj]
          /\ mj = IF s = o.side /\ p = o.price /\ j >= k THEN j + 1 ELSE j
    BY <1>9
  <2>4. PICK ml \in DOMAIN queue[s][p] :
          /\ queue'[s][p][l] = queue[s][p][ml]
          /\ ml = IF s = o.side /\ p = o.price /\ l >= k THEN l + 1 ELSE l
    BY <1>9
  <2>5. mj < ml
    BY <2>2, <2>3, <2>4
  <2>. QED  BY <1>10, <2>3, <2>4, <2>5 DEF BookInv, TimePriority
<1>14. BookUncrossed' /\ RestingIsOpen'
  BY <1>8 DEF BookInv, BookUncrossed, RestingIsOpen
<1>15. SlotsAccounted'
  <2>1. /\ IsFiniteSet(index \ {i})
        /\ Cardinality(index \ {i}) = Cardinality(index) - 1
    BY FS_RemoveElement DEF BookInv, SlotsAccounted
  <2>. QED  BY <1>5, <2>1, LimitAssumption DEF BookInv, BookTypeOK, SlotsAccounted
<1>. QED  BY <1>7, <1>12, <1>13, <1>14, <1>15 DEF BookInv

\* A resting order's sizes change and nothing else: reduce_in_place.
LEMMA ResizeBook ==
    ASSUME BookTypeOK, BookInv, NEW i \in index, NEW r \in Order,
           r.client = order[i].client, r.side = order[i].side, r.price = order[i].price, r.seq = order[i].seq,
           r.remaining > 0,
           order' = [order EXCEPT ![i] = r],
           total' \in [Side -> [Price -> Int]],
           UNCHANGED <<queue, index, inUse>>
    PROVE  BookTypeOK' /\ BookInv'
<1>1. BookTypeOK'
  BY DEF BookTypeOK
<1>2. \A x \in index : /\ order'[x].side = order[x].side
                       /\ order'[x].price = order[x].price
                       /\ order'[x].seq = order[x].seq
                       /\ order'[x].remaining > 0
  BY DEF BookTypeOK, BookInv, RestingIsOpen
<1>3. IndexMatchesBook'
  <2>1. ASSUME NEW x \in index'
        PROVE  /\ order'[x].price \in Price
               /\ \E k \in DOMAIN queue'[order'[x].side][order'[x].price] :
                     queue'[order'[x].side][order'[x].price][k] = x
    <3>1. x \in index /\ order'[x].side = order[x].side /\ order'[x].price = order[x].price
      BY <1>2
    <3>. QED  BY <3>1 DEF BookInv, IndexMatchesBook
  <2>2. ASSUME NEW s \in Side, NEW p \in Price, NEW k \in DOMAIN queue'[s][p]
        PROVE  LET x == queue'[s][p][k] IN
               x \in index' /\ order'[x].side = s /\ order'[x].price = p
    BY <1>2 DEF BookInv, IndexMatchesBook
  <2>. QED  BY <2>1, <2>2 DEF IndexMatchesBook
<1>4. TimePriority'
  <2> SUFFICES ASSUME NEW s \in Side, NEW p \in Price,
                      NEW j \in DOMAIN queue[s][p], NEW k \in DOMAIN queue[s][p], j < k
               PROVE  order'[queue[s][p][j]].seq < order'[queue[s][p][k]].seq
    BY DEF TimePriority
  <2>1. queue[s][p][j] \in index /\ queue[s][p][k] \in index
    BY DEF BookInv, IndexMatchesBook
  <2>. QED  BY <1>2, <2>1 DEF BookInv, TimePriority
<1>5. BookUncrossed' /\ RestingIsOpen' /\ SlotsAccounted'
  BY <1>2 DEF BookInv, BookUncrossed, RestingIsOpen, SlotsAccounted
<1>. QED  BY <1>1, <1>3, <1>4, <1>5 DEF BookInv

\* acquire + add + insert of an order that is new, youngest and crosses nothing.
LEMMA RestBook ==
    ASSUME BookTypeOK, BookInv,
           NEW i \in OrderId, i \notin index,
           NEW o \in Order, o.client \in Client, o.price \in Price, o.remaining > 0,
           \A x \in index : order[x].seq < o.seq,
           \A x \in index : order[x].side = Opposite(o.side)
                                => ~Crosses(o.side, o.price, order[x].price),
           inUse < MaxOrders,
           PushBack(i, o),
           order' = [order EXCEPT ![i] = o],
           index' = index \cup {i},
           inUse' = inUse + 1
    PROVE  BookTypeOK' /\ BookInv'
<1> DEFINE q == queue[o.side][o.price]
           longer == Append(q, i)
<1>1. o.side \in Side /\ q \in Seq(OrderId)
  BY DEF BookTypeOK, Order
<1>2. /\ queue' = [queue EXCEPT ![o.side][o.price] = Append(@, i)]
      /\ total' = [total EXCEPT ![o.side][o.price] = @ + o.remaining]
  BY DEF PushBack, Enqueue
<1>3. /\ longer \in Seq(OrderId)
      /\ Len(q) \in Nat /\ DOMAIN q = 1..Len(q)
      /\ DOMAIN longer = 1..(Len(q) + 1)
      /\ \A k \in 1..Len(q) : longer[k] = q[k]
      /\ longer[Len(q) + 1] = i
  BY <1>1, AppendProperties, LenProperties
<1>4. BookTypeOK'
  <2>1. queue' \in [Side -> [Price -> Seq(OrderId)]]
    BY <1>1, <1>2, <1>3 DEF BookTypeOK
  <2>2. total' \in [Side -> [Price -> Int]]
    <3>1. o.remaining \in Int /\ total[o.side][o.price] \in Int
      BY <1>1 DEF BookTypeOK, Order
    <3>. QED  BY <1>1, <1>2, <3>1 DEF BookTypeOK
  <2>. QED  BY <2>1, <2>2 DEF BookTypeOK
<1>5. order'[i] = o /\ \A x \in index : x # i /\ order'[x] = order[x]
  BY DEF BookTypeOK
<1>6. queue'[o.side][o.price] = longer
  BY <1>1, <1>2 DEF BookTypeOK
<1> HIDE DEF longer
<1>7. \A s \in Side, p \in Price :
        ~(s = o.side /\ p = o.price) => queue'[s][p] = queue[s][p]
  BY <1>1, <1>2 DEF BookTypeOK
\* A position of a new level is one of the old level, or i at the tail of its own.
<1>8. ASSUME NEW s \in Side, NEW p \in Price, NEW k \in DOMAIN queue'[s][p]
      PROVE  \/ k \in DOMAIN queue[s][p] /\ queue'[s][p][k] = queue[s][p][k]
             \/ s = o.side /\ p = o.price /\ queue'[s][p][k] = i
  <2>1. CASE s = o.side /\ p = o.price
    <3>1. k \in 1..(Len(q) + 1)
      BY <1>3, <1>6, <2>1
    <3>2. k \in 1..Len(q) \/ k = Len(q) + 1
      BY <1>3, <3>1
    <3>. QED  BY <1>3, <1>6, <2>1, <3>2
  <2>2. CASE ~(s = o.side /\ p = o.price)
    BY <1>7, <2>2
  <2>. QED  BY <2>1, <2>2
<1>9. ASSUME NEW s \in Side, NEW p \in Price, NEW k \in DOMAIN queue[s][p]
      PROVE  k \in DOMAIN queue'[s][p] /\ queue'[s][p][k] = queue[s][p][k]
  <2>1. CASE s = o.side /\ p = o.price
    <3>1. k \in 1..Len(q) /\ k \in 1..(Len(q) + 1)
      BY <1>3, <2>1
    <3>. QED  BY <1>3, <1>6, <2>1, <3>1
  <2>2. CASE ~(s = o.side /\ p = o.price)
    BY <1>7, <2>2
  <2>. QED  BY <2>1, <2>2
<1>10. IndexMatchesBook'
  <2>1. ASSUME NEW x \in index'
        PROVE  /\ order'[x].price \in Price
               /\ \E k \in DOMAIN queue'[order'[x].side][order'[x].price] :
                     queue'[order'[x].side][order'[x].price][k] = x
    <3>1. CASE x = i
      <4>1. Len(q) + 1 \in DOMAIN queue'[o.side][o.price]
        BY <1>3, <1>6
      <4>. QED  BY <1>3, <1>5, <1>6, <3>1, <4>1
    <3>2. CASE x \in index
      <4>1. order'[x] = order[x] /\ order[x].side \in Side /\ order[x].price \in Price
        BY <1>5, <3>2 DEF BookTypeOK, BookInv, IndexMatchesBook, Order
      <4>2. PICK k \in DOMAIN queue[order[x].side][order[x].price] :
              queue[order[x].side][order[x].price][k] = x
        BY <3>2 DEF BookInv, IndexMatchesBook
      <4>. QED  BY <1>9, <4>1, <4>2
    <3>. QED  BY <3>1, <3>2
  <2>2. ASSUME NEW s \in Side, NEW p \in Price, NEW k \in DOMAIN queue'[s][p]
        PROVE  LET x == queue'[s][p][k] IN
               x \in index' /\ order'[x].side = s /\ order'[x].price = p
    BY <1>5, <1>8 DEF BookInv, IndexMatchesBook
  <2>. QED  BY <2>1, <2>2 DEF IndexMatchesBook
<1>11. TimePriority'
  <2> SUFFICES ASSUME NEW s \in Side, NEW p \in Price,
                      NEW j \in DOMAIN queue'[s][p], NEW k \in DOMAIN queue'[s][p], j < k
               PROVE  order'[queue'[s][p][j]].seq < order'[queue'[s][p][k]].seq
    BY DEF TimePriority
  <2>1. j \in DOMAIN queue[s][p] /\ queue'[s][p][j] = queue[s][p][j]
    <3>1. CASE s = o.side /\ p = o.price
      <4>1. j \in 1..(Len(q) + 1) /\ k \in 1..(Len(q) + 1)
        BY <1>3, <1>6, <3>1
      <4>2. j \in 1..Len(q)
        BY <1>3, <4>1
      <4>. QED  BY <1>3, <1>6, <3>1, <4>2
    <3>2. CASE ~(s = o.side /\ p = o.price)
      BY <1>7, <3>2
    <3>. QED  BY <3>1, <3>2
  <2>2. queue[s][p][j] \in index
    BY <2>1 DEF BookInv, IndexMatchesBook
  <2>3. CASE k \in DOMAIN queue[s][p] /\ queue'[s][p][k] = queue[s][p][k]
    <3>1. queue[s][p][k] \in index
      BY <2>3 DEF BookInv, IndexMatchesBook
    <3>. QED  BY <1>5, <2>1, <2>2, <2>3, <3>1 DEF BookInv, TimePriority
  <2>4. CASE queue'[s][p][k] = i
    BY <1>5, <2>1, <2>2, <2>4
  <2>. QED  BY <1>8, <2>3, <2>4
<1>12. BookUncrossed'
  <2> SUFFICES ASSUME NEW x \in index', NEW y \in index',
                      order'[x].side = "Buy", order'[y].side = "Sell"
               PROVE  order'[x].price < order'[y].price
    BY DEF BookUncrossed
  <2>0. o.price \in Int /\ \A z \in index : order[z].price \in Int
    BY DEF BookTypeOK, Order
  <2>1. CASE x \in index /\ y \in index
    BY <1>5, <2>1 DEF BookInv, BookUncrossed
  <2>2. CASE x = i
    BY <1>5, <2>0, <2>2, PriceAssumption DEF Opposite, Crosses, Price
  <2>3. CASE y = i
    BY <1>5, <2>0, <2>3, PriceAssumption DEF Opposite, Crosses, Price
  <2>. QED  BY <2>1, <2>2, <2>3
<1>13. RestingIsOpen'
  BY <1>5 DEF BookInv, RestingIsOpen
<1>14. SlotsAccounted'
  <2>1. /\ IsFiniteSet(index \cup {i})
        /\ Cardinality(index \cup {i}) = Cardinality(index) + 1
    BY FS_AddElement DEF BookInv, SlotsAccounted
  <2>. QED  BY <2>1, LimitAssumption DEF BookInv, BookTypeOK, SlotsAccounted
<1>. QED  BY <1>4, <1>10, <1>11, <1>12, <1>13, <1>14 DEF BookInv

-----------------------------------------------------------------------------
(* The best level: it exists when a side is not empty, and an order that    *)
(* does not cross it crosses no level of that side.                         *)

\* The order of the naturals is well-founded.
LEMMA NatLessWellFounded == IsWellFoundedOn({ss \in Nat \X Nat : ss[1] < ss[2]}, Nat)
<1>1. OpToRel(<, Nat) = {ss \in Nat \X Nat : ss[1] < ss[2]}
  BY Zenon DEF OpToRel
<1>. QED  BY <1>1, NatLessThanWellFounded, Zenon

\* A non-empty set of naturals has a least element.
LEMMA NatLeast ==
    ASSUME NEW T \in SUBSET Nat, T # {}
    PROVE  \E m \in T : \A n \in T : m <= n
<1> DEFINE R == {ss \in Nat \X Nat : ss[1] < ss[2]}
<1>1. T \subseteq Nat
  OBVIOUS
<1>2. PICK m \in T : \A n \in T : <<n, m>> \notin R
  <2> HIDE DEF R
  <2>1. IsWellFoundedOn(R, Nat)
    BY NatLessWellFounded DEF R
  <2>. QED  BY <1>1, <2>1, WFMin, Zenon
<1>3. ASSUME NEW n \in T PROVE m <= n
  <2>1. ~(n < m)
    BY <1>1, <1>2
  <2>. QED  BY <1>1, <2>1
<1>. QED  BY <1>3

\* An occupied side has a best level: what best_level finds is never missing.
LEMMA BestExists ==
    ASSUME NEW s \in Side, Occupied(s) # {}
    PROVE  \E p \in Price : IsBest(s, p)
<1>1. Occupied(s) \subseteq Price /\ Price \subseteq Int /\ MinPrice \in Int /\ MaxPrice \in Int
  BY PriceAssumption DEF Occupied, Price
<1>2. CASE s = "Buy"
  <2> DEFINE T == {MaxPrice - p : p \in Occupied(s)}
  <2>1. T \in SUBSET Nat /\ T # {}
    <3>1. \A p \in Occupied(s) : MaxPrice - p \in Nat
      <4> SUFFICES ASSUME NEW p \in Occupied(s) PROVE MaxPrice - p \in Nat
        OBVIOUS
      <4>1. p \in MinPrice..MaxPrice
        BY <1>1 DEF Price
      <4>. QED  BY <1>1, <4>1
    <3>2. PICK p \in Occupied(s) : TRUE
      OBVIOUS
    <3>3. MaxPrice - p \in T
      BY <3>2
    <3>. QED  BY <3>1, <3>3
  <2>2. PICK m \in T : \A n \in T : m <= n
    BY <2>1, NatLeast
  <2>3. PICK p \in Occupied(s) : m = MaxPrice - p
    BY <2>2
  <2>4. ASSUME NEW q \in Occupied(s) PROVE ~Better(s, q, p)
    <3>1. MaxPrice - p <= MaxPrice - q
      BY <2>2, <2>3
    <3>2. p \in Int /\ q \in Int
      BY <1>1
    <3>. QED  BY <1>1, <1>2, <3>1, <3>2 DEF Better
  <2>. QED  BY <1>1, <2>4 DEF IsBest
<1>3. CASE s = "Sell"
  <2> DEFINE T == {p - MinPrice : p \in Occupied(s)}
  <2>1. T \in SUBSET Nat /\ T # {}
    <3>1. \A p \in Occupied(s) : p - MinPrice \in Nat
      <4> SUFFICES ASSUME NEW p \in Occupied(s) PROVE p - MinPrice \in Nat
        OBVIOUS
      <4>1. p \in MinPrice..MaxPrice
        BY <1>1 DEF Price
      <4>. QED  BY <1>1, <4>1
    <3>2. PICK p \in Occupied(s) : TRUE
      OBVIOUS
    <3>3. p - MinPrice \in T
      BY <3>2
    <3>. QED  BY <3>1, <3>3
  <2>2. PICK m \in T : \A n \in T : m <= n
    BY <2>1, NatLeast
  <2>3. PICK p \in Occupied(s) : m = p - MinPrice
    BY <2>2
  <2>4. ASSUME NEW q \in Occupied(s) PROVE ~Better(s, q, p)
    <3>1. p - MinPrice <= q - MinPrice
      BY <2>2, <2>3
    <3>2. p \in Int /\ q \in Int
      BY <1>1
    <3>. QED  BY <1>1, <1>3, <3>1, <3>2 DEF Better
  <2>. QED  BY <1>1, <2>4 DEF IsBest
<1>. QED  BY <1>2, <1>3 DEF Side

\* When the loop guard of match fails, nothing that rests can be crossed.
LEMMA NothingLeftToCross ==
    ASSUME BookTypeOK, IndexMatchesBook, in \in Order,
           in.remaining > 0,
           \A p \in Price : ~CanMatch(p),
           NEW x \in index, order[x].side = Opposite(in.side)
    PROVE  ~Crosses(in.side, in.price, order[x].price)
<1> DEFINE s == order[x].side
           p == order[x].price
<1>1. s \in Side /\ in.side \in Side /\ p \in Price /\ in.price \in Int
  BY DEF BookTypeOK, IndexMatchesBook, Order
<1>2. queue[s][p] \in Seq(OrderId) /\ queue[s][p] # <<>>
  <2>1. PICK k \in DOMAIN queue[s][p] : queue[s][p][k] = x
    BY DEF IndexMatchesBook
  <2>. QED  BY <1>1, <2>1 DEF BookTypeOK
<1>3. p \in Occupied(s)
  BY <1>1, <1>2 DEF Occupied
<1>4. PICK b \in Price : IsBest(s, b)
  BY <1>1, <1>3, BestExists
<1>5. ~Crosses(in.side, in.price, b)
  BY <1>4 DEF CanMatch
<1>6. ~Better(s, p, b)
  BY <1>3, <1>4 DEF IsBest
<1>. QED
  BY <1>1, <1>5, <1>6, PriceAssumption DEF Crosses, Better, Opposite, Price, Side

-----------------------------------------------------------------------------
(* The events of a call.                                                    *)

\* An event whose fields come from orders and commands is a well-formed event.
LEMMA ReportTyped ==
    ASSUME NEW type \in {"Accepted", "Rejected", "Fill", "Canceled", "Replaced", "Trade"},
           NEW i \in OrderId, NEW contra \in OrderId \cup {NoId},
           NEW o, o.client \in Client \cup {NoClient}, o.side \in Side,
           NEW price \in Int, NEW qty \in Nat, NEW leaves \in Nat, NEW reason \in RejectReason
    PROVE  Report(type, i, contra, o, price, qty, leaves, reason) \in ReportEvent
  BY DEF Report, ReportEvent

\* The event sequence of a call stays well-formed when events are appended,
LEMMA EmitAllTyped ==
    ASSUME out \in Seq(ReportEvent \cup TopEvent),
           NEW es \in Seq(ReportEvent \cup TopEvent), Emit(es)
    PROVE  out' \in Seq(ReportEvent \cup TopEvent)
<1> DEFINE E == ReportEvent \cup TopEvent
<1>1. es \in Seq(E) /\ out \in Seq(E)
  OBVIOUS
<1> HIDE DEF E
<1>2. out \o es \in Seq(E)
  BY <1>1, ConcatProperties
<1>. QED  BY <1>2 DEF Emit, E

\* and when one is.
LEMMA EmitTyped ==
    ASSUME out \in Seq(ReportEvent \cup TopEvent),
           NEW e \in ReportEvent \cup TopEvent, Emit(<<e>>)
    PROVE  out' \in Seq(ReportEvent \cup TopEvent)
<1>1. <<e>> \in Seq(ReportEvent \cup TopEvent)
  OBVIOUS
<1>. QED  BY <1>1, EmitAllTyped

-----------------------------------------------------------------------------
(* The inductive invariant.                                                 *)

Inv == TypeOK /\ BookInv /\ IncomingIsNew /\ PostOnlyNeverTakes

\* The calls the engine makes of the rest of the book leave its book alone.
LEMMA BookUnchanged ==
    ASSUME BookTypeOK, BookInv, UNCHANGED bookVars
    PROVE  BookTypeOK' /\ BookInv'
<1>1. /\ queue' = queue /\ total' = total /\ index' = index
      /\ order' = order /\ inUse' = inUse
  BY DEF bookVars
<1>. QED
  BY <1>1 DEF BookTypeOK, BookInv, IndexMatchesBook, TimePriority, BookUncrossed,
              RestingIsOpen, SlotsAccounted

\* The invariant holds of a newly constructed engine.
THEOREM InitInv == Init => Inv
<1> SUFFICES ASSUME Init PROVE Inv
  OBVIOUS
<1>1. EmptyOrder \in Order
  BY DEF EmptyOrder, Order, Side, OrderType
<1>2. TypeOK
  <2>0. pc # "match" /\ \A i \in index : order[i].client \in Client
    BY DEF Init
  <2>1. queue \in [Side -> [Price -> Seq(OrderId)]] /\ out \in Seq(ReportEvent \cup TopEvent)
    BY DEF Init
  <2>2. total \in [Side -> [Price -> Int]]
    BY DEF Init
  <2>5. order \in [OrderId -> Order]
    BY <1>1 DEF Init
  <2>3. index \in SUBSET OrderId /\ inUse \in Int /\ arrival \in Nat
    BY DEF Init
  <2>6. halted \in BOOLEAN
    BY DEF Init
  <2>4. lastBid \in Int /\ lastAsk \in Int
    BY PriceAssumption DEF Init
  <2>. QED
    BY <1>1, <2>0, <2>1, <2>2, <2>3, <2>4, <2>5, <2>6 DEF Init, TypeOK
<1>3. BookInv
  BY LimitAssumption, FS_EmptySet
     DEF Init, BookInv, IndexMatchesBook, TimePriority, BookUncrossed, RestingIsOpen,
         SlotsAccounted
<1>. QED
  BY <1>2, <1>3 DEF Init, Inv, IncomingIsNew, PostOnlyNeverTakes

\* The steps that neither change the book nor enter match.
LEMMA QuietStep ==
    ASSUME Inv, UNCHANGED bookVars, pc' # "match", arrival' = arrival, TypeOK'
    PROVE  Inv'
<1>1. BookInv'
  BY BookUnchanged DEF Inv, TypeOK, BookTypeOK
<1>. QED
  BY <1>1 DEF Inv, IncomingIsNew, PostOnlyNeverTakes, bookVars

\* emit_reject preserves the invariant, whatever the reason.
LEMMA RejectStep ==
    ASSUME Inv, pc # "idle", NEW reason \in RejectReason, Reject(reason), pc' = "publish",
           UNCHANGED <<cmd, in, bookVars, arrival, lastBid, lastAsk, halted>>
    PROVE  Inv'
<1>1. cmd \in Command
  BY DEF Inv, TypeOK
<1> DEFINE e == Report("Rejected", cmd.id, NoId, cmd, cmd.price, cmd.qty, 0, reason)
<1>2. e \in ReportEvent
  BY <1>1, ReportTyped DEF Command
<1>3. out' \in Seq(ReportEvent \cup TopEvent)
  BY <1>2, EmitTyped DEF Reject, Inv, TypeOK
<1>4. TypeOK'
  BY <1>3 DEF Inv, TypeOK, bookVars
<1>. QED  BY <1>4, QuietStep DEF bookVars

\* What the steps that release an order or rest one leave to show: the rest of the
\* invariant, once the book part is known.
LEMMA BookStep ==
    ASSUME Inv, BookTypeOK', BookInv', TypeOK', pc' # "match",
           arrival' = arrival, \A x \in index' : order'[x].seq <= arrival
    PROVE  Inv'
  BY DEF Inv, IncomingIsNew, PostOnlyNeverTakes

\* handle_cancel of a known id preserves the invariant.
LEMMA HandleCancelStep == ASSUME Inv, HandleCancel PROVE Inv'
<1> DEFINE o == order[cmd.id]
           e == Report("Canceled", cmd.id, NoId, o, o.price, o.remaining, 0, "None")
<1>1. cmd \in Command /\ cmd.id \in index /\ o \in Order
  BY DEF Inv, TypeOK, HandleCancel, Command
<1>2. BookTypeOK' /\ BookInv'
  BY <1>1, ReleaseBook DEF HandleCancel, Inv, TypeOK, BookTypeOK
<1>3. e \in ReportEvent
  <2>1. /\ cmd.id \in OrderId /\ o.client \in Client \cup {NoClient}
        /\ o.side \in Side /\ o.price \in Int /\ o.remaining \in Nat
    BY <1>1 DEF Command, Order
  <2>2. "None" \in RejectReason
    BY DEF RejectReason
  <2>. QED  BY <2>1, <2>2, ReportTyped
<1>4. out' \in Seq(ReportEvent \cup TopEvent)
  BY <1>3, EmitTyped DEF HandleCancel, Inv, TypeOK
<1>5. TypeOK'
  BY <1>2, <1>4 DEF Inv, TypeOK, BookTypeOK, HandleCancel
<1>6. \A x \in index' : order'[x].seq <= arrival
  BY DEF HandleCancel, Release, Inv, IncomingIsNew, TypeOK
<1>. QED  BY <1>2, <1>5, <1>6, BookStep DEF HandleCancel

\* handle_modify up to the replay: the order is out of the book, its id free again.
LEMMA ReplayAsNewStep == ASSUME Inv, ReplayAsNew PROVE Inv'
<1> DEFINE o == order[cmd.id]
<1>1. cmd \in Command /\ cmd.id \in index /\ o \in Order
  BY DEF Inv, TypeOK, ReplayAsNew, IsModify, Command
<1>2. BookTypeOK' /\ BookInv'
  BY <1>1, ReleaseBook DEF ReplayAsNew, Inv, TypeOK, BookTypeOK
<1>3. NewPrice \in Int
  BY <1>1 DEF NewPrice, Command, Order
<1>4. cmd' \in Command
  BY <1>1, <1>3 DEF ReplayAsNew, NewCommand, Command, Order, Inv, TypeOK
<1>5. TypeOK'
  BY <1>2, <1>4, CommandAssumption DEF Inv, TypeOK, BookTypeOK, ReplayAsNew
<1>6. \A x \in index' : order'[x].seq <= arrival
  BY DEF ReplayAsNew, Release, Inv, IncomingIsNew, TypeOK
<1>. QED  BY <1>2, <1>5, <1>6, BookStep DEF ReplayAsNew

\* The size-down of handle_modify preserves the invariant; the order keeps its place.
LEMMA ModifyInPlaceStep == ASSUME Inv, ModifyInPlace PROVE Inv'
<1> DEFINE o == order[cmd.id]
           r == [o EXCEPT !.remaining = cmd.qty,
                          !.quantity = cmd.qty + (o.quantity - cmd.qty)]
           e == Report("Replaced", cmd.id, NoId, o, o.price, cmd.qty, cmd.qty, "None")
<1>1. /\ cmd \in Command /\ cmd.id \in index /\ cmd.id \in OrderId /\ o \in Order
      /\ cmd.qty \in Nat /\ cmd.qty > 0
  BY DEF Inv, TypeOK, ModifyInPlace, IsModify, Command
<1>2. /\ r \in Order /\ r.client = o.client /\ r.side = o.side /\ r.price = o.price
      /\ r.seq = o.seq /\ r.remaining = cmd.qty
  <2>1. o.quantity \in Nat /\ cmd.qty + (o.quantity - cmd.qty) = o.quantity
    BY <1>1 DEF Order
  <2>. QED  BY <1>1, <2>1 DEF Order
<1>3. /\ order' = [order EXCEPT ![cmd.id] = r]
      /\ total' = [total EXCEPT ![o.side][o.price] = @ - (o.remaining - cmd.qty)]
      /\ Emit(<<e>>)
      /\ UNCHANGED <<queue, index, inUse>>
  BY DEF ModifyInPlace
<1>4. total' \in [Side -> [Price -> Int]]
  <2>1. o.side \in Side /\ o.price \in Price /\ o.remaining \in Nat
    BY <1>1 DEF Inv, BookInv, IndexMatchesBook, Order
  <2>2. total \in [Side -> [Price -> Int]] /\ total[o.side][o.price] \in Int
    BY <2>1 DEF Inv, TypeOK
  <2>. QED  BY <1>1, <1>3, <2>1, <2>2
<1>5. BookTypeOK /\ BookInv
  BY DEF Inv, TypeOK, BookTypeOK
<1> HIDE DEF r
<1>6. BookTypeOK' /\ BookInv'
  BY <1>1, <1>2, <1>3, <1>4, <1>5, ResizeBook
<1>7. e \in ReportEvent
  <2>1. "None" \in RejectReason
    BY DEF RejectReason
  <2>2. o.client \in Client \cup {NoClient} /\ o.side \in Side /\ o.price \in Int
    BY <1>1 DEF Order
  <2>. QED  BY <1>1, <2>1, <2>2, ReportTyped
<1>8. out' \in Seq(ReportEvent \cup TopEvent)
  BY <1>3, <1>7, EmitTyped DEF Inv, TypeOK
<1>9. TypeOK'
  BY <1>6, <1>8 DEF Inv, TypeOK, BookTypeOK, ModifyInPlace, IsModify
<1>10. \A x \in index' : order'[x].seq <= arrival
  BY <1>2, <1>3 DEF Inv, IncomingIsNew, TypeOK
<1>. QED  BY <1>6, <1>9, <1>10, BookStep DEF ModifyInPlace

\* handle_new up to match: the checks have established what match relies on.
LEMMA AcceptNewStep == ASSUME Inv, AcceptNew PROVE Inv'
<1> DEFINE e == Report("Accepted", cmd.id, NoId, in', Limit, cmd.qty, cmd.qty, "None")
<1>1. /\ cmd \in Command /\ cmd.id \in OrderId /\ cmd.client \in Client
      /\ cmd.side \in Side /\ cmd.ordType \in OrderType
      /\ cmd.price \in Int /\ cmd.qty \in Nat /\ arrival \in Nat
  BY DEF Inv, TypeOK, AcceptNew, Command
<1>2. /\ cmd.id \notin index /\ Limit \in Price \cup {NoPrice}
      /\ cmd.ordType = "Market" => Limit = NoPrice
      /\ cmd.ordType = "PostOnly" => ~WouldCross
  BY DEF AcceptNew, Rejection, Limit, IsMarket, InBand
<1>3. Limit \in Int
  BY <1>1, PriceAssumption DEF Limit
<1>4. in' = [client |-> cmd.client, side |-> cmd.side, type |-> cmd.ordType,
             price |-> Limit, quantity |-> cmd.qty, remaining |-> cmd.qty,
             seq |-> arrival']
  BY DEF AcceptNew
<1>5. arrival' = arrival + 1 /\ arrival' \in Nat
  BY <1>1 DEF AcceptNew
<1>6. in' \in Order
  BY <1>1, <1>3, <1>4, <1>5 DEF Order
<1>7. e \in ReportEvent
  <2>1. in'.client \in Client \cup {NoClient} /\ in'.side \in Side
    BY <1>1, <1>4
  <2>2. "None" \in RejectReason
    BY DEF RejectReason
  <2>. QED  BY <1>1, <1>3, <2>1, <2>2, ReportTyped
<1>8. out' \in Seq(ReportEvent \cup TopEvent)
  BY <1>7, EmitTyped DEF AcceptNew, Inv, TypeOK
<1>9. BookTypeOK' /\ BookInv'
  BY BookUnchanged DEF AcceptNew, Inv, TypeOK, BookTypeOK
<1>10. TypeOK'
  BY <1>1, <1>4, <1>5, <1>6, <1>8, <1>9 DEF AcceptNew, Inv, TypeOK, BookTypeOK
<1>11. IncomingIsNew'
  <2>1. index' = index /\ order' = order
    BY DEF AcceptNew, bookVars
  <2>2. \A x \in index : order[x].seq \in Nat /\ order[x].seq <= arrival
    BY DEF Inv, IncomingIsNew, TypeOK, Order
  <2>. QED  BY <1>1, <1>2, <1>4, <1>5, <2>1, <2>2 DEF AcceptNew, IncomingIsNew
<1>12. PostOnlyNeverTakes'
  <2> SUFFICES ASSUME in'.type = "PostOnly", NEW p \in Price, CanMatch(p)' PROVE FALSE
    BY DEF PostOnlyNeverTakes
  <2>1. /\ queue' = queue
        /\ in'.side = cmd.side /\ in'.price = Limit /\ in'.type = cmd.ordType
    BY <1>4 DEF AcceptNew, bookVars
  <2>2. IsBest(Opposite(in.side), p)' /\ Crosses(in.side, in.price, p)'
    BY DEF CanMatch
  <2>3. Crosses(cmd.side, Limit, p)
    BY <2>1, <2>2 DEF Crosses
  <2>4. IsBest(Opposite(cmd.side), p)
    BY <2>1, <2>2 DEF IsBest, Occupied
  <2>. QED  BY <1>2, <2>1, <2>3, <2>4 DEF WouldCross
<1>. QED  BY <1>9, <1>10, <1>11, <1>12 DEF Inv

-----------------------------------------------------------------------------
(* The steps of match.                                                      *)

\* The head of an occupied level is an indexed order of that side and price.
LEMMA HeadOfLevel ==
    ASSUME BookTypeOK, BookInv, NEW s \in Side, NEW p \in Occupied(s)
    PROVE  LET r == Head(queue[s][p]) IN
           r \in index /\ r \in OrderId /\ order[r].side = s /\ order[r].price = p
<1>1. p \in Price /\ queue[s][p] \in Seq(OrderId) /\ queue[s][p] # <<>>
  BY DEF Occupied, BookTypeOK
<1>2. 1 \in DOMAIN queue[s][p] /\ Head(queue[s][p]) = queue[s][p][1]
  BY <1>1
<1>. QED  BY <1>1, <1>2 DEF BookTypeOK, BookInv, IndexMatchesBook

\* What the three steps of match start from.
LEMMA MeetsHead ==
    ASSUME Inv, pc = "match", NEW p \in Price, CanMatch(p)
    PROVE  LET r == Head(queue[Opposite(in.side)][p]) IN
           /\ r \in index /\ r \in OrderId /\ order[r] \in Order
           /\ order[r].price = p /\ order[r].remaining > 0
           /\ cmd \in Command /\ cmd.id \in OrderId /\ cmd.id # r
           /\ in \in Order /\ in.client \in Client /\ in.remaining > 0
           /\ in.type # "PostOnly"
<1>1. in \in Order /\ in.side \in Side /\ Opposite(in.side) \in Side
  BY DEF Inv, TypeOK, Order, Opposite, Side
<1>2. p \in Occupied(Opposite(in.side))
  BY DEF CanMatch, IsBest
<1> DEFINE r == Head(queue[Opposite(in.side)][p])
<1>3. r \in index /\ r \in OrderId /\ order[r].price = p
  BY <1>1, <1>2, HeadOfLevel DEF Inv, TypeOK, BookTypeOK
<1>4. cmd \in Command /\ cmd.id \in OrderId
  BY DEF Inv, TypeOK, Command
<1>. QED
  BY <1>1, <1>3, <1>4 DEF Inv, TypeOK, BookInv, RestingIsOpen, IncomingIsNew,
                          PostOnlyNeverTakes, CanMatch

\* The three events of a trade are well-formed.
LEMMA TradeReports ==
    ASSUME Inv, pc = "match", NEW p \in Price, CanMatch(p)
    PROVE  LET r == Head(queue[Opposite(in.side)][p])
               q == Traded(r)
               o == order[r]
           IN /\ q \in Nat /\ q > 0 /\ q <= in.remaining /\ q <= o.remaining
              /\ Report("Fill", cmd.id, r, in, o.price, q, in.remaining - q, "None") \in ReportEvent
              /\ Report("Fill", r, cmd.id, o, o.price, q, o.remaining - q, "None") \in ReportEvent
              /\ Report("Trade", cmd.id, r, [in EXCEPT !.client = NoClient], o.price, q, 0, "None")
                   \in ReportEvent
<1> DEFINE r == Head(queue[Opposite(in.side)][p])
           o == order[r]
           q == Traded(r)
<1>2. /\ r \in index /\ r \in OrderId /\ o \in Order /\ o.remaining > 0
      /\ cmd.id \in OrderId /\ in \in Order /\ in.client \in Client
      /\ in.remaining > 0
  BY MeetsHead
<1>3. /\ in.remaining \in Nat /\ o.remaining \in Nat /\ in.client \in Client \cup {NoClient}
      /\ in.side \in Side /\ o.client \in Client \cup {NoClient} /\ o.side \in Side
      /\ o.price \in Int
  BY <1>2 DEF Order
<1>4. q \in Nat /\ q > 0 /\ q <= in.remaining /\ q <= o.remaining
  BY <1>2, <1>3 DEF Traded
<1> HIDE DEF q
<1> DEFINE n == [in EXCEPT !.client = NoClient]
<1>5. "None" \in RejectReason /\ in.remaining - q \in Nat /\ o.remaining - q \in Nat
  BY <1>3, <1>4 DEF RejectReason
<1>6. n.client \in Client \cup {NoClient} /\ n.side \in Side
  BY <1>2 DEF Order
<1> HIDE DEF n
<1>7. Report("Fill", cmd.id, r, in, o.price, q, in.remaining - q, "None") \in ReportEvent
  BY <1>2, <1>3, <1>4, <1>5, ReportTyped
<1>8. Report("Fill", r, cmd.id, o, o.price, q, o.remaining - q, "None") \in ReportEvent
  BY <1>2, <1>3, <1>4, <1>5, ReportTyped
<1>9. Report("Trade", cmd.id, r, n, o.price, q, 0, "None") \in ReportEvent
  BY <1>2, <1>3, <1>4, <1>5, <1>6, ReportTyped
<1>. QED  BY <1>4, <1>7, <1>8, <1>9 DEF n, q

\* Self-trade prevention that stops the incoming order leaves the book alone.
LEMMA StpCancelAggressorStep ==
    ASSUME Inv, NEW p \in Price, StpCancelAggressor(p) PROVE Inv'
<1> DEFINE e == Report("Canceled", cmd.id, NoId, in, in.price, 0, 0, "SelfTradePrevented")
<1>1. pc = "match" /\ CanMatch(p) /\ Emit(<<e>>) /\ in' = [in EXCEPT !.remaining = 0]
  BY DEF StpCancelAggressor
<1>2. /\ cmd.id \in OrderId /\ in \in Order /\ in.client \in Client
      /\ in.type # "PostOnly"
  BY <1>1, MeetsHead
<1>3. /\ in' \in Order /\ in'.client = in.client /\ in'.price = in.price
      /\ in'.seq = in.seq /\ in'.type = in.type
  BY <1>1, <1>2 DEF Order
<1>4. e \in ReportEvent
  <2>1. "SelfTradePrevented" \in RejectReason
    BY DEF RejectReason
  <2>2. in.client \in Client \cup {NoClient} /\ in.side \in Side /\ in.price \in Int
    BY <1>2 DEF Order
  <2>. QED  BY <1>2, <2>1, <2>2, ReportTyped
<1>5. out' \in Seq(ReportEvent \cup TopEvent)
  BY <1>1, <1>4, EmitTyped DEF Inv, TypeOK
<1>6. BookTypeOK' /\ BookInv'
  BY BookUnchanged DEF StpCancelAggressor, Inv, TypeOK, BookTypeOK
<1>7. TypeOK'
  BY <1>2, <1>3, <1>5, <1>6 DEF StpCancelAggressor, Inv, TypeOK, BookTypeOK
<1>8. IncomingIsNew'
  BY <1>1, <1>3 DEF StpCancelAggressor, Inv, IncomingIsNew, bookVars
<1>9. PostOnlyNeverTakes'
  BY <1>2, <1>3 DEF PostOnlyNeverTakes
<1>. QED  BY <1>6, <1>7, <1>8, <1>9 DEF Inv

\* Self-trade prevention that pulls the resting order preserves the invariant.
LEMMA StpCancelRestingStep ==
    ASSUME Inv, NEW p \in Price, StpCancelResting(p) PROVE Inv'
<1> DEFINE r == Head(queue[Opposite(in.side)][p])
           e == Report("Canceled", r, NoId, order[r], order[r].price, 0, 0,
                       "SelfTradePrevented")
<1>1. pc = "match" /\ CanMatch(p) /\ Emit(<<e>>) /\ Release(r)
  BY DEF StpCancelResting
<1>2. r \in index /\ r \in OrderId /\ order[r] \in Order /\ in.type # "PostOnly"
  BY <1>1, MeetsHead
<1>3. e \in ReportEvent
  <2>1. "SelfTradePrevented" \in RejectReason
    BY DEF RejectReason
  <2>2. /\ order[r].client \in Client \cup {NoClient} /\ order[r].side \in Side
        /\ order[r].price \in Int
    BY <1>2 DEF Order
  <2>. QED  BY <1>2, <2>1, <2>2, ReportTyped
<1>4. out' \in Seq(ReportEvent \cup TopEvent)
  BY <1>1, <1>3, EmitTyped DEF Inv, TypeOK
<1>5. BookTypeOK' /\ BookInv'
  BY <1>1, <1>2, ReleaseBook DEF Inv, TypeOK, BookTypeOK
<1>6. TypeOK'
  BY <1>4, <1>5 DEF StpCancelResting, Inv, TypeOK, BookTypeOK
<1>7. /\ index' = index \ {r} /\ \A x \in index' : order'[x] = order[x]
  BY <1>1, <1>2 DEF Release, Inv, TypeOK
<1>8. IncomingIsNew'
  BY <1>1, <1>7 DEF StpCancelResting, Inv, IncomingIsNew
<1>9. PostOnlyNeverTakes'
  BY <1>2 DEF StpCancelResting, PostOnlyNeverTakes
<1>. QED  BY <1>5, <1>6, <1>8, <1>9 DEF Inv

\* One fill of match preserves the invariant, whether the resting order stays or goes.
LEMMA TradeStep == ASSUME Inv, NEW p \in Price, Trade(p) PROVE Inv'
<1> DEFINE r == Head(queue[Opposite(in.side)][p])
           o == order[r]
           q == Traded(r)
<1>1. /\ pc = "match" /\ CanMatch(p) /\ Emit(TradeEvents(r, q))
      /\ in' = [in EXCEPT !.remaining = @ - q] /\ Take(r, q)
  BY DEF Trade, OldestAt
<1>2. /\ r \in index /\ r \in OrderId /\ o \in Order /\ o.remaining > 0
      /\ cmd.id \in OrderId /\ in \in Order /\ in.client \in Client
      /\ in.remaining > 0 /\ in.type # "PostOnly"
  BY <1>1, MeetsHead
<1>3. /\ in.remaining \in Nat /\ o.remaining \in Nat /\ in.client \in Client \cup {NoClient}
      /\ in.side \in Side /\ o.client \in Client \cup {NoClient} /\ o.side \in Side
      /\ o.price \in Int
  BY <1>2 DEF Order
<1>4. q \in Nat /\ q > 0 /\ q <= in.remaining /\ q <= o.remaining
  BY <1>1, TradeReports
<1>5. /\ in' \in Order /\ in'.client = in.client /\ in'.price = in.price
      /\ in'.seq = in.seq /\ in'.type = in.type
  BY <1>1, <1>2, <1>3, <1>4 DEF Order
<1>6. TradeEvents(r, q) \in Seq(ReportEvent \cup TopEvent)
  <2> DEFINE e1 == Report("Fill", cmd.id, r, in, o.price, q, in.remaining - q, "None")
             e2 == Report("Fill", r, cmd.id, o, o.price, q, o.remaining - q, "None")
             e3 == Report("Trade", cmd.id, r, [in EXCEPT !.client = NoClient], o.price, q, 0, "None")
             E == ReportEvent \cup TopEvent
  <2>1. e1 \in E /\ e2 \in E /\ e3 \in E
    BY <1>1, TradeReports
  <2>2. TradeEvents(r, q) = <<e1, e2, e3>>
    BY DEF TradeEvents
  <2> HIDE DEF e1, e2, e3, E
  <2>3. <<e1, e2, e3>> \in Seq(E)
    BY <2>1
  <2>. QED  BY <2>2, <2>3 DEF E
<1> HIDE DEF q
<1>7. out' \in Seq(ReportEvent \cup TopEvent)
  BY <1>1, <1>6, EmitAllTyped DEF Inv, TypeOK
<1>8. /\ BookTypeOK' /\ BookInv'
      /\ index' \subseteq index
      /\ \A x \in index' : order'[x].seq = order[x].seq
  <2>1. CASE o.remaining = q /\ Release(r)
    <3>1. BookTypeOK' /\ BookInv'
      BY <1>2, <2>1, ReleaseBook DEF Inv, TypeOK, BookTypeOK
    <3>. QED  BY <1>2, <2>1, <3>1 DEF Release, Inv, TypeOK
  <2>2. CASE o.remaining # q /\ ReduceInPlace(r, q)
    <3> DEFINE n == [o EXCEPT !.remaining = @ - q]
    <3>1. /\ order' = [order EXCEPT ![r] = n]
          /\ total' = [total EXCEPT ![o.side][o.price] = @ - q]
          /\ UNCHANGED <<queue, index, inUse>>
      BY <2>2 DEF ReduceInPlace
    <3>2. /\ n \in Order /\ n.client = o.client /\ n.side = o.side /\ n.price = o.price
          /\ n.seq = o.seq /\ n.remaining > 0
      BY <1>2, <1>3, <1>4, <2>2 DEF Order
    <3>3. total' \in [Side -> [Price -> Int]]
      <4>1. /\ total \in [Side -> [Price -> Int]] /\ o.side \in Side /\ o.price \in Price
        BY <1>2, <1>3 DEF Inv, TypeOK, BookInv, IndexMatchesBook
      <4>2. total[o.side][o.price] - q \in Int
        BY <1>4, <4>1
      <4>. QED  BY <3>1, <4>1, <4>2
    <3> HIDE DEF n
    <3>4. BookTypeOK' /\ BookInv'
      BY <1>2, <3>1, <3>2, <3>3, ResizeBook DEF Inv, TypeOK, BookTypeOK
    <3>. QED  BY <1>2, <3>1, <3>2, <3>4 DEF Inv, TypeOK
  <2>. QED  BY <1>1, <2>1, <2>2 DEF Take
<1>9. TypeOK'
  BY <1>2, <1>5, <1>7, <1>8 DEF Trade, Inv, TypeOK, BookTypeOK
<1>10. IncomingIsNew'
  BY <1>1, <1>5, <1>8 DEF Trade, Inv, IncomingIsNew
<1>11. PostOnlyNeverTakes'
  BY <1>2, <1>5 DEF PostOnlyNeverTakes
<1>. QED  BY <1>8, <1>9, <1>10, <1>11 DEF Inv

-----------------------------------------------------------------------------
(* The steps after match.                                                   *)

\* Dropping what is left of the incoming order preserves the invariant.
LEMMA CancelIncomingStep ==
    ASSUME Inv, pc = "match", in.remaining > 0, NEW reason \in RejectReason,
           CancelIncoming(reason)
    PROVE  Inv'
<1> DEFINE e == Report("Canceled", cmd.id, NoId, in, in.price, in.remaining, 0, reason)
<1>1. cmd.id \in OrderId /\ in \in Order
  BY DEF Inv, TypeOK, Command
<1>2. e \in ReportEvent
  <2>1. /\ in.client \in Client \cup {NoClient} /\ in.side \in Side /\ in.price \in Int
        /\ in.remaining \in Nat
    BY <1>1 DEF Order
  <2>. QED  BY <1>1, <2>1, ReportTyped
<1>3. out' \in Seq(ReportEvent \cup TopEvent)
  BY <1>2, EmitTyped DEF CancelIncoming, Inv, TypeOK
<1>4. TypeOK'
  BY <1>3 DEF CancelIncoming, Inv, TypeOK, bookVars
<1>. QED  BY <1>4, QuietStep DEF CancelIncoming, bookVars

\* book_.add of the remainder: it joins a level it cannot cross, as its youngest order.
LEMMA RestIncomingStep == ASSUME Inv, RestIncoming PROVE Inv'
<1>1. /\ pc = "match" /\ \A p \in Price : ~CanMatch(p)
      /\ in.remaining > 0 /\ in.type # "Market" /\ inUse < MaxOrders
      /\ in.price # NoPrice /\ PushBack(cmd.id, in)
      /\ index' = index \cup {cmd.id}
      /\ order' = [order EXCEPT ![cmd.id] = in]
      /\ inUse' = inUse + 1
  BY DEF RestIncoming, MatchDone, Rests
<1>2. /\ cmd.id \in OrderId /\ cmd.id \notin index /\ in \in Order /\ in.client \in Client
      /\ in.price \in Price /\ in.seq = arrival
      /\ \A x \in index : order[x].seq < in.seq
  BY <1>1 DEF Inv, TypeOK, IncomingIsNew, Command
<1>3. \A x \in index : order[x].side = Opposite(in.side)
                           => ~Crosses(in.side, in.price, order[x].price)
  BY <1>1, <1>2, NothingLeftToCross DEF Inv, TypeOK, BookTypeOK, BookInv
<1>4. BookTypeOK' /\ BookInv'
  BY <1>1, <1>2, <1>3, RestBook DEF Inv, TypeOK, BookTypeOK
<1>5. TypeOK'
  BY <1>1, <1>4 DEF RestIncoming, Inv, TypeOK, BookTypeOK
<1>6. ASSUME NEW x \in index' PROVE order'[x].seq <= arrival
  <2>1. CASE x = cmd.id
    BY <1>1, <1>2, <2>1 DEF Inv, TypeOK
  <2>2. CASE x # cmd.id
    BY <1>1, <1>2, <2>2 DEF Inv, TypeOK, IncomingIsNew
  <2>. QED  BY <2>1, <2>2
<1>. QED  BY <1>4, <1>5, <1>6, BookStep DEF RestIncoming

-----------------------------------------------------------------------------
(* The invariance theorem and what follows from it.                         *)

\* best_price is a price of the band or kNoPrice.
LEMMA BestPriceTyped == ASSUME NEW s \in Side PROVE BestPrice(s) \in Price \cup {NoPrice}
<1>1. CASE Occupied(s) = {}
  BY <1>1 DEF BestPrice
<1>2. CASE Occupied(s) # {}
  <2>1. \E p \in Occupied(s) : IsBest(s, p)
    BY <1>2, BestExists DEF IsBest
  <2>2. BestPrice(s) \in Occupied(s)
    BY <1>2, <2>1 DEF BestPrice
  <2>. QED  BY <2>2 DEF Occupied
<1>. QED  BY <1>1, <1>2

\* The event of emit_book_changed is well-formed.
LEMMA BookChangedTyped ==
    ASSUME Inv
    PROVE  BookChanged \in TopEvent /\ BestPrice("Buy") \in Int /\ BestPrice("Sell") \in Int
<1> DEFINE bid == BestPrice("Buy")
           ask == BestPrice("Sell")
           bidQty == IF bid = NoPrice THEN 0 ELSE total["Buy"][bid]
           askQty == IF ask = NoPrice THEN 0 ELSE total["Sell"][ask]
<1>1. bid \in Price \cup {NoPrice} /\ ask \in Price \cup {NoPrice}
  BY BestPriceTyped DEF Side
<1>2. bid \in Int /\ ask \in Int
  BY <1>1, PriceAssumption DEF Price
<1>3. bidQty \in Int /\ askQty \in Int
  <2>1. total \in [Side -> [Price -> Int]]
    BY DEF Inv, TypeOK
  <2>. QED  BY <1>1, <2>1 DEF Side
<1>4. BookChanged = [type |-> "BookChanged", bid |-> bid, bidQty |-> bidQty,
                     ask |-> ask, askQty |-> askQty]
  BY DEF BookChanged
<1>. QED
  <2>1. BookChanged \in TopEvent
    <3> HIDE DEF bid, ask, bidQty, askQty
    <3>. QED  BY <1>2, <1>3, <1>4 DEF TopEvent
  <2>. QED  BY <1>2, <2>1

\* emit_book_changed preserves the invariant.
LEMMA PublishTopStep == ASSUME Inv, PublishTop PROVE Inv'
<1>2. BestPrice("Buy") \in Int /\ BestPrice("Sell") \in Int /\ BookChanged \in TopEvent
  BY BookChangedTyped
<1>5. out' \in Seq(ReportEvent \cup TopEvent)
  BY <1>2, EmitTyped DEF PublishTop, Inv, TypeOK
<1>6. EmptyOrder \in Order
  BY DEF EmptyOrder, Order, Side, OrderType
<1>7. TypeOK'
  BY <1>2, <1>5, <1>6 DEF PublishTop, Return, Inv, TypeOK, bookVars
<1>. QED  BY <1>7, QuietStep DEF PublishTop, Return, bookVars

\* The quiet steps of the dispatch and of the two ends of a call.
LEMMA ControlStep ==
    ASSUME Inv,
           \/ \E c \in Commands : Receive(c)
           \/ \E h \in BOOLEAN : SetHalted(h)
           \/ AdmitNew \/ FullyFilled \/ RestOutsideLevels \/ PublishNothing
    PROVE  Inv'
<1>1. ASSUME NEW c \in Commands, Receive(c) PROVE Inv'
  <2>1. c \in Command /\ c # NoCommand
    BY CommandAssumption
  <2>2. TypeOK'
    BY <1>1, <2>1 DEF Receive, Inv, TypeOK, bookVars
  <2>. QED  BY <1>1, <2>2, QuietStep DEF Receive, bookVars
<1>2. ASSUME NEW h \in BOOLEAN, SetHalted(h) PROVE Inv'
  <2>1. TypeOK'
    BY <1>2 DEF SetHalted, Inv, TypeOK, bookVars
  <2>. QED  BY <1>2, <2>1, QuietStep DEF SetHalted, bookVars
<1>3. CASE AdmitNew
  <2>1. TypeOK'
    BY <1>3 DEF AdmitNew, Inv, TypeOK, bookVars
  <2>. QED  BY <1>3, <2>1, QuietStep DEF AdmitNew, bookVars
<1>4. CASE FullyFilled
  <2>1. TypeOK'
    BY <1>4 DEF FullyFilled, MatchDone, Inv, TypeOK, bookVars
  <2>. QED  BY <1>4, <2>1, QuietStep DEF FullyFilled, bookVars
<1>5. CASE RestOutsideLevels
  <2>1. TypeOK'
    BY <1>5 DEF RestOutsideLevels, MatchDone, Inv, TypeOK, bookVars
  <2>. QED  BY <1>5, <2>1, QuietStep DEF RestOutsideLevels, bookVars
<1>6. CASE PublishNothing
  <2>1. EmptyOrder \in Order
    BY DEF EmptyOrder, Order, Side, OrderType
  <2>2. TypeOK'
    BY <1>6, <2>1 DEF PublishNothing, Return, Inv, TypeOK, bookVars
  <2>. QED  BY <1>6, <2>2, QuietStep DEF PublishNothing, Return, bookVars
<1>. QED  BY <1>1, <1>2, <1>3, <1>4, <1>5, <1>6

\* Every step of process(), and every stutter, preserves the invariant.
THEOREM NextInv == Inv /\ [Next]_vars => Inv'
<1> SUFFICES ASSUME Inv, [Next]_vars PROVE Inv'
  OBVIOUS
<1>1. CASE UNCHANGED vars
  <2>1. UNCHANGED bookVars /\ UNCHANGED <<pc, cmd, in, arrival, out, lastBid, lastAsk, halted>>
    BY <1>1 DEF vars
  <2>2. BookInv'
    BY <2>1, BookUnchanged DEF Inv, TypeOK, BookTypeOK
  <2>. QED
    BY <2>1, <2>2 DEF Inv, TypeOK, IncomingIsNew, PostOnlyNeverTakes, bookVars, CanMatch,
                      IsBest, Occupied, Crosses
<1>2. CASE \/ \E c \in Commands : Receive(c)
           \/ \E h \in BOOLEAN : SetHalted(h)
           \/ AdmitNew \/ FullyFilled \/ RestOutsideLevels \/ PublishNothing
  BY <1>2, ControlStep
<1>3. CASE RejectHalted
  BY <1>3, RejectStep DEF RejectHalted, RejectReason
<1>4. CASE RejectUnknown
  BY <1>4, RejectStep DEF RejectUnknown, RejectReason
<1>5. CASE RejectNew
  <2>1. Rejection \in RejectReason
    BY DEF Rejection, RejectReason
  <2>. QED  BY <1>5, <2>1, RejectStep DEF RejectNew
<1>6. CASE HandleCancel
  BY <1>6, HandleCancelStep
<1>7. CASE ModifyInPlace
  BY <1>7, ModifyInPlaceStep
<1>8. CASE ReplayAsNew
  BY <1>8, ReplayAsNewStep
<1>9. CASE AcceptNew
  BY <1>9, AcceptNewStep
<1>10. ASSUME NEW p \in Price, StpCancelAggressor(p) PROVE Inv'
  BY <1>10, StpCancelAggressorStep
<1>11. ASSUME NEW p \in Price, StpCancelResting(p) PROVE Inv'
  BY <1>11, StpCancelRestingStep
<1>12. ASSUME NEW p \in Price, Trade(p) PROVE Inv'
  BY <1>12, TradeStep
<1>13. CASE CancelRemainder
  BY <1>13, CancelIncomingStep DEF CancelRemainder, MatchDone, RejectReason
<1>14. CASE PoolExhausted
  BY <1>14, CancelIncomingStep DEF PoolExhausted, MatchDone, RejectReason
<1>15. CASE RestIncoming
  BY <1>15, RestIncomingStep
<1>16. CASE PublishTop
  BY <1>16, PublishTopStep
<1>. QED
  BY <1>1, <1>2, <1>3, <1>4, <1>5, <1>6, <1>7, <1>8, <1>9, <1>10, <1>11, <1>12, <1>13,
     <1>14, <1>15, <1>16
     DEF Next, Step

\* The inductive invariant holds in every reachable state.
THEOREM Invariance == Spec => []Inv
<1>. QED  BY InitInv, NextInv, PTL DEF Spec

\* Every variable keeps the type of the C++ object it models, the events included.
THEOREM TypeCorrect == Spec => []TypeOK
  BY Invariance, PTL DEF Inv

\* The id index, the slots and the levels' queues describe the same orders.
THEOREM IndexAgreesWithBook == Spec => []IndexMatchesBook
  BY Invariance, PTL DEF Inv, BookInv

\* No slot leaks, none is given back twice, and the pool is never overdrawn.
THEOREM SlotsStayAccounted == Spec => []SlotsAccounted
  BY Invariance, PTL DEF Inv, BookInv

\* Every level stays in arrival order.
THEOREM LevelsKeepTimePriority == Spec => []TimePriority
  BY Invariance, PTL DEF Inv, BookInv

\* The book is never crossed or locked, inside a call or between calls.
THEOREM BookStaysUncrossed == Spec => []BookUncrossed
  BY Invariance, PTL DEF Inv, BookInv

\* No order rests with nothing left to trade.
THEOREM RestingStaysOpen == Spec => []RestingIsOpen
  BY Invariance, PTL DEF Inv, BookInv

\* A post-only order that was accepted finds nothing to take.
THEOREM PostOnlyIsPassive == Spec => []PostOnlyNeverTakes
  BY Invariance, PTL DEF Inv

-----------------------------------------------------------------------------
(* Price-time priority of what match touches.                               *)

\* The head of the best opposite level, which match takes, comes before every other
\* order of its side: the level order and the best level together say so.
LEMMA HeadHasPriority ==
    ASSUME Inv, pc = "match", NEW p \in Price, CanMatch(p)
    PROVE  HasPriority(Head(queue[Opposite(in.side)][p]))
<1> DEFINE s == Opposite(in.side)
           r == Head(queue[s][p])
<1>1. s \in Side
  BY DEF Inv, TypeOK, Order, Opposite, Side
<1>2. /\ p \in Occupied(s) /\ \A q \in Occupied(s) : ~Better(s, q, p)
  BY DEF CanMatch, IsBest
<1>3. r \in index /\ order[r].side = s /\ order[r].price = p
  BY <1>1, <1>2, HeadOfLevel DEF Inv, TypeOK, BookTypeOK
<1>4. ASSUME NEW i \in index, i # r, order[i].side = s
      PROVE  /\ ~Better(s, order[i].price, p)
             /\ order[i].price = p => order[r].seq < order[i].seq
  <2>1. order[i].price \in Price
    BY DEF Inv, BookInv, IndexMatchesBook
  <2>2. PICK k \in DOMAIN queue[s][order[i].price] : queue[s][order[i].price][k] = i
    BY <1>4 DEF Inv, BookInv, IndexMatchesBook
  <2>3. queue[s][order[i].price] \in Seq(OrderId) /\ queue[s][p] \in Seq(OrderId)
    BY <1>1, <2>1 DEF Inv, TypeOK
  <2>4. order[i].price \in Occupied(s)
    BY <2>1, <2>2, <2>3 DEF Occupied
  <2>5. ASSUME order[i].price = p PROVE order[r].seq < order[i].seq
    <3>1. queue[s][p] # <<>>
      BY <1>2 DEF Occupied
    <3>2. 1 \in DOMAIN queue[s][p] /\ r = queue[s][p][1]
      BY <2>3, <3>1
    <3>3. k \in DOMAIN queue[s][p] /\ queue[s][p][k] = i /\ k # 1
      BY <1>4, <2>2, <2>5, <3>2
    <3>4. 1 < k
      BY <2>3, <3>3, LenProperties
    <3>. QED  BY <1>1, <3>2, <3>3, <3>4 DEF Inv, BookInv, TimePriority
  <2>. QED  BY <1>2, <2>4, <2>5
<1>. QED  BY <1>3, <1>4 DEF HasPriority

\* What match changes in the book is an order of the highest priority on the
\* side it takes from: price first, then time, through every earlier trade,
\* removal, size-down and replay.
THEOREM PriorityOfMatch == Spec => MatchRespectsPriority
<1>1. Inv /\ [Next]_vars => [pc = "match" => \A r \in index : order'[r] # order[r]
                                                  => HasPriority(r)]_vars
  <2> SUFFICES ASSUME Inv, Next, pc = "match", NEW x \in index, order'[x] # order[x]
               PROVE  HasPriority(x)
    OBVIOUS
  <2>1. order \in [OrderId -> Order] /\ x \in OrderId /\ cmd.id \notin index
    BY DEF Inv, TypeOK, IncomingIsNew
  <2>2. \/ \E p \in Price : StpCancelAggressor(p) \/ StpCancelResting(p) \/ Trade(p)
        \/ FullyFilled \/ CancelRemainder \/ PoolExhausted
        \/ RestIncoming \/ RestOutsideLevels
    BY DEF Next, Step, Receive, SetHalted, RejectHalted, AdmitNew, RejectUnknown,
           HandleCancel, ModifyInPlace, ReplayAsNew, IsModify, RejectNew, AcceptNew,
           PublishNothing, PublishTop
  <2>3. CASE FullyFilled \/ CancelRemainder \/ PoolExhausted \/ RestOutsideLevels
    BY <2>3 DEF FullyFilled, CancelRemainder, PoolExhausted, RestOutsideLevels,
                CancelIncoming, bookVars
  <2>4. CASE RestIncoming
    BY <2>1, <2>4 DEF RestIncoming
  <2>5. ASSUME NEW p \in Price, StpCancelAggressor(p) PROVE HasPriority(x)
    BY <2>5 DEF StpCancelAggressor, bookVars
  <2>6. ASSUME NEW p \in Price, StpCancelResting(p) PROVE HasPriority(x)
    <3>1. CanMatch(p) /\ Release(Head(queue[Opposite(in.side)][p]))
      BY <2>6 DEF StpCancelResting
    <3>2. x = Head(queue[Opposite(in.side)][p])
      BY <2>1, <3>1 DEF Release
    <3>. QED  BY <3>1, <3>2, HeadHasPriority
  <2>7. ASSUME NEW p \in Price, Trade(p) PROVE HasPriority(x)
    <3> DEFINE r == Head(queue[Opposite(in.side)][p])
    <3>1. CanMatch(p) /\ Take(r, Traded(r))
      BY <2>7 DEF Trade, OldestAt
    <3>2. x = r
      BY <2>1, <3>1 DEF Take, Release, ReduceInPlace
    <3>. QED  BY <3>1, <3>2, HeadHasPriority
  <2>. QED  BY <2>2, <2>3, <2>4, <2>5, <2>6, <2>7
<1>. QED  BY <1>1, Invariance, PTL DEF Spec, MatchRespectsPriority

\* match does not loop forever, whatever the book and the command: each step that
\* stays in it lowers a natural number.
THEOREM MatchTerminates == Spec => MatchProgress
<1>1. Inv /\ [Next]_vars => [pc = "match" /\ pc' = "match" => MatchWork' < MatchWork]_vars
  <2> SUFFICES ASSUME Inv, Next, pc = "match", pc' = "match" PROVE MatchWork' < MatchWork
    OBVIOUS
  <2>1. in \in Order /\ in.remaining \in Nat /\ inUse \in Int
    BY DEF Inv, TypeOK, Order
  <2>2. \E p \in Price : StpCancelAggressor(p) \/ StpCancelResting(p) \/ Trade(p)
    BY DEF Next, Step, Receive, SetHalted, RejectHalted, AdmitNew, RejectUnknown,
           HandleCancel, ModifyInPlace, ReplayAsNew, IsModify, RejectNew, AcceptNew,
           FullyFilled, CancelRemainder, PoolExhausted, CancelIncoming, RestIncoming,
           RestOutsideLevels, PublishNothing, PublishTop
  <2>3. PICK p \in Price : StpCancelAggressor(p) \/ StpCancelResting(p) \/ Trade(p)
    BY <2>2
  <2>4. CASE StpCancelAggressor(p)
    <3>1. in'.remaining = 0 /\ in.remaining > 0 /\ inUse' = inUse
      BY <2>1, <2>4 DEF StpCancelAggressor, CanMatch, bookVars, Order
    <3>. QED  BY <2>1, <3>1 DEF MatchWork
  <2>5. CASE StpCancelResting(p)
    <3>1. in' = in /\ inUse' = inUse - 1
      BY <2>5 DEF StpCancelResting, Release
    <3>. QED  BY <2>1, <3>1 DEF MatchWork
  <2>6. CASE Trade(p)
    <3> DEFINE r == Head(queue[Opposite(in.side)][p])
               q == Traded(r)
    <3>1. CanMatch(p) /\ in' = [in EXCEPT !.remaining = @ - q] /\ Take(r, q)
      BY <2>6 DEF Trade, OldestAt
    <3>2. order[r] \in Order /\ order[r].remaining > 0 /\ in.remaining > 0
      BY <3>1, MeetsHead
    <3>3. q \in Nat /\ q > 0
      BY <2>1, <3>2 DEF Traded, Order
    <3> HIDE DEF q
    <3>4. in'.remaining = in.remaining - q
      BY <2>1, <3>1 DEF Order
    <3>5. inUse' = inUse \/ inUse' = inUse - 1
      BY <3>1 DEF Take, Release, ReduceInPlace
    <3>. QED  BY <2>1, <3>3, <3>4, <3>5 DEF MatchWork
  <2>. QED  BY <2>3, <2>4, <2>5, <2>6
<1>. QED  BY <1>1, Invariance, PTL DEF Spec, MatchProgress

\* The steps that change the book.
LEMMA BookSteps ==
    ASSUME Next
    PROVE  \/ UNCHANGED bookVars \/ HandleCancel \/ ReplayAsNew
           \/ \E p \in Price : StpCancelResting(p)
           \/ \E p \in Price : Trade(p)
           \/ ModifyInPlace \/ RestIncoming
  BY DEF Next, Step, vars, Receive, SetHalted, RejectHalted, AdmitNew, RejectUnknown, RejectNew,
         AcceptNew, StpCancelAggressor, FullyFilled, CancelRemainder, PoolExhausted,
         CancelIncoming, RestOutsideLevels, PublishNothing, PublishTop

\* What is released is no longer indexed; the other orders stay as they were.
LEMMA ReleaseOthers ==
    ASSUME BookTypeOK, NEW i \in index, Release(i)
    PROVE  \A x \in index' : x \in index /\ x # i /\ order'[x] = order[x]
  BY DEF Release, BookTypeOK

-----------------------------------------------------------------------------
(* The place of an order in its level.                                      *)

AheadIn(q, i) == {q[k] : k \in {k \in DOMAIN q : \E l \in DOMAIN q : k < l /\ q[l] = i}}

\* Who is ahead of i, by positions.
LEMMA AheadMember ==
    ASSUME NEW q, NEW i, NEW x
    PROVE  x \in AheadIn(q, i) <=>
              \E k \in DOMAIN q : \E l \in DOMAIN q : k < l /\ q[l] = i /\ q[k] = x
  BY DEF AheadIn

\* Removing a position puts nobody ahead of anybody.
LEMMA RemoveAhead ==
    ASSUME NEW S, NEW q \in Seq(S), NEW k \in DOMAIN q, NEW i
    PROVE  AheadIn(RemoveAt(q, k), i) \subseteq AheadIn(q, i)
<1> DEFINE r == RemoveAt(q, k)
<1> SUFFICES ASSUME NEW x \in AheadIn(r, i) PROVE x \in AheadIn(q, i)
  OBVIOUS
<1>1. /\ r \in Seq(S) /\ Len(r) = Len(q) - 1
      /\ \A j \in 1..(Len(q) - 1) : r[j] = IF j < k THEN q[j] ELSE q[j + 1]
  BY RemoveAtFacts
<1>2. DOMAIN q = 1..Len(q) /\ Len(q) \in Nat /\ k \in 1..Len(q) /\ DOMAIN r = 1..(Len(q) - 1)
  BY <1>1, LenProperties
<1> HIDE DEF r
<1>3. PICK a \in 1..(Len(q) - 1), b \in 1..(Len(q) - 1) : a < b /\ r[b] = i /\ r[a] = x
  BY <1>2, AheadMember
<1> DEFINE ma == IF a < k THEN a ELSE a + 1
           mb == IF b < k THEN b ELSE b + 1
<1>4. ma \in 1..Len(q) /\ mb \in 1..Len(q) /\ ma < mb
  BY <1>2, <1>3
<1>5. q[ma] = x /\ q[mb] = i
  BY <1>1, <1>3
<1> HIDE DEF ma, mb
<1>. QED  BY <1>2, <1>4, <1>5, AheadMember

\* An order that joins at the tail is ahead of nobody.
LEMMA AppendAhead ==
    ASSUME NEW S, NEW q \in Seq(S), NEW e \in S, NEW i, i # e
    PROVE  AheadIn(Append(q, e), i) \subseteq AheadIn(q, i)
<1> DEFINE r == Append(q, e)
<1> SUFFICES ASSUME NEW x \in AheadIn(r, i) PROVE x \in AheadIn(q, i)
  OBVIOUS
<1>1. /\ DOMAIN q = 1..Len(q) /\ Len(q) \in Nat /\ DOMAIN r = 1..(Len(q) + 1)
      /\ \A j \in 1..Len(q) : r[j] = q[j]
      /\ r[Len(q) + 1] = e
  BY AppendProperties, LenProperties
<1> HIDE DEF r
<1>2. PICK a \in 1..(Len(q) + 1), b \in 1..(Len(q) + 1) : a < b /\ r[b] = i /\ r[a] = x
  BY <1>1, AheadMember
<1>3. b # Len(q) + 1
  BY <1>1, <1>2
<1>4. a \in 1..Len(q) /\ b \in 1..Len(q)
  BY <1>1, <1>2, <1>3
<1>. QED  BY <1>1, <1>2, <1>4, AheadMember

\* The place of i after a step, from the slots and its level before and after.
PlaceKeptOf(i) ==
    /\ order'[i].remaining <= order[i].remaining
    /\ order'[i].price = order[i].price
    /\ Ahead(i)' \subseteq Ahead(i)

\* The place of an order is decided by its slot and its own level.
LEMMA PlaceFromLevel ==
    ASSUME NEW i, order'[i].remaining <= order[i].remaining,
           order'[i].price = order[i].price, order'[i].side = order[i].side,
           AheadIn(queue'[order[i].side][order[i].price], i)
             \subseteq AheadIn(queue[order[i].side][order[i].price], i)
    PROVE  PlaceKeptOf(i)
  BY DEF PlaceKeptOf, Ahead, AheadIn

\* An order that leaves gives its place to nobody it was ahead of.
LEMMA ReleasePlace ==
    ASSUME BookTypeOK, BookInv, NEW r \in index, Release(r), NEW i \in index \cap index'
    PROVE  PlaceKeptOf(i)
<1> DEFINE o == order[r]
           s == order[i].side
           p == order[i].price
<1>1. /\ r \in OrderId /\ i \in OrderId /\ o.side \in Side /\ o.price \in Price
      /\ s \in Side /\ p \in Price /\ order[i].remaining \in Nat
  BY DEF BookTypeOK, BookInv, IndexMatchesBook, Order
<1>2. i # r /\ order'[i] = order[i]
  BY ReleaseOthers
<1>3. PICK k \in DOMAIN queue[o.side][o.price] :
        queue' = [queue EXCEPT ![o.side][o.price] = RemoveAt(@, k)]
  BY DEF Release, Unlink
<1>4. AheadIn(queue'[s][p], i) \subseteq AheadIn(queue[s][p], i)
  <2>1. CASE s = o.side /\ p = o.price
    <3>1. queue'[s][p] = RemoveAt(queue[s][p], k) /\ queue[s][p] \in Seq(OrderId)
          /\ k \in DOMAIN queue[s][p]
      BY <1>1, <1>3, <2>1 DEF BookTypeOK
    <3>. QED  BY <3>1, RemoveAhead
  <2>2. CASE ~(s = o.side /\ p = o.price)
    <3>1. queue'[s][p] = queue[s][p]
      BY <1>1, <1>3, <2>2 DEF BookTypeOK
    <3>. QED  BY <3>1
  <2>. QED  BY <2>1, <2>2
<1>. QED  BY <1>1, <1>2, <1>4, PlaceFromLevel

\* An order that shrinks in place changes nobody's place.
LEMMA ResizePlace ==
    ASSUME BookTypeOK, NEW r \in index, NEW n \in Order,
           n.side = order[r].side, n.price = order[r].price,
           n.remaining <= order[r].remaining,
           order' = [order EXCEPT ![r] = n], queue' = queue,
           NEW i \in index
    PROVE  PlaceKeptOf(i)
<1>1. /\ i \in OrderId /\ order[i].remaining \in Nat
  BY DEF BookTypeOK, Order
<1>2. /\ order'[i].remaining <= order[i].remaining
      /\ order'[i].price = order[i].price /\ order'[i].side = order[i].side
  BY <1>1 DEF BookTypeOK
<1>. QED  BY <1>2, PlaceFromLevel

\* An order that comes to rest gets ahead of nobody.
LEMMA RestPlace ==
    ASSUME BookTypeOK, NEW e \in OrderId, e \notin index, NEW o \in Order, o.price \in Price,
           PushBack(e, o), order' = [order EXCEPT ![e] = o],
           IndexMatchesBook, NEW i \in index
    PROVE  PlaceKeptOf(i)
<1> DEFINE s == order[i].side
           p == order[i].price
<1>1. /\ i \in OrderId /\ s \in Side /\ p \in Price /\ order[i].remaining \in Nat
      /\ o.side \in Side
  BY DEF BookTypeOK, IndexMatchesBook, Order
<1>2. i # e /\ order'[i] = order[i]
  BY <1>1 DEF BookTypeOK
<1>3. queue' = [queue EXCEPT ![o.side][o.price] = Append(@, e)]
  BY DEF PushBack, Enqueue
<1>4. AheadIn(queue'[s][p], i) \subseteq AheadIn(queue[s][p], i)
  <2>1. CASE s = o.side /\ p = o.price
    <3>1. queue'[s][p] = Append(queue[s][p], e) /\ queue[s][p] \in Seq(OrderId)
      BY <1>1, <1>3, <2>1 DEF BookTypeOK
    <3>. QED  BY <1>2, <3>1, AppendAhead
  <2>2. CASE ~(s = o.side /\ p = o.price)
    <3>1. queue'[s][p] = queue[s][p]
      BY <1>1, <1>3, <2>2 DEF BookTypeOK
    <3>. QED  BY <3>1
  <2>. QED  BY <2>1, <2>2
<1>. QED  BY <1>1, <1>2, <1>4, PlaceFromLevel

\* What handle_modify makes of an order whose size goes down.
LEMMA ResizedOrder ==
    ASSUME NEW o \in Order, NEW q \in Nat
    PROVE  LET n == [o EXCEPT !.remaining = q, !.quantity = q + (o.quantity - q)] IN
           n \in Order /\ n.side = o.side /\ n.price = o.price /\ n.remaining = q
<1>1. o.quantity \in Nat /\ q + (o.quantity - q) = o.quantity
  BY DEF Order
<1>. QED  BY <1>1 DEF Order

\* While an order stays in the book nothing gets ahead of it, it is never repriced
\* and it never grows: removals from the middle, partial fills, size-downs and the
\* arrival of other orders keep its place.
THEOREM PlacesAreKept == Spec => PlaceKept
<1>1. Inv /\ [Next]_vars => [\A i \in index \cap index' : PlaceKeptOf(i)]_vars
  <2> SUFFICES ASSUME Inv, Next, NEW i \in index, i \in index' PROVE PlaceKeptOf(i)
    OBVIOUS
  <2>0. BookTypeOK /\ BookInv /\ order[i].remaining \in Nat
    BY DEF Inv, TypeOK, BookTypeOK, Order
  <2>1. CASE UNCHANGED bookVars
    <3>1. order' = order /\ queue' = queue
      BY <2>1 DEF bookVars
    <3>2. order'[i].remaining <= order[i].remaining
      BY <2>0, <3>1
    <3>. QED  BY <3>1, <3>2, PlaceFromLevel
  <2>2. ASSUME NEW r \in index, Release(r) PROVE PlaceKeptOf(i)
    BY <2>0, <2>2, ReleasePlace
  <2>3. CASE HandleCancel \/ ReplayAsNew
    <3>1. cmd.id \in index /\ Release(cmd.id)
      BY <2>3 DEF HandleCancel, ReplayAsNew, IsModify
    <3>. QED  BY <2>2, <3>1
  <2>4. ASSUME NEW p \in Price, StpCancelResting(p) PROVE PlaceKeptOf(i)
    <3>1. /\ Head(queue[Opposite(in.side)][p]) \in index
          /\ Release(Head(queue[Opposite(in.side)][p]))
      BY <2>4, MeetsHead DEF StpCancelResting
    <3>. QED  BY <2>2, <3>1
  <2>5. ASSUME NEW p \in Price, Trade(p) PROVE PlaceKeptOf(i)
    <3> DEFINE r == Head(queue[Opposite(in.side)][p])
               q == Traded(r)
    <3>1. pc = "match" /\ CanMatch(p) /\ Take(r, q)
      BY <2>5 DEF Trade, OldestAt
    <3>2. r \in index /\ order[r] \in Order
      BY <3>1, MeetsHead
    <3>3. q \in Nat /\ q <= order[r].remaining /\ order[r].remaining \in Nat
      BY <3>1, <3>2, TradeReports DEF Order
    <3> HIDE DEF r, q
    <3>4. CASE Release(r)
      BY <2>2, <3>2, <3>4
    <3>5. CASE ReduceInPlace(r, q)
      <4> DEFINE n == [order[r] EXCEPT !.remaining = @ - q]
      <4>1. /\ n \in Order /\ n.side = order[r].side /\ n.price = order[r].price
            /\ n.remaining <= order[r].remaining
        BY <3>2, <3>3 DEF Order
      <4>2. order' = [order EXCEPT ![r] = n] /\ queue' = queue
        BY <3>5 DEF ReduceInPlace
      <4> HIDE DEF n
      <4>. QED  BY <2>0, <3>2, <4>1, <4>2, ResizePlace
    <3>. QED  BY <3>1, <3>4, <3>5 DEF Take
  <2>6. CASE ModifyInPlace
    <3> DEFINE o == order[cmd.id]
               n == [o EXCEPT !.remaining = cmd.qty,
                              !.quantity = cmd.qty + (o.quantity - cmd.qty)]
    <3>1. cmd.id \in index /\ o \in Order /\ cmd.qty \in Nat /\ cmd.qty < o.remaining
      BY <2>6 DEF ModifyInPlace, IsModify, KeepsPriority, Inv, TypeOK, Command
    <3>3. order' = [order EXCEPT ![cmd.id] = n] /\ queue' = queue
      BY <2>6 DEF ModifyInPlace
    <3>2. /\ n \in Order /\ n.side = o.side /\ n.price = o.price /\ n.remaining <= o.remaining
      <4>1. o.remaining \in Nat
        BY <3>1 DEF Order
      <4>2. n \in Order /\ n.side = o.side /\ n.price = o.price /\ n.remaining = cmd.qty
        BY <3>1, ResizedOrder, Zenon
      <4> HIDE DEF n
      <4>. QED  BY <3>1, <4>1, <4>2
    <3> HIDE DEF n
    <3>. QED  BY <2>0, <3>1, <3>2, <3>3, ResizePlace
  <2>7. CASE RestIncoming
    <3>1. /\ cmd.id \in OrderId /\ cmd.id \notin index /\ in \in Order /\ in.price \in Price
      BY <2>7 DEF RestIncoming, MatchDone, Inv, TypeOK, IncomingIsNew, Command
    <3>2. PushBack(cmd.id, in) /\ order' = [order EXCEPT ![cmd.id] = in]
      BY <2>7 DEF RestIncoming
    <3>. QED  BY <2>0, <3>1, <3>2, RestPlace DEF BookInv
  <2>. QED  BY <2>1, <2>3, <2>4, <2>5, <2>6, <2>7, BookSteps
<1>2. [\A i \in index \cap index' : PlaceKeptOf(i)]_vars
         => [\A i \in index \cap index' :
               /\ order'[i].remaining <= order[i].remaining
               /\ order'[i].price = order[i].price
               /\ Ahead(i)' \subseteq Ahead(i)]_vars
  BY DEF PlaceKeptOf
<1>. QED  BY <1>1, <1>2, Invariance, PTL DEF Spec, PlaceKept

-----------------------------------------------------------------------------
(* The matching core implements the price-time book of PriceTimeBook: the   *)
(* initial state maps to an initial state, and every step of process()      *)
(* maps to a step of the abstract book or to a stutter.                     *)

\* What the mapping sees of a slot: the record determines the id.
LEMMA SummaryTyped ==
    ASSUME NEW i \in OrderId, NEW o \in Order, o.client \in Client,
           o.price \in Price \cup {NoPrice}
    PROVE  Summary(i, o) \in Abstract!Order
<1>1. /\ o.client \in Client /\ o.side \in Side /\ o.price \in Abstract!Price \cup {NoPrice}
      /\ o.remaining \in Nat /\ o.seq \in Nat /\ Abstract!Side = Side
  BY DEF Order, Price, Abstract!Price, Side, Abstract!Side
<1>. QED  BY <1>1 DEF Summary, Abstract!Order

\* Resizing the slot resizes the summary.
LEMMA SummaryResized ==
    ASSUME NEW i, NEW o \in Order, NEW v
    PROVE  Summary(i, [o EXCEPT !.remaining = v]) = [Summary(i, o) EXCEPT !.remaining = v]
  BY DEF Summary, Order

\* Taking one order out of the book takes its summary out of the resting set.
LEMMA RestingWithout ==
    ASSUME NEW r \in index, index' = index \ {r},
           \A x \in index' : order'[x] = order[x]
    PROVE  Resting' = Resting \ {Summary(r, order[r])}
<1>1. \A x \in index \ {r} : Summary(x, order[x]) # Summary(r, order[r])
  BY DEF Summary
<1>2. Resting' = {Summary(i, order'[i]) : i \in index'}
  BY DEF Resting, Summary
<1>3. Resting' = {Summary(i, order[i]) : i \in index \ {r}}
  BY <1>2
<1>. QED  BY <1>1, <1>3 DEF Resting

\* Changing the slot of one order replaces its summary.
LEMMA RestingChanged ==
    ASSUME NEW r \in index, index' = index,
           \A x \in index \ {r} : order'[x] = order[x]
    PROVE  Resting' = (Resting \ {Summary(r, order[r])}) \cup {Summary(r, order'[r])}
<1>1. \A x \in index \ {r} : Summary(x, order[x]) # Summary(r, order[r])
  BY DEF Summary
<1>2. Resting' = {Summary(i, order'[i]) : i \in index}
  BY DEF Resting, Summary
<1>3. Resting' = {Summary(i, order[i]) : i \in index \ {r}} \cup {Summary(r, order'[r])}
  BY <1>2
<1>4. Resting \ {Summary(r, order[r])} = {Summary(i, order[i]) : i \in index \ {r}}
  BY <1>1 DEF Resting
<1>. QED  BY <1>3, <1>4

\* While match runs the taker is `incoming`, a well-formed order.
LEMMA TakerIsIncoming ==
    ASSUME Inv, pc = "match"
    PROVE  /\ Taker = Summary(cmd.id, in)
           /\ Taker \in Abstract!Order /\ Taker # NoCommand
<1>1. Taker = Summary(cmd.id, in)
  BY DEF Taker
<1>2. /\ cmd.id \in OrderId /\ in \in Order /\ in.client \in Client
      /\ in.price \in Price \cup {NoPrice}
  BY DEF Inv, TypeOK, IncomingIsNew, Command
<1>. QED  BY <1>1, <1>2, SummaryTyped, TakerAssumption

\* The head of the best opposite level, which match takes from, is the order
\* the abstract taker meets next.
LEMMA HeadIsNext ==
    ASSUME Inv, NEW p \in Price, pc = "match", CanMatch(p)
    PROVE  LET r == Head(queue[Opposite(in.side)][p]) IN
           /\ r \in index /\ order[r] \in Order /\ order[r].remaining > 0
           /\ Abstract!NextToMeet(Summary(r, order[r]))
<1> DEFINE r == Head(queue[Opposite(in.side)][p])
           sum == Summary(r, order[r])
<1>1. /\ r \in index /\ r \in OrderId /\ order[r] \in Order /\ order[r].remaining > 0
      /\ order[r].price = p /\ in \in Order
  BY MeetsHead
<1>2. HasPriority(r)
  BY HeadHasPriority
<1>3. order[r].side = Opposite(in.side) /\ order[r].side \in Side /\ in.side \in Side
  <2>1. in.side \in Side /\ Opposite(in.side) \in Side
    BY <1>1 DEF Order, Opposite, Side
  <2>2. p \in Occupied(Opposite(in.side))
    BY DEF CanMatch, IsBest
  <2>. QED  BY <2>1, <2>2, HeadOfLevel DEF Inv, TypeOK, BookTypeOK
<1>4. Taker = Summary(cmd.id, in)
  BY TakerIsIncoming
<1>5. Crosses(in.side, in.price, p)
  BY DEF CanMatch, Crosses, Inv, IncomingIsNew
<1> HIDE DEF r
<1>6. ASSUME NEW x \in index, x # r, order[x].side = order[r].side
      PROVE  Abstract!Before(sum, Summary(x, order[x]))
  <2>1. order[x].price \in Price /\ order[r].price \in Price
    BY <1>1 DEF Inv, BookInv, IndexMatchesBook
  <2>2. /\ ~Better(order[r].side, order[x].price, order[r].price)
        /\ order[x].price = order[r].price => order[r].seq < order[x].seq
    BY <1>2, <1>6 DEF HasPriority
  <2>3. \/ Better(order[r].side, order[r].price, order[x].price)
        \/ order[x].price = order[r].price
    BY <2>1, <2>2, PriceAssumption DEF Better, Price
  <2>. QED
    BY <2>2, <2>3 DEF Abstract!Before, Abstract!Better, Better, Summary
<1>7. sum \in Resting
  BY <1>1 DEF Resting
<1>8. sum.side = Abstract!Opposite(Taker.side)
  BY <1>3, <1>4 DEF Abstract!Opposite, Opposite, Summary
<1>9. Abstract!Crosses(Taker.side, Taker.price, sum.price)
  BY <1>1, <1>4, <1>5 DEF Abstract!Crosses, Crosses, Summary
<1>10. ASSUME NEW o \in Resting \ {sum}, o.side = sum.side PROVE Abstract!Before(sum, o)
  <2>1. PICK x \in index : o = Summary(x, order[x])
    BY DEF Resting
  <2>2. x # r /\ order[x].side = order[r].side
    BY <1>10, <2>1 DEF Summary
  <2>. QED  BY <1>6, <2>1, <2>2
<1>11. Abstract!NextToMeet(sum)
  BY <1>7, <1>8, <1>9, <1>10 DEF Abstract!NextToMeet
<1>. QED  BY <1>1, <1>11 DEF r

\* When the loop guard of match fails with quantity left, the abstract taker has
\* nothing to meet either.
LEMMA NothingToMeetAfterMatch ==
    ASSUME Inv, MatchDone, in.remaining > 0
    PROVE  Abstract!NothingToMeet
<1>1. /\ pc = "match" /\ \A p \in Price : ~CanMatch(p)
  BY DEF MatchDone
<1>2. in \in Order /\ Taker = Summary(cmd.id, in)
  BY <1>1, TakerIsIncoming DEF Inv, TypeOK
<1>3. ASSUME NEW o \in Resting, Abstract!NextToMeet(o) PROVE FALSE
  <2>1. PICK x \in index : o = Summary(x, order[x])
    BY DEF Resting
  <2>2. /\ order[x].side = Opposite(in.side)
        /\ Crosses(in.side, in.price, order[x].price)
    BY <1>2, <1>3, <2>1 DEF Abstract!NextToMeet, Abstract!Opposite, Opposite,
                            Abstract!Crosses, Crosses, Summary
  <2>. QED  BY <1>1, <1>2, <2>2, NothingLeftToCross DEF Inv, TypeOK, BookTypeOK, BookInv
<1>. QED  BY <1>3 DEF Abstract!NothingToMeet

-----------------------------------------------------------------------------
(* The steps of process(), one lemma per abstract action they map to.       *)

AbstractStep == Abstract!Next \/ UNCHANGED <<Resting, Taker>>

\* The resting set depends on the index and the slots only.
LEMMA RestingUnchanged ==
    ASSUME UNCHANGED <<index, order>> PROVE Resting' = Resting
  BY DEF Resting, Summary

\* handle_new accepts: a younger order than all that rest becomes the taker.
LEMMA AcceptNewArrives == ASSUME Inv, AcceptNew PROVE AbstractStep
<1>1. /\ pc = "new" /\ pc' = "match" /\ Rejection = "None" /\ cmd' = cmd
      /\ arrival' = arrival + 1 /\ index' = index /\ order' = order
      /\ in' = [client |-> cmd.client, side |-> cmd.side, type |-> cmd.ordType,
                price |-> Limit, quantity |-> cmd.qty, remaining |-> cmd.qty,
                seq |-> arrival']
  BY DEF AcceptNew, bookVars
<1>2. Inv' /\ Taker = NoCommand
  BY <1>1, AcceptNewStep DEF Taker
<1>3. Taker' = Summary(cmd.id, in') /\ Taker' \in Abstract!Order
  <2>1. in'.client \in Client /\ in' \in Order /\ in'.price \in Price \cup {NoPrice}
        /\ cmd.id \in OrderId
    BY <1>1, <1>2 DEF Inv, TypeOK, IncomingIsNew, Command
  <2>2. Taker' = Summary(cmd.id, in')
    BY <1>1 DEF Taker, Summary
  <2>. QED  BY <2>1, <2>2, SummaryTyped
<1>4. Resting' = Resting
  BY <1>1, RestingUnchanged
<1>5. cmd.id \notin index /\ in'.remaining > 0
  <2>1. cmd.qty # 0 /\ cmd.id \notin index
    BY <1>1 DEF Rejection
  <2>2. cmd.qty \in Nat
    BY <1>1 DEF Inv, TypeOK, Command
  <2>. QED  BY <1>1, <2>1, <2>2
<1>6. ASSUME NEW o \in Resting PROVE o.id # Taker'.id /\ o.seq < Taker'.seq
  <2>1. PICK x \in index : o = Summary(x, order[x])
    BY DEF Resting
  <2>2. order[x].seq \in Nat /\ order[x].seq <= arrival /\ arrival \in Nat
    BY DEF Inv, TypeOK, IncomingIsNew, Order
  <2>. QED  BY <1>1, <1>3, <1>5, <2>1, <2>2 DEF Summary
<1>7. Abstract!Arrive
  BY <1>2, <1>3, <1>4, <1>5, <1>6 DEF Abstract!Arrive, Abstract!Ids, Summary
<1>. QED  BY <1>7 DEF AbstractStep, Abstract!Next

\* handle_cancel, and the removal a replayed modify starts with.
LEMMA ReleaseCancels ==
    ASSUME Inv, pc = "dispatch", cmd.id \in index, Release(cmd.id), pc' # "match"
    PROVE  AbstractStep
<1> DEFINE o == Summary(cmd.id, order[cmd.id])
<1>1. index' = index \ {cmd.id} /\ \A x \in index' : order'[x] = order[x]
  BY DEF Release, Inv, TypeOK
<1>2. Resting' = Resting \ {o} /\ o \in Resting
  BY <1>1, RestingWithout DEF Resting
<1>3. Abstract!Cancel(o)
  BY <1>2 DEF Abstract!Cancel, Taker
<1>. QED  BY <1>2, <1>3 DEF AbstractStep, Abstract!Next

\* A size-down at the same price.
LEMMA ModifyShrinks == ASSUME Inv, ModifyInPlace PROVE AbstractStep
<1> DEFINE i == cmd.id
           o == Summary(i, order[i])
           n == [order[i] EXCEPT !.remaining = cmd.qty,
                                 !.quantity = cmd.qty + (order[i].quantity - cmd.qty)]
<1>1. /\ pc = "dispatch" /\ pc' = "publish" /\ i \in index /\ i \in OrderId
      /\ cmd.qty > 0 /\ cmd.qty < order[i].remaining
      /\ index' = index /\ order' = [order EXCEPT ![i] = n]
  BY DEF ModifyInPlace, IsModify, KeepsPriority, Inv, TypeOK
<1>2. /\ order \in [OrderId -> Order] /\ order[i] \in Order /\ cmd.qty \in Nat
      /\ order[i].remaining \in Nat
  BY <1>1 DEF Inv, TypeOK, Command, Order
<1>3. Summary(i, n) = [o EXCEPT !.remaining = cmd.qty]
  BY <1>2 DEF Summary, Order
<1> HIDE DEF n
<1>4. Resting' = (Resting \ {o}) \cup {[o EXCEPT !.remaining = cmd.qty]} /\ o \in Resting
  <2>1. order'[i] = n /\ \A x \in index \ {i} : order'[x] = order[x]
    BY <1>1, <1>2 DEF Inv, TypeOK
  <2>. QED  BY <1>1, <1>3, <2>1, RestingChanged DEF Resting
<1>5. o.remaining = order[i].remaining /\ cmd.qty \in 1..(o.remaining - 1)
  BY <1>1, <1>2 DEF Summary
<1>6. Taker = NoCommand /\ Taker' = NoCommand
  BY <1>1 DEF Taker
<1>7. Abstract!Shrink(o)
  BY <1>4, <1>5, <1>6 DEF Abstract!Shrink
<1>. QED  BY <1>4, <1>7 DEF AbstractStep, Abstract!Next

\* Self-trade prevention that cancels the aggressor.
LEMMA StpStopsTaker ==
    ASSUME Inv, NEW p \in Price, StpCancelAggressor(p) PROVE AbstractStep
<1> DEFINE r == Head(queue[Opposite(in.side)][p])
           o == Summary(r, order[r])
<1>1. /\ pc = "match" /\ pc' = pc /\ cmd' = cmd /\ CanMatch(p) /\ SelfTrade(r)
      /\ Stp = "CancelAggressor" /\ in' = [in EXCEPT !.remaining = 0]
      /\ index' = index /\ order' = order
  BY DEF StpCancelAggressor, bookVars
<1>2. r \in index /\ Abstract!NextToMeet(o)
  BY <1>1, HeadIsNext
<1>3. /\ Taker = Summary(cmd.id, in) /\ Taker # NoCommand /\ in \in Order
  BY <1>1, TakerIsIncoming DEF Inv, TypeOK
<1>4. Taker' = [Taker EXCEPT !.remaining = 0]
  BY <1>1, <1>3 DEF Taker, Summary, Order
<1>5. Taker.remaining > 0 /\ o.client = Taker.client
  BY <1>1, <1>3 DEF CanMatch, SelfTrade, Summary
<1>6. Abstract!Stop(o) /\ o \in Resting
  BY <1>1, <1>2, <1>3, <1>4, <1>5, RestingUnchanged DEF Abstract!Stop, Resting
<1>. QED  BY <1>6 DEF AbstractStep, Abstract!Next

\* Self-trade prevention that takes the resting order out.
LEMMA StpPullsResting ==
    ASSUME Inv, NEW p \in Price, StpCancelResting(p) PROVE AbstractStep
<1> DEFINE r == Head(queue[Opposite(in.side)][p])
           o == Summary(r, order[r])
<1>1. /\ pc = "match" /\ pc' = pc /\ cmd' = cmd /\ in' = in /\ CanMatch(p)
      /\ SelfTrade(r) /\ Stp = "CancelResting" /\ Release(r)
  BY DEF StpCancelResting
<1>2. r \in index /\ Abstract!NextToMeet(o)
  BY <1>1, HeadIsNext
<1>3. Taker = Summary(cmd.id, in) /\ Taker # NoCommand /\ Taker' = Taker
  BY <1>1, TakerIsIncoming DEF Taker, Summary
<1>4. Taker.remaining > 0 /\ o.client = Taker.client
  BY <1>1, <1>3 DEF CanMatch, SelfTrade, Summary
<1>5. index' = index \ {r} /\ \A x \in index' : order'[x] = order[x]
  BY <1>1, <1>2 DEF Release, Inv, TypeOK
<1>6. Resting' = Resting \ {o} /\ o \in Resting
  BY <1>2, <1>5, RestingWithout DEF Resting
<1>7. Abstract!Pull(o)
  BY <1>1, <1>2, <1>3, <1>4, <1>6 DEF Abstract!Pull
<1>. QED  BY <1>6, <1>7 DEF AbstractStep, Abstract!Next

\* A fill: the quantity, what is left of both, and whether the order stays.
LEMMA TradeTrades == ASSUME Inv, NEW p \in Price, Trade(p) PROVE AbstractStep
<1> DEFINE r == Head(queue[Opposite(in.side)][p])
           o == Summary(r, order[r])
           q == Traded(r)
<1>1. /\ pc = "match" /\ pc' = pc /\ cmd' = cmd /\ CanMatch(p) /\ ~SelfTrade(r)
      /\ in' = [in EXCEPT !.remaining = @ - q] /\ Take(r, q)
  BY DEF Trade, OldestAt
<1>2. /\ r \in index /\ order[r] \in Order /\ Abstract!NextToMeet(o)
      /\ order \in [OrderId -> Order] /\ r \in OrderId
  BY <1>1, HeadIsNext DEF Inv, TypeOK
<1>3. Taker = Summary(cmd.id, in) /\ Taker # NoCommand /\ in \in Order
  BY <1>1, TakerIsIncoming DEF Inv, TypeOK
<1>4. /\ Taker.remaining > 0
      /\ ~(o.client = Taker.client /\ (Stp = "CancelResting" \/ Stp = "CancelAggressor"))
  BY <1>1, <1>3 DEF CanMatch, SelfTrade, Summary
<1>5. q = Abstract!Least(Taker.remaining, o.remaining) /\ o.remaining = order[r].remaining
  <2>1. in.remaining \in Nat /\ order[r].remaining \in Nat
    BY <1>2, <1>3 DEF Order
  <2>2. Taker.remaining = in.remaining /\ o.remaining = order[r].remaining
    BY <1>3 DEF Summary
  <2>. QED  BY <2>1, <2>2 DEF Traded, Abstract!Least
<1> HIDE DEF q
<1>6. Taker' = [Taker EXCEPT !.remaining = @ - q]
  BY <1>1, <1>3 DEF Taker, Summary, Order
<1>7. Resting' = (Resting \ {o}) \cup
                 IF o.remaining = q THEN {} ELSE {[o EXCEPT !.remaining = @ - q]}
  <2>1. CASE order[r].remaining = q /\ Release(r)
    <3>1. index' = index \ {r} /\ \A x \in index' : order'[x] = order[x]
      BY <1>2, <2>1 DEF Release, Inv, TypeOK
    <3>. QED  BY <1>2, <1>5, <2>1, <3>1, RestingWithout
  <2>2. CASE order[r].remaining # q /\ ReduceInPlace(r, q)
    <3> DEFINE left == order[r].remaining - q
               n == [order[r] EXCEPT !.remaining = left]
    <3>1. index' = index /\ order' = [order EXCEPT ![r] = n]
      BY <2>2 DEF ReduceInPlace
    <3>2. Summary(r, n) = [o EXCEPT !.remaining = @ - q]
      <4>1. left = o.remaining - q
        BY <1>5
      <4> HIDE DEF left
      <4>2. Summary(r, n) = [o EXCEPT !.remaining = left]
        BY <1>2, SummaryResized
      <4>. QED  BY <4>1, <4>2
    <3> HIDE DEF n
    <3>3. order'[r] = n /\ \A x \in index \ {r} : order'[x] = order[x]
      BY <1>2, <3>1 DEF Inv, TypeOK
    <3>. QED  BY <1>2, <1>5, <2>2, <3>1, <3>2, <3>3, RestingChanged
  <2>. QED  BY <1>1, <2>1, <2>2 DEF Take
<1>8. Abstract!Trade(o) /\ o \in Resting
  BY <1>2, <1>3, <1>4, <1>5, <1>6, <1>7 DEF Abstract!Trade, Resting
<1>. QED  BY <1>8 DEF AbstractStep, Abstract!Next

\* What is left of the incoming order is dropped, or nothing is left of it.
LEMMA IncomingLeaves ==
    ASSUME Inv, MatchDone, UNCHANGED <<index, order>>, pc' # "match"
    PROVE  AbstractStep
<1>1. pc = "match" /\ in \in Order /\ Taker = Summary(cmd.id, in) /\ Taker # NoCommand
  BY TakerIsIncoming DEF MatchDone, Inv, TypeOK
<1>2. Taker.remaining = in.remaining /\ in.remaining \in Nat
  BY <1>1 DEF Summary, Order
<1>3. Taker.remaining = 0 \/ Abstract!NothingToMeet
  BY <1>2, NothingToMeetAfterMatch
<1>4. Taker' = NoCommand /\ Resting' = Resting
  BY RestingUnchanged DEF Taker
<1>5. Abstract!Leave
  BY <1>1, <1>3, <1>4 DEF Abstract!Leave
<1>. QED  BY <1>5 DEF AbstractStep, Abstract!Next

\* What is left of a limit order joins the book.
LEMMA IncomingRests == ASSUME Inv, RestIncoming PROVE AbstractStep
<1>1. /\ MatchDone /\ in.remaining > 0 /\ pc' = "publish"
      /\ index' = index \cup {cmd.id} /\ order' = [order EXCEPT ![cmd.id] = in]
  BY DEF RestIncoming
<1>2. /\ pc = "match" /\ cmd.id \notin index /\ cmd.id \in OrderId
      /\ Taker = Summary(cmd.id, in) /\ Taker # NoCommand
  BY <1>1, TakerIsIncoming DEF MatchDone, Inv, TypeOK, IncomingIsNew, Command
<1>3. order'[cmd.id] = in /\ \A x \in index : order'[x] = order[x]
  BY <1>1, <1>2 DEF Inv, TypeOK
<1>4. Resting' = Resting \cup {Taker}
  <2>1. Resting' = {Summary(i, order'[i]) : i \in index'}
    BY DEF Resting, Summary
  <2>2. Resting' = {Summary(i, order[i]) : i \in index} \cup {Summary(cmd.id, in)}
    BY <1>1, <1>3, <2>1
  <2>. QED  BY <1>2, <2>2 DEF Resting
<1>5. Taker' = NoCommand /\ Taker.remaining > 0
  BY <1>1, <1>2 DEF Taker, Summary
<1>6. Abstract!Rest
  BY <1>1, <1>2, <1>4, <1>5, NothingToMeetAfterMatch DEF Abstract!Rest
<1>. QED  BY <1>6 DEF AbstractStep, Abstract!Next

\* Dispatch, rejections and publication neither match nor change the book.
LEMMA OutsideMatch ==
    ASSUME UNCHANGED <<index, order>>, pc # "match", pc' # "match"
    PROVE  AbstractStep
  BY RestingUnchanged DEF AbstractStep, Taker

\* Every step of process() is a step of the price-time book or leaves it alone.
LEMMA StepImplements == ASSUME Inv, [Next]_vars PROVE AbstractStep
<1>1. CASE UNCHANGED vars
  BY <1>1 DEF vars, bookVars, AbstractStep, Resting, Taker, Summary
<1>2. CASE \/ \E c \in Commands : Receive(c)
           \/ \E h \in BOOLEAN : SetHalted(h)
           \/ RejectHalted \/ AdmitNew \/ RejectUnknown \/ RejectNew
           \/ PublishNothing \/ PublishTop
  BY <1>2, OutsideMatch
     DEF Receive, SetHalted, RejectHalted, AdmitNew, RejectUnknown, RejectNew,
         PublishNothing, PublishTop, Return, bookVars
<1>3. CASE HandleCancel
  BY <1>3, ReleaseCancels DEF HandleCancel
<1>4. CASE ModifyInPlace
  BY <1>4, ModifyShrinks
<1>5. CASE ReplayAsNew
  <2>1. UNCHANGED in /\ pc = "dispatch" /\ cmd.id \in index /\ Release(cmd.id) /\ pc' # "match"
    BY <1>5 DEF ReplayAsNew, IsModify
  <2>. QED  BY <2>1, ReleaseCancels
<1>6. CASE AcceptNew
  BY <1>6, AcceptNewArrives
<1>7. ASSUME NEW p \in Price, StpCancelAggressor(p) \/ StpCancelResting(p) \/ Trade(p)
      PROVE  AbstractStep
  BY <1>7, StpStopsTaker, StpPullsResting, TradeTrades
<1>8. CASE FullyFilled \/ CancelRemainder \/ PoolExhausted \/ RestOutsideLevels
  BY <1>8, IncomingLeaves
     DEF FullyFilled, CancelRemainder, PoolExhausted, RestOutsideLevels, CancelIncoming, bookVars
<1>9. CASE RestIncoming
  BY <1>9, IncomingRests
<1>. QED  BY <1>1, <1>2, <1>3, <1>4, <1>5, <1>6, <1>7, <1>8, <1>9 DEF Next, Step

\* A newly constructed engine is an empty price-time book.
LEMMA InitImplements == ASSUME Init PROVE Abstract!Init
  BY DEF Init, Abstract!Init, Resting, Taker

\* Every behaviour of process() over any commands, prices, pool size and
\* self-trade-prevention mode is a behaviour of the price-time book.
THEOREM Implementation == Spec => ImplementsPriceTimeBook
<1>1. Init => Abstract!Init
  BY InitImplements
<1>2. Inv /\ [Next]_vars => [Abstract!Next]_(Abstract!vars)
  BY StepImplements DEF AbstractStep, Abstract!vars
<1>. QED  BY <1>1, <1>2, Invariance, PTL DEF Spec, ImplementsPriceTimeBook, Abstract!Spec

-----------------------------------------------------------------------------
(* Sums over finite sets, in the form MapThenSumSet computes them.          *)

Pick(s) == CHOOSE x \in s : TRUE

\* g is the function MapThenSumSet computes for the summands f on subsets of S.
IsSum(g, f, S) ==
    g = [s \in SUBSET S |-> IF s = {} THEN 0 ELSE f[Pick(s)] + g[s \ {Pick(s)}]]
SumOver(f, S) == (CHOOSE g : IsSum(g, f, S))[S]

-----------------------------------------------------------------------------
(* Induction on the size of a finite set, in the form the provers take.     *)

\* Among finite sets, one of the least size: the shape every induction on the
\* size of a set takes below, applied to the sets a claim would fail for.
LEMMA SmallestSet ==
    ASSUME NEW F, F # {}, \A s \in F : IsFiniteSet(s)
    PROVE  \E s \in F : \A t \in F : Cardinality(s) <= Cardinality(t)
<1> DEFINE N == {Cardinality(s) : s \in F}
<1>1. \A s \in F : Cardinality(s) \in Nat
  BY FS_CardinalityType
<1>2. N \in SUBSET Nat /\ N # {}
  BY <1>1
<1>3. PICK m \in N : \A n \in N : m <= n
  BY <1>2, NatLeast
<1>4. PICK s \in F : m = Cardinality(s)
  BY <1>3
<1>. QED  BY <1>3, <1>4

\* Taking one element out of a non-empty finite set makes it smaller.
LEMMA PickSmaller ==
    ASSUME NEW s, s # {}, IsFiniteSet(s)
    PROVE  /\ Pick(s) \in s
           /\ IsFiniteSet(s \ {Pick(s)})
           /\ Cardinality(s \ {Pick(s)}) < Cardinality(s)
<1>1. Pick(s) \in s
  BY DEF Pick
<1>2. /\ IsFiniteSet(s \ {Pick(s)})
      /\ Cardinality(s \ {Pick(s)}) = Cardinality(s) - 1
  BY <1>1, FS_RemoveElement
<1>3. Cardinality(s) \in Nat
  BY FS_CardinalityType
<1>. QED  BY <1>1, <1>2, <1>3

-----------------------------------------------------------------------------
(* The sum function exists and is unique.                                   *)

\* Two sum functions agree on the finite sets both are about.
LEMMA SumUnique ==
    ASSUME NEW f, NEW S, NEW T, NEW g, NEW h, IsSum(g, f, S), IsSum(h, f, T),
           NEW u, u \subseteq S, u \subseteq T, IsFiniteSet(u)
    PROVE  g[u] = h[u]
<1> DEFINE F == {v \in SUBSET u : g[v] # h[v]}
<1> SUFFICES ASSUME F # {} PROVE FALSE
  OBVIOUS
<1>1. \A v \in F : IsFiniteSet(v)
  BY FS_Subset
<1> HIDE DEF F
<1>2. PICK v \in F : \A w \in F : Cardinality(v) <= Cardinality(w)
  BY <1>1, SmallestSet
<1>3. v \in SUBSET S /\ v \in SUBSET T /\ v \in SUBSET u /\ g[v] # h[v] /\ IsFiniteSet(v)
  BY <1>1 DEF F
<1>4. g[v] = IF v = {} THEN 0 ELSE f[Pick(v)] + g[v \ {Pick(v)}]
  BY <1>3 DEF IsSum
<1>5. h[v] = IF v = {} THEN 0 ELSE f[Pick(v)] + h[v \ {Pick(v)}]
  BY <1>3 DEF IsSum
<1>6. v # {} /\ g[v \ {Pick(v)}] # h[v \ {Pick(v)}]
  BY <1>3, <1>4, <1>5
<1>7. v \ {Pick(v)} \in F
  BY <1>3, <1>6 DEF F
<1>8. Cardinality(v \ {Pick(v)}) < Cardinality(v) /\ IsFiniteSet(v \ {Pick(v)})
  BY <1>3, <1>6, PickSmaller
<1>9. Cardinality(v) \in Nat /\ Cardinality(v \ {Pick(v)}) \in Nat
  BY <1>3, <1>8, FS_CardinalityType
<1>. QED  BY <1>2, <1>7, <1>8, <1>9

\* Every finite set has its sum function: built from those of its smaller subsets.
LEMMA SumExists ==
    ASSUME NEW f, NEW S, IsFiniteSet(S)
    PROVE  \E g : IsSum(g, f, S)
<1> DEFINE F == {u \in SUBSET S : ~\E g : IsSum(g, f, u)}
<1> SUFFICES ASSUME F # {} PROVE FALSE
  OBVIOUS
<1>1. \A u \in F : IsFiniteSet(u)
  BY FS_Subset
<1> HIDE DEF F
<1>2. PICK u \in F : \A w \in F : Cardinality(u) <= Cardinality(w)
  BY <1>1, SmallestSet
<1> DEFINE D(t) == CHOOSE g : IsSum(g, f, t)
           G == [t \in SUBSET u |-> IF t = {} THEN 0 ELSE f[Pick(t)] + D(t \ {Pick(t)})[t \ {Pick(t)}]]
<1>3. u \in SUBSET S /\ IsFiniteSet(u)
  BY <1>1 DEF F
<1>4. ASSUME NEW t \in SUBSET u, t # {}
      PROVE  /\ t \ {Pick(t)} \in SUBSET u /\ IsFiniteSet(t \ {Pick(t)})
             /\ IsSum(D(t \ {Pick(t)}), f, t \ {Pick(t)})
  <2>1. IsFiniteSet(t) /\ Cardinality(t) <= Cardinality(u)
    BY <1>3, FS_Subset
  <2>2. Cardinality(t \ {Pick(t)}) < Cardinality(t) /\ IsFiniteSet(t \ {Pick(t)})
    BY <1>4, <2>1, PickSmaller
  <2>3. Cardinality(t) \in Nat /\ Cardinality(t \ {Pick(t)}) \in Nat /\ Cardinality(u) \in Nat
    BY <1>3, <2>1, <2>2, FS_CardinalityType
  <2>4. t \ {Pick(t)} \notin F
    BY <1>2, <2>1, <2>2, <2>3
  <2>5. t \ {Pick(t)} \in SUBSET S
    BY <1>3
  <2>6. \E g : IsSum(g, f, t \ {Pick(t)})
    BY <2>4, <2>5 DEF F
  <2>. QED  BY <2>2, <2>6
<1>5. ASSUME NEW t \in SUBSET u, t # {}
      PROVE  G[t \ {Pick(t)}] = D(t \ {Pick(t)})[t \ {Pick(t)}]
  <2> DEFINE r == t \ {Pick(t)}
  <2>1. r \in SUBSET u /\ IsFiniteSet(r) /\ IsSum(D(r), f, r)
    BY <1>4, <1>5
  <2> HIDE DEF r, D
  <2>2. D(r)[r] = IF r = {} THEN 0 ELSE f[Pick(r)] + D(r)[r \ {Pick(r)}]
    <3>1. r \in SUBSET r
      OBVIOUS
    <3>. QED  BY <2>1, <3>1 DEF IsSum
  <2>3. G[r] = IF r = {} THEN 0 ELSE f[Pick(r)] + D(r \ {Pick(r)})[r \ {Pick(r)}]
    BY <2>1
  <2>4. ASSUME r # {} PROVE D(r)[r \ {Pick(r)}] = D(r \ {Pick(r)})[r \ {Pick(r)}]
    <3>1. IsFiniteSet(r \ {Pick(r)}) /\ IsSum(D(r \ {Pick(r)}), f, r \ {Pick(r)})
      BY <1>4, <2>1, <2>4
    <3>2. r \ {Pick(r)} \subseteq r /\ r \ {Pick(r)} \subseteq r \ {Pick(r)}
      OBVIOUS
    <3>. QED  BY <2>1, <3>1, <3>2, SumUnique
  <2>. QED  BY <2>2, <2>3, <2>4 DEF r
<1>6. IsSum(G, f, u)
  <2> HIDE DEF D
  <2>1. \A t \in SUBSET u : (IF t = {} THEN 0 ELSE f[Pick(t)] + D(t \ {Pick(t)})[t \ {Pick(t)}])
                           = (IF t = {} THEN 0 ELSE f[Pick(t)] + G[t \ {Pick(t)}])
    BY <1>5
  <2>2. G = [t \in SUBSET u |-> IF t = {} THEN 0 ELSE f[Pick(t)] + G[t \ {Pick(t)}]]
    BY <2>1
  <2> HIDE DEF G
  <2>. QED  BY <2>2 DEF IsSum
<1>. QED  BY <1>2, <1>6 DEF F

-----------------------------------------------------------------------------
(* How sums change.                                                         *)

\* Any g that solves the equation gives the sum.
LEMMA SumIs ==
    ASSUME NEW f, NEW S, IsFiniteSet(S), NEW g, IsSum(g, f, S)
    PROVE  g[S] = SumOver(f, S)
<1>1. IsSum(CHOOSE h : IsSum(h, f, S), f, S)
  OBVIOUS
<1>. QED  BY <1>1, SumUnique DEF SumOver

\* The empty sum,
LEMMA SumEmpty == ASSUME NEW f PROVE SumOver(f, {}) = 0
<1>1. PICK g : IsSum(g, f, {})
  BY SumExists, FS_EmptySet
<1>2. g[{}] = 0
  BY <1>1 DEF IsSum
<1>. QED  BY <1>1, <1>2, SumIs, FS_EmptySet

\* and the sum of more, as the fold computes it.
LEMMA SumPick ==
    ASSUME NEW f, NEW S, IsFiniteSet(S), S # {}
    PROVE  SumOver(f, S) = f[Pick(S)] + SumOver(f, S \ {Pick(S)})
<1> DEFINE r == S \ {Pick(S)}
<1>1. PICK g : IsSum(g, f, S)
  BY SumExists
<1>2. PICK h : IsSum(h, f, r)
  BY SumExists, PickSmaller
<1>3. g[S] = f[Pick(S)] + g[r]
  BY <1>1 DEF IsSum
<1>4. g[r] = h[r]
  BY <1>1, <1>2, SumUnique, PickSmaller
<1>. QED  BY <1>1, <1>2, <1>3, <1>4, SumIs, PickSmaller

\* A sum of integers is an integer.
LEMMA SumInt ==
    ASSUME NEW f, NEW S, IsFiniteSet(S), \A x \in S : f[x] \in Int
    PROVE  SumOver(f, S) \in Int
<1> DEFINE F == {u \in SUBSET S : SumOver(f, u) \notin Int}
<1> SUFFICES ASSUME F # {} PROVE FALSE
  OBVIOUS
<1>1. \A u \in F : IsFiniteSet(u)
  BY FS_Subset
<1> HIDE DEF F
<1>2. PICK u \in F : \A w \in F : Cardinality(u) <= Cardinality(w)
  BY <1>1, SmallestSet
<1>3. u \in SUBSET S /\ IsFiniteSet(u) /\ SumOver(f, u) \notin Int
  BY <1>1 DEF F
<1>4. u # {}
  BY <1>3, SumEmpty
<1>5. /\ Pick(u) \in u /\ IsFiniteSet(u \ {Pick(u)})
      /\ Cardinality(u \ {Pick(u)}) < Cardinality(u)
  BY <1>3, <1>4, PickSmaller
<1>6. Cardinality(u) \in Nat /\ Cardinality(u \ {Pick(u)}) \in Nat
  BY <1>3, <1>5, FS_CardinalityType
<1>7. SumOver(f, u \ {Pick(u)}) \in Int
  BY <1>2, <1>3, <1>5, <1>6 DEF F
<1>. QED  BY <1>3, <1>4, <1>5, <1>7, SumPick

\* A sum of naturals is a natural.
LEMMA SumNat ==
    ASSUME NEW f, NEW S, IsFiniteSet(S), \A x \in S : f[x] \in Nat
    PROVE  SumOver(f, S) \in Nat
<1> DEFINE F == {u \in SUBSET S : SumOver(f, u) \notin Nat}
<1> SUFFICES ASSUME F # {} PROVE FALSE
  OBVIOUS
<1>1. \A u \in F : IsFiniteSet(u)
  BY FS_Subset
<1> HIDE DEF F
<1>2. PICK u \in F : \A w \in F : Cardinality(u) <= Cardinality(w)
  BY <1>1, SmallestSet
<1>3. u \in SUBSET S /\ IsFiniteSet(u) /\ SumOver(f, u) \notin Nat
  BY <1>1 DEF F
<1>4. u # {}
  BY <1>3, SumEmpty
<1>5. /\ Pick(u) \in u /\ IsFiniteSet(u \ {Pick(u)})
      /\ Cardinality(u \ {Pick(u)}) < Cardinality(u)
  BY <1>3, <1>4, PickSmaller
<1>6. Cardinality(u) \in Nat /\ Cardinality(u \ {Pick(u)}) \in Nat
  BY <1>3, <1>5, FS_CardinalityType
<1>7. SumOver(f, u \ {Pick(u)}) \in Nat
  BY <1>2, <1>3, <1>5, <1>6 DEF F
<1>. QED  BY <1>3, <1>4, <1>5, <1>7, SumPick

\* Any element can be taken out of a sum, not only the one Pick chooses.
LEMMA SumRemove ==
    ASSUME NEW f, NEW S, IsFiniteSet(S), \A x \in S : f[x] \in Int, NEW x \in S
    PROVE  SumOver(f, S) = f[x] + SumOver(f, S \ {x})
<1> DEFINE F == {u \in SUBSET S : \E y \in u : SumOver(f, u) # f[y] + SumOver(f, u \ {y})}
<1> SUFFICES ASSUME F # {} PROVE FALSE
  OBVIOUS
<1>1. \A u \in F : IsFiniteSet(u)
  BY FS_Subset
<1> HIDE DEF F
<1>2. PICK u \in F : \A w \in F : Cardinality(u) <= Cardinality(w)
  BY <1>1, SmallestSet
<1>3. u \in SUBSET S /\ IsFiniteSet(u)
  BY <1>1 DEF F
<1>4. PICK y \in u : SumOver(f, u) # f[y] + SumOver(f, u \ {y})
  BY <1>2 DEF F
<1> DEFINE z == Pick(u)
<1>5. /\ z \in u /\ IsFiniteSet(u \ {z})
      /\ Cardinality(u \ {z}) < Cardinality(u)
  BY <1>3, <1>4, PickSmaller
<1>6. Cardinality(u) \in Nat /\ Cardinality(u \ {z}) \in Nat
  BY <1>3, <1>5, FS_CardinalityType
<1>7. SumOver(f, u) = f[z] + SumOver(f, u \ {z})
  BY <1>3, <1>4, SumPick
<1> HIDE DEF z
<1>8. y # z
  BY <1>4, <1>7
<1>9. SumOver(f, u \ {z}) = f[y] + SumOver(f, (u \ {z}) \ {y})
  <2>1. u \ {z} \notin F
    BY <1>2, <1>5, <1>6
  <2>. QED  BY <1>3, <1>4, <1>8, <2>1 DEF F
<1>10. IsFiniteSet(u \ {y}) /\ Cardinality(u \ {y}) = Cardinality(u) - 1
  BY <1>3, <1>4, FS_RemoveElement
<1>11. SumOver(f, u \ {y}) = f[z] + SumOver(f, (u \ {y}) \ {z})
  <2>1. u \ {y} \notin F
    BY <1>2, <1>6, <1>10
  <2>. QED  BY <1>3, <1>5, <1>8, <2>1 DEF F
<1>12. (u \ {z}) \ {y} = (u \ {y}) \ {z}
  OBVIOUS
<1>13. SumOver(f, (u \ {y}) \ {z}) \in Int
  <2>1. IsFiniteSet((u \ {y}) \ {z})
    BY <1>3, FS_Subset
  <2>. QED  BY <1>3, <2>1, SumInt
<1>14. f[y] \in Int /\ f[z] \in Int
  BY <1>3, <1>5
<1> DEFINE r == SumOver(f, (u \ {y}) \ {z})
<1>15. /\ SumOver(f, u \ {z}) = f[y] + r
       /\ SumOver(f, u \ {y}) = f[z] + r
       /\ r \in Int
  BY <1>9, <1>11, <1>12, <1>13, Zenon
<1> HIDE DEF r
<1>16. f[z] + (f[y] + r) = f[y] + (f[z] + r)
  BY <1>14, <1>15
<1>17. SumOver(f, u) = f[y] + SumOver(f, u \ {y})
  BY <1>7, <1>15, <1>16, Zenon
<1>. QED  BY <1>4, <1>17, Zenon

\* A new element adds its summand.
LEMMA SumAdd ==
    ASSUME NEW f, NEW S, IsFiniteSet(S), NEW x, x \notin S, \A y \in S \cup {x} : f[y] \in Int
    PROVE  SumOver(f, S \cup {x}) = f[x] + SumOver(f, S)
<1>1. IsFiniteSet(S \cup {x}) /\ (S \cup {x}) \ {x} = S
  BY FS_AddElement
<1>. QED  BY <1>1, SumRemove

\* The sum depends on the summands of the set's own elements only.
LEMMA SumSame ==
    ASSUME NEW f, NEW g, NEW S, IsFiniteSet(S), \A x \in S : f[x] = g[x]
    PROVE  SumOver(f, S) = SumOver(g, S)
<1>1. PICK h : IsSum(h, f, S)
  BY SumExists
<1>2. \A s \in SUBSET S : s # {} => Pick(s) \in S
  <2> SUFFICES ASSUME NEW s \in SUBSET S, s # {} PROVE Pick(s) \in S
    OBVIOUS
  <2>. QED  BY FS_Subset, PickSmaller
<1>3. IsSum(h, g, S)
  <2>1. \A s \in SUBSET S : (IF s = {} THEN 0 ELSE f[Pick(s)] + h[s \ {Pick(s)}])
                           = (IF s = {} THEN 0 ELSE g[Pick(s)] + h[s \ {Pick(s)}])
    BY <1>2
  <2>. QED  BY <1>1, <2>1 DEF IsSum
<1>. QED  BY <1>1, <1>3, SumIs

\* One summand changes: so does the sum, by as much.
LEMMA SumChange ==
    ASSUME NEW f, NEW g, NEW S, IsFiniteSet(S), NEW x \in S,
           \A y \in S : f[y] \in Int /\ g[y] \in Int,
           \A y \in S \ {x} : f[y] = g[y]
    PROVE  SumOver(g, S) = SumOver(f, S) + (g[x] - f[x])
<1>1. /\ SumOver(f, S) = f[x] + SumOver(f, S \ {x})
      /\ SumOver(g, S) = g[x] + SumOver(g, S \ {x})
  BY SumRemove
<1>2. IsFiniteSet(S \ {x})
  BY FS_Subset
<1>3. SumOver(f, S \ {x}) = SumOver(g, S \ {x}) /\ SumOver(f, S \ {x}) \in Int
  BY <1>2, SumSame, SumInt
<1>. QED  BY <1>1, <1>3

-----------------------------------------------------------------------------
(* The levels' totals.                                                      *)

\* The open sizes of the orders, as the summands of a level's total.
OpenSizes(o) == [i \in OrderId |-> o[i].remaining]
OpenSize(o, S) == MapThenSumSet(LAMBDA i : o[i].remaining, S)

\* The sum LevelTotals takes, in the form of the lemmas above.
LEMMA OpenSizeSum ==
    ASSUME NEW o, NEW S \in SUBSET OrderId, IsFiniteSet(S)
    PROVE  OpenSize(o, S) = SumOver(OpenSizes(o), S)
<1> DEFINE Solves(g) == g = [s \in SUBSET S |-> IF s = {} THEN 0
                                             ELSE o[Pick(s)].remaining + g[s \ {Pick(s)}]]
           c == CHOOSE g : Solves(g)
<1>1. OpenSize(o, S) = c[S]
  BY DEF OpenSize, MapThenSumSet, MapThenFoldSet, Pick
<1>2. PICK g : IsSum(g, OpenSizes(o), S)
  BY SumExists
<1>3. \A s \in SUBSET S : s # {} => OpenSizes(o)[Pick(s)] = o[Pick(s)].remaining
  <2> SUFFICES ASSUME NEW s \in SUBSET S, s # {}
               PROVE  OpenSizes(o)[Pick(s)] = o[Pick(s)].remaining
    OBVIOUS
  <2>1. Pick(s) \in OrderId
    BY FS_Subset, PickSmaller
  <2>. QED  BY <2>1 DEF OpenSizes
<1>4. \A h : Solves(h) <=> IsSum(h, OpenSizes(o), S)
  <2> SUFFICES ASSUME NEW h PROVE Solves(h) <=> IsSum(h, OpenSizes(o), S)
    OBVIOUS
  <2>1. \A s \in SUBSET S :
           (IF s = {} THEN 0 ELSE o[Pick(s)].remaining + h[s \ {Pick(s)}])
           = (IF s = {} THEN 0 ELSE OpenSizes(o)[Pick(s)] + h[s \ {Pick(s)}])
    BY <1>3
  <2>. QED  BY <2>1 DEF IsSum
<1>5. IsSum(c, OpenSizes(o), S)
  <2>1. Solves(g)
    BY <1>2, <1>4
  <2> HIDE DEF Solves
  <2>2. Solves(c)
    BY <2>1
  <2>. QED  BY <1>4, <2>2
<1>. QED  BY <1>1, <1>5, SumIs

\* LevelTotals, with the sums in the form the proofs use.
TotalsInv ==
    \A s \in Side, p \in Price :
        total[s][p] = SumOver(OpenSizes(order), ToSet(queue[s][p]))

\* IndexMatchesBook of queues Q, indexed ids I and slots O.
Agree(Q, I, O) ==
    /\ \A i \in I : \E k \in DOMAIN Q[O[i].side][O[i].price] :
                        Q[O[i].side][O[i].price][k] = i
    /\ \A s \in Side, p \in Price : \A k \in DOMAIN Q[s][p] :
          Q[s][p][k] \in I /\ O[Q[s][p][k]].side = s /\ O[Q[s][p][k]].price = p

\* The ids a level queues are the indexed ones of its side and price.
LEMMA LevelMembers ==
    ASSUME NEW Q, NEW I, NEW O, Agree(Q, I, O), NEW s \in Side, NEW p \in Price
    PROVE  /\ ToSet(Q[s][p]) \subseteq I
           /\ \A i \in I : i \in ToSet(Q[s][p]) <=> O[i].side = s /\ O[i].price = p
<1>1. ASSUME NEW i \in I, O[i].side = s, O[i].price = p PROVE i \in ToSet(Q[s][p])
  <2>1. \E k \in DOMAIN Q[s][p] : Q[s][p][k] = i
    BY <1>1 DEF Agree
  <2>. QED  BY <2>1 DEF ToSet
<1>2. ASSUME NEW i \in ToSet(Q[s][p]) PROVE i \in I /\ O[i].side = s /\ O[i].price = p
  <2>1. PICK k \in DOMAIN Q[s][p] : i = Q[s][p][k]
    BY DEF ToSet
  <2>. QED  BY <2>1 DEF Agree
<1>. QED  BY <1>1, <1>2

\* What the levels of the book queue: a finite set of indexed ids.
LEMMA LevelIds ==
    ASSUME BookTypeOK, BookInv, NEW s \in Side, NEW p \in Price
    PROVE  /\ ToSet(queue[s][p]) \subseteq index
           /\ ToSet(queue[s][p]) \in SUBSET OrderId
           /\ IsFiniteSet(ToSet(queue[s][p]))
           /\ \A i \in index : i \in ToSet(queue[s][p])
                                 <=> order[i].side = s /\ order[i].price = p
<1>1. Agree(queue, index, order)
  BY DEF BookInv, IndexMatchesBook, Agree
<1>2. /\ ToSet(queue[s][p]) \subseteq index
      /\ \A i \in index : i \in ToSet(queue[s][p])
                                 <=> order[i].side = s /\ order[i].price = p
  BY <1>1, LevelMembers
<1>3. IsFiniteSet(ToSet(queue[s][p]))
  BY <1>2, FS_Subset DEF BookInv, SlotsAccounted
<1>. QED  BY <1>2, <1>3 DEF BookTypeOK

\* LevelTotals and TotalsInv say the same of a book whose index and levels agree.
LEMMA TotalsEquivalent ==
    ASSUME BookTypeOK, BookInv
    PROVE  LevelTotals <=> TotalsInv
<1>1. ASSUME NEW s \in Side, NEW p \in Price
      PROVE  MapThenSumSet(LAMBDA i : order[i].remaining, ToSet(queue[s][p]))
               = SumOver(OpenSizes(order), ToSet(queue[s][p]))
  <2>1. OpenSize(order, ToSet(queue[s][p])) = SumOver(OpenSizes(order), ToSet(queue[s][p]))
    BY LevelIds, OpenSizeSum
  <2>. QED  BY <2>1 DEF OpenSize, MapThenSumSet, MapThenFoldSet
<1>2. ASSUME LevelTotals, NEW s \in Side, NEW p \in Price
      PROVE  total[s][p] = SumOver(OpenSizes(order), ToSet(queue[s][p]))
  BY <1>1, <1>2 DEF LevelTotals, MapThenSumSet, MapThenFoldSet
<1>3. ASSUME TotalsInv, NEW s \in Side, NEW p \in Price
      PROVE  total[s][p] = MapThenSumSet(LAMBDA i : order[i].remaining, ToSet(queue[s][p]))
  <2>1. total[s][p] = SumOver(OpenSizes(order), ToSet(queue[s][p]))
    BY <1>3 DEF TotalsInv
  <2>. QED  BY <1>1, <2>1 DEF MapThenSumSet, MapThenFoldSet
<1>4. LevelTotals => TotalsInv
  BY <1>2 DEF TotalsInv
<1>5. TotalsInv => LevelTotals
  BY <1>3 DEF LevelTotals, MapThenSumSet, MapThenFoldSet
<1>. QED  BY <1>4, <1>5

\* Order sizes are integers whatever the slot.
LEMMA SizesTyped ==
    ASSUME NEW o \in [OrderId -> Order], NEW i \in OrderId
    PROVE  OpenSizes(o)[i] \in Nat /\ OpenSizes(o)[i] = o[i].remaining
  BY DEF OpenSizes, Order

\* book_.remove takes the order's open size off its level's total.
LEMMA ReleaseTotals ==
    ASSUME BookTypeOK, BookInv, TotalsInv, NEW i \in index, Release(i)
    PROVE  TotalsInv'
<1> SUFFICES ASSUME NEW s \in Side, NEW p \in Price
             PROVE  total'[s][p] = SumOver(OpenSizes(order'), ToSet(queue'[s][p]))
  BY DEF TotalsInv
<1> DEFINE o == order[i]
           T == ToSet(queue[s][p])
<1>1. i \in OrderId /\ o \in Order /\ o.side \in Side /\ o.price \in Price
      /\ o.remaining \in Nat
  BY DEF BookTypeOK, BookInv, IndexMatchesBook, Order
<1>2. BookTypeOK' /\ BookInv'
  BY ReleaseBook
<1>3. /\ index' = index \ {i}
      /\ order' = [order EXCEPT ![i] = EmptyOrder]
      /\ total' = [total EXCEPT ![o.side][o.price] = @ - o.remaining]
  BY DEF Release, Unlink
<1>4. /\ T \subseteq index /\ T \in SUBSET OrderId /\ IsFiniteSet(T)
      /\ \A x \in index : x \in T <=> order[x].side = s /\ order[x].price = p
  BY LevelIds
<1>5. /\ ToSet(queue'[s][p]) \subseteq index'
      /\ \A x \in index' : x \in ToSet(queue'[s][p])
                                <=> order'[x].side = s /\ order'[x].price = p
  <2>1. Agree(queue', index', order')
    BY <1>2 DEF BookInv, IndexMatchesBook, Agree
  <2>. QED  BY <2>1, LevelMembers
<1>6. ToSet(queue'[s][p]) = T \ {i}
  <2>1. \A x \in index' : x \in index /\ x # i /\ order'[x] = order[x]
    BY <1>3 DEF BookTypeOK
  <2>. QED  BY <1>3, <1>4, <1>5, <2>1
<1>7. SumOver(OpenSizes(order'), T \ {i}) = SumOver(OpenSizes(order), T \ {i})
  <2>1. IsFiniteSet(T \ {i})
    BY <1>4, FS_Subset
  <2>2. \A x \in T \ {i} : OpenSizes(order')[x] = OpenSizes(order)[x]
    BY <1>3, <1>4 DEF OpenSizes, BookTypeOK
  <2>. QED  BY <2>1, <2>2, SumSame
<1>8. \A x \in T : OpenSizes(order)[x] \in Int
  <2>1. \A x \in OrderId : OpenSizes(order)[x] \in Nat
    BY SizesTyped DEF BookTypeOK
  <2>. QED  BY <1>4, <2>1
<1>9. total[s][p] = SumOver(OpenSizes(order), T)
  BY DEF TotalsInv
<1>10. total[s][p] \in Int
  BY DEF BookTypeOK
<1>11. CASE s = o.side /\ p = o.price
  <2>1. total'[s][p] = total[s][p] - o.remaining
    BY <1>1, <1>3, <1>11 DEF BookTypeOK
  <2>2. i \in T /\ OpenSizes(order)[i] = o.remaining
    BY <1>1, <1>4, <1>11, SizesTyped DEF BookTypeOK
  <2>3. SumOver(OpenSizes(order), T) = o.remaining + SumOver(OpenSizes(order), T \ {i})
    BY <1>4, <1>8, <2>2, SumRemove
  <2>4. SumOver(OpenSizes(order), T \ {i}) \in Int
    <3>1. IsFiniteSet(T \ {i})
      BY <1>4, FS_Subset
    <3>. QED  BY <1>8, <3>1, SumInt
  <2> HIDE DEF T, o
  <2>. QED  BY <1>1, <1>6, <1>7, <1>9, <1>10, <2>1, <2>3, <2>4
<1>12. CASE ~(s = o.side /\ p = o.price)
  <2>1. total'[s][p] = total[s][p]
    BY <1>1, <1>3, <1>12 DEF BookTypeOK
  <2>2. T \ {i} = T
    BY <1>4, <1>12
  <2>. QED  BY <1>6, <1>7, <1>9, <2>1, <2>2
<1>. QED  BY <1>11, <1>12

\* What a resting order loses, its level's total loses.
LEMMA ResizeTotals ==
    ASSUME BookTypeOK, BookInv, TotalsInv, NEW i \in index, NEW r \in Order,
           order' \in [OrderId -> Order], order'[i] = r,
           \A x \in OrderId : x # i => order'[x] = order[x],
           total' = [total EXCEPT ![order[i].side][order[i].price]
                                      = @ - (order[i].remaining - r.remaining)],
           queue' = queue
    PROVE  TotalsInv'
<1> SUFFICES ASSUME NEW s \in Side, NEW p \in Price
             PROVE  total'[s][p] = SumOver(OpenSizes(order'), ToSet(queue[s][p]))
  BY DEF TotalsInv
<1> DEFINE o == order[i]
           T == ToSet(queue[s][p])
<1>1. /\ i \in OrderId /\ o \in Order /\ o.side \in Side /\ o.price \in Price
      /\ o.remaining \in Nat /\ r.remaining \in Nat
  BY DEF BookTypeOK, BookInv, IndexMatchesBook, Order
<1>2. order' \in [OrderId -> Order] /\ order'[i] = r
      /\ \A x \in OrderId : x # i => order'[x] = order[x]
  OBVIOUS
<1>4. /\ T \subseteq index /\ T \in SUBSET OrderId /\ IsFiniteSet(T)
      /\ \A x \in index : x \in T <=> order[x].side = s /\ order[x].price = p
  BY LevelIds
<1>5. \A x \in T : OpenSizes(order)[x] \in Int /\ OpenSizes(order')[x] \in Int
  <2>1. \A x \in OrderId : OpenSizes(order)[x] \in Nat /\ OpenSizes(order')[x] \in Nat
    BY <1>2, SizesTyped DEF BookTypeOK
  <2> HIDE DEF T
  <2>. QED  BY <1>4, <2>1
<1>6. \A x \in T \ {i} : OpenSizes(order)[x] = OpenSizes(order')[x]
  BY <1>2, <1>4 DEF OpenSizes
<1>9. total[s][p] = SumOver(OpenSizes(order), T) /\ total[s][p] \in Int
  BY DEF TotalsInv, BookTypeOK
<1>11. CASE s = o.side /\ p = o.price
  <2>1. total'[s][p] = total[s][p] - (o.remaining - r.remaining)
    BY <1>1, <1>11 DEF BookTypeOK
  <2>2. /\ i \in T /\ OpenSizes(order)[i] = o.remaining
        /\ OpenSizes(order')[i] = r.remaining
    BY <1>1, <1>2, <1>4, <1>11, SizesTyped DEF BookTypeOK
  <2>3. SumOver(OpenSizes(order'), T) = SumOver(OpenSizes(order), T) + (r.remaining - o.remaining)
    <3> HIDE DEF T, o
    <3>1. SumOver(OpenSizes(order'), T) = SumOver(OpenSizes(order), T)
                          + (OpenSizes(order')[i] - OpenSizes(order)[i])
      <4> DEFINE f == OpenSizes(order)
                 g == OpenSizes(order')
      <4>1. /\ \A y \in T : f[y] \in Int /\ g[y] \in Int
            /\ \A y \in T \ {i} : f[y] = g[y]
            /\ IsFiniteSet(T) /\ i \in T
        BY <1>4, <1>5, <1>6, <2>2
      <4> HIDE DEF f, g
      <4>. QED  BY <4>1, SumChange DEF f, g
    <3>. QED  BY <2>2, <3>1
  <2> HIDE DEF T, o
  <2>. QED  BY <1>1, <1>9, <2>1, <2>3 DEF T
<1>12. CASE ~(s = o.side /\ p = o.price)
  <2>1. total'[s][p] = total[s][p]
    BY <1>1, <1>12 DEF BookTypeOK
  <2>2. T \ {i} = T
    BY <1>4, <1>12
  <2>3. SumOver(OpenSizes(order'), T) = SumOver(OpenSizes(order), T)
    <3> HIDE DEF T, o
    <3>1. \A x \in T : OpenSizes(order')[x] = OpenSizes(order)[x]
      BY <1>6, <2>2
    <3>. QED  BY <1>4, <3>1, SumSame
  <2>. QED  BY <1>9, <2>1, <2>3
<1>. QED  BY <1>11, <1>12

\* book_.add adds the order's open size to its level's total.
LEMMA RestTotals ==
    ASSUME BookTypeOK, BookInv, TotalsInv, BookTypeOK', BookInv',
           NEW i \in OrderId, i \notin index,
           NEW o \in Order, o.price \in Price,
           PushBack(i, o),
           order'[i] = o, \A x \in OrderId : x # i => order'[x] = order[x],
           \A x \in OrderId : x \in index' <=> x \in index \/ x = i
    PROVE  TotalsInv'
<1> SUFFICES ASSUME NEW s \in Side, NEW p \in Price
             PROVE  total'[s][p] = SumOver(OpenSizes(order'), ToSet(queue'[s][p]))
  BY DEF TotalsInv
<1> DEFINE T == ToSet(queue[s][p])
<1>1. o.side \in Side /\ o.remaining \in Nat
  BY DEF Order
<1>2. total' = [total EXCEPT ![o.side][o.price] = @ + o.remaining]
  BY DEF PushBack
<1>3. order'[i] = o /\ \A x \in OrderId : x # i => order'[x] = order[x]
  OBVIOUS
<1>4. /\ T \subseteq index /\ T \in SUBSET OrderId /\ IsFiniteSet(T)
      /\ \A x \in index : x \in T <=> order[x].side = s /\ order[x].price = p
  BY LevelIds
<1>5. /\ ToSet(queue'[s][p]) \subseteq index'
      /\ \A x \in index' : x \in ToSet(queue'[s][p])
                                <=> order'[x].side = s /\ order'[x].price = p
  <2>1. Agree(queue', index', order')
    BY DEF BookInv, IndexMatchesBook, Agree
  <2>. QED  BY <2>1, LevelMembers
<1>6. SumOver(OpenSizes(order'), T) = SumOver(OpenSizes(order), T)
  <2>2. \A x \in T : OpenSizes(order')[x] = OpenSizes(order)[x]
    BY <1>3, <1>4 DEF OpenSizes
  <2>. QED  BY <1>4, <2>2, SumSame
<1>7. index \subseteq OrderId /\ index' \subseteq OrderId
  BY DEF BookTypeOK
<1>9. total[s][p] = SumOver(OpenSizes(order), T) /\ total[s][p] \in Int
  BY DEF TotalsInv, BookTypeOK
<1>11. CASE s = o.side /\ p = o.price
  <2>1. total'[s][p] = total[s][p] + o.remaining
    BY <1>1, <1>2, <1>11 DEF BookTypeOK
  <2>2. ToSet(queue'[s][p]) = T \cup {i}
    BY <1>3, <1>4, <1>5, <1>7, <1>11
  <2>3. /\ i \notin T /\ OpenSizes(order')[i] = o.remaining
        /\ \A x \in T \cup {i} : OpenSizes(order')[x] \in Int
    <3>1. \A x \in OrderId : OpenSizes(order')[x] \in Nat
                               /\ OpenSizes(order')[x] = order'[x].remaining
      BY SizesTyped DEF BookTypeOK
    <3>. QED  BY <1>3, <1>4, <3>1
  <2>4. SumOver(OpenSizes(order'), T \cup {i}) = o.remaining + SumOver(OpenSizes(order'), T)
    <3> HIDE DEF T
    <3>. QED  BY <1>4, <2>3, SumAdd
  <2> HIDE DEF T
  <2>. QED  BY <1>1, <1>6, <1>9, <2>1, <2>2, <2>4
<1>12. CASE ~(s = o.side /\ p = o.price)
  <2>1. total'[s][p] = total[s][p]
    BY <1>1, <1>2, <1>12 DEF BookTypeOK
  <2>2. ToSet(queue'[s][p]) = T
    <3> HIDE DEF T
    <3>1. ASSUME NEW x \in ToSet(queue'[s][p]) PROVE x \in T
      BY <1>3, <1>4, <1>5, <1>7, <1>12
    <3>2. ASSUME NEW x \in T PROVE x \in ToSet(queue'[s][p])
      BY <1>3, <1>4, <1>5, <1>7
    <3>. QED  BY <3>1, <3>2
  <2>. QED  BY <1>6, <1>9, <2>1, <2>2
<1>. QED  BY <1>11, <1>12

\* A step that leaves the book alone leaves the totals right.
LEMMA TotalsUnchanged == ASSUME TotalsInv, UNCHANGED bookVars PROVE TotalsInv'
<1>1. queue' = queue /\ total' = total /\ order' = order
  BY DEF bookVars
<1>. QED  BY <1>1 DEF TotalsInv

\* The totals of an empty book are right.
LEMMA InitTotals == Init => TotalsInv
<1> SUFFICES ASSUME Init, NEW s \in Side, NEW p \in Price
             PROVE  total[s][p] = SumOver(OpenSizes(order), ToSet(queue[s][p]))
  BY DEF TotalsInv
<1>1. queue[s][p] = <<>> /\ total[s][p] = 0
  BY DEF Init
<1>2. ToSet(queue[s][p]) = {}
  BY <1>1 DEF ToSet
<1>. QED  BY <1>1, <1>2, SumEmpty

\* Every step of process() keeps the totals right.
LEMMA TotalsStep == Inv /\ TotalsInv /\ [Next]_vars => TotalsInv'
<1> SUFFICES ASSUME Inv, TotalsInv, [Next]_vars PROVE TotalsInv'
  OBVIOUS
<1>0. Inv' /\ BookTypeOK /\ BookInv /\ BookTypeOK' /\ BookInv'
  <2>1. Inv'
    BY NextInv
  <2>. QED  BY <2>1 DEF Inv, TypeOK, BookTypeOK
<1>1. CASE UNCHANGED bookVars
  BY <1>1, TotalsUnchanged
<1>2. ASSUME NEW i \in index, Release(i) PROVE TotalsInv'
  BY <1>0, <1>2, ReleaseTotals
<1>3. CASE HandleCancel \/ ReplayAsNew
  <2>1. cmd.id \in index /\ Release(cmd.id)
    BY <1>3 DEF HandleCancel, ReplayAsNew, IsModify
  <2>. QED  BY <1>2, <2>1
<1>4. ASSUME NEW p \in Price, StpCancelResting(p) PROVE TotalsInv'
  <2>1. /\ Head(queue[Opposite(in.side)][p]) \in index
        /\ Release(Head(queue[Opposite(in.side)][p]))
    BY <1>4, MeetsHead DEF StpCancelResting
  <2>. QED  BY <1>2, <2>1
<1>5. ASSUME NEW p \in Price, Trade(p) PROVE TotalsInv'
  <2> DEFINE r == Head(queue[Opposite(in.side)][p])
             q == Traded(r)
  <2>1. pc = "match" /\ CanMatch(p) /\ Take(r, q)
    BY <1>5 DEF Trade, OldestAt
  <2>2. /\ r \in index /\ r \in OrderId /\ order[r] \in Order
        /\ in \in Order
    BY <2>1, MeetsHead
  <2>3. q \in Nat /\ q <= order[r].remaining /\ order[r].remaining \in Nat
    BY <2>2 DEF Traded, Order
  <2> HIDE DEF r, q
  <2>4. CASE Release(r)
    BY <1>2, <2>2, <2>4
  <2>5. CASE ReduceInPlace(r, q)
    <3> DEFINE n == [order[r] EXCEPT !.remaining = @ - q]
    <3>1. n \in Order /\ n.remaining = order[r].remaining - q
      BY <2>2, <2>3 DEF Order
    <3>2. /\ order' = [order EXCEPT ![r] = n] /\ queue' = queue
          /\ total' = [total EXCEPT ![order[r].side][order[r].price] = @ - q]
      BY <2>5 DEF ReduceInPlace
    <3> HIDE DEF n
    <3>3. /\ order' \in [OrderId -> Order] /\ order'[r] = n
          /\ \A x \in OrderId : x # r => order'[x] = order[x]
      BY <1>0, <2>2, <3>1, <3>2 DEF BookTypeOK
    <3>4. order[r].remaining - n.remaining = q
      BY <2>3, <3>1
    <3>. QED  BY <1>0, <2>2, <3>1, <3>2, <3>3, <3>4, ResizeTotals
  <2>. QED  BY <2>1, <2>4, <2>5 DEF Take
<1>6. CASE ModifyInPlace
  <2> DEFINE r == [order[cmd.id] EXCEPT !.remaining = cmd.qty,
                      !.quantity = cmd.qty + (order[cmd.id].quantity - cmd.qty)]
  <2>1. cmd.id \in index /\ cmd.id \in OrderId /\ order[cmd.id] \in Order /\ cmd.qty \in Nat
    BY <1>6 DEF ModifyInPlace, IsModify, Inv, TypeOK, Command
  <2>2. r \in Order /\ r.remaining = cmd.qty
    <3>1. order[cmd.id].quantity \in Nat
            /\ cmd.qty + (order[cmd.id].quantity - cmd.qty) = order[cmd.id].quantity
      BY <2>1 DEF Order
    <3>. QED  BY <2>1, <3>1 DEF Order
  <2>3. /\ order' = [order EXCEPT ![cmd.id] = r] /\ queue' = queue
        /\ total' = [total EXCEPT ![order[cmd.id].side][order[cmd.id].price]
                                      = @ - (order[cmd.id].remaining - cmd.qty)]
    BY <1>6 DEF ModifyInPlace
  <2> HIDE DEF r
  <2>4. /\ order' \in [OrderId -> Order] /\ order'[cmd.id] = r
        /\ \A x \in OrderId : x # cmd.id => order'[x] = order[x]
    BY <1>0, <2>1, <2>2, <2>3 DEF BookTypeOK
  <2>. QED  BY <1>0, <2>1, <2>2, <2>3, <2>4, ResizeTotals
<1>7. CASE RestIncoming
  <2>1. /\ cmd.id \in OrderId /\ cmd.id \notin index /\ in \in Order /\ in.price \in Price
    BY <1>7 DEF RestIncoming, MatchDone, Inv, TypeOK, IncomingIsNew, Command
  <2>2. /\ PushBack(cmd.id, in) /\ index' = index \cup {cmd.id}
        /\ order' = [order EXCEPT ![cmd.id] = in]
    BY <1>7 DEF RestIncoming
  <2>3. /\ order'[cmd.id] = in
        /\ \A x \in OrderId : x # cmd.id => order'[x] = order[x]
        /\ \A x \in OrderId : x \in index' <=> x \in index \/ x = cmd.id
    BY <1>0, <2>1, <2>2 DEF BookTypeOK
  <2>. QED  BY <1>0, <2>1, <2>2, <2>3, RestTotals
<1>8. CASE UNCHANGED vars
  BY <1>1, <1>8 DEF vars, bookVars
<1>. QED  BY <1>1, <1>3, <1>4, <1>5, <1>6, <1>7, <1>8, BookSteps

\* The running totals fill-or-kill sizing and BookChanged read are never stale:
\* every path that queues, shrinks or removes an order keeps its level's total equal
\* to the open sizes the level queues.
THEOREM TotalsTrue == Spec => []LevelTotals
<1>1. Init => TotalsInv
  BY InitTotals
<1>2. Inv /\ TotalsInv => LevelTotals
  BY TotalsEquivalent DEF Inv, TypeOK, BookTypeOK
<1>. QED  BY <1>1, <1>2, TotalsStep, Invariance, PTL DEF Spec

-----------------------------------------------------------------------------
(* Fill-or-kill: what the sizing walk promises, match delivers.             *)

\* The levels an aggressor on side s crosses at its limit, and what they hold.
Crossed(s, limit) == {p \in Price : Crosses(s, limit, p)}
Marketable(t, s, limit) == SumOver(t[Opposite(s)], Crossed(s, limit))

\* A book has finitely many levels.
LEMMA PricesFinite == IsFiniteSet(Price) /\ \A S \in SUBSET Price : IsFiniteSet(S)
<1>1. IsFiniteSet(Price)
  BY FS_Interval, PriceAssumption DEF Price
<1>. QED  BY <1>1, FS_Subset

\* Levels without orders add nothing to the sum.
LEMMA EmptyLevelsAddNothing ==
    ASSUME NEW t \in [Price -> Int], NEW S \in SUBSET Price, NEW T \in SUBSET S,
           \A p \in S \ T : t[p] = 0
    PROVE  SumOver(t, T) = SumOver(t, S)
<1> DEFINE F == {u \in SUBSET S : T \subseteq u /\ SumOver(t, u) # SumOver(t, T)}
<1> SUFFICES ASSUME F # {} PROVE FALSE
  OBVIOUS
<1>1. \A u \in F : IsFiniteSet(u)
  BY PricesFinite
<1> HIDE DEF F
<1>2. PICK u \in F : \A w \in F : Cardinality(u) <= Cardinality(w)
  BY <1>1, SmallestSet
<1>3. /\ u \in SUBSET S /\ u \in SUBSET Price /\ IsFiniteSet(u) /\ T \subseteq u
      /\ SumOver(t, u) # SumOver(t, T)
  BY <1>1 DEF F
<1>4. PICK y \in u : y \notin T
  BY <1>3
<1>5. IsFiniteSet(u \ {y}) /\ Cardinality(u \ {y}) = Cardinality(u) - 1
  BY <1>3, <1>4, FS_RemoveElement
<1>6. Cardinality(u) \in Nat
  BY <1>3, FS_CardinalityType
<1>7. u \ {y} \notin F
  BY <1>2, <1>5, <1>6
<1>8. SumOver(t, u \ {y}) = SumOver(t, T)
  BY <1>3, <1>4, <1>7 DEF F
<1>9. SumOver(t, u) = t[y] + SumOver(t, u \ {y})
  BY <1>3, <1>4, SumRemove
<1>10. SumOver(t, u \ {y}) \in Int /\ t[y] = 0
  BY <1>3, <1>4, <1>5, SumInt
<1>. QED  BY <1>3, <1>8, <1>9, <1>10

\* What the walk over the opposite levels adds up.
LEMMA MarketableSum ==
    ASSUME BookTypeOK, BookInv, TotalsInv, NEW s \in Side, NEW limit \in Int
    PROVE  MarketableQty(s, limit) = Marketable(total, s, limit)
<1> DEFINE t == total[Opposite(s)]
           S == {p \in Occupied(Opposite(s)) : Crosses(s, limit, p)}
           Solves(g) == g = [u \in SUBSET S |-> IF u = {} THEN 0
                                             ELSE t[Pick(u)] + g[u \ {Pick(u)}]]
           c == CHOOSE g : Solves(g)
<1>1. MarketableQty(s, limit) = c[S]
  BY DEF MarketableQty, MapThenSumSet, MapThenFoldSet, Pick
<1>2. \A h : Solves(h) <=> IsSum(h, t, S)
  BY DEF IsSum
<1>3. S \in SUBSET Crossed(s, limit) /\ S \in SUBSET Price /\ Crossed(s, limit) \in SUBSET Price
  BY DEF Crossed, Occupied
<1>4. MarketableQty(s, limit) = SumOver(t, S)
  <2> HIDE DEF Solves, t, S
  <2>1. \E g : IsSum(g, t, S)
    BY <1>3, SumExists, PricesFinite
  <2>2. Solves(c)
    BY <1>2, <2>1
  <2> HIDE DEF c
  <2>3. c[S] = SumOver(t, S)
    BY <1>2, <1>3, <2>2, SumIs, PricesFinite
  <2>. QED  BY <1>1, <2>3
<1>5. Opposite(s) \in Side /\ t \in [Price -> Int]
  BY DEF BookTypeOK, Opposite, Side
<1>6. ASSUME NEW p \in Crossed(s, limit) \ S PROVE t[p] = 0
  <2>1. p \in Price /\ queue[Opposite(s)][p] = <<>>
    BY DEF Crossed, Occupied
  <2>2. ToSet(queue[Opposite(s)][p]) = {}
    BY <2>1 DEF ToSet
  <2>. QED  BY <1>5, <2>1, <2>2, SumEmpty DEF TotalsInv
<1> HIDE DEF t, S
<1>7. SumOver(t, S) = SumOver(t, Crossed(s, limit))
  BY <1>3, <1>5, <1>6, EmptyLevelsAddNothing
<1>. QED  BY <1>4, <1>7 DEF Marketable, t

-----------------------------------------------------------------------------
(* What the fills of a call add up to.                                      *)

EventSeq == Seq(ReportEvent \cup TopEvent)
FillsOf(o, i) == {k \in DOMAIN o : o[k].type = "Fill" /\ o[k].id = i}
Quantities(o) == [k \in DOMAIN o |-> o[k].qty]
Filled(o, i) == SumOver(Quantities(o), FillsOf(o, i))

\* The fills of an order in a call are finitely many, of natural sizes.
LEMMA FillsTyped ==
    ASSUME NEW o \in EventSeq, NEW i
    PROVE  /\ IsFiniteSet(FillsOf(o, i)) /\ FillsOf(o, i) \subseteq DOMAIN o
           /\ \A k \in FillsOf(o, i) : Quantities(o)[k] \in Nat
<1>1. DOMAIN o = 1..Len(o) /\ Len(o) \in Nat
  BY LenProperties DEF EventSeq
<1>2. IsFiniteSet(FillsOf(o, i)) /\ FillsOf(o, i) \subseteq DOMAIN o
  <2>1. IsFiniteSet(1..Len(o))
    BY <1>1, FS_Interval
  <2>. QED  BY <1>1, <2>1, FS_Subset DEF FillsOf
<1>3. ASSUME NEW k \in FillsOf(o, i) PROVE Quantities(o)[k] \in Nat
  <2>1. k \in DOMAIN o /\ o[k] \in ReportEvent \cup TopEvent /\ o[k].type = "Fill"
    BY <1>1, ElementOfSeq DEF FillsOf, EventSeq
  <2>2. o[k] \in ReportEvent
    BY <2>1 DEF TopEvent
  <2>. QED  BY <2>1, <2>2 DEF ReportEvent, Quantities
<1>. QED  BY <1>2, <1>3

\* The sum FilledInCall takes, in the form of the lemmas above.
LEMMA FilledSum ==
    ASSUME out \in EventSeq, NEW i
    PROVE  FilledInCall(i) = Filled(out, i)
<1> DEFINE S == FillsOf(out, i)
           Solves(g) == g = [u \in SUBSET S |-> IF u = {} THEN 0
                                    ELSE out[Pick(u)].qty + g[u \ {Pick(u)}]]
           c == CHOOSE g : Solves(g)
<1>1. FilledInCall(i) = c[S]
  BY DEF FilledInCall, MapThenSumSet, MapThenFoldSet, Pick, FillsOf
<1>2. IsFiniteSet(S) /\ S \subseteq DOMAIN out
  BY FillsTyped
<1>3. ASSUME NEW h PROVE Solves(h) <=> IsSum(h, Quantities(out), S)
  <2> HIDE DEF S
  <2>1. \A u \in SUBSET S : u # {} => Quantities(out)[Pick(u)] = out[Pick(u)].qty
    <3> SUFFICES ASSUME NEW u \in SUBSET S, u # {}
                 PROVE  Quantities(out)[Pick(u)] = out[Pick(u)].qty
      OBVIOUS
    <3>1. Pick(u) \in DOMAIN out
      BY <1>2, FS_Subset, PickSmaller
    <3>. QED  BY <3>1 DEF Quantities
  <2>2. \A u \in SUBSET S :
           (IF u = {} THEN 0 ELSE out[Pick(u)].qty + h[u \ {Pick(u)}])
           = (IF u = {} THEN 0 ELSE Quantities(out)[Pick(u)] + h[u \ {Pick(u)}])
    BY <2>1
  <2>. QED  BY <2>2 DEF IsSum
<1>4. Solves(c)
  <2> HIDE DEF Solves, S
  <2>1. \E g : Solves(g)
    BY <1>2, <1>3, SumExists
  <2>. QED  BY <2>1
<1>5. c[S] = SumOver(Quantities(out), S)
  <2> HIDE DEF Solves, S, c
  <2>. QED  BY <1>2, <1>3, <1>4, SumIs
<1>. QED  BY <1>1, <1>5 DEF Filled

\* An event that is no fill of i adds nothing to what i got; a fill adds its size.
LEMMA FilledAppend ==
    ASSUME NEW o \in EventSeq, NEW e \in ReportEvent \cup TopEvent, NEW i
    PROVE  /\ Append(o, e) \in EventSeq
           /\ ~(e.type = "Fill" /\ e.id = i) => Filled(Append(o, e), i) = Filled(o, i)
           /\ e.type = "Fill" /\ e.id = i => Filled(Append(o, e), i) = Filled(o, i) + e.qty
<1> DEFINE l == Append(o, e)
           n == Len(o) + 1
           S == FillsOf(o, i)
<1>1. /\ l \in EventSeq /\ Len(o) \in Nat /\ DOMAIN o = 1..Len(o)
      /\ DOMAIN l = 1..n /\ l[n] = e /\ \A k \in 1..Len(o) : l[k] = o[k]
  BY AppendProperties, LenProperties DEF EventSeq
<1>2. /\ IsFiniteSet(S) /\ S \subseteq DOMAIN o
      /\ IsFiniteSet(FillsOf(l, i))
      /\ \A k \in S : Quantities(o)[k] \in Nat
      /\ \A k \in FillsOf(l, i) : Quantities(l)[k] \in Nat
  BY <1>1, FillsTyped
<1> HIDE DEF l
<1>3. \A k \in S : k \in 1..Len(o) /\ k # n /\ Quantities(o)[k] = Quantities(l)[k]
  <2> SUFFICES ASSUME NEW k \in S
               PROVE  k \in 1..Len(o) /\ k # n /\ Quantities(o)[k] = Quantities(l)[k]
    OBVIOUS
  <2>1. k \in DOMAIN o /\ k \in DOMAIN l /\ k # n /\ l[k] = o[k]
    BY <1>1, <1>2
  <2>. QED  BY <1>1, <2>1 DEF Quantities
<1>4. SumOver(Quantities(l), S) = Filled(o, i) /\ Filled(o, i) \in Nat
  <2>1. SumOver(Quantities(l), S) = SumOver(Quantities(o), S)
    BY <1>2, <1>3, SumSame
  <2>2. SumOver(Quantities(o), S) \in Nat
    BY <1>2, SumNat
  <2>. QED  BY <2>1, <2>2 DEF Filled
<1>5. ASSUME ~(e.type = "Fill" /\ e.id = i) PROVE FillsOf(l, i) = S
  <2>1. ASSUME NEW k \in FillsOf(l, i) PROVE k \in S
    <3>1. k \in 1..n /\ k # n /\ l[k].type = "Fill" /\ l[k].id = i
      BY <1>1, <1>5 DEF FillsOf
    <3>2. k \in 1..Len(o)
      BY <1>1, <3>1
    <3>. QED  BY <1>1, <3>1, <3>2 DEF FillsOf
  <2>2. ASSUME NEW k \in S PROVE k \in FillsOf(l, i)
    <3>1. k \in 1..Len(o) /\ k \in DOMAIN l /\ o[k].type = "Fill" /\ o[k].id = i
      BY <1>1, <1>3 DEF FillsOf
    <3>. QED  BY <1>1, <3>1 DEF FillsOf
  <2> HIDE DEF S
  <2>. QED  BY <2>1, <2>2
<1>6. ASSUME e.type = "Fill", e.id = i PROVE FillsOf(l, i) = S \cup {n}
  <2>1. ASSUME NEW k \in FillsOf(l, i) PROVE k \in S \cup {n}
    <3>1. k \in 1..n /\ l[k].type = "Fill" /\ l[k].id = i
      BY <1>1 DEF FillsOf
    <3>2. k \in 1..Len(o) \/ k = n
      BY <1>1, <3>1
    <3>. QED  BY <1>1, <3>1, <3>2 DEF FillsOf
  <2>2. ASSUME NEW k \in S PROVE k \in FillsOf(l, i)
    <3>1. k \in 1..Len(o) /\ k \in DOMAIN l /\ o[k].type = "Fill" /\ o[k].id = i
      BY <1>1, <1>3 DEF FillsOf
    <3>. QED  BY <1>1, <3>1 DEF FillsOf
  <2>3. n \in FillsOf(l, i)
    BY <1>1, <1>6 DEF FillsOf
  <2> HIDE DEF S, n
  <2>. QED  BY <2>1, <2>2, <2>3
<1>7. ASSUME e.type = "Fill", e.id = i PROVE Filled(l, i) = Filled(o, i) + e.qty
  <2>1. FillsOf(l, i) = S \cup {n} /\ n \notin S
    BY <1>3, <1>6, <1>7
  <2>2. Quantities(l)[n] = e.qty /\ e.qty \in Nat
    <3>1. Quantities(l)[n] = e.qty
      BY <1>1 DEF Quantities
    <3>2. Quantities(l)[n] \in Nat
      BY <1>2, <2>1
    <3>. QED  BY <3>1, <3>2
  <2>3. \A k \in S \cup {n} : Quantities(l)[k] \in Int
    BY <1>2, <2>1
  <2> HIDE DEF S, n
  <2>4. SumOver(Quantities(l), S \cup {n}) = Quantities(l)[n] + SumOver(Quantities(l), S)
    BY <1>2, <2>1, <2>3, SumAdd
  <2>5. Filled(l, i) = e.qty + Filled(o, i)
    BY <1>4, <2>1, <2>2, <2>4, Zenon DEF Filled
  <2>. QED  BY <1>4, <2>2, <2>5
<1>8. ASSUME ~(e.type = "Fill" /\ e.id = i) PROVE Filled(l, i) = Filled(o, i)
  BY <1>4, <1>5, <1>8 DEF Filled
<1>. QED  BY <1>1, <1>7, <1>8 DEF l

\* No call has filled an order before its first event.
LEMMA FilledEmpty == ASSUME NEW i PROVE Filled(<<>>, i) = 0
<1>1. FillsOf(<<>>, i) = {}
  BY DEF FillsOf
<1>. QED  BY <1>1, SumEmpty DEF Filled

\* The events a step emits, one at a time.
LEMMA EmitOne ==
    ASSUME out \in EventSeq, NEW e \in ReportEvent \cup TopEvent, Emit(<<e>>)
    PROVE  out' = Append(out, e)
<1> DEFINE E == ReportEvent \cup TopEvent
<1>1. out \in Seq(E) /\ e \in E
  BY DEF EventSeq
<1> HIDE DEF E
<1>2. Append(out, e) = out \o <<e>>
  BY <1>1, AppendIsConcat
<1>. QED  BY <1>2 DEF Emit

\* A trade emits three events, in this order.
LEMMA EmitThree ==
    ASSUME out \in EventSeq, NEW a \in ReportEvent \cup TopEvent,
           NEW b \in ReportEvent \cup TopEvent, NEW c \in ReportEvent \cup TopEvent,
           Emit(<<a, b, c>>)
    PROVE  out' = Append(Append(Append(out, a), b), c)
<1> DEFINE E == ReportEvent \cup TopEvent
<1>1. out \in Seq(E) /\ a \in E /\ b \in E /\ c \in E
  BY DEF EventSeq
<1> HIDE DEF E
<1>2. out \o <<a, b, c>> = Append(Append(Append(out, a), b), c)
  BY <1>1
<1>. QED  BY <1>2 DEF Emit

\* The clients whose orders may rest, and those that send fill-or-kill orders.
RestingTypes == {"Limit", "PostOnly"}
MakerClients == {c.client : c \in {d \in Commands : d.type = "New" /\ d.ordType \in RestingTypes}}
FokClients == {c.client : c \in {d \in Commands : d.type = "New" /\ d.ordType = "Fok"}}

\* Whose orders rest, and whose order a call of handle_new handles: a replay's is
\* of the client, and the type, of an order that rested.
ClientsInv ==
    /\ \A i \in index : order[i].client \in MakerClients /\ order[i].type \in RestingTypes
    /\ pc = "dispatch" => cmd \in Commands
    /\ pc \in {"new", "match"} =>
          /\ cmd.type = "New"
          /\ cmd.ordType \in RestingTypes => cmd.client \in MakerClients
          /\ cmd.ordType = "Fok" => cmd.client \in FokClients
    /\ pc = "match" =>
          /\ in.client = cmd.client /\ in.type = cmd.ordType
          /\ in.side = cmd.side

\* Every step of process() keeps track of whose orders rest and take.
LEMMA ClientsStep == Inv /\ ClientsInv /\ [Next]_vars => ClientsInv'
<1> SUFFICES ASSUME Inv, ClientsInv, [Next]_vars PROVE ClientsInv'
  OBVIOUS
<1>0. BookTypeOK /\ Inv'
  BY NextInv DEF Inv, TypeOK, BookTypeOK
<1>a. ASSUME UNCHANGED <<index, order>>
      PROVE  \A i \in index' : order'[i].client \in MakerClients /\ order'[i].type \in RestingTypes
  BY <1>a DEF ClientsInv
<1>b. ASSUME NEW r \in index, Release(r)
      PROVE  \A i \in index' : order'[i].client \in MakerClients /\ order'[i].type \in RestingTypes
  BY <1>0, <1>b, ReleaseOthers DEF ClientsInv
<1>1. CASE UNCHANGED vars
  BY <1>1 DEF vars, bookVars, ClientsInv
<1>2. ASSUME NEW c \in Commands, Receive(c) PROVE ClientsInv'
  BY <1>a, <1>2 DEF Receive, bookVars, ClientsInv
<1>3. ASSUME NEW h \in BOOLEAN, SetHalted(h) PROVE ClientsInv'
  BY <1>a, <1>3 DEF SetHalted, bookVars, ClientsInv
<1>4. CASE AdmitNew
  <2>1. /\ pc = "dispatch" /\ cmd \in Commands /\ cmd.type = "New" /\ cmd' = cmd /\ pc' = "new"
        /\ UNCHANGED <<index, order>>
    BY <1>4 DEF AdmitNew, bookVars, ClientsInv
  <2>2. /\ cmd.ordType \in RestingTypes => cmd.client \in MakerClients
        /\ cmd.ordType = "Fok" => cmd.client \in FokClients
    BY <2>1 DEF MakerClients, FokClients
  <2>. QED  BY <1>a, <2>1, <2>2 DEF ClientsInv
<1>5. CASE RejectHalted \/ RejectUnknown \/ RejectNew \/ FullyFilled \/ CancelRemainder
           \/ PoolExhausted \/ RestOutsideLevels \/ PublishNothing \/ PublishTop
  <2>1. UNCHANGED <<index, order>> /\ pc' \in {"publish", "oob", "idle"}
    BY <1>5 DEF RejectHalted, RejectUnknown, RejectNew, FullyFilled, CancelRemainder,
           PoolExhausted, RestOutsideLevels, PublishNothing, PublishTop, CancelIncoming,
           Return, bookVars
  <2>. QED  BY <1>a, <2>1 DEF ClientsInv
<1>6. CASE HandleCancel
  <2>1. cmd.id \in index /\ Release(cmd.id) /\ pc' = "publish"
    BY <1>6 DEF HandleCancel
  <2>. QED  BY <1>b, <2>1 DEF ClientsInv
<1>7. CASE ModifyInPlace
  <2>1. /\ order' = [order EXCEPT ![cmd.id] = [order[cmd.id] EXCEPT !.remaining = cmd.qty,
                                !.quantity = cmd.qty + (order[cmd.id].quantity - cmd.qty)]]
        /\ index' = index /\ pc' = "publish"
    BY <1>7 DEF ModifyInPlace
  <2>2. \A i \in index : order'[i].client = order[i].client /\ order'[i].type = order[i].type
    BY <1>0, <2>1 DEF BookTypeOK, Order
  <2>. QED  BY <2>1, <2>2 DEF ClientsInv
<1>8. CASE ReplayAsNew
  <2> DEFINE o == order[cmd.id]
  <2>1. /\ cmd.id \in index /\ Release(cmd.id) /\ pc' = "new"
        /\ cmd' = NewCommand(cmd.id, o.client, o.side, o.type, NewPrice, cmd.qty)
    BY <1>8 DEF ReplayAsNew, IsModify
  <2>2. o.client \in MakerClients /\ o.type \in RestingTypes /\ o.type # "Fok"
    BY <2>1 DEF ClientsInv, RestingTypes
  <2>3. cmd'.type = "New" /\ cmd'.client = o.client /\ cmd'.ordType = o.type
    BY <2>1 DEF NewCommand
  <2>. QED  BY <1>b, <2>1, <2>2, <2>3 DEF ClientsInv
<1>9. CASE AcceptNew
  <2>1. /\ pc = "new" /\ pc' = "match" /\ cmd' = cmd /\ UNCHANGED <<index, order>>
        /\ in'.client = cmd.client /\ in'.type = cmd.ordType /\ in'.side = cmd.side
    BY <1>9 DEF AcceptNew, bookVars
  <2>. QED  BY <1>a, <2>1 DEF ClientsInv
<1>10. ASSUME NEW p \in Price, StpCancelAggressor(p) PROVE ClientsInv'
  <2>1. /\ pc = "match" /\ pc' = pc /\ cmd' = cmd /\ UNCHANGED <<index, order>>
        /\ in' = [in EXCEPT !.remaining = 0] /\ in \in Order
    BY <1>10 DEF StpCancelAggressor, bookVars, Inv, TypeOK
  <2>2. in'.client = in.client /\ in'.type = in.type /\ in'.side = in.side
    BY <2>1 DEF Order
  <2>. QED  BY <1>a, <2>1, <2>2 DEF ClientsInv
<1>11. ASSUME NEW p \in Price, StpCancelResting(p) PROVE ClientsInv'
  <2> DEFINE r == Head(queue[Opposite(in.side)][p])
  <2>1. /\ pc = "match" /\ CanMatch(p) /\ pc' = pc /\ cmd' = cmd /\ in' = in /\ Release(r)
    BY <1>11 DEF StpCancelResting
  <2>2. r \in index
    BY <2>1, MeetsHead
  <2>. QED  BY <1>b, <2>1, <2>2 DEF ClientsInv
<1>12. ASSUME NEW p \in Price, Trade(p) PROVE ClientsInv'
  <2> DEFINE r == Head(queue[Opposite(in.side)][p])
             q == Traded(r)
  <2>1. /\ pc = "match" /\ CanMatch(p) /\ pc' = pc /\ cmd' = cmd /\ Take(r, q)
        /\ in' = [in EXCEPT !.remaining = @ - q]
    BY <1>12 DEF Trade, OldestAt
  <2>2. r \in index /\ order[r] \in Order /\ in \in Order
    BY <2>1, MeetsHead
  <2>3. in'.client = in.client /\ in'.type = in.type /\ in'.side = in.side
    BY <2>1, <2>2 DEF Order
  <2> HIDE DEF q
  <2>4. CASE Release(r)
    BY <1>b, <2>1, <2>2, <2>3, <2>4 DEF ClientsInv
  <2>5. CASE ReduceInPlace(r, q)
    <3>1. order' = [order EXCEPT ![r].remaining = @ - q] /\ index' = index
      BY <2>5 DEF ReduceInPlace
    <3>2. \A i \in index : order'[i].client = order[i].client /\ order'[i].type = order[i].type
      BY <1>0, <2>2, <3>1 DEF BookTypeOK, Order
    <3>. QED  BY <2>1, <2>3, <3>1, <3>2 DEF ClientsInv
  <2>. QED  BY <2>1, <2>4, <2>5 DEF Take
<1>13. CASE RestIncoming
  <2>1. /\ pc = "match" /\ pc' = "publish" /\ in.type \in RestingTypes
        /\ index' = index \cup {cmd.id}
        /\ order' = [order EXCEPT ![cmd.id] = in] /\ cmd.id \in OrderId
    BY <1>13 DEF RestIncoming, MatchDone, Rests, RestingTypes, Inv, TypeOK, Command
  <2>2. in.client \in MakerClients
    BY <2>1 DEF ClientsInv
  <2>3. \A i \in index' : order'[i].client \in MakerClients /\ order'[i].type \in RestingTypes
    BY <1>0, <2>1, <2>2 DEF ClientsInv, BookTypeOK
  <2>. QED  BY <2>1, <2>3 DEF ClientsInv
<1>. QED
  BY <1>1, <1>2, <1>3, <1>4, <1>5, <1>6, <1>7, <1>8, <1>9, <1>10, <1>11, <1>12, <1>13
     DEF Next, Step

\* An empty level's total is 0.
LEMMA EmptyLevelTotal ==
    ASSUME TotalsInv, NEW s \in Side, NEW p \in Price, p \notin Occupied(s)
    PROVE  total[s][p] = 0
<1>1. queue[s][p] = <<>>
  BY DEF Occupied
<1>2. ToSet(queue[s][p]) = {}
  BY <1>1 DEF ToSet
<1>. QED  BY <1>2, SumEmpty DEF TotalsInv

\* The loop guard of match only fails when nothing marketable is left.
LEMMA NothingMarketable ==
    ASSUME Inv, TotalsInv, in.remaining > 0, \A p \in Price : ~CanMatch(p)
    PROVE  Marketable(total, in.side, in.price) = 0
<1> DEFINE s == Opposite(in.side)
           t == total[s]
           C == Crossed(in.side, in.price)
<1>1. in \in Order /\ s \in Side /\ t \in [Price -> Int] /\ BookTypeOK
  BY DEF Inv, TypeOK, BookTypeOK, Order, Opposite, Side
<1>2. ASSUME NEW p \in C PROVE t[p] = 0
  <2>1. p \in Price /\ Crosses(in.side, in.price, p)
    BY DEF Crossed
  <2>2. ASSUME p \in Occupied(s) PROVE FALSE
    <3>1. /\ Head(queue[s][p]) \in index /\ order[Head(queue[s][p])].side = s
          /\ order[Head(queue[s][p])].price = p
      BY <1>1, <2>2, HeadOfLevel DEF Inv
    <3>. QED  BY <1>1, <2>1, <3>1, NothingLeftToCross DEF Inv, BookInv
  <2>. QED  BY <1>1, <2>1, <2>2, EmptyLevelTotal
<1>3. C \in SUBSET Price
  BY DEF Crossed
<1> HIDE DEF t, C
<1>4. SumOver(t, {}) = SumOver(t, C)
  BY <1>1, <1>2, <1>3, EmptyLevelsAddNothing
<1>. QED  BY <1>4, SumEmpty DEF Marketable, t, C

\* A fill takes its size off what is marketable.
LEMMA TradeMarketable ==
    ASSUME BookTypeOK, BookTypeOK', NEW s \in Side, NEW limit, NEW p \in Crossed(s, limit),
           NEW q \in Int,
           total' = [total EXCEPT ![Opposite(s)][p] = @ - q]
    PROVE  Marketable(total', s, limit) = Marketable(total, s, limit) - q
<1> DEFINE f == total[Opposite(s)]
           g == total'[Opposite(s)]
           C == Crossed(s, limit)
<1>1. /\ Opposite(s) \in Side /\ C \in SUBSET Price /\ p \in C
      /\ f \in [Price -> Int] /\ g \in [Price -> Int]
  BY DEF BookTypeOK, Opposite, Side, Crossed
<1>2. g = [f EXCEPT ![p] = f[p] - q]
  BY <1>1 DEF BookTypeOK
<1> HIDE DEF f, g, C
<1>3. /\ g[p] = f[p] - q /\ \A x \in C \ {p} : f[x] = g[x]
      /\ \A x \in C : f[x] \in Int /\ g[x] \in Int
  BY <1>1, <1>2
<1>4. SumOver(g, C) = SumOver(f, C) + (g[p] - f[p])
  BY <1>1, <1>3, PricesFinite, SumChange
<1>5. SumOver(f, C) \in Int
  BY <1>1, <1>3, PricesFinite, SumInt
<1>6. SumOver(g, C) = SumOver(f, C) - q
  BY <1>1, <1>3, <1>4, <1>5
<1>. QED  BY <1>6 DEF Marketable, f, g, C

\* What a trade adds to the incoming order's fills.
LEMMA TradeFills ==
    ASSUME Inv, NEW p \in Price, Trade(p)
    PROVE  Filled(out', cmd.id) = Filled(out, cmd.id)
                                     + Traded(Head(queue[Opposite(in.side)][p]))
<1> DEFINE r == Head(queue[Opposite(in.side)][p])
           q == Traded(r)
           o == order[r]
           a == Report("Fill", cmd.id, r, in, o.price, q, in.remaining - q, "None")
           b == Report("Fill", r, cmd.id, o, o.price, q, o.remaining - q, "None")
           c == Report("Trade", cmd.id, r, [in EXCEPT !.client = NoClient], o.price, q, 0, "None")
<1>1. pc = "match" /\ CanMatch(p) /\ Emit(TradeEvents(r, q))
  BY DEF Trade, OldestAt
<1>2. TradeEvents(r, q) = <<a, b, c>>
  BY DEF TradeEvents
<1>3. a \in ReportEvent /\ b \in ReportEvent /\ c \in ReportEvent
  BY <1>1, TradeReports
<1>4. cmd.id # r
  BY <1>1, MeetsHead
<1>5. /\ a.type = "Fill" /\ a.id = cmd.id /\ a.qty = q
      /\ b.id = r /\ c.type = "Trade"
  BY DEF Report
<1>6. out \in EventSeq
  BY DEF Inv, TypeOK, EventSeq
<1> HIDE DEF a, b, c, q, r
<1>7. out' = Append(Append(Append(out, a), b), c)
  BY <1>1, <1>2, <1>3, <1>6, EmitThree
<1> DEFINE l == Append(out, a)
           m == Append(l, b)
<1>8. l \in EventSeq /\ Filled(l, cmd.id) = Filled(out, cmd.id) + q
  BY <1>3, <1>5, <1>6, FilledAppend
<1> HIDE DEF l
<1>9. m \in EventSeq /\ Filled(m, cmd.id) = Filled(l, cmd.id)
  BY <1>3, <1>4, <1>5, <1>8, FilledAppend
<1> HIDE DEF m
<1>10. Filled(Append(m, c), cmd.id) = Filled(m, cmd.id)
  BY <1>3, <1>5, <1>9, FilledAppend
<1>. QED  BY <1>7, <1>8, <1>9, <1>10 DEF l, m, q, r

\* No fill-or-kill order meets an order of its own client, or self-trade prevention
\* is off: what the fill-or-kill promise depends on.
FokMeetsNoOwnOrder == Stp = "None" \/ FokClients \cap MakerClients = {}

\* While a fill-or-kill order is matched, what it still needs is marketable, and
\* what it no longer needs it has been filled.
FokInv ==
    /\ pc \in {"dispatch", "new"} => out = <<>>
    /\ pc = "match" /\ in.type = "Fok" =>
          /\ in.remaining <= Marketable(total, in.side, in.price)
          /\ Filled(out, cmd.id) = cmd.qty - in.remaining
    /\ pc = "publish" /\ cmd.type = "New" /\ cmd.ordType = "Fok" =>
          Filled(out, cmd.id) \in {0, cmd.qty}

\* A call that only rejects fills nothing.
LEMMA RejectFills ==
    ASSUME Inv, pc # "idle", out = <<>>, NEW reason \in RejectReason, Reject(reason)
    PROVE  Filled(out', cmd.id) = 0
<1> DEFINE e == Report("Rejected", cmd.id, NoId, cmd, cmd.price, cmd.qty, 0, reason)
<1>1. e \in ReportEvent /\ e.type = "Rejected"
  <2>1. cmd \in Command
    BY DEF Inv, TypeOK
  <2>2. e \in ReportEvent
    BY <2>1, ReportTyped DEF Command
  <2>. QED  BY <2>2 DEF Report
<1>2. out \in EventSeq
  BY DEF Inv, TypeOK, EventSeq
<1> HIDE DEF e
<1>3. out' = Append(out, e)
  BY <1>1, <1>2, EmitOne DEF Reject, e
<1>4. Filled(Append(out, e), cmd.id) = Filled(out, cmd.id)
  BY <1>1, <1>2, FilledAppend
<1>. QED  BY <1>3, <1>4, FilledEmpty

\* The sizing check: an accepted fill-or-kill order starts with enough to take.
LEMMA AcceptFok == ASSUME Inv, ClientsInv, TotalsInv, FokInv, AcceptNew PROVE FokInv'
<1> DEFINE e == Report("Accepted", cmd.id, NoId, in', Limit, cmd.qty, cmd.qty, "None")
<1>1. /\ cmd \in Command /\ cmd.id \in OrderId /\ cmd.client \in Client /\ cmd.side \in Side
      /\ cmd.qty \in Nat /\ cmd.price \in Int
  BY DEF Inv, TypeOK, AcceptNew, Command
<1>2. /\ in'.client = cmd.client /\ in'.side = cmd.side /\ in'.type = cmd.ordType
      /\ in'.price = Limit /\ in'.remaining = cmd.qty
      /\ pc = "new" /\ pc' = "match" /\ cmd' = cmd /\ total' = total /\ Emit(<<e>>)
  BY DEF AcceptNew, bookVars
<1>3. Limit \in Int
  BY <1>1, PriceAssumption DEF Limit
<1>4. e \in ReportEvent /\ e.type = "Accepted"
  <2>1. in'.client \in Client \cup {NoClient} /\ in'.side \in Side /\ "None" \in RejectReason
    BY <1>1, <1>2 DEF RejectReason
  <2>2. e \in ReportEvent
    BY <1>1, <1>3, <2>1, ReportTyped
  <2>. QED  BY <2>2 DEF Report
<1> HIDE DEF e
<1>5. Filled(out', cmd.id) = 0
  <2>1. out = <<>> /\ out \in EventSeq
    BY <1>2 DEF FokInv, Inv, TypeOK, EventSeq
  <2>2. out' = Append(out, e)
    BY <1>2, <1>4, <2>1, EmitOne
  <2>3. Filled(Append(out, e), cmd.id) = Filled(out, cmd.id)
    BY <1>4, <2>1, FilledAppend
  <2>. QED  BY <2>1, <2>2, <2>3, FilledEmpty
<1>6. ASSUME cmd.ordType = "Fok" PROVE cmd.qty <= Marketable(total, cmd.side, Limit)
  <2>1. ~(MarketableQty(cmd.side, Limit) < cmd.qty)
    BY <1>6 DEF AcceptNew, Rejection
  <2>2. MarketableQty(cmd.side, Limit) = Marketable(total, cmd.side, Limit)
    BY <1>1, <1>3, MarketableSum DEF Inv, TypeOK, BookTypeOK
  <2>3. Marketable(total, cmd.side, Limit) \in Int
    <3> DEFINE f == total[Opposite(cmd.side)]
    <3>1. /\ IsFiniteSet(Crossed(cmd.side, Limit)) /\ f \in [Price -> Int]
          /\ Crossed(cmd.side, Limit) \subseteq Price
      BY PricesFinite DEF Crossed, Inv, TypeOK, Opposite, Side
    <3> HIDE DEF f
    <3>2. \A p \in Crossed(cmd.side, Limit) : f[p] \in Int
      BY <3>1
    <3>3. SumOver(f, Crossed(cmd.side, Limit)) \in Int
      BY <3>1, <3>2, SumInt
    <3>. QED  BY <3>3 DEF Marketable, f
  <2>. QED  BY <1>1, <2>1, <2>2, <2>3
<1>. QED  BY <1>1, <1>2, <1>5, <1>6 DEF FokInv

\* A trade fills what it takes off the levels.
LEMMA TradeFok ==
    ASSUME Inv, ClientsInv, TotalsInv, FokInv, NEW p \in Price, Trade(p)
    PROVE  FokInv'
<1> DEFINE r == Head(queue[Opposite(in.side)][p])
           o == order[r]
           q == Traded(r)
<1>1. /\ pc = "match" /\ CanMatch(p) /\ Take(r, q) /\ pc' = pc /\ cmd' = cmd
      /\ in' = [in EXCEPT !.remaining = @ - q]
  BY DEF Trade, OldestAt
<1>2. /\ r \in index /\ o \in Order /\ in \in Order /\ cmd \in Command /\ o.price = p
  BY <1>1, MeetsHead
<1>3. o.side = Opposite(in.side)
  <2>1. Opposite(in.side) \in Side /\ p \in Occupied(Opposite(in.side))
    BY <1>1, <1>2 DEF CanMatch, IsBest, Opposite, Side
  <2>. QED  BY <2>1, HeadOfLevel DEF Inv, TypeOK, BookTypeOK
<1>4. q \in Nat /\ q <= in.remaining
  BY <1>1, TradeReports
<1>5. Filled(out', cmd.id) = Filled(out, cmd.id) + q
  BY TradeFills
<1>6. total' = [total EXCEPT ![Opposite(in.side)][p] = @ - q]
  <2>1. CASE o.remaining = q /\ Release(r)
    BY <1>2, <1>3, <2>1 DEF Release, Unlink
  <2>2. CASE ReduceInPlace(r, q)
    BY <1>2, <1>3, <2>2 DEF ReduceInPlace
  <2>. QED  BY <1>1, <2>1, <2>2 DEF Take
<1>7. BookTypeOK /\ BookTypeOK'
  <2>1. Next
    BY DEF Next, Step
  <2>2. Inv'
    BY <2>1, NextInv
  <2>. QED  BY <2>2 DEF Inv, TypeOK, BookTypeOK
<1> HIDE DEF q
<1>8. /\ in'.type = in.type /\ in'.side = in.side /\ in'.price = in.price
      /\ in'.remaining = in.remaining - q /\ in.remaining \in Nat /\ cmd.qty \in Nat
      /\ in.side \in Side
  BY <1>1, <1>2 DEF Order, Command
<1>9. ASSUME in.type = "Fok"
      PROVE  /\ in'.remaining <= Marketable(total', in'.side, in'.price)
             /\ Filled(out', cmd.id) = cmd.qty - in'.remaining
  <2>1. p \in Crossed(in.side, in.price)
    BY <1>1, <1>9 DEF CanMatch, Crossed
  <2>2. Marketable(total', in.side, in.price) = Marketable(total, in.side, in.price) - q
    <3>1. q \in Int
      BY <1>4
    <3>. QED  BY <1>6, <1>7, <1>8, <2>1, <3>1, TradeMarketable, Zenon
  <2>3. /\ in.remaining <= Marketable(total, in.side, in.price)
        /\ Filled(out, cmd.id) = cmd.qty - in.remaining
    BY <1>1, <1>9 DEF FokInv
  <2>4. Marketable(total, in.side, in.price) \in Int
    <3> DEFINE f == total[Opposite(in.side)]
               C == Crossed(in.side, in.price)
    <3>1. /\ IsFiniteSet(C) /\ f \in [Price -> Int] /\ C \subseteq Price
      BY <1>7, PricesFinite DEF Crossed, BookTypeOK, Opposite, Side
    <3> HIDE DEF f, C
    <3>2. \A x \in C : f[x] \in Int
      BY <3>1
    <3>3. SumOver(f, C) \in Int
      BY <3>1, <3>2, SumInt
    <3>. QED  BY <3>3 DEF Marketable, f, C
  <2>. QED  BY <1>4, <1>5, <1>8, <2>2, <2>3, <2>4
<1>. QED  BY <1>1, <1>8, <1>9 DEF FokInv

\* Every step of process() keeps the fill-or-kill promise.
LEMMA FokStep ==
    FokMeetsNoOwnOrder /\ Inv /\ ClientsInv /\ TotalsInv /\ FokInv /\ [Next]_vars => FokInv'
<1> SUFFICES ASSUME FokMeetsNoOwnOrder, Inv, ClientsInv, TotalsInv, FokInv, [Next]_vars
             PROVE  FokInv'
  OBVIOUS
<1>1. CASE UNCHANGED vars
  BY <1>1 DEF vars, bookVars, FokInv
<1>2. ASSUME NEW c \in Commands, Receive(c) PROVE FokInv'
  BY <1>2 DEF Receive, FokInv
<1>3. ASSUME NEW h \in BOOLEAN, SetHalted(h) PROVE FokInv'
  BY <1>3 DEF SetHalted, bookVars, FokInv
<1>4. CASE AdmitNew
  BY <1>4 DEF AdmitNew, FokInv
<1>5. CASE RejectHalted
  <2>1. /\ pc = "dispatch" /\ Reject("BookHalted") /\ pc' = "publish" /\ cmd' = cmd
    BY <1>5 DEF RejectHalted
  <2>2. Filled(out', cmd.id) = 0
    BY <2>1, RejectFills DEF FokInv, RejectReason
  <2>. QED  BY <2>1, <2>2 DEF FokInv
<1>6. CASE RejectNew
  <2>1. /\ pc = "new" /\ Reject(Rejection) /\ pc' = "publish" /\ cmd' = cmd
        /\ Rejection \in RejectReason
    BY <1>6 DEF RejectNew, Rejection, RejectReason
  <2>2. Filled(out', cmd.id) = 0
    BY <2>1, RejectFills DEF FokInv
  <2>. QED  BY <2>1, <2>2 DEF FokInv
<1>7. CASE RejectUnknown \/ HandleCancel \/ ModifyInPlace
  <2>1. cmd.type # "New" /\ cmd' = cmd /\ pc' = "publish"
    BY <1>7 DEF RejectUnknown, HandleCancel, IsCancel, ModifyInPlace, IsModify
  <2>. QED  BY <2>1 DEF FokInv
<1>8. CASE ReplayAsNew
  BY <1>8 DEF ReplayAsNew, IsModify, FokInv
<1>9. CASE AcceptNew
  BY <1>9, AcceptFok
<1>10. ASSUME NEW p \in Price, StpCancelAggressor(p) \/ StpCancelResting(p) PROVE FokInv'
  <2> DEFINE r == Head(queue[Opposite(in.side)][p])
  <2>1. /\ pc = "match" /\ CanMatch(p) /\ SelfTrade(r) /\ pc' = "match"
        /\ in' = [in EXCEPT !.remaining = 0] \/ in' = in
    BY <1>10 DEF StpCancelAggressor, StpCancelResting
  <2>2. r \in index /\ in \in Order
    BY <2>1, MeetsHead
  <2>3. order[r].client \in MakerClients /\ order[r].client = cmd.client
    BY <2>1, <2>2 DEF ClientsInv, SelfTrade
  <2>4. in.type # "Fok"
    BY <2>1, <2>3 DEF ClientsInv, FokMeetsNoOwnOrder, SelfTrade
  <2>5. in'.type = in.type
    BY <2>1, <2>2 DEF Order
  <2>. QED  BY <2>1, <2>4, <2>5 DEF FokInv
<1>11. ASSUME NEW p \in Price, Trade(p) PROVE FokInv'
  BY <1>11, TradeFok
<1>12. CASE FullyFilled
  <2>1. /\ pc = "match" /\ in.remaining = 0 /\ pc' = "publish" /\ cmd' = cmd /\ out' = out
    BY <1>12 DEF FullyFilled, MatchDone
  <2>2. cmd \in Command /\ cmd.qty \in Nat
    BY <2>1 DEF Inv, TypeOK, Command
  <2>. QED  BY <2>1, <2>2 DEF FokInv, ClientsInv
<1>13. CASE CancelRemainder
  <2>1. /\ pc = "match" /\ in.remaining > 0 /\ \A p \in Price : ~CanMatch(p)
        /\ pc' = "publish" /\ cmd' = cmd
    BY <1>13 DEF CancelRemainder, MatchDone, CancelIncoming
  <2>2. Marketable(total, in.side, in.price) = 0 /\ in.remaining \in Nat
    BY <2>1, NothingMarketable DEF Inv, TypeOK, Order
  <2>3. cmd.ordType # "Fok"
    BY <2>1, <2>2 DEF FokInv, ClientsInv
  <2>. QED  BY <2>1, <2>3 DEF FokInv
<1>14. CASE PoolExhausted \/ RestIncoming
  <2>1. /\ pc = "match" /\ in.type \in {"Limit", "PostOnly"} /\ pc' = "publish" /\ cmd' = cmd
    BY <1>14 DEF PoolExhausted, RestIncoming, MatchDone, Rests, CancelIncoming
  <2>. QED  BY <2>1 DEF FokInv, ClientsInv
<1>15. CASE RestOutsideLevels \/ PublishNothing \/ PublishTop
  BY <1>15 DEF RestOutsideLevels, PublishNothing, PublishTop, Return, FokInv
<1>. QED
  BY <1>1, <1>2, <1>3, <1>4, <1>5, <1>6, <1>7, <1>8, <1>9, <1>10, <1>11, <1>12, <1>13,
     <1>14, <1>15 DEF Next, Step

\* A fill-or-kill order fills in full in its call or not at all, on every book, when
\* self-trade prevention cannot pull quantity the sizing walk counted.
THEOREM FokIsAllOrNothing ==
    ASSUME FokMeetsNoOwnOrder
    PROVE  Spec => []FokAllOrNothing
<1> DEFINE All == Inv /\ ClientsInv /\ TotalsInv /\ FokInv
<1>1. Init => All
  <2> SUFFICES ASSUME Init PROVE All
    OBVIOUS
  <2>1. Inv /\ TotalsInv
    BY InitInv, InitTotals
  <2>2. ClientsInv /\ FokInv
    BY DEF Init, ClientsInv, FokInv
  <2>. QED  BY <2>1, <2>2
<1>2. All /\ [Next]_vars => All'
  BY NextInv, ClientsStep, TotalsStep, FokStep
<1>3. All => FokAllOrNothing
  <2> SUFFICES ASSUME All, pc = "publish", cmd.type = "New", cmd.ordType = "Fok"
               PROVE  FilledInCall(cmd.id) \in {0, cmd.qty}
    BY DEF FokAllOrNothing
  <2>1. out \in EventSeq
    BY DEF Inv, TypeOK, EventSeq
  <2>. QED  BY <2>1, FilledSum DEF FokInv
<1>. QED  BY <1>1, <1>2, <1>3, PTL DEF Spec

-----------------------------------------------------------------------------
(* Reading the events of a step: none, one or three.                        *)

\* The last position of a nonempty set of at most three positions.
LEMMA MaxOfThree ==
    ASSUME NEW u \in SUBSET (1..3), u # {}
    PROVE  /\ Max(u) \in u /\ Max(u) \in {1, 2, 3}
           /\ \A y \in u : y <= Max(u)
<1>1. \E x \in u : \A y \in u : x >= y
  <2>0. \A y \in u : y = 1 \/ y = 2 \/ y = 3
    OBVIOUS
  <2>1. CASE 3 \in u
    <3>1. \A y \in u : 3 >= y
      BY <2>0
    <3>. QED  BY <2>1, <3>1
  <2>2. CASE 3 \notin u /\ 2 \in u
    <3>1. \A y \in u : y = 1 \/ y = 2
      BY <2>0, <2>2, Zenon
    <3>. QED  BY <2>2, <3>1
  <2>3. CASE 3 \notin u /\ 2 \notin u
    <3>1. 1 \in u /\ \A y \in u : y = 1
      <4>1. \A y \in u : y = 1
        BY <2>0, <2>3, Zenon
      <4>2. \E y : y \in u
        OBVIOUS
      <4>3. 1 \in u
        BY <4>1, <4>2, Zenon
      <4>. QED  BY <4>1, <4>3
    <3>. QED  BY <3>1
  <2>. QED  BY <2>1, <2>2, <2>3
<1>2. Max(u) \in u /\ \A y \in u : Max(u) >= y
  BY <1>1, Zenon DEF Max
<1>3. \A y \in u : y \in {1, 2, 3}
  OBVIOUS
<1>4. Max(u) \in {1, 2, 3}
  BY <1>2, <1>3
<1>5. ASSUME NEW y \in u PROVE y <= Max(u)
  <2>1. Max(u) \in Int /\ y \in Int /\ Max(u) >= y
    BY <1>2, <1>3, <1>4
  <2>. QED  BY <2>1
<1>. QED  BY <1>2, <1>4, <1>5

\* The prefixes of at most three positions.
LEMMA FirstPositions ==
    ASSUME NEW n \in 0..3, NEW k \in 1..n
    PROVE  /\ 1..k \in SUBSET (1..n) /\ 1..k # {}
           /\ Max(1..k) = k /\ (1..k) \ {k} = 1..(k - 1)
<1>1. n \in Int /\ k \in Int /\ 1 <= k /\ k <= n /\ n <= 3
  OBVIOUS
<1>2. k \in 1..k /\ \A y \in 1..k : y <= k
  BY <1>1
<1>3. 1..k \in SUBSET (1..n) /\ 1..k \in SUBSET (1..3) /\ 1..k # {}
  BY <1>1, <1>2
<1>4. Max(1..k) = k
  <2>1. /\ Max(1..k) \in 1..k /\ k <= Max(1..k)
    BY <1>2, <1>3, MaxOfThree
  <2>. QED  BY <1>1, <2>1
<1>5. (1..k) \ {k} = 1..(k - 1)
  BY <1>1
<1>. QED  BY <1>3, <1>4, <1>5

\* The open sizes after at most three events: FoldLeft applies them in order.
LEMMA EventFold ==
    ASSUME NEW v, NEW s, NEW n \in 0..3, DOMAIN s = 1..n
    PROVE  FoldLeft(ApplyEvent, v, s) =
             IF n = 0 THEN v
             ELSE IF n = 1 THEN ApplyEvent(v, s[1])
             ELSE IF n = 2 THEN ApplyEvent(ApplyEvent(v, s[1]), s[2])
             ELSE ApplyEvent(ApplyEvent(ApplyEvent(v, s[1]), s[2]), s[3])
<1> DEFINE A(x, k) == ApplyEvent(x, s[k])
           Solves(g) == g = [u \in SUBSET (1..n) |->
                               IF u = {} THEN v ELSE A(g[u \ {Max(u)}], Max(u))]
           one(u) == IF 1 \in u THEN A(v, 1) ELSE v
           two(u) == IF 2 \in u THEN A(one(u), 2) ELSE one(u)
           three(u) == IF 3 \in u THEN A(two(u), 3) ELSE two(u)
           w == [u \in SUBSET (1..n) |-> three(u)]
           g == CHOOSE f : Solves(f)
<1>1. FoldLeft(ApplyEvent, v, s) = g[1..n]
  BY DEF FoldLeft, MapThenFoldSet
<1> HIDE DEF A
<1>2. ASSUME NEW u \in SUBSET (1..n)
      PROVE  three(u) = IF u = {} THEN v ELSE A(three(u \ {Max(u)}), Max(u))
  <2>1. CASE u = {}
    BY <2>1
  <2>2. CASE u # {}
    <3> DEFINE m == Max(u)
    <3>1. m \in u /\ m \in {1, 2, 3} /\ \A y \in u : y <= m
      BY <2>2, MaxOfThree
    <3> HIDE DEF m
    <3>2. CASE m = 1
      <4>1. 1 \in u /\ 2 \notin u /\ 3 \notin u
        BY <3>1, <3>2
      <4>. QED  BY <2>2, <3>2, <4>1 DEF m
    <3>3. CASE m = 2
      <4>1. 2 \in u /\ 3 \notin u
        BY <3>1, <3>3
      <4>. QED  BY <2>2, <3>3, <4>1 DEF m
    <3>4. CASE m = 3
      <4>1. 3 \in u
        BY <3>1, <3>4
      <4>. QED  BY <2>2, <3>4, <4>1 DEF m
    <3>. QED  BY <3>1, <3>2, <3>3, <3>4
  <2>. QED  BY <2>1, <2>2
<1>3. Solves(w)
  <2>1. \A u \in SUBSET (1..n) : u \ {Max(u)} \in SUBSET (1..n)
    OBVIOUS
  <2>2. \A u \in SUBSET (1..n) :
          w[u] = IF u = {} THEN v ELSE A(w[u \ {Max(u)}], Max(u))
    BY <1>2, <2>1
  <2>3. w = [u \in SUBSET (1..n) |-> w[u]]
    OBVIOUS
  <2> HIDE DEF w
  <2>. QED  BY <2>2, <2>3
<1> HIDE DEF w
<1>4. Solves(g)
  BY <1>3
<1> HIDE DEF g
<1>5. \A u \in SUBSET (1..n) : g[u] = IF u = {} THEN v ELSE A(g[u \ {Max(u)}], Max(u))
  BY <1>4
<1> HIDE DEF Solves
<1>6. g[{}] = v
  <2>1. {} \in SUBSET (1..n)
    OBVIOUS
  <2>. QED  BY <1>5, <2>1
<1>7. \A k \in 1..n : g[1..k] = A(g[1..(k - 1)], k)
  <2> TAKE k \in 1..n
  <2>1. /\ 1..k \in SUBSET (1..n) /\ 1..k # {}
        /\ Max(1..k) = k /\ (1..k) \ {k} = 1..(k - 1)
    BY FirstPositions
  <2>. QED  BY <1>5, <2>1
<1>8. 1..0 = {} /\ 1 - 1 = 0 /\ 2 - 1 = 1 /\ 3 - 1 = 2
  OBVIOUS
<1>9. /\ n = 1 => g[1..1] = A(v, 1)
      /\ n = 2 => g[1..2] = A(A(v, 1), 2)
      /\ n = 3 => g[1..3] = A(A(A(v, 1), 2), 3)
  <2>1. n = 1 => 1 \in 1..n
    OBVIOUS
  <2>2. n = 2 => 1 \in 1..n /\ 2 \in 1..n
    OBVIOUS
  <2>3. n = 3 => 1 \in 1..n /\ 2 \in 1..n /\ 3 \in 1..n
    OBVIOUS
  <2>4. 1 \in 1..n => g[1..1] = A(v, 1)
    BY <1>6, <1>7, <1>8, Zenon
  <2>5. 2 \in 1..n => g[1..2] = A(g[1..1], 2)
    BY <1>7, <1>8, Zenon
  <2>6. 3 \in 1..n => g[1..3] = A(g[1..2], 3)
    BY <1>7, <1>8, Zenon
  <2>. QED  BY <2>1, <2>2, <2>3, <2>4, <2>5, <2>6
<1>10. n = 0 \/ n = 1 \/ n = 2 \/ n = 3
  OBVIOUS
<1>. QED  BY <1>1, <1>6, <1>8, <1>9, <1>10 DEF A
\* The top of book after at most three events, read in the same way.
LEMMA TopFold ==
    ASSUME NEW v, NEW s, NEW n \in 0..3, DOMAIN s = 1..n
    PROVE  FoldLeft(ApplyTop, v, s) =
             IF n = 0 THEN v
             ELSE IF n = 1 THEN ApplyTop(v, s[1])
             ELSE IF n = 2 THEN ApplyTop(ApplyTop(v, s[1]), s[2])
             ELSE ApplyTop(ApplyTop(ApplyTop(v, s[1]), s[2]), s[3])
<1> DEFINE A(x, k) == ApplyTop(x, s[k])
           Solves(g) == g = [u \in SUBSET (1..n) |->
                               IF u = {} THEN v ELSE A(g[u \ {Max(u)}], Max(u))]
           one(u) == IF 1 \in u THEN A(v, 1) ELSE v
           two(u) == IF 2 \in u THEN A(one(u), 2) ELSE one(u)
           three(u) == IF 3 \in u THEN A(two(u), 3) ELSE two(u)
           w == [u \in SUBSET (1..n) |-> three(u)]
           g == CHOOSE f : Solves(f)
<1>1. FoldLeft(ApplyTop, v, s) = g[1..n]
  BY DEF FoldLeft, MapThenFoldSet
<1> HIDE DEF A
<1>2. ASSUME NEW u \in SUBSET (1..n)
      PROVE  three(u) = IF u = {} THEN v ELSE A(three(u \ {Max(u)}), Max(u))
  <2>1. CASE u = {}
    BY <2>1
  <2>2. CASE u # {}
    <3> DEFINE m == Max(u)
    <3>1. m \in u /\ m \in {1, 2, 3} /\ \A y \in u : y <= m
      BY <2>2, MaxOfThree
    <3> HIDE DEF m
    <3>2. CASE m = 1
      <4>1. 1 \in u /\ 2 \notin u /\ 3 \notin u
        BY <3>1, <3>2
      <4>. QED  BY <2>2, <3>2, <4>1 DEF m
    <3>3. CASE m = 2
      <4>1. 2 \in u /\ 3 \notin u
        BY <3>1, <3>3
      <4>. QED  BY <2>2, <3>3, <4>1 DEF m
    <3>4. CASE m = 3
      <4>1. 3 \in u
        BY <3>1, <3>4
      <4>. QED  BY <2>2, <3>4, <4>1 DEF m
    <3>. QED  BY <3>1, <3>2, <3>3, <3>4
  <2>. QED  BY <2>1, <2>2
<1>3. Solves(w)
  <2>1. \A u \in SUBSET (1..n) : u \ {Max(u)} \in SUBSET (1..n)
    OBVIOUS
  <2>2. \A u \in SUBSET (1..n) :
          w[u] = IF u = {} THEN v ELSE A(w[u \ {Max(u)}], Max(u))
    BY <1>2, <2>1
  <2>3. w = [u \in SUBSET (1..n) |-> w[u]]
    OBVIOUS
  <2> HIDE DEF w
  <2>. QED  BY <2>2, <2>3
<1> HIDE DEF w
<1>4. Solves(g)
  BY <1>3
<1> HIDE DEF g
<1>5. \A u \in SUBSET (1..n) : g[u] = IF u = {} THEN v ELSE A(g[u \ {Max(u)}], Max(u))
  BY <1>4
<1> HIDE DEF Solves
<1>6. g[{}] = v
  <2>1. {} \in SUBSET (1..n)
    OBVIOUS
  <2>. QED  BY <1>5, <2>1
<1>7. \A k \in 1..n : g[1..k] = A(g[1..(k - 1)], k)
  <2> TAKE k \in 1..n
  <2>1. /\ 1..k \in SUBSET (1..n) /\ 1..k # {}
        /\ Max(1..k) = k /\ (1..k) \ {k} = 1..(k - 1)
    BY FirstPositions
  <2>. QED  BY <1>5, <2>1
<1>8. 1..0 = {} /\ 1 - 1 = 0 /\ 2 - 1 = 1 /\ 3 - 1 = 2
  OBVIOUS
<1>9. /\ n = 1 => g[1..1] = A(v, 1)
      /\ n = 2 => g[1..2] = A(A(v, 1), 2)
      /\ n = 3 => g[1..3] = A(A(A(v, 1), 2), 3)
  <2>1. n = 1 => 1 \in 1..n
    OBVIOUS
  <2>2. n = 2 => 1 \in 1..n /\ 2 \in 1..n
    OBVIOUS
  <2>3. n = 3 => 1 \in 1..n /\ 2 \in 1..n /\ 3 \in 1..n
    OBVIOUS
  <2>4. 1 \in 1..n => g[1..1] = A(v, 1)
    BY <1>6, <1>7, <1>8, Zenon
  <2>5. 2 \in 1..n => g[1..2] = A(g[1..1], 2)
    BY <1>7, <1>8, Zenon
  <2>6. 3 \in 1..n => g[1..3] = A(g[1..2], 3)
    BY <1>7, <1>8, Zenon
  <2>. QED  BY <2>1, <2>2, <2>3, <2>4, <2>5, <2>6
<1>10. n = 0 \/ n = 1 \/ n = 2 \/ n = 3
  OBVIOUS
<1>. QED  BY <1>1, <1>6, <1>8, <1>9, <1>10 DEF A

\* The events of a step that appends none, or clears the sequence, as Receive does.
LEMMA NoNews ==
    ASSUME out \in EventSeq, out' = out \/ out' = <<>>
    PROVE  DOMAIN NewEvents = 1..0
<1> DEFINE m == Len(out)
           n == Len(out')
<1>1. m \in Nat /\ n \in Nat /\ n <= m
  <2>1. Len(out) \in Nat
    BY LenProperties DEF EventSeq
  <2>2. Len(<<>>) = 0
    OBVIOUS
  <2>3. CASE out' = out
    <3>1. Len(out') = Len(out)
      BY <2>3, Zenon
    <3>. QED  BY <2>1, <3>1
  <2>4. CASE out' = <<>>
    <3>1. Len(out') = 0
      BY <2>2, <2>4, Zenon
    <3>. QED  BY <2>1, <3>1
  <2>. QED  BY <2>3, <2>4
<1>2. NewEvents = SubSeq(out', m + 1, n)
  BY DEF NewEvents
<1> HIDE DEF m, n
<1>3. NewEvents = <<>>
  BY <1>1, <1>2, SubSeqEmpty
<1>4. DOMAIN <<>> = 1..0
  OBVIOUS
<1>. QED  BY <1>3, <1>4, Zenon

\* What appending does to a sequence.
LEMMA AppendFacts ==
    ASSUME NEW E, NEW s \in Seq(E), NEW e \in E
    PROVE  /\ Len(s) \in Nat /\ Append(s, e) \in Seq(E)
           /\ Len(Append(s, e)) = Len(s) + 1
           /\ \A k \in 1..Len(s) : Append(s, e)[k] = s[k]
           /\ Append(s, e)[Len(s) + 1] = e
  BY AppendProperties, LenProperties

\* The last j events of a sequence.
LEMMA LastEvents ==
    ASSUME NEW w \in EventSeq, NEW m \in Nat, NEW j \in Nat, Len(w) = m + j
    PROVE  /\ DOMAIN SubSeq(w, m + 1, Len(w)) = 1..j
           /\ \A i \in 1..j : SubSeq(w, m + 1, Len(w))[i] = w[m + i]
<1> DEFINE E == ReportEvent \cup TopEvent
           t == SubSeq(w, m + 1, Len(w))
<1>1. w \in Seq(E)
  BY DEF EventSeq
<1> HIDE DEF E
<1>2. \A i \in (m + 1)..Len(w) : w[i] \in E
  BY <1>1, LenProperties, ElementOfSeq
<1>3. /\ t \in Seq(E) /\ Len(t) = j
      /\ \A i \in 1..j : t[i] = w[(m + 1) + i - 1]
  <2>1. /\ m + 1 \in Int /\ Len(w) \in Int /\ Len(w) - (m + 1) + 1 = j
        /\ (IF m + 1 <= Len(w) THEN Len(w) - (m + 1) + 1 ELSE 0) = j
    OBVIOUS
  <2> DEFINE a == m + 1
             b == Len(w)
             u == SubSeq(w, a, b)
  <2>2. a \in Int /\ b \in Int /\ \A i \in a..b : w[i] \in E
    BY <1>2, <2>1
  <2>3. b - a + 1 = j /\ (IF a <= b THEN b - a + 1 ELSE 0) = j
    BY <2>1
  <2>4. t = u /\ a = m + 1
    OBVIOUS
  <2> HIDE DEF a, b
  <2>5. /\ u \in Seq(E) /\ Len(u) = IF a <= b THEN b - a + 1 ELSE 0
        /\ \A i \in 1..(b - a + 1) : u[i] = w[a + i - 1]
    BY <2>2, SubSeqProperties
  <2> HIDE DEF t, u
  <2>. QED  BY <2>3, <2>4, <2>5
<1> HIDE DEF t
<1>4. \A i \in 1..j : (m + 1) + i - 1 = m + i
  OBVIOUS
<1>5. DOMAIN t = 1..j
  BY <1>3, LenProperties
<1>. QED  BY <1>3, <1>4, <1>5 DEF t

\* The events of a step that appends one,
LEMMA OneNew ==
    ASSUME out \in EventSeq, NEW e \in ReportEvent \cup TopEvent, Emit(<<e>>)
    PROVE  DOMAIN NewEvents = 1..1 /\ NewEvents[1] = e
<1> DEFINE m == Len(out)
           w == Append(out, e)
<1>1. out' = w
  BY EmitOne
<1>2. /\ m \in Nat /\ w \in EventSeq
      /\ Len(w) = m + 1 /\ w[m + 1] = e
  <2> DEFINE E == ReportEvent \cup TopEvent
  <2>1. out \in Seq(E) /\ e \in E
    BY DEF EventSeq
  <2> HIDE DEF E
  <2>2. m \in Nat /\ w \in Seq(E) /\ Len(w) = m + 1 /\ w[m + 1] = e
    BY <2>1, AppendFacts
  <2>. QED  BY <2>2 DEF E, EventSeq
<1>3. NewEvents = SubSeq(w, m + 1, Len(w))
  BY <1>1, Zenon DEF NewEvents
<1> HIDE DEF m, w
<1>4. /\ DOMAIN SubSeq(w, m + 1, Len(w)) = 1..1
      /\ SubSeq(w, m + 1, Len(w))[1] = w[m + 1]
  <2>1. 1 \in 1..1 /\ 1 \in Nat
    OBVIOUS
  <2>. QED  BY <1>2, <2>1, LastEvents
<1>. QED  BY <1>2, <1>3, <1>4, Zenon

\* and of a trade.
LEMMA ThreeNew ==
    ASSUME out \in EventSeq, NEW a \in ReportEvent \cup TopEvent,
           NEW b \in ReportEvent \cup TopEvent, NEW c \in ReportEvent \cup TopEvent,
           Emit(<<a, b, c>>)
    PROVE  /\ DOMAIN NewEvents = 1..3
           /\ NewEvents[1] = a /\ NewEvents[2] = b /\ NewEvents[3] = c
<1> DEFINE m == Len(out)
           w == Append(Append(Append(out, a), b), c)
<1>1. out' = w
  BY EmitThree
<1>2. /\ m \in Nat /\ w \in EventSeq /\ Len(w) = m + 3
      /\ w[m + 1] = a /\ w[m + 2] = b /\ w[m + 3] = c
  <2> DEFINE E == ReportEvent \cup TopEvent
  <2>1. out \in Seq(E) /\ a \in E /\ b \in E /\ c \in E
    BY DEF EventSeq
  <2> HIDE DEF E
  <2> DEFINE x == Append(out, a)
             y == Append(x, b)
  <2>2. m \in Nat /\ x \in Seq(E) /\ Len(x) = m + 1 /\ x[m + 1] = a
    BY <2>1, AppendFacts
  <2>3. y \in Seq(E) /\ Len(y) = m + 2 /\ y[m + 1] = a /\ y[m + 2] = b
    <3> HIDE DEF x, m
    <3>1. m + 1 \in 1..(m + 1) /\ (m + 1) + 1 = m + 2
      BY <2>2
    <3>. QED  BY <2>1, <2>2, <3>1, AppendFacts
  <2> HIDE DEF y, m
  <2>4. m + 1 \in 1..(m + 2) /\ m + 2 \in 1..(m + 2) /\ (m + 2) + 1 = m + 3
    BY <2>2
  <2>5. /\ Append(y, c) \in Seq(E) /\ Len(Append(y, c)) = m + 3 /\ Append(y, c)[m + 1] = a
        /\ Append(y, c)[m + 2] = b /\ Append(y, c)[m + 3] = c
    BY <2>1, <2>3, <2>4, AppendFacts
  <2>. QED  BY <2>2, <2>5 DEF y, E, EventSeq
<1>3. NewEvents = SubSeq(w, m + 1, Len(w))
  BY <1>1, Zenon DEF NewEvents
<1> HIDE DEF m, w
<1>4. /\ DOMAIN SubSeq(w, m + 1, Len(w)) = 1..3
      /\ SubSeq(w, m + 1, Len(w))[1] = w[m + 1]
      /\ SubSeq(w, m + 1, Len(w))[2] = w[m + 2]
      /\ SubSeq(w, m + 1, Len(w))[3] = w[m + 3]
  <2>1. 1 \in 1..3 /\ 2 \in 1..3 /\ 3 \in 1..3 /\ 3 \in Nat
    OBVIOUS
  <2>2. /\ DOMAIN SubSeq(w, m + 1, Len(w)) = 1..3
        /\ \A i \in 1..3 : SubSeq(w, m + 1, Len(w))[i] = w[m + i]
    BY <1>2, <2>1, LastEvents
  <2>. QED  BY <2>1, <2>2, Zenon
<1>. QED  BY <1>2, <1>3, <1>4, Zenon

-----------------------------------------------------------------------------
(* What the listener makes of each step's events.                           *)

\* A step without events tells it nothing.
LEMMA SeesNothing ==
    ASSUME out \in EventSeq, Observe, out' = out \/ out' = <<>>
    PROVE  view' = view /\ top' = top
<1>1. DOMAIN NewEvents = 1..0 /\ 0 \in 0..3
  BY NoNews
<1>2. FoldLeft(ApplyEvent, view, NewEvents) = view
  BY <1>1, EventFold
<1>3. FoldLeft(ApplyTop, top, NewEvents) = top
  BY <1>1, TopFold
<1>. QED  BY <1>2, <1>3, Zenon DEF Observe

\* An event is read on its own.
LEMMA SeesOne ==
    ASSUME out \in EventSeq, Observe, NEW e \in ReportEvent \cup TopEvent, Emit(<<e>>)
    PROVE  view' = ApplyEvent(view, e) /\ top' = ApplyTop(top, e)
<1>1. DOMAIN NewEvents = 1..1 /\ NewEvents[1] = e
  BY OneNew
<1>2. 1 \in 0..3 /\ 1 # 0
  OBVIOUS
<1>3. FoldLeft(ApplyEvent, view, NewEvents) = ApplyEvent(view, NewEvents[1])
  BY <1>1, <1>2, EventFold
<1>4. FoldLeft(ApplyTop, top, NewEvents) = ApplyTop(top, NewEvents[1])
  BY <1>1, <1>2, TopFold
<1>. QED  BY <1>1, <1>3, <1>4, Zenon DEF Observe

\* An event that says what is left of an order is taken at its word.
LEMMA SeesLeaves ==
    ASSUME out \in EventSeq, Observe, view \in [OrderId -> Int],
           NEW e \in ReportEvent, e.type \in {"Accepted", "Replaced", "Canceled"}, Emit(<<e>>)
    PROVE  /\ view' \in [OrderId -> Int] /\ top' = top
           /\ \A i \in OrderId : view'[i] = IF i = e.id THEN e.leaves ELSE view[i]
<1>1. view' = ApplyEvent(view, e) /\ top' = ApplyTop(top, e)
  BY SeesOne
<1>2. e.id \in OrderId /\ e.leaves \in Int /\ e.type # "BookChanged"
  BY DEF ReportEvent
<1>3. ApplyEvent(view, e) = [view EXCEPT ![e.id] = e.leaves] /\ ApplyTop(top, e) = top
  BY <1>2 DEF ApplyEvent, ApplyTop
<1>. QED  BY <1>1, <1>2, <1>3

\* A rejection changes nothing of the book it knows,
LEMMA SeesReject ==
    ASSUME out \in EventSeq, Observe, NEW e \in ReportEvent, e.type = "Rejected", Emit(<<e>>)
    PROVE  view' = view /\ top' = top
<1>1. view' = ApplyEvent(view, e) /\ top' = ApplyTop(top, e)
  BY SeesOne
<1>2. ApplyEvent(view, e) = view /\ ApplyTop(top, e) = top
  BY DEF ApplyEvent, ApplyTop
<1>. QED  BY <1>1, <1>2

\* and BookChanged only the top of book.
LEMMA SeesTop ==
    ASSUME out \in EventSeq, Observe, NEW e \in TopEvent, Emit(<<e>>)
    PROVE  view' = view /\ top' = e
<1>1. view' = ApplyEvent(view, e) /\ top' = ApplyTop(top, e)
  BY SeesOne
<1>2. e.type = "BookChanged"
  BY DEF TopEvent
<1>3. ApplyEvent(view, e) = view /\ ApplyTop(top, e) = e
  BY <1>2 DEF ApplyEvent, ApplyTop
<1>. QED  BY <1>1, <1>3

\* A trade takes its size off both orders.
LEMMA SeesTrade ==
    ASSUME out \in EventSeq, Observe, view \in [OrderId -> Int],
           NEW a \in ReportEvent, NEW b \in ReportEvent, NEW c \in ReportEvent,
           a.type = "Fill", b.type = "Fill", c.type = "Trade", a.id # b.id,
           Emit(<<a, b, c>>)
    PROVE  /\ view' \in [OrderId -> Int] /\ top' = top
           /\ \A i \in OrderId :
                 view'[i] = IF i = a.id THEN view[i] - a.qty
                            ELSE IF i = b.id THEN view[i] - b.qty ELSE view[i]
<1>1. /\ DOMAIN NewEvents = 1..3
      /\ NewEvents[1] = a /\ NewEvents[2] = b /\ NewEvents[3] = c
  BY ThreeNew
<1>2. 3 \in 0..3 /\ 3 # 0 /\ 3 # 1 /\ 3 # 2
  OBVIOUS
<1>3. /\ a.id \in OrderId /\ b.id \in OrderId /\ a.qty \in Int /\ b.qty \in Int
  BY DEF ReportEvent
<1>4. view' = ApplyEvent(ApplyEvent(ApplyEvent(view, a), b), c)
  <2>1. FoldLeft(ApplyEvent, view, NewEvents)
          = ApplyEvent(ApplyEvent(ApplyEvent(view, NewEvents[1]), NewEvents[2]), NewEvents[3])
    BY <1>1, <1>2, EventFold
  <2>. QED  BY <1>1, <2>1, Zenon DEF Observe
<1>5. top' = ApplyTop(ApplyTop(ApplyTop(top, a), b), c)
  <2>1. FoldLeft(ApplyTop, top, NewEvents)
          = ApplyTop(ApplyTop(ApplyTop(top, NewEvents[1]), NewEvents[2]), NewEvents[3])
    BY <1>1, <1>2, TopFold
  <2>. QED  BY <1>1, <2>1, Zenon DEF Observe
<1>6. top' = top
  BY <1>5 DEF ApplyTop
<1> DEFINE v == [view EXCEPT ![a.id] = @ - a.qty]
           w == [v EXCEPT ![b.id] = @ - b.qty]
<1>7. ApplyEvent(view, a) = v /\ ApplyEvent(v, b) = w /\ ApplyEvent(w, c) = w
  BY DEF ApplyEvent
<1>8. v \in [OrderId -> Int] /\ \A i \in OrderId : v[i] = IF i = a.id THEN view[i] - a.qty ELSE view[i]
  BY <1>3
<1> HIDE DEF v
<1>9. w \in [OrderId -> Int] /\ \A i \in OrderId : w[i] = IF i = b.id THEN v[i] - b.qty ELSE v[i]
  BY <1>3, <1>8
<1> HIDE DEF w
<1>10. view' = w
  BY <1>4, <1>7, Zenon
<1>. QED  BY <1>6, <1>8, <1>9, <1>10

-----------------------------------------------------------------------------
(* The invariants.                                                          *)

\* The open size of order i, inside a call too: match holds the incoming order's.
OpenOf(i) == IF pc = "match" /\ i = cmd.id THEN in.remaining ELSE order[i].remaining

\* A modify, on its way through the replay, has left a slot free.
ReplayInv ==
    /\ pc \in {"idle", "dispatch"} => reentry = NoId
    /\ pc \in {"new", "match"} /\ reentry # NoId =>
          reentry = cmd.id /\ inUse < MaxOrders

\* The listener's sizes are the book's at every step, but for an order that a
\* modify has taken out of the book and handle_new is about to accept again.
ViewInv ==
    /\ \A i \in OrderId : i \notin index => order[i].remaining = 0
    /\ pc # "oob" => \A i \in OrderId : view[i] = OpenOf(i) \/ (pc = "new" /\ i = reentry)
    /\ pc = "new" /\ reentry # NoId => cmd.ordType # "Fok" /\ Rejection = "None"

\* The listener's best prices are the engine's own record of them.
TopInv ==
    /\ view \in [OrderId -> Int]
    /\ top.bid = lastBid /\ top.ask = lastAsk
    /\ pc = "idle" => lastBid = BestPrice("Buy") /\ lastAsk = BestPrice("Sell")

\* Somebody sends post-only orders.
PostOnlySent == \E c \in Commands : c.type = "New" /\ c.ordType = "PostOnly"

\* handle_new cannot reject the replay of any modify that is sent: it asks for a
\* price in the band, or for none, and a post-only order is never repriced.
ReplaysFit ==
    /\ \A c \in Commands : c.type = "Modify" => c.price \in Price \cup {NoPrice}
    /\ PostOnlySent => \A c \in Commands : c.type = "Modify" => c.price = NoPrice

\* A post-only order rests, or is handled, only if one was sent.
PostOnlyInv ==
    /\ \A i \in index : order[i].type = "PostOnly" => PostOnlySent
    /\ pc \in {"new", "match"} => (cmd.ordType = "PostOnly" => PostOnlySent)

-----------------------------------------------------------------------------
(* What the listener makes of each action.                                  *)

\* It sees nothing of the steps that report nothing, and keeps its view of the
\* book at a rejection.
LEMMA QuietSeen ==
    ASSUME Inv, Observe,
           \/ \E c \in Commands : Receive(c)
           \/ \E h \in BOOLEAN : SetHalted(h)
           \/ AdmitNew \/ ReplayAsNew \/ FullyFilled \/ RestIncoming \/ RestOutsideLevels
           \/ PublishNothing \/ RejectHalted \/ RejectUnknown \/ RejectNew
    PROVE  view' = view /\ top' = top
<1>1. out \in EventSeq
  BY DEF Inv, TypeOK, EventSeq
<1>2. CASE out' = out \/ out' = <<>>
  BY <1>1, <1>2, SeesNothing
<1>3. ASSUME pc # "idle", NEW reason \in RejectReason, Reject(reason)
      PROVE  view' = view /\ top' = top
  <2> DEFINE e == Report("Rejected", cmd.id, NoId, cmd, cmd.price, cmd.qty, 0, reason)
  <2>1. cmd \in Command
    BY <1>3 DEF Inv, TypeOK
  <2>2. e \in ReportEvent
    BY <2>1, ReportTyped DEF Command
  <2>3. e.type = "Rejected"
    BY DEF Report
  <2>4. Emit(<<e>>)
    BY <1>3 DEF Reject
  <2> HIDE DEF e
  <2>. QED  BY <1>1, <2>2, <2>3, <2>4, SeesReject
<1>4. CASE RejectHalted
  <2>1. "BookHalted" \in RejectReason
    BY DEF RejectReason
  <2>. QED  BY <1>3, <1>4, <2>1 DEF RejectHalted
<1>5. CASE RejectUnknown
  <2>1. "UnknownOrder" \in RejectReason
    BY DEF RejectReason
  <2>. QED  BY <1>3, <1>5, <2>1 DEF RejectUnknown
<1>6. CASE RejectNew
  <2>1. Rejection \in RejectReason
    BY DEF Rejection, RejectReason
  <2>. QED  BY <1>3, <1>6, <2>1 DEF RejectNew
<1>. QED
  BY <1>2, <1>4, <1>5, <1>6
     DEF Receive, SetHalted, AdmitNew, ReplayAsNew, FullyFilled, RestIncoming,
         RestOutsideLevels, PublishNothing

\* It learns what is left of an order from the event that says so,
LEMMA LeavesSeen ==
    ASSUME Inv, Observe, view \in [OrderId -> Int],
           NEW type \in {"Accepted", "Replaced", "Canceled"}, NEW i \in OrderId,
           NEW o \in Order, NEW price \in Int, NEW qty \in Nat, NEW leaves \in Nat,
           NEW reason \in RejectReason,
           Emit(<<Report(type, i, NoId, o, price, qty, leaves, reason)>>)
    PROVE  /\ view' \in [OrderId -> Int] /\ top' = top
           /\ \A x \in OrderId : view'[x] = IF x = i THEN leaves ELSE view[x]
<1> DEFINE e == Report(type, i, NoId, o, price, qty, leaves, reason)
<1>1. out \in EventSeq
  BY DEF Inv, TypeOK, EventSeq
<1>2. e \in ReportEvent
  <2>1. o.client \in Client \cup {NoClient} /\ o.side \in Side
    BY DEF Order
  <2>. QED  BY <2>1, ReportTyped
<1>3. e.type \in {"Accepted", "Replaced", "Canceled"} /\ e.id = i /\ e.leaves = leaves
  BY DEF Report
<1>4. Emit(<<e>>)
  OBVIOUS
<1> HIDE DEF e
<1>. QED  BY <1>1, <1>2, <1>3, <1>4, SeesLeaves

\* handle_cancel says that nothing is left,
LEMMA HandleCancelSeen ==
    ASSUME Inv, Observe, view \in [OrderId -> Int], HandleCancel
    PROVE  /\ view' \in [OrderId -> Int] /\ top' = top
           /\ \A x \in OrderId : view'[x] = IF x = cmd.id THEN 0 ELSE view[x]
<1>1. cmd.id \in index /\ cmd.id \in OrderId /\ order[cmd.id] \in Order
  BY DEF Inv, TypeOK, HandleCancel
<1>2. /\ order[cmd.id].price \in Int /\ order[cmd.id].remaining \in Nat
      /\ "None" \in RejectReason
  BY <1>1 DEF Order, RejectReason
<1>. QED  BY <1>1, <1>2, LeavesSeen DEF HandleCancel

\* a size-down what is left in place,
LEMMA ModifyInPlaceSeen ==
    ASSUME Inv, Observe, view \in [OrderId -> Int], ModifyInPlace
    PROVE  /\ view' \in [OrderId -> Int] /\ top' = top
           /\ \A x \in OrderId : view'[x] = IF x = cmd.id THEN cmd.qty ELSE view[x]
<1>1. cmd.id \in index /\ cmd.id \in OrderId /\ order[cmd.id] \in Order /\ cmd.qty \in Nat
  BY DEF Inv, TypeOK, ModifyInPlace, IsModify, Command
<1>2. order[cmd.id].price \in Int /\ "None" \in RejectReason
  BY <1>1 DEF Order, RejectReason
<1>. QED  BY <1>1, <1>2, LeavesSeen DEF ModifyInPlace

\* handle_new what it takes in,
LEMMA AcceptNewSeen ==
    ASSUME Inv, Observe, view \in [OrderId -> Int], AcceptNew
    PROVE  /\ view' \in [OrderId -> Int] /\ top' = top
           /\ \A x \in OrderId : view'[x] = IF x = cmd.id THEN cmd.qty ELSE view[x]
<1>1. cmd.id \in OrderId /\ cmd.qty \in Nat /\ cmd.price \in Int
  BY DEF Inv, TypeOK, AcceptNew, Command
<1>2. Limit \in Int /\ "None" \in RejectReason
  BY <1>1, PriceAssumption DEF Limit, RejectReason
<1>3. in' \in Order
  BY AcceptNewStep DEF Inv, TypeOK
<1>4. Emit(<<Report("Accepted", cmd.id, NoId, in', Limit, cmd.qty, cmd.qty, "None")>>)
  BY DEF AcceptNew
<1>. QED  BY <1>1, <1>2, <1>3, <1>4, LeavesSeen

\* self-trade prevention that the order it stops or pulls is gone,
LEMMA StpSeen ==
    ASSUME Inv, Observe, view \in [OrderId -> Int], NEW p \in Price
    PROVE  /\ StpCancelAggressor(p) =>
                /\ view' \in [OrderId -> Int] /\ top' = top
                /\ \A x \in OrderId : view'[x] = IF x = cmd.id THEN 0 ELSE view[x]
           /\ StpCancelResting(p) =>
                /\ view' \in [OrderId -> Int] /\ top' = top
                /\ \A x \in OrderId :
                      view'[x] = IF x = Head(queue[Opposite(in.side)][p]) THEN 0 ELSE view[x]
<1> DEFINE r == Head(queue[Opposite(in.side)][p])
<1>0. "SelfTradePrevented" \in RejectReason /\ 0 \in Nat
  BY DEF RejectReason
<1>1. CASE StpCancelAggressor(p)
  <2>1. cmd.id \in OrderId /\ in \in Order
    BY <1>1, MeetsHead DEF StpCancelAggressor
  <2>2. in.price \in Int
    BY <2>1 DEF Order
  <2>3. Emit(<<Report("Canceled", cmd.id, NoId, in, in.price, 0, 0, "SelfTradePrevented")>>)
    BY <1>1 DEF StpCancelAggressor
  <2>4. /\ view' \in [OrderId -> Int] /\ top' = top
        /\ \A x \in OrderId : view'[x] = IF x = cmd.id THEN 0 ELSE view[x]
    BY <1>0, <2>1, <2>2, <2>3, LeavesSeen
  <2>5. ~StpCancelResting(p)
    BY <1>1 DEF StpCancelAggressor, StpCancelResting
  <2>. QED  BY <2>4, <2>5
<1>2. CASE StpCancelResting(p)
  <2>1. r \in OrderId /\ order[r] \in Order
    BY <1>2, MeetsHead DEF StpCancelResting
  <2>2. order[r].price \in Int
    BY <2>1 DEF Order
  <2>3. Emit(<<Report("Canceled", r, NoId, order[r], order[r].price, 0, 0,
                      "SelfTradePrevented")>>)
    BY <1>2 DEF StpCancelResting
  <2>4. /\ view' \in [OrderId -> Int] /\ top' = top
        /\ \A x \in OrderId : view'[x] = IF x = r THEN 0 ELSE view[x]
    <3> HIDE DEF r
    <3>. QED  BY <1>0, <2>1, <2>2, <2>3, LeavesSeen
  <2>5. ~StpCancelAggressor(p)
    BY <1>2 DEF StpCancelAggressor, StpCancelResting
  <2>. QED  BY <2>4, <2>5
<1>. QED  BY <1>1, <1>2

\* a remainder that is canceled that it is gone,
LEMMA CancelIncomingSeen ==
    ASSUME Inv, Observe, view \in [OrderId -> Int], CancelRemainder \/ PoolExhausted
    PROVE  /\ view' \in [OrderId -> Int] /\ top' = top
           /\ \A x \in OrderId : view'[x] = IF x = cmd.id THEN 0 ELSE view[x]
<1>1. cmd.id \in OrderId /\ in \in Order
  BY DEF Inv, TypeOK, CancelRemainder, PoolExhausted, MatchDone, Command
<1>2. in.price \in Int /\ in.remaining \in Nat
  BY <1>1 DEF Order
<1>3. PICK reason \in {"None", "PoolExhausted"} :
        Emit(<<Report("Canceled", cmd.id, NoId, in, in.price, in.remaining, 0, reason)>>)
  BY DEF CancelRemainder, PoolExhausted, CancelIncoming
<1>4. reason \in RejectReason
  BY DEF RejectReason
<1>. QED  BY <1>1, <1>2, <1>3, <1>4, LeavesSeen

\* and what a trade takes from the two fills.
LEMMA TradeSeen ==
    ASSUME Inv, Observe, view \in [OrderId -> Int], NEW p \in Price, Trade(p)
    PROVE  LET r == Head(queue[Opposite(in.side)][p])
               q == Traded(r)
           IN /\ view' \in [OrderId -> Int] /\ top' = top
              /\ \A x \in OrderId :
                    view'[x] = IF x = cmd.id \/ x = r THEN view[x] - q ELSE view[x]
<1> DEFINE r == Head(queue[Opposite(in.side)][p])
           q == Traded(r)
           a == Report("Fill", cmd.id, r, in, order[r].price, q, in.remaining - q, "None")
           b == Report("Fill", r, cmd.id, order[r], order[r].price, q, order[r].remaining - q, "None")
           c == Report("Trade", cmd.id, r, [in EXCEPT !.client = NoClient], order[r].price, q, 0, "None")
<1>1. pc = "match" /\ CanMatch(p) /\ Emit(<<a, b, c>>)
  BY DEF Trade, OldestAt, TradeEvents
<1>2. r \in OrderId /\ cmd.id \in OrderId /\ cmd.id # r
  BY <1>1, MeetsHead
<1>3. a \in ReportEvent /\ b \in ReportEvent /\ c \in ReportEvent
  BY <1>1, TradeReports
<1>4. /\ a.type = "Fill" /\ a.id = cmd.id /\ a.qty = q
      /\ b.type = "Fill" /\ b.id = r /\ b.qty = q /\ c.type = "Trade"
  BY DEF Report
<1>5. out \in EventSeq
  BY DEF Inv, TypeOK, EventSeq
<1> HIDE DEF a, b, c, q, r
<1>6. /\ view' \in [OrderId -> Int] /\ top' = top
      /\ \A i \in OrderId :
            view'[i] = IF i = a.id THEN view[i] - a.qty
                       ELSE IF i = b.id THEN view[i] - b.qty ELSE view[i]
  BY <1>1, <1>2, <1>3, <1>4, <1>5, SeesTrade
<1>. QED  BY <1>4, <1>6 DEF q, r

\* BookChanged tells it the top of book.
LEMMA PublishTopSeen ==
    ASSUME Inv, Observe, PublishTop
    PROVE  view' = view /\ top' = BookChanged
<1>1. out \in EventSeq
  BY DEF Inv, TypeOK, EventSeq
<1>2. BookChanged \in TopEvent
  BY BookChangedTyped
<1>3. Emit(<<BookChanged>>)
  BY DEF PublishTop
<1>. QED  BY <1>1, <1>2, <1>3, SeesTop

\* Only BookChanged moves the top it knows, and its view stays a map of sizes.
LEMMA TopMoves ==
    ASSUME Inv, Observe, Next, view \in [OrderId -> Int]
    PROVE  view' \in [OrderId -> Int] /\ (top' = top \/ PublishTop)
<1>1. CASE \/ \E c \in Commands : Receive(c)
           \/ \E h \in BOOLEAN : SetHalted(h)
           \/ AdmitNew \/ ReplayAsNew \/ FullyFilled \/ RestIncoming \/ RestOutsideLevels
           \/ PublishNothing \/ RejectHalted \/ RejectUnknown \/ RejectNew
  <2>1. view' = view /\ top' = top
    BY <1>1, QuietSeen
  <2>. QED  BY <2>1
<1>2. CASE HandleCancel
  BY <1>2, HandleCancelSeen
<1>3. CASE ModifyInPlace
  BY <1>3, ModifyInPlaceSeen
<1>4. CASE AcceptNew
  BY <1>4, AcceptNewSeen
<1>5. CASE \E p \in Price : StpCancelAggressor(p) \/ StpCancelResting(p)
  BY <1>5, StpSeen
<1>6. CASE \E p \in Price : Trade(p)
  BY <1>6, TradeSeen
<1>7. CASE CancelRemainder \/ PoolExhausted
  BY <1>7, CancelIncomingSeen
<1>8. CASE PublishTop
  <2>1. view' = view
    BY <1>8, PublishTopSeen
  <2>. QED  BY <1>8, <2>1
<1>. QED
  BY <1>1, <1>2, <1>3, <1>4, <1>5, <1>6, <1>7, <1>8 DEF Next, Step

-----------------------------------------------------------------------------
(* The top of book.                                                         *)

\* The best prices are those of the levels' queues.
LEMMA SameBest ==
    ASSUME UNCHANGED queue
    PROVE  BestPrice("Buy")' = BestPrice("Buy") /\ BestPrice("Sell")' = BestPrice("Sell")
  BY DEF BestPrice, IsBest, Occupied

\* Every step of the engine keeps the listener's top the engine's record, and the
\* record true between calls.
LEMMA TopStep == Inv /\ TopInv /\ [Next /\ Observe]_viewVars => TopInv'
<1> SUFFICES ASSUME Inv, TopInv, [Next /\ Observe]_viewVars PROVE TopInv'
  OBVIOUS
<1>1. CASE UNCHANGED viewVars
  <2>1. /\ view' = view /\ top' = top /\ lastBid' = lastBid /\ lastAsk' = lastAsk
        /\ pc' = pc /\ queue' = queue
    BY <1>1 DEF viewVars, vars, bookVars
  <2>. QED  BY <2>1, SameBest DEF TopInv
<1>2. CASE Next /\ Observe
  <2>1. view' \in [OrderId -> Int] /\ (top' = top \/ PublishTop)
    BY <1>2, TopMoves DEF TopInv
  <2>2. CASE PublishTop
    <3>1. top' = BookChanged
      BY <1>2, <2>2, PublishTopSeen
    <3>2. BookChanged.bid = BestPrice("Buy") /\ BookChanged.ask = BestPrice("Sell")
      BY DEF BookChanged
    <3>3. /\ lastBid' = BestPrice("Buy") /\ lastAsk' = BestPrice("Sell") /\ queue' = queue
      BY <2>2 DEF PublishTop, bookVars
    <3>. QED  BY <2>1, <3>1, <3>2, <3>3, SameBest DEF TopInv
  <2>3. CASE PublishNothing
    <3>1. /\ lastBid = BestPrice("Buy") /\ lastAsk = BestPrice("Sell") /\ queue' = queue
          /\ lastBid' = lastBid /\ lastAsk' = lastAsk /\ ~PublishTop
      BY <2>3 DEF PublishNothing, PublishTop, TopUnmoved, bookVars
    <3>. QED  BY <2>1, <3>1, SameBest DEF TopInv
  <2>4. CASE \E h \in BOOLEAN : SetHalted(h)
    <3>1. queue' = queue /\ pc' = pc /\ lastBid' = lastBid /\ lastAsk' = lastAsk /\ ~PublishTop
      BY <2>4 DEF SetHalted, PublishTop, bookVars
    <3>. QED  BY <2>1, <3>1, SameBest DEF TopInv
  <2>5. CASE ~PublishTop /\ ~PublishNothing /\ ~\E h \in BOOLEAN : SetHalted(h)
    <3>1. pc' # "idle" /\ lastBid' = lastBid /\ lastAsk' = lastAsk
      BY <1>2, <2>5
         DEF Next, Step, Receive, AdmitNew, ReplayAsNew, FullyFilled, RestIncoming,
             RestOutsideLevels, RejectHalted, RejectUnknown, RejectNew, HandleCancel,
             ModifyInPlace, AcceptNew, StpCancelAggressor, StpCancelResting, Trade,
             CancelRemainder, PoolExhausted, CancelIncoming
    <3>. QED  BY <2>1, <2>5, <3>1 DEF TopInv
  <2>. QED  BY <2>2, <2>3, <2>4, <2>5
<1>. QED  BY <1>1, <1>2

\* The engine's part of a step with its listener.
LEMMA EngineStep == [Next /\ Observe]_viewVars => [Next]_vars
  BY DEF viewVars

\* It starts with an empty view of an empty book.
LEMMA InitTop == ViewInit => TopInv
<1> SUFFICES ASSUME ViewInit PROVE TopInv
  OBVIOUS
<1>1. /\ queue = [s \in Side |-> [p \in Price |-> <<>>]]
      /\ lastBid = NoPrice /\ lastAsk = NoPrice
      /\ view = [i \in OrderId |-> 0] /\ top = EmptyTop
  BY DEF ViewInit, Init
<1>2. Occupied("Buy") = {} /\ Occupied("Sell") = {}
  BY <1>1 DEF Occupied, Side
<1>3. BestPrice("Buy") = NoPrice /\ BestPrice("Sell") = NoPrice
  BY <1>2 DEF BestPrice
<1>4. EmptyTop.bid = NoPrice /\ EmptyTop.ask = NoPrice
  BY DEF EmptyTop
<1>. QED  BY <1>1, <1>3, <1>4 DEF TopInv

\* The invariant of the engine holds with the listener beside it.
LEMMA ViewedInv == ViewSpec => []Inv
<1>1. ViewInit => Inv
  BY InitInv DEF ViewInit
<1>2. Inv /\ [Next /\ Observe]_viewVars => Inv'
  BY NextInv, EngineStep
<1>. QED  BY <1>1, <1>2, PTL DEF ViewSpec

\* Between calls the listener knows the best prices: no call moves the top of book
\* without a BookChanged, and every BookChanged carries the prices of the book.
THEOREM TopPricesAreKnown == ViewSpec => []TopPricesKnown
<1>1. TopInv => TopPricesKnown
  BY DEF TopInv, TopPricesKnown
<1>. QED  BY <1>1, InitTop, TopStep, ViewedInv, PTL DEF ViewSpec

-----------------------------------------------------------------------------
(* A replay finds a slot.                                                   *)

\* What a step does to the modify under way.
LEMMA Reenters ==
    ASSUME Observe
    PROVE  /\ pc' = "idle" => reentry' = NoId
           /\ pc' # "idle" => \/ reentry' = reentry
                              \/ pc = "dispatch" /\ pc' = "new" /\ cmd.type = "Modify"
                                 /\ reentry' = cmd.id
  BY DEF Observe

\* Releasing the order leaves a slot free, and match takes none.
LEMMA ReplayStep == Inv /\ ReplayInv /\ [Next /\ Observe]_viewVars => ReplayInv'
<1> SUFFICES ASSUME Inv, ReplayInv, [Next /\ Observe]_viewVars PROVE ReplayInv'
  OBVIOUS
<1>1. CASE UNCHANGED viewVars
  BY <1>1 DEF viewVars, vars, bookVars, ReplayInv
<1>2. CASE Next /\ Observe
  <2>1. CASE ReplayAsNew
    <3>1. cmd \in Command /\ cmd.id \in index /\ cmd.type = "Modify"
      BY <2>1 DEF Inv, TypeOK, ReplayAsNew, IsModify
    <3>2. pc = "dispatch" /\ pc' = "new" /\ cmd'.id = cmd.id /\ inUse' = inUse - 1
      BY <2>1 DEF ReplayAsNew, IsModify, NewCommand, Release
    <3>3. reentry' = cmd.id
      BY <1>2, <3>1, <3>2 DEF Observe
    <3>4. inUse' < MaxOrders
      <4>1. inUse \in Int /\ MaxOrders \in Int /\ inUse <= MaxOrders
        BY LimitAssumption DEF Inv, TypeOK, BookInv, SlotsAccounted
      <4>. QED  BY <3>2, <4>1
    <3>. QED  BY <3>2, <3>3, <3>4 DEF ReplayInv
  <2>2. CASE AdmitNew
    <3>1. /\ pc = "dispatch" /\ pc' = "new" /\ cmd.type = "New"
      BY <2>2 DEF AdmitNew
    <3>2. reentry' = NoId
      BY <1>2, <3>1, Reenters DEF ReplayInv
    <3>. QED  BY <3>1, <3>2 DEF ReplayInv
  <2>3. CASE AcceptNew
    <3>1. pc = "new" /\ pc' = "match" /\ cmd' = cmd /\ inUse' = inUse
      BY <2>3 DEF AcceptNew, bookVars
    <3>. QED  BY <1>2, <3>1, Reenters DEF ReplayInv
  <2>4. CASE pc = "match" /\ pc' = "match"
    <3>1. cmd' = cmd /\ (inUse' = inUse \/ inUse' = inUse - 1)
      BY <1>2, <2>4
         DEF Next, Step, Receive, SetHalted, AdmitNew, ReplayAsNew, FullyFilled, RestIncoming,
             RestOutsideLevels, RejectHalted, RejectUnknown, RejectNew, HandleCancel,
             ModifyInPlace, IsModify, AcceptNew, StpCancelAggressor, StpCancelResting, Trade,
             Take, Release, ReduceInPlace, CancelRemainder, PoolExhausted, CancelIncoming,
             PublishNothing, PublishTop, bookVars
    <3>2. reentry' = reentry
      BY <1>2, <2>4, Reenters
    <3>3. inUse \in Int /\ MaxOrders \in Int
      BY LimitAssumption DEF Inv, TypeOK
    <3>. QED  BY <2>4, <3>1, <3>2, <3>3 DEF ReplayInv
  <2>5. CASE pc' \in {"publish", "oob"}
    BY <2>5 DEF ReplayInv
  <2>6. CASE pc' = "idle"
    BY <1>2, <2>6, Reenters DEF ReplayInv
  <2>7. CASE \E c \in Commands : Receive(c)
    <3>1. pc = "idle" /\ pc' = "dispatch"
      BY <2>7 DEF Receive
    <3>. QED  BY <1>2, <3>1, Reenters DEF ReplayInv
  <2>. QED
    BY <1>2, <2>1, <2>2, <2>3, <2>4, <2>5, <2>6, <2>7
       DEF Next, Step, SetHalted, FullyFilled, RestIncoming, RestOutsideLevels, RejectHalted,
           RejectUnknown, RejectNew, HandleCancel, ModifyInPlace, StpCancelAggressor,
           StpCancelResting, Trade, CancelRemainder, PoolExhausted, CancelIncoming,
           PublishNothing, PublishTop, Return
<1>. QED  BY <1>1, <1>2

\* A modify's replay is never turned away for want of a slot, even in a full pool.
THEOREM ReplaysFindSlots == ViewSpec => []ReplayFindsSlot
<1>1. ViewInit => ReplayInv
  BY DEF ViewInit, Init, ReplayInv
<1>2. ReplayInv => ReplayFindsSlot
  BY DEF ReplayInv, ReplayFindsSlot
<1>. QED  BY <1>1, <1>2, ReplayStep, ViewedInv, PTL DEF ViewSpec

-----------------------------------------------------------------------------
(* A replay is not rejected.                                                *)

\* Post-only orders come from post-only commands.
LEMMA PostOnlyStep == Inv /\ ClientsInv /\ PostOnlyInv /\ [Next]_vars => PostOnlyInv'
<1> SUFFICES ASSUME Inv, ClientsInv, PostOnlyInv, [Next]_vars PROVE PostOnlyInv'
  OBVIOUS
<1>0. BookTypeOK /\ BookInv
  BY DEF Inv, TypeOK, BookTypeOK
<1>1. CASE UNCHANGED vars
  BY <1>1 DEF vars, bookVars, PostOnlyInv
<1>2. CASE Next
  <2>1. \A i \in index' : order'[i].type = "PostOnly" => PostOnlySent
    <3>1. ASSUME NEW r \in index, Release(r)
          PROVE  \A i \in index' : order'[i].type = "PostOnly" => PostOnlySent
      BY <1>0, <3>1, ReleaseOthers DEF PostOnlyInv
    <3>2. ASSUME index' = index, \A i \in index : order'[i].type = order[i].type
          PROVE  \A i \in index' : order'[i].type = "PostOnly" => PostOnlySent
      BY <3>2 DEF PostOnlyInv
    <3>3. CASE UNCHANGED bookVars
      BY <3>3 DEF bookVars, PostOnlyInv
    <3>4. CASE HandleCancel \/ ReplayAsNew
      BY <3>1, <3>4 DEF HandleCancel, ReplayAsNew, IsModify
    <3>5. CASE \E p \in Price : StpCancelResting(p)
      <4>1. PICK p \in Price : StpCancelResting(p)
        BY <3>5
      <4>. QED  BY <3>1, <4>1, MeetsHead DEF StpCancelResting
    <3>6. CASE \E p \in Price : Trade(p)
      <4>1. PICK p \in Price : Trade(p)
        BY <3>6
      <4> DEFINE r == Head(queue[Opposite(in.side)][p])
      <4>2. r \in index /\ Take(r, Traded(r))
        BY <4>1, MeetsHead DEF Trade, OldestAt
      <4> HIDE DEF r
      <4>3. CASE Release(r)
        BY <3>1, <4>2, <4>3
      <4>4. CASE ReduceInPlace(r, Traded(r))
        <5>1. index' = index /\ \A i \in index : order'[i].type = order[i].type
          BY <4>2, <4>4 DEF ReduceInPlace, Inv, TypeOK, Order
        <5>. QED  BY <3>2, <5>1
      <4>. QED  BY <4>2, <4>3, <4>4 DEF Take
    <3>7. CASE ModifyInPlace
      <4>1. cmd.id \in index /\ order[cmd.id] \in Order /\ cmd.qty \in Nat
        BY <3>7 DEF ModifyInPlace, IsModify, Inv, TypeOK, Command
      <4> DEFINE n == [order[cmd.id] EXCEPT !.remaining = cmd.qty,
                             !.quantity = cmd.qty + (order[cmd.id].quantity - cmd.qty)]
      <4>2. n.type = order[cmd.id].type
        BY <4>1 DEF Order
      <4>3. index' = index /\ order' = [order EXCEPT ![cmd.id] = n]
        BY <3>7 DEF ModifyInPlace
      <4> HIDE DEF n
      <4>4. \A i \in index : order'[i].type = order[i].type
        BY <4>2, <4>3 DEF Inv, TypeOK
      <4>. QED  BY <3>2, <4>3, <4>4
    <3>8. CASE RestIncoming
      <4>1. /\ pc = "match" /\ index' = index \cup {cmd.id}
            /\ order' = [order EXCEPT ![cmd.id] = in]
        BY <3>8 DEF RestIncoming, MatchDone
      <4>2. in.type = "PostOnly" => PostOnlySent
        BY <4>1 DEF ClientsInv, PostOnlyInv
      <4>3. \A i \in index' : (i = cmd.id /\ order'[i] = in) \/ (i \in index /\ order'[i] = order[i])
        <5>1. cmd.id \in OrderId
          BY <4>1 DEF Inv, TypeOK, Command
        <5>2. order \in [OrderId -> Order] /\ index \subseteq OrderId
          BY <1>0 DEF BookTypeOK
        <5>. QED  BY <4>1, <5>1, <5>2
      <4>. QED  BY <4>2, <4>3 DEF PostOnlyInv
    <3>. QED  BY <1>2, <3>3, <3>4, <3>5, <3>6, <3>7, <3>8, BookSteps
  <2>2. pc' \in {"new", "match"} => (cmd'.ordType = "PostOnly" => PostOnlySent)
    <3>1. CASE ReplayAsNew
      BY <3>1 DEF ReplayAsNew, IsModify, NewCommand, PostOnlyInv
    <3>2. CASE AdmitNew
      BY <3>2 DEF AdmitNew, ClientsInv, PostOnlySent
    <3>3. CASE ~ReplayAsNew /\ ~AdmitNew
      <4>1. pc' \in {"new", "match"} => cmd' = cmd /\ pc \in {"new", "match"}
        BY <1>2, <3>3
           DEF Next, Step, Receive, SetHalted, FullyFilled, RestIncoming,
               RestOutsideLevels, RejectHalted, RejectUnknown, RejectNew, HandleCancel,
               ModifyInPlace, AcceptNew, StpCancelAggressor, StpCancelResting, Trade,
               MatchDone, CancelRemainder, PoolExhausted, CancelIncoming, PublishNothing,
               PublishTop, Return
      <4>. QED  BY <4>1 DEF PostOnlyInv
    <3>. QED  BY <3>1, <3>2, <3>3
  <2>. QED  BY <2>1, <2>2 DEF PostOnlyInv
<1>. QED  BY <1>1, <1>2

\* The replay of a fitting modify passes every check of handle_new: its order has
\* just left the book, its price is in the band, and a post-only order that keeps
\* its price crosses nothing, since it crossed nothing while it rested.
LEMMA ReplayAccepted ==
    ASSUME Inv, Inv', ClientsInv, PostOnlyInv, ReplaysFit, ReplayAsNew
    PROVE  cmd'.ordType # "Fok" /\ Rejection' = "None"
<1> DEFINE o == order[cmd.id]
<1>0. BookTypeOK /\ BookInv /\ BookInv'
  BY DEF Inv, TypeOK, BookTypeOK
<1>1. /\ cmd \in Command /\ cmd.type = "Modify" /\ cmd.qty > 0 /\ cmd.id \in index
      /\ cmd.id \in OrderId /\ pc = "dispatch" /\ o \in Order /\ Release(cmd.id)
      /\ cmd' = NewCommand(cmd.id, o.client, o.side, o.type, NewPrice, cmd.qty)
  BY DEF ReplayAsNew, IsModify, Inv, TypeOK
<1>2. /\ cmd'.id = cmd.id /\ cmd'.side = o.side /\ cmd'.ordType = o.type
      /\ cmd'.price = NewPrice /\ cmd'.qty = cmd.qty
  BY <1>1 DEF NewCommand
<1>3. /\ cmd \in Commands /\ o.type \in RestingTypes /\ o.price \in Price
      /\ o.type = "PostOnly" => PostOnlySent
  BY <1>0, <1>1 DEF ClientsInv, PostOnlyInv, BookInv, IndexMatchesBook
<1>4. /\ NewPrice \in Price /\ NewPrice # NoPrice
      /\ o.type = "PostOnly" => NewPrice = o.price
  <2>1. NoPrice \notin Price
    BY PriceAssumption DEF Price
  <2>. QED  BY <1>1, <1>3, <2>1 DEF ReplaysFit, NewPrice
<1>5. cmd.id \notin index'
  BY <1>1 DEF Release
<1>6. o.type \in {"Limit", "PostOnly"}
  BY <1>3 DEF RestingTypes
<1>7. ASSUME o.type = "PostOnly", NEW p \in Price,
             queue'[Opposite(o.side)][p] # <<>>
      PROVE  ~Crosses(o.side, o.price, p)
  <2> DEFINE s == Opposite(o.side)
  <2>1. s \in Side /\ o.side \in Side
    BY <1>1 DEF Order, Opposite, Side
  <2>2. queue'[s][p] # <<>>
    BY <1>7
  <2>3. queue'[s][p] \in Seq(OrderId)
    BY <2>1 DEF Inv, TypeOK
  <2>4. 1 \in DOMAIN queue'[s][p]
    <3> DEFINE l == queue'[s][p]
    <3>1. l \in Seq(OrderId) /\ l # <<>>
      BY <2>2, <2>3
    <3> HIDE DEF l
    <3>2. 1 \in DOMAIN l
      BY <3>1
    <3>. QED  BY <3>2 DEF l
  <2>5. PICK x \in index' : order'[x].side = s /\ order'[x].price = p
    BY <1>0, <2>1, <2>4 DEF BookInv, IndexMatchesBook
  <2>6. x \in index /\ order[x].side = s /\ order[x].price = p
    BY <1>0, <1>1, <2>5, ReleaseOthers
  <2>7. CASE o.side = "Buy"
    <3>1. s = "Sell"
      BY <2>7 DEF Opposite
    <3>2. o.price < p
      BY <1>0, <1>1, <2>6, <2>7, <3>1 DEF BookInv, BookUncrossed
    <3>. QED  BY <1>3, <2>7, <3>2, PriceAssumption DEF Crosses, Price
  <2>8. CASE o.side = "Sell"
    <3>1. s = "Buy"
      BY <2>8 DEF Opposite
    <3>2. p < o.price
      BY <1>0, <1>1, <2>6, <2>8, <3>1 DEF BookInv, BookUncrossed
    <3>. QED  BY <1>3, <2>8, <3>2, PriceAssumption DEF Crosses, Price
  <2>. QED  BY <2>1, <2>7, <2>8 DEF Side
<1>8. ~IsMarket' /\ Limit' = NewPrice
  BY <1>2, <1>4, <1>6 DEF IsMarket, Limit
<1>9. cmd'.ordType = "PostOnly" => ~WouldCross'
  <2> SUFFICES ASSUME o.type = "PostOnly" PROVE ~WouldCross'
    BY <1>2
  <2>1. Limit' = o.price
    BY <1>4, <1>8
  <2>2. SUFFICES ASSUME NEW p \in Price, IsBest(Opposite(cmd.side), p)'
                 PROVE  ~Crosses(cmd'.side, Limit', p)
    BY DEF WouldCross
  <2>3. queue'[Opposite(cmd'.side)][p] # <<>>
    BY <2>2 DEF IsBest, Occupied
  <2>. QED  BY <1>2, <1>7, <2>1, <2>3
<1> HIDE DEF o
<1>10. /\ cmd'.qty # 0 /\ cmd'.price \in Price /\ cmd'.id \notin index' /\ cmd'.ordType # "Fok"
  BY <1>1, <1>2, <1>4, <1>5, <1>6
<1>. QED  BY <1>8, <1>9, <1>10 DEF Rejection, InBand

-----------------------------------------------------------------------------
(* The events are a full account of the book.                               *)

\* A released slot holds nothing.
LEMMA Released ==
    ASSUME BookTypeOK, NEW r \in index, Release(r)
    PROVE  /\ \A i \in OrderId : order'[i].remaining = IF i = r THEN 0 ELSE order[i].remaining
           /\ \A i \in OrderId : i \in index' <=> i \in index /\ i # r
<1>1. order \in [OrderId -> Order] /\ order' = [order EXCEPT ![r] = EmptyOrder]
  BY DEF BookTypeOK, Release
<1>2. EmptyOrder.remaining = 0
  BY DEF EmptyOrder
<1>3. \A i \in OrderId : order'[i] = IF i = r THEN EmptyOrder ELSE order[i]
  BY <1>1, Zenon
<1>4. index' = index \ {r}
  BY DEF Release
<1>. QED  BY <1>2, <1>3, <1>4

\* What ViewInv says where no order is being matched or handled again.
Viewed == \A i \in OrderId : view[i] = order[i].remaining

\* The sizes of the slots the index does not hold stay 0.
EmptyUnindexed == \A i \in OrderId : i \notin index => order[i].remaining = 0

\* The steps that leave the book, and the listener, alone.
LEMMA QuietView ==
    ASSUME Inv, ReplayInv, ViewInv, Observe,
           \/ \E c \in Commands : Receive(c)
           \/ \E h \in BOOLEAN : SetHalted(h)
           \/ AdmitNew \/ PublishNothing \/ PublishTop
           \/ RejectHalted \/ RejectUnknown \/ RejectNew
    PROVE  ViewInv'
<1>1. view' = view
  <2>1. CASE PublishTop
    BY <2>1, PublishTopSeen
  <2>2. CASE ~PublishTop
    BY <2>2, QuietSeen
  <2>. QED  BY <2>1, <2>2
<1>2. UNCHANGED <<index, order>> /\ pc \notin {"match", "oob"} /\ pc' # "match"
  BY DEF Receive, SetHalted, AdmitNew, PublishNothing, PublishTop, RejectHalted,
         RejectUnknown, RejectNew, Return, bookVars
<1>3. pc # "new" \/ reentry = NoId
  <2>1. CASE RejectNew
    BY <2>1 DEF RejectNew, ViewInv
  <2>2. CASE ~RejectNew
    BY <2>2 DEF Receive, SetHalted, AdmitNew, PublishNothing, PublishTop, RejectHalted,
                RejectUnknown
  <2>. QED  BY <2>1, <2>2
<1>4. Viewed
  BY <1>2, <1>3, CommandAssumption DEF ViewInv, OpenOf, Viewed
<1>5. pc' = "new" => reentry' = NoId
  <2>1. CASE AdmitNew
    <3>1. pc = "dispatch" /\ cmd.type = "New" /\ pc' = "new"
      BY <2>1 DEF AdmitNew
    <3>. QED  BY <3>1, Reenters DEF ReplayInv
  <2>2. CASE ~AdmitNew
    BY <2>2 DEF Receive, SetHalted, PublishNothing, PublishTop, RejectHalted,
                RejectUnknown, RejectNew, Return
  <2>. QED  BY <2>1, <2>2
<1>6. \A i \in OrderId : view'[i] = order'[i].remaining
  BY <1>1, <1>2, <1>4 DEF Viewed
<1>7. \A i \in OrderId : i \notin index' => order'[i].remaining = 0
  BY <1>2 DEF ViewInv
<1>. QED  BY <1>2, <1>5, <1>6, <1>7 DEF ViewInv, OpenOf

\* handle_cancel and handle_modify.
LEMMA DispatchView ==
    ASSUME Inv, Inv', ClientsInv, PostOnlyInv, ReplaysFit, TopInv, ReplayInv, ReplayInv', ViewInv,
           Observe, HandleCancel \/ ModifyInPlace \/ ReplayAsNew
    PROVE  ViewInv'
<1>0. BookTypeOK /\ view \in [OrderId -> Int]
  BY DEF Inv, TypeOK, BookTypeOK, TopInv
<1>1. pc = "dispatch" /\ cmd.id \in index /\ cmd.id \in OrderId
  BY DEF HandleCancel, ModifyInPlace, ReplayAsNew, IsModify, Inv, TypeOK
<1>2. Viewed /\ EmptyUnindexed
  BY <1>1 DEF ViewInv, OpenOf, Viewed, EmptyUnindexed
<1>3. CASE HandleCancel
  <2>1. pc' = "publish" /\ Release(cmd.id)
    BY <1>3 DEF HandleCancel
  <2>2. \A x \in OrderId : view'[x] = IF x = cmd.id THEN 0 ELSE view[x]
    BY <1>0, <1>3, HandleCancelSeen
  <2>3. /\ \A i \in OrderId : order'[i].remaining = IF i = cmd.id THEN 0 ELSE order[i].remaining
        /\ \A i \in OrderId : i \in index' <=> i \in index /\ i # cmd.id
    BY <1>0, <1>1, <2>1, Released
  <2>. QED  BY <1>2, <2>1, <2>2, <2>3 DEF ViewInv, OpenOf, Viewed, EmptyUnindexed
<1>4. CASE ModifyInPlace
  <2> DEFINE o == order[cmd.id]
             n == [o EXCEPT !.remaining = cmd.qty, !.quantity = cmd.qty + (o.quantity - cmd.qty)]
  <2>1. pc' = "publish" /\ index' = index /\ order' = [order EXCEPT ![cmd.id] = n]
    BY <1>4 DEF ModifyInPlace
  <2>2. \A x \in OrderId : view'[x] = IF x = cmd.id THEN cmd.qty ELSE view[x]
    BY <1>0, <1>4, ModifyInPlaceSeen
  <2>3. n.remaining = cmd.qty
    <3>1. o \in Order /\ cmd.qty \in Nat
      BY <1>0, <1>1 DEF BookTypeOK, Inv, TypeOK, Command
    <3>. QED  BY <3>1 DEF Order
  <2> HIDE DEF n
  <2>4. \A i \in OrderId : order'[i] = IF i = cmd.id THEN n ELSE order[i]
    BY <1>0, <2>1, Zenon DEF BookTypeOK
  <2>5. \A i \in OrderId : order'[i].remaining = IF i = cmd.id THEN cmd.qty ELSE order[i].remaining
    BY <2>3, <2>4
  <2>. QED  BY <1>1, <1>2, <2>1, <2>2, <2>5 DEF ViewInv, OpenOf, Viewed, EmptyUnindexed
<1>5. CASE ReplayAsNew
  <2>1. pc' = "new" /\ Release(cmd.id) /\ cmd.type = "Modify" /\ cmd.id # NoId
    BY <1>1, <1>5, CommandAssumption DEF ReplayAsNew, IsModify
  <2>2. view' = view /\ reentry' = cmd.id
    BY <1>1, <1>5, <2>1, QuietSeen DEF Observe
  <2>3. /\ \A i \in OrderId : order'[i].remaining = IF i = cmd.id THEN 0 ELSE order[i].remaining
        /\ \A i \in OrderId : i \in index' <=> i \in index /\ i # cmd.id
    BY <1>0, <1>1, <2>1, Released
  <2>4. cmd'.ordType # "Fok" /\ Rejection' = "None"
    BY <1>5, ReplayAccepted
  <2>. QED  BY <1>2, <2>1, <2>2, <2>3, <2>4 DEF ViewInv, OpenOf, Viewed, EmptyUnindexed
<1>. QED  BY <1>3, <1>4, <1>5

\* handle_new accepts the order: the size the events tell is the incoming order's.
LEMMA AcceptView ==
    ASSUME Inv, TopInv, ReplayInv, ViewInv, Observe, AcceptNew
    PROVE  ViewInv'
<1>1. /\ pc = "new" /\ pc' = "match" /\ cmd' = cmd /\ UNCHANGED <<index, order>>
      /\ in'.remaining = cmd.qty
  BY DEF AcceptNew, bookVars
<1>2. \A x \in OrderId : view'[x] = IF x = cmd.id THEN cmd.qty ELSE view[x]
  BY AcceptNewSeen DEF TopInv
<1>3. \A x \in OrderId : x # cmd.id => view[x] = order[x].remaining
  BY <1>1, CommandAssumption DEF ViewInv, OpenOf, ReplayInv
<1>. QED  BY <1>1, <1>2, <1>3 DEF ViewInv, OpenOf

\* match: both orders of a trade lose what its fills say, and an order that
\* self-trade prevention cancels is said to have nothing left.
LEMMA MatchView ==
    ASSUME Inv, TopInv, ViewInv, Observe, NEW p \in Price,
           StpCancelAggressor(p) \/ StpCancelResting(p) \/ Trade(p)
    PROVE  ViewInv'
<1> DEFINE r == Head(queue[Opposite(in.side)][p])
           q == Traded(r)
<1>0. BookTypeOK /\ view \in [OrderId -> Int]
  BY DEF Inv, TypeOK, BookTypeOK, TopInv
<1>1. /\ pc = "match" /\ pc' = "match" /\ cmd' = cmd /\ CanMatch(p)
  BY DEF StpCancelAggressor, StpCancelResting, Trade
<1>2. /\ r \in index /\ r \in OrderId /\ cmd.id \in OrderId /\ cmd.id # r
      /\ in \in Order /\ order[r] \in Order
  BY <1>1, MeetsHead
<1>3. /\ EmptyUnindexed /\ view[cmd.id] = in.remaining
      /\ \A x \in OrderId : x # cmd.id => view[x] = order[x].remaining
  BY <1>1, <1>2 DEF ViewInv, OpenOf, EmptyUnindexed
<1>4. CASE StpCancelAggressor(p)
  <2>1. UNCHANGED <<index, order>> /\ in'.remaining = 0
    BY <1>2, <1>4 DEF StpCancelAggressor, bookVars, Order
  <2>2. \A x \in OrderId : view'[x] = IF x = cmd.id THEN 0 ELSE view[x]
    BY <1>0, <1>4, StpSeen
  <2> HIDE DEF r
  <2>. QED  BY <1>1, <1>3, <2>1, <2>2 DEF ViewInv, OpenOf, EmptyUnindexed
<1>5. CASE StpCancelResting(p)
  <2>1. Release(r) /\ in' = in
    BY <1>5 DEF StpCancelResting
  <2>2. \A x \in OrderId : view'[x] = IF x = r THEN 0 ELSE view[x]
    BY <1>0, <1>5, StpSeen
  <2> HIDE DEF r
  <2>3. /\ \A i \in OrderId : order'[i].remaining = IF i = r THEN 0 ELSE order[i].remaining
        /\ \A i \in OrderId : i \in index' <=> i \in index /\ i # r
    BY <1>0, <1>2, <2>1, Released
  <2>. QED  BY <1>1, <1>2, <1>3, <2>1, <2>2, <2>3 DEF ViewInv, OpenOf, EmptyUnindexed
<1>6. CASE Trade(p)
  <2>1. Take(r, q) /\ in' = [in EXCEPT !.remaining = @ - q]
    BY <1>6 DEF Trade, OldestAt
  <2>2. \A x \in OrderId : view'[x] = IF x = cmd.id \/ x = r THEN view[x] - q ELSE view[x]
    BY <1>0, <1>6, TradeSeen
  <2>3. in'.remaining = in.remaining - q
    BY <1>2, <2>1 DEF Order
  <2>4. q \in Nat
    BY <1>1, TradeReports
  <2> HIDE DEF r, q
  <2>5. /\ \A i \in OrderId : order'[i].remaining = IF i = r THEN order[i].remaining - q
                                                    ELSE order[i].remaining
        /\ \A i \in OrderId : i \notin index' => i \notin index \/ (i = r /\ order[r].remaining = q)
    <3>1. CASE order[r].remaining = q /\ Release(r)
      <4>1. /\ \A i \in OrderId : order'[i].remaining = IF i = r THEN 0 ELSE order[i].remaining
            /\ \A i \in OrderId : i \in index' <=> i \in index /\ i # r
        BY <1>0, <1>2, <3>1, Released
      <4>. QED  BY <2>4, <3>1, <4>1
    <3>2. CASE order[r].remaining # q /\ ReduceInPlace(r, q)
      <4>1. index' = index /\ order' = [order EXCEPT ![r].remaining = @ - q]
        BY <3>2 DEF ReduceInPlace
      <4>2. order \in [OrderId -> Order]
        BY <1>0 DEF BookTypeOK
      <4>3. \A i \in OrderId : i # r => order'[i] = order[i]
        BY <4>1, <4>2
      <4>4. order'[r].remaining = order[r].remaining - q
        BY <1>2, <4>1, <4>2 DEF Order
      <4>. QED  BY <4>1, <4>3, <4>4
    <3>. QED  BY <2>1, <3>1, <3>2 DEF Take
  <2>6. order[r].remaining = q => order'[r].remaining = 0
    BY <1>2, <2>4, <2>5
  <2>7. \A i \in OrderId : i \notin index' => order'[i].remaining = 0
    <3> TAKE i \in OrderId
    <3>1. CASE i = r
      BY <1>2, <2>5, <2>6, <3>1
    <3>2. CASE i # r
      BY <1>3, <2>5, <3>2 DEF EmptyUnindexed
    <3>. QED  BY <3>1, <3>2
  <2>8. \A i \in OrderId : view'[i] = IF i = cmd.id THEN in'.remaining ELSE order'[i].remaining
    BY <1>2, <1>3, <2>2, <2>3, <2>5
  <2>. QED  BY <1>1, <2>7, <2>8 DEF ViewInv, OpenOf
<1>. QED  BY <1>4, <1>5, <1>6

\* After match: what is left rests, is canceled with a report, or is nothing.
LEMMA SettleView ==
    ASSUME Inv, TopInv, ViewInv, Observe,
           FullyFilled \/ CancelRemainder \/ PoolExhausted \/ RestIncoming \/ RestOutsideLevels
    PROVE  ViewInv'
<1>0. BookTypeOK /\ view \in [OrderId -> Int]
  BY DEF Inv, TypeOK, BookTypeOK, TopInv
<1>1. pc = "match" /\ pc' \in {"publish", "oob"}
  BY DEF FullyFilled, CancelRemainder, PoolExhausted, RestIncoming, RestOutsideLevels,
         MatchDone, CancelIncoming
<1>2. cmd.id \in OrderId /\ cmd.id \notin index /\ in \in Order
  BY <1>1 DEF Inv, TypeOK, IncomingIsNew, Command
<1>3. /\ EmptyUnindexed /\ view[cmd.id] = in.remaining
      /\ \A x \in OrderId : x # cmd.id => view[x] = order[x].remaining
  BY <1>1, <1>2 DEF ViewInv, OpenOf, EmptyUnindexed
<1>4. CASE FullyFilled
  <2>1. in.remaining = 0 /\ UNCHANGED <<index, order>> /\ pc' = "publish"
    BY <1>4 DEF FullyFilled, bookVars
  <2>2. view' = view
    BY <1>4, QuietSeen
  <2>. QED  BY <1>2, <1>3, <2>1, <2>2 DEF ViewInv, OpenOf, EmptyUnindexed
<1>5. CASE CancelRemainder \/ PoolExhausted
  <2>1. UNCHANGED <<index, order>> /\ pc' = "publish"
    BY <1>5 DEF CancelRemainder, PoolExhausted, CancelIncoming, bookVars
  <2>2. \A x \in OrderId : view'[x] = IF x = cmd.id THEN 0 ELSE view[x]
    BY <1>0, <1>5, CancelIncomingSeen
  <2>. QED  BY <1>2, <1>3, <2>1, <2>2 DEF ViewInv, OpenOf, EmptyUnindexed
<1>6. CASE RestIncoming
  <2>1. /\ index' = index \cup {cmd.id} /\ order' = [order EXCEPT ![cmd.id] = in]
        /\ pc' = "publish"
    BY <1>6 DEF RestIncoming
  <2>2. view' = view
    BY <1>6, QuietSeen
  <2>3. \A i \in OrderId : order'[i] = IF i = cmd.id THEN in ELSE order[i]
    BY <1>0, <2>1, Zenon DEF BookTypeOK
  <2>4. \A i \in OrderId : i \in index' <=> i = cmd.id \/ i \in index
    BY <2>1
  <2>5. \A i \in OrderId : view'[i] = order'[i].remaining
    BY <1>2, <1>3, <2>2, <2>3
  <2>6. \A i \in OrderId : i \notin index' => order'[i].remaining = 0
    BY <1>3, <2>3, <2>4 DEF EmptyUnindexed
  <2>7. pc' = "publish"
    BY <2>1
  <2>. QED  BY <2>5, <2>6, <2>7 DEF ViewInv, OpenOf
<1>7. CASE RestOutsideLevels
  <2>1. UNCHANGED <<index, order>> /\ pc' = "oob"
    BY <1>7 DEF RestOutsideLevels, bookVars
  <2>. QED  BY <1>3, <2>1 DEF ViewInv, EmptyUnindexed
<1>. QED  BY <1>4, <1>5, <1>6, <1>7

\* All of it, for the commands whose replays handle_new takes.
ViewedSafely == Inv /\ ClientsInv /\ PostOnlyInv /\ TopInv /\ ReplayInv /\ ViewInv

\* Every step of the engine and its listener keeps it.
LEMMA ViewStep ==
    ASSUME ReplaysFit
    PROVE  ViewedSafely /\ [Next /\ Observe]_viewVars => ViewedSafely'
<1> SUFFICES ASSUME ViewedSafely, [Next /\ Observe]_viewVars PROVE ViewedSafely'
  OBVIOUS
<1>1. Inv /\ ClientsInv /\ PostOnlyInv /\ TopInv /\ ReplayInv /\ ViewInv
  BY DEF ViewedSafely
<1>2. Inv' /\ ClientsInv' /\ PostOnlyInv'
  BY <1>1, EngineStep, NextInv, ClientsStep, PostOnlyStep
<1>3. TopInv' /\ ReplayInv'
  BY <1>1, TopStep, ReplayStep
<1>4. ViewInv'
  <2>1. CASE UNCHANGED viewVars
    <3>1. /\ view' = view /\ pc' = pc /\ cmd' = cmd /\ in' = in /\ index' = index
          /\ order' = order /\ reentry' = reentry /\ queue' = queue /\ total' = total
      BY <2>1 DEF viewVars, vars, bookVars
    <3>2. ASSUME cmd.ordType # "Fok", Rejection = "None" PROVE Rejection' = "None"
      <4>1. WouldCross' = WouldCross
        BY <3>1, Zenon DEF WouldCross, IsMarket, Limit, IsBest, Occupied
      <4>2. IsMarket' = IsMarket /\ InBand(cmd.price)' = InBand(cmd.price)
        BY <3>1, Zenon DEF IsMarket, InBand
      <4>. QED  BY <3>1, <3>2, <4>1, <4>2 DEF Rejection
    <3>. QED  BY <1>1, <3>1, <3>2 DEF ViewInv, OpenOf
  <2>2. CASE Next /\ Observe
    <3>1. \/ \/ \E c \in Commands : Receive(c)
             \/ \E h \in BOOLEAN : SetHalted(h)
             \/ AdmitNew \/ PublishNothing \/ PublishTop
             \/ RejectHalted \/ RejectUnknown \/ RejectNew
          \/ HandleCancel \/ ModifyInPlace \/ ReplayAsNew
          \/ AcceptNew
          \/ \E p \in Price : StpCancelAggressor(p) \/ StpCancelResting(p) \/ Trade(p)
          \/ FullyFilled \/ CancelRemainder \/ PoolExhausted \/ RestIncoming \/ RestOutsideLevels
      BY <2>2 DEF Next, Step
    <3>. QED
      BY <1>1, <1>2, <1>3, <2>2, <3>1, QuietView, DispatchView, AcceptView, MatchView, SettleView
  <2>. QED  BY <2>1, <2>2
<1>. QED  BY <1>2, <1>3, <1>4 DEF ViewedSafely

\* It holds of an empty engine and a listener that has heard nothing.
LEMMA InitView == ViewInit => ViewedSafely
<1> SUFFICES ASSUME ViewInit PROVE ViewedSafely
  OBVIOUS
<1>1. Inv /\ TopInv
  BY InitInv, InitTop DEF ViewInit
<1>2. /\ pc = "idle" /\ index = {} /\ reentry = NoId /\ order = [i \in OrderId |-> EmptyOrder]
      /\ view = [i \in OrderId |-> 0]
  BY DEF ViewInit, Init
<1>3. ClientsInv /\ PostOnlyInv /\ ReplayInv
  BY <1>2 DEF ClientsInv, PostOnlyInv, ReplayInv
<1>4. EmptyOrder.remaining = 0
  BY DEF EmptyOrder
<1>5. ViewInv
  BY <1>2, <1>4 DEF ViewInv, OpenOf
<1>. QED  BY <1>1, <1>3, <1>5 DEF ViewedSafely

\* Between calls, what the events say is open is open, to the share, whatever the
\* fills, cancels, size-downs, replays and self-trade prevention of the calls were,
\* as long as no replay is turned away.
THEOREM EventsTellTheBook == ASSUME ReplaysFit PROVE ViewSpec => []ViewMatchesBook
<1>1. ViewedSafely => ViewMatchesBook
  BY DEF ViewedSafely, ViewInv, OpenOf, ViewMatchesBook
<1>2. ViewedSafely /\ [Next /\ Observe]_viewVars => ViewedSafely'
  BY ViewStep
<1>. QED  BY <1>1, <1>2, InitView, PTL DEF ViewSpec
-----------------------------------------------------------------------------
(* The halt flag.                                                           *)

\* The listener knows what is open, and a halted book handles only what it held.
HaltInv ==
    /\ \A i \in index : view[i] = order[i].remaining
    /\ pc = "match" => view[cmd.id] = in.remaining
    /\ pc = "new" => ~halted \/ view[cmd.id] > 0

\* Where an order leaves the book the others keep what they have.
LEMMA ReleaseHalt ==
    ASSUME Inv, HaltInv, NEW r \in index, Release(r),
           \A x \in OrderId : x # r => view'[x] = view[x]
    PROVE  \A i \in index' : view'[i] = order'[i].remaining
<1>1. BookTypeOK /\ index \subseteq OrderId
  BY DEF Inv, TypeOK, BookTypeOK
<1>2. \A x \in index' : x \in index /\ x # r /\ order'[x] = order[x]
  BY <1>1, ReleaseOthers
<1>. QED  BY <1>1, <1>2 DEF HaltInv

\* Each action of match and of what comes before and after it.
LEMMA HaltQuiet ==
    ASSUME Inv, HaltInv, Observe,
           \/ \E c \in Commands : Receive(c)
           \/ \E h \in BOOLEAN : SetHalted(h)
           \/ AdmitNew \/ PublishNothing \/ PublishTop
           \/ RejectHalted \/ RejectUnknown \/ RejectNew
           \/ FullyFilled \/ RestOutsideLevels
    PROVE  HaltInv' /\ view' = view
<1>1. view' = view
  BY QuietSeen, PublishTopSeen
<1>2. UNCHANGED <<index, order>> /\ pc' # "match" /\ (pc' = "new" => ~halted')
  BY DEF Receive, SetHalted, AdmitNew, PublishNothing, PublishTop, RejectHalted, RejectUnknown,
         RejectNew, Return, bookVars, FullyFilled, RestOutsideLevels
<1>. QED  BY <1>1, <1>2 DEF HaltInv

\* A replay is of an order that was open.
LEMMA HaltDispatch ==
    ASSUME Inv, HaltInv, view \in [OrderId -> Int], Observe,
           HandleCancel \/ ModifyInPlace \/ ReplayAsNew
    PROVE  /\ HaltInv'
           /\ \A i \in OrderId : view[i] = 0 => view'[i] = 0
<1>0. BookTypeOK
  BY DEF Inv, TypeOK, BookTypeOK
<1>1. /\ pc = "dispatch" /\ cmd.id \in index /\ cmd.id \in OrderId
      /\ order[cmd.id] \in Order /\ cmd.qty \in Nat
  BY DEF HandleCancel, ModifyInPlace, ReplayAsNew, IsModify, Inv, TypeOK, Command
<1>2. view[cmd.id] = order[cmd.id].remaining /\ view[cmd.id] > 0
  <2>1. order[cmd.id].remaining > 0
    BY <1>1 DEF Inv, BookInv, RestingIsOpen
  <2>. QED  BY <1>1, <2>1 DEF HaltInv
<1>3. CASE HandleCancel
  <2>1. pc' = "publish" /\ Release(cmd.id)
    BY <1>3 DEF HandleCancel
  <2>2. \A x \in OrderId : view'[x] = IF x = cmd.id THEN 0 ELSE view[x]
    BY <1>3, HandleCancelSeen
  <2>3. \A i \in index' : view'[i] = order'[i].remaining
    BY <1>1, <2>1, <2>2, ReleaseHalt
  <2>. QED  BY <2>1, <2>2, <2>3 DEF HaltInv
<1>4. CASE ModifyInPlace
  <2> DEFINE o == order[cmd.id]
             n == [o EXCEPT !.remaining = cmd.qty, !.quantity = cmd.qty + (o.quantity - cmd.qty)]
  <2>1. pc' = "publish" /\ index' = index /\ order' = [order EXCEPT ![cmd.id] = n]
    BY <1>4 DEF ModifyInPlace
  <2>2. \A x \in OrderId : view'[x] = IF x = cmd.id THEN cmd.qty ELSE view[x]
    BY <1>4, ModifyInPlaceSeen
  <2>3. n.remaining = cmd.qty
    BY <1>1 DEF Order
  <2> HIDE DEF n
  <2>4. \A i \in OrderId : order'[i] = IF i = cmd.id THEN n ELSE order[i]
    BY <1>0, <2>1, Zenon DEF BookTypeOK
  <2>5. index \subseteq OrderId
    BY <1>0 DEF BookTypeOK
  <2>6. \A i \in index' : view'[i] = order'[i].remaining
    BY <2>1, <2>2, <2>3, <2>4, <2>5 DEF HaltInv
  <2>. QED  BY <1>2, <2>1, <2>2, <2>6 DEF HaltInv
<1>5. CASE ReplayAsNew
  <2>1. pc' = "new" /\ Release(cmd.id) /\ cmd'.id = cmd.id
    BY <1>5 DEF ReplayAsNew, NewCommand
  <2>2. view' = view
    BY <1>5, QuietSeen
  <2>3. \A i \in index' : view'[i] = order'[i].remaining
    BY <1>1, <2>1, <2>2, ReleaseHalt
  <2>. QED  BY <1>2, <2>1, <2>2, <2>3 DEF HaltInv
<1>. QED  BY <1>3, <1>4, <1>5

\* handle_new: what comes up was open before, or the book is not halted.
LEMMA HaltAccept ==
    ASSUME Inv, HaltInv, view \in [OrderId -> Int], Observe, AcceptNew
    PROVE  /\ HaltInv'
           /\ halted => \A i \in OrderId : view[i] = 0 => view'[i] = 0
<1>1. /\ pc = "new" /\ pc' = "match" /\ cmd' = cmd /\ UNCHANGED <<index, order>>
      /\ in'.remaining = cmd.qty
  BY DEF AcceptNew, bookVars
<1>2. \A x \in OrderId : view'[x] = IF x = cmd.id THEN cmd.qty ELSE view[x]
  BY AcceptNewSeen
<1>3. cmd.id \notin index /\ cmd.id \in OrderId /\ index \subseteq OrderId
  <2>1. Rejection = "None"
    BY DEF AcceptNew
  <2>2. cmd.id \notin index
    BY <2>1 DEF Rejection
  <2>. QED  BY <1>1, <2>2 DEF Inv, TypeOK, Command
<1>. QED  BY <1>1, <1>2, <1>3 DEF HaltInv

\* match only lowers what is open.
LEMMA HaltMatch ==
    ASSUME Inv, HaltInv, view \in [OrderId -> Int], Observe, NEW p \in Price,
           StpCancelAggressor(p) \/ StpCancelResting(p) \/ Trade(p)
    PROVE  /\ HaltInv'
           /\ \A i \in OrderId : view[i] = 0 => view'[i] = 0
<1> DEFINE r == Head(queue[Opposite(in.side)][p])
           q == Traded(r)
<1>0. BookTypeOK /\ index \subseteq OrderId
  BY DEF Inv, TypeOK, BookTypeOK
<1>1. /\ pc = "match" /\ pc' = "match" /\ cmd' = cmd /\ CanMatch(p) /\ in.remaining > 0
  BY DEF StpCancelAggressor, StpCancelResting, Trade, CanMatch
<1>2. /\ r \in index /\ r \in OrderId /\ cmd.id \in OrderId /\ cmd.id # r
      /\ in \in Order /\ order[r] \in Order
  BY <1>1, MeetsHead
<1>3. /\ view[cmd.id] = in.remaining /\ view[r] = order[r].remaining /\ order[r].remaining > 0
      /\ cmd.id \notin index
  BY <1>1, <1>2 DEF HaltInv, Inv, BookInv, RestingIsOpen, IncomingIsNew
<1>4. CASE StpCancelAggressor(p)
  <2>1. UNCHANGED <<index, order>> /\ in'.remaining = 0
    BY <1>2, <1>4 DEF StpCancelAggressor, bookVars, Order
  <2>2. \A x \in OrderId : view'[x] = IF x = cmd.id THEN 0 ELSE view[x]
    BY <1>4, StpSeen
  <2> HIDE DEF r
  <2>. QED  BY <1>0, <1>1, <1>2, <1>3, <2>1, <2>2 DEF HaltInv
<1>5. CASE StpCancelResting(p)
  <2>1. Release(r) /\ in' = in
    BY <1>5 DEF StpCancelResting
  <2>2. \A x \in OrderId : view'[x] = IF x = r THEN 0 ELSE view[x]
    BY <1>5, StpSeen
  <2> HIDE DEF r
  <2>3. \A i \in index' : view'[i] = order'[i].remaining
    BY <1>2, <2>1, <2>2, ReleaseHalt
  <2>. QED  BY <1>1, <1>2, <1>3, <2>1, <2>2, <2>3 DEF HaltInv
<1>6. CASE Trade(p)
  <2>1. Take(r, q) /\ in' = [in EXCEPT !.remaining = @ - q]
    BY <1>6 DEF Trade, OldestAt
  <2>2. \A x \in OrderId : view'[x] = IF x = cmd.id \/ x = r THEN view[x] - q ELSE view[x]
    BY <1>6, TradeSeen
  <2>3. in'.remaining = in.remaining - q
    BY <1>2, <2>1 DEF Order
  <2> HIDE DEF r, q
  <2>4. \A i \in index' : view'[i] = order'[i].remaining
    <3>1. CASE order[r].remaining = q /\ Release(r)
      <4>1. \A x \in index' : x \in index /\ x # r /\ order'[x] = order[x]
        BY <1>0, <1>2, <3>1, ReleaseOthers
      <4>. QED  BY <1>0, <1>3, <2>2, <4>1 DEF HaltInv
    <3>2. CASE order[r].remaining # q /\ ReduceInPlace(r, q)
      <4>1. index' = index /\ order' = [order EXCEPT ![r].remaining = @ - q]
        BY <3>2 DEF ReduceInPlace
      <4>2. order \in [OrderId -> Order]
        BY <1>0 DEF BookTypeOK
      <4>3. \A i \in OrderId : i # r => order'[i] = order[i]
        BY <4>1, <4>2
      <4>4. order'[r].remaining = order[r].remaining - q
        BY <1>2, <4>1, <4>2 DEF Order
      <4>. QED  BY <1>0, <1>2, <1>3, <2>2, <4>1, <4>3, <4>4 DEF HaltInv
    <3>. QED  BY <2>1, <3>1, <3>2 DEF Take
  <2>. QED  BY <1>1, <1>2, <1>3, <2>2, <2>3, <2>4 DEF HaltInv
<1>. QED  BY <1>4, <1>5, <1>6

\* After match.
LEMMA HaltSettle ==
    ASSUME Inv, HaltInv, view \in [OrderId -> Int], Observe,
           CancelRemainder \/ PoolExhausted \/ RestIncoming
    PROVE  /\ HaltInv'
           /\ \A i \in OrderId : view[i] = 0 => view'[i] = 0
<1>0. BookTypeOK /\ index \subseteq OrderId /\ order \in [OrderId -> Order]
  BY DEF Inv, TypeOK, BookTypeOK
<1>1. pc = "match" /\ pc' = "publish"
  BY DEF CancelRemainder, PoolExhausted, RestIncoming, MatchDone, CancelIncoming
<1>2. cmd.id \in OrderId /\ cmd.id \notin index
  BY <1>1 DEF Inv, TypeOK, IncomingIsNew, Command
<1>3. CASE CancelRemainder \/ PoolExhausted
  <2>1. UNCHANGED <<index, order>>
    BY <1>3 DEF CancelRemainder, PoolExhausted, CancelIncoming, bookVars
  <2>2. \A x \in OrderId : view'[x] = IF x = cmd.id THEN 0 ELSE view[x]
    BY <1>3, CancelIncomingSeen
  <2>. QED  BY <1>0, <1>1, <1>2, <2>1, <2>2 DEF HaltInv
<1>4. CASE RestIncoming
  <2>1. index' = index \cup {cmd.id} /\ order' = [order EXCEPT ![cmd.id] = in]
    BY <1>4 DEF RestIncoming
  <2>2. view' = view
    BY <1>4, QuietSeen
  <2>3. \A i \in OrderId : order'[i] = IF i = cmd.id THEN in ELSE order[i]
    BY <1>0, <2>1, Zenon
  <2>. QED  BY <1>0, <1>1, <1>2, <2>1, <2>2, <2>3 DEF HaltInv
<1>. QED  BY <1>3, <1>4

\* Every step keeps it, and brings nothing up in a halted book.
LEMMA HaltStep ==
    ASSUME Inv, TopInv, HaltInv, [Next /\ Observe]_viewVars
    PROVE  /\ HaltInv'
           /\ halted => \A i \in OrderId : view[i] = 0 => view'[i] = 0
<1>1. CASE UNCHANGED viewVars
  BY <1>1 DEF viewVars, vars, bookVars, HaltInv
<1>2. CASE Next /\ Observe
  <2>1. \/ \/ \E c \in Commands : Receive(c)
           \/ \E h \in BOOLEAN : SetHalted(h)
           \/ AdmitNew \/ PublishNothing \/ PublishTop
           \/ RejectHalted \/ RejectUnknown \/ RejectNew
           \/ FullyFilled \/ RestOutsideLevels
        \/ HandleCancel \/ ModifyInPlace \/ ReplayAsNew
        \/ AcceptNew
        \/ \E p \in Price : StpCancelAggressor(p) \/ StpCancelResting(p) \/ Trade(p)
        \/ CancelRemainder \/ PoolExhausted \/ RestIncoming
    BY <1>2 DEF Next, Step
  <2>2. view \in [OrderId -> Int]
    BY DEF TopInv
  <2>. QED
    BY <1>2, <2>1, <2>2, HaltQuiet, HaltDispatch, HaltAccept, HaltMatch, HaltSettle
<1>. QED  BY <1>1, <1>2

\* While the book is halted nothing comes up that was not open: what a modify
\* replays past the halt test is an order the listener held open before.
THEOREM HaltedBookIsClosed == ViewSpec => HaltKeepsStrangersOut
<1>1. ViewInit => HaltInv
  BY DEF ViewInit, Init, HaltInv
<1>2. Inv /\ TopInv /\ HaltInv /\ [Next /\ Observe]_viewVars
         => HaltInv' /\ (halted => \A i \in OrderId : view[i] = 0 => view'[i] = 0)
  BY HaltStep
<1>3. Inv /\ TopInv /\ HaltInv /\ [Next /\ Observe]_viewVars
         => [halted => \A i \in OrderId : view[i] = 0 => view'[i] = 0]_viewVars
  BY <1>2
<1>. QED
  BY <1>1, <1>2, <1>3, InitTop, TopStep, ViewedInv, PTL DEF ViewSpec, HaltKeepsStrangersOut
=============================================================================
