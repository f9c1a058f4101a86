----------------------------- MODULE BooksProofs -----------------------------
(* Proofs about Books, for every set of slots, band, word width and block.  *)
EXTENDS Books, FiniteSetTheorems, SequenceTheorems, WellFoundedInduction, TLAPS

-----------------------------------------------------------------------------
(* Intrusive lists.                                                         *)

Level == [price : Int, total : Int, count : Int,
          head : Slot \cup {Null}, tail : Slot \cup {Null}]
Link == [prev : Slot \cup {Null}, next : Slot \cup {Null}]

\* The level and the pointers in its orders spell the queue q.
IsList(l, links, q) ==
    /\ q \in Seq(Slot)
    /\ \A j, k \in 1..Len(q) : q[j] = q[k] => j = k
    /\ l.count = Len(q)
    /\ l.head = IF Len(q) = 0 THEN Null ELSE q[1]
    /\ l.tail = IF Len(q) = 0 THEN Null ELSE q[Len(q)]
    /\ \A k \in 1..Len(q) :
          /\ links[q[k]].prev = IF k = 1 THEN Null ELSE q[k - 1]
          /\ links[q[k]].next = IF k = Len(q) THEN Null ELSE q[k + 1]

\* Every nonempty set of naturals has a least member.
LEMMA LeastNat ==
    ASSUME NEW T, T \subseteq Nat, T # {}
    PROVE  \E x \in T : \A y \in T : x <= y
<1> DEFINE R == OpToRel(<, Nat)
<1>1. IsWellFoundedOn(R, Nat)
  BY NatLessThanWellFounded
<1>2. \A x, y \in Nat : x < y => <<x, y>> \in R
  BY DEF OpToRel
<1> HIDE DEF R
<1>3. PICK x \in T : \A y \in T : ~(<<y, x>> \in R)
  BY <1>1, WFMin
<1>4. ASSUME NEW y \in T PROVE x <= y
  <2>1. x \in Nat /\ y \in Nat
    OBVIOUS
  <2>2. ~(y < x)
    BY <1>2, <1>3, <2>1
  <2>. QED  BY <2>1, <2>2
<1>. QED  BY <1>4

\* Members of a queue, by position.
LEMMA QueueTypes ==
    ASSUME NEW q \in Seq(Slot)
    PROVE  /\ Len(q) \in Nat /\ DOMAIN q = 1..Len(q)
           /\ \A k \in 1..Len(q) : q[k] \in Slot /\ q[k] # Null
  BY LenProperties, ElementOfSeq, SlotAssumption

\* Following the list from its head gives the queue it spells.
LEMMA ChainSpells ==
    ASSUME NEW l, NEW links, NEW q, IsList(l, links, q)
    PROVE  Chain(l, links) = q
<1> DEFINE n == Len(q)
           step(f, k) == IF k = 1 THEN l.head
                         ELSE IF f[k - 1] = Null THEN Null ELSE links[f[k - 1]].next
           at[k \in 1..l.count] == IF k = 1 THEN l.head
                                   ELSE IF at[k - 1] = Null THEN Null
                                        ELSE links[at[k - 1]].next
<1>1. /\ n \in Nat /\ q \in Seq(Slot) /\ DOMAIN q = 1..n /\ l.count = n
      /\ \A k \in 1..n : q[k] \in Slot /\ q[k] # Null
      /\ l.head = IF n = 0 THEN Null ELSE q[1]
      /\ \A k \in 1..n : links[q[k]].next = IF k = n THEN Null ELSE q[k + 1]
  BY QueueTypes DEF IsList
<1>2. ASSUME NEW k \in 1..n PROVE q[k] = step(q, k)
  <2> HIDE DEF n
  <2>1. CASE k = 1
    <3>1. n # 0
      BY <1>1
    <3>. QED  BY <1>1, <2>1, <3>1
  <2>2. CASE k # 1
    <3>1. k - 1 \in 1..n /\ k - 1 # n /\ (k - 1) + 1 = k
      BY <1>1, <2>2
    <3>. QED  BY <1>1, <2>2, <3>1
  <2>. QED  BY <2>1, <2>2
<1>3. q = [k \in 1..l.count |-> step(q, k)]
  <2>1. q = [k \in 1..n |-> q[k]]
    BY <1>1
  <2> HIDE DEF step
  <2>. QED  BY <1>1, <1>2, <2>1
<1>4. at = [k \in 1..l.count |-> step(at, k)]
  BY <1>3
<1> HIDE DEF at, n
<1>5. \A k \in 1..n : at[k] = step(at, k)
  BY <1>1, <1>4
<1>6. \A k \in 1..n : at[k] = q[k]
  <2> DEFINE T == {k \in 1..n : at[k] # q[k]}
  <2>1. CASE T = {}
    BY <2>1
  <2>2. CASE T # {}
    <3>0. T \subseteq Nat
      BY <1>1
    <3>1. PICK k \in T : \A j \in T : k <= j
      BY <2>2, <3>0, LeastNat
    <3>2. k \in 1..n /\ at[k] # q[k]
      OBVIOUS
    <3>3. CASE k = 1
      BY <1>2, <1>5, <3>2, <3>3
    <3>4. CASE k # 1
      <4>1. k - 1 \in 1..n /\ ~(k <= k - 1)
        BY <1>1, <3>2, <3>4
      <4>2. at[k - 1] = q[k - 1]
        BY <3>1, <4>1
      <4>. QED  BY <1>2, <1>5, <3>2, <4>2
    <3>. QED  BY <3>3, <3>4
  <2>. QED  BY <2>1, <2>2
<1>7. Chain(l, links) = [k \in 1..l.count |-> at[k]]
  BY DEF Chain, at
<1>8. q = [k \in 1..n |-> q[k]]
  BY <1>1
<1>. QED  BY <1>1, <1>6, <1>7, <1>8

\* Two levels that differ in price and total at most hold the same list.
LEMMA SameList ==
    ASSUME NEW l, NEW m, NEW links, NEW q, IsList(l, links, q),
           m.count = l.count, m.head = l.head, m.tail = l.tail
    PROVE  IsList(m, links, q)
  BY DEF IsList

\* push_back writes two orders: the new one and the old tail.
LEMMA PushLinksAt ==
    ASSUME NEW links \in [Slot -> Link], NEW l, l.tail \in Slot \cup {Null},
           NEW o \in Slot, l.tail # o
    PROVE  /\ PushLinks(links, l, o) \in [Slot -> Link]
           /\ \A n \in Slot :
                 /\ PushLinks(links, l, o)[n].prev = IF n = o THEN l.tail ELSE links[n].prev
                 /\ PushLinks(links, l, o)[n].next =
                       IF n = o THEN Null ELSE IF n = l.tail THEN o ELSE links[n].next
<1> DEFINE p == PushLinks(links, l, o)
<1>1. p = [n \in Slot |->
              CASE n = o      -> [prev |-> l.tail, next |-> Null]
                [] n = l.tail -> [links[n] EXCEPT !.next = o]
                [] OTHER      -> links[n]]
  BY DEF PushLinks
<1> HIDE DEF p
<1>2. p[o] = [prev |-> l.tail, next |-> Null]
  BY <1>1
<1>3. \A n \in Slot : n # o /\ n = l.tail => p[n] = [links[n] EXCEPT !.next = o]
  BY <1>1
<1>4. \A n \in Slot : n # o /\ n # l.tail => p[n] = links[n]
  BY <1>1
<1>5. \A n \in Slot : links[n] \in Link
  OBVIOUS
<1>6. ASSUME NEW n \in Slot
      PROVE  /\ p[n] \in Link
             /\ p[n].prev = IF n = o THEN l.tail ELSE links[n].prev
             /\ p[n].next = IF n = o THEN Null ELSE IF n = l.tail THEN o ELSE links[n].next
  <2>1. CASE n = o
    BY <1>2, <2>1 DEF Link
  <2>2. CASE n # o /\ n = l.tail
    BY <1>3, <1>5, <2>2 DEF Link
  <2>3. CASE n # o /\ n # l.tail
    BY <1>4, <1>5, <2>3 DEF Link
  <2>. QED  BY <2>1, <2>2, <2>3
<1>7. p \in [Slot -> Link]
  <2>1. p = [n \in Slot |-> p[n]]
    BY <1>1
  <2>. QED  BY <1>6, <2>1
<1>. QED  BY <1>6, <1>7 DEF p

\* unlink writes three: the order and its two neighbours.
LEMMA UnlinkLinksAt ==
    ASSUME NEW links \in [Slot -> Link], NEW o \in Slot
    PROVE  /\ UnlinkLinks(links, o) \in [Slot -> Link]
           /\ \A n \in Slot : n # o =>
                 /\ UnlinkLinks(links, o)[n].prev =
                       IF n = links[o].next THEN links[o].prev ELSE links[n].prev
                 /\ UnlinkLinks(links, o)[n].next =
                       IF n = links[o].prev THEN links[o].next ELSE links[n].next
<1> DEFINE u == UnlinkLinks(links, o)
           r(n) == [prev |-> IF n = links[o].next THEN links[o].prev ELSE links[n].prev,
                    next |-> IF n = links[o].prev THEN links[o].next ELSE links[n].next]
<1>1. u = [n \in Slot |-> IF n = o THEN Unlinked ELSE r(n)]
  BY DEF UnlinkLinks
<1>2. \A n \in Slot : links[n] \in Link
  OBVIOUS
<1>3. \A n \in Slot : r(n) \in Link
  BY <1>2 DEF Link
<1>4. Unlinked \in Link
  BY DEF Unlinked, Link
<1>5. \A n \in Slot : n # o =>
         /\ r(n).prev = IF n = links[o].next THEN links[o].prev ELSE links[n].prev
         /\ r(n).next = IF n = links[o].prev THEN links[o].next ELSE links[n].next
  OBVIOUS
<1> HIDE DEF u, r
<1>6. u \in [Slot -> Link]
  BY <1>1, <1>3, <1>4
<1>7. \A n \in Slot : n # o => u[n] = r(n)
  BY <1>1
<1>. QED  BY <1>5, <1>6, <1>7 DEF u

\* push_back makes the order the last of the list.
LEMMA PushedList ==
    ASSUME NEW links \in [Slot -> Link], NEW l, NEW m, NEW q, IsList(l, links, q),
           NEW o \in Slot, \A k \in 1..Len(q) : q[k] # o,
           m.head = IF l.tail = Null THEN o ELSE l.head, m.tail = o, m.count = l.count + 1
    PROVE  IsList(m, PushLinks(links, l, o), Append(q, o))
<1> DEFINE n == Len(q)
           p == PushLinks(links, l, o)
           a == Append(q, o)
<1>1. /\ n \in Nat /\ q \in Seq(Slot) /\ l.count = n
      /\ \A k \in 1..n : q[k] \in Slot /\ q[k] # Null
      /\ \A j, k \in 1..n : q[j] = q[k] => j = k
      /\ l.head = IF n = 0 THEN Null ELSE q[1]
      /\ l.tail = IF n = 0 THEN Null ELSE q[n]
      /\ \A k \in 1..n :
            /\ links[q[k]].prev = IF k = 1 THEN Null ELSE q[k - 1]
            /\ links[q[k]].next = IF k = n THEN Null ELSE q[k + 1]
  BY QueueTypes DEF IsList
<1>2. a \in Seq(Slot) /\ Len(a) = n + 1 /\ a[n + 1] = o /\ \A k \in 1..n : a[k] = q[k]
  BY <1>1, AppendProperties
<1>3. l.tail \in Slot \cup {Null} /\ l.tail # o
  BY <1>1, SlotAssumption
<1>4. \A s \in Slot :
         /\ p[s].prev = IF s = o THEN l.tail ELSE links[s].prev
         /\ p[s].next = IF s = o THEN Null ELSE IF s = l.tail THEN o ELSE links[s].next
  BY <1>3, PushLinksAt
<1> HIDE DEF n, a, p
<1>5. \A j, k \in 1..(n + 1) : a[j] = a[k] => j = k
  <2>1. \A k \in 1..(n + 1) : k \in 1..n \/ k = n + 1
    BY <1>1
  <2>2. \A k \in 1..n : a[k] # o
    BY <1>2 DEF n
  <2>. QED  BY <1>1, <1>2, <2>1, <2>2
<1>6. m.count = n + 1 /\ m.tail = a[n + 1]
  BY <1>1, <1>2
<1>7. m.head = a[1]
  <2>1. CASE n = 0
    BY <1>1, <1>2, <2>1
  <2>2. CASE n # 0
    <3>1. 1 \in 1..n /\ n \in 1..n
      BY <1>1, <2>2
    <3>. QED  BY <1>1, <1>2, <2>2, <3>1
  <2>. QED  BY <2>1, <2>2
<1>8. ASSUME NEW k \in 1..(n + 1)
      PROVE  /\ p[a[k]].prev = IF k = 1 THEN Null ELSE a[k - 1]
             /\ p[a[k]].next = IF k = n + 1 THEN Null ELSE a[k + 1]
  <2>1. CASE k = n + 1
    <3>1. p[a[k]].prev = l.tail /\ p[a[k]].next = Null
      BY <1>2, <1>4, <2>1
    <3>2. CASE n = 0
      BY <1>1, <2>1, <3>1, <3>2
    <3>3. CASE n # 0
      <4>0. n \in Nat
        BY <1>1
      <4>1. n \in 1..n /\ k - 1 = n /\ k # 1
        BY <2>1, <3>3, <4>0
      <4>. QED  BY <1>1, <1>2, <2>1, <3>1, <3>3, <4>1
    <3>. QED  BY <3>2, <3>3
  <2>2. CASE k # n + 1
    <3>1. k \in 1..n
      BY <1>1, <2>2
    <3>2. a[k] = q[k] /\ q[k] # o /\ q[k] \in Slot
      BY <1>1, <1>2, <3>1 DEF n
    <3>3. p[a[k]].prev = IF k = 1 THEN Null ELSE a[k - 1]
      <4>1. CASE k = 1
        BY <1>1, <1>4, <3>1, <3>2, <4>1
      <4>2. CASE k # 1
        <5>1. k - 1 \in 1..n
          BY <1>1, <3>1, <4>2
        <5>2. links[q[k]].prev = q[k - 1] /\ a[k - 1] = q[k - 1]
          BY <1>1, <1>2, <3>1, <4>2, <5>1
        <5>3. p[q[k]].prev = links[q[k]].prev
          BY <1>4, <3>2
        <5>. QED  BY <3>2, <4>2, <5>2, <5>3
      <4>. QED  BY <4>1, <4>2
    <3>4. p[a[k]].next = a[k + 1]
      <4>1. CASE k = n
        <5>1. n # 0 /\ k + 1 = n + 1
          BY <1>1, <3>1, <4>1
        <5>2. q[k] = l.tail
          BY <1>1, <4>1, <5>1
        <5>. QED  BY <1>2, <1>4, <3>2, <5>1, <5>2
      <4>2. CASE k # n
        <5>1. k + 1 \in 1..n /\ n \in 1..n /\ n # 0
          BY <1>1, <3>1, <4>2
        <5>2. q[k] # l.tail
          BY <1>1, <3>1, <4>2, <5>1
        <5>3. links[q[k]].next = q[k + 1] /\ a[k + 1] = q[k + 1]
          BY <1>1, <1>2, <3>1, <4>2, <5>1
        <5>4. p[q[k]].next = links[q[k]].next
          BY <1>4, <3>2, <5>2
        <5>. QED  BY <3>2, <5>3, <5>4
      <4>. QED  BY <4>1, <4>2
    <3>. QED  BY <2>2, <3>3, <3>4
  <2>. QED  BY <2>1, <2>2
<1>9. Len(a) # 0
  BY <1>1, <1>2
<1>. QED  BY <1>2, <1>5, <1>6, <1>7, <1>8, <1>9 DEF IsList, a, p

\* A list with neither the new order nor the old tail in it is left alone.
LEMMA PushElsewhere ==
    ASSUME NEW links \in [Slot -> Link], NEW l, l.tail \in Slot \cup {Null},
           NEW o \in Slot, l.tail # o, NEW m, NEW q, IsList(m, links, q),
           \A k \in 1..Len(q) : q[k] # o /\ q[k] # l.tail
    PROVE  IsList(m, PushLinks(links, l, o), q)
<1>1. \A k \in 1..Len(q) : q[k] \in Slot
  BY QueueTypes DEF IsList
<1>2. \A k \in 1..Len(q) :
         /\ PushLinks(links, l, o)[q[k]].prev = links[q[k]].prev
         /\ PushLinks(links, l, o)[q[k]].next = links[q[k]].next
  BY <1>1, PushLinksAt
<1>. QED  BY <1>2 DEF IsList

\* Taking position k out of a queue closes the gap and keeps the order.
LEMMA RemoveAtFacts ==
    ASSUME NEW S, NEW q \in Seq(S), NEW k \in DOMAIN q
    PROVE  /\ RemoveAt(q, k) \in Seq(S)
           /\ Len(RemoveAt(q, k)) = Len(q) - 1
           /\ \A j \in 1..(Len(q) - 1) :
                 RemoveAt(q, k)[j] = IF j < k THEN q[j] ELSE q[j + 1]
<1>0. k \in 1..Len(q) /\ Len(q) \in Nat /\ \A j \in 1..Len(q) : q[j] \in S
  BY LenProperties, ElementOfSeq
<1>1. /\ SubSeq(q, 1, k - 1) \in Seq(S)
      /\ Len(SubSeq(q, 1, k - 1)) = k - 1
      /\ \A j \in 1..(k - 1) : SubSeq(q, 1, k - 1)[j] = q[j]
  <2>1. \A j \in 1..(k - 1) : q[j] \in S
    BY <1>0
  <2>. QED  BY <1>0, <2>1, SubSeqProperties
<1>2. /\ SubSeq(q, k + 1, Len(q)) \in Seq(S)
      /\ Len(SubSeq(q, k + 1, Len(q))) = Len(q) - k
      /\ \A j \in 1..(Len(q) - k) : SubSeq(q, k + 1, Len(q))[j] = q[j + k]
  <2>1. \A j \in (k + 1)..Len(q) : q[j] \in S
    BY <1>0
  <2>. QED  BY <1>0, <2>1, SubSeqProperties
<1> DEFINE a == SubSeq(q, 1, k - 1)
           b == SubSeq(q, k + 1, Len(q))
           c == a \o b
<1>3. /\ c \in Seq(S)
      /\ Len(c) = Len(a) + Len(b)
      /\ \A j \in 1..(Len(a) + Len(b)) :
            c[j] = IF j <= Len(a) THEN a[j] ELSE b[j - Len(a)]
  BY <1>1, <1>2, ConcatProperties
<1>4. RemoveAt(q, k) = c
  BY DEF RemoveAt
<1>5. /\ Len(a) = k - 1 /\ \A j \in 1..(k - 1) : a[j] = q[j]
      /\ Len(b) = Len(q) - k /\ \A j \in 1..(Len(q) - k) : b[j] = q[j + k]
  BY <1>1, <1>2
<1> HIDE DEF a, b, c
<1>6. ASSUME NEW j \in 1..(Len(q) - 1)
      PROVE  c[j] = IF j < k THEN q[j] ELSE q[j + 1]
  <2>1. c[j] = IF j <= k - 1 THEN a[j] ELSE b[j - (k - 1)]
    <3>1. Len(a) + Len(b) = Len(q) - 1
      BY <1>0, <1>5
    <3>2. c[j] = IF j <= Len(a) THEN a[j] ELSE b[j - Len(a)]
      BY <1>3, <3>1
    <3>. QED  BY <1>5, <3>2
  <2>2. CASE j < k
    BY <1>0, <1>5, <2>1, <2>2
  <2>3. CASE ~(j < k)
    <3>1. j - (k - 1) \in 1..(Len(q) - k) /\ (j - (k - 1)) + k = j + 1
      BY <1>0, <2>3
    <3>2. c[j] = b[j - (k - 1)]
      BY <1>0, <2>1, <2>3
    <3>. QED  BY <1>5, <2>3, <3>1, <3>2
  <2>. QED  BY <2>2, <2>3
<1>7. Len(c) = Len(q) - 1
  BY <1>0, <1>3, <1>5
<1>. QED  BY <1>3, <1>4, <1>6, <1>7

\* unlink closes the gap, wherever in the list the order was.
LEMMA UnlinkedList ==
    ASSUME NEW links \in [Slot -> Link], NEW l, NEW m, NEW q, IsList(l, links, q),
           NEW i \in 1..Len(q), NEW o, o = q[i],
           m.head = IF links[o].prev = Null THEN links[o].next ELSE l.head,
           m.tail = IF links[o].next = Null THEN links[o].prev ELSE l.tail,
           m.count = l.count - 1
    PROVE  IsList(m, UnlinkLinks(links, o), RemoveAt(q, i))
<1> DEFINE n == Len(q)
           u == UnlinkLinks(links, o)
           r == RemoveAt(q, i)
<1>1. /\ n \in Nat /\ q \in Seq(Slot) /\ l.count = n /\ i \in 1..n /\ n # 0
      /\ \A k \in 1..n : q[k] \in Slot /\ q[k] # Null
      /\ \A j, k \in 1..n : q[j] = q[k] => j = k
      /\ l.head = IF n = 0 THEN Null ELSE q[1]
      /\ l.tail = IF n = 0 THEN Null ELSE q[n]
      /\ \A k \in 1..n :
            /\ links[q[k]].prev = IF k = 1 THEN Null ELSE q[k - 1]
            /\ links[q[k]].next = IF k = n THEN Null ELSE q[k + 1]
  BY QueueTypes DEF IsList
<1>2. /\ r \in Seq(Slot) /\ Len(r) = n - 1
      /\ \A j \in 1..(n - 1) : r[j] = IF j < i THEN q[j] ELSE q[j + 1]
  <2>1. i \in DOMAIN q
    BY QueueTypes DEF IsList
  <2>. QED  BY <1>1, <2>1, RemoveAtFacts
<1>3. \A s \in Slot : s # o =>
         /\ u[s].prev = IF s = links[o].next THEN links[o].prev ELSE links[s].prev
         /\ u[s].next = IF s = links[o].prev THEN links[o].next ELSE links[s].next
  BY <1>1, UnlinkLinksAt
<1>4. /\ links[o].prev = IF i = 1 THEN Null ELSE q[i - 1]
      /\ links[o].next = IF i = n THEN Null ELSE q[i + 1]
      /\ o \in Slot /\ o # Null
  BY <1>1
<1> HIDE DEF n, u, r
<1>5. /\ \A j \in 1..(n - 1) : j < i => j \in 1..n /\ r[j] = q[j]
      /\ \A j \in 1..(n - 1) : ~(j < i) => j + 1 \in 1..n /\ r[j] = q[j + 1]
  BY <1>1, <1>2
<1>6. ASSUME NEW j \in 1..(n - 1)
      PROVE  r[j] \in Slot /\ r[j] # o
  <2>0. j \in Nat /\ i \in Nat /\ o = q[i]
    BY <1>1
  <2>1. CASE j < i
    <3>1. j \in 1..n /\ r[j] = q[j] /\ j # i
      BY <1>5, <2>0, <2>1
    <3>. QED  BY <1>1, <2>0, <3>1
  <2>2. CASE ~(j < i)
    <3>1. j + 1 \in 1..n /\ r[j] = q[j + 1] /\ j + 1 # i
      BY <1>5, <2>0, <2>2
    <3>. QED  BY <1>1, <2>0, <3>1
  <2>. QED  BY <2>1, <2>2
<1>7. ASSUME NEW j \in 1..(n - 1), NEW k \in 1..(n - 1), r[j] = r[k]
      PROVE  j = k
  <2> DEFINE at(x) == IF x < i THEN x ELSE x + 1
  <2>0. i \in Nat /\ j \in Nat /\ k \in Nat
    BY <1>1
  <2>1. at(j) \in 1..n /\ r[j] = q[at(j)] /\ at(k) \in 1..n /\ r[k] = q[at(k)]
    BY <1>5
  <2>2. at(j) = at(k) => j = k
    BY <2>0
  <2> HIDE DEF at
  <2>. QED  BY <1>1, <1>7, <2>1, <2>2
<1>8. ASSUME NEW j \in 1..(n - 1)
      PROVE  u[r[j]].prev = IF j = 1 THEN Null ELSE r[j - 1]
  <2>1. CASE j = i
    <3>1. i # n /\ r[j] = q[i + 1]
      BY <1>1, <1>5, <2>1
    <3>2. u[r[j]].prev = links[o].prev
      BY <1>3, <1>4, <1>6, <3>1
    <3>3. CASE i = 1
      <4>1. u[r[j]].prev = Null
        BY <1>4, <3>2, <3>3
      <4>. QED  BY <2>1, <3>3, <4>1
    <3>4. CASE i # 1
      <4>1. j - 1 \in 1..(n - 1) /\ j - 1 < i
        <5>1. j \in Nat /\ n \in Nat /\ 1 <= j /\ j <= n - 1 /\ j # 1
          BY <1>1, <2>1, <3>4
        <5>. QED  BY <2>1, <5>1
      <4>. QED  BY <1>4, <1>5, <2>1, <3>2, <3>4, <4>1
    <3>. QED  BY <3>3, <3>4
  <2>2. CASE j < i
    <3>1. j \in 1..n /\ r[j] = q[j] /\ j # i + 1
      BY <1>1, <1>5, <2>2
    <3>2. r[j] # links[o].next
      <4>1. CASE i = n
        BY <1>1, <1>4, <3>1, <4>1
      <4>2. CASE i # n
        <5>1. i + 1 \in 1..n
          BY <1>1, <4>2
        <5>. QED  BY <1>1, <1>4, <3>1, <4>2, <5>1
      <4>. QED  BY <4>1, <4>2
    <3>3. u[r[j]].prev = links[q[j]].prev
      BY <1>3, <1>6, <3>1, <3>2
    <3>4. CASE j = 1
      BY <1>1, <3>1, <3>3, <3>4
    <3>5. CASE j # 1
      <4>1. j - 1 \in 1..(n - 1) /\ j - 1 < i
        BY <1>1, <2>2, <3>5
      <4>2. r[j - 1] = q[j - 1]
        BY <1>5, <4>1
      <4>. QED  BY <1>1, <3>1, <3>3, <3>5, <4>2
    <3>. QED  BY <3>4, <3>5
  <2>3. CASE j > i
    <3>1. j + 1 \in 1..n /\ r[j] = q[j + 1] /\ j + 1 # i + 1 /\ j # 1 /\ j + 1 # 1
      BY <1>1, <1>5, <2>3
    <3>2. r[j] # links[o].next
      <4>1. CASE i = n
        BY <1>1, <1>4, <3>1, <4>1
      <4>2. CASE i # n
        <5>1. i + 1 \in 1..n
          BY <1>1, <4>2
        <5>. QED  BY <1>1, <1>4, <3>1, <4>2, <5>1
      <4>. QED  BY <4>1, <4>2
    <3>3. u[r[j]].prev = links[q[j + 1]].prev
      BY <1>3, <1>6, <3>1, <3>2
    <3>4. links[q[j + 1]].prev = q[j]
      <4>1. links[q[j + 1]].prev = q[(j + 1) - 1] /\ (j + 1) - 1 = j
        BY <1>1, <3>1
      <4>. QED  BY <4>1
    <3>5. j - 1 \in 1..(n - 1) /\ ~(j - 1 < i) /\ (j - 1) + 1 = j
      BY <1>1, <2>3
    <3>6. r[j - 1] = q[j]
      BY <1>5, <3>5
    <3>. QED  BY <3>1, <3>3, <3>4, <3>6
  <2>. QED  BY <1>1, <2>1, <2>2, <2>3
<1>9. ASSUME NEW j \in 1..(n - 1)
      PROVE  u[r[j]].next = IF j = n - 1 THEN Null ELSE r[j + 1]
  <2>1. CASE j = i - 1
    <3>1. i # 1 /\ r[j] = q[i - 1] /\ j + 1 = i
      BY <1>1, <1>5, <2>1
    <3>2. u[r[j]].next = links[o].next
      BY <1>3, <1>4, <1>6, <3>1
    <3>3. CASE i = n
      BY <1>4, <2>1, <3>2, <3>3
    <3>4. CASE i # n
      <4>1. j + 1 \in 1..(n - 1) /\ ~(j + 1 < i) /\ j # n - 1
        BY <1>1, <2>1, <3>4
      <4>2. r[j + 1] = q[i + 1]
        BY <1>5, <3>1, <4>1
      <4>. QED  BY <1>4, <3>2, <3>4, <4>1, <4>2
    <3>. QED  BY <3>3, <3>4
  <2>2. CASE j < i - 1
    <3>1. j \in 1..n /\ r[j] = q[j] /\ j # i - 1 /\ j # n /\ j # n - 1
      BY <1>1, <1>5, <2>2
    <3>2. r[j] # links[o].prev
      <4>1. i - 1 \in 1..n /\ i # 1
        BY <1>1, <2>2
      <4>. QED  BY <1>1, <1>4, <3>1, <4>1
    <3>3. u[r[j]].next = links[q[j]].next
      BY <1>3, <1>6, <3>1, <3>2
    <3>4. j + 1 \in 1..(n - 1) /\ j + 1 < i
      BY <1>1, <2>2
    <3>5. r[j + 1] = q[j + 1]
      BY <1>5, <3>4
    <3>. QED  BY <1>1, <3>1, <3>3, <3>5
  <2>3. CASE j >= i
    <3>1. j + 1 \in 1..n /\ r[j] = q[j + 1] /\ j + 1 # i - 1
      BY <1>1, <1>5, <2>3
    <3>2. r[j] # links[o].prev
      <4>1. CASE i = 1
        BY <1>1, <1>4, <3>1, <4>1
      <4>2. CASE i # 1
        <5>1. i - 1 \in 1..n
          BY <1>1, <4>2
        <5>. QED  BY <1>1, <1>4, <3>1, <4>2, <5>1
      <4>. QED  BY <4>1, <4>2
    <3>3. u[r[j]].next = links[q[j + 1]].next
      BY <1>3, <1>6, <3>1, <3>2
    <3>4. CASE j = n - 1
      <4>1. j + 1 = n
        BY <1>1, <3>4
      <4>. QED  BY <1>1, <3>1, <3>3, <3>4, <4>1
    <3>5. CASE j # n - 1
      <4>1. j + 1 \in 1..(n - 1) /\ ~(j + 1 < i) /\ j + 1 # n
        BY <1>1, <2>3, <3>5
      <4>2. r[j + 1] = q[(j + 1) + 1]
        BY <1>5, <4>1
      <4>. QED  BY <1>1, <3>1, <3>3, <3>5, <4>1, <4>2
    <3>. QED  BY <3>4, <3>5
  <2>. QED  BY <1>1, <2>1, <2>2, <2>3
<1>10. m.count = n - 1
  BY <1>1
<1>11. m.head = IF n - 1 = 0 THEN Null ELSE r[1]
  <2>1. CASE i = 1
    <3>1. m.head = links[o].next
      BY <1>4, <2>1
    <3>2. CASE n = 1
      BY <1>4, <2>1, <3>1, <3>2
    <3>3. CASE n # 1
      <4>1. 1 \in 1..(n - 1) /\ ~(1 < i)
        BY <1>1, <2>1, <3>3
      <4>. QED  BY <1>1, <1>4, <1>5, <2>1, <3>1, <3>3, <4>1
    <3>. QED  BY <3>2, <3>3
  <2>2. CASE i # 1
    <3>1. 1 \in 1..(n - 1) /\ 1 < i /\ n - 1 # 0 /\ i - 1 \in 1..n
      BY <1>1, <2>2
    <3>2. links[o].prev # Null
      BY <1>1, <1>4, <2>2, <3>1
    <3>. QED  BY <1>1, <1>5, <3>1, <3>2
  <2>. QED  BY <2>1, <2>2
<1>12. m.tail = IF n - 1 = 0 THEN Null ELSE r[n - 1]
  <2>1. CASE i = n
    <3>1. m.tail = links[o].prev
      BY <1>4, <2>1
    <3>2. CASE n = 1
      BY <1>4, <2>1, <3>1, <3>2
    <3>3. CASE n # 1
      <4>1. n - 1 \in 1..(n - 1) /\ n - 1 < i /\ i # 1 /\ n - 1 # 0
        BY <1>1, <2>1, <3>3
      <4>. QED  BY <1>4, <1>5, <2>1, <3>1, <4>1
    <3>. QED  BY <3>2, <3>3
  <2>2. CASE i # n
    <3>1. n - 1 \in 1..(n - 1) /\ ~(n - 1 < i) /\ n - 1 # 0 /\ (n - 1) + 1 = n /\ i + 1 \in 1..n
      BY <1>1, <2>2
    <3>2. links[o].next # Null
      BY <1>1, <1>4, <2>2, <3>1
    <3>. QED  BY <1>1, <1>5, <3>1, <3>2
  <2>. QED  BY <2>1, <2>2
<1>. QED  BY <1>2, <1>7, <1>8, <1>9, <1>10, <1>11, <1>12 DEF IsList, u, r

\* A list the order is not in is left alone, as its neighbours are in none but its own.
LEMMA UnlinkElsewhere ==
    ASSUME NEW links \in [Slot -> Link], NEW o \in Slot, NEW m, NEW q, IsList(m, links, q),
           \A k \in 1..Len(q) : q[k] # o /\ q[k] # links[o].prev /\ q[k] # links[o].next
    PROVE  IsList(m, UnlinkLinks(links, o), q)
<1>1. \A k \in 1..Len(q) : q[k] \in Slot
  BY QueueTypes DEF IsList
<1>2. \A k \in 1..Len(q) :
         /\ UnlinkLinks(links, o)[q[k]].prev = links[q[k]].prev
         /\ UnlinkLinks(links, o)[q[k]].next = links[q[k]].next
  BY <1>1, UnlinkLinksAt
<1>. QED  BY <1>2 DEF IsList


-----------------------------------------------------------------------------
(* A book's lists: one for each side and price, no two with an order in     *)
(* common.                                                                  *)

\* The levels lv and the pointers in the orders spell the queues Q.
Holds(lv, links, Q) ==
    /\ links \in [Slot -> Link]
    /\ Q \in [Side -> [Price -> Seq(Slot)]]
    /\ \A s \in Side, p \in Price : IsList(lv[s][p], links, Q[s][p])
    /\ \A s, t \in Side, p, q \in Price :
          \A j \in 1..Len(Q[s][p]), k \in 1..Len(Q[t][q]) :
             Q[s][p][j] = Q[t][q][k] => s = t /\ p = q

\* One entry of a table is replaced.
LEMMA OneCell ==
    ASSUME NEW A, NEW B, NEW C, NEW Q \in [A -> [B -> C]], NEW s \in A, NEW p \in B,
           NEW w \in C
    PROVE  /\ [Q EXCEPT ![s][p] = w] \in [A -> [B -> C]]
           /\ [Q EXCEPT ![s][p] = w][s][p] = w
           /\ \A t \in A, q \in B : ~(t = s /\ q = p) =>
                 [Q EXCEPT ![s][p] = w][t][q] = Q[t][q]
<1>1. \A t \in A : Q[t] \in [B -> C]
  OBVIOUS
<1>2. [Q EXCEPT ![s][p] = w] = [Q EXCEPT ![s] = [Q[s] EXCEPT ![p] = w]]
  OBVIOUS
<1> DEFINE f == [Q[s] EXCEPT ![p] = w]
<1>3. f \in [B -> C] /\ f[p] = w /\ \A q \in B : q # p => f[q] = Q[s][q]
  BY <1>1
<1> HIDE DEF f
<1>4. /\ [Q EXCEPT ![s] = f] \in [A -> [B -> C]]
      /\ [Q EXCEPT ![s] = f][s] = f
      /\ \A t \in A : t # s => [Q EXCEPT ![s] = f][t] = Q[t]
  BY <1>3
<1>5. [Q EXCEPT ![s][p] = w] = [Q EXCEPT ![s] = f]
  BY <1>2 DEF f
<1> DEFINE R == [Q EXCEPT ![s][p] = w]
<1>6. R \in [A -> [B -> C]] /\ R[s] = f /\ \A t \in A : t # s => R[t] = Q[t]
  BY <1>4, <1>5
<1> HIDE DEF R
<1>7. R[s][p] = w /\ \A t \in A, q \in B : ~(t = s /\ q = p) => R[t][q] = Q[t][q]
  BY <1>3, <1>6
<1>. QED  BY <1>6, <1>7 DEF R

\* The level of s and p after o is pushed on it; the others' queues are as they were.
PushedAt(lv, mv, s, p, o) ==
    /\ mv[s][p].head = IF lv[s][p].tail = Null THEN o ELSE lv[s][p].head
    /\ mv[s][p].tail = o /\ mv[s][p].count = lv[s][p].count + 1
    /\ \A t \in Side, q \in Price : ~(t = s /\ q = p) =>
          /\ mv[t][q].head = lv[t][q].head
          /\ mv[t][q].tail = lv[t][q].tail
          /\ mv[t][q].count = lv[t][q].count

\* The queues with o at the end of that of s and p.
Behind(Q, s, p, o) == [Q EXCEPT ![s][p] = Append(Q[s][p], o)]

\* push_back of an order that is in no list.
LEMMA HoldsPush ==
    ASSUME NEW lv, NEW mv, NEW links, NEW Q, Holds(lv, links, Q),
           NEW s \in Side, NEW p \in Price, NEW o \in Slot,
           \A t \in Side, q \in Price : \A k \in 1..Len(Q[t][q]) : Q[t][q][k] # o,
           PushedAt(lv, mv, s, p, o)
    PROVE  Holds(mv, PushLinks(links, lv[s][p], o), Behind(Q, s, p, o))
<1> USE DEF PushedAt, Behind
<1> DEFINE l == lv[s][p]
           w == Append(Q[s][p], o)
           R == [Q EXCEPT ![s][p] = w]
           u == PushLinks(links, l, o)
<1>1. /\ links \in [Slot -> Link]
      /\ Q \in [Side -> [Price -> Seq(Slot)]]
      /\ \A t \in Side, q \in Price : IsList(lv[t][q], links, Q[t][q])
      /\ \A t, v \in Side, q, r \in Price :
            \A j \in 1..Len(Q[t][q]), k \in 1..Len(Q[v][r]) :
               Q[t][q][j] = Q[v][r][k] => t = v /\ q = r
  BY DEF Holds
<1>2. \A t \in Side, q \in Price : Q[t][q] \in Seq(Slot) /\ Len(Q[t][q]) \in Nat
  BY <1>1, LenProperties
<1>3. w \in Seq(Slot) /\ Len(w) = Len(Q[s][p]) + 1 /\ w[Len(Q[s][p]) + 1] = o
      /\ \A k \in 1..Len(Q[s][p]) : w[k] = Q[s][p][k]
  BY <1>2, AppendProperties
<1> HIDE DEF w
<1>4. /\ R \in [Side -> [Price -> Seq(Slot)]] /\ R[s][p] = w
      /\ \A t \in Side, q \in Price : ~(t = s /\ q = p) => R[t][q] = Q[t][q]
  BY <1>1, <1>3, OneCell
<1>5. IsList(l, links, Q[s][p])
  BY <1>1
<1>6. \/ l.tail = Null
      \/ Len(Q[s][p]) \in 1..Len(Q[s][p]) /\ l.tail = Q[s][p][Len(Q[s][p])] /\ l.tail \in Slot
  <2>1. l.tail = IF Len(Q[s][p]) = 0 THEN Null ELSE Q[s][p][Len(Q[s][p])]
    BY <1>5 DEF IsList
  <2>2. CASE Len(Q[s][p]) = 0
    BY <2>1, <2>2
  <2>3. CASE Len(Q[s][p]) # 0
    <3>1. Len(Q[s][p]) \in 1..Len(Q[s][p])
      BY <1>2, <2>3
    <3>. QED  BY <1>2, <2>1, <2>3, <3>1, QueueTypes
  <2>. QED  BY <2>2, <2>3
<1>7. l.tail # o /\ l.tail \in Slot \cup {Null}
  BY <1>6, SlotAssumption
<1>8. u \in [Slot -> Link]
  BY <1>1, <1>7, PushLinksAt
<1>9. IsList(mv[s][p], u, w)
  BY <1>1, <1>5, PushedList DEF w
<1>10. ASSUME NEW t \in Side, NEW q \in Price, ~(t = s /\ q = p)
       PROVE  IsList(mv[t][q], u, Q[t][q])
  <2>1. IsList(mv[t][q], links, Q[t][q])
    BY <1>1, <1>10, SameList
  <2>2. \A k \in 1..Len(Q[t][q]) : Q[t][q][k] # o /\ Q[t][q][k] # l.tail
    <3> SUFFICES ASSUME NEW k \in 1..Len(Q[t][q]) PROVE Q[t][q][k] # o /\ Q[t][q][k] # l.tail
      OBVIOUS
    <3>1. Q[t][q][k] \in Slot
      BY <1>2, QueueTypes
    <3>2. Q[t][q][k] # l.tail
      BY <1>1, <1>6, <1>10, <3>1, SlotAssumption
    <3>. QED  BY <3>2
  <2>. QED  BY <1>1, <1>7, <2>1, <2>2, PushElsewhere
<1> HIDE DEF R, u, l
<1>11. \A t \in Side, q \in Price : IsList(mv[t][q], u, R[t][q])
  BY <1>4, <1>9, <1>10
<1>12. \A t \in Side, q \in Price : \A k \in 1..Len(R[t][q]) :
          \/ k \in 1..Len(Q[t][q]) /\ R[t][q][k] = Q[t][q][k]
          \/ R[t][q][k] = o /\ t = s /\ q = p
  <2> SUFFICES ASSUME NEW t \in Side, NEW q \in Price, NEW k \in 1..Len(R[t][q])
               PROVE  \/ k \in 1..Len(Q[t][q]) /\ R[t][q][k] = Q[t][q][k]
                      \/ R[t][q][k] = o /\ t = s /\ q = p
    OBVIOUS
  <2>1. CASE t = s /\ q = p
    <3>1. R[t][q] = w
      BY <1>4, <2>1
    <3>2. k \in 1..(Len(Q[s][p]) + 1)
      BY <1>3, <3>1
    <3>3. k \in 1..Len(Q[s][p]) \/ k = Len(Q[s][p]) + 1
      BY <1>2, <3>2
    <3>. QED  BY <1>3, <2>1, <3>1, <3>3
  <2>2. CASE ~(t = s /\ q = p)
    BY <1>4, <2>2
  <2>. QED  BY <2>1, <2>2
<1>13. \A t, v \in Side, q, r \in Price :
          \A j \in 1..Len(R[t][q]), k \in 1..Len(R[v][r]) :
             R[t][q][j] = R[v][r][k] => t = v /\ q = r
  <2> SUFFICES ASSUME NEW t \in Side, NEW v \in Side, NEW q \in Price, NEW r \in Price,
                      NEW j \in 1..Len(R[t][q]), NEW k \in 1..Len(R[v][r]),
                      R[t][q][j] = R[v][r][k]
               PROVE  t = v /\ q = r
    OBVIOUS
  <2>1. \/ j \in 1..Len(Q[t][q]) /\ R[t][q][j] = Q[t][q][j]
        \/ R[t][q][j] = o /\ t = s /\ q = p
    BY <1>12
  <2>2. \/ k \in 1..Len(Q[v][r]) /\ R[v][r][k] = Q[v][r][k]
        \/ R[v][r][k] = o /\ v = s /\ r = p
    BY <1>12
  <2>3. CASE R[t][q][j] = o
    BY <2>1, <2>2, <2>3
  <2>4. CASE R[t][q][j] # o
    BY <1>1, <2>1, <2>2, <2>4
  <2>. QED  BY <2>3, <2>4
<1>. QED  BY <1>4, <1>8, <1>11, <1>13 DEF Holds, R, u, l, w

\* The levels mv after an unlink of o from one of the levels lv.
Unhooked(lv, mv, links, o, s, p) ==
    /\ mv[s][p].head = IF links[o].prev = Null THEN links[o].next ELSE lv[s][p].head
    /\ mv[s][p].tail = IF links[o].next = Null THEN links[o].prev ELSE lv[s][p].tail
    /\ mv[s][p].count = lv[s][p].count - 1
    /\ \A t \in Side, q \in Price : ~(t = s /\ q = p) =>
          /\ mv[t][q].head = lv[t][q].head
          /\ mv[t][q].tail = lv[t][q].tail
          /\ mv[t][q].count = lv[t][q].count

\* unlink of the order at position i of the queue of side s and price p.
LEMMA HoldsUnlink ==
    ASSUME NEW lv, NEW mv, NEW links, NEW Q, Holds(lv, links, Q),
           NEW s \in Side, NEW p \in Price, NEW i \in 1..Len(Q[s][p]),
           NEW o, o = Q[s][p][i], Unhooked(lv, mv, links, o, s, p)
    PROVE  Holds(mv, UnlinkLinks(links, o), [Q EXCEPT ![s][p] = RemoveAt(Q[s][p], i)])
<1> DEFINE l == lv[s][p]
           h == Q[s][p]
           w == RemoveAt(h, i)
           R == [Q EXCEPT ![s][p] = w]
           u == UnlinkLinks(links, o)
<1>1. /\ links \in [Slot -> Link]
      /\ Q \in [Side -> [Price -> Seq(Slot)]]
      /\ \A t \in Side, q \in Price : IsList(lv[t][q], links, Q[t][q])
      /\ \A t, v \in Side, q, r \in Price :
            \A j \in 1..Len(Q[t][q]), k \in 1..Len(Q[v][r]) :
               Q[t][q][j] = Q[v][r][k] => t = v /\ q = r
  BY DEF Holds
<1>0. \A t, v \in Side, q, r \in Price :
         \A j \in 1..Len(Q[t][q]), k \in 1..Len(Q[v][r]) :
            Q[t][q][j] = Q[v][r][k] => t = v /\ q = r
  BY <1>1
<1>2. \A t \in Side, q \in Price : Q[t][q] \in Seq(Slot) /\ Len(Q[t][q]) \in Nat
  BY <1>1, LenProperties
<1>3. IsList(l, links, h)
  BY <1>1
<1>4. h \in Seq(Slot) /\ Len(h) \in Nat /\ DOMAIN h = 1..Len(h) /\ i \in 1..Len(h)
      /\ \A k \in 1..Len(h) : h[k] \in Slot /\ h[k] # Null
  BY <1>2, QueueTypes
<1>5. /\ w \in Seq(Slot) /\ Len(w) = Len(h) - 1
      /\ \A j \in 1..(Len(h) - 1) : w[j] = IF j < i THEN h[j] ELSE h[j + 1]
  BY <1>4, RemoveAtFacts
<1>6. /\ links[o].prev = IF i = 1 THEN Null ELSE h[i - 1]
      /\ links[o].next = IF i = Len(h) THEN Null ELSE h[i + 1]
      /\ o \in Slot
  BY <1>3, <1>4 DEF IsList
<1>7. \A a \in {links[o].prev, links[o].next} : a = Null \/ \E j \in 1..Len(h) : a = h[j]
  <2>1. i # 1 => i - 1 \in 1..Len(h)
    BY <1>4
  <2>2. i # Len(h) => i + 1 \in 1..Len(h)
    BY <1>4
  <2>. QED  BY <1>6, <2>1, <2>2
<1> HIDE DEF w
<1>8. /\ R \in [Side -> [Price -> Seq(Slot)]] /\ R[s][p] = w
      /\ \A t \in Side, q \in Price : ~(t = s /\ q = p) => R[t][q] = Q[t][q]
  BY <1>1, <1>5, OneCell
<1>9. u \in [Slot -> Link]
  BY <1>1, <1>6, UnlinkLinksAt
<1>10. IsList(mv[s][p], u, w)
  BY <1>1, <1>3, UnlinkedList DEF w, Unhooked
<1>11. ASSUME NEW t \in Side, NEW q \in Price, ~(t = s /\ q = p)
       PROVE  IsList(mv[t][q], u, Q[t][q])
  <2>1. IsList(mv[t][q], links, Q[t][q])
    BY <1>1, <1>11, SameList DEF Unhooked
  <2>2. ASSUME NEW k \in 1..Len(Q[t][q])
        PROVE  Q[t][q][k] # o /\ Q[t][q][k] # links[o].prev /\ Q[t][q][k] # links[o].next
    <3>1. Q[t][q][k] \in Slot /\ Q[t][q][k] # Null
      BY <1>2, QueueTypes
    <3>2. \A j \in 1..Len(h) : Q[t][q][k] # h[j]
      BY <1>1, <1>11
    <3>. QED  BY <1>4, <1>7, <3>1, <3>2
  <2>. QED  BY <1>1, <1>6, <2>1, <2>2, UnlinkElsewhere
<1> HIDE DEF R, u, l
<1>12. \A t \in Side, q \in Price : IsList(mv[t][q], u, R[t][q])
  BY <1>8, <1>10, <1>11
<1>13. \A t \in Side, q \in Price : \A k \in 1..Len(R[t][q]) :
          \E j \in 1..Len(Q[t][q]) : R[t][q][k] = Q[t][q][j]
  <2> SUFFICES ASSUME NEW t \in Side, NEW q \in Price, NEW k \in 1..Len(R[t][q])
               PROVE  \E j \in 1..Len(Q[t][q]) : R[t][q][k] = Q[t][q][j]
    OBVIOUS
  <2>1. CASE t = s /\ q = p
    <3>1. R[t][q] = w /\ Q[t][q] = h
      BY <1>8, <2>1
    <3> HIDE DEF h
    <3>2. k \in 1..(Len(h) - 1)
      BY <1>5, <3>1
    <3>3. w[k] = IF k < i THEN h[k] ELSE h[k + 1]
      BY <1>5, <3>2
    <3>4. k \in 1..Len(h) /\ k + 1 \in 1..Len(h)
      BY <1>4, <3>2
    <3>5. \E j \in 1..Len(h) : w[k] = h[j]
      BY <3>3, <3>4
    <3>. QED  BY <3>1, <3>5
  <2>2. CASE ~(t = s /\ q = p)
    BY <1>8, <2>2
  <2>. QED  BY <2>1, <2>2
<1>14. \A t, v \in Side, q, r \in Price :
          \A j \in 1..Len(R[t][q]), k \in 1..Len(R[v][r]) :
             R[t][q][j] = R[v][r][k] => t = v /\ q = r
  <2> SUFFICES ASSUME NEW t \in Side, NEW v \in Side, NEW q \in Price, NEW r \in Price,
                      NEW j \in 1..Len(R[t][q]), NEW k \in 1..Len(R[v][r]),
                      R[t][q][j] = R[v][r][k]
               PROVE  t = v /\ q = r
    OBVIOUS
  <2>1. PICK a \in 1..Len(Q[t][q]) : R[t][q][j] = Q[t][q][a]
    BY <1>13
  <2>2. PICK b \in 1..Len(Q[v][r]) : R[v][r][k] = Q[v][r][b]
    BY <1>13
  <2>3. Q[t][q][a] = Q[v][r][b]
    BY <2>1, <2>2
  <2>. QED  BY <1>0, <2>3
<1>. QED  BY <1>8, <1>9, <1>12, <1>14 DEF Holds, R, u, w

\* A change of prices and totals leaves the lists as they were.
LEMMA HoldsSame ==
    ASSUME NEW lv, NEW mv, NEW links, NEW Q, Holds(lv, links, Q),
           \A t \in Side, q \in Price :
              /\ mv[t][q].head = lv[t][q].head
              /\ mv[t][q].tail = lv[t][q].tail
              /\ mv[t][q].count = lv[t][q].count
    PROVE  Holds(mv, links, Q)
<1>1. \A t \in Side, q \in Price : IsList(mv[t][q], links, Q[t][q])
  BY SameList DEF Holds
<1>. QED  BY <1>1 DEF Holds

-----------------------------------------------------------------------------
(* The three books use one list.                                            *)

\* An INSTANCE renames what it brings in; nothing else is different.
LEMMA SameBitset ==
    /\ Bitset!Side = Side /\ Bitset!Price = Price
    /\ Bitset!EmptyLevel = EmptyLevel /\ Bitset!Unlinked = Unlinked
    /\ \A l : Bitset!IsEmpty(l) <=> IsEmpty(l)
    /\ \A l, o, q : Bitset!Pushed(l, o, q) = Pushed(l, o, q)
    /\ \A links, l, o : Bitset!PushLinks(links, l, o) = PushLinks(links, l, o)
    /\ \A l, links, o, q : Bitset!UnlinkedFrom(l, links, o, q) = UnlinkedFrom(l, links, o, q)
    /\ \A links, o : Bitset!UnlinkLinks(links, o) = UnlinkLinks(links, o)
<1>0. Bitset!Side = Side /\ Bitset!Price = Price
  BY DEF Bitset!Side, Side, Bitset!Price, Price
<1>1. Bitset!EmptyLevel = EmptyLevel /\ Bitset!Unlinked = Unlinked
  BY DEF Bitset!EmptyLevel, EmptyLevel, Bitset!Unlinked, Unlinked
<1>2. \A l : Bitset!IsEmpty(l) <=> IsEmpty(l)
  BY DEF Bitset!IsEmpty, IsEmpty
<1>3. \A l, o, q : Bitset!Pushed(l, o, q) = Pushed(l, o, q)
  BY DEF Bitset!Pushed, Pushed
<1>4. \A links, l, o : Bitset!PushLinks(links, l, o) = PushLinks(links, l, o)
  BY DEF Bitset!PushLinks, PushLinks
<1>5. \A l, links, o, q : Bitset!UnlinkedFrom(l, links, o, q) = UnlinkedFrom(l, links, o, q)
  BY DEF Bitset!UnlinkedFrom, UnlinkedFrom
<1>6. \A links, o : Bitset!UnlinkLinks(links, o) = UnlinkLinks(links, o)
  BY DEF Bitset!UnlinkLinks, UnlinkLinks, Bitset!Unlinked, Unlinked
<1>. QED  BY <1>0, <1>1, <1>2, <1>3, <1>4, <1>5, <1>6

\* So do the walks over a list.
LEMMA SameBitChains ==
    \A l, links : Bitset!Chain(l, links) = Chain(l, links)
  BY Zenon DEF Bitset!Chain, Chain

-----------------------------------------------------------------------------
(* The slots: a free one is on the stack once, another holds an order.      *)

Holding == [side : Side, price : Int, remaining : Nat]
Idle(o) == \E k \in 1..Len(free) : free[k] = o

SlotsInv ==
    /\ free \in Seq(Slot)
    /\ \A j, k \in 1..Len(free) : free[j] = free[k] => j = k
    /\ order \in [Slot -> Holding]
    /\ \A o \in Slot : ~Idle(o) => order[o].price \in Price /\ order[o].remaining # 0

\* A resting order is one whose slot is not free.
LEMMA RestingMeans ==
    ASSUME free \in Seq(Slot), NEW o \in Slot
    PROVE  o \in Resting <=> ~Idle(o)
<1>1. DOMAIN free = 1..Len(free)
  BY LenProperties
<1>. QED  BY <1>1 DEF Resting, ToSet, Idle

\* Storage has every slot once.
LEMMA StorageFacts ==
    /\ Storage \in Seq(Slot) /\ Len(Storage) \in Nat /\ DOMAIN Storage = 1..Len(Storage)
    /\ \A j, k \in 1..Len(Storage) : Storage[j] = Storage[k] => j = k
    /\ \A o \in Slot : \E k \in 1..Len(Storage) : Storage[k] = o
<1>1. Storage \in Seq(Slot) /\ Slot = ToSet(Storage) /\ IsInjective(Storage)
  BY StorageAssumption
<1>2. DOMAIN Storage = 1..Len(Storage) /\ Len(Storage) \in Nat
  BY <1>1, LenProperties
<1>3. \A j, k \in DOMAIN Storage : Storage[j] = Storage[k] => j = k
  BY <1>1 DEF IsInjective
<1>. QED  BY <1>1, <1>2, <1>3 DEF ToSet

\* All slots are free at the start.
LEMMA SlotsInit ==
    ASSUME Init
    PROVE  SlotsInv /\ \A o \in Slot : Idle(o)
<1> DEFINE n == Len(Storage)
<1>1. free = [i \in 1..n |-> Storage[(n - i) + 1]]
  BY DEF Init, Slots!Init, Slots!Reverse
<1>2. \A i \in 1..n : free[i] = Storage[(n - i) + 1] /\ (n - i) + 1 \in 1..n
  BY <1>1, StorageFacts
<1>3. \A i \in 1..n : Storage[i] \in Slot
  BY StorageFacts, ElementOfSeq
<1>4. free \in Seq(Slot) /\ Len(free) = n
  <2>1. n \in Nat /\ \A i \in 1..n : Storage[(n - i) + 1] \in Slot
    BY <1>2, <1>3, StorageFacts
  <2>2. free \in [1..n -> Slot]
    BY <1>1, <2>1
  <2>3. free \in Seq(Slot)
    BY <2>1, <2>2, IsASeq
  <2>. QED  BY <2>1, <2>2, <2>3, LenProperties
<1>5. n \in Nat
  BY StorageFacts
<1> HIDE DEF n
<1>6. \A j, k \in 1..n : free[j] = free[k] => j = k
  <2> SUFFICES ASSUME NEW j \in 1..n, NEW k \in 1..n, free[j] = free[k] PROVE j = k
    OBVIOUS
  <2>0. \A x, y \in 1..n : Storage[x] = Storage[y] => x = y
    BY StorageFacts DEF n
  <2>1. (n - j) + 1 = (n - k) + 1
    BY <1>2, <2>0
  <2>. QED  BY <1>5, <2>1
<1>7. ASSUME NEW o \in Slot PROVE Idle(o)
  <2>1. PICK k \in 1..n : Storage[k] = o
    BY StorageFacts DEF n
  <2>2. (n - k) + 1 \in 1..n /\ (n - ((n - k) + 1)) + 1 = k
    BY <1>5
  <2>3. free[(n - k) + 1] = o
    BY <1>2, <2>1, <2>2
  <2>. QED  BY <1>4, <2>2, <2>3 DEF Idle
<1>8. order \in [Slot -> Holding]
  <2>1. Blank \in Holding
    BY DEF Blank, Holding, Side
  <2>. QED  BY <2>1 DEF Init
<1>. QED  BY <1>4, <1>6, <1>7, <1>8 DEF SlotsInv

\* What an offered order is.
LEMMA OfferTypes ==
    ASSUME NEW r \in Offers
    PROVE  /\ r.side \in Side /\ r.price \in Price /\ r.remaining \in Nat \ {0}
           /\ r.price \in Int /\ r \in Holding
<1>1. r \in [side : Side, price : Price, remaining : Nat \ {0}]
  BY StorageAssumption
<1>2. Price \subseteq Int
  BY PriceAssumption DEF Price
<1>. QED  BY <1>1, <1>2 DEF Holding

\* Acquiring takes the last free slot, and no other.
LEMMA SlotTaken ==
    ASSUME SlotsInv, NEW o \in Slot, NEW r \in Offers, Rest(o, r)
    PROVE  /\ SlotsInv'
           /\ Idle(o)
           /\ \A x \in Slot : Idle(x)' <=> Idle(x) /\ x # o
           /\ order'[o] = r /\ \A x \in Slot : x # o => order'[x] = order[x]
<1> DEFINE n == Len(free)
<1>1. free \in Seq(Slot) /\ n \in Nat /\ DOMAIN free = 1..n /\ \A k \in 1..n : free[k] \in Slot
  BY LenProperties, ElementOfSeq DEF SlotsInv
<1>2. free # <<>> /\ o = free[n] /\ free' = SubSeq(free, 1, n - 1)
  BY DEF Rest, Slots!Acquire, Slots!Last, Slots!Front
<1>3. n # 0
  BY <1>1, <1>2, EmptySeq
<1>4. /\ free' \in Seq(Slot) /\ Len(free') = n - 1
      /\ \A k \in 1..(n - 1) : free'[k] = free[k]
  <2>1. n - 1 \in Int /\ 1 \in Int /\ \A k \in 1..(n - 1) : free[k] \in Slot
    BY <1>1
  <2>2. /\ free' \in Seq(Slot) /\ Len(free') = IF 1 <= n - 1 THEN (n - 1) - 1 + 1 ELSE 0
        /\ \A k \in 1..((n - 1) - 1 + 1) : free'[k] = free[1 + k - 1]
    BY <1>2, <2>1, SubSeqProperties
  <2>3. (IF 1 <= n - 1 THEN (n - 1) - 1 + 1 ELSE 0) = n - 1 /\ (n - 1) - 1 + 1 = n - 1
        /\ \A k \in 1..(n - 1) : 1 + k - 1 = k
    BY <1>1, <1>3
  <2>. QED  BY <2>2, <2>3
<1>5. \A j, k \in 1..n : free[j] = free[k] => j = k
  BY DEF SlotsInv
<1>6. order \in [Slot -> Holding] /\ order' = [order EXCEPT ![o] = r] /\ r \in Holding
  BY OfferTypes DEF SlotsInv, Rest
<1>7. n \in Nat /\ n \in 1..n /\ \A k \in 1..(n - 1) : k \in 1..n /\ k # n
  <2>1. n \in Nat /\ n # 0
    BY <1>1, <1>3
  <2> HIDE DEF n
  <2>. QED  BY <2>1
<1>8. Idle(o)
  BY <1>2, <1>7 DEF Idle
<1> DEFINE g == free'
<1>9. \A x \in Slot : Idle(x)' <=> \E k \in 1..Len(g) : g[k] = x
  BY DEF Idle
<1>10. g \in Seq(Slot) /\ Len(g) = n - 1 /\ \A k \in 1..(n - 1) : g[k] = free[k]
  BY <1>4
<1> HIDE DEF g
<1>11. ASSUME NEW x \in Slot PROVE Idle(x)' <=> Idle(x) /\ x # o
  <2>1. ASSUME NEW k \in 1..n, free[k] = x, x # o PROVE \E j \in 1..(n - 1) : free[j] = x
    <3>1. k # n
      BY <1>2, <2>1
    <3>2. k \in 1..(n - 1)
      <4>1. n \in Nat /\ k \in 1..n
        BY <1>7
      <4> HIDE DEF n
      <4>. QED  BY <3>1, <4>1
    <3>. QED  BY <2>1, <3>2
  <2>2. ASSUME NEW k \in 1..(n - 1), free[k] = x PROVE k \in 1..n /\ x # o
    BY <1>2, <1>5, <1>7, <2>2
  <2>. QED  BY <1>9, <1>10, <2>1, <2>2 DEF Idle
<1>12. order'[o] = r /\ \A x \in Slot : x # o => order'[x] = order[x]
  BY <1>6
<1>13. order' \in [Slot -> Holding]
  BY <1>6
<1>14. \A j, k \in 1..Len(g) : g[j] = g[k] => j = k
  BY <1>5, <1>7, <1>10
<1>15. ASSUME NEW x \in Slot, ~Idle(x)'
       PROVE  order'[x].price \in Price /\ order'[x].remaining # 0
  <2>1. CASE x = o
    BY <1>12, <2>1, OfferTypes
  <2>2. CASE x # o
    BY <1>11, <1>12, <1>15, <2>2 DEF SlotsInv
  <2>. QED  BY <2>1, <2>2
<1>16. SlotsInv'
  BY <1>10, <1>13, <1>14, <1>15 DEF SlotsInv, g
<1>. QED  BY <1>8, <1>11, <1>12, <1>16

\* Releasing frees the slot, and no other.
LEMMA SlotGiven ==
    ASSUME SlotsInv, NEW o \in Slot, Leave(o)
    PROVE  /\ SlotsInv'
           /\ ~Idle(o)
           /\ \A x \in Slot : Idle(x)' <=> Idle(x) \/ x = o
           /\ order'[o] = Blank /\ \A x \in Slot : x # o => order'[x] = order[x]
<1> DEFINE n == Len(free)
<1>1. free \in Seq(Slot) /\ n \in Nat /\ \A k \in 1..n : free[k] \in Slot
  BY LenProperties, ElementOfSeq DEF SlotsInv
<1>2. free' = Append(free, o)
  BY DEF Leave, Slots!Release
<1>3. ~Idle(o)
  BY <1>1, RestingMeans DEF Leave
<1> DEFINE g == free'
<1>4. /\ g \in Seq(Slot) /\ Len(g) = n + 1 /\ g[n + 1] = o
      /\ \A k \in 1..n : g[k] = free[k]
  BY <1>1, <1>2, AppendProperties
<1>5. \A j, k \in 1..n : free[j] = free[k] => j = k
  BY DEF SlotsInv
<1>6. order \in [Slot -> Holding] /\ order' = [order EXCEPT ![o] = Blank]
  BY DEF SlotsInv, Leave
<1>7. \A k \in 1..(n + 1) : k \in 1..n \/ k = n + 1
  BY <1>1
<1>8. n + 1 \in 1..(n + 1) /\ \A k \in 1..n : k \in 1..(n + 1)
  BY <1>1
<1>9. \A x \in Slot : Idle(x)' <=> \E k \in 1..Len(g) : g[k] = x
  BY DEF Idle
<1> HIDE DEF g
<1>10. \A k \in 1..n : free[k] # o
  BY <1>3 DEF Idle
<1>11. ASSUME NEW x \in Slot PROVE Idle(x)' <=> Idle(x) \/ x = o
  <2>1. Idle(x)' <=> \E k \in 1..(n + 1) : g[k] = x
    BY <1>4, <1>9
  <2>2. Idle(x) <=> \E k \in 1..n : free[k] = x
    BY DEF Idle
  <2>3. ASSUME NEW k \in 1..(n + 1), g[k] = x PROVE (\E j \in 1..n : free[j] = x) \/ x = o
    BY <1>4, <1>7, <2>3
  <2>4. ASSUME NEW k \in 1..n, free[k] = x PROVE \E j \in 1..(n + 1) : g[j] = x
    BY <1>4, <1>8, <2>4
  <2>5. x = o => \E j \in 1..(n + 1) : g[j] = x
    BY <1>4, <1>8
  <2>. QED  BY <2>1, <2>2, <2>3, <2>4, <2>5
<1>12. Blank \in Holding
  BY DEF Blank, Holding, Side
<1>13. order' \in [Slot -> Holding] /\ order'[o] = Blank
       /\ \A x \in Slot : x # o => order'[x] = order[x]
  BY <1>6, <1>12
<1>14. \A j, k \in 1..(n + 1) : g[j] = g[k] => j = k
  BY <1>4, <1>5, <1>7, <1>10
<1>15. \A x \in Slot : ~Idle(x)' => order'[x].price \in Price /\ order'[x].remaining # 0
  BY <1>11, <1>13 DEF SlotsInv
<1>16. SlotsInv'
  BY <1>4, <1>13, <1>14, <1>15 DEF SlotsInv, g
<1>. QED  BY <1>3, <1>11, <1>13, <1>16

\* Reducing leaves the slots alone and something of the order.
LEMMA SlotReduced ==
    ASSUME SlotsInv, NEW o \in Slot, NEW traded \in Sizes, Reduce(o, traded)
    PROVE  /\ SlotsInv'
           /\ ~Idle(o)
           /\ \A x \in Slot : Idle(x)' <=> Idle(x)
           /\ traded \in Nat \ {0} /\ traded < order[o].remaining
           /\ order'[o].remaining = order[o].remaining - traded
           /\ \A x \in Slot : /\ order'[x].side = order[x].side
                              /\ order'[x].price = order[x].price
                              /\ x # o => order'[x].remaining = order[x].remaining
<1>1. free' = free /\ ~Idle(o) /\ traded < order[o].remaining
  BY RestingMeans DEF SlotsInv, Reduce
<1>2. traded \in Nat \ {0}
  <2>1. PICK r \in Offers : traded \in 1..r.remaining
    BY DEF Sizes
  <2>. QED  BY <2>1, OfferTypes
<1>3. order \in [Slot -> Holding] /\ order' = [order EXCEPT ![o].remaining = @ - traded]
  BY DEF SlotsInv, Reduce
<1>4. order[o] \in Holding /\ order[o].remaining \in Nat
  BY <1>3 DEF Holding
<1> DEFINE h == [order[o] EXCEPT !.remaining = order[o].remaining - traded]
<1>5. order' = [order EXCEPT ![o] = h]
  BY <1>3
<1>6. h \in Holding /\ h.remaining = order[o].remaining - traded /\ h.side = order[o].side
      /\ h.price = order[o].price
  <2>1. order[o].remaining - traded \in Nat
    BY <1>1, <1>2, <1>4
  <2>. QED  BY <1>4, <2>1 DEF Holding
<1> HIDE DEF h
<1>7. order'[o] = h /\ order' \in [Slot -> Holding] /\ \A x \in Slot : x # o => order'[x] = order[x]
  BY <1>3, <1>5, <1>6
<1>8. \A x \in Slot : Idle(x)' <=> Idle(x)
  BY <1>1 DEF Idle
<1>9. h.remaining # 0
  BY <1>1, <1>2, <1>4, <1>6
<1>10. ASSUME NEW x \in Slot, ~Idle(x)'
       PROVE  order'[x].price \in Price /\ order'[x].remaining # 0
  <2>1. order[x].price \in Price /\ order[x].remaining # 0
    BY <1>8, <1>10 DEF SlotsInv
  <2>2. CASE x = o
    BY <1>6, <1>7, <1>9, <2>1, <2>2
  <2>3. CASE x # o
    BY <1>7, <2>1, <2>3
  <2>. QED  BY <2>2, <2>3
<1>11. SlotsInv'
  BY <1>1, <1>7, <1>10 DEF SlotsInv
<1>12. \A x \in Slot : /\ order'[x].side = order[x].side
                       /\ order'[x].price = order[x].price
                       /\ x # o => order'[x].remaining = order[x].remaining
  BY <1>6, <1>7
<1>. QED  BY <1>1, <1>2, <1>6, <1>7, <1>8, <1>11, <1>12

-----------------------------------------------------------------------------
(* What a push and an unlink do to a level.                                 *)

\* push_back on a level that may get a price first.
LEMMA PushedFields ==
    ASSUME NEW l \in Level, NEW o \in Slot, NEW p \in Int, NEW q \in Int,
           NEW m, m = Pushed([l EXCEPT !.price = IF IsEmpty(l) THEN p ELSE @], o, q)
    PROVE  /\ m \in Level
           /\ m.price = IF IsEmpty(l) THEN p ELSE l.price
           /\ m.head = IF l.tail = Null THEN o ELSE l.head
           /\ m.tail = o /\ m.count = l.count + 1 /\ m.total = l.total + q
<1> DEFINE k == [l EXCEPT !.price = IF IsEmpty(l) THEN p ELSE l.price]
<1>1. /\ k \in Level /\ k.price = (IF IsEmpty(l) THEN p ELSE l.price)
      /\ k.head = l.head /\ k.tail = l.tail /\ k.count = l.count /\ k.total = l.total
  BY DEF Level
<1>2. m = Pushed(k, o, q)
  OBVIOUS
<1> HIDE DEF k
<1>3. m = [k EXCEPT !.head = IF k.tail = Null THEN o ELSE k.head,
                    !.tail = o, !.total = k.total + q, !.count = k.count + 1]
  BY <1>2 DEF Pushed
<1> DEFINE h == IF k.tail = Null THEN o ELSE k.head
<1>4. /\ k.head \in Slot \cup {Null} /\ k.price \in Int /\ k.total \in Int /\ k.count \in Int
      /\ h \in Slot \cup {Null} /\ k.total + q \in Int /\ k.count + 1 \in Int
  BY <1>1 DEF Level
<1>5. m = [k EXCEPT !.head = h, !.tail = o, !.total = k.total + q, !.count = k.count + 1]
  BY <1>3
<1>6. h = IF l.tail = Null THEN o ELSE l.head
  BY <1>1
<1> HIDE DEF h
<1>7. m = [price |-> k.price, total |-> k.total + q, count |-> k.count + 1, head |-> h, tail |-> o]
  BY <1>1, <1>5 DEF Level
<1>8. m \in Level
  BY <1>4, <1>7 DEF Level
<1>9. /\ m.price = k.price /\ m.head = h
      /\ m.tail = o /\ m.total = k.total + q /\ m.count = k.count + 1
  BY <1>7
<1>. QED  BY <1>1, <1>6, <1>8, <1>9

\* unlink, and whatever becomes of the price.
LEMMA UnlinkedFields ==
    ASSUME NEW l \in Level, NEW links \in [Slot -> Link], NEW o \in Slot, NEW q \in Int,
           NEW m, m = UnlinkedFrom(l, links, o, q)
    PROVE  /\ m \in Level
           /\ m.price = l.price
           /\ m.head = IF links[o].prev = Null THEN links[o].next ELSE l.head
           /\ m.tail = IF links[o].next = Null THEN links[o].prev ELSE l.tail
           /\ m.count = l.count - 1 /\ m.total = l.total - q
<1>1. m = [l EXCEPT !.head = IF links[o].prev = Null THEN links[o].next ELSE l.head,
                    !.tail = IF links[o].next = Null THEN links[o].prev ELSE l.tail,
                    !.total = l.total - q, !.count = l.count - 1]
  BY DEF UnlinkedFrom
<1>2. links[o] \in Link
  OBVIOUS
<1>3. links[o].prev \in Slot \cup {Null} /\ links[o].next \in Slot \cup {Null}
  BY <1>2 DEF Link
<1> DEFINE h == IF links[o].prev = Null THEN links[o].next ELSE l.head
           t == IF links[o].next = Null THEN links[o].prev ELSE l.tail
<1>4. /\ l.price \in Int /\ l.total - q \in Int /\ l.count - 1 \in Int
      /\ h \in Slot \cup {Null} /\ t \in Slot \cup {Null}
  BY <1>3 DEF Level
<1>5. m = [l EXCEPT !.head = h, !.tail = t, !.total = l.total - q, !.count = l.count - 1]
  BY <1>1
<1> HIDE DEF h, t
<1>6. m = [price |-> l.price, total |-> l.total - q, count |-> l.count - 1, head |-> h, tail |-> t]
  BY <1>5 DEF Level
<1>7. m \in Level
  BY <1>4, <1>6 DEF Level
<1>8. /\ m.price = l.price /\ m.head = h /\ m.tail = t
      /\ m.total = l.total - q /\ m.count = l.count - 1
  BY <1>6
<1>. QED  BY <1>7, <1>8 DEF h, t

\* A new price is no part of the list.
LEMMA PricedFields ==
    ASSUME NEW l \in Level, NEW p \in Int, NEW m, m = [l EXCEPT !.price = p]
    PROVE  /\ m \in Level /\ m.price = p /\ m.head = l.head /\ m.tail = l.tail
           /\ m.count = l.count /\ m.total = l.total
  BY DEF Level

\* Nor is a new total.
LEMMA ReducedFields ==
    ASSUME NEW l \in Level, NEW q \in Int, NEW m, m = [l EXCEPT !.total = q]
    PROVE  /\ m \in Level /\ m.price = l.price /\ m.head = l.head /\ m.tail = l.tail
           /\ m.count = l.count /\ m.total = q
  BY DEF Level

\* The levels of a book, walked, are the queues they spell.
LEMMA ChainsAre ==
    ASSUME NEW lv, NEW links, NEW Q, Holds(lv, links, Q)
    PROVE  [s \in Side |-> [p \in Price |-> Chain(lv[s][p], links)]] = Q
<1>1. Q \in [Side -> [Price -> Seq(Slot)]]
  BY DEF Holds
<1>2. \A s \in Side, p \in Price : Chain(lv[s][p], links) = Q[s][p]
  BY ChainSpells DEF Holds
<1>3. \A s \in Side : [p \in Price |-> Chain(lv[s][p], links)] = Q[s]
  <2> SUFFICES ASSUME NEW s \in Side PROVE [p \in Price |-> Chain(lv[s][p], links)] = Q[s]
    OBVIOUS
  <2>1. Q[s] \in [Price -> Seq(Slot)]
    BY <1>1
  <2>2. Q[s] = [p \in Price |-> Q[s][p]]
    BY <2>1
  <2>. QED  BY <1>2, <2>2
<1>4. Q = [s \in Side |-> Q[s]]
  BY <1>1
<1>. QED  BY <1>3, <1>4

-----------------------------------------------------------------------------
(* The queues of the book are those of the orders that rest.                *)

Placed(Q) ==
    /\ \A s \in Side, p \in Price : \A k \in 1..Len(Q[s][p]) :
          /\ ~Idle(Q[s][p][k])
          /\ order[Q[s][p][k]].side = s
          /\ order[Q[s][p][k]].price = p
    /\ \A o \in Slot : ~Idle(o) =>
          \E k \in 1..Len(Q[order[o].side][order[o].price]) :
             Q[order[o].side][order[o].price][k] = o

Joined(Q, o, r) == [Q EXCEPT ![r.side][r.price] = Append(Q[r.side][r.price], o)]
Left(Q, s, p, i) == [Q EXCEPT ![s][p] = RemoveAt(Q[s][p], i)]

NoRepeats(Q) ==
    \A s \in Side, p \in Price : \A j, k \in 1..Len(Q[s][p]) :
       Q[s][p][j] = Q[s][p][k] => j = k

\* An order that rests is the last of its queue.
LEMMA PlacedJoins ==
    ASSUME SlotsInv, NEW Q \in [Side -> [Price -> Seq(Slot)]], Placed(Q),
           NEW o \in Slot, NEW r \in Offers, Rest(o, r), NEW R, R = Joined(Q, o, r)
    PROVE  Placed(R)'
<1> DEFINE s == r.side
           p == r.price
           h == Q[s][p]
           w == Append(h, o)
<1>0. s \in Side /\ p \in Price
  BY OfferTypes
<1>1. \A t \in Side, q \in Price : Q[t][q] \in Seq(Slot) /\ Len(Q[t][q]) \in Nat
         /\ \A k \in 1..Len(Q[t][q]) : Q[t][q][k] \in Slot
  BY LenProperties, ElementOfSeq
<1>2. h \in Seq(Slot) /\ Len(h) \in Nat
  BY <1>0, <1>1
<1>3. /\ w \in Seq(Slot) /\ Len(w) = Len(h) + 1 /\ w[Len(h) + 1] = o
      /\ \A k \in 1..Len(h) : w[k] = h[k]
  BY <1>2, AppendProperties
<1>4. R = [Q EXCEPT ![s][p] = w]
  BY DEF Joined
<1> HIDE DEF w
<1>5. /\ R[s][p] = w
      /\ \A t \in Side, q \in Price : ~(t = s /\ q = p) => R[t][q] = Q[t][q]
  BY <1>0, <1>3, <1>4, OneCell
<1>6. /\ Idle(o) /\ \A x \in Slot : Idle(x)' <=> Idle(x) /\ x # o
      /\ order'[o] = r /\ \A x \in Slot : x # o => order'[x] = order[x]
      /\ \A x \in Slot : order[x].side \in Side /\ (~Idle(x) => order[x].price \in Price)
  <2>1. \A x \in Slot : order[x] \in Holding
    BY DEF SlotsInv
  <2>. QED  BY <2>1, SlotTaken DEF SlotsInv, Holding
<1>7. ASSUME NEW t \in Side, NEW q \in Price, NEW k \in 1..Len(R[t][q])
      PROVE  \/ R[t][q][k] = o /\ t = s /\ q = p
             \/ k \in 1..Len(Q[t][q]) /\ R[t][q][k] = Q[t][q][k]
  <2>1. CASE t = s /\ q = p
    <3>1. R[t][q] = w /\ Q[t][q] = h
      BY <1>5, <2>1
    <3>2. k \in 1..(Len(h) + 1)
      BY <1>3, <3>1
    <3> HIDE DEF h
    <3>3. k \in 1..Len(h) \/ k = Len(h) + 1
      BY <1>2, <3>2
    <3>. QED  BY <1>3, <2>1, <3>1, <3>3
  <2>2. CASE ~(t = s /\ q = p)
    BY <1>5, <2>2
  <2>. QED  BY <2>1, <2>2
<1>8. ASSUME NEW t \in Side, NEW q \in Price, NEW k \in 1..Len(Q[t][q])
      PROVE  k \in 1..Len(R[t][q]) /\ R[t][q][k] = Q[t][q][k]
  <2>1. CASE t = s /\ q = p
    <3>1. R[t][q] = w /\ Q[t][q] = h /\ k \in 1..Len(h)
      BY <1>5, <2>1
    <3> HIDE DEF h
    <3>2. k \in 1..(Len(h) + 1)
      BY <1>2, <3>1
    <3>. QED  BY <1>3, <3>1, <3>2
  <2>2. CASE ~(t = s /\ q = p)
    BY <1>5, <2>2
  <2>. QED  BY <2>1, <2>2
<1>9. Len(h) + 1 \in 1..Len(R[s][p]) /\ R[s][p][Len(h) + 1] = o
  <2>1. Len(h) + 1 \in 1..(Len(h) + 1)
    BY <1>2
  <2>. QED  BY <1>3, <1>5, <2>1
<1>10. ASSUME NEW t \in Side, NEW q \in Price, NEW k \in 1..Len(R[t][q])
       PROVE  /\ ~(Idle(R[t][q][k])')
              /\ order'[R[t][q][k]].side = t /\ order'[R[t][q][k]].price = q
  <2>1. CASE R[t][q][k] = o /\ t = s /\ q = p
    BY <1>6, <2>1
  <2>2. CASE k \in 1..Len(Q[t][q]) /\ R[t][q][k] = Q[t][q][k]
    <3> DEFINE x == Q[t][q][k]
    <3>1. x \in Slot /\ ~Idle(x) /\ order[x].side = t /\ order[x].price = q
      BY <1>1, <2>2 DEF Placed
    <3>2. R[t][q][k] = x
      BY <2>2
    <3> HIDE DEF x
    <3>. QED  BY <1>6, <3>1, <3>2
  <2>. QED  BY <1>7, <2>1, <2>2
<1>11. ASSUME NEW x \in Slot, ~(Idle(x)')
       PROVE  \E k \in 1..Len(R[order'[x].side][order'[x].price]) :
                 R[order'[x].side][order'[x].price][k] = x
  <2>1. CASE x = o
    BY <1>6, <1>9, <2>1
  <2>2. CASE x # o
    <3>1. ~Idle(x) /\ order'[x] = order[x] /\ order[x].side \in Side /\ order[x].price \in Price
      BY <1>6, <1>11, <2>2
    <3>2. PICK k \in 1..Len(Q[order[x].side][order[x].price]) :
                  Q[order[x].side][order[x].price][k] = x
      BY <3>1 DEF Placed
    <3>. QED  BY <1>8, <3>1, <3>2
  <2>. QED  BY <2>1, <2>2
<1>. QED  BY <1>10, <1>11 DEF Placed

\* The order at position i of a queue leaves it, and no other.
LEMMA PlacedLeaves ==
    ASSUME SlotsInv, NEW Q \in [Side -> [Price -> Seq(Slot)]], Placed(Q),
           NoRepeats(Q),
           NEW o \in Slot, Leave(o), NEW s, s = order[o].side, NEW p, p = order[o].price,
           NEW i \in 1..Len(Q[s][p]), Q[s][p][i] = o,
           NEW R, R = Left(Q, s, p, i)
    PROVE  Placed(R)'
<1> DEFINE h == Q[s][p]
           w == RemoveAt(h, i)
<1>0. /\ ~Idle(o) /\ \A x \in Slot : Idle(x)' <=> Idle(x) \/ x = o
      /\ \A x \in Slot : x # o => order'[x] = order[x]
      /\ \A x \in Slot : order[x].side \in Side /\ (~Idle(x) => order[x].price \in Price)
  <2>1. \A x \in Slot : order[x] \in Holding
    BY DEF SlotsInv
  <2>. QED  BY <2>1, SlotGiven DEF SlotsInv, Holding
<1>a. \A t \in Side, q \in Price : \A k \in 1..Len(Q[t][q]) :
         ~Idle(Q[t][q][k]) /\ order[Q[t][q][k]].side = t /\ order[Q[t][q][k]].price = q
  BY DEF Placed
<1>1. s \in Side /\ p \in Price
  BY <1>0
<1>2. \A t \in Side, q \in Price : Q[t][q] \in Seq(Slot) /\ Len(Q[t][q]) \in Nat
         /\ DOMAIN Q[t][q] = 1..Len(Q[t][q])
         /\ \A k \in 1..Len(Q[t][q]) : Q[t][q][k] \in Slot
  BY LenProperties, ElementOfSeq
<1>3. h \in Seq(Slot) /\ Len(h) \in Nat /\ i \in 1..Len(h) /\ i \in DOMAIN h
  BY <1>1, <1>2
<1>4. /\ w \in Seq(Slot) /\ Len(w) = Len(h) - 1
      /\ \A j \in 1..(Len(h) - 1) : w[j] = IF j < i THEN h[j] ELSE h[j + 1]
  <2> HIDE DEF h, w
  <2>1. h \in Seq(Slot) /\ i \in DOMAIN h
    BY <1>3
  <2>2. /\ RemoveAt(h, i) \in Seq(Slot) /\ Len(RemoveAt(h, i)) = Len(h) - 1
        /\ \A j \in 1..(Len(h) - 1) : RemoveAt(h, i)[j] = IF j < i THEN h[j] ELSE h[j + 1]
    BY <2>1, RemoveAtFacts
  <2>. QED  BY <2>2 DEF w
<1>5. R = [Q EXCEPT ![s][p] = w]
  BY DEF Left
<1> HIDE DEF w
<1>6. /\ R[s][p] = w
      /\ \A t \in Side, q \in Price : ~(t = s /\ q = p) => R[t][q] = Q[t][q]
  BY <1>1, <1>4, <1>5, OneCell
<1>7. \A j, k \in 1..Len(h) : h[j] = h[k] => j = k
  BY <1>1 DEF NoRepeats
<1>8. h[i] = o /\ \A k \in 1..Len(h) : order[h[k]].side = s /\ order[h[k]].price = p
  BY <1>1, <1>a
\* What is in a queue now was in it, and is not the order.
<1>9. ASSUME NEW t \in Side, NEW q \in Price, NEW k \in 1..Len(R[t][q])
      PROVE  \E j \in 1..Len(Q[t][q]) : R[t][q][k] = Q[t][q][j] /\ Q[t][q][j] # o
  <2>1. CASE t = s /\ q = p
    <3>1. R[t][q] = w /\ Q[t][q] = h
      BY <1>6, <2>1
    <3>2. k \in 1..(Len(h) - 1)
      BY <1>4, <3>1
    <3> HIDE DEF h
    <3>3. w[k] = IF k < i THEN h[k] ELSE h[k + 1]
      BY <1>4, <3>2
    <3>4. CASE k < i
      <4>1. k \in 1..Len(h) /\ k # i
        BY <1>3, <3>2, <3>4
      <4>. QED  BY <1>3, <1>7, <1>8, <3>1, <3>3, <3>4, <4>1
    <3>5. CASE ~(k < i)
      <4>1. k + 1 \in 1..Len(h) /\ k + 1 # i
        BY <1>3, <3>2, <3>5
      <4>. QED  BY <1>3, <1>7, <1>8, <3>1, <3>3, <3>5, <4>1
    <3>. QED  BY <3>4, <3>5
  <2>2. CASE ~(t = s /\ q = p)
    <3>1. R[t][q] = Q[t][q]
      BY <1>6, <2>2
    <3>2. order[Q[t][q][k]].side = t /\ order[Q[t][q][k]].price = q
      BY <1>a, <3>1
    <3>3. Q[t][q][k] # o
      BY <2>2, <3>2
    <3>. QED  BY <3>1, <3>3
  <2>. QED  BY <2>1, <2>2
\* What was in a queue and is not the order still is.
<1>10. ASSUME NEW t \in Side, NEW q \in Price, NEW k \in 1..Len(Q[t][q]), Q[t][q][k] # o
       PROVE  \E j \in 1..Len(R[t][q]) : R[t][q][j] = Q[t][q][k]
  <2>1. CASE t = s /\ q = p
    <3>1. R[t][q] = w /\ Q[t][q] = h /\ k \in 1..Len(h) /\ k # i
      BY <1>6, <1>8, <1>10, <2>1
    <3> HIDE DEF h
    <3>2. CASE k < i
      <4>1. k \in 1..(Len(h) - 1)
        BY <1>3, <3>1, <3>2
      <4>. QED  BY <1>4, <3>1, <3>2, <4>1
    <3>3. CASE ~(k < i)
      <4>1. k - 1 \in 1..(Len(h) - 1) /\ ~(k - 1 < i) /\ (k - 1) + 1 = k
        <5>1. Len(h) \in Nat /\ k \in Nat /\ i \in Nat /\ 1 <= i /\ k <= Len(h) /\ k # i
          BY <1>3, <3>1
        <5> DEFINE n == Len(h)
        <5>2. n \in Nat /\ k <= n
          BY <5>1
        <5> HIDE DEF n
        <5>3. k - 1 \in 1..(n - 1) /\ ~(k - 1 < i) /\ (k - 1) + 1 = k
          BY <3>3, <5>1, <5>2
        <5>. QED  BY <5>3 DEF n
      <4>. QED  BY <1>4, <3>1, <4>1
    <3>. QED  BY <3>2, <3>3
  <2>2. CASE ~(t = s /\ q = p)
    BY <1>6, <2>2
  <2>. QED  BY <2>1, <2>2
<1>11. ASSUME NEW t \in Side, NEW q \in Price, NEW k \in 1..Len(R[t][q])
       PROVE  /\ ~(Idle(R[t][q][k])')
              /\ order'[R[t][q][k]].side = t /\ order'[R[t][q][k]].price = q
  <2>1. PICK j \in 1..Len(Q[t][q]) : R[t][q][k] = Q[t][q][j] /\ Q[t][q][j] # o
    BY <1>9
  <2> DEFINE x == Q[t][q][j]
  <2>2. x \in Slot /\ x # o /\ ~Idle(x) /\ order[x].side = t /\ order[x].price = q
    <3>1. x \in Slot /\ x # o
      BY <1>2, <2>1
    <3>2. ~Idle(x) /\ order[x].side = t /\ order[x].price = q
      BY <1>a, <2>1
    <3>. QED  BY <3>1, <3>2
  <2>3. R[t][q][k] = x
    BY <2>1
  <2> HIDE DEF x
  <2>. QED  BY <1>0, <2>2, <2>3
<1>12. ASSUME NEW x \in Slot, ~(Idle(x)')
       PROVE  \E k \in 1..Len(R[order'[x].side][order'[x].price]) :
                 R[order'[x].side][order'[x].price][k] = x
  <2>1. x # o /\ ~Idle(x) /\ order'[x] = order[x] /\ order[x].side \in Side
        /\ order[x].price \in Price
    BY <1>0, <1>12
  <2>2. PICK k \in 1..Len(Q[order[x].side][order[x].price]) :
                Q[order[x].side][order[x].price][k] = x
    BY <2>1 DEF Placed
  <2>3. \E j \in 1..Len(R[order[x].side][order[x].price]) :
           R[order[x].side][order[x].price][j] = Q[order[x].side][order[x].price][k]
    BY <1>10, <2>1, <2>2
  <2>. QED  BY <2>1, <2>2, <2>3
<1>. QED  BY <1>11, <1>12 DEF Placed

\* Reducing moves no order.
LEMMA PlacedStays ==
    ASSUME SlotsInv, NEW Q \in [Side -> [Price -> Seq(Slot)]], Placed(Q),
           NEW o \in Slot, NEW traded \in Sizes, Reduce(o, traded)
    PROVE  Placed(Q)'
<1>1. \A t \in Side, q \in Price : \A k \in 1..Len(Q[t][q]) : Q[t][q][k] \in Slot
  BY LenProperties, ElementOfSeq
<1>2. \A x \in Slot : /\ Idle(x)' <=> Idle(x)
                      /\ order'[x].side = order[x].side /\ order'[x].price = order[x].price
  BY SlotReduced
<1>3. ASSUME NEW t \in Side, NEW q \in Price, NEW k \in 1..Len(Q[t][q])
      PROVE  /\ ~(Idle(Q[t][q][k])')
             /\ order'[Q[t][q][k]].side = t /\ order'[Q[t][q][k]].price = q
  <2> DEFINE x == Q[t][q][k]
  <2>1. x \in Slot /\ ~Idle(x) /\ order[x].side = t /\ order[x].price = q
    BY <1>1 DEF Placed
  <2> HIDE DEF x
  <2>2. ~(Idle(x)') /\ order'[x].side = t /\ order'[x].price = q
    BY <1>2, <2>1
  <2>. QED  BY <2>2 DEF x
<1>4. ASSUME NEW x \in Slot, ~(Idle(x)')
      PROVE  \E k \in 1..Len(Q[order'[x].side][order'[x].price]) :
                Q[order'[x].side][order'[x].price][k] = x
  <2>1. \E k \in 1..Len(Q[order[x].side][order[x].price]) :
           Q[order[x].side][order[x].price][k] = x
    BY <1>2, <1>4 DEF Placed
  <2>. QED  BY <1>2, <2>1
<1>. QED  BY <1>3, <1>4 DEF Placed

-----------------------------------------------------------------------------
(* The bitset book: what its calls do to the array of levels.               *)

Indexes == 0..(Bitset!Span - 1)
LevelsTyped == level \in [Side -> [Indexes -> Level]]
BitLevels == [s \in Side |-> [p \in Price |-> level[s][p - MinPrice]]]

\* A price of the band is an index of the array, and the other way round.
LEMMA BandFacts ==
    /\ Bitset!Span \in Nat \ {0} /\ MinPrice \in Int /\ NoPrice \in Int /\ NoPrice \notin Price
    /\ \A p \in Price : /\ p \in Int /\ p - MinPrice \in Indexes /\ p - MinPrice \in Nat
                        /\ Bitset!Index(p) = p - MinPrice
    /\ \A p, q \in Price : p - MinPrice = q - MinPrice => p = q
    /\ \A i \in Indexes : i \in Nat /\ i + MinPrice \in Price /\ (i + MinPrice) - MinPrice = i
  BY PriceAssumption DEF Price, Indexes, Bitset!Span, Bitset!Index

\* The level of a side and price, as the lists see it.
LEMMA BitLevelIs ==
    ASSUME NEW s \in Side, NEW p \in Price
    PROVE  /\ BitLevels[s][p] = level[s][p - MinPrice]
           /\ BitLevels'[s][p] = level'[s][p - MinPrice]
  BY DEF BitLevels

\* An order of a free slot is in no queue.
LEMMA IdleIsOut ==
    ASSUME NEW Q, Placed(Q), NEW o, Idle(o)
    PROVE  \A t \in Side, q \in Price : \A k \in 1..Len(Q[t][q]) : Q[t][q][k] # o
  BY DEF Placed

\* push_back on the level of the order.
LEMMA RestLevel ==
    ASSUME LevelsTyped, NEW o \in Slot, NEW r \in Offers, Rest(o, r),
           NEW s, s = r.side, NEW i, i = r.price - MinPrice
    PROVE  /\ s \in Side /\ i \in Indexes
           /\ LevelsTyped'
           /\ level'[s][i].price = (IF IsEmpty(level[s][i]) THEN r.price ELSE level[s][i].price)
           /\ level'[s][i].head = (IF level[s][i].tail = Null THEN o ELSE level[s][i].head)
           /\ level'[s][i].tail = o
           /\ level'[s][i].count = level[s][i].count + 1
           /\ level'[s][i].total = level[s][i].total + r.remaining
           /\ \A t \in Side, j \in Indexes : ~(t = s /\ j = i) => level'[t][j] = level[t][j]
           /\ bitLinks' = PushLinks(bitLinks, level[s][i], o)
<1> DEFINE l == level[s][i]
           m == Pushed([l EXCEPT !.price = IF IsEmpty(l) THEN r.price ELSE @], o, r.remaining)
<1>1. /\ s \in Side /\ r.price \in Price /\ r.price \in Int /\ r.remaining \in Int
  BY OfferTypes
<1>2. i \in Indexes /\ Bitset!Index(r.price) = i
  BY <1>1, BandFacts
<1>3. l \in Level
  BY <1>1, <1>2 DEF LevelsTyped
<1>4. /\ level' = [level EXCEPT ![s][i] =
                    Bitset!Pushed([l EXCEPT !.price = IF Bitset!IsEmpty(l) THEN r.price ELSE @],
                                  o, r.remaining)]
      /\ bitLinks' = Bitset!PushLinks(bitLinks, l, o)
  BY <1>2 DEF Rest, Bitset!AddOrder
<1>5. /\ Bitset!Pushed([l EXCEPT !.price = IF Bitset!IsEmpty(l) THEN r.price ELSE @],
                       o, r.remaining) = m
      /\ Bitset!PushLinks(bitLinks, l, o) = PushLinks(bitLinks, l, o)
  <2>1. Bitset!IsEmpty(l) <=> IsEmpty(l)
    BY SameBitset
  <2>2. [l EXCEPT !.price = IF Bitset!IsEmpty(l) THEN r.price ELSE @]
           = [l EXCEPT !.price = IF IsEmpty(l) THEN r.price ELSE @]
    BY <2>1
  <2>. QED  BY <2>2, SameBitset
<1>6. level' = [level EXCEPT ![s][i] = m]
  BY <1>4, <1>5
<1>7. /\ m \in Level /\ m.price = (IF IsEmpty(l) THEN r.price ELSE l.price)
      /\ m.head = (IF l.tail = Null THEN o ELSE l.head)
      /\ m.tail = o /\ m.count = l.count + 1 /\ m.total = l.total + r.remaining
  BY <1>1, <1>3, PushedFields
<1> HIDE DEF m
<1>8. /\ level' \in [Side -> [Indexes -> Level]] /\ level'[s][i] = m
      /\ \A t \in Side, j \in Indexes : ~(t = s /\ j = i) => level'[t][j] = level[t][j]
  BY <1>1, <1>2, <1>6, <1>7, OneCell DEF LevelsTyped
<1>. QED  BY <1>1, <1>2, <1>4, <1>5, <1>7, <1>8 DEF LevelsTyped

\* unlink on the level of the order, which loses its price when it empties.
LEMMA LeaveLevel ==
    ASSUME SlotsInv, LevelsTyped, bitLinks \in [Slot -> Link], NEW o \in Slot, Leave(o),
           NEW s, s = order[o].side, NEW i, i = order[o].price - MinPrice
    PROVE  /\ s \in Side /\ order[o].price \in Price /\ i \in Indexes
           /\ LevelsTyped'
           /\ level'[s][i].price = (IF level'[s][i].head = Null THEN NoPrice
                                    ELSE level[s][i].price)
           /\ level'[s][i].head = (IF bitLinks[o].prev = Null THEN bitLinks[o].next
                                   ELSE level[s][i].head)
           /\ level'[s][i].tail = (IF bitLinks[o].next = Null THEN bitLinks[o].prev
                                   ELSE level[s][i].tail)
           /\ level'[s][i].count = level[s][i].count - 1
           /\ level'[s][i].total = level[s][i].total - order[o].remaining
           /\ \A t \in Side, j \in Indexes : ~(t = s /\ j = i) => level'[t][j] = level[t][j]
           /\ bitLinks' = UnlinkLinks(bitLinks, o)
           /\ \/ level'[s][i].head = Null /\ Bitset!ClearBit(s, i)
              \/ level'[s][i].head # Null /\ UNCHANGED <<words, summary>>
<1> DEFINE q == order[o].remaining
           l == level[s][i]
           u == UnlinkedFrom(l, bitLinks, o, q)
           m == [u EXCEPT !.price = IF IsEmpty(u) THEN NoPrice ELSE u.price]
<1>1. /\ s \in Side /\ order[o].price \in Price /\ q \in Int
  <2>1. ~Idle(o)
    BY SlotGiven
  <2>2. order[o] \in Holding
    BY DEF SlotsInv
  <2>. QED  BY <2>1, <2>2 DEF SlotsInv, Holding
<1>2. i \in Indexes /\ Bitset!Index(order[o].price) = i /\ NoPrice \in Int
  BY <1>1, BandFacts
<1>3. l \in Level
  BY <1>1, <1>2 DEF LevelsTyped
<1> DEFINE v == Bitset!UnlinkedFrom(l, bitLinks, o, q)
<1>4. /\ level' = [level EXCEPT ![s][i] = [v EXCEPT !.price = IF Bitset!IsEmpty(v) THEN NoPrice ELSE @]]
      /\ bitLinks' = Bitset!UnlinkLinks(bitLinks, o)
      /\ \/ Bitset!IsEmpty(v) /\ Bitset!ClearBit(s, i)
         \/ ~Bitset!IsEmpty(v) /\ UNCHANGED <<words, summary>>
  BY <1>2 DEF Leave, Bitset!RemoveOrder
<1>5. v = u /\ Bitset!UnlinkLinks(bitLinks, o) = UnlinkLinks(bitLinks, o)
      /\ (Bitset!IsEmpty(v) <=> IsEmpty(u))
  <2>1. v = u /\ Bitset!UnlinkLinks(bitLinks, o) = UnlinkLinks(bitLinks, o)
    BY SameBitset
  <2> HIDE DEF v, u
  <2>. QED  BY <2>1, SameBitset
<1>6. /\ u \in Level /\ u.price = l.price
      /\ u.head = (IF bitLinks[o].prev = Null THEN bitLinks[o].next ELSE l.head)
      /\ u.tail = (IF bitLinks[o].next = Null THEN bitLinks[o].prev ELSE l.tail)
      /\ u.count = l.count - 1 /\ u.total = l.total - q
  BY <1>1, <1>3, UnlinkedFields, SMTT(20)
<1> HIDE DEF u, v
<1>7. level' = [level EXCEPT ![s][i] = m]
  BY <1>4, <1>5
<1>8. /\ m \in Level /\ m.price = (IF IsEmpty(u) THEN NoPrice ELSE u.price)
      /\ m.head = u.head /\ m.tail = u.tail /\ m.count = u.count /\ m.total = u.total
  <2> DEFINE p == IF IsEmpty(u) THEN NoPrice ELSE u.price
  <2>1. p \in Int /\ m = [u EXCEPT !.price = p]
    BY <1>2, <1>6 DEF Level
  <2> HIDE DEF p, m
  <2>2. /\ m \in Level /\ m.price = p
        /\ m.head = u.head /\ m.tail = u.tail /\ m.count = u.count /\ m.total = u.total
    BY <1>6, <2>1, PricedFields
  <2>. QED  BY <2>2 DEF p
<1> HIDE DEF m
<1>9. /\ level' \in [Side -> [Indexes -> Level]] /\ level'[s][i] = m
      /\ \A t \in Side, j \in Indexes : ~(t = s /\ j = i) => level'[t][j] = level[t][j]
  BY <1>1, <1>2, <1>7, <1>8, OneCell DEF LevelsTyped
<1>10. IsEmpty(u) <=> level'[s][i].head = Null
  BY <1>8, <1>9 DEF IsEmpty
<1>. QED  BY <1>1, <1>2, <1>4, <1>5, <1>6, <1>8, <1>9, <1>10 DEF LevelsTyped

\* A reduction writes one total.
LEMMA ReduceLevel ==
    ASSUME SlotsInv, LevelsTyped, NEW o \in Slot, NEW traded \in Sizes, Reduce(o, traded)
    PROVE  /\ LevelsTyped'
           /\ \A t \in Side, j \in Indexes :
                 /\ level'[t][j].price = level[t][j].price
                 /\ level'[t][j].head = level[t][j].head
                 /\ level'[t][j].tail = level[t][j].tail
                 /\ level'[t][j].count = level[t][j].count
                 /\ level'[t][j].total = (IF t = order[o].side /\ j = order[o].price - MinPrice
                                           THEN level[t][j].total - traded
                                           ELSE level[t][j].total)
           /\ UNCHANGED <<words, summary, bitLinks>>
<1> DEFINE s == order[o].side
           i == order[o].price - MinPrice
           l == level[s][i]
           m == [l EXCEPT !.total = l.total - traded]
<1>1. /\ s \in Side /\ order[o].price \in Price /\ traded \in Int
  <2>1. ~Idle(o) /\ traded \in Nat
    BY SlotReduced
  <2>2. order[o] \in Holding
    BY DEF SlotsInv
  <2>. QED  BY <2>1, <2>2 DEF SlotsInv, Holding
<1>2. i \in Indexes /\ Bitset!Index(order[o].price) = i
  BY <1>1, BandFacts
<1>3. l \in Level
  BY <1>1, <1>2 DEF LevelsTyped
<1>4. level' = [level EXCEPT ![s][i].total = @ - traded] /\ UNCHANGED <<words, summary, bitLinks>>
  BY <1>2 DEF Reduce, Bitset!ReduceInPlace
<1>5. level' = [level EXCEPT ![s][i] = m]
  BY <1>4
<1>6. /\ m \in Level /\ m.price = l.price /\ m.head = l.head
      /\ m.tail = l.tail /\ m.count = l.count /\ m.total = l.total - traded
  <2>1. l.total - traded \in Int
    BY <1>1, <1>3 DEF Level
  <2>. QED  BY <1>3, <2>1, ReducedFields
<1> HIDE DEF m
<1>7. /\ level' \in [Side -> [Indexes -> Level]] /\ level'[s][i] = m
      /\ \A t \in Side, j \in Indexes : ~(t = s /\ j = i) => level'[t][j] = level[t][j]
  BY <1>1, <1>2, <1>5, <1>6, OneCell, SMTT(20) DEF LevelsTyped
<1> HIDE DEF s, i
<1>8. ASSUME NEW t \in Side, NEW j \in Indexes
      PROVE  /\ level'[t][j].price = level[t][j].price
             /\ level'[t][j].head = level[t][j].head
             /\ level'[t][j].tail = level[t][j].tail
             /\ level'[t][j].count = level[t][j].count
             /\ level'[t][j].total = (IF t = s /\ j = i THEN level[t][j].total - traded
                                       ELSE level[t][j].total)
  <2>1. CASE t = s /\ j = i
    BY <1>6, <1>7, <2>1
  <2>2. CASE ~(t = s /\ j = i)
    BY <1>7, <2>2
  <2>. QED  BY <2>1, <2>2
<1>9. LevelsTyped' /\ UNCHANGED <<words, summary, bitLinks>>
  BY <1>4, <1>7 DEF LevelsTyped
<1>. QED  BY <1>8, <1>9 DEF s, i

-----------------------------------------------------------------------------
(* The lists and the queues they spell.                                     *)

ListInv ==
    /\ SlotsInv /\ LevelsTyped
    /\ Holds(BitLevels, bitLinks, Bitset!Queue)
    /\ Placed(Bitset!Queue)

\* The queues are what the levels spell.
LEMMA QueueIs ==
    /\ Bitset!Queue = [s \in Side |-> [p \in Price |-> Chain(BitLevels[s][p], bitLinks)]]
    /\ Bitset!Queue' = [s \in Side |-> [p \in Price |-> Chain(BitLevels'[s][p], bitLinks')]]
<1>1. \A s \in Side, p \in Price :
         Bitset!Chain(level[s][Bitset!Index(p)], bitLinks) = Chain(BitLevels[s][p], bitLinks)
  BY SameBitChains, BitLevelIs, BandFacts
<1>2. \A s \in Side, p \in Price :
         Bitset!Chain(level'[s][Bitset!Index(p)], bitLinks') = Chain(BitLevels'[s][p], bitLinks')
  BY SameBitChains, BitLevelIs, BandFacts
<1>3. Bitset!Queue = [s \in Side |-> [p \in Price |->
                          Bitset!Chain(level[s][Bitset!Index(p)], bitLinks)]]
  BY SameBitset DEF Bitset!Queue
<1>4. Bitset!Queue' = [s \in Side |-> [p \in Price |->
                          Bitset!Chain(level'[s][Bitset!Index(p)], bitLinks')]]
  BY SameBitset DEF Bitset!Queue, Bitset!Index
<1>. QED  BY <1>1, <1>2, <1>3, <1>4

\* So whatever they spell after a step are the queues after it.
LEMMA QueueBecomes ==
    ASSUME SlotsInv', LevelsTyped', NEW R, Holds(BitLevels', bitLinks', R), Placed(R)'
    PROVE  ListInv' /\ Bitset!Queue' = R
<1>1. Bitset!Queue' = R
  BY QueueIs, ChainsAre
<1>2. Holds(BitLevels', bitLinks', Bitset!Queue')
  BY <1>1
<1>3. Placed(Bitset!Queue)'
  BY <1>1 DEF Placed
<1>. QED  BY <1>1, <1>2, <1>3 DEF ListInv, Holds, IsList

\* Every list is empty at the start.
LEMMA ListInit ==
    ASSUME Init
    PROVE  ListInv /\ Bitset!Queue = [s \in Side |-> [p \in Price |-> <<>>]]
<1> DEFINE Q == [s \in Side |-> [p \in Price |-> <<>>]]
<1>1. SlotsInv /\ \A o \in Slot : Idle(o)
  BY SlotsInit
<1>2. /\ level = [s \in Side |-> [i \in Indexes |-> EmptyLevel]]
      /\ bitLinks = [o \in Slot |-> Unlinked]
  BY SameBitset DEF Init, Bitset!Init, Indexes
<1>3. EmptyLevel \in Level /\ EmptyLevel.head = Null /\ EmptyLevel.tail = Null
      /\ EmptyLevel.count = 0
  BY PriceAssumption DEF EmptyLevel, Level
<1>4. LevelsTyped
  BY <1>2, <1>3 DEF LevelsTyped
<1>5. \A s \in Side, p \in Price : BitLevels[s][p] = EmptyLevel
  BY <1>2, BitLevelIs, BandFacts
<1>6. <<>> \in Seq(Slot) /\ Len(<<>>) = 0 /\ 1..0 = {}
  BY EmptySeq
<1>7. Q \in [Side -> [Price -> Seq(Slot)]] /\ \A s \in Side, p \in Price : Q[s][p] = <<>>
  BY <1>6
<1> HIDE DEF Q
<1>8. Holds(BitLevels, bitLinks, Q)
  <2>1. bitLinks \in [Slot -> Link]
    BY <1>2 DEF Link, Unlinked
  <2>2. \A s \in Side, p \in Price : IsList(BitLevels[s][p], bitLinks, Q[s][p])
    BY <1>3, <1>5, <1>6, <1>7 DEF IsList
  <2>. QED  BY <1>6, <1>7, <2>1, <2>2 DEF Holds
<1>9. Bitset!Queue = Q
  BY <1>8, QueueIs, ChainsAre
<1>10. Placed(Q)
  BY <1>1, <1>6, <1>7 DEF Placed
<1>. QED  BY <1>1, <1>4, <1>8, <1>9, <1>10 DEF ListInv, Q

\* An order that rests joins its queue.
LEMMA RestLists ==
    ASSUME ListInv, NEW o \in Slot, NEW r \in Offers, Rest(o, r)
    PROVE  ListInv' /\ Bitset!Queue' = Joined(Bitset!Queue, o, r)
<1>1. PICK Q : Q = Bitset!Queue
  OBVIOUS
<1>2. /\ SlotsInv /\ LevelsTyped /\ Holds(BitLevels, bitLinks, Q) /\ Placed(Q)
      /\ Q \in [Side -> [Price -> Seq(Slot)]]
  BY <1>1 DEF ListInv, Holds
<1>3. SlotsInv' /\ Idle(o)
  BY <1>2, SlotTaken
<1>4. \A t \in Side, q \in Price : \A k \in 1..Len(Q[t][q]) : Q[t][q][k] # o
  BY <1>2, <1>3, IdleIsOut
<1>5. PICK s, p, i : s = r.side /\ p = r.price /\ i = p - MinPrice
  OBVIOUS
<1>6. /\ s \in Side /\ i \in Indexes
      /\ LevelsTyped'
      /\ level'[s][i].head = (IF level[s][i].tail = Null THEN o ELSE level[s][i].head)
      /\ level'[s][i].tail = o
      /\ level'[s][i].count = level[s][i].count + 1
      /\ \A t \in Side, j \in Indexes : ~(t = s /\ j = i) => level'[t][j] = level[t][j]
      /\ bitLinks' = PushLinks(bitLinks, level[s][i], o)
  BY <1>2, <1>5, RestLevel
<1>7. p \in Price
  BY <1>5, OfferTypes
<1>8. PICK lv, mv : lv = BitLevels /\ mv = BitLevels'
  OBVIOUS
<1>9. lv[s][p] = level[s][i] /\ mv[s][p] = level'[s][i]
  BY <1>5, <1>6, <1>7, <1>8, BitLevelIs
<1>10. \A t \in Side, q \in Price : ~(t = s /\ q = p) => mv[t][q] = lv[t][q]
  <2> SUFFICES ASSUME NEW t \in Side, NEW q \in Price, ~(t = s /\ q = p)
               PROVE  mv[t][q] = lv[t][q]
    OBVIOUS
  <2>1. q - MinPrice \in Indexes /\ ~(t = s /\ q - MinPrice = i)
    BY <1>5, <1>7, BandFacts
  <2>2. level'[t][q - MinPrice] = level[t][q - MinPrice]
    BY <1>6, <2>1
  <2>. QED  BY <1>8, <2>2, BitLevelIs
<1>11. Holds(lv, bitLinks, Q)
  BY <1>2, <1>8
<1>12. PICK R : R = Joined(Q, o, r)
  OBVIOUS
<1>13. Holds(mv, PushLinks(bitLinks, lv[s][p], o), R)
  <2>1. R = Behind(Q, s, p, o)
    BY <1>5, <1>12 DEF Joined, Behind
  <2>2. /\ mv[s][p].head = IF lv[s][p].tail = Null THEN o ELSE lv[s][p].head
        /\ mv[s][p].tail = o /\ mv[s][p].count = lv[s][p].count + 1
    BY <1>6, <1>9
  <2>3. \A t \in Side, q \in Price : ~(t = s /\ q = p) =>
           /\ mv[t][q].head = lv[t][q].head
           /\ mv[t][q].tail = lv[t][q].tail
           /\ mv[t][q].count = lv[t][q].count
    BY <1>10
  <2>4. PushedAt(lv, mv, s, p, o)
    BY <2>2, <2>3 DEF PushedAt
  <2>. QED  BY <1>4, <1>6, <1>7, <1>11, <2>1, <2>4, HoldsPush
<1>14. Holds(BitLevels', bitLinks', R)
  BY <1>6, <1>8, <1>9, <1>13
<1>15. Placed(R)'
  BY <1>2, <1>12, PlacedJoins
<1>16. ListInv' /\ Bitset!Queue' = R
  BY <1>3, <1>6, <1>14, <1>15, QueueBecomes
<1>. QED  BY <1>1, <1>12, <1>16

\* An order that leaves is taken out of its queue, wherever it was.
LEMMA LeaveLists ==
    ASSUME ListInv, NEW o \in Slot, Leave(o)
    PROVE  /\ ListInv'
           /\ \E s \in Side, p \in Price : \E i \in 1..Len(Bitset!Queue[s][p]) :
                 /\ s = order[o].side /\ p = order[o].price
                 /\ Bitset!Queue[s][p][i] = o
                 /\ Bitset!Queue' = Left(Bitset!Queue, s, p, i)
<1>1. PICK Q : Q = Bitset!Queue
  OBVIOUS
<1>2. /\ SlotsInv /\ LevelsTyped /\ Holds(BitLevels, bitLinks, Q) /\ Placed(Q)
      /\ Q \in [Side -> [Price -> Seq(Slot)]] /\ bitLinks \in [Slot -> Link]
  BY <1>1 DEF ListInv, Holds
<1>3. SlotsInv' /\ ~Idle(o)
  BY <1>2, SlotGiven
<1>4. PICK s, p, a : s = order[o].side /\ p = order[o].price /\ a = p - MinPrice
  OBVIOUS
<1>5. /\ s \in Side /\ p \in Price /\ a \in Indexes
      /\ LevelsTyped'
      /\ level'[s][a].head = (IF bitLinks[o].prev = Null THEN bitLinks[o].next
                              ELSE level[s][a].head)
      /\ level'[s][a].tail = (IF bitLinks[o].next = Null THEN bitLinks[o].prev
                              ELSE level[s][a].tail)
      /\ level'[s][a].count = level[s][a].count - 1
      /\ \A t \in Side, j \in Indexes : ~(t = s /\ j = a) => level'[t][j] = level[t][j]
      /\ bitLinks' = UnlinkLinks(bitLinks, o)
  BY <1>2, <1>4, LeaveLevel
<1>6. PICK i \in 1..Len(Q[s][p]) : Q[s][p][i] = o
  BY <1>2, <1>3, <1>4 DEF Placed
<1>7. PICK lv, mv : lv = BitLevels /\ mv = BitLevels'
  OBVIOUS
<1>8. lv[s][p] = level[s][a] /\ mv[s][p] = level'[s][a]
  BY <1>4, <1>5, <1>7, BitLevelIs
<1>9. \A t \in Side, q \in Price : ~(t = s /\ q = p) => mv[t][q] = lv[t][q]
  <2> SUFFICES ASSUME NEW t \in Side, NEW q \in Price, ~(t = s /\ q = p)
               PROVE  mv[t][q] = lv[t][q]
    OBVIOUS
  <2>1. q - MinPrice \in Indexes /\ ~(t = s /\ q - MinPrice = a)
    BY <1>4, <1>5, BandFacts
  <2>2. level'[t][q - MinPrice] = level[t][q - MinPrice]
    BY <1>5, <2>1
  <2>. QED  BY <1>7, <2>2, BitLevelIs
<1>10. Holds(lv, bitLinks, Q)
  BY <1>2, <1>7
<1>11. PICK R : R = Left(Q, s, p, i)
  OBVIOUS
<1>12. Holds(mv, UnlinkLinks(bitLinks, o), R)
  <2>1. R = [Q EXCEPT ![s][p] = RemoveAt(Q[s][p], i)]
    BY <1>11 DEF Left
  <2>3. Unhooked(lv, mv, bitLinks, o, s, p)
    BY <1>5, <1>8, <1>9 DEF Unhooked
  <2>4. s \in Side /\ p \in Price /\ i \in 1..Len(Q[s][p]) /\ o = Q[s][p][i]
    BY <1>5, <1>6
  <2>5. Holds(mv, UnlinkLinks(bitLinks, o), [Q EXCEPT ![s][p] = RemoveAt(Q[s][p], i)])
    BY <1>10, <2>3, <2>4, HoldsUnlink
  <2>. QED  BY <2>1, <2>5
<1>13. Holds(BitLevels', bitLinks', R)
  BY <1>5, <1>7, <1>12
<1>14. NoRepeats(Q)
  BY <1>2 DEF Holds, IsList, NoRepeats
<1>15. Placed(R)'
  BY <1>2, <1>4, <1>6, <1>11, <1>14, PlacedLeaves
<1>16. ListInv' /\ Bitset!Queue' = R
  BY <1>3, <1>5, <1>13, <1>15, QueueBecomes
<1>. QED  BY <1>1, <1>4, <1>5, <1>6, <1>11, <1>16

\* A reduction moves no order.
LEMMA ReduceLists ==
    ASSUME ListInv, NEW o \in Slot, NEW traded \in Sizes, Reduce(o, traded)
    PROVE  ListInv' /\ Bitset!Queue' = Bitset!Queue
<1>1. PICK Q : Q = Bitset!Queue
  OBVIOUS
<1>2. /\ SlotsInv /\ LevelsTyped /\ Holds(BitLevels, bitLinks, Q) /\ Placed(Q)
      /\ Q \in [Side -> [Price -> Seq(Slot)]]
  BY <1>1 DEF ListInv, Holds
<1>3. SlotsInv'
  BY <1>2, SlotReduced
<1>4. /\ LevelsTyped' /\ bitLinks' = bitLinks
      /\ \A t \in Side, j \in Indexes :
            /\ level'[t][j].head = level[t][j].head
            /\ level'[t][j].tail = level[t][j].tail
            /\ level'[t][j].count = level[t][j].count
  BY <1>2, ReduceLevel
<1>5. \A t \in Side, q \in Price : /\ BitLevels'[t][q].head = BitLevels[t][q].head
                                   /\ BitLevels'[t][q].tail = BitLevels[t][q].tail
                                   /\ BitLevels'[t][q].count = BitLevels[t][q].count
  BY <1>4, BitLevelIs, BandFacts
<1>6. Holds(BitLevels', bitLinks', Q)
  BY <1>2, <1>4, <1>5, HoldsSame
<1>7. Placed(Q)'
  BY <1>2, PlacedStays
<1>8. ListInv' /\ Bitset!Queue' = Q
  BY <1>3, <1>4, <1>6, <1>7, QueueBecomes
<1>. QED  BY <1>1, <1>8

\* A step that changes nothing the lists are made of.
LEMMA StillLists ==
    ASSUME ListInv, UNCHANGED vars
    PROVE  ListInv' /\ Bitset!Queue' = Bitset!Queue
<1>1. UNCHANGED <<order, free, level, bitLinks>>
  BY DEF vars, Bitset!vars
<1>2. BitLevels' = BitLevels
  BY <1>1 DEF BitLevels
<1>3. Bitset!Queue' = Bitset!Queue
  BY <1>1 DEF Bitset!Queue
<1>4. SlotsInv'
  BY <1>1 DEF ListInv, SlotsInv, Idle
<1>5. LevelsTyped'
  BY <1>1 DEF ListInv, LevelsTyped
<1>6. Holds(BitLevels, bitLinks, Bitset!Queue)'
  BY <1>1, <1>2, <1>3 DEF ListInv, Holds, IsList
<1>7. Placed(Bitset!Queue)'
  BY <1>1, <1>3 DEF ListInv, Placed, Idle
<1>. QED  BY <1>3, <1>4, <1>5, <1>6, <1>7 DEF ListInv

\* In every reachable state the slots, levels and pointers of the bitset book spell
\* queues: each resting order once, in the queue of its side and price, the links of
\* every list whole and no two lists sharing an order (price_level.hpp, order_book.hpp).
THEOREM ListsHold == Spec => []ListInv
<1>1. Init => ListInv
  BY ListInit
<1>2. ListInv /\ [Next]_vars => ListInv'
  BY RestLists, LeaveLists, ReduceLists, StillLists DEF Next
<1>. QED  BY <1>1, <1>2, PTL DEF Spec

-----------------------------------------------------------------------------
(* The bitset book implements the queues.                                   *)

\* The instance of LevelQueues has helpers of its own.
LEMMA SameQueues ==
    /\ Queues!Side = Side /\ Queues!Price = Price
    /\ \A h, k : Queues!RemoveAt(h, k) = RemoveAt(h, k)
    /\ \A h : Queues!ToSet(h) = ToSet(h)
<1>1. Queues!Side = Side /\ Queues!Price = Price
  BY DEF Queues!Side, Side, Queues!Price, Price
<1>2. \A h, k : Queues!RemoveAt(h, k) = RemoveAt(h, k)
  BY DEF Queues!RemoveAt, RemoveAt
<1>3. \A h : Queues!ToSet(h) = ToSet(h)
  BY DEF Queues!ToSet, ToSet
<1>. QED  BY <1>1, <1>2, <1>3

\* A resting order is queued, and one of a free slot is not.
LEMMA QueuedMeans ==
    ASSUME ListInv, NEW o \in Slot
    PROVE  Queues!Queued(o) <=> ~Idle(o)
<1>1. \A s \in Side, p \in Price : /\ Bitset!Queue[s][p] \in Seq(Slot)
                                   /\ DOMAIN Bitset!Queue[s][p] = 1..Len(Bitset!Queue[s][p])
  BY LenProperties DEF ListInv, Holds
<1>2. Queues!Queued(o) <=> \E s \in Side, p \in Price :
                              \E k \in 1..Len(Bitset!Queue[s][p]) : Bitset!Queue[s][p][k] = o
  BY <1>1, SameQueues DEF Queues!Queued, ToSet
<1>3. ASSUME ~Idle(o) PROVE Queues!Queued(o)
  <2>1. order[o] \in Holding /\ order[o].price \in Price
    BY <1>3 DEF ListInv, SlotsInv
  <2>2. order[o].side \in Side
    BY <2>1 DEF Holding
  <2>3. \E k \in 1..Len(Bitset!Queue[order[o].side][order[o].price]) :
           Bitset!Queue[order[o].side][order[o].price][k] = o
    BY <1>3 DEF ListInv, Placed
  <2>. QED  BY <1>2, <2>1, <2>2, <2>3
<1>4. ASSUME Idle(o) PROVE ~Queues!Queued(o)
  <2>1. \A t \in Side, q \in Price : \A k \in 1..Len(Bitset!Queue[t][q]) :
           Bitset!Queue[t][q][k] # o
    BY <1>4, IdleIsOut DEF ListInv
  <2>. QED  BY <1>2, <2>1
<1>. QED  BY <1>3, <1>4

\* The open sizes are those of the slots.
LEMMA OpenIs ==
    /\ Open = [o \in Slot |-> order[o].remaining]
    /\ Open' = [o \in Slot |-> order'[o].remaining]
  BY DEF Open

\* At the start every queue is empty and nothing is open.
LEMMA QueuesInit ==
    ASSUME Init
    PROVE  Queues!Init
<1>1. Bitset!Queue = [s \in Side |-> [p \in Price |-> <<>>]]
  BY ListInit
<1>2. \A o \in Slot : order[o].remaining = 0
  BY DEF Init, Blank
<1>3. Open = [o \in Slot |-> 0]
  BY <1>2, OpenIs
<1>. QED  BY <1>1, <1>3, SameQueues DEF Queues!Init

\* Resting an order is resting it in its queue.
LEMMA QueuesRest ==
    ASSUME ListInv, NEW o \in Slot, NEW r \in Offers, Rest(o, r)
    PROVE  Queues!Next
<1>1. r.side \in Side /\ r.price \in Price /\ r.remaining \in Nat \ {0}
  BY OfferTypes
<1>2. r.remaining \in Sizes
  <2>1. r.remaining \in 1..r.remaining
    BY <1>1
  <2>. QED  BY <2>1 DEF Sizes
<1>3. Bitset!Queue' = Joined(Bitset!Queue, o, r)
  BY RestLists
<1>4. SlotsInv
  BY DEF ListInv
<1>5. Idle(o) /\ order'[o] = r /\ \A x \in Slot : x # o => order'[x] = order[x]
  BY <1>4, SlotTaken
<1>6. Open' = [Open EXCEPT ![o] = r.remaining]
  <2>1. \A x \in Slot : order'[x].remaining = IF x = o THEN r.remaining ELSE order[x].remaining
    BY <1>5
  <2>2. Open' = [x \in Slot |-> IF x = o THEN r.remaining ELSE order[x].remaining]
    BY <2>1, OpenIs
  <2>3. [Open EXCEPT ![o] = r.remaining]
           = [x \in Slot |-> IF x = o THEN r.remaining ELSE order[x].remaining]
    BY OpenIs
  <2>. QED  BY <2>2, <2>3
<1>7. ~Queues!Queued(o)
  BY <1>5, QueuedMeans
<1>8. Bitset!Queue' = [Bitset!Queue EXCEPT ![r.side][r.price] = Append(@, o)]
  BY <1>3 DEF Joined
<1>9. Queues!Rest(o, r.side, r.price, r.remaining)
  BY <1>6, <1>7, <1>8 DEF Queues!Rest
<1>. QED  BY <1>1, <1>2, <1>9, SameQueues DEF Queues!Next

\* Removing one is withdrawing it from its queue.
LEMMA QueuesLeave ==
    ASSUME ListInv, NEW o \in Slot, Leave(o)
    PROVE  Queues!Next
<1>1. PICK s \in Side, p \in Price : \E i \in 1..Len(Bitset!Queue[s][p]) :
               /\ Bitset!Queue[s][p][i] = o
               /\ Bitset!Queue' = Left(Bitset!Queue, s, p, i)
  BY LeaveLists
<1>2. PICK i \in 1..Len(Bitset!Queue[s][p]) :
               /\ Bitset!Queue[s][p][i] = o
               /\ Bitset!Queue' = Left(Bitset!Queue, s, p, i)
  BY <1>1
<1>3. i \in DOMAIN Bitset!Queue[s][p]
  <2>1. Bitset!Queue[s][p] \in Seq(Slot)
    BY DEF ListInv, Holds
  <2>. QED  BY <2>1, LenProperties
<1>4. SlotsInv
  BY DEF ListInv
<1>5. order'[o] = Blank /\ \A x \in Slot : x # o => order'[x] = order[x]
  BY <1>4, SlotGiven
<1>6. Open' = [Open EXCEPT ![o] = 0]
  <2>1. \A x \in Slot : order'[x].remaining = IF x = o THEN 0 ELSE order[x].remaining
    BY <1>5 DEF Blank
  <2>2. Open' = [x \in Slot |-> IF x = o THEN 0 ELSE order[x].remaining]
    BY <2>1, OpenIs
  <2>3. [Open EXCEPT ![o] = 0] = [x \in Slot |-> IF x = o THEN 0 ELSE order[x].remaining]
    BY OpenIs
  <2>. QED  BY <2>2, <2>3
<1>7. Bitset!Queue' = [Bitset!Queue EXCEPT ![s][p] = Queues!RemoveAt(@, i)]
  BY <1>2, SameQueues DEF Left
<1>8. s \in Queues!Side /\ p \in Queues!Price
  BY SameQueues
<1>9. \E k \in DOMAIN Bitset!Queue[s][p] :
         /\ Bitset!Queue[s][p][k] = o
         /\ Bitset!Queue' = [Bitset!Queue EXCEPT ![s][p] = Queues!RemoveAt(@, k)]
  <2>1. Bitset!Queue[s][p][i] = o
    BY <1>2
  <2>. QED  BY <1>3, <1>7, <2>1, Zenon
<1>10. Queues!Withdraw(o)
  BY <1>6, <1>8, <1>9, Zenon DEF Queues!Withdraw
<1>. QED  BY <1>10 DEF Queues!Next

\* A reduction in place reduces the open size, and the order keeps its place.
LEMMA QueuesReduce ==
    ASSUME ListInv, NEW o \in Slot, NEW traded \in Sizes, Reduce(o, traded)
    PROVE  Queues!Next
<1>1. SlotsInv
  BY DEF ListInv
<1>2. /\ ~Idle(o) /\ traded \in Nat \ {0} /\ traded < order[o].remaining
      /\ order'[o].remaining = order[o].remaining - traded
      /\ \A x \in Slot : x # o => order'[x].remaining = order[x].remaining
  BY <1>1, SlotReduced
<1>3. Bitset!Queue' = Bitset!Queue
  BY ReduceLists
<1>4. Open' = [Open EXCEPT ![o] = @ - traded]
  <2>1. \A x \in Slot : order'[x].remaining =
           IF x = o THEN order[x].remaining - traded ELSE order[x].remaining
    BY <1>2
  <2>2. Open' = [x \in Slot |-> IF x = o THEN order[x].remaining - traded
                                ELSE order[x].remaining]
    BY <2>1, OpenIs
  <2>3. [Open EXCEPT ![o] = @ - traded]
           = [x \in Slot |-> IF x = o THEN order[x].remaining - traded
                             ELSE order[x].remaining]
    BY OpenIs
  <2>. QED  BY <2>2, <2>3
<1>5. traded < Open[o] /\ Open[o] = order[o].remaining
  BY <1>2, OpenIs
<1>6. Queues!Queued(o)
  BY <1>2, QueuedMeans
<1>7. Queues!Reduce(o, traded)
  BY <1>3, <1>4, <1>5, <1>6 DEF Queues!Reduce
<1>8. traded \in 1..Open[o]
  <2>1. order[o].remaining \in Nat
    <3>1. order[o] \in Holding
      BY <1>1 DEF SlotsInv
    <3>. QED  BY <3>1 DEF Holding
  <2>. QED  BY <1>2, <1>5, <2>1
<1>. QED  BY <1>7, <1>8 DEF Queues!Next

\* The bitset book is a FIFO queue per side and price: whatever the order of the
\* calls, links, level array and slot pool keep each order in its place, and no slot
\* is handed out while it is queued (order_book.hpp, price_level.hpp, object_pool.hpp).
THEOREM QueuesImplemented == Spec => ImplementsLevelQueues
<1>1. Init => Queues!Init
  BY QueuesInit
<1>2. ListInv /\ [Next]_vars => [Queues!Next]_<<Bitset!Queue, Open>>
  <2> SUFFICES ASSUME ListInv, [Next]_vars
               PROVE  [Queues!Next]_<<Bitset!Queue, Open>>
    OBVIOUS
  <2>1. CASE UNCHANGED vars
    <3>1. Bitset!Queue' = Bitset!Queue
      BY <2>1, StillLists
    <3>2. Open' = Open
      BY <2>1, OpenIs DEF vars
    <3>. QED  BY <3>1, <3>2
  <2>2. CASE Next
    BY <2>2, QueuesRest, QueuesLeave, QueuesReduce DEF Next
  <2>. QED  BY <2>1, <2>2
<1>. QED  BY <1>1, <1>2, ListsHold, PTL DEF Spec, ImplementsLevelQueues, Queues!Spec

-----------------------------------------------------------------------------
(* The two bitset levels.                                                   *)

WordIndexes == 0..(Bitset!WordCount - 1)
SummaryIndexes == 0..(Bitset!SummaryCount - 1)

\* Quotient and remainder of an index and the size of its group.
LEMMA GroupOf ==
    ASSUME NEW b \in Nat \ {0}, NEW a \in Int
    PROVE  a \div b \in Int /\ a % b \in 0..(b - 1) /\ a = b * (a \div b) + (a % b)
<1>1. a \div b \in Int /\ a % b \in 0..(b - 1)
  OBVIOUS
<1>2. a = b * (a \div b) + (a % b)
  BY Z3
<1>. QED  BY <1>1, <1>2

\* A multiple of a larger number is not smaller.
LEMMA LargerMultiple ==
    ASSUME NEW b \in Nat \ {0}, NEW c \in Int, NEW d \in Int, c < d
    PROVE  b * c + b <= b * d
<1>1. b * d = b * c + b * (d - c)
  BY Z3
<1>2. b * (d - c) >= b
  <2> DEFINE e == (d - c) - 1
  <2>1. e \in Nat /\ d - c = e + 1
    OBVIOUS
  <2> HIDE DEF e
  <2>2. b * (e + 1) = b * e + b /\ b * e \in Nat
    BY <2>1, Z3
  <2>. QED  BY <2>1, <2>2
<1>3. b * c \in Int /\ b * d \in Int /\ b * (d - c) \in Int
  OBVIOUS
<1>. QED  BY <1>1, <1>2, <1>3

\* A natural number has a natural quotient.
LEMMA NaturalQuotient ==
    ASSUME NEW b \in Nat \ {0}, NEW a \in Nat
    PROVE  a \div b \in Nat
<1> DEFINE d == a \div b
           r == a % b
<1>1. d \in Int /\ r \in 0..(b - 1) /\ a = b * d + r
  BY GroupOf
<1> HIDE DEF d, r
<1>2. ~(d < 0)
  <2> SUFFICES ASSUME d < 0 PROVE FALSE
    OBVIOUS
  <2>1. b * d + b <= b * 0
    BY <1>1, LargerMultiple
  <2>2. b * 0 = 0 /\ b * d \in Int
    BY <1>1
  <2>. QED  BY <1>1, <2>1, <2>2
<1>. QED  BY <1>1, <1>2 DEF d

\* n things in groups of b: each is in one of the groups that are counted.
LEMMA GroupIsCounted ==
    ASSUME NEW b \in Nat \ {0}, NEW n \in Nat, NEW i \in 0..(n - 1)
    PROVE  i \div b \in 0..(((n + b - 1) \div b) - 1)
<1> DEFINE d == i \div b
           r == i % b
           D == (n + b - 1) \div b
           R == (n + b - 1) % b
<1>1. d \in Int /\ r \in 0..(b - 1) /\ i = b * d + r
  BY GroupOf
<1>2. D \in Int /\ R \in 0..(b - 1) /\ n + b - 1 = b * D + R
  <2>1. n + b - 1 \in Int
    OBVIOUS
  <2>. QED  BY <2>1, GroupOf
<1> HIDE DEF d, r, D, R
<1>3. b * d \in Int /\ b * D \in Int
  BY <1>1, <1>2
<1>4. ~(d < 0)
  <2>1. d \in Nat
    BY NaturalQuotient DEF d
  <2>. QED  BY <2>1
<1>5. d < D
  <2> SUFFICES ASSUME ~(d < D) PROVE FALSE
    OBVIOUS
  <2>1. b * D <= b * d
    <3>1. CASE d = D
      BY <1>3, <3>1
    <3>2. CASE D < d
      <4>1. b * D + b <= b * d
        BY <1>1, <1>2, <3>2, LargerMultiple
      <4>. QED  BY <1>3, <4>1
    <3>. QED  BY <1>1, <1>2, <3>1, <3>2
  <2> DEFINE x == b * d
             y == b * D
  <2>2. x \in Int /\ y \in Int /\ y <= x /\ i = x + r /\ n + b - 1 = y + R
    BY <1>1, <1>2, <1>3, <2>1
  <2> HIDE DEF x, y
  <2>. QED  BY <1>1, <1>2, <2>2
<1>6. d \in 0..(D - 1)
  BY <1>1, <1>2, <1>4, <1>5
<1>. QED  BY <1>6 DEF d, D

\* Two indices with the same group and the same place in it are one.
LEMMA OnePlace ==
    ASSUME NEW b \in Nat \ {0}, NEW i \in Int, NEW j \in Int,
           i \div b = j \div b, i % b = j % b
    PROVE  i = j
<1>1. i = b * (i \div b) + (i % b) /\ j = b * (j \div b) + (j % b)
  BY GroupOf
<1>. QED  BY <1>1

\* Where a level's bit and its word's bit are.
LEMMA BitFacts ==
    /\ Bits \in Nat \ {0} /\ Bitset!WordCount \in Nat
    /\ \A i \in Indexes : i \in Int /\ i \div Bits \in WordIndexes /\ i % Bits \in Nat
    /\ \A w \in WordIndexes : w \in Int /\ w \div Bits \in SummaryIndexes /\ w % Bits \in Nat
<1>1. Bits \in Nat \ {0}
  BY StorageAssumption
<1>2. Bitset!Span \in Nat \ {0}
  BY BandFacts
<1>3. ASSUME NEW n \in Nat PROVE (n + Bits - 1) \div Bits \in Nat
  <2>1. n + Bits - 1 \in Nat
    BY <1>1
  <2>. QED  BY <1>1, <2>1, NaturalQuotient
<1>4. Bitset!WordCount \in Nat
  BY <1>2, <1>3 DEF Bitset!WordCount
<1>5. ASSUME NEW i \in Indexes
      PROVE  i \in Int /\ i \div Bits \in WordIndexes /\ i % Bits \in Nat
  <2>1. i \in 0..(Bitset!Span - 1) /\ i \in Int
    BY <1>2 DEF Indexes
  <2>2. i \div Bits \in WordIndexes
    BY <1>1, <1>2, <2>1, GroupIsCounted DEF WordIndexes, Bitset!WordCount
  <2>3. i % Bits \in 0..(Bits - 1)
    BY <1>1, <2>1, GroupOf
  <2>. QED  BY <1>1, <2>1, <2>2, <2>3
<1>6. ASSUME NEW w \in WordIndexes
      PROVE  w \in Int /\ w \div Bits \in SummaryIndexes /\ w % Bits \in Nat
  <2>1. w \in 0..(Bitset!WordCount - 1) /\ w \in Int
    BY <1>4 DEF WordIndexes
  <2>2. w \div Bits \in SummaryIndexes
    BY <1>1, <1>4, <2>1, GroupIsCounted DEF SummaryIndexes, Bitset!SummaryCount
  <2>3. w % Bits \in 0..(Bits - 1)
    BY <1>1, <2>1, GroupOf
  <2>. QED  BY <1>1, <2>1, <2>2, <2>3
<1>. QED  BY <1>1, <1>4, <1>5, <1>6

WordsTyped ==
    /\ words \in [Side -> [WordIndexes -> SUBSET Nat]]
    /\ summary \in [Side -> [SummaryIndexes -> SUBSET Nat]]
BitsTrue ==
    \A s \in Side, i \in Indexes : i % Bits \in words[s][i \div Bits] <=> level[s][i].head # Null
SummaryTrue ==
    \A s \in Side, w \in WordIndexes : w % Bits \in summary[s][w \div Bits] <=> words[s][w] # {}
PricesTrue ==
    \A s \in Side, i \in Indexes : level[s][i].head = Null <=> level[s][i].price = NoPrice
BitsInv == WordsTyped /\ BitsTrue /\ SummaryTrue /\ PricesTrue

\* These are the parts of BitsAgree.
LEMMA BitsParts == BitsInv => BitsAgree
<1>1. \A l : Bitset!IsEmpty(l) <=> l.head = Null
  BY DEF Bitset!IsEmpty
<1>. QED
  BY <1>1, SameBitset DEF BitsInv, BitsTrue, SummaryTrue, PricesTrue, BitsAgree, Bitset!BitsAgree,
                          Bitset!TestBit, Indexes, WordIndexes

\* Setting the bit of a level whose list is no longer empty.
LEMMA BitIsSet ==
    ASSUME WordsTyped, BitsTrue, SummaryTrue, NEW s \in Side, NEW i \in Indexes,
           Bitset!SetBit(s, i), level'[s][i].head # Null,
           \A t \in Side, j \in Indexes : ~(t = s /\ j = i) => level'[t][j].head = level[t][j].head
    PROVE  (WordsTyped /\ BitsTrue /\ SummaryTrue)'
<1> DEFINE w == i \div Bits
           b == i % Bits
           v == w \div Bits
           c == w % Bits
           wd == words[s][w] \cup {b}
           sm == summary[s][v] \cup {c}
<1>1. w \in WordIndexes /\ b \in Nat /\ v \in SummaryIndexes /\ c \in Nat
  BY BitFacts
<1>2. words' = [words EXCEPT ![s][w] = wd] /\ summary' = [summary EXCEPT ![s][v] = sm]
  BY DEF Bitset!SetBit
<1>3. wd \in SUBSET Nat /\ sm \in SUBSET Nat
  BY <1>1 DEF WordsTyped
<1> HIDE DEF wd, sm, w, b, v, c
<1>4. /\ words' \in [Side -> [WordIndexes -> SUBSET Nat]] /\ words'[s][w] = wd
      /\ \A t \in Side, x \in WordIndexes : ~(t = s /\ x = w) => words'[t][x] = words[t][x]
  BY <1>1, <1>2, <1>3, OneCell DEF WordsTyped
<1>5. /\ summary' \in [Side -> [SummaryIndexes -> SUBSET Nat]] /\ summary'[s][v] = sm
      /\ \A t \in Side, x \in SummaryIndexes : ~(t = s /\ x = v) => summary'[t][x] = summary[t][x]
  BY <1>1, <1>2, <1>3, OneCell DEF WordsTyped
<1>6. ASSUME NEW t \in Side, NEW j \in Indexes
      PROVE  j % Bits \in words'[t][j \div Bits] <=> level'[t][j].head # Null
  <2> DEFINE jw == j \div Bits
             jb == j % Bits
  <2>1. jw \in WordIndexes /\ (jb \in words[t][jw] <=> level[t][j].head # Null)
    BY BitFacts DEF BitsTrue
  <2>2. CASE t = s /\ j = i
    <3>1. jw = w /\ jb = b
      BY <2>2 DEF w, b
    <3>. QED  BY <1>4, <2>2, <3>1 DEF wd
  <2>3. CASE ~(t = s /\ j = i)
    <3>1. level'[t][j].head = level[t][j].head
      BY <2>3
    <3>2. t = s /\ jw = w => jb # b
      <4>1. i \in Int /\ j \in Int /\ Bits \in Nat \ {0}
        BY BitFacts
      <4>. QED  BY <2>3, <4>1, OnePlace DEF w, b
    <3> HIDE DEF jw, jb
    <3>3. CASE t = s /\ jw = w
      <4>1. jb \in words'[t][jw] <=> jb \in words[t][jw]
        BY <1>4, <3>2, <3>3 DEF wd
      <4>. QED  BY <2>1, <3>1, <4>1 DEF jw, jb
    <3>4. CASE ~(t = s /\ jw = w)
      <4>1. words'[t][jw] = words[t][jw]
        BY <1>4, <2>1, <3>4
      <4>. QED  BY <2>1, <3>1, <4>1 DEF jw, jb
    <3>. QED  BY <3>3, <3>4
  <2>. QED  BY <2>2, <2>3
<1>7. ASSUME NEW t \in Side, NEW x \in WordIndexes
      PROVE  x % Bits \in summary'[t][x \div Bits] <=> words'[t][x] # {}
  <2> DEFINE xv == x \div Bits
             xc == x % Bits
  <2>1. xv \in SummaryIndexes /\ (xc \in summary[t][xv] <=> words[t][x] # {})
    BY BitFacts DEF SummaryTrue
  <2>2. CASE t = s /\ x = w
    <3>1. xv = v /\ xc = c
      BY <2>2 DEF v, c
    <3>2. words'[t][x] # {}
      BY <1>4, <2>2 DEF wd
    <3>. QED  BY <1>5, <2>2, <3>1, <3>2 DEF sm
  <2>3. CASE ~(t = s /\ x = w)
    <3>1. words'[t][x] = words[t][x]
      BY <1>4, <2>3
    <3>2. t = s /\ xv = v => xc # c
      <4>1. x \in Int /\ w \in Int /\ Bits \in Nat \ {0}
        BY <1>1, BitFacts
      <4>. QED  BY <2>3, <4>1, OnePlace DEF v, c
    <3> HIDE DEF xv, xc
    <3>3. CASE t = s /\ xv = v
      <4>1. xc \in summary'[t][xv] <=> xc \in summary[t][xv]
        BY <1>5, <3>2, <3>3 DEF sm
      <4>. QED  BY <2>1, <3>1, <4>1 DEF xv, xc
    <3>4. CASE ~(t = s /\ xv = v)
      <4>1. summary'[t][xv] = summary[t][xv]
        BY <1>5, <2>1, <3>4
      <4>. QED  BY <2>1, <3>1, <4>1 DEF xv, xc
    <3>. QED  BY <3>3, <3>4
  <2>. QED  BY <2>2, <2>3
<1>. QED  BY <1>4, <1>5, <1>6, <1>7 DEF WordsTyped, BitsTrue, SummaryTrue

\* Clearing the bit of a level whose list has become empty; the summary bit goes with
\* the word's last.
LEMMA BitIsCleared ==
    ASSUME WordsTyped, BitsTrue, SummaryTrue, NEW s \in Side, NEW i \in Indexes,
           Bitset!ClearBit(s, i), level[s][i].head # Null, level'[s][i].head = Null,
           \A t \in Side, j \in Indexes : ~(t = s /\ j = i) => level'[t][j].head = level[t][j].head
    PROVE  (WordsTyped /\ BitsTrue /\ SummaryTrue)'
<1> DEFINE w == i \div Bits
           b == i % Bits
           v == w \div Bits
           c == w % Bits
           wd == words[s][w] \ {b}
           sm == IF wd = {} THEN summary[s][v] \ {c} ELSE summary[s][v]
<1>1. w \in WordIndexes /\ b \in Nat /\ v \in SummaryIndexes /\ c \in Nat
  BY BitFacts
<1>2. /\ words' = [words EXCEPT ![s][w] = wd]
      /\ summary' = IF words'[s][w] = {} THEN [summary EXCEPT ![s][v] = summary[s][v] \ {c}]
                    ELSE summary
  BY DEF Bitset!ClearBit
<1>3. wd \in SUBSET Nat /\ sm \in SUBSET Nat
  BY <1>1 DEF WordsTyped
<1>0. c \in summary[s][v] /\ b \in words[s][w]
  <2>1. b \in words[s][w]
    BY DEF BitsTrue
  <2>. QED  BY <1>1, <2>1 DEF SummaryTrue
<1> HIDE DEF wd, w, b, v, c
<1>4. /\ words' \in [Side -> [WordIndexes -> SUBSET Nat]] /\ words'[s][w] = wd
      /\ \A t \in Side, x \in WordIndexes : ~(t = s /\ x = w) => words'[t][x] = words[t][x]
  BY <1>1, <1>2, <1>3, OneCell DEF WordsTyped
<1>5. /\ summary' \in [Side -> [SummaryIndexes -> SUBSET Nat]] /\ summary'[s][v] = sm
      /\ \A t \in Side, x \in SummaryIndexes : ~(t = s /\ x = v) => summary'[t][x] = summary[t][x]
  <2>1. CASE wd = {}
    <3> DEFINE e == summary[s][v] \ {c}
    <3>1. summary' = [summary EXCEPT ![s][v] = e] /\ sm = e
      BY <1>2, <1>4, <2>1
    <3>2. e \in SUBSET Nat
      BY <1>1 DEF WordsTyped
    <3>3. s \in Side /\ v \in SummaryIndexes /\ summary \in [Side -> [SummaryIndexes -> SUBSET Nat]]
      BY <1>1 DEF WordsTyped
    <3> HIDE DEF e, sm
    <3>4. /\ summary' \in [Side -> [SummaryIndexes -> SUBSET Nat]] /\ summary'[s][v] = e
          /\ \A t \in Side, x \in SummaryIndexes :
                ~(t = s /\ x = v) => summary'[t][x] = summary[t][x]
      BY <3>1, <3>2, <3>3, OneCell
    <3>. QED  BY <3>1, <3>4
  <2>2. CASE wd # {}
    BY <1>2, <1>4, <2>2 DEF WordsTyped
  <2>. QED  BY <2>1, <2>2
<1> HIDE DEF sm
<1>6. ASSUME NEW t \in Side, NEW j \in Indexes
      PROVE  j % Bits \in words'[t][j \div Bits] <=> level'[t][j].head # Null
  <2> DEFINE jw == j \div Bits
             jb == j % Bits
  <2>1. jw \in WordIndexes /\ (jb \in words[t][jw] <=> level[t][j].head # Null)
    BY BitFacts DEF BitsTrue
  <2>2. CASE t = s /\ j = i
    <3>1. jw = w /\ jb = b
      BY <2>2 DEF w, b
    <3>. QED  BY <1>4, <2>2, <3>1 DEF wd
  <2>3. CASE ~(t = s /\ j = i)
    <3>1. level'[t][j].head = level[t][j].head
      BY <2>3
    <3>2. t = s /\ jw = w => jb # b
      <4>1. i \in Int /\ j \in Int /\ Bits \in Nat \ {0}
        BY BitFacts
      <4>. QED  BY <2>3, <4>1, OnePlace DEF w, b
    <3> HIDE DEF jw, jb
    <3>3. CASE t = s /\ jw = w
      <4>1. jb \in words'[t][jw] <=> jb \in words[t][jw]
        BY <1>4, <3>2, <3>3 DEF wd
      <4>. QED  BY <2>1, <3>1, <4>1 DEF jw, jb
    <3>4. CASE ~(t = s /\ jw = w)
      <4>1. words'[t][jw] = words[t][jw]
        BY <1>4, <2>1, <3>4
      <4>. QED  BY <2>1, <3>1, <4>1 DEF jw, jb
    <3>. QED  BY <3>3, <3>4
  <2>. QED  BY <2>2, <2>3
<1>7. ASSUME NEW t \in Side, NEW x \in WordIndexes
      PROVE  x % Bits \in summary'[t][x \div Bits] <=> words'[t][x] # {}
  <2> DEFINE xv == x \div Bits
             xc == x % Bits
  <2>1. xv \in SummaryIndexes /\ (xc \in summary[t][xv] <=> words[t][x] # {})
    BY BitFacts DEF SummaryTrue
  <2>2. CASE t = s /\ x = w
    <3>1. xv = v /\ xc = c
      BY <2>2 DEF v, c
    <3>2. c \in sm <=> wd # {}
      BY <1>0 DEF sm
    <3>. QED  BY <1>4, <1>5, <2>2, <3>1, <3>2
  <2>3. CASE ~(t = s /\ x = w)
    <3>1. words'[t][x] = words[t][x]
      BY <1>4, <2>3
    <3>2. t = s /\ xv = v => xc # c
      <4>1. x \in Int /\ w \in Int /\ Bits \in Nat \ {0}
        BY <1>1, BitFacts
      <4>. QED  BY <2>3, <4>1, OnePlace DEF v, c
    <3> HIDE DEF xv, xc
    <3>3. CASE t = s /\ xv = v
      <4>1. xc \in summary'[t][xv] <=> xc \in summary[t][xv]
        BY <1>5, <3>2, <3>3 DEF sm
      <4>. QED  BY <2>1, <3>1, <4>1 DEF xv, xc
    <3>4. CASE ~(t = s /\ xv = v)
      <4>1. summary'[t][xv] = summary[t][xv]
        BY <1>5, <2>1, <3>4
      <4>. QED  BY <2>1, <3>1, <4>1 DEF xv, xc
    <3>. QED  BY <3>3, <3>4
  <2>. QED  BY <2>2, <2>3
<1>. QED  BY <1>4, <1>5, <1>6, <1>7 DEF WordsTyped, BitsTrue, SummaryTrue

\* No bit moves while no list empties or stops being empty.
LEMMA BitsAreKept ==
    ASSUME WordsTyped, BitsTrue, SummaryTrue, UNCHANGED <<words, summary>>,
           \A t \in Side, j \in Indexes :
              level'[t][j].head = Null <=> level[t][j].head = Null
    PROVE  (WordsTyped /\ BitsTrue /\ SummaryTrue)'
<1>1. WordsTyped'
  BY DEF WordsTyped
<1>2. BitsTrue'
  BY DEF BitsTrue
<1>3. SummaryTrue'
  BY DEF SummaryTrue
<1>. QED  BY <1>1, <1>2, <1>3

\* A level has a head and a tail, or neither; it has both while an order is queued.
LEMMA HeadAndTail ==
    ASSUME ListInv, NEW s \in Side, NEW i \in Indexes
    PROVE  /\ level[s][i].head = Null <=> level[s][i].tail = Null
           /\ \A k \in 1..Len(Bitset!Queue[s][i + MinPrice]) : level[s][i].head # Null
<1> DEFINE p == i + MinPrice
           h == Bitset!Queue[s][p]
           l == level[s][i]
<1>1. p \in Price /\ p - MinPrice = i
  BY BandFacts
<1>2. BitLevels[s][p] = l
  BY <1>1, BitLevelIs
<1> HIDE DEF p, h, l
<1>3. IsList(l, bitLinks, h)
  BY <1>1, <1>2 DEF ListInv, Holds, h
<1>4. /\ h \in Seq(Slot) /\ Len(h) \in Nat
      /\ l.head = IF Len(h) = 0 THEN Null ELSE h[1]
      /\ l.tail = IF Len(h) = 0 THEN Null ELSE h[Len(h)]
  BY <1>3, LenProperties DEF IsList
<1>5. \A k \in 1..Len(h) : h[k] # Null
  BY <1>4, QueueTypes
<1>6. Len(h) # 0 => 1 \in 1..Len(h) /\ Len(h) \in 1..Len(h)
  BY <1>4
<1>7. l.head = Null <=> Len(h) = 0
  BY <1>4, <1>5, <1>6
<1>8. l.tail = Null <=> Len(h) = 0
  BY <1>4, <1>5, <1>6
<1>9. \A k \in 1..Len(h) : Len(h) # 0
  BY <1>4
<1>. QED  BY <1>7, <1>8, <1>9 DEF l, h, p

\* Nothing is set at the start.
LEMMA BitsInit ==
    ASSUME Init
    PROVE  BitsInv
<1>1. /\ level = [s \in Side |-> [i \in Indexes |-> EmptyLevel]]
      /\ words = [s \in Side |-> [w \in WordIndexes |-> {}]]
      /\ summary = [s \in Side |-> [v \in SummaryIndexes |-> {}]]
  BY SameBitset DEF Init, Bitset!Init, Indexes, WordIndexes, SummaryIndexes
<1>2. \A s \in Side, i \in Indexes : level[s][i].head = Null /\ level[s][i].price = NoPrice
  BY <1>1 DEF EmptyLevel
<1>3. \A s \in Side : (\A w \in WordIndexes : words[s][w] = {})
                      /\ \A v \in SummaryIndexes : summary[s][v] = {}
  BY <1>1
<1>4. WordsTyped
  BY <1>1 DEF WordsTyped
<1>. QED
  BY <1>2, <1>3, <1>4, BitFacts DEF BitsInv, BitsTrue, SummaryTrue, PricesTrue

\* An order that rests sets the bit of a level that was empty.
LEMMA BitsRest ==
    ASSUME ListInv, BitsInv, NEW o \in Slot, NEW r \in Offers, Rest(o, r)
    PROVE  BitsInv'
<1>1. PICK s, i : s = r.side /\ i = r.price - MinPrice
  OBVIOUS
<1>2. /\ s \in Side /\ i \in Indexes
      /\ level'[s][i].price = (IF IsEmpty(level[s][i]) THEN r.price ELSE level[s][i].price)
      /\ level'[s][i].head = (IF level[s][i].tail = Null THEN o ELSE level[s][i].head)
      /\ \A t \in Side, j \in Indexes : ~(t = s /\ j = i) => level'[t][j] = level[t][j]
  BY <1>1, RestLevel DEF ListInv
<1>3. level[s][i].head = Null <=> level[s][i].tail = Null
  BY <1>2, HeadAndTail
<1>4. level'[s][i].head # Null
  BY <1>2, <1>3, SlotAssumption
<1>5. r.price \in Price /\ r.price # NoPrice /\ Bitset!Index(r.price) = i
  BY <1>1, OfferTypes, BandFacts
<1>6. PricesTrue'
  <2> SUFFICES ASSUME NEW t \in Side, NEW j \in Indexes
               PROVE  level'[t][j].head = Null <=> level'[t][j].price = NoPrice
    BY DEF PricesTrue
  <2>1. level[t][j].head = Null <=> level[t][j].price = NoPrice
    BY DEF BitsInv, PricesTrue
  <2>2. CASE t = s /\ j = i
    <3>1. level'[s][i].price # NoPrice
      BY <1>2, <1>5, <2>1, <2>2 DEF IsEmpty
    <3>. QED  BY <1>4, <2>2, <3>1
  <2>3. CASE ~(t = s /\ j = i)
    BY <1>2, <2>1, <2>3
  <2>. QED  BY <2>2, <2>3
<1>7. \/ IsEmpty(level[s][i]) /\ Bitset!SetBit(s, i)
      \/ ~IsEmpty(level[s][i]) /\ UNCHANGED <<words, summary>>
  BY <1>1, <1>5, SameBitset DEF Rest, Bitset!AddOrder
<1>8. \A t \in Side, j \in Indexes : ~(t = s /\ j = i) => level'[t][j].head = level[t][j].head
  BY <1>2
<1>9. CASE Bitset!SetBit(s, i)
  BY <1>2, <1>4, <1>6, <1>8, <1>9, BitIsSet DEF BitsInv
<1>10. CASE ~IsEmpty(level[s][i]) /\ UNCHANGED <<words, summary>>
  <2>1. \A t \in Side, j \in Indexes : level'[t][j].head = Null <=> level[t][j].head = Null
    BY <1>4, <1>8, <1>10 DEF IsEmpty
  <2>. QED  BY <1>6, <1>10, <2>1, BitsAreKept DEF BitsInv
<1>. QED  BY <1>7, <1>9, <1>10

\* An order that leaves clears it when it was the level's last.
LEMMA BitsLeave ==
    ASSUME ListInv, BitsInv, NEW o \in Slot, Leave(o)
    PROVE  BitsInv'
<1>1. PICK s, i : s = order[o].side /\ i = order[o].price - MinPrice
  OBVIOUS
<1>2. SlotsInv /\ LevelsTyped /\ bitLinks \in [Slot -> Link]
  BY DEF ListInv, Holds
<1>3. /\ s \in Side /\ i \in Indexes /\ order[o].price \in Price
      /\ level'[s][i].price = (IF level'[s][i].head = Null THEN NoPrice ELSE level[s][i].price)
      /\ \A t \in Side, j \in Indexes : ~(t = s /\ j = i) => level'[t][j] = level[t][j]
      /\ \/ level'[s][i].head = Null /\ Bitset!ClearBit(s, i)
         \/ level'[s][i].head # Null /\ UNCHANGED <<words, summary>>
  BY <1>1, <1>2, LeaveLevel
<1>4. level[s][i].head # Null
  <2>1. ~Idle(o)
    BY <1>2, SlotGiven
  <2>2. PICK k \in 1..Len(Bitset!Queue[s][order[o].price]) :
               Bitset!Queue[s][order[o].price][k] = o
    BY <1>1, <2>1 DEF ListInv, Placed
  <2>3. i + MinPrice = order[o].price
    BY <1>1, <1>3, BandFacts
  <2>. QED  BY <1>3, <2>2, <2>3, HeadAndTail
<1>5. PricesTrue'
  <2> SUFFICES ASSUME NEW t \in Side, NEW j \in Indexes
               PROVE  level'[t][j].head = Null <=> level'[t][j].price = NoPrice
    BY DEF PricesTrue
  <2>1. level[t][j].head = Null <=> level[t][j].price = NoPrice
    BY DEF BitsInv, PricesTrue
  <2>2. CASE t = s /\ j = i
    BY <1>3, <1>4, <2>1, <2>2
  <2>3. CASE ~(t = s /\ j = i)
    BY <1>3, <2>1, <2>3
  <2>. QED  BY <2>2, <2>3
<1>6. \A t \in Side, j \in Indexes : ~(t = s /\ j = i) => level'[t][j].head = level[t][j].head
  BY <1>3
<1>7. CASE level'[s][i].head = Null /\ Bitset!ClearBit(s, i)
  BY <1>3, <1>4, <1>5, <1>6, <1>7, BitIsCleared DEF BitsInv
<1>8. CASE level'[s][i].head # Null /\ UNCHANGED <<words, summary>>
  <2>1. \A t \in Side, j \in Indexes : level'[t][j].head = Null <=> level[t][j].head = Null
    BY <1>4, <1>6, <1>8
  <2>. QED  BY <1>5, <1>8, <2>1, BitsAreKept DEF BitsInv
<1>. QED  BY <1>3, <1>7, <1>8

\* A reduction touches no bit.
LEMMA BitsReduce ==
    ASSUME ListInv, BitsInv, NEW o \in Slot, NEW traded \in Sizes, Reduce(o, traded)
    PROVE  BitsInv'
<1>1. /\ \A t \in Side, j \in Indexes : /\ level'[t][j].price = level[t][j].price
                                        /\ level'[t][j].head = level[t][j].head
      /\ UNCHANGED <<words, summary>>
  BY ReduceLevel DEF ListInv
<1>2. PricesTrue'
  BY <1>1 DEF BitsInv, PricesTrue
<1>. QED  BY <1>1, <1>2, BitsAreKept DEF BitsInv

\* The two bitset levels agree with the lists in every reachable state: set_bit and
\* clear_bit keep a bit for exactly the levels that queue an order and a summary bit
\* for exactly the words with a bit, for every band and word size (order_book.hpp).
THEOREM BitsAlwaysAgree == Spec => []BitsAgree
<1>1. Init => BitsInv
  BY BitsInit
<1>2. ListInv /\ BitsInv /\ [Next]_vars => BitsInv'
  <2> SUFFICES ASSUME ListInv, BitsInv, [Next]_vars PROVE BitsInv'
    OBVIOUS
  <2>1. CASE UNCHANGED vars
    <3>1. UNCHANGED <<level, words, summary>>
      BY <2>1 DEF vars, Bitset!vars
    <3>. QED  BY <3>1 DEF BitsInv, WordsTyped, BitsTrue, SummaryTrue, PricesTrue
  <2>2. CASE Next
    BY <2>2, BitsRest, BitsLeave, BitsReduce DEF Next
  <2>. QED  BY <2>1, <2>2
<1>. QED  BY <1>1, <1>2, ListsHold, BitsParts, PTL DEF Spec

-----------------------------------------------------------------------------
(* The map book's allocator: its free list spells a sequence of nodes.      *)

Nodes == Map!Address
NodeCount == PerBlock * (MaxPrice - MinPrice + 1)
Pool == [free : Nodes \cup {-1}, next : [Nodes -> Nodes \cup {-1}], blocks : Nat]

\* The links of the free nodes spell f, from the head of the list.
FreeList(pl, f) ==
    /\ f \in Seq(Nodes)
    /\ \A j, k \in 1..Len(f) : f[j] = f[k] => j = k
    /\ pl.free = IF Len(f) = 0 THEN -1 ELSE f[1]
    /\ \A k \in 1..Len(f) : pl.next[f[k]] = IF k = Len(f) THEN -1 ELSE f[k + 1]
Listed(f) == {f[k] : k \in 1..Len(f)}

\* A function on 1..m is a sequence.
LEMMA ListOf ==
    ASSUME NEW m \in Nat, NEW S, NEW g \in [1..m -> S]
    PROVE  g \in Seq(S) /\ Len(g) = m
<1>1. \A i \in 1..m : g[i] \in S
  OBVIOUS
<1>2. [i \in 1..m |-> g[i]] \in Seq(S)
  BY <1>1, IsASeq
<1>3. g = [i \in 1..m |-> g[i]] /\ DOMAIN g = 1..m
  OBVIOUS
<1>4. g \in Seq(S)
  BY <1>2, <1>3
<1>. QED  BY <1>3, <1>4, LenProperties

\* The nodes are numbers.
LEMMA NodeFacts ==
    /\ PerBlock \in Nat \ {0} /\ NodeCount \in Nat \ {0} /\ Nodes = 0..(NodeCount - 1)
    /\ Nodes \subseteq Nat /\ -1 \notin Nodes /\ Map!NoNode = -1
    /\ IsFiniteSet(Nodes) /\ Cardinality(Nodes) = NodeCount
<1>1. PerBlock \in Nat \ {0} /\ MaxPrice - MinPrice + 1 \in Nat \ {0}
  BY StorageAssumption, PriceAssumption
<1>2. NodeCount \in Nat \ {0}
  <2> DEFINE m == MaxPrice - MinPrice + 1
  <2>1. m \in Nat \ {0} /\ NodeCount = PerBlock * m
    BY <1>1 DEF NodeCount
  <2> HIDE DEF m
  <2>2. PICK e \in Nat : m = e + 1
    <3>1. m - 1 \in Nat /\ m = (m - 1) + 1
      BY <2>1
    <3>. QED  BY <3>1
  <2>3. PerBlock * (e + 1) = PerBlock * e + PerBlock /\ PerBlock * e \in Nat
    BY <1>1, Z3
  <2>. QED  BY <1>1, <2>1, <2>2, <2>3
<1>3. Nodes = 0..(NodeCount - 1)
  BY DEF Nodes, Map!Address, NodeCount
<1>4. IsFiniteSet(Nodes) /\ Cardinality(Nodes) = NodeCount
  <2>1. 0 \in Int /\ NodeCount - 1 \in Int
    BY <1>2
  <2>2. IsFiniteSet(0..(NodeCount - 1))
        /\ Cardinality(0..(NodeCount - 1)) = IF 0 > NodeCount - 1 THEN 0 ELSE (NodeCount - 1) - 0 + 1
    BY <2>1, FS_Interval
  <2>3. (IF 0 > NodeCount - 1 THEN 0 ELSE (NodeCount - 1) - 0 + 1) = NodeCount
    BY <1>2
  <2>. QED  BY <1>3, <2>2, <2>3
<1>5. Nodes \subseteq Nat /\ -1 \notin Nodes
  BY <1>2, <1>3
<1>. QED  BY <1>1, <1>2, <1>3, <1>4, <1>5 DEF Map!NoNode

\* What a spelled list is made of.
LEMMA ListFacts ==
    ASSUME NEW pl, NEW f, FreeList(pl, f)
    PROVE  /\ Len(f) \in Nat /\ DOMAIN f = 1..Len(f)
           /\ \A k \in 1..Len(f) : f[k] \in Nodes /\ f[k] # -1
           /\ Len(f) <= NodeCount
<1>1. f \in Seq(Nodes)
  BY DEF FreeList
<1>2. Len(f) \in Nat /\ DOMAIN f = 1..Len(f) /\ \A k \in 1..Len(f) : f[k] \in Nodes
  BY <1>1, LenProperties, ElementOfSeq
<1>3. \A k \in 1..Len(f) : f[k] # -1
  BY <1>2, NodeFacts
<1>4. Len(f) <= NodeCount
  <2> SUFFICES ASSUME ~(Len(f) <= NodeCount) PROVE FALSE
    OBVIOUS
  <2>1. IsFiniteSet(1..Len(f)) /\ Cardinality(1..Len(f)) = Len(f)
    <3>1. /\ IsFiniteSet(1..Len(f))
          /\ Cardinality(1..Len(f)) = IF 1 > Len(f) THEN 0 ELSE Len(f) - 1 + 1
      BY <1>2, FS_Interval
    <3>. QED  BY <1>2, <3>1
  <2>2. f \in [1..Len(f) -> Nodes]
    BY <1>1, <1>2
  <2>3. Cardinality(Nodes) < Cardinality(1..Len(f))
    BY <1>2, <2>1, NodeFacts
  <2>4. \E x, y \in 1..Len(f) : x # y /\ f[x] = f[y]
    BY <2>1, <2>2, <2>3, NodeFacts, FS_PigeonHole
  <2>. QED  BY <2>4 DEF FreeList
<1>. QED  BY <1>2, <1>3, <1>4

\* Following the free list meets the nodes it spells.
LEMMA FreeNodesAre ==
    ASSUME NEW pl, NEW f, FreeList(pl, f)
    PROVE  Map!FreeNodes(pl) = Listed(f)
<1> DEFINE n == Len(f)
           M == NodeCount
           g == [k \in 0..M |-> IF k < n THEN f[k + 1] ELSE -1]
           step(h, k) == IF k = 0 THEN pl.free
                         ELSE IF h[k - 1] = -1 THEN -1 ELSE pl.next[h[k - 1]]
           at[k \in 0..M] == IF k = 0 THEN pl.free
                             ELSE IF at[k - 1] = -1 THEN -1 ELSE pl.next[at[k - 1]]
<1>1. /\ n \in Nat /\ n <= M /\ M \in Nat
      /\ \A k \in 1..n : f[k] \in Nodes /\ f[k] # -1
      /\ pl.free = (IF n = 0 THEN -1 ELSE f[1])
      /\ \A k \in 1..n : pl.next[f[k]] = IF k = n THEN -1 ELSE f[k + 1]
  BY ListFacts, NodeFacts DEF FreeList
<1>2. ASSUME NEW k \in 0..M PROVE g[k] = step(g, k)
  <2> HIDE DEF n, M
  <2>1. CASE k = 0
    <3>1. g[k] = IF 0 < n THEN f[1] ELSE -1
      BY <1>1, <2>1
    <3>. QED  BY <1>1, <2>1, <3>1
  <2>2. CASE k # 0
    <3>1. k - 1 \in 0..M /\ k \in Nat /\ (k - 1) + 1 = k
      BY <1>1, <2>2
    <3>2. g[k - 1] = IF k - 1 < n THEN f[k] ELSE -1
      BY <3>1
    <3>3. g[k] = IF k < n THEN f[k + 1] ELSE -1
      OBVIOUS
    <3> HIDE DEF g
    <3>4. CASE k - 1 < n
      <4>1. k \in 1..n /\ (k = n <=> ~(k < n))
        BY <1>1, <2>2, <3>1, <3>4
      <4>2. g[k - 1] = f[k] /\ f[k] # -1
        BY <1>1, <3>2, <3>4, <4>1
      <4>3. pl.next[g[k - 1]] = IF k = n THEN -1 ELSE f[k + 1]
        BY <1>1, <4>1, <4>2
      <4>. QED  BY <2>2, <3>3, <4>1, <4>2, <4>3
    <3>5. CASE ~(k - 1 < n)
      <4>1. ~(k < n)
        BY <1>1, <3>1, <3>5
      <4>2. g[k - 1] = -1 /\ g[k] = -1
        BY <3>2, <3>3, <3>5, <4>1
      <4>. QED  BY <2>2, <4>2
    <3>. QED  BY <3>4, <3>5
  <2>. QED  BY <2>1, <2>2
<1>3. g = [k \in 0..M |-> step(g, k)]
  <2>1. g = [k \in 0..M |-> g[k]]
    OBVIOUS
  <2> HIDE DEF g, step
  <2>. QED  BY <1>2, <2>1
<1>4. at = [k \in 0..M |-> step(at, k)]
  <2> HIDE DEF g, M, n
  <2>. QED  BY <1>3
<1> HIDE DEF at, n, M, g
<1>5. \A k \in 0..M : at[k] = step(at, k)
  BY <1>4
<1>6. \A k \in 0..M : at[k] = g[k]
  <2> DEFINE T == {k \in 0..M : at[k] # g[k]}
  <2>1. CASE T = {}
    BY <2>1
  <2>2. CASE T # {}
    <3>0. T \subseteq Nat
      BY <1>1
    <3>1. PICK k \in T : \A j \in T : k <= j
      BY <2>2, <3>0, LeastNat
    <3>2. k \in 0..M /\ at[k] # g[k]
      OBVIOUS
    <3>3. CASE k = 0
      BY <1>2, <1>5, <3>2, <3>3
    <3>4. CASE k # 0
      <4>1. k - 1 \in 0..M /\ ~(k <= k - 1)
        BY <1>1, <3>2, <3>4
      <4>2. at[k - 1] = g[k - 1]
        BY <3>1, <4>1
      <4>. QED  BY <1>2, <1>5, <3>2, <4>2
    <3>. QED  BY <3>3, <3>4
  <2>. QED  BY <2>1, <2>2
<1>7. Map!FreeNodes(pl) = {at[k] : k \in 0..M} \ {-1}
  <2>1. DOMAIN at = 0..M
    BY <1>4
  <2>2. Map!FreeNodes(pl) = {at[k] : k \in DOMAIN at} \ {-1}
    BY DEF Map!FreeNodes, Map!NoNode, at, M, NodeCount
  <2>. QED  BY <2>1, <2>2
<1>8. \A k \in 0..M : g[k] = IF k < n THEN f[k + 1] ELSE -1
  BY DEF g
<1>9. ASSUME NEW x \in Map!FreeNodes(pl) PROVE x \in Listed(f)
  <2>1. PICK k \in 0..M : x = g[k] /\ x # -1
    BY <1>6, <1>7
  <2>2. k < n /\ x = f[k + 1]
    BY <1>8, <2>1
  <2>3. k + 1 \in 1..n
    BY <1>1, <2>1, <2>2
  <2>. QED  BY <2>2, <2>3 DEF Listed, n
<1>10. ASSUME NEW x \in Listed(f) PROVE x \in Map!FreeNodes(pl)
  <2>1. PICK k \in 1..n : x = f[k]
    BY DEF Listed, n
  <2>2. k - 1 \in 0..M /\ k - 1 < n /\ (k - 1) + 1 = k
    BY <1>1, <2>1
  <2>3. g[k - 1] = x /\ x # -1
    BY <1>1, <1>8, <2>1, <2>2
  <2>. QED  BY <1>6, <1>7, <2>2, <2>3
<1>. QED  BY <1>9, <1>10

\* g, a function on 1..m, spells the list.
Spells(pl, m, g) ==
    /\ m \in Nat /\ g \in [1..m -> Nodes]
    /\ \A j, k \in 1..m : g[j] = g[k] => j = k
    /\ pl.free = IF m = 0 THEN -1 ELSE g[1]
    /\ \A k \in 1..m : pl.next[g[k]] = IF k = m THEN -1 ELSE g[k + 1]

\* A spelled list, by position.
LEMMA SpellList ==
    ASSUME NEW pl, NEW m, NEW g, Spells(pl, m, g)
    PROVE  FreeList(pl, g) /\ Len(g) = m /\ Listed(g) = {g[k] : k \in 1..m}
<1>1. m \in Nat /\ g \in [1..m -> Nodes]
  BY DEF Spells
<1>2. g \in Seq(Nodes) /\ Len(g) = m
  BY <1>1, ListOf
<1>. QED  BY <1>2 DEF FreeList, Listed, Spells

\* Taking the node at the head.
LEMMA ListTaken ==
    ASSUME NEW pl, NEW f, FreeList(pl, f), Len(f) # 0,
           NEW ql, ql.free = pl.next[pl.free], ql.next = pl.next
    PROVE  /\ pl.free \in Listed(f)
           /\ \E g : FreeList(ql, g) /\ Listed(g) = Listed(f) \ {pl.free}
<1> DEFINE n == Len(f)
           g == [k \in 1..(n - 1) |-> f[k + 1]]
<1>1. /\ n \in Nat /\ n # 0 /\ 1 \in 1..n
      /\ \A k \in 1..n : f[k] \in Nodes
      /\ \A j, k \in 1..n : f[j] = f[k] => j = k
      /\ pl.free = f[1]
      /\ \A k \in 1..n : pl.next[f[k]] = IF k = n THEN -1 ELSE f[k + 1]
  BY ListFacts DEF FreeList
<1>2. Listed(f) = {f[k] : k \in 1..n}
  BY DEF Listed
<1> HIDE DEF n
<1>3. n - 1 \in Nat /\ \A k \in 1..(n - 1) : k + 1 \in 1..n /\ k \in 1..n /\ k # n /\ k + 1 # 1
      /\ (k + 1 = n <=> k = n - 1)
  BY <1>1
<1>4. g \in [1..(n - 1) -> Nodes] /\ \A k \in 1..(n - 1) : g[k] = f[k + 1]
  BY <1>1, <1>3
<1> HIDE DEF g
<1>5. ASSUME NEW j \in 1..(n - 1), NEW k \in 1..(n - 1), g[j] = g[k] PROVE j = k
  <2>1. j + 1 = k + 1
    BY <1>1, <1>3, <1>4, <1>5
  <2>. QED  BY <1>1, <2>1
<1>6. ql.free = IF n - 1 = 0 THEN -1 ELSE g[1]
  <2>1. CASE n = 1
    BY <1>1, <2>1
  <2>2. CASE n # 1
    <3>1. 1 \in 1..(n - 1) /\ n - 1 # 0
      BY <1>1, <2>2
    <3>. QED  BY <1>1, <1>4, <2>2, <3>1
  <2>. QED  BY <2>1, <2>2
<1>7. ASSUME NEW k \in 1..(n - 1)
      PROVE  ql.next[g[k]] = IF k = n - 1 THEN -1 ELSE g[k + 1]
  <2>1. ql.next[g[k]] = IF k + 1 = n THEN -1 ELSE f[(k + 1) + 1]
    BY <1>1, <1>3, <1>4
  <2>2. CASE k = n - 1
    BY <1>3, <2>1, <2>2
  <2>3. CASE k # n - 1
    <3>1. k + 1 \in 1..(n - 1)
      BY <1>1, <2>3
    <3>. QED  BY <1>3, <1>4, <2>1, <2>3, <3>1
  <2>. QED  BY <2>2, <2>3
<1>8. FreeList(ql, g) /\ Listed(g) = {g[k] : k \in 1..(n - 1)}
  <2>1. Spells(ql, n - 1, g)
    BY <1>3, <1>4, <1>5, <1>6, <1>7 DEF Spells
  <2>. QED  BY <2>1, SpellList
<1>9. {g[k] : k \in 1..(n - 1)} = Listed(f) \ {pl.free}
  <2>1. ASSUME NEW k \in 1..(n - 1) PROVE g[k] \in Listed(f) \ {pl.free}
    BY <1>1, <1>2, <1>3, <1>4
  <2>2. ASSUME NEW k \in 1..n, f[k] # pl.free PROVE \E j \in 1..(n - 1) : g[j] = f[k]
    <3>1. k # 1
      BY <1>1, <2>2
    <3>2. k - 1 \in 1..(n - 1) /\ (k - 1) + 1 = k
      BY <1>1, <3>1
    <3>. QED  BY <1>4, <3>2
  <2>. QED  BY <1>2, <2>1, <2>2
<1>. QED  BY <1>1, <1>2, <1>8, <1>9

\* Giving one back puts it at the head.
LEMMA ListGiven ==
    ASSUME NEW pl, pl.next \in [Nodes -> Nodes \cup {-1}], NEW f, FreeList(pl, f),
           NEW a \in Nodes, a \notin Listed(f),
           NEW ql, ql.free = a, ql.next = [pl.next EXCEPT ![a] = pl.free]
    PROVE  \E g : FreeList(ql, g) /\ Listed(g) = Listed(f) \cup {a}
<1> DEFINE n == Len(f)
           g == [k \in 1..(n + 1) |-> IF k = 1 THEN a ELSE f[k - 1]]
<1>1. /\ n \in Nat
      /\ \A k \in 1..n : f[k] \in Nodes /\ f[k] # -1 /\ f[k] # a
      /\ \A j, k \in 1..n : f[j] = f[k] => j = k
      /\ pl.free = (IF n = 0 THEN -1 ELSE f[1])
      /\ \A k \in 1..n : pl.next[f[k]] = IF k = n THEN -1 ELSE f[k + 1]
  <2>1. \A k \in 1..n : f[k] # a
    BY DEF Listed
  <2>. QED  BY <2>1, ListFacts DEF FreeList
<1>2. Listed(f) = {f[k] : k \in 1..n}
  BY DEF Listed
<1> HIDE DEF n
<1>3. n + 1 \in Nat /\ 1 \in 1..(n + 1)
      /\ \A k \in 1..(n + 1) : k # 1 => k - 1 \in 1..n /\ (k - 1) + 1 = k /\ (k - 1 = n <=> k = n + 1)
  BY <1>1
<1>4. g \in [1..(n + 1) -> Nodes] /\ g[1] = a /\ \A k \in 1..(n + 1) : k # 1 => g[k] = f[k - 1]
  BY <1>1, <1>3
<1> HIDE DEF g
<1>5. ASSUME NEW j \in 1..(n + 1), NEW k \in 1..(n + 1), g[j] = g[k] PROVE j = k
  <2>1. CASE j = 1 \/ k = 1
    BY <1>1, <1>3, <1>4, <1>5, <2>1
  <2>2. CASE j # 1 /\ k # 1
    <3>1. j - 1 = k - 1
      BY <1>1, <1>3, <1>4, <1>5, <2>2
    <3>2. (j - 1) + 1 = j /\ (k - 1) + 1 = k
      BY <1>3, <2>2
    <3>. QED  BY <3>1, <3>2
  <2>. QED  BY <2>1, <2>2
<1>6. ql.free = IF n + 1 = 0 THEN -1 ELSE g[1]
  BY <1>1, <1>4
<1>7. ql.next[a] = pl.free /\ \A x \in Nodes : x # a => ql.next[x] = pl.next[x]
  OBVIOUS
<1>8. ASSUME NEW k \in 1..(n + 1)
      PROVE  ql.next[g[k]] = IF k = n + 1 THEN -1 ELSE g[k + 1]
  <2>1. CASE k = 1
    <3>1. ql.next[g[k]] = pl.free
      BY <1>4, <1>7, <2>1
    <3>2. CASE n = 0
      BY <1>1, <2>1, <3>1, <3>2
    <3>3. CASE n # 0
      <4>1. 2 \in 1..(n + 1) /\ 2 - 1 = 1 /\ k + 1 = 2 /\ k # n + 1
        BY <1>1, <2>1, <3>3
      <4>2. g[2] = f[1]
        BY <1>4, <4>1
      <4>. QED  BY <1>1, <3>1, <3>3, <4>1, <4>2
    <3>. QED  BY <3>2, <3>3
  <2>2. CASE k # 1
    <3>1. k - 1 \in 1..n /\ g[k] = f[k - 1] /\ f[k - 1] # a /\ f[k - 1] \in Nodes
      BY <1>1, <1>3, <1>4, <2>2
    <3>2. ql.next[g[k]] = IF k - 1 = n THEN -1 ELSE f[(k - 1) + 1]
      BY <1>1, <1>7, <3>1
    <3>3. CASE k = n + 1
      BY <1>3, <2>2, <3>2, <3>3
    <3>4. CASE k # n + 1
      <4>1. k + 1 \in 1..(n + 1) /\ k + 1 # 1 /\ (k + 1) - 1 = k
        BY <1>1, <3>4
      <4>2. g[k + 1] = f[k]
        BY <1>4, <4>1
      <4>. QED  BY <1>3, <2>2, <3>2, <3>4, <4>2
    <3>. QED  BY <3>3, <3>4
  <2>. QED  BY <2>1, <2>2
<1>9. FreeList(ql, g) /\ Listed(g) = {g[k] : k \in 1..(n + 1)}
  <2>1. Spells(ql, n + 1, g)
    BY <1>3, <1>4, <1>5, <1>6, <1>8 DEF Spells
  <2>. QED  BY <2>1, SpellList
<1>10. {g[k] : k \in 1..(n + 1)} = Listed(f) \cup {a}
  <2>1. ASSUME NEW k \in 1..(n + 1) PROVE g[k] \in Listed(f) \cup {a}
    BY <1>2, <1>3, <1>4
  <2>2. ASSUME NEW k \in 1..n PROVE \E j \in 1..(n + 1) : g[j] = f[k]
    <3>1. k + 1 \in 1..(n + 1) /\ k + 1 # 1 /\ (k + 1) - 1 = k
      BY <1>1
    <3>. QED  BY <1>4, <3>1
  <2>3. \E j \in 1..(n + 1) : g[j] = a
    BY <1>3, <1>4
  <2>. QED  BY <1>2, <2>1, <2>2, <2>3
<1>. QED  BY <1>9, <1>10

\* A new block, threaded from its first node to its last.
LEMMA ListGrown ==
    ASSUME NEW pl, pl.free = -1, NEW base \in Nat, base + PerBlock - 1 \in Nodes,
           NEW ql, ql.free = base,
           ql.next = [a \in Nodes |-> IF a \in base..(base + PerBlock - 1) - 1 THEN a + 1
                                      ELSE IF a = base + PerBlock - 1 THEN pl.free
                                      ELSE pl.next[a]]
    PROVE  \E g : FreeList(ql, g) /\ Listed(g) = base..(base + PerBlock - 1)
<1> DEFINE m == PerBlock
           last == base + PerBlock - 1
           g == [k \in 1..m |-> base + k - 1]
<1>1. m \in Nat /\ m # 0 /\ last \in Nat /\ last = base + m - 1 /\ NodeCount \in Nat
      /\ Nodes = 0..(NodeCount - 1) /\ last <= NodeCount - 1
  BY NodeFacts
<1>2. ql.next = [a \in Nodes |-> IF a \in base..(last - 1) THEN a + 1
                                 ELSE IF a = last THEN pl.free ELSE pl.next[a]]
  OBVIOUS
<1> HIDE DEF m, last
<1>3. \A k \in 1..m : base + k - 1 \in Nodes /\ base + k - 1 \in base..last
  BY <1>1
<1>4. g \in [1..m -> Nodes] /\ \A k \in 1..m : g[k] = base + k - 1
  BY <1>3
<1> HIDE DEF g
<1>5. ASSUME NEW j \in 1..m, NEW k \in 1..m, g[j] = g[k] PROVE j = k
  <2>1. base + j - 1 = base + k - 1
    BY <1>4, <1>5
  <2>. QED  BY <1>1, <2>1
<1>6. ql.free = IF m = 0 THEN -1 ELSE g[1]
  <2>1. 1 \in 1..m /\ base + 1 - 1 = base
    BY <1>1
  <2>. QED  BY <1>1, <1>4, <2>1
<1>7. ASSUME NEW k \in 1..m
      PROVE  ql.next[g[k]] = IF k = m THEN -1 ELSE g[k + 1]
  <2>1. g[k] \in Nodes /\ g[k] = base + k - 1
    BY <1>3, <1>4
  <2>2. CASE k = m
    <3>1. g[k] = last /\ ~(last \in base..(last - 1))
      BY <1>1, <2>1, <2>2
    <3>. QED  BY <1>2, <2>1, <2>2, <3>1
  <2>3. CASE k # m
    <3>1. g[k] \in base..(last - 1) /\ k + 1 \in 1..m /\ g[k] + 1 = base + (k + 1) - 1
      BY <1>1, <2>1, <2>3
    <3>2. g[k + 1] = base + (k + 1) - 1
      BY <1>4, <3>1
    <3>. QED  BY <1>2, <2>1, <2>3, <3>1, <3>2
  <2>. QED  BY <2>2, <2>3
<1>8. FreeList(ql, g) /\ Listed(g) = {g[k] : k \in 1..m}
  <2>1. Spells(ql, m, g)
    BY <1>1, <1>4, <1>5, <1>6, <1>7 DEF Spells
  <2>. QED  BY <2>1, SpellList
<1>9. {g[k] : k \in 1..m} = base..last
  <2>1. ASSUME NEW k \in 1..m PROVE g[k] \in base..last
    BY <1>3, <1>4
  <2>2. ASSUME NEW x \in base..last PROVE \E k \in 1..m : g[k] = x
    <3>1. (x - base) + 1 \in 1..m /\ base + ((x - base) + 1) - 1 = x
      BY <1>1
    <3>. QED  BY <1>4, <3>1
  <2>. QED  BY <2>1, <2>2
<1>. QED  BY <1>8, <1>9 DEF last

-----------------------------------------------------------------------------
(* Every node of every block is free or used.                               *)

PoolInv(pl, used) ==
    /\ pl \in Pool
    /\ pl.blocks * PerBlock <= NodeCount
    /\ \E f : /\ FreeList(pl, f)
              /\ Listed(f) \cap used = {}
              /\ Listed(f) \cup used = 0..(pl.blocks * PerBlock - 1)

\* One more block fits while fewer nodes are used than the band has prices.
LEMMA RoomForBlock ==
    ASSUME NEW c \in Nat, NEW m \in Nat, c * PerBlock < m
    PROVE  (c + 1) * PerBlock <= PerBlock * m /\ (c + 1) * PerBlock = c * PerBlock + PerBlock
<1>1. PerBlock \in Nat \ {0}
  BY NodeFacts
<1>2. (c + 1) * PerBlock = c * PerBlock + PerBlock
  BY <1>1, Z3
<1>3. c < m
  <2>1. c <= c * PerBlock
    <3>1. PICK e \in Nat : PerBlock = e + 1
      <4>1. PerBlock - 1 \in Nat /\ PerBlock = (PerBlock - 1) + 1
        BY <1>1
      <4>. QED  BY <4>1
    <3>2. c * (e + 1) = c * e + c /\ c * e \in Nat
      BY <3>1, Z3
    <3>. QED  BY <3>1, <3>2
  <2>2. c * PerBlock \in Nat
    BY <1>1
  <2>. QED  BY <2>1, <2>2
<1>4. PerBlock * c + PerBlock <= PerBlock * m
  BY <1>1, <1>3, LargerMultiple
<1>5. PerBlock * c = c * PerBlock
  BY <1>1, Z3
<1>. QED  BY <1>2, <1>4, <1>5

\* allocate gives a node that is not in use.
LEMMA PoolAllocates ==
    ASSUME NEW pl, NEW used, PoolInv(pl, used), used \subseteq Nodes,
           Cardinality(used) < MaxPrice - MinPrice + 1,
           NEW a, a = Map!Ready(pl).free
    PROVE  /\ a \in Nodes /\ a \notin used
           /\ PoolInv(Map!Allocated(pl), used \cup {a})
<1> DEFINE rl == Map!Ready(pl)
           ql == Map!Allocated(pl)
           Ends(c) == 0..(c * PerBlock - 1)
<1>1. /\ PerBlock \in Nat \ {0} /\ NodeCount \in Nat /\ Nodes = 0..(NodeCount - 1)
      /\ Map!NoNode = -1 /\ -1 \notin Nodes /\ pl \in Pool /\ pl.blocks \in Nat
      /\ pl.next \in [Nodes -> Nodes \cup {-1}] /\ pl.blocks * PerBlock <= NodeCount
  BY NodeFacts DEF PoolInv, Pool
\* A list with a node in it, whether or not a block was added.
<1>2. /\ rl \in Pool /\ rl.blocks * PerBlock <= NodeCount
      /\ \E f : /\ FreeList(rl, f) /\ Len(f) # 0
                /\ Listed(f) \cap used = {}
                /\ Listed(f) \cup used = Ends(rl.blocks)
  <2>0. PICK f : /\ FreeList(pl, f)
                 /\ Listed(f) \cap used = {}
                 /\ Listed(f) \cup used = 0..(pl.blocks * PerBlock - 1)
    BY DEF PoolInv
  <2>1. CASE pl.free # -1
    <3>1. rl = pl
      BY <1>1, <2>1 DEF Map!Ready
    <3>2. Len(f) # 0
      BY <2>0, <2>1 DEF FreeList
    <3>. QED  BY <1>1, <2>0, <3>1, <3>2
  <2>2. CASE pl.free = -1
    <3> DEFINE c == pl.blocks
               base == pl.blocks * PerBlock
               last == base + PerBlock - 1
    <3>1. Len(f) = 0 /\ Listed(f) = {}
      <4>1. Len(f) \in Nat /\ \A k \in 1..Len(f) : f[k] # -1
        BY <2>0, ListFacts
      <4>2. Len(f) # 0 => 1 \in 1..Len(f)
        BY <4>1
      <4>3. Len(f) # 0 => pl.free = f[1]
        BY <2>0 DEF FreeList
      <4>4. Len(f) = 0
        BY <2>2, <4>1, <4>2, <4>3
      <4>. QED  BY <4>4 DEF Listed
    <3>2. base \in Nat /\ used = 0..(base - 1)
      BY <1>1, <2>0, <3>1
    <3>3. Cardinality(used) = base
      <4>0. 0 \in Int /\ base - 1 \in Int
        BY <3>2
      <4>1. Cardinality(0..(base - 1)) = IF 0 > base - 1 THEN 0 ELSE (base - 1) - 0 + 1
        BY <4>0, FS_Interval
      <4>2. (IF 0 > base - 1 THEN 0 ELSE (base - 1) - 0 + 1) = base
        BY <3>2
      <4>. QED  BY <3>2, <4>1, <4>2
    <3>4. MaxPrice - MinPrice + 1 \in Nat
      BY PriceAssumption
    <3>5. (c + 1) * PerBlock <= NodeCount /\ (c + 1) * PerBlock = base + PerBlock
      BY <1>1, <3>3, <3>4, RoomForBlock DEF NodeCount
    <3>6. rl = Map!Grown(pl)
      BY <1>1, <2>2 DEF Map!Ready
    <3>7. Map!Grown(pl) = [free |-> base, blocks |-> c + 1,
                           next |-> [x \in Nodes |-> IF x \in base..(last - 1) THEN x + 1
                                                     ELSE IF x = last THEN pl.free
                                                     ELSE pl.next[x]]]
      BY DEF Map!Grown, Nodes
    <3>8. base \in Nodes /\ last \in Nodes /\ last \in Nat
      BY <1>1, <3>2, <3>5
    <3> HIDE DEF c, base, rl
    <3>9. /\ rl.free = base /\ rl.blocks = c + 1
          /\ rl.next = [x \in Nodes |-> IF x \in base..(last - 1) THEN x + 1
                                        ELSE IF x = last THEN pl.free ELSE pl.next[x]]
      BY <3>6, <3>7
    <3>10. rl.next \in [Nodes -> Nodes \cup {-1}]
      <4>1. \A x \in base..(last - 1) : x + 1 \in Nodes
        BY <1>1, <3>2, <3>8
      <4> HIDE DEF last
      <4>. QED  BY <1>1, <2>2, <3>9, <4>1
    <3>11. rl \in Pool
      <4>1. rl = [free |-> base, blocks |-> c + 1, next |-> rl.next]
        BY <3>6, <3>7, <3>9
      <4>2. c + 1 \in Nat
        BY <1>1 DEF c
      <4> HIDE DEF last
      <4>. QED  BY <3>8, <3>10, <4>1, <4>2 DEF Pool
    <3>12. PICK g : FreeList(rl, g) /\ Listed(g) = base..last
      BY <2>2, <3>2, <3>8, <3>9, ListGrown
    <3>13. Len(g) # 0
      <4>1. base \in Listed(g)
        BY <1>1, <3>2, <3>12
      <4>2. Len(g) \in Nat
        BY <3>12, ListFacts
      <4>. QED  BY <4>1, <4>2 DEF Listed
    <3>14. Listed(g) \cap used = {} /\ Listed(g) \cup used = 0..last
      BY <1>1, <3>2, <3>12
    <3>15. last = (c + 1) * PerBlock - 1
      BY <1>1, <3>2, <3>5
    <3>. QED  BY <3>5, <3>9, <3>11, <3>12, <3>13, <3>14, <3>15
  <2>. QED  BY <2>1, <2>2
<1>3. PICK f : /\ FreeList(rl, f) /\ Len(f) # 0
               /\ Listed(f) \cap used = {}
               /\ Listed(f) \cup used = Ends(rl.blocks)
  BY <1>2
<1>4. ql = [rl EXCEPT !.free = rl.next[rl.free]]
  BY DEF Map!Allocated
<1> HIDE DEF rl, ql, Ends
<1>5. ql.free = rl.next[rl.free] /\ ql.next = rl.next /\ ql.blocks = rl.blocks
  BY <1>2, <1>4 DEF Pool
<1>6. PICK g : FreeList(ql, g) /\ Listed(g) = Listed(f) \ {rl.free} /\ rl.free \in Listed(f)
  BY <1>3, <1>5, ListTaken
<1>7. a = rl.free /\ a \in Nodes /\ a \notin used
  <2>1. a = rl.free
    BY DEF rl
  <2>2. Listed(f) \subseteq Nodes
    BY <1>3, ListFacts DEF Listed
  <2>. QED  BY <1>3, <1>6, <2>1, <2>2
<1>8. Listed(g) \cap (used \cup {a}) = {} /\ Listed(g) \cup (used \cup {a}) = Ends(rl.blocks)
  BY <1>3, <1>6, <1>7
<1>9. ql \in Pool
  <2>1. rl.next[rl.free] \in Nodes \cup {-1}
    BY <1>2, <1>7 DEF Pool
  <2>. QED  BY <1>2, <1>4, <2>1 DEF Pool
<1>10. PoolInv(ql, used \cup {a})
  BY <1>2, <1>5, <1>6, <1>8, <1>9 DEF PoolInv, Ends
<1>. QED  BY <1>7, <1>10 DEF ql

\* deallocate takes one back that was.
LEMMA PoolDeallocates ==
    ASSUME NEW pl, NEW used, PoolInv(pl, used), used \subseteq Nodes, NEW a \in used
    PROVE  PoolInv(Map!Deallocated(pl, a), used \ {a})
<1> DEFINE ql == Map!Deallocated(pl, a)
           ends == 0..(pl.blocks * PerBlock - 1)
<1>1. /\ pl \in Pool /\ pl.blocks \in Nat /\ pl.free \in Nodes \cup {-1} /\ a \in Nodes
      /\ pl.next \in [Nodes -> Nodes \cup {-1}] /\ pl.blocks * PerBlock <= NodeCount
  BY DEF PoolInv, Pool
<1>2. PICK f : FreeList(pl, f) /\ Listed(f) \cap used = {} /\ Listed(f) \cup used = ends
  BY DEF PoolInv
<1> HIDE DEF ends
<1>3. ql = [pl EXCEPT !.next[a] = pl.free, !.free = a]
  BY DEF Map!Deallocated
<1> HIDE DEF ql
<1> DEFINE nx == [pl.next EXCEPT ![a] = pl.free]
<1>4. ql = [free |-> a, next |-> nx, blocks |-> pl.blocks]
  BY <1>1, <1>3 DEF Pool
<1>5. nx \in [Nodes -> Nodes \cup {-1}]
  BY <1>1
<1> HIDE DEF nx
<1>6. ql \in Pool /\ ql.free = a /\ ql.next = nx /\ ql.blocks = pl.blocks
  BY <1>1, <1>4, <1>5 DEF Pool
<1>7. a \notin Listed(f)
  BY <1>2
<1>8. \E g : FreeList(ql, g) /\ Listed(g) = Listed(f) \cup {a}
  BY <1>1, <1>2, <1>6, <1>7, ListGiven DEF nx
<1>9. PICK g : FreeList(ql, g) /\ Listed(g) = Listed(f) \cup {a}
  BY <1>8
<1>10. Listed(g) \cap (used \ {a}) = {} /\ Listed(g) \cup (used \ {a}) = ends
  BY <1>2, <1>9
<1>. QED  BY <1>1, <1>6, <1>9, <1>10 DEF PoolInv, ql, ends

-----------------------------------------------------------------------------
(* The map book: its tree, its nodes and the lists in them.                 *)

\* The map book uses the same list, and its helpers are the same.
LEMMA SameMap ==
    /\ Map!Side = Side /\ Map!Price = Price
    /\ Map!EmptyLevel = EmptyLevel /\ Map!Unlinked = Unlinked
    /\ \A l : Map!IsEmpty(l) <=> IsEmpty(l)
    /\ \A l, o, q : Map!Pushed(l, o, q) = Pushed(l, o, q)
    /\ \A links, l, o : Map!PushLinks(links, l, o) = PushLinks(links, l, o)
    /\ \A l, links, o, q : Map!UnlinkedFrom(l, links, o, q) = UnlinkedFrom(l, links, o, q)
    /\ \A links, o : Map!UnlinkLinks(links, o) = UnlinkLinks(links, o)
<1>0. Map!Side = Side /\ Map!Price = Price
  BY DEF Map!Side, Side, Map!Price, Price
<1>1. Map!EmptyLevel = EmptyLevel /\ Map!Unlinked = Unlinked
  BY DEF Map!EmptyLevel, EmptyLevel, Map!Unlinked, Unlinked
<1>2. \A l : Map!IsEmpty(l) <=> IsEmpty(l)
  BY DEF Map!IsEmpty, IsEmpty
<1>3. \A l, o, q : Map!Pushed(l, o, q) = Pushed(l, o, q)
  BY DEF Map!Pushed, Pushed
<1>4. \A links, l, o : Map!PushLinks(links, l, o) = PushLinks(links, l, o)
  BY DEF Map!PushLinks, PushLinks
<1>5. \A l, links, o, q : Map!UnlinkedFrom(l, links, o, q) = UnlinkedFrom(l, links, o, q)
  BY DEF Map!UnlinkedFrom, UnlinkedFrom
<1>6. \A links, o : Map!UnlinkLinks(links, o) = UnlinkLinks(links, o)
  BY DEF Map!UnlinkLinks, UnlinkLinks, Map!Unlinked, Unlinked
<1>. QED  BY <1>0, <1>1, <1>2, <1>3, <1>4, <1>5, <1>6

\* And so is the size of a set.
LEMMA SameCardinality == \A S : Map!Cardinality(S) = Cardinality(S)
  BY Zenon DEF Map!Cardinality, Cardinality

\* A map from prices of the band to nodes, no two to the same one.
IsTree(t) ==
    /\ DOMAIN t \subseteq Price
    /\ t \in [DOMAIN t -> Nodes]
    /\ \A p, q \in DOMAIN t : t[p] = t[q] => p = q
Used(t) == {t[p] : p \in DOMAIN t}

MapTyped ==
    /\ tree = [s \in Side |-> tree[s]] /\ \A s \in Side : IsTree(tree[s])
    /\ cell \in [Side -> [Nodes -> Level]]
    /\ pool = [s \in Side |-> pool[s]] /\ \A s \in Side : PoolInv(pool[s], Used(tree[s]))

\* The level of a side and price: the one in its node, or none.
MapLevels ==
    [s \in Side |-> [p \in Price |->
        IF p \in DOMAIN tree[s] THEN cell[s][tree[s][p]] ELSE EmptyLevel]]

MapInv ==
    /\ MapTyped
    /\ Holds(MapLevels, mapLinks, Bitset!Queue)
    /\ \A s \in Side, p \in Price : p \in DOMAIN tree[s] <=> Len(Bitset!Queue[s][p]) # 0

\* The level, before a step and after.
LEMMA MapLevelIs ==
    ASSUME NEW s \in Side, NEW p \in Price
    PROVE  /\ MapLevels[s][p] = IF p \in DOMAIN tree[s] THEN cell[s][tree[s][p]] ELSE EmptyLevel
           /\ MapLevels'[s][p] = IF p \in DOMAIN tree'[s] THEN cell'[s][tree'[s][p]] ELSE EmptyLevel
  BY DEF MapLevels

\* One entry of a side's table is replaced.
LEMMA OneSide ==
    ASSUME NEW f, f = [t \in Side |-> f[t]], NEW s \in Side, NEW w,
           NEW g, g = [f EXCEPT ![s] = w]
    PROVE  g = [t \in Side |-> g[t]] /\ g[s] = w /\ \A t \in Side : t # s => g[t] = f[t]
  OBVIOUS

\* A tree has as many nodes as prices.
LEMMA NodesPerPrice ==
    ASSUME NEW t, IsTree(t)
    PROVE  /\ IsFiniteSet(DOMAIN t) /\ IsFiniteSet(Used(t)) /\ Used(t) \subseteq Nodes
           /\ Cardinality(Used(t)) = Cardinality(DOMAIN t)
<1>1. /\ DOMAIN t \subseteq Price /\ \A p \in DOMAIN t : t[p] \in Nodes
      /\ \A p, q \in DOMAIN t : t[p] = t[q] => p = q
  BY DEF IsTree
<1>2. Used(t) \subseteq Nodes
  BY <1>1 DEF Used
<1>3. IsFiniteSet(Price)
  <2>1. MinPrice \in Int /\ MaxPrice \in Int
    BY PriceAssumption
  <2>. QED  BY <2>1, FS_Interval DEF Price
<1>4. IsFiniteSet(DOMAIN t) /\ IsFiniteSet(Used(t))
  BY <1>1, <1>2, <1>3, FS_Subset, NodeFacts
<1> DEFINE D == DOMAIN t
           U == Used(t)
<1>5. Cardinality(D) \in Nat /\ Cardinality(U) \in Nat
  BY <1>4, FS_CardinalityType
<1>6. ~(Cardinality(U) < Cardinality(D))
  <2> SUFFICES ASSUME Cardinality(U) < Cardinality(D) PROVE FALSE
    OBVIOUS
  <2> DEFINE h == [p \in D |-> t[p]]
  <2>1. h \in [D -> U] /\ \A p \in D : h[p] = t[p]
    BY DEF Used
  <2> HIDE DEF h
  <2>2. PICK p, q \in D : p # q /\ h[p] = h[q]
    BY <1>4, <2>1, FS_PigeonHole
  <2>. QED  BY <1>1, <2>1, <2>2
<1>7. ~(Cardinality(D) < Cardinality(U))
  <2> SUFFICES ASSUME Cardinality(D) < Cardinality(U) PROVE FALSE
    OBVIOUS
  <2> DEFINE g == [a \in U |-> CHOOSE p \in D : t[p] = a]
  <2>1. \A a \in U : g[a] \in D /\ t[g[a]] = a
    BY DEF Used
  <2>2. g \in [U -> D]
    BY <2>1
  <2> HIDE DEF g
  <2>3. PICK a, b \in U : a # b /\ g[a] = g[b]
    BY <1>4, <2>2, FS_PigeonHole
  <2>. QED  BY <2>1, <2>3
<1>8. Cardinality(U) = Cardinality(D)
  <2> HIDE DEF U, D
  <2>. QED  BY <1>5, <1>6, <1>7
<1>. QED  BY <1>2, <1>4, <1>8

\* While a price is missing there are fewer nodes in use than prices.
LEMMA RoomForOne ==
    ASSUME NEW t, IsTree(t), NEW p \in Price, p \notin DOMAIN t
    PROVE  Cardinality(Used(t)) < MaxPrice - MinPrice + 1
<1>1. MinPrice \in Int /\ MaxPrice \in Int /\ MinPrice <= MaxPrice
  BY PriceAssumption
<1>2. IsFiniteSet(Price) /\ Cardinality(Price) = MaxPrice - MinPrice + 1
  <2>1. /\ IsFiniteSet(MinPrice..MaxPrice)
        /\ Cardinality(MinPrice..MaxPrice) = IF MinPrice > MaxPrice THEN 0 ELSE MaxPrice - MinPrice + 1
    BY <1>1, FS_Interval
  <2>. QED  BY <1>1, <2>1 DEF Price
<1>3. DOMAIN t \subseteq Price /\ DOMAIN t # Price
  BY DEF IsTree
<1>4. Cardinality(DOMAIN t) < Cardinality(Price)
  <2>1. /\ IsFiniteSet(DOMAIN t) /\ Cardinality(DOMAIN t) <= Cardinality(Price)
        /\ (Cardinality(DOMAIN t) = Cardinality(Price) => DOMAIN t = Price)
    BY <1>2, <1>3, FS_Subset
  <2>2. Cardinality(DOMAIN t) \in Nat /\ Cardinality(Price) \in Nat
    BY <1>2, <2>1, FS_CardinalityType
  <2> DEFINE c == Cardinality(DOMAIN t)
             d == Cardinality(Price)
  <2> HIDE DEF c, d
  <2>3. c \in Nat /\ d \in Nat /\ c <= d /\ c # d
    BY <1>3, <2>1, <2>2 DEF c, d
  <2>4. c < d
    BY <2>3
  <2>. QED  BY <2>4 DEF c, d
<1>. QED  BY <1>2, <1>4, NodesPerPrice

\* The node of a price, the tree with it and the allocator after: operator[].
Found(s, p, a, u, pl) ==
    /\ a = IF p \in DOMAIN tree[s] THEN tree[s][p] ELSE Map!Ready(pool[s]).free
    /\ u = [q \in DOMAIN tree[s] \cup {p} |-> IF q = p THEN a ELSE tree[s][q]]
    /\ pl = IF p \in DOMAIN tree[s] THEN pool[s] ELSE Map!Allocated(pool[s])

\* The node of the order's price: the one it has, or a fresh one.
LEMMA RestNode ==
    ASSUME MapTyped, NEW s \in Side, NEW p \in Price,
           NEW a, NEW u, NEW pl, Found(s, p, a, u, pl)
    PROVE  /\ a \in Nodes /\ IsTree(u) /\ PoolInv(pl, Used(u))
           /\ DOMAIN u = DOMAIN tree[s] \cup {p} /\ u[p] = a
           /\ \A q \in DOMAIN tree[s] : q # p => u[q] = tree[s][q] /\ tree[s][q] # a
<1> DEFINE t == tree[s]
<1>1. IsTree(t) /\ PoolInv(pool[s], Used(t))
  BY DEF MapTyped
<1>2. /\ DOMAIN t \subseteq Price /\ \A q \in DOMAIN t : t[q] \in Nodes
      /\ \A q, r \in DOMAIN t : t[q] = t[r] => q = r
  BY <1>1 DEF IsTree
<1> HIDE DEF t
<1>3. /\ a \in Nodes /\ PoolInv(pl, Used(t) \cup {a})
      /\ \A q \in DOMAIN t : q # p => t[q] # a
  <2>1. CASE p \in DOMAIN t
    <3>1. a = t[p] /\ pl = pool[s]
      BY <2>1 DEF t, Found
    <3>2. a \in Nodes /\ a \in Used(t) /\ \A q \in DOMAIN t : q # p => t[q] # a
      BY <1>2, <2>1, <3>1 DEF Used
    <3>3. Used(t) \cup {a} = Used(t)
      BY <3>2
    <3>. QED  BY <1>1, <3>1, <3>2, <3>3
  <2>2. CASE p \notin DOMAIN t
    <3>1. a = Map!Ready(pool[s]).free /\ pl = Map!Allocated(pool[s])
      BY <2>2 DEF t, Found
    <3>2. Cardinality(Used(t)) < MaxPrice - MinPrice + 1 /\ Used(t) \subseteq Nodes
      BY <1>1, <2>2, RoomForOne, NodesPerPrice
    <3>3. a \in Nodes /\ a \notin Used(t) /\ PoolInv(pl, Used(t) \cup {a})
      BY <1>1, <3>1, <3>2, PoolAllocates
    <3>. QED  BY <3>3 DEF Used
  <2>. QED  BY <2>1, <2>2
<1>4. u = [q \in DOMAIN t \cup {p} |-> IF q = p THEN a ELSE t[q]]
  BY DEF t, Found
<1>5. /\ DOMAIN u = DOMAIN t \cup {p} /\ u[p] = a
      /\ \A q \in DOMAIN t : q # p => u[q] = t[q]
  BY <1>4
<1>6. IsTree(u)
  <2>1. \A q \in DOMAIN u : u[q] \in Nodes
    BY <1>2, <1>3, <1>5
  <2>2. u \in [DOMAIN u -> Nodes]
    <3>1. u = [q \in DOMAIN u |-> u[q]]
      BY <1>4
    <3>. QED  BY <2>1, <3>1
  <2>3. ASSUME NEW q \in DOMAIN u, NEW r \in DOMAIN u, u[q] = u[r] PROVE q = r
    BY <1>2, <1>3, <1>5, <2>3
  <2>. QED  BY <1>2, <1>5, <2>2, <2>3 DEF IsTree
<1>7. Used(u) = Used(t) \cup {a}
  <2>1. ASSUME NEW x \in Used(u) PROVE x \in Used(t) \cup {a}
    BY <1>5 DEF Used
  <2>2. ASSUME NEW q \in DOMAIN t PROVE t[q] \in Used(u)
    <3>1. CASE q = p
      <4>1. t[q] = a
        BY <2>2, <3>1 DEF t, Found
      <4>. QED  BY <1>5, <4>1 DEF Used
    <3>2. CASE q # p
      BY <1>5, <2>2, <3>2 DEF Used
    <3>. QED  BY <3>1, <3>2
  <2>3. a \in Used(u)
    BY <1>5 DEF Used
  <2>. QED  BY <2>1, <2>2, <2>3 DEF Used
<1>. QED  BY <1>3, <1>5, <1>6, <1>7 DEF t

\* The map book's half of an order that rests.
LEMMA RestNodes ==
    ASSUME MapTyped, NEW o \in Slot, NEW r \in Offers, Rest(o, r),
           NEW s, s = r.side, NEW p, p = r.price
    PROVE  /\ MapTyped'
           /\ s \in Side /\ p \in Price
           /\ MapLevels'[s][p].head = (IF MapLevels[s][p].tail = Null THEN o ELSE MapLevels[s][p].head)
           /\ MapLevels'[s][p].tail = o
           /\ MapLevels'[s][p].count = MapLevels[s][p].count + 1
           /\ MapLevels'[s][p].total = MapLevels[s][p].total + r.remaining
           /\ MapLevels'[s][p].price = (IF IsEmpty(MapLevels[s][p]) THEN p
                                         ELSE MapLevels[s][p].price)
           /\ \A t \in Side, q \in Price : ~(t = s /\ q = p) => MapLevels'[t][q] = MapLevels[t][q]
           /\ mapLinks' = PushLinks(mapLinks, MapLevels[s][p], o)
           /\ DOMAIN tree'[s] = DOMAIN tree[s] \cup {p}
           /\ \A t \in Side : t # s => tree'[t] = tree[t]
<1>1. s \in Side /\ p \in Price /\ p \in Int /\ r.remaining \in Int
  BY OfferTypes
<1>2. PICK a : a = IF p \in DOMAIN tree[s] THEN tree[s][p] ELSE Map!Ready(pool[s]).free
  OBVIOUS
<1>3. PICK u : u = [q \in DOMAIN tree[s] \cup {p} |-> IF q = p THEN a ELSE tree[s][q]]
  OBVIOUS
<1>4. PICK pl : pl = IF p \in DOMAIN tree[s] THEN pool[s] ELSE Map!Allocated(pool[s])
  OBVIOUS
<1>5. PICK l : l = IF p \in DOMAIN tree[s] THEN cell[s][a] ELSE EmptyLevel
  OBVIOUS
<1>6. PICK m : m = Pushed([l EXCEPT !.price = IF IsEmpty(l) THEN p ELSE @], o, r.remaining)
  OBVIOUS
<1>7. /\ a \in Nodes /\ IsTree(u) /\ PoolInv(pl, Used(u))
      /\ DOMAIN u = DOMAIN tree[s] \cup {p} /\ u[p] = a
      /\ \A q \in DOMAIN tree[s] : q # p => u[q] = tree[s][q] /\ tree[s][q] # a
  <2>1. Found(s, p, a, u, pl)
    BY <1>2, <1>3, <1>4 DEF Found
  <2>2. MapTyped /\ s \in Side /\ p \in Price
    BY <1>1
  <2>3. ASSUME NEW b, NEW v, NEW ql, Found(s, p, b, v, ql)
        PROVE  /\ b \in Nodes /\ IsTree(v) /\ PoolInv(ql, Used(v))
               /\ DOMAIN v = DOMAIN tree[s] \cup {p} /\ v[p] = b
               /\ \A q \in DOMAIN tree[s] : q # p => v[q] = tree[s][q] /\ tree[s][q] # b
    BY ONLY MapTyped, <2>2, <2>3, RestNode
  <2>. QED  BY <2>1, <2>3
<1>8. l \in Level
  <2>1. EmptyLevel \in Level
    BY PriceAssumption DEF EmptyLevel, Level
  <2>. QED  BY <1>1, <1>5, <1>7, <2>1 DEF MapTyped
<1>9. /\ m \in Level
      /\ m.head = (IF l.tail = Null THEN o ELSE l.head)
      /\ m.tail = o /\ m.count = l.count + 1
      /\ m.total = l.total + r.remaining /\ m.price = (IF IsEmpty(l) THEN p ELSE l.price)
  BY <1>1, <1>6, <1>8, PushedFields
<1>10. l = MapLevels[s][p]
  BY <1>1, <1>2, <1>5, MapLevelIs
<1>11. /\ tree' = [tree EXCEPT ![s] = u]
       /\ pool' = [pool EXCEPT ![s] = pl]
       /\ cell' = [cell EXCEPT ![s][a] = m]
       /\ mapLinks' = PushLinks(mapLinks, l, o)
  <2>1. Map!AddOrder(o, r)
    BY DEF Rest
  <2>2. PICK k : k = IF p \in DOMAIN tree[s] THEN cell[s][a] ELSE Map!EmptyLevel
    OBVIOUS
  <2>3. k = l
    BY <1>5, <2>2, SameMap
  <2>4. /\ tree' = [tree EXCEPT ![s] = u]
        /\ pool' = IF p \in DOMAIN tree[s] THEN pool
                   ELSE [pool EXCEPT ![s] = Map!Allocated(pool[s])]
        /\ cell' = [cell EXCEPT ![s][a] =
                      Map!Pushed([k EXCEPT !.price = IF Map!IsEmpty(k) THEN p ELSE @], o, r.remaining)]
        /\ mapLinks' = Map!PushLinks(mapLinks, k, o)
    BY <1>2, <1>3, <2>1, <2>2 DEF Map!AddOrder
  <2>5. [k EXCEPT !.price = IF Map!IsEmpty(k) THEN p ELSE @]
           = [l EXCEPT !.price = IF IsEmpty(l) THEN p ELSE @]
    <3>1. Map!IsEmpty(k) <=> IsEmpty(l)
      BY <2>3, SameMap
    <3>. QED  BY <2>3, <3>1
  <2>6. Map!Pushed([k EXCEPT !.price = IF Map!IsEmpty(k) THEN p ELSE @], o, r.remaining) = m
    BY <1>6, <2>5, SameMap
  <2>7. Map!PushLinks(mapLinks, k, o) = PushLinks(mapLinks, l, o)
    BY <2>3, SameMap
  <2>8. pool' = [pool EXCEPT ![s] = pl]
    <3>1. CASE p \in DOMAIN tree[s]
      <4>1. pool' = pool /\ pl = pool[s]
        BY <1>4, <2>4, <3>1
      <4>2. [pool EXCEPT ![s] = pool[s]] = pool
        BY <1>1 DEF MapTyped
      <4>. QED  BY <4>1, <4>2
    <3>2. CASE p \notin DOMAIN tree[s]
      BY <1>4, <2>4, <3>2
    <3>. QED  BY <3>1, <3>2
  <2>. QED  BY <2>4, <2>6, <2>7, <2>8
<1>12. /\ tree' = [t \in Side |-> tree'[t]] /\ tree'[s] = u
       /\ \A t \in Side : t # s => tree'[t] = tree[t]
  BY <1>1, <1>11, OneSide DEF MapTyped
<1>13. /\ pool' = [t \in Side |-> pool'[t]] /\ pool'[s] = pl
       /\ \A t \in Side : t # s => pool'[t] = pool[t]
  BY <1>1, <1>11, OneSide DEF MapTyped
<1>14. /\ cell' \in [Side -> [Nodes -> Level]] /\ cell'[s][a] = m
       /\ \A t \in Side, b \in Nodes : ~(t = s /\ b = a) => cell'[t][b] = cell[t][b]
  BY <1>1, <1>7, <1>9, <1>11, OneCell DEF MapTyped
<1>15. MapTyped'
  <2>1. \A t \in Side : IsTree(tree'[t]) /\ PoolInv(pool'[t], Used(tree'[t]))
    <3> SUFFICES ASSUME NEW t \in Side PROVE IsTree(tree'[t]) /\ PoolInv(pool'[t], Used(tree'[t]))
      OBVIOUS
    <3>1. CASE t = s
      BY <1>7, <1>12, <1>13, <3>1
    <3>2. CASE t # s
      BY <1>12, <1>13, <3>2 DEF MapTyped
    <3>. QED  BY <3>1, <3>2
  <2>. QED  BY <1>12, <1>13, <1>14, <2>1 DEF MapTyped, IsTree, PoolInv, Used, FreeList
<1>16. MapLevels'[s][p] = m
  BY <1>1, <1>7, <1>12, <1>14, MapLevelIs
<1>17. ASSUME NEW t \in Side, NEW q \in Price, ~(t = s /\ q = p)
       PROVE  MapLevels'[t][q] = MapLevels[t][q]
  <2>1. CASE q \in DOMAIN tree[t]
    <3>1. q \in DOMAIN tree'[t] /\ tree'[t][q] = tree[t][q] /\ ~(t = s /\ tree[t][q] = a)
      BY <1>7, <1>12, <1>17, <2>1
    <3>2. tree[t][q] \in Nodes
      BY <2>1 DEF MapTyped, IsTree
    <3>. QED  BY <1>14, <2>1, <3>1, <3>2, MapLevelIs
  <2>2. CASE q \notin DOMAIN tree[t]
    <3>1. q \notin DOMAIN tree'[t]
      BY <1>7, <1>12, <1>17, <2>2
    <3>. QED  BY <2>2, <3>1, MapLevelIs
  <2>. QED  BY <2>1, <2>2
<1>. QED  BY <1>1, <1>7, <1>9, <1>10, <1>11, <1>12, <1>15, <1>16, <1>17

\* The node of a price that leaves the tree goes back to the allocator.
LEMMA LeaveNode ==
    ASSUME NEW t, IsTree(t), NEW pl, PoolInv(pl, Used(t)), NEW p \in DOMAIN t,
           NEW u, u = [q \in DOMAIN t \ {p} |-> t[q]]
    PROVE  /\ IsTree(u) /\ PoolInv(Map!Deallocated(pl, t[p]), Used(u))
           /\ DOMAIN u = DOMAIN t \ {p} /\ \A q \in DOMAIN u : u[q] = t[q]
<1>1. /\ DOMAIN t \subseteq Price /\ \A q \in DOMAIN t : t[q] \in Nodes
      /\ \A q, r \in DOMAIN t : t[q] = t[r] => q = r
  BY DEF IsTree
<1>2. DOMAIN u = DOMAIN t \ {p} /\ \A q \in DOMAIN u : u[q] = t[q]
  OBVIOUS
<1>3. u = [q \in DOMAIN u |-> u[q]]
  OBVIOUS
<1>4. IsTree(u)
  <2>1. u \in [DOMAIN u -> Nodes]
    BY <1>1, <1>2, <1>3
  <2>. QED  BY <1>1, <1>2, <2>1 DEF IsTree
<1>5. Used(u) = Used(t) \ {t[p]}
  <2>1. ASSUME NEW q \in DOMAIN u PROVE u[q] \in Used(t) /\ u[q] # t[p]
    BY <1>1, <1>2 DEF Used
  <2>2. ASSUME NEW q \in DOMAIN t, t[q] # t[p] PROVE t[q] \in Used(u)
    <3>1. q \in DOMAIN u /\ u[q] = t[q]
      BY <1>2, <2>2
    <3>. QED  BY <3>1 DEF Used
  <2>. QED  BY <2>1, <2>2 DEF Used
<1>6. Used(t) \subseteq Nodes /\ t[p] \in Used(t)
  BY <1>1 DEF Used
<1>7. PoolInv(Map!Deallocated(pl, t[p]), Used(t) \ {t[p]})
  BY <1>6, PoolDeallocates
<1>. QED  BY <1>2, <1>4, <1>5, <1>7

\* What the map book makes of an order that leaves, l its level after unlink.
MapUnlinks(l, s, p, o) ==
    /\ MapTyped'
    /\ s \in Side /\ p \in Price
    /\ l.head = (IF mapLinks[o].prev = Null THEN mapLinks[o].next ELSE MapLevels[s][p].head)
    /\ l.tail = (IF mapLinks[o].next = Null THEN mapLinks[o].prev ELSE MapLevels[s][p].tail)
    /\ l.count = MapLevels[s][p].count - 1
    /\ MapLevels'[s][p] = (IF l.head = Null THEN EmptyLevel ELSE l)
    /\ \A t \in Side, q \in Price : ~(t = s /\ q = p) => MapLevels'[t][q] = MapLevels[t][q]
    /\ mapLinks' = UnlinkLinks(mapLinks, o)
    /\ DOMAIN tree'[s] = (IF l.head = Null THEN DOMAIN tree[s] \ {p} ELSE DOMAIN tree[s])
    /\ \A t \in Side : t # s => tree'[t] = tree[t]

\* The map book's half of an order that leaves.
LEMMA LeaveNodes ==
    ASSUME MapTyped, SlotsInv, mapLinks \in [Slot -> Link], NEW o \in Slot, Leave(o),
           NEW s, s = order[o].side, NEW p, p = order[o].price, p \in DOMAIN tree[s],
           NEW l, l = UnlinkedFrom(MapLevels[s][p], mapLinks, o, order[o].remaining)
    PROVE  MapUnlinks(l, s, p, o)
<1>1. s \in Side /\ p \in Price /\ order[o].remaining \in Int
  <2>1. ~Idle(o) /\ order[o] \in Holding
    BY SlotGiven DEF SlotsInv
  <2>. QED  BY <2>1 DEF SlotsInv, Holding
<1>2. PICK a : a = tree[s][p]
  OBVIOUS
<1>3. /\ IsTree(tree[s]) /\ PoolInv(pool[s], Used(tree[s])) /\ a \in Nodes
      /\ cell[s][a] \in Level /\ MapLevels[s][p] = cell[s][a]
      /\ \A q \in DOMAIN tree[s] : q # p => tree[s][q] # a
  <2>1. IsTree(tree[s]) /\ PoolInv(pool[s], Used(tree[s]))
    BY <1>1 DEF MapTyped
  <2>2. a \in Nodes /\ \A q \in DOMAIN tree[s] : q # p => tree[s][q] # a
    BY <1>2, <2>1 DEF IsTree
  <2>3. cell[s][a] \in Level
    BY <1>1, <2>2 DEF MapTyped
  <2>. QED  BY <1>1, <1>2, <2>1, <2>2, <2>3, MapLevelIs
<1>4. /\ l \in Level
      /\ l.head = (IF mapLinks[o].prev = Null THEN mapLinks[o].next ELSE MapLevels[s][p].head)
      /\ l.tail = (IF mapLinks[o].next = Null THEN mapLinks[o].prev ELSE MapLevels[s][p].tail)
      /\ l.count = MapLevels[s][p].count - 1
  BY <1>1, <1>3, UnlinkedFields
<1>5. PICK k : k = Map!UnlinkedFrom(cell[s][a], mapLinks, o, order[o].remaining)
  OBVIOUS
<1>6. k = l /\ (Map!IsEmpty(k) <=> l.head = Null)
  <2>1. k = l
    BY <1>3, <1>5, SameMap
  <2>. QED  BY <2>1, SameMap DEF IsEmpty
<1>7. /\ mapLinks' = UnlinkLinks(mapLinks, o)
      /\ \/ /\ l.head = Null
            /\ tree' = [tree EXCEPT ![s] = [q \in DOMAIN tree[s] \ {p} |-> tree[s][q]]]
            /\ pool' = [pool EXCEPT ![s] = Map!Deallocated(pool[s], a)]
            /\ cell' = [cell EXCEPT ![s][a] = EmptyLevel]
         \/ /\ l.head # Null
            /\ cell' = [cell EXCEPT ![s][a] = l]
            /\ UNCHANGED <<tree, pool>>
  <2>1. Map!RemoveOrder(o, order[o])
    BY DEF Leave
  <2>2. /\ mapLinks' = Map!UnlinkLinks(mapLinks, o)
        /\ \/ /\ Map!IsEmpty(k)
              /\ tree' = [tree EXCEPT ![s] = [q \in DOMAIN tree[s] \ {p} |-> tree[s][q]]]
              /\ pool' = [pool EXCEPT ![s] = Map!Deallocated(pool[s], a)]
              /\ cell' = [cell EXCEPT ![s][a] = Map!EmptyLevel]
           \/ /\ ~Map!IsEmpty(k)
              /\ cell' = [cell EXCEPT ![s][a] = k]
              /\ UNCHANGED <<tree, pool>>
    BY <1>2, <1>5, <2>1 DEF Map!RemoveOrder
  <2>3. Map!UnlinkLinks(mapLinks, o) = UnlinkLinks(mapLinks, o) /\ Map!EmptyLevel = EmptyLevel
    BY SameMap
  <2>. QED  BY <1>6, <2>2, <2>3
<1>8. EmptyLevel \in Level
  BY PriceAssumption DEF EmptyLevel, Level
<1>9. CASE l.head = Null
  <2>1. PICK u : u = [q \in DOMAIN tree[s] \ {p} |-> tree[s][q]]
    OBVIOUS
  <2>2. PICK pl : pl = Map!Deallocated(pool[s], a)
    OBVIOUS
  <2>3. /\ tree' = [tree EXCEPT ![s] = u] /\ pool' = [pool EXCEPT ![s] = pl]
        /\ cell' = [cell EXCEPT ![s][a] = EmptyLevel]
    BY <1>7, <1>9, <2>1, <2>2
  <2>4. /\ IsTree(u) /\ PoolInv(pl, Used(u))
        /\ DOMAIN u = DOMAIN tree[s] \ {p} /\ \A q \in DOMAIN u : u[q] = tree[s][q]
    BY <1>2, <1>3, <2>1, <2>2, LeaveNode
  <2>5. /\ tree' = [t \in Side |-> tree'[t]] /\ tree'[s] = u
        /\ \A t \in Side : t # s => tree'[t] = tree[t]
    BY <1>1, <2>3, OneSide DEF MapTyped
  <2>6. /\ pool' = [t \in Side |-> pool'[t]] /\ pool'[s] = pl
        /\ \A t \in Side : t # s => pool'[t] = pool[t]
    BY <1>1, <2>3, OneSide DEF MapTyped
  <2>7. /\ cell' \in [Side -> [Nodes -> Level]]
        /\ \A t \in Side, b \in Nodes : ~(t = s /\ b = a) => cell'[t][b] = cell[t][b]
    BY <1>1, <1>3, <1>8, <2>3, OneCell DEF MapTyped
  <2>8. MapTyped'
    <3>1. \A t \in Side : IsTree(tree'[t]) /\ PoolInv(pool'[t], Used(tree'[t]))
      <4> SUFFICES ASSUME NEW t \in Side PROVE IsTree(tree'[t]) /\ PoolInv(pool'[t], Used(tree'[t]))
        OBVIOUS
      <4>1. CASE t = s
        BY <2>4, <2>5, <2>6, <4>1
      <4>2. CASE t # s
        BY <2>5, <2>6, <4>2 DEF MapTyped
      <4>. QED  BY <4>1, <4>2
    <3>. QED  BY <2>5, <2>6, <2>7, <3>1 DEF MapTyped, IsTree, PoolInv, Used, FreeList
  <2>9. MapLevels'[s][p] = EmptyLevel
    BY <1>1, <2>4, <2>5, MapLevelIs
  <2>10. ASSUME NEW t \in Side, NEW q \in Price, ~(t = s /\ q = p)
         PROVE  MapLevels'[t][q] = MapLevels[t][q]
    <3>1. CASE q \in DOMAIN tree[t]
      <4>1. q \in DOMAIN tree'[t] /\ tree'[t][q] = tree[t][q] /\ ~(t = s /\ tree[t][q] = a)
        BY <1>3, <2>4, <2>5, <2>10, <3>1
      <4>2. tree[t][q] \in Nodes
        BY <3>1 DEF MapTyped, IsTree
      <4>. QED  BY <2>7, <3>1, <4>1, <4>2, MapLevelIs
    <3>2. CASE q \notin DOMAIN tree[t]
      <4>1. q \notin DOMAIN tree'[t]
        BY <2>4, <2>5, <2>10, <3>2
      <4>. QED  BY <3>2, <4>1, MapLevelIs
    <3>. QED  BY <3>1, <3>2
  <2>. QED  BY <1>1, <1>4, <1>7, <1>9, <2>4, <2>5, <2>8, <2>9, <2>10 DEF MapUnlinks
<1>10. CASE l.head # Null
  <2>1. cell' = [cell EXCEPT ![s][a] = l] /\ tree' = tree /\ pool' = pool
    BY <1>7, <1>10
  <2>2. /\ cell' \in [Side -> [Nodes -> Level]] /\ cell'[s][a] = l
        /\ \A t \in Side, b \in Nodes : ~(t = s /\ b = a) => cell'[t][b] = cell[t][b]
    <3>1. cell \in [Side -> [Nodes -> Level]] /\ s \in Side /\ a \in Nodes /\ l \in Level
      BY <1>1, <1>3, <1>4 DEF MapTyped
    <3> DEFINE d == [cell EXCEPT ![s][a] = l]
    <3>2. /\ d \in [Side -> [Nodes -> Level]] /\ d[s][a] = l
          /\ \A t \in Side, b \in Nodes : ~(t = s /\ b = a) => d[t][b] = cell[t][b]
      BY <3>1, OneCell
    <3>. QED  BY <2>1, <3>2
  <2>3. MapTyped'
    <3>1. \A t \in Side : IsTree(tree'[t]) /\ PoolInv(pool'[t], Used(tree'[t]))
      BY <2>1 DEF MapTyped
    <3>2. tree' = [t \in Side |-> tree'[t]] /\ pool' = [t \in Side |-> pool'[t]]
      BY <2>1 DEF MapTyped
    <3>. QED  BY <2>2, <3>1, <3>2 DEF MapTyped, IsTree, PoolInv, Used, FreeList
  <2>4. MapLevels'[s][p] = l
    <3>1. p \in DOMAIN tree'[s] /\ tree'[s][p] = a
      BY <1>2, <2>1
    <3>2. MapLevels'[s][p] = cell'[s][tree'[s][p]]
      BY <1>1, <3>1, MapLevelIs
    <3>. QED  BY <2>2, <3>1, <3>2
  <2>5. ASSUME NEW t \in Side, NEW q \in Price, ~(t = s /\ q = p)
        PROVE  MapLevels'[t][q] = MapLevels[t][q]
    <3>1. CASE q \in DOMAIN tree[t]
      <4>1. tree[t][q] \in Nodes /\ ~(t = s /\ tree[t][q] = a)
        BY <1>3, <2>5, <3>1 DEF MapTyped, IsTree
      <4>2. MapLevels[t][q] = cell[t][tree[t][q]]
        BY <3>1, MapLevelIs
      <4>3. MapLevels'[t][q] = cell'[t][tree[t][q]]
        BY <2>1, <3>1, MapLevelIs
      <4>4. cell'[t][tree[t][q]] = cell[t][tree[t][q]]
        BY <2>2, <4>1
      <4>. QED  BY <4>2, <4>3, <4>4
    <3>2. CASE q \notin DOMAIN tree[t]
      BY <2>1, <3>2, MapLevelIs
    <3>. QED  BY <3>1, <3>2
  <2>. QED  BY <1>1, <1>4, <1>7, <1>10, <2>1, <2>3, <2>4, <2>5 DEF MapUnlinks
<1>. QED  BY <1>9, <1>10

\* The map book's half of a reduction.
LEMMA ReduceNodes ==
    ASSUME MapTyped, SlotsInv, NEW o \in Slot, NEW traded \in Sizes, Reduce(o, traded),
           NEW s, s = order[o].side, NEW p, p = order[o].price, p \in DOMAIN tree[s]
    PROVE  /\ MapTyped'
           /\ tree' = tree /\ mapLinks' = mapLinks
           /\ \A t \in Side, q \in Price :
                 /\ MapLevels'[t][q].head = MapLevels[t][q].head
                 /\ MapLevels'[t][q].tail = MapLevels[t][q].tail
                 /\ MapLevels'[t][q].count = MapLevels[t][q].count
                 /\ MapLevels'[t][q].price = MapLevels[t][q].price
                 /\ MapLevels'[t][q].total = (IF t = s /\ q = p
                                               THEN MapLevels[t][q].total - traded
                                               ELSE MapLevels[t][q].total)
<1>1. s \in Side /\ p \in Price /\ traded \in Int
  <2>1. ~Idle(o) /\ order[o] \in Holding /\ traded \in Nat
    BY SlotReduced DEF SlotsInv
  <2>. QED  BY <2>1 DEF SlotsInv, Holding
<1>2. PICK a : a = tree[s][p]
  OBVIOUS
<1>3. a \in Nodes /\ cell[s][a] \in Level
  <2>1. a \in Nodes
    BY <1>1, <1>2 DEF MapTyped, IsTree
  <2>. QED  BY <1>1, <2>1 DEF MapTyped
<1>4. cell' = [cell EXCEPT ![s][a].total = @ - traded] /\ UNCHANGED <<tree, pool, mapLinks>>
  BY <1>2 DEF Reduce, Map!ReduceInPlace
<1>5. PICK m : m = [cell[s][a] EXCEPT !.total = cell[s][a].total - traded]
  OBVIOUS
<1>6. cell' = [cell EXCEPT ![s][a] = m]
  BY <1>4, <1>5
<1>7. /\ m \in Level /\ m.head = cell[s][a].head
      /\ m.tail = cell[s][a].tail /\ m.count = cell[s][a].count
      /\ m.price = cell[s][a].price /\ m.total = cell[s][a].total - traded
  <2>1. PICK l, d : l = cell[s][a] /\ d = cell[s][a].total - traded
    OBVIOUS
  <2>2. l \in Level /\ d \in Int /\ m = [l EXCEPT !.total = d]
    BY <1>1, <1>3, <1>5, <2>1 DEF Level
  <2>3. /\ m \in Level /\ m.head = l.head /\ m.tail = l.tail /\ m.count = l.count
        /\ m.price = l.price /\ m.total = d
    BY <2>2, ReducedFields
  <2>. QED  BY <2>1, <2>3
<1>8. /\ cell' \in [Side -> [Nodes -> Level]] /\ cell'[s][a] = m
      /\ \A t \in Side, b \in Nodes : ~(t = s /\ b = a) => cell'[t][b] = cell[t][b]
  BY <1>1, <1>3, <1>6, <1>7, OneCell DEF MapTyped
<1>9. MapTyped'
  <2>1. \A t \in Side : IsTree(tree'[t]) /\ PoolInv(pool'[t], Used(tree'[t]))
    BY <1>4 DEF MapTyped
  <2>2. tree' = [t \in Side |-> tree'[t]] /\ pool' = [t \in Side |-> pool'[t]]
    BY <1>4 DEF MapTyped
  <2>. QED  BY <1>8, <2>1, <2>2 DEF MapTyped, IsTree, PoolInv, Used, FreeList
<1>10. \A t \in Side, b \in Nodes : /\ cell'[t][b].head = cell[t][b].head
                                    /\ cell'[t][b].tail = cell[t][b].tail
                                    /\ cell'[t][b].count = cell[t][b].count
                                    /\ cell'[t][b].price = cell[t][b].price
                                    /\ cell'[t][b].total = (IF t = s /\ b = a
                                                             THEN cell[t][b].total - traded
                                                             ELSE cell[t][b].total)
  BY <1>7, <1>8
<1>11. ASSUME NEW t \in Side, NEW q \in Price
       PROVE  /\ MapLevels'[t][q].head = MapLevels[t][q].head
              /\ MapLevels'[t][q].tail = MapLevels[t][q].tail
              /\ MapLevels'[t][q].count = MapLevels[t][q].count
              /\ MapLevels'[t][q].price = MapLevels[t][q].price
              /\ MapLevels'[t][q].total = (IF t = s /\ q = p
                                            THEN MapLevels[t][q].total - traded
                                            ELSE MapLevels[t][q].total)
  <2>1. CASE q \in DOMAIN tree[t]
    <3>1. tree[t][q] \in Nodes /\ (t = s => (tree[t][q] = a <=> q = p))
      BY <1>2, <2>1 DEF MapTyped, IsTree
    <3>2. MapLevels'[t][q] = cell'[t][tree[t][q]] /\ MapLevels[t][q] = cell[t][tree[t][q]]
      BY <1>4, <2>1, MapLevelIs
    <3>. QED  BY <1>10, <3>1, <3>2
  <2>2. CASE q \notin DOMAIN tree[t]
    <3>1. MapLevels'[t][q] = MapLevels[t][q] /\ ~(t = s /\ q = p)
      BY <1>4, <2>2, MapLevelIs
    <3>. QED  BY <3>1
  <2>. QED  BY <2>1, <2>2
<1>. QED  BY <1>4, <1>9, <1>11

\* The lists after a step are the queues after it, and so are the tree's prices.
LEMMA MapBecomes ==
    ASSUME MapTyped', NEW R, Bitset!Queue' = R, Holds(MapLevels', mapLinks', R),
           \A t \in Side, q \in Price : q \in DOMAIN tree'[t] <=> Len(R[t][q]) # 0
    PROVE  MapInv'
<1>1. Holds(MapLevels', mapLinks', Bitset!Queue')
  OBVIOUS
<1>2. \A t \in Side, q \in Price : q \in DOMAIN tree'[t] <=> Len(Bitset!Queue'[t][q]) # 0
  OBVIOUS
<1>. QED  BY <1>1, <1>2 DEF MapInv, Holds, IsList

\* The tree is empty at the start, and no node is in use.
LEMMA MapInit ==
    ASSUME Init
    PROVE  MapInv
<1>1. /\ tree = [s \in Side |-> <<>>]
      /\ cell = [s \in Side |-> [a \in Nodes |-> EmptyLevel]]
      /\ pool = [s \in Side |-> Map!EmptyPool]
      /\ mapLinks = [o \in Slot |-> Unlinked]
  BY SameMap DEF Init, Map!Init, Nodes
<1>2. DOMAIN <<>> = {} /\ <<>> \in Seq(Slot) /\ Len(<<>>) = 0 /\ 1..0 = {}
  BY EmptySeq
<1>3. IsTree(<<>>) /\ Used(<<>>) = {}
  <2>1. <<>> = [p \in {} |-> <<>>[p]]
    BY <1>2
  <2>2. <<>> \in [{} -> Nodes]
    BY <2>1
  <2>. QED  BY <1>2, <2>2 DEF IsTree, Used
<1>4. PoolInv(Map!EmptyPool, {})
  <2>1. Map!EmptyPool = [free |-> -1, next |-> [a \in Nodes |-> -1], blocks |-> 0]
    BY DEF Map!EmptyPool, Map!NoNode, Nodes
  <2>2. Map!EmptyPool \in Pool /\ Map!EmptyPool.free = -1 /\ Map!EmptyPool.blocks = 0
    BY <2>1 DEF Pool
  <2>3. PerBlock \in Nat /\ NodeCount \in Nat
    BY NodeFacts
  <2>4. 0 * PerBlock = 0 /\ 0..(0 * PerBlock - 1) = {} /\ 0 <= NodeCount
    BY <2>3, Z3
  <2>5. <<>> \in Seq(Nodes)
    BY EmptySeq
  <2>6. FreeList(Map!EmptyPool, <<>>) /\ Listed(<<>>) = {}
    BY <1>2, <2>2, <2>5 DEF FreeList, Listed
  <2>. QED  BY <2>2, <2>4, <2>6 DEF PoolInv
<1>5. EmptyLevel \in Level /\ EmptyLevel.head = Null /\ EmptyLevel.tail = Null
      /\ EmptyLevel.count = 0
  BY PriceAssumption DEF EmptyLevel, Level
<1>6. MapTyped
  BY <1>1, <1>3, <1>4, <1>5 DEF MapTyped
<1>7. \A s \in Side, p \in Price : MapLevels[s][p] = EmptyLevel /\ p \notin DOMAIN tree[s]
  <2>1. \A s \in Side : tree[s] = <<>>
    BY <1>1
  <2>. QED  BY <1>2, <2>1, MapLevelIs
<1>8. Bitset!Queue = [s \in Side |-> [p \in Price |-> <<>>]]
  BY ListInit
<1>9. Bitset!Queue \in [Side -> [Price -> Seq(Slot)]]
      /\ \A s \in Side, p \in Price : Bitset!Queue[s][p] = <<>>
  BY <1>2, <1>8
<1>10. Holds(MapLevels, mapLinks, Bitset!Queue)
  <2>1. mapLinks \in [Slot -> Link]
    BY <1>1 DEF Link, Unlinked
  <2>2. \A s \in Side, p \in Price : IsList(MapLevels[s][p], mapLinks, Bitset!Queue[s][p])
    BY <1>2, <1>5, <1>7, <1>9 DEF IsList
  <2>. QED  BY <1>2, <1>9, <2>1, <2>2 DEF Holds
<1>. QED  BY <1>2, <1>6, <1>7, <1>9, <1>10 DEF MapInv

\* An order that rests is pushed on the level of its price, made for it if need be.
LEMMA MapRest ==
    ASSUME ListInv, MapInv, NEW o \in Slot, NEW r \in Offers, Rest(o, r)
    PROVE  MapInv'
<1>1. PICK Q : Q = Bitset!Queue
  OBVIOUS
<1>2. /\ SlotsInv /\ Placed(Q) /\ MapTyped /\ Holds(MapLevels, mapLinks, Q)
      /\ Q \in [Side -> [Price -> Seq(Slot)]]
      /\ \A t \in Side, q \in Price : q \in DOMAIN tree[t] <=> Len(Q[t][q]) # 0
  <2>1. /\ SlotsInv /\ Placed(Q) /\ MapTyped /\ Holds(MapLevels, mapLinks, Q)
        /\ \A t \in Side, q \in Price : q \in DOMAIN tree[t] <=> Len(Q[t][q]) # 0
    BY <1>1 DEF ListInv, MapInv
  <2>. QED  BY <2>1 DEF Holds
<1>3. \A t \in Side, q \in Price : \A k \in 1..Len(Q[t][q]) : Q[t][q][k] # o
  <2>1. Idle(o)
    BY <1>2, SlotTaken
  <2>. QED  BY <1>2, <2>1, IdleIsOut
<1>4. PICK s, p : s = r.side /\ p = r.price
  OBVIOUS
<1>5. PICK lv, mv : lv = MapLevels /\ mv = MapLevels'
  OBVIOUS
<1>6. /\ MapTyped' /\ s \in Side /\ p \in Price
      /\ mv[s][p].head = (IF lv[s][p].tail = Null THEN o ELSE lv[s][p].head)
      /\ mv[s][p].tail = o /\ mv[s][p].count = lv[s][p].count + 1
      /\ \A t \in Side, q \in Price : ~(t = s /\ q = p) => mv[t][q] = lv[t][q]
      /\ mapLinks' = PushLinks(mapLinks, lv[s][p], o)
      /\ DOMAIN tree'[s] = DOMAIN tree[s] \cup {p}
      /\ \A t \in Side : t # s => tree'[t] = tree[t]
  <2>1. /\ MapTyped' /\ s \in Side /\ p \in Price
        /\ MapLevels'[s][p].head = (IF MapLevels[s][p].tail = Null THEN o
                                    ELSE MapLevels[s][p].head)
        /\ MapLevels'[s][p].tail = o /\ MapLevels'[s][p].count = MapLevels[s][p].count + 1
        /\ \A t \in Side, q \in Price : ~(t = s /\ q = p) => MapLevels'[t][q] = MapLevels[t][q]
        /\ mapLinks' = PushLinks(mapLinks, MapLevels[s][p], o)
        /\ DOMAIN tree'[s] = DOMAIN tree[s] \cup {p}
        /\ \A t \in Side : t # s => tree'[t] = tree[t]
    <3>1. MapTyped
      BY <1>2
    <3>. QED  BY <1>4, <3>1, RestNodes
  <2>. QED  BY <1>5, <2>1
<1>7. PICK R : R = [Q EXCEPT ![s][p] = Append(Q[s][p], o)]
  OBVIOUS
<1>8. Bitset!Queue' = R
  <2>1. Bitset!Queue' = Joined(Q, o, r)
    BY <1>1, RestLists
  <2>. QED  BY <1>4, <1>7, <2>1 DEF Joined
<1>9. Holds(mv, PushLinks(mapLinks, lv[s][p], o), R)
  <2>1. Holds(lv, mapLinks, Q)
    BY <1>2, <1>5
  <2>2. \A t \in Side, q \in Price : ~(t = s /\ q = p) =>
           /\ mv[t][q].head = lv[t][q].head
           /\ mv[t][q].tail = lv[t][q].tail
           /\ mv[t][q].count = lv[t][q].count
    BY <1>6
  <2>3. /\ s \in Side /\ p \in Price
        /\ mv[s][p].head = IF lv[s][p].tail = Null THEN o ELSE lv[s][p].head
        /\ mv[s][p].tail = o /\ mv[s][p].count = lv[s][p].count + 1
    BY <1>6
  <2>4. PushedAt(lv, mv, s, p, o)
    BY <2>2, <2>3 DEF PushedAt
  <2>5. Holds(mv, PushLinks(mapLinks, lv[s][p], o), Behind(Q, s, p, o))
    BY <1>3, <2>1, <2>3, <2>4, HoldsPush
  <2>. QED  BY <1>7, <2>5 DEF Behind
<1>10. Q[s][p] \in Seq(Slot) /\ Len(Q[s][p]) \in Nat
  BY <1>2, <1>6, LenProperties
<1>11. /\ Append(Q[s][p], o) \in Seq(Slot)
       /\ Len(Append(Q[s][p], o)) = Len(Q[s][p]) + 1 /\ Len(Q[s][p]) + 1 # 0
  BY <1>10, AppendProperties
<1>12. /\ R[s][p] = Append(Q[s][p], o)
       /\ \A t \in Side, q \in Price : ~(t = s /\ q = p) => R[t][q] = Q[t][q]
  BY <1>2, <1>6, <1>7, <1>11, OneCell
<1>13. ASSUME NEW t \in Side, NEW q \in Price
       PROVE  q \in DOMAIN tree'[t] <=> Len(R[t][q]) # 0
  <2>1. CASE t = s /\ q = p
    BY <1>6, <1>11, <1>12, <2>1
  <2>2. CASE ~(t = s /\ q = p)
    <3>1. q \in DOMAIN tree'[t] <=> q \in DOMAIN tree[t]
      BY <1>6, <2>2
    <3>. QED  BY <1>2, <1>12, <2>2, <3>1
  <2>. QED  BY <2>1, <2>2
<1>14. Holds(MapLevels', mapLinks', R)
  BY <1>5, <1>6, <1>9
<1>. QED  BY <1>6, <1>8, <1>13, <1>14, MapBecomes

\* An order that leaves is unlinked, and a level it empties leaves the tree.
LEMMA MapLeave ==
    ASSUME ListInv, MapInv, NEW o \in Slot, Leave(o)
    PROVE  MapInv'
<1>1. PICK Q : Q = Bitset!Queue
  OBVIOUS
<1>2. /\ SlotsInv /\ Placed(Q) /\ MapTyped /\ Holds(MapLevels, mapLinks, Q)
      /\ Q \in [Side -> [Price -> Seq(Slot)]] /\ mapLinks \in [Slot -> Link]
      /\ \A t \in Side, q \in Price : q \in DOMAIN tree[t] <=> Len(Q[t][q]) # 0
  BY <1>1 DEF ListInv, MapInv, Holds
<1>3. PICK s \in Side, p \in Price : \E i \in 1..Len(Q[s][p]) :
            /\ s = order[o].side /\ p = order[o].price
            /\ Q[s][p][i] = o /\ Bitset!Queue' = Left(Q, s, p, i)
  BY <1>1, LeaveLists
<1>4. PICK i \in 1..Len(Q[s][p]) :
            /\ s = order[o].side /\ p = order[o].price
            /\ Q[s][p][i] = o /\ Bitset!Queue' = Left(Q, s, p, i)
  BY <1>3
<1>5. Q[s][p] \in Seq(Slot) /\ Len(Q[s][p]) \in Nat /\ DOMAIN Q[s][p] = 1..Len(Q[s][p])
  BY <1>2, LenProperties
<1>6. p \in DOMAIN tree[s]
  <2>1. Len(Q[s][p]) # 0
    BY <1>4, <1>5
  <2>. QED  BY <1>2, <2>1
<1>7. PICK lv, mv : lv = MapLevels /\ mv = MapLevels'
  OBVIOUS
<1>8. PICK l : l = UnlinkedFrom(lv[s][p], mapLinks, o, order[o].remaining)
  OBVIOUS
<1>9. /\ MapTyped'
      /\ l.head = (IF mapLinks[o].prev = Null THEN mapLinks[o].next ELSE lv[s][p].head)
      /\ l.tail = (IF mapLinks[o].next = Null THEN mapLinks[o].prev ELSE lv[s][p].tail)
      /\ l.count = lv[s][p].count - 1
      /\ mv[s][p] = (IF l.head = Null THEN EmptyLevel ELSE l)
      /\ \A t \in Side, q \in Price : ~(t = s /\ q = p) => mv[t][q] = lv[t][q]
      /\ mapLinks' = UnlinkLinks(mapLinks, o)
      /\ DOMAIN tree'[s] = (IF l.head = Null THEN DOMAIN tree[s] \ {p} ELSE DOMAIN tree[s])
      /\ \A t \in Side : t # s => tree'[t] = tree[t]
  <2>1. s = order[o].side /\ p = order[o].price
    BY <1>4
  <2>2. l = UnlinkedFrom(MapLevels[s][p], mapLinks, o, order[o].remaining)
    BY <1>7, <1>8
  <2>3. MapTyped /\ SlotsInv /\ mapLinks \in [Slot -> Link]
    BY <1>2
  <2>4. MapUnlinks(l, s, p, o)
    BY <1>6, <2>1, <2>2, <2>3, LeaveNodes
  <2>. QED  BY <1>7, <2>4 DEF MapUnlinks
<1>10. PICK R : R = [Q EXCEPT ![s][p] = RemoveAt(Q[s][p], i)]
  OBVIOUS
<1>11. Bitset!Queue' = R
  BY <1>4, <1>10 DEF Left
\* The level as unlink leaves it, before an empty one is erased.
<1>12. PICK xv : xv = [t \in Side |-> [q \in Price |-> IF t = s /\ q = p THEN l ELSE lv[t][q]]]
  OBVIOUS
<1>13. xv[s][p] = l /\ \A t \in Side, q \in Price : ~(t = s /\ q = p) => xv[t][q] = lv[t][q]
  BY <1>12
<1>14. Holds(xv, UnlinkLinks(mapLinks, o), R)
  <2>1. Holds(lv, mapLinks, Q)
    BY <1>2, <1>7
  <2>2. Unhooked(lv, xv, mapLinks, o, s, p)
    BY <1>9, <1>13 DEF Unhooked
  <2>3. Holds(xv, UnlinkLinks(mapLinks, o), [Q EXCEPT ![s][p] = RemoveAt(Q[s][p], i)])
    BY <1>4, <2>1, <2>2, HoldsUnlink
  <2>. QED  BY <1>10, <2>3
<1>15. IsList(l, mapLinks', R[s][p]) /\ R[s][p] \in Seq(Slot)
  BY <1>9, <1>13, <1>14 DEF Holds
<1>16. Len(R[s][p]) \in Nat /\ (l.head = Null <=> Len(R[s][p]) = 0)
  <2>1. Len(R[s][p]) \in Nat /\ \A k \in 1..Len(R[s][p]) : R[s][p][k] # Null
    BY <1>15, QueueTypes
  <2>2. l.head = IF Len(R[s][p]) = 0 THEN Null ELSE R[s][p][1]
    BY <1>15 DEF IsList
  <2>3. Len(R[s][p]) # 0 => 1 \in 1..Len(R[s][p])
    BY <2>1
  <2>. QED  BY <2>1, <2>2, <2>3
<1>17. /\ mv[s][p].head = l.head /\ mv[s][p].tail = l.tail /\ mv[s][p].count = l.count
  <2>1. CASE l.head = Null
    <3>1. l.tail = Null /\ l.count = 0
      BY <1>15, <1>16, <2>1 DEF IsList
    <3>2. EmptyLevel.head = Null /\ EmptyLevel.tail = Null /\ EmptyLevel.count = 0
      BY DEF EmptyLevel
    <3>. QED  BY <1>9, <2>1, <3>1, <3>2
  <2>2. CASE l.head # Null
    BY <1>9, <2>2
  <2>. QED  BY <2>1, <2>2
<1>18. \A t \in Side, q \in Price : /\ mv[t][q].head = xv[t][q].head
                                    /\ mv[t][q].tail = xv[t][q].tail
                                    /\ mv[t][q].count = xv[t][q].count
  BY <1>9, <1>13, <1>17
<1>19. Holds(mv, UnlinkLinks(mapLinks, o), R)
  BY <1>14, <1>18, HoldsSame
<1>20. Holds(MapLevels', mapLinks', R)
  BY <1>7, <1>9, <1>19
<1>21. \A t \in Side, q \in Price : ~(t = s /\ q = p) => R[t][q] = Q[t][q]
  <2>1. RemoveAt(Q[s][p], i) \in Seq(Slot)
    BY <1>4, <1>5, RemoveAtFacts
  <2>. QED  BY <1>2, <1>10, <2>1, OneCell
<1>22. ASSUME NEW t \in Side, NEW q \in Price
       PROVE  q \in DOMAIN tree'[t] <=> Len(R[t][q]) # 0
  <2>1. CASE t = s /\ q = p
    BY <1>6, <1>9, <1>16, <2>1
  <2>2. CASE ~(t = s /\ q = p)
    <3>1. q \in DOMAIN tree'[t] <=> q \in DOMAIN tree[t]
      BY <1>9, <2>2
    <3>. QED  BY <1>2, <1>21, <2>2, <3>1
  <2>. QED  BY <2>1, <2>2
<1>. QED  BY <1>9, <1>11, <1>20, <1>22, MapBecomes

\* A reduction changes one level's total.
LEMMA MapReduce ==
    ASSUME ListInv, MapInv, NEW o \in Slot, NEW traded \in Sizes, Reduce(o, traded)
    PROVE  MapInv'
<1>1. PICK Q : Q = Bitset!Queue
  OBVIOUS
<1>2. /\ SlotsInv /\ Placed(Q) /\ MapTyped /\ Holds(MapLevels, mapLinks, Q)
      /\ \A t \in Side, q \in Price : q \in DOMAIN tree[t] <=> Len(Q[t][q]) # 0
      /\ Q \in [Side -> [Price -> Seq(Slot)]]
  BY <1>1 DEF ListInv, MapInv, Holds
<1>3. PICK s, p : s = order[o].side /\ p = order[o].price
  OBVIOUS
<1>4. p \in DOMAIN tree[s]
  <2>1. ~Idle(o) /\ order[o] \in Holding
    BY <1>2, SlotReduced DEF SlotsInv
  <2>2. s \in Side /\ p \in Price
    BY <1>2, <1>3, <2>1 DEF SlotsInv, Holding
  <2>3. PICK k \in 1..Len(Q[s][p]) : Q[s][p][k] = o
    BY <1>2, <1>3, <2>1 DEF Placed
  <2>4. Len(Q[s][p]) # 0
    BY <2>3
  <2>. QED  BY <1>2, <2>2, <2>4
<1>5. /\ MapTyped' /\ tree' = tree /\ mapLinks' = mapLinks
      /\ \A t \in Side, q \in Price :
            /\ MapLevels'[t][q].head = MapLevels[t][q].head
            /\ MapLevels'[t][q].tail = MapLevels[t][q].tail
            /\ MapLevels'[t][q].count = MapLevels[t][q].count
  BY <1>2, <1>3, <1>4, ReduceNodes
<1>6. Holds(MapLevels', mapLinks', Q)
  BY <1>2, <1>5, HoldsSame
<1>7. Bitset!Queue' = Q
  BY <1>1, ReduceLists
<1>. QED  BY <1>2, <1>5, <1>6, <1>7, MapBecomes

\* A step that changes nothing leaves the tree as it is.
LEMMA StillMapped ==
    ASSUME ListInv, MapInv, UNCHANGED vars
    PROVE  MapInv'
<1>1. UNCHANGED <<tree, cell, pool, mapLinks>>
  BY DEF vars, Map!vars
<1>2. Bitset!Queue' = Bitset!Queue
  BY StillLists
<1>3. MapLevels' = MapLevels
  BY <1>1 DEF MapLevels
<1>4. MapTyped'
  <2>1. /\ \A t \in Side : IsTree(tree'[t]) /\ PoolInv(pool'[t], Used(tree'[t]))
        /\ tree' = [t \in Side |-> tree'[t]] /\ pool' = [t \in Side |-> pool'[t]]
        /\ cell' \in [Side -> [Nodes -> Level]]
    BY <1>1 DEF MapInv, MapTyped
  <2>. QED  BY <2>1 DEF MapTyped, IsTree, PoolInv, Used, FreeList
<1>5. PICK R : R = Bitset!Queue
  OBVIOUS
<1>6. Bitset!Queue' = R /\ Holds(MapLevels', mapLinks', R)
  BY <1>1, <1>2, <1>3, <1>5 DEF MapInv
<1>7. \A t \in Side, q \in Price : q \in DOMAIN tree'[t] <=> Len(R[t][q]) # 0
  BY <1>1, <1>5 DEF MapInv
<1>. QED  BY <1>4, <1>6, <1>7, MapBecomes

\* The tree and the free list share the nodes of the blocks between them.
LEMMA NodesShared ==
    ASSUME MapInv
    PROVE  NodesAccounted
<1> SUFFICES ASSUME NEW s \in Side
             PROVE  /\ Cardinality(Used(tree[s])) = Cardinality(DOMAIN tree[s])
                    /\ Used(tree[s]) \cap Map!FreeNodes(pool[s]) = {}
                    /\ Used(tree[s]) \cup Map!FreeNodes(pool[s])
                          = 0..(pool[s].blocks * PerBlock - 1)
  BY SameMap, SameCardinality DEF NodesAccounted, Map!NodesAccounted, Used
<1>1. IsTree(tree[s]) /\ PoolInv(pool[s], Used(tree[s]))
  BY DEF MapInv, MapTyped
<1>2. Cardinality(Used(tree[s])) = Cardinality(DOMAIN tree[s])
  BY <1>1, NodesPerPrice
<1>3. PICK f : /\ FreeList(pool[s], f)
               /\ Listed(f) \cap Used(tree[s]) = {}
               /\ Listed(f) \cup Used(tree[s]) = 0..(pool[s].blocks * PerBlock - 1)
  BY <1>1 DEF PoolInv
<1>4. Map!FreeNodes(pool[s]) = Listed(f)
  BY <1>3, FreeNodesAre
<1>. QED  BY <1>2, <1>3, <1>4

\* The map book spells the same queues as the bitset book, in a tree with a node for
\* exactly the prices that queue an order (map_order_book.hpp).
THEOREM MapHolds == Spec => []MapInv
<1>1. Init => MapInv
  BY MapInit
<1>2. ListInv /\ MapInv /\ [Next]_vars => MapInv'
  BY MapRest, MapLeave, MapReduce, StillMapped DEF Next
<1>. QED  BY <1>1, <1>2, ListsHold, PTL DEF Spec

\* Every node of every block the allocator took is on its free list once or holds one
\* level of the tree, never both and never neither, for every band and block size
\* (allocate, deallocate and grow of node_pool_allocator.hpp).
THEOREM NodesAlwaysAccounted == Spec => []NodesAccounted
<1>1. MapInv => NodesAccounted
  BY NodesShared
<1>. QED  BY <1>1, MapHolds, PTL

\* So the queues are the same.
LEMMA MapQueueIs ==
    ASSUME MapInv
    PROVE  Map!Queue = Bitset!Queue
<1>1. \A l, links : Map!Chain(l, links) = Chain(l, links)
  BY Zenon DEF Map!Chain, Chain
<1>2. Bitset!Queue = [s \in Side |-> [p \in Price |-> Chain(MapLevels[s][p], mapLinks)]]
  BY ChainsAre DEF MapInv
<1>3. Map!Queue = [s \in Side |-> [p \in Price |->
                      IF p \in DOMAIN tree[s] THEN Chain(cell[s][tree[s][p]], mapLinks)
                      ELSE <<>>]]
  BY <1>1, SameMap DEF Map!Queue
<1>4. \A s \in Side, p \in Price :
         (IF p \in DOMAIN tree[s] THEN Chain(cell[s][tree[s][p]], mapLinks) ELSE <<>>)
            = Chain(MapLevels[s][p], mapLinks)
  <2> SUFFICES ASSUME NEW s \in Side, NEW p \in Price
               PROVE  (IF p \in DOMAIN tree[s] THEN Chain(cell[s][tree[s][p]], mapLinks) ELSE <<>>)
                         = Chain(MapLevels[s][p], mapLinks)
    OBVIOUS
  <2>1. CASE p \in DOMAIN tree[s]
    BY <2>1, MapLevelIs
  <2>2. CASE p \notin DOMAIN tree[s]
    <3>1. Chain(MapLevels[s][p], mapLinks) = Bitset!Queue[s][p]
      BY <1>2
    <3>2. Len(Bitset!Queue[s][p]) = 0 /\ Bitset!Queue[s][p] \in Seq(Slot)
      BY <2>2 DEF MapInv, Holds
    <3>3. Bitset!Queue[s][p] = <<>>
      BY <3>2, EmptySeq
    <3>. QED  BY <2>2, <3>1, <3>3
  <2>. QED  BY <2>1, <2>2
<1>. QED  BY <1>2, <1>3, <1>4

\* Walking the map book meets the orders the bitset book meets, price by price and in
\* the same order: the equivalence tests/test_book_equivalence.cpp samples.
THEOREM MapQueuesAgree == Spec => [](Map!Queue = Bitset!Queue)
<1>1. MapInv => Map!Queue = Bitset!Queue
  BY MapQueueIs
<1>. QED  BY <1>1, MapHolds, PTL
=============================================================================
