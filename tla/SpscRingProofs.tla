--------------------------- MODULE SpscRingProofs ---------------------------
(***************************************************************************)
(* Proofs about the ring, for every capacity and every set of items: the   *)
(* indices never pass each other, the two threads never touch one slot at  *)
(* a time, and the ring implements a bounded FIFO queue.                   *)
(***************************************************************************)
EXTENDS SpscRing, SequenceTheorems, TLAPS

-----------------------------------------------------------------------------
(* Arithmetic around the ring.                                             *)

\* Distances stay below the capacity, and are 0 between equal indices only.
LEMMA DistanceRange ==
    ASSUME NEW i \in Index, NEW j \in Index
    PROVE  Distance(i, j) \in 0..(Capacity - 1) /\ (Distance(i, j) = 0 <=> i = j)
  BY CapacityAssumption DEF Index, Distance

\* The next index is in range and differs.
LEMMA SuccRange == ASSUME NEW i \in Index PROVE Succ(i) \in Index /\ Succ(i) # i
  BY CapacityAssumption DEF Index, Succ

\* The far end moves ahead by one, unless it would come round.
LEMMA DistanceGrows ==
    ASSUME NEW i \in Index, NEW j \in Index, Succ(j) # i
    PROVE  Distance(i, Succ(j)) = Distance(i, j) + 1
  BY CapacityAssumption DEF Index, Distance, Succ

\* The near end moves up by one.
LEMMA DistanceShrinks ==
    ASSUME NEW i \in Index, NEW j \in Index, i # j
    PROVE  Distance(Succ(i), j) = Distance(i, j) - 1
  BY CapacityAssumption DEF Index, Distance, Succ

\* When the far end comes round to the near one it has gone all the way.
LEMMA DistanceAround ==
    ASSUME NEW i \in Index, NEW j \in Index, Succ(j) = i
    PROVE  Distance(i, j) = Capacity - 1
  BY CapacityAssumption DEF Index, Distance, Succ

\* b lies on the way from a to c: the two parts of the way add up.
LEMMA DistanceSplits ==
    ASSUME NEW a \in Index, NEW b \in Index, NEW c \in Index,
           Distance(a, b) <= Distance(a, c)
    PROVE  Distance(a, c) = Distance(a, b) + Distance(b, c)
  BY CapacityAssumption DEF Index, Distance

\* A position between two indices is in range, and is the far end only there.
LEMMA ForwardRange ==
    ASSUME NEW i \in Index, NEW k \in 0..(Capacity - 1)
    PROVE  Forward(i, k) \in Index /\ Distance(i, Forward(i, k)) = k
  BY CapacityAssumption DEF Index, Distance, Forward

\* Positions counted from the next index are one less.
LEMMA ForwardSucc ==
    ASSUME NEW i \in Index, NEW k \in 0..(Capacity - 2)
    PROVE  Forward(Succ(i), k) = Forward(i, k + 1)
  BY CapacityAssumption DEF Index, Succ, Forward

-----------------------------------------------------------------------------
(* The inductive invariant.                                                *)

\* The cached indices lie between the true ones: the consumer's head is behind
\* head, the producer's tail behind tail.  What a thread decided from its cache
\* therefore stays true while it acts.
CachesLag ==
    /\ Distance(tail, headCache) <= Distance(tail, head)
    /\ Distance(tailCache, tail) <= Distance(tailCache, head)
    /\ ppc \in {"write", "publish"} => Succ(head) # tailCache
    /\ cpc \in {"read", "free"} => tail # headCache

\* What is in the slots between tail and head are items, and what a thread has
\* written or read but not announced is what it should be.
SlotsHold ==
    /\ \A k \in 0..(Capacity - 1) :
          k < Occupancy => buf[Forward(tail, k)] \in Item
    /\ ppc = "publish" => buf[head] = value
    /\ cpc = "free" => copy = buf[tail]

Inv == TypeOK /\ CachesLag /\ SlotsHold

\* While the producer may write, the slot it writes is not one the consumer owns.
LEMMA RoomToPush ==
    ASSUME Inv, ppc \in {"write", "publish"}
    PROVE  Succ(head) # tail /\ Occupancy < Capacity - 1
<1>1. /\ head \in Index /\ tail \in Index /\ tailCache \in Index
      /\ Succ(head) # tailCache
      /\ Distance(tailCache, tail) <= Distance(tailCache, head)
  BY DEF Inv, TypeOK, CachesLag
<1>2. Succ(head) # tail
  <2>1. ASSUME Succ(head) = tail PROVE FALSE
    <3>1. Distance(tailCache, tail) = Distance(tailCache, head) + 1
      BY <1>1, <2>1, DistanceGrows
    <3>. QED  BY <1>1, <3>1, DistanceRange
  <2>. QED  BY <2>1
<1>3. Occupancy < Capacity - 1
  BY <1>1, <1>2, CapacityAssumption DEF Occupancy, Distance, Index, Succ
<1>. QED  BY <1>2, <1>3

\* While the consumer reads, there is an item to read.
LEMMA ItemToPop ==
    ASSUME Inv, cpc \in {"read", "free"}
    PROVE  tail # head /\ Occupancy \in 1..(Capacity - 1)
<1>1. /\ head \in Index /\ tail \in Index /\ headCache \in Index
      /\ tail # headCache /\ Distance(tail, headCache) <= Distance(tail, head)
  BY DEF Inv, TypeOK, CachesLag
<1>2. /\ Distance(tail, headCache) \in 0..(Capacity - 1) /\ Distance(tail, headCache) # 0
      /\ Distance(tail, head) \in 0..(Capacity - 1)
      /\ (Distance(tail, head) = 0 <=> tail = head)
  BY <1>1, DistanceRange
<1>. QED  BY <1>1, <1>2, CapacityAssumption DEF Occupancy

\* An item in the ring is not in the slot at head.
LEMMA HeadSlotFree ==
    ASSUME head \in Index, tail \in Index, NEW k \in 0..(Capacity - 1), k < Occupancy
    PROVE  Forward(tail, k) # head
<1>1. Distance(tail, Forward(tail, k)) = k
  BY ForwardRange
<1>. QED  BY <1>1, DistanceRange DEF Occupancy

\* The invariant holds of a new ring.
LEMMA InitInv == Init => Inv
<1> SUFFICES ASSUME Init PROVE Inv
  OBVIOUS
<1>1. 0 \in Index /\ Distance(0, 0) = 0
  BY CapacityAssumption DEF Index, Distance
<1>2. TypeOK
  BY <1>1 DEF Init, TypeOK
<1>. QED  BY <1>1, <1>2 DEF Init, Inv, CachesLag, SlotsHold, Occupancy

\* The two tests against the caches.
LEMMA TestsStep ==
    ASSUME Inv, (\E v \in Item : StartPush(v)) \/ StartPop PROVE Inv'
<1>1. ASSUME NEW v \in Item, StartPush(v) PROVE Inv'
  BY <1>1 DEF StartPush, consumerVars, Inv, TypeOK, CachesLag, SlotsHold, Occupancy
<1>2. CASE StartPop
  BY <1>2 DEF StartPop, producerVars, Inv, TypeOK, CachesLag, SlotsHold, Occupancy
<1>. QED  BY <1>1, <1>2

\* Reloading a cache moves it towards the index it follows, never past it.
LEMMA ReloadStep ==
    ASSUME Inv, (\E t \in Index : ReloadTail(t)) \/ (\E h \in Index : ReloadHead(h))
    PROVE  Inv'
<1>0. /\ head \in Index /\ tail \in Index /\ tailCache \in Index /\ headCache \in Index
      /\ Distance(tail, headCache) <= Distance(tail, head)
      /\ Distance(tailCache, tail) <= Distance(tailCache, head)
  BY DEF Inv, TypeOK, CachesLag
<1>1. ASSUME NEW t \in Index, ReloadTail(t) PROVE Inv'
  <2>1. /\ ppc = "full?" /\ tailCache' = t /\ Distance(tailCache, t) <= Distance(tailCache, tail)
        /\ ppc' = IF Succ(head) = t THEN "idle" ELSE "write"
        /\ UNCHANGED <<buf, head, value, tail, headCache, cpc, copy, got>>
    BY <1>1 DEF ReloadTail, Visible, consumerVars
  <2>2. Distance(t, tail) <= Distance(t, head)
    BY <1>0, <2>1, CapacityAssumption DEF Index, Distance
  <2>3. TypeOK'
    BY <2>1 DEF Inv, TypeOK
  <2>4. CachesLag'
    BY <2>1, <2>2 DEF Inv, CachesLag, Succ, Distance
  <2>5. SlotsHold'
    BY <2>1 DEF Inv, SlotsHold, Occupancy, Distance
  <2>. QED  BY <2>3, <2>4, <2>5 DEF Inv
<1>2. ASSUME NEW h \in Index, ReloadHead(h) PROVE Inv'
  <2>1. /\ cpc = "empty?" /\ headCache' = h /\ Distance(headCache, h) <= Distance(headCache, head)
        /\ cpc' = IF tail = h THEN "idle" ELSE "read"
        /\ UNCHANGED <<buf, head, tailCache, ppc, value, tail, copy, got>>
    BY <1>2 DEF ReloadHead, Visible, producerVars
  <2>2. Distance(tail, h) <= Distance(tail, head)
    BY <1>0, <2>1, CapacityAssumption DEF Index, Distance
  <2>3. TypeOK'
    BY <2>1 DEF Inv, TypeOK
  <2>4. CachesLag'
    BY <2>1, <2>2 DEF Inv, CachesLag, Succ, Distance
  <2>5. SlotsHold'
    BY <2>1 DEF Inv, SlotsHold, Occupancy, Distance
  <2>. QED  BY <2>3, <2>4, <2>5 DEF Inv
<1>. QED  BY <1>1, <1>2

\* Writing the slot at head touches no item and nothing the consumer copied.
LEMMA WriteSlotStep == ASSUME Inv, WriteSlot PROVE Inv'
<1>1. /\ ppc = "write" /\ buf' = [buf EXCEPT ![head] = value] /\ ppc' = "publish"
      /\ UNCHANGED <<head, tailCache, value, tail, headCache, cpc, copy, got>>
  BY DEF WriteSlot, consumerVars
<1>2. /\ buf \in [Index -> Item \cup {NoItem}] /\ head \in Index /\ tail \in Index
      /\ value \in Item
  BY <1>1 DEF Inv, TypeOK
<1>3. TypeOK'
  BY <1>1, <1>2 DEF Inv, TypeOK
<1>4. CachesLag'
  BY <1>1 DEF Inv, CachesLag, Succ, Distance
<1>5. Occupancy' = Occupancy
  BY <1>1 DEF Occupancy, Distance
<1>6. ASSUME NEW k \in 0..(Capacity - 1), k < Occupancy
      PROVE  buf'[Forward(tail, k)] \in Item
  <2>1. Forward(tail, k) # head /\ Forward(tail, k) \in Index
    BY <1>2, <1>6, HeadSlotFree, ForwardRange
  <2>. QED  BY <1>1, <1>2, <1>6, <2>1 DEF Inv, SlotsHold
<1>7. cpc = "free" => buf'[tail] = buf[tail]
  BY <1>1, <1>2, ItemToPop
<1>8. \A k \in 0..(Capacity - 1) : k < Occupancy' => buf'[Forward(tail', k)] \in Item
  BY <1>1, <1>5, <1>6
<1>9. SlotsHold'
  BY <1>1, <1>2, <1>7, <1>8 DEF Inv, SlotsHold
<1>. QED  BY <1>3, <1>4, <1>9 DEF Inv

\* Publishing head brings the written slot into the ring.
LEMMA PublishHeadStep == ASSUME Inv, PublishHead PROVE Inv'
<1>1. /\ ppc = "publish" /\ head' = Succ(head) /\ ppc' = "idle"
      /\ UNCHANGED <<buf, tailCache, value, tail, headCache, cpc, copy, got>>
  BY DEF PublishHead, consumerVars
<1>2. /\ head \in Index /\ tail \in Index /\ tailCache \in Index /\ headCache \in Index
      /\ value \in Item /\ Succ(head) \in Index
  BY <1>1, SuccRange DEF Inv, TypeOK
<1>3. Succ(head) # tail /\ Succ(head) # tailCache
  BY <1>1, RoomToPush DEF Inv, CachesLag
<1>4. /\ Distance(tail, head') = Distance(tail, head) + 1
      /\ Distance(tailCache, head') = Distance(tailCache, head) + 1
  BY <1>1, <1>2, <1>3, DistanceGrows
<1>5. TypeOK'
  BY <1>1, <1>2 DEF Inv, TypeOK
<1>6. CachesLag'
  <2>1. /\ Distance(tail, headCache) <= Distance(tail, head')
        /\ Distance(tailCache, tail) <= Distance(tailCache, head')
    BY <1>2, <1>4, DistanceRange DEF Inv, CachesLag
  <2>. QED  BY <1>1, <2>1 DEF Inv, CachesLag, Distance
<1>7. ASSUME NEW k \in 0..(Capacity - 1), k < Occupancy' PROVE buf[Forward(tail, k)] \in Item
  <2>1. Occupancy' = Occupancy + 1 /\ Occupancy \in 0..(Capacity - 1)
    BY <1>1, <1>2, <1>4, DistanceRange DEF Occupancy, Distance
  <2>2. CASE k < Occupancy
    BY <1>7, <2>2 DEF Inv, SlotsHold
  <2>3. CASE k = Occupancy
    <3>1. Forward(tail, k) = head
      BY <1>2, <2>3, CapacityAssumption DEF Occupancy, Distance, Forward, Index
    <3>. QED  BY <1>1, <1>2, <3>1 DEF Inv, SlotsHold
  <2>. QED  BY <1>7, <2>1, <2>2, <2>3
<1>8. SlotsHold'
  BY <1>1, <1>7 DEF Inv, SlotsHold
<1>. QED  BY <1>5, <1>6, <1>8 DEF Inv

\* Copying the slot at tail.
LEMMA ReadSlotStep == ASSUME Inv, ReadSlot PROVE Inv'
<1>1. /\ cpc = "read" /\ copy' = buf[tail] /\ cpc' = "free"
      /\ UNCHANGED <<buf, head, tailCache, ppc, value, tail, headCache, got>>
  BY DEF ReadSlot, producerVars
<1>2. TypeOK'
  BY <1>1 DEF Inv, TypeOK
<1>3. CachesLag'
  BY <1>1 DEF Inv, CachesLag, Succ, Distance
<1>4. SlotsHold'
  BY <1>1 DEF Inv, SlotsHold, Occupancy, Distance
<1>. QED  BY <1>2, <1>3, <1>4 DEF Inv

\* Giving the slot at tail back.
LEMMA FreeTailStep == ASSUME Inv, FreeTail PROVE Inv'
<1>1. /\ cpc = "free" /\ tail' = Succ(tail) /\ got' = copy /\ cpc' = "idle"
      /\ UNCHANGED <<buf, head, tailCache, ppc, value, headCache, copy>>
  BY DEF FreeTail, producerVars
<1>2. /\ head \in Index /\ tail \in Index /\ tailCache \in Index /\ headCache \in Index
      /\ Succ(tail) \in Index
  BY SuccRange DEF Inv, TypeOK
<1>3. tail # head /\ tail # headCache
  BY <1>1, ItemToPop DEF Inv, CachesLag
<1>4. /\ Distance(tail', head) = Distance(tail, head) - 1
      /\ Distance(tail', headCache) = Distance(tail, headCache) - 1
  BY <1>1, <1>2, <1>3, DistanceShrinks
<1>5. TypeOK'
  BY <1>1, <1>2 DEF Inv, TypeOK
<1>6. CachesLag'
  <2>1. Distance(tail', headCache) <= Distance(tail', head)
    BY <1>2, <1>4, DistanceRange DEF Inv, CachesLag
  <2>2. Distance(tailCache, tail') <= Distance(tailCache, head)
    <3>1. Distance(tailCache, tail) <= Distance(tailCache, head)
      BY DEF Inv, CachesLag
    <3>. QED  BY <1>1, <1>2, <1>3, <3>1, CapacityAssumption DEF Index, Distance, Succ
  <2>. QED  BY <1>1, <2>1, <2>2 DEF Inv, CachesLag, Distance
<1>7. ASSUME NEW k \in 0..(Capacity - 1), k < Occupancy' PROVE buf[Forward(tail', k)] \in Item
  <2>1. Occupancy' = Occupancy - 1 /\ Occupancy \in 0..(Capacity - 1)
    BY <1>1, <1>2, <1>4, DistanceRange DEF Occupancy, Distance
  <2>2. k + 1 \in 0..(Capacity - 1) /\ k + 1 < Occupancy /\ k \in 0..(Capacity - 2)
    BY <1>7, <2>1, CapacityAssumption
  <2>3. Forward(tail', k) = Forward(tail, k + 1)
    BY <1>1, <1>2, <2>2, ForwardSucc
  <2>. QED  BY <2>2, <2>3 DEF Inv, SlotsHold
<1>8. SlotsHold'
  BY <1>1, <1>7 DEF Inv, SlotsHold
<1>. QED  BY <1>5, <1>6, <1>8 DEF Inv

\* Every step of either thread preserves the invariant.
LEMMA NextInv == Inv /\ [Next]_vars => Inv'
<1> SUFFICES ASSUME Inv, [Next]_vars PROVE Inv'
  OBVIOUS
<1>1. CASE UNCHANGED vars
  BY <1>1 DEF vars, producerVars, consumerVars, Inv, TypeOK, CachesLag, SlotsHold,
              Occupancy, Distance, Succ, Forward
<1>2. CASE Next
  BY <1>2, TestsStep, ReloadStep, WriteSlotStep, PublishHeadStep, ReadSlotStep, FreeTailStep
     DEF Next, PushStep, PopStep
<1>. QED  BY <1>1, <1>2

\* The inductive invariant holds in every reachable state.
THEOREM Invariance == Spec => []Inv
<1>. QED  BY InitInv, NextInv, PTL DEF Spec

\* The indices stay inside the buffer, and every slot holds an item or nothing.
THEOREM TypeCorrect == Spec => []TypeOK
  BY Invariance, PTL DEF Inv

\* No slot is written by the producer while the consumer reads it.
THEOREM SlotsNotShared == Spec => []NoSlotRace
<1>1. Inv => NoSlotRace
  BY ItemToPop DEF NoSlotRace
<1>. QED  BY <1>1, Invariance, PTL

-----------------------------------------------------------------------------
(* The ring implements the bounded FIFO queue.                             *)

\* The queue the mapping sees is a sequence as long as the ring is full.
QueueIsSequence ==
    /\ Items \in Seq(Item) /\ Len(Items) = Occupancy
    /\ Occupancy \in 0..(Capacity - 1)
    /\ \A k \in 1..Occupancy : Items[k] = buf[Forward(tail, k - 1)]

\* The queue that try_push and try_pop work on is what the slots from tail_ up to
\* head_ hold.
LEMMA ItemsSequence == Inv => QueueIsSequence
<1> SUFFICES ASSUME Inv PROVE QueueIsSequence
  OBVIOUS
<1>1. Occupancy \in 0..(Capacity - 1)
  BY DistanceRange DEF Inv, TypeOK, Occupancy
<1>2. \A k \in 1..Occupancy : buf[Forward(tail, k - 1)] \in Item
  <2> SUFFICES ASSUME NEW k \in 1..Occupancy PROVE buf[Forward(tail, k - 1)] \in Item
    OBVIOUS
  <2>1. k - 1 \in 0..(Capacity - 1) /\ k - 1 < Occupancy
    BY <1>1, CapacityAssumption
  <2>. QED  BY <2>1 DEF Inv, SlotsHold
<1>3. Items = [k \in 1..Occupancy |-> buf[Forward(tail, k - 1)]]
  BY DEF Items
<1>4. Items \in [1..Occupancy -> Item] /\ Occupancy \in Nat
  BY <1>1, <1>2, <1>3
<1>5. Items \in Seq(Item) /\ DOMAIN Items = 1..Occupancy
  BY <1>4, SeqDef
<1>6. Len(Items) = Occupancy
  BY <1>4, <1>5, LenProperties
<1>. QED  BY <1>1, <1>3, <1>5, <1>6 DEF QueueIsSequence

\* Storing head_ appends the pushed item.
LEMMA PublishPushes == ASSUME Inv, PublishHead PROVE \E v \in Item : Fifo!Push(v)
<1>1. /\ ppc = "publish" /\ head' = Succ(head) /\ buf' = buf /\ tail' = tail /\ got' = got
      /\ value \in Item /\ head \in Index /\ tail \in Index /\ Succ(head) \in Index
  BY SuccRange DEF PublishHead, consumerVars, Inv, TypeOK
<1>2. Inv'
  BY PublishHeadStep
<1>3. Succ(head) # tail /\ Occupancy < Capacity - 1
  BY <1>1, RoomToPush
<1>4. Occupancy' = Occupancy + 1
  BY <1>1, <1>3, DistanceGrows DEF Occupancy, Distance
<1>5. /\ Items \in Seq(Item) /\ Len(Items) = Occupancy /\ Occupancy \in 0..(Capacity - 1)
      /\ \A k \in 1..Occupancy : Items[k] = buf[Forward(tail, k - 1)]
  BY ItemsSequence DEF QueueIsSequence
<1>6. /\ Items' \in Seq(Item) /\ Len(Items') = Occupancy'
      /\ \A k \in 1..Occupancy' : Items'[k] = buf[Forward(tail, k - 1)]
  <2>1. QueueIsSequence'
    BY <1>2, ItemsSequence, PTL
  <2>. QED  BY <1>1, <2>1 DEF QueueIsSequence, Forward
<1>7. buf[Forward(tail, Occupancy)] = value
  <2>1. Forward(tail, Occupancy) = head
    BY <1>1, CapacityAssumption DEF Occupancy, Distance, Forward, Index
  <2>. QED  BY <1>1, <2>1 DEF Inv, SlotsHold
<1>8. Items' = Append(Items, value)
  <2>1. Append(Items, value) \in Seq(Item) /\ Len(Append(Items, value)) = Occupancy + 1
    BY <1>1, <1>5, AppendProperties
  <2>2. ASSUME NEW k \in 1..(Occupancy + 1) PROVE Items'[k] = Append(Items, value)[k]
    <3>1. Items'[k] = buf[Forward(tail, k - 1)]
      BY <1>4, <1>6
    <3>2. CASE k \in 1..Occupancy
      BY <1>1, <1>5, <3>1, <3>2, AppendProperties
    <3>3. CASE k = Occupancy + 1
      <4>1. Items'[k] = value
        BY <1>5, <1>7, <3>1, <3>3
      <4>. QED  BY <1>1, <1>5, <3>3, <4>1, AppendProperties
    <3>. QED  BY <1>5, <3>2, <3>3
  <2>. QED  BY <1>4, <1>6, <2>1, <2>2, SeqEqual
<1>9. Len(Items) < Capacity - 1
  BY <1>3, <1>5
<1>. QED  BY <1>1, <1>8, <1>9 DEF Fifo!Push

\* Storing tail_ takes the oldest item, which is the one copied.
LEMMA FreePops == ASSUME Inv, FreeTail PROVE Fifo!Pop
<1>1. /\ cpc = "free" /\ tail' = Succ(tail) /\ buf' = buf /\ head' = head /\ got' = copy
      /\ head \in Index /\ tail \in Index
  BY DEF FreeTail, producerVars, Inv, TypeOK
<1>2. Inv'
  BY FreeTailStep
<1>3. tail # head /\ Occupancy \in 1..(Capacity - 1)
  BY <1>1, ItemToPop
<1>4. Occupancy' = Occupancy - 1
  BY <1>1, <1>3, DistanceShrinks DEF Occupancy, Distance
<1>5. /\ Items \in Seq(Item) /\ Len(Items) = Occupancy
      /\ \A k \in 1..Occupancy : Items[k] = buf[Forward(tail, k - 1)]
  BY ItemsSequence DEF QueueIsSequence
<1>6. /\ Items' \in Seq(Item) /\ Len(Items') = Occupancy - 1
      /\ \A k \in 1..(Occupancy - 1) : Items'[k] = buf[Forward(tail, k)]
  <2>1. QueueIsSequence'
    BY <1>2, ItemsSequence, PTL
  <2>2. \A k \in 1..(Occupancy - 1) : Items'[k] = buf[Forward(tail', k - 1)]
    BY <1>1, <1>4, <2>1 DEF QueueIsSequence, Forward
  <2>3. ASSUME NEW k \in 1..(Occupancy - 1) PROVE Forward(tail', k - 1) = Forward(tail, k)
    <3>1. k - 1 \in 0..(Capacity - 2) /\ (k - 1) + 1 = k
      BY <1>3, CapacityAssumption
    <3>2. Forward(Succ(tail), k - 1) = Forward(tail, (k - 1) + 1)
      BY <1>1, <3>1, ForwardSucc
    <3>. QED  BY <1>1, <3>1, <3>2
  <2>. QED  BY <1>4, <2>1, <2>2, <2>3 DEF QueueIsSequence
<1>7. Items # <<>> /\ Head(Items) = copy
  <2>1. 1 \in 1..Occupancy /\ Forward(tail, 0) = tail
    BY <1>1, <1>3, CapacityAssumption DEF Forward, Index
  <2>2. Items # <<>> /\ Head(Items) = Items[1]
    BY <1>3, <1>5
  <2>3. Items[1] = buf[Forward(tail, 0)]
    BY <1>5, <2>1
  <2>4. copy = buf[tail]
    BY <1>1 DEF Inv, SlotsHold
  <2>. QED  BY <2>1, <2>2, <2>3, <2>4
<1>8. Items' = Tail(Items)
  <2>1. /\ Tail(Items) \in Seq(Item) /\ Len(Tail(Items)) = Occupancy - 1
        /\ \A k \in 1..(Occupancy - 1) : Tail(Items)[k] = Items[k + 1]
    BY <1>3, <1>5, <1>7, HeadTailProperties
  <2>2. ASSUME NEW k \in 1..(Occupancy - 1) PROVE Items'[k] = Tail(Items)[k]
    <3>1. k + 1 \in 1..Occupancy /\ (k + 1) - 1 = k
      BY <1>3
    <3>2. Items[k + 1] = buf[Forward(tail, (k + 1) - 1)]
      BY <1>5, <3>1
    <3>. QED  BY <1>6, <2>1, <3>1, <3>2
  <2>. QED  BY <1>6, <2>1, <2>2, SeqEqual
<1>. QED  BY <1>1, <1>7, <1>8 DEF Fifo!Pop

\* Every other access leaves the queue as it is.
LEMMA OthersStutter ==
    ASSUME Inv,
           \/ \E v \in Item : StartPush(v)
           \/ \E t \in Index : ReloadTail(t)
           \/ WriteSlot \/ StartPop
           \/ \E h \in Index : ReloadHead(h)
           \/ ReadSlot
    PROVE  UNCHANGED <<Items, got>>
<1>1. CASE WriteSlot
  <2>1. /\ ppc = "write" /\ buf' = [buf EXCEPT ![head] = value] /\ UNCHANGED <<head, tail, got>>
        /\ buf \in [Index -> Item \cup {NoItem}] /\ head \in Index /\ tail \in Index
    BY <1>1 DEF WriteSlot, consumerVars, Inv, TypeOK
  <2>2. Occupancy' = Occupancy /\ Occupancy \in 0..(Capacity - 1)
    BY <2>1, DistanceRange DEF Occupancy, Distance
  <2>3. ASSUME NEW k \in 1..Occupancy
        PROVE  buf'[Forward(tail', k - 1)] = buf[Forward(tail, k - 1)]
    <3>1. k - 1 \in 0..(Capacity - 1) /\ k - 1 < Occupancy
      BY <2>2, CapacityAssumption
    <3>2. Forward(tail, k - 1) # head /\ Forward(tail, k - 1) \in Index
      BY <2>1, <3>1, HeadSlotFree, ForwardRange
    <3>. QED  BY <2>1, <3>2 DEF Forward
  <2>4. Items' = [k \in 1..Occupancy' |-> buf'[Forward(tail', k - 1)]]
    BY DEF Items, Forward
  <2>5. Items' = Items
    BY <2>2, <2>3, <2>4 DEF Items
  <2>. QED  BY <2>1, <2>5
<1>2. CASE UNCHANGED <<buf, head, tail, got>>
  BY <1>2 DEF Items, Occupancy, Distance, Forward
<1>. QED
  BY <1>1, <1>2 DEF StartPush, ReloadTail, StartPop, ReloadHead, ReadSlot, producerVars, consumerVars

\* Whatever the interleaving and however old the values the loads return, the
\* ring is a FIFO queue of Capacity - 1 items: nothing is lost, duplicated,
\* reordered or overwritten.
THEOREM Implementation == Spec => ImplementsFifo
<1>1. Init => Fifo!Init
  <2> SUFFICES ASSUME Init PROVE Fifo!Init
    OBVIOUS
  <2>1. Occupancy = 0
    BY CapacityAssumption DEF Init, Occupancy, Distance
  <2>2. Items = <<>>
    BY <2>1 DEF Items
  <2>. QED  BY <2>2 DEF Init, Fifo!Init
<1>2. Inv /\ [Next]_vars => [Fifo!Next]_(Fifo!vars)
  <2> SUFFICES ASSUME Inv, [Next]_vars PROVE Fifo!Next \/ UNCHANGED <<Items, got>>
    BY DEF Fifo!vars
  <2>1. CASE UNCHANGED vars
    BY <2>1 DEF vars, producerVars, consumerVars, Items, Occupancy, Distance, Forward
  <2>2. CASE PublishHead
    BY <2>2, PublishPushes DEF Fifo!Next
  <2>3. CASE FreeTail
    BY <2>3, FreePops DEF Fifo!Next
  <2>. QED  BY <2>1, <2>2, <2>3, OthersStutter DEF Next, PushStep, PopStep
<1>. QED  BY <1>1, <1>2, Invariance, PTL DEF Spec, ImplementsFifo, Fifo!Spec
=============================================================================
