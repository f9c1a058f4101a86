--------------------------- MODULE FlatPtrMapProofs ---------------------------
(***************************************************************************)
(* The id index is a map, for every hash function, key set and capacity:   *)
(* its inductive invariant, and the refinement of PartialMap.              *)
(***************************************************************************)
EXTENDS FlatPtrMap, FiniteSetTheorems, TLAPS

\* The least capacity a table has.
LEMMA LeastCapacity == MinCapacity \in Nat /\ MinCapacity >= 4
  BY SizeAssumption

-----------------------------------------------------------------------------
(* Circular distances.                                                     *)

\* Ideal slots and successors are slots.
LEMMA SlotRange ==
    ASSUME cap \in Nat, cap >= 1
    PROVE  /\ \A k \in Key : Ideal(k) \in Index
           /\ \A i \in Index : Succ(i) \in Index
           /\ \A i, j \in Index : Distance(i, j) \in 0..(cap - 1)
<1>1. ASSUME NEW k \in Key PROVE Ideal(k) \in Index
  <2>1. Hash[k] \in Nat
    BY KeyAssumption
  <2>. QED  BY <2>1 DEF Ideal, Index
<1>2. \A i \in Index : Succ(i) \in Index
  BY DEF Succ, Index
<1>3. \A i, j \in Index : Distance(i, j) \in 0..(cap - 1)
  BY DEF Distance, Index
<1>. QED  BY <1>1, <1>2, <1>3

\* A slot at distance 0 is the slot itself, and distances tell slots apart.
LEMMA DistanceSame ==
    ASSUME cap \in Nat, cap >= 1, NEW i \in Index, NEW j \in Index, NEW k \in Index
    PROVE  /\ Distance(i, j) = 0 <=> i = j
           /\ Distance(i, j) = Distance(i, k) => j = k
  BY DEF Distance, Index

\* The next slot is one farther, unless it is where the distance is taken from.
LEMMA DistanceNext ==
    ASSUME cap \in Nat, cap >= 1, NEW i \in Index, NEW j \in Index
    PROVE  IF Succ(j) = i THEN Distance(i, j) = cap - 1 ELSE Distance(i, Succ(j)) = Distance(i, j) + 1
  BY DEF Distance, Index, Succ

\* On the way from i to k by h, what comes after h and before k is on the way too.
LEMMA DistanceBetween ==
    ASSUME cap \in Nat, cap >= 1,
           NEW i \in Index, NEW h \in Index, NEW e \in Index, NEW k \in Index,
           Distance(i, h) < Distance(i, k), Distance(h, e) < Distance(h, k)
    PROVE  Distance(i, e) < Distance(i, k)
  BY DEF Distance, Index

-----------------------------------------------------------------------------
(* The inductive invariant.                                                *)

\* What each loop knows of the call it works for.
CallsInv ==
    /\ pc = "idle" => op = "none"
    /\ pc = "probe" => op # "none" /\ ent.key \in Key
    /\ pc = "shift" => op = "erase"
    /\ pc = "move" => op \in {"insert", "reinsert"}
    /\ op \in {"insert", "reinsert"} => arg.key \in Key /\ arg.value \in Value
    /\ pc = "probe" /\ op = "insert" => ent = arg /\ (size + 1) * 4 < cap * 3

\* No two entries have the same key.
KeysUnique ==
    /\ \A i, j \in Live : slots[i].key = slots[j].key => i = j
    /\ \A i, j \in Rest : old[i].key = old[j].key => i = j
    /\ \A i \in Live, j \in Rest : slots[i].key # old[j].key

\* The probe has seen only other keys.
ProbeInv ==
    pc = "probe" =>
        \A j \in Index : Distance(Ideal(ent.key), j) < Distance(Ideal(ent.key), pos) =>
            slots[j].key \notin {Empty, ent.key}

\* remove_at: from the hole to pos the table is full, and what it passed over is
\* reached without going through the hole.
ShiftInv ==
    pc = "shift" =>
        /\ \A j \in Index : Distance(hole, j) <= Distance(hole, pos) => j \in Occupied
        /\ \A j \in Index \ {hole} :
              Distance(hole, j) <= Distance(hole, pos) => ~Displaced(j)

\* grow: each slot of the old table has given at most one entry.
GrowInv ==
    Growing =>
        /\ cap = 2 * OldSlots /\ OldSlots \in Nat /\ OldSlots >= MinCapacity
        /\ old \in [0..(OldSlots - 1) -> Slot]
        /\ moved <= OldSlots /\ size <= moved
        /\ pc = "probe" => moved < OldSlots /\ ent = old[moved] /\ ent.key # Empty

Inv == TypeOK /\ SizeCounts /\ PathsUnbroken /\ CallsInv /\ KeysUnique /\ ProbeInv /\ ShiftInv /\ GrowInv

\* A key that is in the table is found before an empty slot is.
LEMMA AbsentAtEmpty ==
    ASSUME Inv, AtEmpty
    PROVE  \A i \in Live : slots[i].key # ent.key
<1> SUFFICES ASSUME NEW i \in Live, slots[i].key = ent.key PROVE FALSE
  OBVIOUS
<1> DEFINE I == Ideal(ent.key)
<1>1. /\ cap \in Nat /\ cap >= 1 /\ pos \in Index /\ pc = "probe" /\ ent.key \in Key
      /\ i \in Index /\ i \in Occupied /\ pos \notin Occupied
  BY LeastCapacity DEF Inv, TypeOK, CallsInv, AtEmpty, Live, Occupied
<1>2. I \in Index
  BY <1>1, SlotRange
<1>3. Distance(I, i) \in Int /\ Distance(I, pos) \in Int
  BY <1>1, <1>2, SlotRange
<1>4. ~(Distance(I, pos) < Distance(I, i))
  BY <1>1 DEF Inv, PathsUnbroken
<1>5. ~(Distance(I, i) < Distance(I, pos))
  BY <1>1 DEF Inv, ProbeInv
<1>6. Distance(I, i) = Distance(I, pos)
  BY <1>3, <1>4, <1>5
<1>7. i = pos
  BY <1>1, <1>2, <1>6, DistanceSame
<1>. QED  BY <1>1, <1>7

\* The table is never full.
LEMMA SomeSlotEmpty ==
    ASSUME Inv
    PROVE  \E i \in Index : i \notin Occupied
<1>1. cap \in Nat /\ cap >= 1 /\ size \in Nat /\ size = Cardinality(Occupied) /\ size * 4 < cap * 3
  BY LeastCapacity DEF Inv, TypeOK, SizeCounts
<1>2. Cardinality(Index) = cap
  BY <1>1, FS_Interval DEF Index
<1>3. Occupied # Index
  BY <1>1, <1>2
<1>. QED  BY <1>3 DEF Occupied

\* So a backward shift does not go all the way round.
LEMMA ShiftEnds ==
    ASSUME Inv, pc = "shift"
    PROVE  Succ(pos) # hole /\ Distance(hole, Succ(pos)) = Distance(hole, pos) + 1
<1>1. cap \in Nat /\ cap >= 1 /\ pos \in Index /\ hole \in Index
  BY LeastCapacity DEF Inv, TypeOK
<1>2. Succ(pos) # hole
  <2> SUFFICES ASSUME Succ(pos) = hole PROVE FALSE
    OBVIOUS
  <2>1. Distance(hole, pos) = cap - 1
    BY <1>1, DistanceNext
  <2>2. \A j \in Index : Distance(hole, j) <= Distance(hole, pos)
    BY <1>1, <2>1, SlotRange
  <2>. QED  BY <2>2, SomeSlotEmpty DEF Inv, ShiftInv
<1>. QED  BY <1>1, <1>2, DistanceNext

\* The table is finite.
LEMMA TableFinite == ASSUME cap \in Nat PROVE IsFiniteSet(Index) /\ IsFiniteSet(Occupied)
<1>1. IsFiniteSet(Index)
  BY FS_Interval DEF Index
<1>. QED  BY <1>1, FS_Subset DEF Occupied

-----------------------------------------------------------------------------
(* Each step preserves the invariant.                                      *)

\* Steps that write no slot.
LEMMA SameTable ==
    ASSUME Inv, UNCHANGED <<slots, cap, size>>, Live' \subseteq Live,
           \A i \in Rest' : i \in Rest /\ old'[i] = old[i]
    PROVE  SizeCounts' /\ PathsUnbroken' /\ KeysUnique' /\ Occupied' = Occupied
<1>1. Occupied' = Occupied
  BY DEF Occupied, Index
<1>2. SizeCounts'
  BY <1>1 DEF Inv, SizeCounts
<1>3. PathsUnbroken'
  <2> SUFFICES ASSUME NEW i \in Live, NEW j \in Index,
                      Distance(Ideal(slots[i].key), j) < Distance(Ideal(slots[i].key), i)
               PROVE  j \in Occupied'
    BY DEF PathsUnbroken, Index, Distance, Ideal
  <2>. QED  BY <1>1 DEF Inv, PathsUnbroken
<1>4. KeysUnique'
  BY DEF Inv, KeysUnique
<1>. QED  BY <1>1, <1>2, <1>3, <1>4

\* The probe passes a slot with another key.
LEMMA ProbeOnStep == ASSUME Inv, ProbeOn PROVE Inv'
<1> DEFINE I == Ideal(ent.key)
<1>1. /\ cap \in Nat /\ cap >= 1 /\ pos \in Index /\ pc = "probe" /\ ent.key \in Key
      /\ slots[pos].key \notin {Empty, ent.key} /\ pos' = Succ(pos)
      /\ UNCHANGED <<slots, cap, size, pc, op, arg, ent, hole, old, moved, ret>>
  BY LeastCapacity DEF Inv, TypeOK, CallsInv, ProbeOn
<1>2. Succ(pos) \in Index /\ I \in Index
  BY <1>1, SlotRange
<1>3. TypeOK'
  BY <1>1, <1>2 DEF Inv, TypeOK, Index
<1>4. SizeCounts' /\ PathsUnbroken' /\ KeysUnique'
  BY <1>1, SameTable DEF Live, Occupied, Index, Rest, Growing, OldSlots
<1>8. CallsInv' /\ GrowInv'
  BY <1>1 DEF Inv, CallsInv, GrowInv, Growing, OldSlots
<1>5. ASSUME NEW j \in Index, Distance(I, j) < Distance(I, Succ(pos))
      PROVE  slots[j].key \notin {Empty, ent.key}
  <2>1. Distance(I, j) \in 0..(cap - 1) /\ Distance(I, pos) \in 0..(cap - 1)
    BY <1>1, <1>2, SlotRange
  <2>2. Succ(pos) # I
    BY <1>1, <1>2, <1>5, <2>1, DistanceSame
  <2>3. Distance(I, Succ(pos)) = Distance(I, pos) + 1
    BY <1>1, <1>2, <2>2, DistanceNext
  <2>4. CASE Distance(I, j) < Distance(I, pos)
    BY <1>1, <2>4 DEF Inv, ProbeInv
  <2>5. CASE Distance(I, j) = Distance(I, pos)
    BY <1>1, <1>2, <2>5, DistanceSame
  <2>. QED  BY <1>5, <2>1, <2>3, <2>4, <2>5
<1>6. ProbeInv'
  BY <1>1, <1>5 DEF ProbeInv, Index, Distance, Ideal
<1>7. ShiftInv'
  BY <1>1 DEF ShiftInv
<1>. QED  BY <1>3, <1>4, <1>6, <1>7, <1>8 DEF Inv

\* insert and grow's insert put a new key in the slot the probe ended at.
LEMMA FillKeeps ==
    ASSUME Inv, AtEmpty, FillSlot, op \in {"insert", "reinsert"},
           pc' # "shift"
    PROVE  /\ slots' \in [Index -> Slot] /\ Occupied' = Occupied \cup {pos} /\ Live = Occupied
           /\ pos \notin Occupied
           /\ SizeCounts' /\ PathsUnbroken'
           /\ \A i, j \in Live' : slots'[i].key = slots'[j].key => i = j
<1> DEFINE I == Ideal(ent.key)
<1>1. /\ cap \in Nat /\ cap >= 4 /\ pos \in Index /\ pc = "probe" /\ ent.key \in Key /\ ent \in Slot
      /\ slots[pos].key = Empty /\ slots' = [slots EXCEPT ![pos] = ent] /\ size' = size + 1
      /\ cap' = cap /\ slots \in [Index -> Slot] /\ size \in Nat
  BY LeastCapacity DEF Inv, TypeOK, CallsInv, AtEmpty, FillSlot
<1>2. slots' \in [Index -> Slot] /\ ent.key # Empty /\ I \in Index
  BY <1>1, KeyAssumption, SlotRange
<1>3. Occupied' = Occupied \cup {pos} /\ Live = Occupied /\ pos \notin Occupied /\ Live' = Occupied'
  BY <1>1, <1>2 DEF Occupied, Live, Index
<1>4. SizeCounts'
  <2>1. (size + 1) * 4 < cap * 3
    <3>1. CASE op = "insert"
      BY <1>1, <3>1 DEF Inv, CallsInv
    <3>2. CASE op = "reinsert"
      <4>1. cap = 2 * OldSlots /\ OldSlots \in Nat /\ size <= moved /\ moved < OldSlots /\ moved \in Nat
        BY <1>1, <3>2 DEF Inv, TypeOK, GrowInv, Growing
      <4>. QED  BY <1>1, <4>1
    <3>. QED  BY <3>1, <3>2
  <2>2. Cardinality(Occupied') = Cardinality(Occupied) + 1
    BY <1>1, <1>3, TableFinite, FS_AddElement
  <2>. QED  BY <1>1, <2>1, <2>2 DEF Inv, SizeCounts
<1>5. PathsUnbroken'
  <2> SUFFICES ASSUME NEW i \in Occupied', NEW j \in Index,
                      Distance(Ideal(slots'[i].key), j) < Distance(Ideal(slots'[i].key), i)
               PROVE  j \in Occupied'
    BY <1>1, <1>3 DEF PathsUnbroken, Index, Distance, Ideal
  <2>1. CASE i = pos
    <3>1. slots'[i].key = ent.key
      BY <1>1, <2>1
    <3>2. slots[j].key # Empty
      BY <1>1, <2>1, <3>1 DEF Inv, ProbeInv
    <3>. QED  BY <1>3, <3>2 DEF Occupied
  <2>2. CASE i # pos
    <3>1. i \in Live /\ slots'[i] = slots[i]
      BY <1>1, <1>3, <2>2 DEF Occupied
    <3>. QED  BY <1>3, <3>1 DEF Inv, PathsUnbroken
  <2>. QED  BY <2>1, <2>2
<1>6. ASSUME NEW i \in Live', NEW j \in Live', slots'[i].key = slots'[j].key
      PROVE  i = j
  <2>1. \A n \in Live : slots[n].key # ent.key
    BY AbsentAtEmpty
  <2>2. \A n \in Live : slots'[n] = slots[n] /\ n # pos
    BY <1>1, <1>3 DEF Occupied
  <2>3. slots'[pos] = ent
    BY <1>1
  <2>4. \A m, n \in Live : slots[m].key = slots[n].key => m = n
    BY DEF Inv, KeysUnique
  <2>5. (i \in Live \/ i = pos) /\ (j \in Live \/ j = pos)
    BY <1>3
  <2>. QED  BY <1>6, <2>1, <2>2, <2>3, <2>4, <2>5
<1>. QED  BY <1>2, <1>3, <1>4, <1>5, <1>6

\* insert of a new key.
LEMMA InsertNewStep == ASSUME Inv, InsertNew PROVE Inv'
<1>1. /\ AtEmpty /\ FillSlot /\ op = "insert" /\ pc' = "idle" /\ op' = "none"
      /\ arg' = EmptySlot /\ ent' = EmptySlot /\ pos' = 0 /\ hole' = 0 /\ moved' = 0
      /\ cap' = cap /\ size' = size + 1 /\ ret' = ret
  BY DEF InsertNew, Return, FillSlot
<1>2. /\ slots' \in [Index -> Slot] /\ SizeCounts' /\ PathsUnbroken'
      /\ \A i, j \in Live' : slots'[i].key = slots'[j].key => i = j
  BY <1>1, FillKeeps
<1>3. TypeOK'
  BY <1>1, <1>2, LeastCapacity DEF Inv, TypeOK, Index, EmptySlot, Slot
<1>4. Rest' = {}
  BY <1>1 DEF Rest, Growing
<1>5. KeysUnique'
  BY <1>2, <1>4 DEF KeysUnique
<1>6. CallsInv' /\ ProbeInv' /\ ShiftInv' /\ GrowInv'
  BY <1>1 DEF CallsInv, ProbeInv, ShiftInv, GrowInv, Growing
<1>. QED  BY <1>2, <1>3, <1>5, <1>6 DEF Inv

\* insert of an entry of the old table.
LEMMA ReinsertStep == ASSUME Inv, Reinsert PROVE Inv'
<1>1. /\ AtEmpty /\ FillSlot /\ op = "reinsert" /\ pc' = "move" /\ moved' = moved + 1
      /\ pc = "probe" /\ cap' = cap /\ size' = size + 1 /\ slots' = [slots EXCEPT ![pos] = ent]
      /\ UNCHANGED <<op, arg, ent, pos, hole, old, ret>>
  BY DEF Reinsert, FillSlot, AtEmpty
<1>2. /\ slots' \in [Index -> Slot] /\ SizeCounts' /\ PathsUnbroken'
      /\ Live' = Live \cup {pos} /\ pos \notin Live
      /\ \A i, j \in Live' : slots'[i].key = slots'[j].key => i = j
  BY <1>1, FillKeeps DEF Live
<1>3. /\ cap = 2 * OldSlots /\ OldSlots \in Nat /\ old \in [0..(OldSlots - 1) -> Slot]
      /\ moved \in Nat /\ moved < OldSlots /\ ent = old[moved] /\ ent.key # Empty
      /\ size \in Nat /\ size <= moved
  BY <1>1 DEF Inv, TypeOK, GrowInv, Growing
<1>4. TypeOK'
  BY <1>1, <1>2 DEF Inv, TypeOK, Index
<1>5. CallsInv' /\ ProbeInv' /\ ShiftInv'
  BY <1>1 DEF Inv, CallsInv, ProbeInv, ShiftInv
<1>6. GrowInv'
  BY <1>1, <1>3 DEF Inv, GrowInv, Growing, OldSlots
<1>7. Rest' = Rest \ {moved} /\ moved \in Rest
  BY <1>1, <1>3 DEF Rest, Growing, OldSlots
<1>8. KeysUnique'
  <2>1. \A i, j \in Rest' : old'[i].key = old'[j].key => i = j
    BY <1>1, <1>7 DEF Inv, KeysUnique
  <2>2. ASSUME NEW i \in Live', NEW j \in Rest' PROVE slots'[i].key # old'[j].key
    <3>1. j \in Rest /\ j # moved
      BY <1>7
    <3>2. CASE i \in Live
      <4>1. slots'[i] = slots[i] /\ old' = old
        BY <1>1, <1>2, <3>2 DEF Inv, TypeOK, Live, Occupied
      <4>. QED  BY <3>1, <3>2, <4>1 DEF Inv, KeysUnique
    <3>3. CASE i = pos
      <4>1. slots'[i] = old[moved] /\ old' = old
        BY <1>1, <1>3, <3>3 DEF Inv, TypeOK
      <4>. QED  BY <1>7, <3>1, <4>1 DEF Inv, KeysUnique
    <3>. QED  BY <1>2, <3>2, <3>3
  <2>. QED  BY <1>2, <2>1, <2>2 DEF KeysUnique
<1>. QED  BY <1>2, <1>4, <1>5, <1>6, <1>8 DEF Inv

\* insert over an entry with the same key.
LEMMA OverwriteStep == ASSUME Inv, Overwrite PROVE Inv'
<1>1. /\ pc = "probe" /\ op = "insert" /\ slots[pos].key = ent.key /\ pc' = "idle" /\ op' = "none"
      /\ slots' = [slots EXCEPT ![pos].value = ent.value]
      /\ arg' = EmptySlot /\ ent' = EmptySlot /\ pos' = 0 /\ hole' = 0 /\ moved' = 0
      /\ cap' = cap /\ size' = size /\ ret' = ret
      /\ pos \in Index /\ ent \in Slot /\ slots \in [Index -> Slot] /\ cap \in Nat /\ cap >= 4
  BY LeastCapacity DEF Overwrite, AtKey, Return, Inv, TypeOK
<1>2. slots' \in [Index -> Slot] /\ \A i \in Index : slots'[i].key = slots[i].key
  BY <1>1 DEF Slot
<1>3. Occupied' = Occupied /\ Live' = Live /\ Live = Occupied /\ Rest' = {}
  BY <1>1, <1>2 DEF Occupied, Live, Rest, Growing, Index
<1>4. TypeOK'
  BY <1>1, <1>2, LeastCapacity DEF Inv, TypeOK, Index, EmptySlot, Slot
<1>5. SizeCounts'
  BY <1>1, <1>3 DEF Inv, SizeCounts
<1>6. PathsUnbroken'
  <2> SUFFICES ASSUME NEW i \in Live, NEW j \in Index,
                      Distance(Ideal(slots'[i].key), j) < Distance(Ideal(slots'[i].key), i)
               PROVE  j \in Occupied
    BY <1>1, <1>3 DEF PathsUnbroken, Index, Distance, Ideal
  <2>1. i \in Index
    BY DEF Live, Occupied
  <2>. QED  BY <1>2, <2>1 DEF Inv, PathsUnbroken
<1>7. KeysUnique'
  <2>1. \A i \in Live : i \in Index
    BY DEF Live, Occupied
  <2>. QED  BY <1>2, <1>3, <2>1 DEF Inv, KeysUnique
<1>8. CallsInv' /\ ProbeInv' /\ ShiftInv' /\ GrowInv'
  BY <1>1 DEF CallsInv, ProbeInv, ShiftInv, GrowInv, Growing
<1>. QED  BY <1>4, <1>5, <1>6, <1>7, <1>8 DEF Inv

\* find, and erase of a key that is not there.
LEMMA FindStep == ASSUME Inv, FindHit \/ FindMiss \/ EraseMiss PROVE Inv'
<1>1. /\ pc = "probe" /\ op \in {"find", "erase"} /\ pc' = "idle" /\ op' = "none"
      /\ arg' = EmptySlot /\ ent' = EmptySlot /\ pos' = 0 /\ hole' = 0 /\ moved' = 0
      /\ UNCHANGED <<slots, cap, size>> /\ ret' \in {slots[pos].value, Null, FALSE}
  BY DEF FindHit, FindMiss, EraseMiss, AtKey, AtEmpty, Return
<1>2. slots[pos].value \in Value \cup {Null}
  BY DEF Inv, TypeOK, Slot
<1>3. TypeOK'
  <2>1. ret' \in Value \cup {Null} \cup BOOLEAN
    BY <1>1, <1>2, Zenon
  <2>. QED  BY <1>1, <2>1, LeastCapacity DEF Inv, TypeOK, Index, EmptySlot, Slot
<1>4. Live' = Live /\ Rest' = {}
  BY <1>1 DEF Live, Occupied, Index, Rest, Growing
<1>5. SizeCounts' /\ PathsUnbroken' /\ KeysUnique'
  BY <1>1, <1>4, SameTable
<1>6. CallsInv' /\ ProbeInv' /\ ShiftInv' /\ GrowInv'
  BY <1>1 DEF CallsInv, ProbeInv, ShiftInv, GrowInv, Growing
<1>. QED  BY <1>3, <1>5, <1>6 DEF Inv

\* erase finds its key: the slot becomes the hole.
LEMMA EraseHitStep == ASSUME Inv, EraseHit PROVE Inv'
<1>1. /\ pc = "probe" /\ op = "erase" /\ slots[pos].key = ent.key /\ pc' = "shift" /\ hole' = pos
      /\ ret' = TRUE /\ UNCHANGED <<slots, cap, size, op, arg, ent, pos, old, moved>>
      /\ pos \in Index /\ ent.key \in Key /\ cap \in Nat /\ cap >= 1
  BY LeastCapacity DEF EraseHit, AtKey, Inv, TypeOK, CallsInv
<1>2. TypeOK'
  BY <1>1 DEF Inv, TypeOK, Index
<1>3. Live' \subseteq Live /\ Rest' = {}
  BY <1>1 DEF Live, Occupied, Index, Rest, Growing
<1>4. SizeCounts' /\ PathsUnbroken' /\ KeysUnique' /\ Occupied' = Occupied
  BY <1>1, <1>3, SameTable
<1>5. pos \in Occupied
  BY <1>1, KeyAssumption DEF Occupied
<1>6. \A j \in Index : Distance(pos, j) <= Distance(pos, pos) => j = pos
  <2> SUFFICES ASSUME NEW j \in Index, Distance(pos, j) <= Distance(pos, pos) PROVE j = pos
    OBVIOUS
  <2>1. Distance(pos, j) = 0
    BY <1>1, SlotRange, DistanceSame
  <2>. QED  BY <1>1, <2>1, DistanceSame
<1>7. ShiftInv'
  BY <1>1, <1>4, <1>5, <1>6 DEF ShiftInv, Index, Distance
<1>8. CallsInv' /\ ProbeInv' /\ GrowInv'
  BY <1>1 DEF CallsInv, ProbeInv, GrowInv, Growing, Inv
<1>. QED  BY <1>2, <1>4, <1>7, <1>8 DEF Inv

\* The slots up to the next one are those up to this one, and the next.
LEMMA NextInShift ==
    ASSUME Inv, pc = "shift", NEW j \in Index, Distance(hole, j) <= Distance(hole, Succ(pos))
    PROVE  Distance(hole, j) <= Distance(hole, pos) \/ j = Succ(pos)
<1>1. cap \in Nat /\ cap >= 1 /\ pos \in Index /\ hole \in Index
  BY LeastCapacity DEF Inv, TypeOK
<1>2. Succ(pos) \in Index
  BY <1>1, SlotRange
<1>3. Distance(hole, j) \in Nat /\ Distance(hole, pos) \in Nat
  BY <1>1, SlotRange
<1>4. Distance(hole, Succ(pos)) = Distance(hole, pos) + 1
  BY ShiftEnds
<1>5. Distance(hole, j) <= Distance(hole, pos) \/ Distance(hole, j) = Distance(hole, Succ(pos))
  BY <1>3, <1>4
<1>. QED  BY <1>1, <1>2, <1>5, DistanceSame

\* remove_at leaves an entry where it is.
LEMMA PassOverStep == ASSUME Inv, PassOver PROVE Inv'
<1>1. /\ pc = "shift" /\ slots[Succ(pos)].key # Empty /\ ~Displaced(Succ(pos)) /\ pos' = Succ(pos)
      /\ UNCHANGED <<slots, cap, size, pc, op, arg, ent, hole, old, moved, ret>>
      /\ cap \in Nat /\ cap >= 1 /\ pos \in Index /\ hole \in Index
  BY LeastCapacity DEF PassOver, Inv, TypeOK
<1>2. Succ(pos) \in Index
  BY <1>1, SlotRange
<1>3. TypeOK'
  BY <1>1, <1>2 DEF Inv, TypeOK, Index
<1>4. Live' = Live /\ Rest' = Rest
  BY <1>1 DEF Live, Occupied, Index, Rest, Growing, OldSlots
<1>5. SizeCounts' /\ PathsUnbroken' /\ KeysUnique' /\ Occupied' = Occupied
  BY <1>1, <1>4, SameTable
<1>6. Succ(pos) \in Occupied
  BY <1>1, <1>2 DEF Occupied
<1>7. /\ \A j \in Index : Distance(hole, j) <= Distance(hole, Succ(pos)) => j \in Occupied
      /\ \A j \in Index \ {hole} : Distance(hole, j) <= Distance(hole, Succ(pos)) => ~Displaced(j)
  BY <1>1, <1>6, NextInShift DEF Inv, ShiftInv
<1>8. ShiftInv'
  BY <1>1, <1>5, <1>7 DEF ShiftInv, Displaced, Index, Distance, Ideal
<1>9. CallsInv' /\ ProbeInv' /\ GrowInv'
  BY <1>1 DEF CallsInv, ProbeInv, GrowInv, Growing, Inv
<1>. QED  BY <1>3, <1>5, <1>8, <1>9 DEF Inv

\* remove_at fills the hole with an entry, whose slot is the next hole.
LEMMA PullBackStep == ASSUME Inv, PullBack PROVE Inv'
<1> DEFINE n == Succ(pos)
           I == Ideal(slots[n].key)
<1>1. /\ pc = "shift" /\ slots[n].key # Empty /\ Displaced(n)
      /\ slots' = [slots EXCEPT ![hole] = slots[n]] /\ pos' = n /\ hole' = n
      /\ UNCHANGED <<cap, size, pc, op, arg, ent, old, moved, ret>>
      /\ cap \in Nat /\ cap >= 1 /\ pos \in Index /\ hole \in Index /\ slots \in [Index -> Slot]
  BY LeastCapacity DEF PullBack, Inv, TypeOK
<1>2. n \in Index /\ slots[n] \in Slot /\ slots[n].key \in Key
  <2>1. n \in Index
    BY <1>1, SlotRange
  <2>. QED  BY <1>1, <2>1 DEF Slot
<1>3. I \in Index
  BY <1>1, <1>2, SlotRange
<1>4. n # hole
  BY <1>1, ShiftEnds
<1>5. TypeOK'
  BY <1>1, <1>2 DEF Inv, TypeOK, Index
<1>6. hole \in Occupied
  <2>1. Distance(hole, hole) = 0 /\ Distance(hole, pos) >= 0
    BY <1>1, SlotRange, DistanceSame
  <2>. QED  BY <1>1, <2>1 DEF Inv, ShiftInv
<1>7. Occupied' = Occupied /\ Live = Occupied \ {hole} /\ Live' = Occupied \ {n} /\ n \in Live
  <2>1. Occupied' = Occupied
    BY <1>1, <1>2, <1>6 DEF Occupied, Index
  <2>. QED  BY <1>1, <1>2, <1>4, <2>1 DEF Live, Occupied
<1>8. SizeCounts'
  BY <1>1, <1>7 DEF Inv, SizeCounts
<1>9. PathsUnbroken'
  <2> SUFFICES ASSUME NEW i \in Live', NEW j \in Index,
                      Distance(Ideal(slots'[i].key), j) < Distance(Ideal(slots'[i].key), i)
               PROVE  j \in Occupied
    BY <1>1, <1>7 DEF PathsUnbroken, Index, Distance, Ideal
  <2>1. CASE i = hole
    <3>1. slots'[i] = slots[n]
      BY <1>1, <2>1
    <3>2. Distance(I, j) < Distance(I, hole) /\ Distance(I, hole) < Distance(I, n)
      BY <1>1, <2>1, <3>1 DEF Displaced
    <3>3. Distance(I, j) < Distance(I, n)
      <4>1. Distance(I, j) \in Int /\ Distance(I, hole) \in Int /\ Distance(I, n) \in Int
        BY <1>1, <1>2, <1>3, SlotRange
      <4>. QED  BY <3>2, <4>1
    <3>. QED  BY <1>7, <3>3 DEF Inv, PathsUnbroken
  <2>2. CASE i # hole
    <3>1. i \in Live /\ slots'[i] = slots[i]
      BY <1>1, <1>7, <2>2 DEF Occupied
    <3>. QED  BY <3>1 DEF Inv, PathsUnbroken
  <2>. QED  BY <2>1, <2>2
<1>10. KeysUnique'
  <2>1. Rest' = {}
    BY <1>1 DEF Inv, CallsInv, Rest, Growing
  <2>2. ASSUME NEW i \in Live', NEW j \in Live', slots'[i].key = slots'[j].key PROVE i = j
    <3>1. \A m \in Live' : m = hole \/ (m \in Live /\ m # n /\ m # hole)
      BY <1>7
    <3>2. slots'[hole] = slots[n] /\ \A m \in Live : slots'[m] = slots[m]
      BY <1>1, <1>7 DEF Occupied
    <3>3. \A l, m \in Live : slots[l].key = slots[m].key => l = m
      BY DEF Inv, KeysUnique
    <3>. QED  BY <1>7, <2>2, <3>1, <3>2, <3>3
  <2>. QED  BY <2>1, <2>2 DEF KeysUnique
<1>11. ShiftInv'
  <2>1. \A j \in Index : Distance(n, j) <= Distance(n, n) => j = n
    <3> SUFFICES ASSUME NEW j \in Index, Distance(n, j) <= Distance(n, n) PROVE j = n
      OBVIOUS
    <3>1. Distance(n, j) = 0
      BY <1>1, <1>2, SlotRange, DistanceSame
    <3>. QED  BY <1>1, <1>2, <3>1, DistanceSame
  <2>2. n \in Occupied'
    BY <1>7
  <2>. QED  BY <1>1, <2>1, <2>2 DEF ShiftInv, Index, Distance
<1>12. CallsInv' /\ ProbeInv' /\ GrowInv'
  BY <1>1 DEF CallsInv, ProbeInv, GrowInv, Growing, Inv
<1>. QED  BY <1>5, <1>8, <1>9, <1>10, <1>11, <1>12 DEF Inv

\* The end of remove_at: no entry is reached through the hole, so it may be empty.
LEMMA ClearHoleStep == ASSUME Inv, ClearHole PROVE Inv'
<1> DEFINE e == Succ(pos)
<1>1. /\ pc = "shift" /\ slots[e].key = Empty /\ pc' = "idle" /\ op' = "none"
      /\ slots' = [slots EXCEPT ![hole] = EmptySlot] /\ size' = size - 1
      /\ arg' = EmptySlot /\ ent' = EmptySlot /\ pos' = 0 /\ hole' = 0 /\ moved' = 0
      /\ cap' = cap /\ ret' = ret
      /\ cap \in Nat /\ cap >= 1 /\ pos \in Index /\ hole \in Index /\ slots \in [Index -> Slot]
      /\ size \in Nat
  BY LeastCapacity DEF ClearHole, Return, Inv, TypeOK
<1>2. e \in Index /\ e \notin Occupied
  BY <1>1, SlotRange DEF Occupied
<1>3. hole \in Occupied
  <2>1. Distance(hole, hole) = 0 /\ Distance(hole, pos) >= 0
    BY <1>1, SlotRange, DistanceSame
  <2>. QED  BY <1>1, <2>1 DEF Inv, ShiftInv
<1>4. Occupied' = Occupied \ {hole} /\ Live = Occupied \ {hole} /\ Live' = Occupied'
  <2>1. Occupied' = Occupied \ {hole}
    BY <1>1 DEF Occupied, Index, EmptySlot
  <2>. QED  BY <1>1, <2>1 DEF Live
<1>5. SizeCounts' /\ size' \in Nat
  <2>1. IsFiniteSet(Occupied) /\ Cardinality(Occupied') = Cardinality(Occupied) - 1
    BY <1>1, <1>3, <1>4, TableFinite, FS_RemoveElement
  <2>2. Cardinality(Occupied') \in Nat
    BY <1>4, <2>1, FS_RemoveElement, FS_CardinalityType
  <2>. QED  BY <1>1, <2>1, <2>2 DEF Inv, SizeCounts
<1>6. TypeOK'
  <2>1. slots' \in [Index -> Slot]
    BY <1>1 DEF EmptySlot, Slot
  <2>. QED  BY <1>1, <1>5, <2>1, LeastCapacity DEF Inv, TypeOK, Index, EmptySlot, Slot
<1>7. ASSUME NEW i \in Live, NEW I \in Index, I = Ideal(slots[i].key)
      PROVE  ~(Distance(I, hole) < Distance(I, i))
  <2> SUFFICES ASSUME Distance(I, hole) < Distance(I, i) PROVE FALSE
    OBVIOUS
  <2>1. i \in Index /\ i # hole /\ i # e
    BY <1>2, <1>4 DEF Occupied
  <2>2. CASE Distance(hole, i) <= Distance(hole, pos)
    BY <1>1, <1>7, <2>1, <2>2 DEF Inv, ShiftInv, Displaced
  <2>3. CASE ~(Distance(hole, i) <= Distance(hole, pos))
    <3>1. Distance(hole, e) = Distance(hole, pos) + 1
      BY <1>1, ShiftEnds
    <3>2. Distance(hole, i) # Distance(hole, e)
      BY <1>1, <1>2, <2>1, DistanceSame
    <3>3. Distance(hole, i) \in Int /\ Distance(hole, pos) \in Int
      BY <1>1, <2>1, SlotRange
    <3>4. Distance(hole, e) < Distance(hole, i)
      BY <2>3, <3>1, <3>2, <3>3
    <3>5. Distance(I, e) < Distance(I, i)
      BY <1>1, <1>2, <2>1, <3>4, DistanceBetween
    <3>. QED  BY <1>2, <1>7, <3>5 DEF Inv, PathsUnbroken
  <2>. QED  BY <2>2, <2>3
<1>8. PathsUnbroken'
  <2> SUFFICES ASSUME NEW i \in Live, NEW j \in Index,
                      Distance(Ideal(slots'[i].key), j) < Distance(Ideal(slots'[i].key), i)
               PROVE  j \in Occupied \ {hole}
    BY <1>1, <1>4 DEF PathsUnbroken, Index, Distance, Ideal
  <2>1. slots'[i] = slots[i] /\ slots[i].key \in Key
    BY <1>1, <1>4 DEF Occupied, Slot
  <2>2. Ideal(slots[i].key) \in Index
    BY <1>1, <2>1, SlotRange
  <2>3. j \in Occupied
    BY <2>1 DEF Inv, PathsUnbroken
  <2>4. j # hole
    BY <1>7, <2>1, <2>2
  <2>. QED  BY <2>3, <2>4
<1>9. KeysUnique'
  <2>1. Rest' = {}
    BY <1>1 DEF Rest, Growing
  <2>2. \A i \in Live : slots'[i] = slots[i]
    BY <1>1, <1>4 DEF Occupied
  <2>. QED  BY <1>4, <2>1, <2>2 DEF Inv, KeysUnique
<1>10. CallsInv' /\ ProbeInv' /\ ShiftInv' /\ GrowInv'
  BY <1>1 DEF CallsInv, ProbeInv, ShiftInv, GrowInv, Growing
<1>. QED  BY <1>5, <1>6, <1>8, <1>9, <1>10 DEF Inv

\* A probe starts at the slot its key hashes to.
LEMMA ProbeStarts ==
    ASSUME cap \in Nat, cap >= 1, NEW k \in Key, NEW j \in Index
    PROVE  Ideal(k) \in Index /\ ~(Distance(Ideal(k), j) < Distance(Ideal(k), Ideal(k)))
<1>1. Ideal(k) \in Index
  BY SlotRange
<1>2. Distance(Ideal(k), Ideal(k)) = 0 /\ Distance(Ideal(k), j) \in Nat
  BY <1>1, SlotRange, DistanceSame
<1>. QED  BY <1>1, <1>2

\* A call starts to probe.
LEMMA StartStep ==
    ASSUME Inv, NEW o \in {"insert", "find", "erase"}, NEW e \in Slot, e.key \in Key, Start(o, e),
           o = "insert" => e.value \in Value /\ (size + 1) * 4 < cap * 3
    PROVE  Inv'
<1>1. /\ pc = "idle" /\ pc' = "probe" /\ op = "none" /\ op' = o /\ arg' = e /\ ent' = e
      /\ pos' = Ideal(e.key) /\ UNCHANGED <<slots, cap, size, hole, old, moved, ret>>
      /\ cap \in Nat /\ cap >= 1
  BY LeastCapacity DEF Start, Inv, CallsInv, TypeOK
<1>2. \A j \in Index : ~(Distance(Ideal(e.key), j) < Distance(Ideal(e.key), Ideal(e.key)))
  BY <1>1, ProbeStarts
<1>3. Ideal(e.key) \in Index
  BY <1>1, SlotRange
<1>4. TypeOK'
  BY <1>1, <1>3 DEF Inv, TypeOK, Index
<1>5. Live' = Live /\ Rest' = {}
  BY <1>1 DEF Live, Occupied, Index, Rest, Growing
<1>6. SizeCounts' /\ PathsUnbroken' /\ KeysUnique'
  BY <1>1, <1>5, SameTable
<1>7. ProbeInv'
  BY <1>1, <1>2 DEF ProbeInv, Index, Distance, Ideal
<1>8. CallsInv' /\ ShiftInv' /\ GrowInv'
  BY <1>1 DEF CallsInv, ShiftInv, GrowInv, Growing
<1>. QED  BY <1>4, <1>6, <1>7, <1>8 DEF Inv

\* insert empties the table into one of twice the size.
LEMMA GrowStep == ASSUME Inv, NEW k \in Key, NEW v \in Value, Grow(k, v) PROVE Inv'
<1>1. /\ pc = "idle" /\ pc' = "move" /\ op = "none" /\ op' = "insert" /\ arg' = [key |-> k, value |-> v]
      /\ old' = slots /\ moved' = 0 /\ cap' = 2 * cap /\ slots' = EmptyTable(2 * cap) /\ size' = 0
      /\ UNCHANGED <<ent, pos, hole, ret>>
      /\ cap \in Nat /\ cap >= MinCapacity /\ MinCapacity \in Nat /\ MinCapacity >= 4
      /\ slots \in [Index -> Slot]
  BY LeastCapacity DEF Grow, Inv, CallsInv, TypeOK
<1>2. EmptySlot \in Slot /\ EmptySlot.key = Empty
  BY DEF EmptySlot, Slot
<1>3. Index' = 0..(2 * cap - 1) /\ OldSlots' = cap
  BY <1>1 DEF Index, OldSlots
<1>4. slots' \in [Index' -> Slot] /\ \A i \in Index' : slots'[i].key = Empty
  BY <1>1, <1>2, <1>3 DEF EmptyTable
<1>5. Occupied' = {} /\ Live' = {}
  BY <1>4 DEF Occupied, Live
<1>6. TypeOK'
  <2>1. pos' \in Index' /\ hole' \in Index'
    BY <1>1, <1>3 DEF Inv, TypeOK, Index
  <2>. QED  BY <1>1, <1>4, <2>1 DEF Inv, TypeOK, Slot
<1>7. SizeCounts' /\ PathsUnbroken'
  BY <1>1, <1>5, FS_EmptySet DEF SizeCounts, PathsUnbroken
<1>8. KeysUnique'
  <2>1. Rest' = Live
    BY <1>1, <1>3 DEF Rest, Growing, Live, Occupied, Index
  <2>. QED  BY <1>1, <1>5, <2>1 DEF Inv, KeysUnique
<1>9. CallsInv' /\ ProbeInv' /\ ShiftInv'
  BY <1>1 DEF CallsInv, ProbeInv, ShiftInv
<1>10. GrowInv'
  BY <1>1, <1>3 DEF GrowInv, Index
<1>. QED  BY <1>6, <1>7, <1>8, <1>9, <1>10 DEF Inv

\* grow passes an empty slot, or takes the entry of another.
LEMMA MoveStep == ASSUME Inv, SkipSlot \/ TakeSlot PROVE Inv'
<1>1. /\ pc = "move" /\ moved < OldSlots /\ UNCHANGED <<slots, cap, size, arg, hole, old, ret>>
      /\ cap \in Nat /\ cap >= 1 /\ moved \in Nat /\ OldSlots \in Nat /\ size <= moved /\ size \in Nat
      /\ old \in [0..(OldSlots - 1) -> Slot] /\ op \in {"insert", "reinsert"}
  BY LeastCapacity DEF SkipSlot, TakeSlot, Inv, TypeOK, GrowInv, Growing, CallsInv
<1>2. CASE SkipSlot
  <2>1. /\ old[moved].key = Empty /\ moved' = moved + 1 /\ UNCHANGED <<pc, op, ent, pos>>
    BY <1>2 DEF SkipSlot
  <2>2. TypeOK'
    BY <1>1, <2>1 DEF Inv, TypeOK, Index
  <2>3. Live' = Live /\ Rest' = Rest
    BY <1>1, <2>1 DEF Live, Occupied, Index, Rest, Growing, OldSlots
  <2>4. SizeCounts' /\ PathsUnbroken' /\ KeysUnique'
    BY <1>1, <2>3, SameTable
  <2>5. CallsInv' /\ ProbeInv' /\ ShiftInv'
    BY <1>1, <2>1 DEF CallsInv, ProbeInv, ShiftInv, Inv
  <2>6. GrowInv'
    BY <1>1, <2>1 DEF GrowInv, Growing, OldSlots, Inv
  <2>. QED  BY <2>2, <2>4, <2>5, <2>6 DEF Inv
<1>3. CASE TakeSlot
  <2>1. /\ old[moved].key # Empty /\ pc' = "probe" /\ op' = "reinsert" /\ moved' = moved
        /\ ent' = old[moved] /\ pos' = Ideal(old[moved].key)
    BY <1>3 DEF TakeSlot
  <2>2. old[moved] \in Slot /\ old[moved].key \in Key
    BY <1>1, <2>1 DEF Slot
  <2>3. Ideal(old[moved].key) \in Index
    BY <1>1, <2>2, SlotRange
  <2>4. TypeOK'
    BY <1>1, <2>1, <2>2, <2>3 DEF Inv, TypeOK, Index
  <2>5. Live' = Live /\ Rest' = Rest
    BY <1>1, <2>1 DEF Live, Occupied, Index, Rest, Growing, OldSlots
  <2>6. SizeCounts' /\ PathsUnbroken' /\ KeysUnique'
    BY <1>1, <2>5, SameTable
  <2>7. ProbeInv'
    <3>1. \A j \in Index :
             ~(Distance(Ideal(old[moved].key), j) < Distance(Ideal(old[moved].key), Ideal(old[moved].key)))
      BY <1>1, <2>2, ProbeStarts
    <3>. QED  BY <1>1, <2>1, <3>1 DEF ProbeInv, Index, Distance, Ideal
  <2>8. CallsInv' /\ ShiftInv'
    BY <1>1, <2>1, <2>2 DEF CallsInv, ShiftInv, Inv
  <2>9. GrowInv'
    BY <1>1, <2>1 DEF GrowInv, Growing, OldSlots, Inv
  <2>. QED  BY <2>4, <2>6, <2>7, <2>8, <2>9 DEF Inv
<1>. QED  BY <1>2, <1>3

\* The grown table has room for the entry it was grown for.
LEMMA MoveDoneStep == ASSUME Inv, MoveDone PROVE Inv'
<1>1. /\ pc = "move" /\ moved = OldSlots /\ pc' = "probe" /\ op' = "insert" /\ ent' = arg
      /\ pos' = Ideal(arg.key) /\ moved' = 0 /\ UNCHANGED <<slots, cap, size, arg, hole, ret>>
      /\ cap \in Nat /\ cap >= 1 /\ arg \in Slot /\ arg.key \in Key /\ arg.value \in Value
  BY LeastCapacity DEF MoveDone, Inv, TypeOK, CallsInv
<1>2. (size + 1) * 4 < cap * 3
  <2>1. /\ cap = 2 * OldSlots /\ OldSlots \in Nat /\ OldSlots >= 4 /\ size <= OldSlots /\ size \in Nat
    BY <1>1, LeastCapacity DEF Inv, TypeOK, GrowInv, Growing
  <2>. QED  BY <2>1
<1>3. Ideal(arg.key) \in Index
  BY <1>1, SlotRange
<1>4. TypeOK'
  BY <1>1, <1>3 DEF Inv, TypeOK, Index
<1>5. Live' = Live /\ Rest' = {}
  BY <1>1 DEF Live, Occupied, Index, Rest, Growing
<1>6. SizeCounts' /\ PathsUnbroken' /\ KeysUnique'
  BY <1>1, <1>5, SameTable
<1>7. ProbeInv'
  <2>1. \A j \in Index : ~(Distance(Ideal(arg.key), j) < Distance(Ideal(arg.key), Ideal(arg.key)))
    BY <1>1, ProbeStarts
  <2>. QED  BY <1>1, <2>1 DEF ProbeInv, Index, Distance, Ideal
<1>8. CallsInv' /\ ShiftInv' /\ GrowInv'
  BY <1>1, <1>2 DEF CallsInv, ShiftInv, GrowInv, Growing
<1>. QED  BY <1>4, <1>6, <1>7, <1>8 DEF Inv

\* The table the constructor makes.
LEMMA InitInv == Init => Inv
<1> SUFFICES ASSUME Init PROVE Inv
  OBVIOUS
<1>1. EmptySlot \in Slot /\ EmptySlot.key = Empty
  BY DEF EmptySlot, Slot
<1>2. slots \in [Index -> Slot] /\ \A i \in Index : slots[i].key = Empty
  BY <1>1 DEF Init, EmptyTable, Index
<1>3. TypeOK
  BY <1>1, <1>2, LeastCapacity DEF Init, TypeOK, Index
<1>4. Occupied = {} /\ Live = {} /\ Rest = {}
  BY <1>2 DEF Occupied, Live, Init, Rest, Growing
<1>5. SizeCounts /\ PathsUnbroken /\ KeysUnique
  BY <1>4, FS_EmptySet, LeastCapacity DEF Init, SizeCounts, PathsUnbroken, KeysUnique
<1>6. CallsInv /\ ProbeInv /\ ShiftInv /\ GrowInv
  BY DEF Init, CallsInv, ProbeInv, ShiftInv, GrowInv, Growing
<1>. QED  BY <1>3, <1>5, <1>6 DEF Inv

\* The invariant is inductive.
LEMMA NextInv == Inv /\ [Next]_vars => Inv'
<1> SUFFICES ASSUME Inv, [Next]_vars PROVE Inv'
  OBVIOUS
<1>1. CASE UNCHANGED vars
  <2>1. /\ UNCHANGED <<slots, cap, size, pc, op, arg, ent, pos, hole, old, moved, ret>>
    BY <1>1 DEF vars, locals
  <2>2. Live' = Live /\ Rest' = Rest
    BY <2>1 DEF Live, Occupied, Index, Rest, Growing, OldSlots
  <2>3. SizeCounts' /\ PathsUnbroken' /\ KeysUnique' /\ Occupied' = Occupied
    BY <2>1, <2>2, SameTable
  <2>4. TypeOK' /\ CallsInv' /\ GrowInv'
    BY <2>1 DEF Inv, TypeOK, CallsInv, GrowInv, Index, Growing, OldSlots
  <2>5. ProbeInv'
    BY <2>1 DEF Inv, ProbeInv, Index, Distance, Ideal
  <2>6. ShiftInv'
    BY <2>1, <2>3 DEF Inv, ShiftInv, Displaced, Index, Distance, Ideal
  <2>. QED  BY <2>3, <2>4, <2>5, <2>6 DEF Inv
<1>2. CASE Call
  <2>1. ASSUME NEW k \in Key, NEW v \in Value, StartInsert(k, v) PROVE Inv'
    <3>1. [key |-> k, value |-> v] \in Slot /\ Start("insert", [key |-> k, value |-> v]) /\ ~NeedsGrowth
      BY <2>1 DEF StartInsert, Slot
    <3>2. (size + 1) * 4 < cap * 3
      BY <3>1 DEF NeedsGrowth, Inv, TypeOK
    <3>. QED  BY <3>1, <3>2, StartStep
  <2>2. ASSUME NEW k \in Key, StartFind(k) \/ StartErase(k) PROVE Inv'
    <3>1. [key |-> k, value |-> Null] \in Slot
      BY DEF Slot
    <3>. QED  BY <2>2, <3>1, StartStep DEF StartFind, StartErase
  <2>. QED  BY <1>2, <2>1, <2>2, GrowStep DEF Call
<1>3. CASE Step
  BY <1>3, ProbeOnStep, OverwriteStep, InsertNewStep, ReinsertStep, FindStep, EraseHitStep,
     PassOverStep, PullBackStep, ClearHoleStep, MoveStep, MoveDoneStep DEF Step
<1>. QED  BY <1>1, <1>2, <1>3 DEF Next

\* The invariant holds in every reachable state.
THEOREM Invariance == Spec => []Inv
  BY InitInv, NextInv, PTL DEF Spec

\* Slots hold entries and every position the loops use is inside the table.
THEOREM TypeCorrect == Spec => []TypeOK
  BY Invariance, PTL DEF Inv

\* size_ is the number of entries, and a quarter of the table stays empty.
THEOREM SizeIsCount == Spec => []SizeCounts
  BY Invariance, PTL DEF Inv

\* Neither inserts, backward shifts nor growth leave a gap between a key's ideal
\* slot and its entry.
THEOREM PathsStayUnbroken == Spec => []PathsUnbroken
  BY Invariance, PTL DEF Inv

\* A table rehashes on an insert within what it was sized for in one case only, the last
\* entry of a table made for exactly three quarters of its slots.
THEOREM SizedUpFront == Spec => RehashesAtBoundaryOnly
<1>. DEFINE AtBoundary == size + 1 = Expected /\ MinCapacity * 3 = Expected * 4
<1>1. Inv /\ [Next]_vars => [size < Expected /\ cap' # cap => AtBoundary]_vars
  <2> SUFFICES ASSUME Inv, Next, size < Expected, cap' # cap PROVE AtBoundary
    BY DEF vars
  <2>1. PICK k \in Key, v \in Value : Grow(k, v)
    BY DEF Next, Call, Step, StartInsert, StartFind, StartErase, Start, ProbeOn, Overwrite, InsertNew,
           FillSlot, Reinsert, FindHit, FindMiss, EraseMiss, EraseHit, PassOver, PullBack, ClearHole,
           SkipSlot, TakeSlot, MoveDone
  <2>2. (size + 1) * 4 >= cap * 3
    BY <2>1 DEF Grow, NeedsGrowth
  <2>3. /\ size \in Nat /\ cap \in Nat /\ cap >= MinCapacity
        /\ Expected \in Nat /\ MinCapacity \in Nat /\ MinCapacity * 3 >= Expected * 4
    BY SizeAssumption DEF Inv, TypeOK
  <2>. QED  BY <2>2, <2>3
<1>. QED  BY <1>1, Invariance, PTL DEF Spec, RehashesAtBoundaryOnly

-----------------------------------------------------------------------------
(* The index implements the map.                                           *)

\* insert of a new key adds its entry.
LEMMA InsertNewInserts == ASSUME Inv, InsertNew PROVE \E k \in Key, v \in Value : Map!Insert(k, v)
<1>1. /\ AtEmpty /\ FillSlot /\ op = "insert" /\ pc' = "idle" /\ op' = "none" /\ pc = "probe"
      /\ slots' = [slots EXCEPT ![pos] = ent] /\ slots \in [Index -> Slot] /\ cap' = cap /\ ret' = ret
      /\ ent \in Slot /\ ent.key \in Key /\ ent.value \in Value
  BY DEF InsertNew, Return, FillSlot, AtEmpty, Inv, TypeOK, CallsInv
<1>2. Live' = Live \cup {pos} /\ pos \notin Live /\ Live \subseteq Index /\ pos \in Index
  BY <1>1, FillKeeps DEF Live, Occupied, Inv, TypeOK
<1>3. Rest = {} /\ Rest' = {}
  BY <1>1 DEF Rest, Growing
<1>4. slots'[pos] = ent /\ \A i \in Live : slots'[i] = slots[i]
  BY <1>1, <1>2
<1>5. Entries = {slots[i] : i \in Live} /\ Entries' = {slots'[i] : i \in Live'}
  BY <1>3 DEF Entries
<1>6. Entries' = Entries \cup {ent}
  BY <1>2, <1>4, <1>5
<1>7. Map!Of(ent.key) = {}
  BY <1>1, <1>5, AbsentAtEmpty DEF Map!Of
<1>8. ent = [key |-> ent.key, value |-> ent.value]
  BY <1>1 DEF Slot
<1>9. Map!Insert(ent.key, ent.value)
  BY <1>1, <1>6, <1>7, <1>8 DEF Map!Insert
<1>. QED  BY <1>1, <1>9

\* insert of a key that is there replaces its entry.
LEMMA OverwriteInserts == ASSUME Inv, Overwrite PROVE \E k \in Key, v \in Value : Map!Insert(k, v)
<1>1. /\ pc = "probe" /\ op = "insert" /\ slots[pos].key = ent.key /\ pc' = "idle" /\ op' = "none"
      /\ slots' = [slots EXCEPT ![pos].value = ent.value] /\ slots \in [Index -> Slot]
      /\ cap' = cap /\ ret' = ret /\ pos \in Index
      /\ ent \in Slot /\ ent.key \in Key /\ ent.value \in Value
  BY DEF Overwrite, AtKey, Return, Inv, TypeOK, CallsInv
<1>2. slots'[pos] = ent /\ \A i \in Index \ {pos} : slots'[i] = slots[i]
  BY <1>1 DEF Slot
<1>3. Live' = Live /\ pos \in Live /\ Live \subseteq Index /\ Rest = {} /\ Rest' = {}
  <2>1. \A i \in Index : slots'[i].key = slots[i].key
    BY <1>1, <1>2
  <2>. QED  BY <1>1, <2>1, KeyAssumption DEF Live, Occupied, Index, Rest, Growing
<1>4. Entries = {slots[i] : i \in Live} /\ Entries' = {slots'[i] : i \in Live}
  BY <1>3 DEF Entries
<1>5. \A i \in Live : slots[i].key = ent.key <=> i = pos
  BY <1>1, <1>3 DEF Inv, KeysUnique
<1>6. Entries \ Map!Of(ent.key) = {slots[i] : i \in Live \ {pos}}
  BY <1>4, <1>5 DEF Map!Of
<1>7. Entries' = {slots[i] : i \in Live \ {pos}} \cup {ent}
  BY <1>2, <1>3, <1>4
<1>8. ent = [key |-> ent.key, value |-> ent.value]
  BY <1>1 DEF Slot
<1>9. Map!Insert(ent.key, ent.value)
  BY <1>1, <1>6, <1>7, <1>8 DEF Map!Insert
<1>. QED  BY <1>1, <1>9

\* find returns what the map has for its key.
LEMMA FindFinds == ASSUME Inv, FindHit \/ FindMiss PROVE \E k \in Key : Map!Find(k)
<1>1. /\ pc = "probe" /\ op = "find" /\ pc' = "idle" /\ op' = "none" /\ UNCHANGED <<slots, cap>>
      /\ ent.key \in Key /\ pos \in Index
  BY DEF FindHit, FindMiss, AtKey, AtEmpty, Return, Inv, TypeOK, CallsInv
<1>2. Live' = Live /\ Rest = {} /\ Rest' = {}
  BY <1>1 DEF Live, Occupied, Index, Rest, Growing
<1>3. Entries = {slots[i] : i \in Live} /\ Entries' = Entries
  BY <1>1, <1>2 DEF Entries
<1>4. CASE FindHit
  <2>1. slots[pos].key = ent.key /\ ret' = slots[pos].value
    BY <1>4 DEF FindHit, AtKey
  <2>2. pos \in Live
    BY <1>1, <2>1, KeyAssumption DEF Live, Occupied
  <2>3. slots[pos] \in Map!Of(ent.key)
    BY <1>3, <2>1, <2>2 DEF Map!Of
  <2>. QED  BY <1>1, <1>3, <2>1, <2>3 DEF Map!Find
<1>5. CASE FindMiss
  <2>1. ret' = Null /\ AtEmpty
    BY <1>5 DEF FindMiss
  <2>2. Map!Of(ent.key) = {}
    BY <1>3, <2>1, AbsentAtEmpty DEF Map!Of
  <2>. QED  BY <1>1, <1>3, <2>1, <2>2 DEF Map!Find
<1>. QED  BY <1>4, <1>5

\* erase takes the entry of its key away, and says whether there was one.
LEMMA EraseErases == ASSUME Inv, EraseHit \/ EraseMiss PROVE \E k \in Key : Map!Erase(k)
<1>1. /\ pc = "probe" /\ op = "erase" /\ UNCHANGED <<slots, cap>> /\ ent.key \in Key /\ pos \in Index
      /\ op' # "reinsert" /\ pc' # "move"
  BY DEF EraseHit, EraseMiss, AtKey, AtEmpty, Return, Inv, TypeOK, CallsInv
<1>2. Rest = {} /\ Rest' = {} /\ Live = Occupied
  BY <1>1 DEF Live, Rest, Growing
<1>3. Entries = {slots[i] : i \in Live} /\ Entries' = {slots[i] : i \in Live'}
  BY <1>1, <1>2 DEF Entries
<1>4. CASE EraseHit
  <2>1. slots[pos].key = ent.key /\ ret' = TRUE /\ pc' = "shift" /\ hole' = pos
    BY <1>4 DEF EraseHit, AtKey
  <2>2. pos \in Live /\ Live' = Live \ {pos}
    BY <1>1, <1>2, <2>1, KeyAssumption DEF Live, Occupied, Index
  <2>3. \A i \in Live : slots[i].key = ent.key <=> i = pos
    BY <2>1, <2>2 DEF Inv, KeysUnique
  <2>4. Entries' = Entries \ Map!Of(ent.key)
    BY <1>3, <2>2, <2>3 DEF Map!Of
  <2>5. slots[pos] \in Map!Of(ent.key)
    BY <1>3, <2>1, <2>2 DEF Map!Of
  <2>6. ret' = (Map!Of(ent.key) # {})
    BY <2>1, <2>5
  <2>. QED  BY <1>1, <2>4, <2>6 DEF Map!Erase
<1>5. CASE EraseMiss
  <2>1. ret' = FALSE /\ AtEmpty /\ pc' = "idle"
    BY <1>5 DEF EraseMiss, Return
  <2>2. Live' = Live
    BY <1>1, <2>1 DEF Live, Occupied, Index
  <2>3. Map!Of(ent.key) = {}
    BY <1>3, <2>1, AbsentAtEmpty DEF Map!Of
  <2>4. Entries' = Entries \ Map!Of(ent.key)
    BY <1>3, <2>2, <2>3
  <2>5. ret' = (Map!Of(ent.key) # {})
    BY <2>1, <2>3
  <2>. QED  BY <1>1, <2>4, <2>5 DEF Map!Erase
<1>. QED  BY <1>4, <1>5

\* A backward shift moves entries and loses none.
LEMMA ShiftStutters == ASSUME Inv, PullBack \/ ClearHole PROVE UNCHANGED <<Entries, ret>>
<1>1. /\ pc = "shift" /\ op = "erase" /\ op' # "reinsert" /\ pc' # "move" /\ cap' = cap /\ ret' = ret
      /\ slots \in [Index -> Slot] /\ pos \in Index /\ hole \in Index /\ cap \in Nat /\ cap >= 1
  BY LeastCapacity DEF PullBack, ClearHole, Return, Inv, TypeOK, CallsInv
<1>2. Rest = {} /\ Rest' = {}
  BY <1>1 DEF Rest, Growing
<1>3. Entries = {slots[i] : i \in Live} /\ Entries' = {slots'[i] : i \in Live'}
  BY <1>2 DEF Entries
<1>4. Live = Occupied \ {hole} /\ Live \subseteq Index
  BY <1>1 DEF Live, Occupied
<1>5. CASE PullBack
  <2> DEFINE n == Succ(pos)
  <2>1. /\ slots' = [slots EXCEPT ![hole] = slots[n]] /\ pc' = "shift" /\ hole' = n /\ slots[n].key # Empty
    BY <1>1, <1>5 DEF PullBack
  <2>2. n \in Index /\ n # hole /\ n \in Live
    BY <1>1, <1>4, <2>1, SlotRange, ShiftEnds DEF Occupied
  <2>3. slots'[hole] = slots[n] /\ \A i \in Live : slots'[i] = slots[i]
    BY <1>1, <1>4, <2>1
  <2>4. Live' = (Live \ {n}) \cup {hole}
    BY <1>1, <1>4, <2>1, <2>2 DEF Live, Occupied, Index
  <2>. QED  BY <1>1, <1>3, <2>2, <2>3, <2>4
<1>6. CASE ClearHole
  <2>1. slots' = [slots EXCEPT ![hole] = EmptySlot] /\ pc' = "idle"
    BY <1>6 DEF ClearHole, Return
  <2>2. Live' = Live
    BY <1>1, <1>4, <2>1 DEF Live, Occupied, Index, EmptySlot
  <2>3. \A i \in Live : slots'[i] = slots[i]
    BY <1>1, <1>4, <2>1
  <2>. QED  BY <1>1, <1>3, <2>2, <2>3
<1>. QED  BY <1>5, <1>6

\* Growth moves entries and loses none.
LEMMA GrowStutters ==
    ASSUME Inv,
           \/ \E k \in Key, v \in Value : Grow(k, v)
           \/ SkipSlot \/ TakeSlot \/ Reinsert \/ MoveDone
    PROVE  UNCHANGED <<Entries, ret>>
<1>1. ASSUME NEW k \in Key, NEW v \in Value, Grow(k, v) PROVE UNCHANGED <<Entries, ret>>
  <2>1. /\ pc = "idle" /\ op = "none" /\ pc' = "move" /\ old' = slots /\ moved' = 0 /\ ret' = ret
        /\ cap' = 2 * cap /\ slots' = EmptyTable(2 * cap) /\ cap \in Nat
    BY <1>1 DEF Grow, Inv, CallsInv, TypeOK
  <2>2. Live' = {}
    BY <2>1 DEF Live, Occupied, Index, EmptyTable, EmptySlot
  <2>3. OldSlots' = cap
    BY <2>1 DEF OldSlots
  <2>4. Rest' = Live /\ Rest = {}
    BY <2>1, <2>3 DEF Rest, Growing, Live, Occupied, Index
  <2>. QED  BY <2>1, <2>2, <2>4 DEF Entries
<1>2. CASE SkipSlot \/ TakeSlot
  <2>1. /\ pc = "move" /\ UNCHANGED <<slots, cap, old, ret>> /\ moved \in Nat /\ OldSlots \in Nat
        /\ moved < OldSlots
    BY <1>2 DEF SkipSlot, TakeSlot, Inv, TypeOK, GrowInv, Growing
  <2>2. Live' = Live
    BY <1>2, <2>1 DEF Live, Occupied, Index, SkipSlot, TakeSlot
  <2>3. Rest' = Rest
    BY <1>2, <2>1 DEF SkipSlot, TakeSlot, Rest, Growing, OldSlots
  <2>. QED  BY <2>1, <2>2, <2>3 DEF Entries
<1>3. CASE Reinsert
  <2>1. /\ AtEmpty /\ FillSlot /\ op = "reinsert" /\ pc' = "move" /\ moved' = moved + 1 /\ pc = "probe"
        /\ slots' = [slots EXCEPT ![pos] = ent] /\ slots \in [Index -> Slot] /\ cap' = cap /\ ret' = ret
        /\ old' = old /\ op' = op
    BY <1>3 DEF Reinsert, FillSlot, AtEmpty, Inv, TypeOK
  <2>2. Live' = Live \cup {pos} /\ pos \notin Live /\ Live \subseteq Index /\ pos \in Index
    BY <2>1, FillKeeps DEF Live, Occupied, Inv, TypeOK
  <2>3. moved \in Nat /\ OldSlots \in Nat /\ moved < OldSlots /\ ent = old[moved] /\ ent.key # Empty
    BY <2>1 DEF Inv, TypeOK, GrowInv, Growing
  <2>4. Rest' = Rest \ {moved} /\ moved \in Rest
    BY <2>1, <2>3 DEF Rest, Growing, OldSlots
  <2>5. slots'[pos] = old[moved] /\ \A i \in Live : slots'[i] = slots[i]
    BY <2>1, <2>2, <2>3
  <2>. QED  BY <2>1, <2>2, <2>4, <2>5 DEF Entries
<1>4. CASE MoveDone
  <2>1. /\ pc = "move" /\ moved = OldSlots /\ pc' = "probe" /\ op' = "insert"
        /\ UNCHANGED <<slots, cap, ret>> /\ OldSlots \in Nat
    BY <1>4 DEF MoveDone, Inv, GrowInv, Growing
  <2>2. Live' = Live /\ Rest = {} /\ Rest' = {}
    BY <2>1 DEF Live, Occupied, Index, Rest, Growing
  <2>. QED  BY <2>1, <2>2 DEF Entries
<1>. QED  BY <1>1, <1>2, <1>3, <1>4

\* The other steps write nothing that counts.
LEMMA ProbeStutters ==
    ASSUME Inv,
           \/ \E k \in Key, v \in Value : StartInsert(k, v)
           \/ \E k \in Key : StartFind(k) \/ StartErase(k)
           \/ ProbeOn \/ PassOver
    PROVE  UNCHANGED <<Entries, ret>>
<1>1. UNCHANGED <<slots, cap, hole, old, moved, ret>>
  BY DEF StartInsert, StartFind, StartErase, Start, ProbeOn, PassOver
<1>2. /\ pc = "shift" <=> pc' = "shift"
      /\ Growing' <=> Growing
  BY DEF StartInsert, StartFind, StartErase, Start, ProbeOn, PassOver, Growing, Inv, CallsInv
<1>. QED  BY <1>1, <1>2 DEF Entries, Live, Occupied, Index, Rest, OldSlots

\* For every hash function, key set and capacity the index is a map: collisions,
\* backward shifts and growth do not show.
THEOREM Implementation == Spec => ImplementsPartialMap
<1>1. Init => Map!Init
  <2> SUFFICES ASSUME Init PROVE Map!Init
    OBVIOUS
  <2>1. Live = {} /\ Rest = {}
    BY DEF Init, EmptyTable, EmptySlot, Index, Live, Occupied, Rest, Growing
  <2>. QED  BY <2>1 DEF Init, Map!Init, Entries
<1>2. Inv /\ [Next]_vars => [Map!Next]_(Map!vars)
  <2> SUFFICES ASSUME Inv, [Next]_vars PROVE Map!Next \/ UNCHANGED <<Entries, ret>>
    BY DEF Map!vars
  <2>1. CASE UNCHANGED vars
    BY <2>1 DEF vars, locals, Entries, Live, Occupied, Index, Rest, Growing, OldSlots
  <2>2. CASE Call
    BY <2>2, GrowStutters, ProbeStutters DEF Call
  <2>3. CASE Step
    BY <2>3, InsertNewInserts, OverwriteInserts, FindFinds, EraseErases, ShiftStutters, GrowStutters,
       ProbeStutters DEF Step, Map!Next
  <2>. QED  BY <2>1, <2>2, <2>3 DEF Next
<1>. QED  BY <1>1, <1>2, Invariance, PTL DEF Spec, ImplementsPartialMap, Map!Spec
=============================================================================
