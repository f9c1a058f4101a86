----------------------------- MODULE FlatPtrMap -----------------------------
(***************************************************************************)
(* FlatPtrMap (include/lob/flat_hash_map.hpp): open addressing with linear *)
(* probing, deletion by backward shift, and growth by re-insertion into a  *)
(* table of twice the size.  One step is one iteration of one of its four  *)
(* loops.                                                                  *)
(***************************************************************************)
EXTENDS Integers, FiniteSets

CONSTANTS
    Key,          \* the keys of the calls
    Empty,        \* key 0, the empty slot marker
    Value,
    Null,         \* V{}
    Hash,         \* hash: only its remainders are used
    Smallest,     \* the smallest table: 16 in the code
    Expected,     \* the constructor's argument, the engine's max_orders
    MinCapacity   \* the size the constructor chooses

ASSUME KeyAssumption == Empty \notin Key /\ Hash \in [Key -> Nat]
ASSUME ValueAssumption == Null \notin Value /\ (Value \cup {Null}) \cap BOOLEAN = {}

\* The constructor doubles the smallest table until Expected entries are no more
\* than three quarters of it.
ASSUME SizeAssumption ==
    /\ Smallest \in Nat /\ Smallest >= 4 /\ Expected \in Nat /\ MinCapacity \in Nat
    /\ \E k \in 0..Expected : MinCapacity = Smallest * 2^k
    /\ MinCapacity >= Smallest /\ MinCapacity * 3 >= Expected * 4
    /\ MinCapacity > Smallest => MinCapacity * 3 < Expected * 8

VARIABLES
    slots, cap, size,   \* slots_, mask_ + 1, size_
    pc,                 \* the loop that runs, or idle
    op,                 \* the call under way; reinsert is insert called by grow
    arg,                \* the entry insert was called with
    ent,                \* the entry that is looked for
    pos, hole,          \* i and hole of the loops
    old, moved,         \* the table grow takes apart, and its first slot left
    ret                 \* what the last find or erase returned

locals == <<op, arg, ent, pos, hole, old, moved>>
vars == <<slots, cap, size, pc, locals, ret>>

EmptySlot == [key |-> Empty, value |-> Null]
Slot == [key : Key \cup {Empty}, value : Value \cup {Null}]
EmptyTable(n) == [i \in 0..(n - 1) |-> EmptySlot]

Index == 0..(cap - 1)

\* hash(key) & mask_
Ideal(k) == Hash[k] % cap

\* (i + 1) & mask_
Succ(i) == IF i + 1 = cap THEN 0 ELSE i + 1

\* probe_dist
Distance(i, j) == IF i <= j THEN j - i ELSE j - i + cap

\* Mutant: the table may fill up.
NeedsGrowthWhenFull == size >= cap
\* Mutant: the new entry is counted twice.
NeedsGrowthForTwo == (size + 2) * 4 >= cap * 3
NeedsGrowth == (size + 1) * 4 >= cap * 3

Init ==
    /\ cap = MinCapacity /\ slots = EmptyTable(MinCapacity) /\ size = 0
    /\ pc = "idle" /\ op = "none" /\ arg = EmptySlot /\ ent = EmptySlot
    /\ pos = 0 /\ hole = 0 /\ old = <<>> /\ moved = 0
    /\ ret = Null

\* The call returns: its locals are gone.
Return ==
    /\ pc' = "idle" /\ op' = "none" /\ arg' = EmptySlot /\ ent' = EmptySlot
    /\ pos' = 0 /\ hole' = 0 /\ old' = <<>> /\ moved' = 0

-----------------------------------------------------------------------------
(* The calls, up to their first probe.                                     *)

Start(o, e) ==
    /\ pc = "idle" /\ pc' = "probe"
    /\ op' = o /\ arg' = e /\ ent' = e /\ pos' = Ideal(e.key)
    /\ UNCHANGED <<slots, cap, size, hole, old, moved, ret>>

StartInsert(k, v) == ~NeedsGrowth /\ Start("insert", [key |-> k, value |-> v])
StartFind(k) == Start("find", [key |-> k, value |-> Null])
StartErase(k) == Start("erase", [key |-> k, value |-> Null])

\* insert calls grow first: an empty table of twice the size, and size_ from 0.
Grow(k, v) ==
    /\ pc = "idle" /\ NeedsGrowth
    /\ pc' = "move" /\ op' = "insert"
    /\ arg' = [key |-> k, value |-> v]
    /\ old' = slots /\ moved' = 0
    /\ cap' = 2 * cap /\ slots' = EmptyTable(2 * cap) /\ size' = 0
    /\ UNCHANGED <<ent, pos, hole, ret>>

-----------------------------------------------------------------------------
(* The probe loop of insert, find and erase.                               *)

ProbeOn ==
    /\ pc = "probe" /\ slots[pos].key \notin {Empty, ent.key}
    /\ pos' = Succ(pos)
    /\ UNCHANGED <<slots, cap, size, pc, op, arg, ent, hole, old, moved, ret>>

AtKey == pc = "probe" /\ slots[pos].key = ent.key
AtEmpty == pc = "probe" /\ slots[pos].key = Empty

\* insert of a key that is there.
\* Mutant: the entry counts as new.
OverwriteCounted ==
    /\ AtKey /\ op = "insert"
    /\ slots' = [slots EXCEPT ![pos].value = ent.value]
    /\ size' = size + 1
    /\ Return
    /\ UNCHANGED <<cap, ret>>
Overwrite ==
    /\ AtKey /\ op = "insert"
    /\ slots' = [slots EXCEPT ![pos].value = ent.value]
    /\ Return
    /\ UNCHANGED <<cap, size, ret>>

FillSlot ==
    /\ slots' = [slots EXCEPT ![pos] = ent]
    /\ size' = size + 1
    /\ UNCHANGED <<cap, ret>>

\* insert of a key that is not.
InsertNew == AtEmpty /\ op = "insert" /\ FillSlot /\ Return

\* The same, called by grow, whose loop goes on.
Reinsert ==
    /\ AtEmpty /\ op = "reinsert" /\ FillSlot
    /\ pc' = "move" /\ moved' = moved + 1
    /\ UNCHANGED <<op, arg, ent, pos, hole, old>>

FindHit == AtKey /\ op = "find" /\ ret' = slots[pos].value /\ Return /\ UNCHANGED <<slots, cap, size>>
FindMiss == AtEmpty /\ op = "find" /\ ret' = Null /\ Return /\ UNCHANGED <<slots, cap, size>>
EraseMiss == AtEmpty /\ op = "erase" /\ ret' = FALSE /\ Return /\ UNCHANGED <<slots, cap, size>>

\* Found: what erase will return is settled.
EraseHit ==
    /\ AtKey /\ op = "erase"
    /\ pc' = "shift" /\ hole' = pos /\ ret' = TRUE
    /\ UNCHANGED <<slots, cap, size, op, arg, ent, pos, old, moved>>

-----------------------------------------------------------------------------
(* remove_at.                                                              *)

\* The entry at i is farther from its ideal slot than the hole is.
\* Mutants: no entry is, and every entry is.
NeverDisplaced(i) == i # i
AlwaysDisplaced(i) == i = i
Displaced(i) == Distance(Ideal(slots[i].key), hole) < Distance(Ideal(slots[i].key), i)

PassOver ==
    /\ pc = "shift" /\ slots[Succ(pos)].key # Empty /\ ~Displaced(Succ(pos))
    /\ pos' = Succ(pos)
    /\ UNCHANGED <<slots, cap, size, pc, op, arg, ent, hole, old, moved, ret>>

PullBack ==
    /\ pc = "shift" /\ slots[Succ(pos)].key # Empty /\ Displaced(Succ(pos))
    /\ slots' = [slots EXCEPT ![hole] = slots[Succ(pos)]]
    /\ pos' = Succ(pos) /\ hole' = Succ(pos)
    /\ UNCHANGED <<cap, size, pc, op, arg, ent, old, moved, ret>>

\* The end of remove_at, and of erase.
ClearHole ==
    /\ pc = "shift" /\ slots[Succ(pos)].key = Empty
    /\ slots' = [slots EXCEPT ![hole] = EmptySlot]
    /\ size' = size - 1
    /\ Return
    /\ UNCHANGED <<cap, ret>>

-----------------------------------------------------------------------------
(* The loop of grow.                                                       *)

OldSlots == cap \div 2

SkipSlot ==
    /\ pc = "move" /\ moved < OldSlots /\ old[moved].key = Empty
    /\ moved' = moved + 1
    /\ UNCHANGED <<slots, cap, size, pc, op, arg, ent, pos, hole, old, ret>>

TakeSlot ==
    /\ pc = "move" /\ moved < OldSlots /\ old[moved].key # Empty
    /\ pc' = "probe" /\ op' = "reinsert"
    /\ ent' = old[moved] /\ pos' = Ideal(old[moved].key)
    /\ UNCHANGED <<slots, cap, size, arg, hole, old, moved, ret>>

\* Back in the insert that grew the table.
MoveDone ==
    /\ pc = "move" /\ moved = OldSlots
    /\ pc' = "probe" /\ op' = "insert"
    /\ ent' = arg /\ pos' = Ideal(arg.key)
    /\ old' = <<>> /\ moved' = 0
    /\ UNCHANGED <<slots, cap, size, arg, hole, ret>>

-----------------------------------------------------------------------------
Call ==
    \/ \E k \in Key, v \in Value : StartInsert(k, v) \/ Grow(k, v)
    \/ \E k \in Key : StartFind(k) \/ StartErase(k)

Step ==
    \/ ProbeOn \/ Overwrite \/ InsertNew \/ Reinsert
    \/ FindHit \/ FindMiss \/ EraseMiss \/ EraseHit
    \/ PassOver \/ PullBack \/ ClearHole
    \/ SkipSlot \/ TakeSlot \/ MoveDone

Next == Call \/ Step

Spec == Init /\ [][Next]_vars

\* Every loop runs in the engine thread, which goes on with it.
FairSpec == Spec /\ WF_vars(Step)

-----------------------------------------------------------------------------
(* Properties.                                                             *)

\* Slots hold entries, positions are inside the table.
TypeOK ==
    /\ cap \in Nat /\ cap >= MinCapacity
    /\ slots \in [Index -> Slot] /\ size \in Nat
    /\ pc \in {"idle", "probe", "shift", "move"}
    /\ op \in {"none", "insert", "reinsert", "find", "erase"}
    /\ arg \in Slot /\ ent \in Slot
    /\ pos \in Index /\ hole \in Index
    /\ moved \in Nat
    /\ ret \in Value \cup {Null} \cup BOOLEAN

Occupied == {i \in Index : slots[i].key # Empty}

\* The slots that count: all but the hole while remove_at moves it.
Live == Occupied \ (IF pc = "shift" THEN {hole} ELSE {})

\* size_ counts the entries, and leaves a quarter of the table empty: growth
\* before an insert and the count of an overwrite agree with what is in the slots.
SizeCounts == size = Cardinality(Occupied) /\ size * 4 < cap * 3

\* No probe stops short of its key: between the slot a key hashes to and the slot
\* it is in none is empty.  Deletion must leave it so for every chain through it.
PathsUnbroken ==
    \A i \in Live, j \in Index :
        Distance(Ideal(slots[i].key), j) < Distance(Ideal(slots[i].key), i) => j \in Occupied

\* The slots of the old table grow has yet to move.
Growing == pc = "move" \/ op = "reinsert"
Rest == IF Growing THEN {j \in moved..(OldSlots - 1) : old[j].key # Empty} ELSE {}

Entries == {slots[i] : i \in Live} \cup {old[j] : j \in Rest}

Map == INSTANCE PartialMap WITH entries <- Entries

\* Collisions, backward shifts and growth do not show: the index is a map, and
\* each call takes effect in one step.
ImplementsPartialMap == Map!Spec

\* "Sized once up front so the order-index lookups in the hot path never rehash"
\* (flat_hash_map.hpp), with the exception the code makes: the constructor takes a table
\* of which Expected is exactly three quarters, and insert grows at exactly three
\* quarters, so that there the last expected entry rehashes.  No other insert within
\* what the constructor was told does.
RehashesAtBoundaryOnly ==
    [][size < Expected /\ cap' # cap
          => size + 1 = Expected /\ MinCapacity * 3 = Expected * 4]_vars

\* Every call returns: a probe meets its key or an empty slot, remove_at an empty
\* slot, grow the end of the old table.
CallReturns == pc # "idle" ~> pc = "idle"
=============================================================================
