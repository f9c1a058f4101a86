----------------------------- MODULE ObjectPool -----------------------------
(* ObjectPool (include/lob/object_pool.hpp): a stack of free slots.        *)
EXTENDS Integers, SequencesExt

CONSTANTS Storage      \* storage_: the slots in order of address

VARIABLES
    free,      \* free_: the next slot to hand out is the last
    inUse      \* in_use_

Init == free = Reverse(Storage) /\ inUse = 0

Acquire(o) ==
    /\ free # <<>> /\ o = Last(free)
    /\ free' = Front(free)
    /\ inUse' = inUse + 1

Release(o) ==
    /\ free' = Append(free, o)
    /\ inUse' = inUse - 1
=============================================================================
