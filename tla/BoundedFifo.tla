---------------------------- MODULE BoundedFifo -----------------------------
(***************************************************************************)
(* What a ring promises its two threads: a queue of at most Room items,    *)
(* where each push that succeeds appends one item and each pop that        *)
(* succeeds takes the oldest.                                              *)
(***************************************************************************)
EXTENDS Naturals, Sequences

CONSTANTS Item, Room,
          Nothing    \* got before the first pop

VARIABLES
    items,     \* the queue, oldest first
    got        \* what the last successful pop returned

vars == <<items, got>>

Init == items = <<>> /\ got = Nothing

Push(v) ==
    /\ Len(items) < Room
    /\ items' = Append(items, v)
    /\ UNCHANGED got

Pop ==
    /\ items # <<>>
    /\ got' = Head(items)
    /\ items' = Tail(items)

Next == (\E v \in Item : Push(v)) \/ Pop

Spec == Init /\ [][Next]_vars
=============================================================================
