----------------------------- MODULE PartialMap -----------------------------
(***************************************************************************)
(* What the id index promises: a map from some of the keys to a value.     *)
(***************************************************************************)
CONSTANTS Key, Value,
          Null       \* what a lookup of an absent key gives

VARIABLES
    entries,   \* the entries [key, value], one for each key that is present
    ret        \* what the last find or erase returned

vars == <<entries, ret>>

Of(k) == {e \in entries : e.key = k}

Init == entries = {} /\ ret = Null

Insert(k, v) ==
    /\ entries' = (entries \ Of(k)) \cup {[key |-> k, value |-> v]}
    /\ UNCHANGED ret

Find(k) ==
    /\ \/ \E e \in Of(k) : ret' = e.value
       \/ Of(k) = {} /\ ret' = Null
    /\ UNCHANGED entries

Erase(k) ==
    /\ entries' = entries \ Of(k)
    /\ ret' = (Of(k) # {})

Next ==
    \/ \E k \in Key, v \in Value : Insert(k, v)
    \/ \E k \in Key : Find(k) \/ Erase(k)

Spec == Init /\ [][Next]_vars
=============================================================================
