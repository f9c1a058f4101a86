----------------------------- MODULE PriceLevel -----------------------------
(* One price point: the intrusive FIFO list of include/lob/price_level.hpp. *)
(* A level is a record; the prev and next pointers live in the orders, so   *)
(* push_back and unlink each change a level and the orders' links.          *)
EXTENDS LobTypes, SequencesExt

CONSTANTS
    Slot,      \* the addresses orders can have
    Null       \* nullptr

ASSUME SlotAssumption == Null \notin Slot

EmptyLevel == [price |-> NoPrice, total |-> 0, count |-> 0, head |-> Null, tail |-> Null]
IsEmpty(l) == l.head = Null
Unlinked == [prev |-> Null, next |-> Null]

\* push_back: the level and the links after o, of size q, is appended.
Pushed(l, o, q) ==
    [l EXCEPT !.head = IF l.tail = Null THEN o ELSE @,
              !.tail = o, !.total = @ + q, !.count = @ + 1]
PushLinks(links, l, o) ==
    [n \in Slot |->
        CASE n = o      -> [prev |-> l.tail, next |-> Null]
          [] n = l.tail -> [links[n] EXCEPT !.next = o]
          [] OTHER      -> links[n]]

\* unlink: from anywhere in the list.
\* Mutant: removing the newest order leaves it the level's tail.
UnlinkedTailKept(l, links, o, q) ==
    [l EXCEPT !.head = IF links[o].prev = Null THEN links[o].next ELSE @,
              !.total = @ - q, !.count = @ - 1]
UnlinkedFrom(l, links, o, q) ==
    [l EXCEPT !.head = IF links[o].prev = Null THEN links[o].next ELSE @,
              !.tail = IF links[o].next = Null THEN links[o].prev ELSE @,
              !.total = @ - q, !.count = @ - 1]
UnlinkLinks(links, o) ==
    [n \in Slot |->
        IF n = o THEN Unlinked
        ELSE [prev |-> IF n = links[o].next THEN links[o].prev ELSE links[n].prev,
              next |-> IF n = links[o].prev THEN links[o].next ELSE links[n].next]]

\* The orders of a level in the order match meets them: head, then next.
Chain(l, links) ==
    LET at[k \in 1..l.count] ==
            IF k = 1 THEN l.head
            ELSE IF at[k - 1] = Null THEN Null ELSE links[at[k - 1]].next
    IN [k \in 1..l.count |-> at[k]]

-----------------------------------------------------------------------------
(* The order of the levels, and the two walks every book makes over them.  *)

\* The prices of S in the order of a bid map (greater) or an ask map (less).
BestFirst(s, S) ==
    [k \in 1..Cardinality(S) |->
        CHOOSE p \in S : Cardinality({q \in S : Better(s, q, p)}) = k - 1]

\* marketable_qty: up to the first level the limit does not cross.
MarketableOf(levels, side, limit) ==
    LET taken == {k \in DOMAIN levels :
                    \A j \in 1..k : Crosses(side, limit, levels[j].price)}
    IN MapThenSumSet(LAMBDA k : levels[k].total, taken)

\* snapshot: the first n of them.
DepthOf(levels, n) ==
    [k \in 1..(IF n < Len(levels) THEN n ELSE Len(levels)) |->
        [price |-> levels[k].price, qty |-> levels[k].total, orders |-> levels[k].count]]
=============================================================================
