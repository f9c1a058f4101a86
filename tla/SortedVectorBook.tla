-------------------------- MODULE SortedVectorBook --------------------------
(***************************************************************************)
(* SortedVectorOrderBook (include/lob/sorted_vector_order_book.hpp): one   *)
(* vector of levels per side, best price first.                            *)
(***************************************************************************)
EXTENDS PriceLevel

VARIABLES
    nodes,     \* nodes[side]: the levels, bids descending, asks ascending
    links,     \* the prev and next pointers of the orders
    count      \* count_

vars == <<nodes, links, count>>

Init ==
    /\ nodes = [s \in Side |-> <<>>]
    /\ links = [o \in Slot |-> Unlinked]
    /\ count = [s \in Side |-> 0]

\* lower_bound: the first level whose price is not better, or one past the end.
\* Mutant: the comparison lets an equal price through.
SeekPastEqual(s, p) ==
    Min({k \in DOMAIN nodes[s] : Better(s, p, nodes[s][k].price)} \cup {Len(nodes[s]) + 1})
Seek(s, p) ==
    Min({k \in DOMAIN nodes[s] : ~Better(s, nodes[s][k].price, p)} \cup {Len(nodes[s]) + 1})

Found(s, p) == Seek(s, p) \in DOMAIN nodes[s] /\ nodes[s][Seek(s, p)].price = p

AddOrder(o, r) ==
    LET s == r.side
        k == Seek(s, r.price)
        fresh == [EmptyLevel EXCEPT !.price = r.price]
        l == IF Found(s, r.price) THEN nodes[s][k] ELSE fresh
    IN
    /\ nodes' = [nodes EXCEPT ![s] =
                    IF Found(s, r.price) THEN [@ EXCEPT ![k] = Pushed(l, o, r.remaining)]
                    ELSE InsertAt(@, k, Pushed(l, o, r.remaining))]
    /\ links' = PushLinks(links, l, o)
    /\ count' = [count EXCEPT ![s] = @ + 1]

RemoveOrder(o, r) ==
    LET s == r.side
        k == Seek(s, r.price)
        l == UnlinkedFrom(nodes[s][k], links, o, r.remaining)
    IN
    /\ nodes' = [nodes EXCEPT ![s] = IF IsEmpty(l) THEN RemoveAt(@, k) ELSE [@ EXCEPT ![k] = l]]
    /\ links' = UnlinkLinks(links, o)
    /\ count' = [count EXCEPT ![s] = @ - 1]

ReduceInPlace(o, r, traded) ==
    /\ nodes' = [nodes EXCEPT ![r.side][Seek(r.side, r.price)].total = @ - traded]
    /\ UNCHANGED <<links, count>>

Levels(s) == nodes[s]
LevelAt(s, p) == IF Found(s, p) THEN p ELSE NoPrice

Queue ==
    [s \in Side |-> [p \in Price |->
        IF Found(s, p) THEN Chain(nodes[s][Seek(s, p)], links) ELSE <<>>]]
=============================================================================
