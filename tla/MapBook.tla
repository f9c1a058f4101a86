------------------------------ MODULE MapBook -------------------------------
(***************************************************************************)
(* PooledMapOrderBook (include/lob/map_order_book.hpp): an ordered map     *)
(* from price to level per side, its nodes from a NodePoolAllocator.       *)
(***************************************************************************)
EXTENDS PriceLevel, NodePool

VARIABLES
    tree,      \* tree[side]: the node of each price in the map
    cell,      \* cell[side][a]: the level in node a
    pool,      \* pool[side]: the map's allocator
    links,     \* the prev and next pointers of the orders
    count      \* count_

vars == <<tree, cell, pool, links, count>>

Init ==
    /\ tree = [s \in Side |-> <<>>]
    /\ cell = [s \in Side |-> [a \in Address |-> EmptyLevel]]
    /\ pool = [s \in Side |-> EmptyPool]
    /\ links = [o \in Slot |-> Unlinked]
    /\ count = [s \in Side |-> 0]

\* operator[] makes a node, with a default level, for a price the map lacks.
AddOrder(o, r) ==
    LET s == r.side
        known == r.price \in DOMAIN tree[s]
        a == IF known THEN tree[s][r.price] ELSE Ready(pool[s]).free
        l == IF known THEN cell[s][a] ELSE EmptyLevel
        priced == [l EXCEPT !.price = IF IsEmpty(l) THEN r.price ELSE @]
    IN
    /\ tree' = [tree EXCEPT ![s] = [p \in DOMAIN @ \cup {r.price} |->
                                        IF p = r.price THEN a ELSE @[p]]]
    /\ pool' = IF known THEN pool ELSE [pool EXCEPT ![s] = Allocated(@)]
    /\ cell' = [cell EXCEPT ![s][a] = Pushed(priced, o, r.remaining)]
    /\ links' = PushLinks(links, l, o)
    /\ count' = [count EXCEPT ![s] = @ + 1]

RemoveOrder(o, r) ==
    LET s == r.side
        a == tree[s][r.price]
        l == UnlinkedFrom(cell[s][a], links, o, r.remaining)
    IN
    /\ links' = UnlinkLinks(links, o)
    /\ count' = [count EXCEPT ![s] = @ - 1]
    /\ \/ /\ IsEmpty(l)
          /\ tree' = [tree EXCEPT ![s] = [p \in DOMAIN @ \ {r.price} |-> @[p]]]
          /\ pool' = [pool EXCEPT ![s] = Deallocated(@, a)]
          /\ cell' = [cell EXCEPT ![s][a] = EmptyLevel]
       \/ /\ ~IsEmpty(l)
          /\ cell' = [cell EXCEPT ![s][a] = l]
          /\ UNCHANGED <<tree, pool>>

ReduceInPlace(o, r, traded) ==
    /\ cell' = [cell EXCEPT ![r.side][tree[r.side][r.price]].total = @ - traded]
    /\ UNCHANGED <<tree, pool, links, count>>

\* The map's order is best first: greater<> for bids, less<> for asks.
Levels(s) ==
    LET sorted == BestFirst(s, DOMAIN tree[s])
    IN [k \in DOMAIN sorted |-> cell[s][tree[s][sorted[k]]]]

LevelAt(s, p) == IF p \in DOMAIN tree[s] THEN cell[s][tree[s][p]].price ELSE NoPrice

Queue ==
    [s \in Side |-> [p \in Price |->
        IF p \in DOMAIN tree[s] THEN Chain(cell[s][tree[s][p]], links) ELSE <<>>]]

-----------------------------------------------------------------------------
\* Every node of every block is either on the free list or holds one level of the
\* map, never both and never neither: allocate and deallocate thread the list
\* through memory the map also writes.
NodesAccounted ==
    \A s \in Side :
        LET used == {tree[s][p] : p \in DOMAIN tree[s]} IN
        /\ Cardinality(used) = Cardinality(DOMAIN tree[s])
        /\ used \cap FreeNodes(pool[s]) = {}
        /\ used \cup FreeNodes(pool[s]) = 0..pool[s].blocks * PerBlock - 1
=============================================================================
