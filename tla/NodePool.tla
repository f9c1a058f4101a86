------------------------------ MODULE NodePool ------------------------------
(* NodePoolAllocator (include/lob/node_pool_allocator.hpp): nodes of one    *)
(* size, handed out from a free list that grows a block at a time.  A free  *)
(* node's first word is the link to the next one.                           *)
EXTENDS Integers

CONSTANTS PerBlock,    \* kPerBlock
          MaxBlocks    \* bound of the model on the blocks ever taken

Address == 0..PerBlock * MaxBlocks - 1
NoNode == -1

EmptyPool == [free |-> NoNode, next |-> [a \in Address |-> NoNode], blocks |-> 0]

\* grow threads the block from its last node to its first.
Grown(pool) ==
    LET base == pool.blocks * PerBlock
        last == base + PerBlock - 1
    IN [free |-> base, blocks |-> pool.blocks + 1,
        next |-> [a \in Address |-> IF a \in base..last - 1 THEN a + 1
                                    ELSE IF a = last THEN pool.free ELSE pool.next[a]]]

\* allocate(1): the pool with the node at its head, which is the one given.
Ready(pool) == IF pool.free = NoNode THEN Grown(pool) ELSE pool
Allocated(pool) == [Ready(pool) EXCEPT !.free = Ready(pool).next[@]]

\* Mutant: a node that is given back forgets the rest of the list.
DeallocatedAlone(pool, a) == [pool EXCEPT !.next[a] = NoNode, !.free = a]
Deallocated(pool, a) == [pool EXCEPT !.next[a] = pool.free, !.free = a]

\* The nodes on the free list.
FreeNodes(pool) ==
    LET at[k \in 0..PerBlock * MaxBlocks] ==
            IF k = 0 THEN pool.free
            ELSE IF at[k - 1] = NoNode THEN NoNode ELSE pool.next[at[k - 1]]
    IN {at[k] : k \in DOMAIN at} \ {NoNode}
=============================================================================
