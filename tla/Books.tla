------------------------------- MODULE Books --------------------------------
(***************************************************************************)
(* The three order books and the slot pool, driven as the engine drives    *)
(* its book (src/src/matching_engine.cpp): an order that rests takes a     *)
(* slot and is added; one that is filled, cancelled or modified away is    *)
(* removed and its slot released; a partial fill or a size-down reduces it *)
(* in place.  The books get the same calls, as they do when                *)
(* tests/test_book_equivalence.cpp replays one command stream into each.   *)
(***************************************************************************)
EXTENDS PriceLevel

CONSTANTS
    Storage,       \* the slots in order of address
    Bits,          \* bits of a word of the bitset
    PerBlock,      \* nodes of a block of the map's allocator
    Offers         \* the orders [side, price, remaining] a run offers

ASSUME StorageAssumption ==
    /\ Storage \in Seq(Slot) /\ Slot = ToSet(Storage) /\ IsInjective(Storage)
    /\ Bits \in Nat \ {0, 1} /\ PerBlock \in Nat \ {0}
    /\ Offers \subseteq [side : Side, price : Price, remaining : Nat \ {0}]

VARIABLES
    order,         \* the slots' contents: side, price, remaining
    free, inUse,                                    \* ObjectPool
    level, words, summary, bitLinks, bitCount,      \* OrderBook
    tree, cell, pool, mapLinks, mapCount,           \* PooledMapOrderBook
    nodes, vecLinks, vecCount                       \* SortedVectorOrderBook

Slots == INSTANCE ObjectPool
Bitset == INSTANCE BitsetBook WITH links <- bitLinks, count <- bitCount
Map == INSTANCE MapBook WITH links <- mapLinks, count <- mapCount,
                             MaxBlocks <- MaxPrice - MinPrice + 1
Vector == INSTANCE SortedVectorBook WITH links <- vecLinks, count <- vecCount

vars == <<order, free, inUse, Bitset!vars, Map!vars, Vector!vars>>

Sizes == UNION {1..r.remaining : r \in Offers}
Blank == [side |-> "Buy", price |-> 0, remaining |-> 0]
Resting == {o \in Slot : o \notin ToSet(free)}

Init ==
    /\ order = [o \in Slot |-> Blank]
    /\ Slots!Init /\ Bitset!Init /\ Map!Init /\ Vector!Init

\* handle_new: acquire a slot, copy the incoming order into it, add it.
Rest(o, r) ==
    /\ Slots!Acquire(o)
    /\ order' = [order EXCEPT ![o] = r]
    /\ Bitset!AddOrder(o, r) /\ Map!AddOrder(o, r) /\ Vector!AddOrder(o, r)

\* match, handle_cancel, handle_modify: remove the order, release its slot.
Leave(o) ==
    /\ o \in Resting
    /\ Bitset!RemoveOrder(o, order[o]) /\ Map!RemoveOrder(o, order[o]) /\ Vector!RemoveOrder(o, order[o])
    /\ Slots!Release(o)
    /\ order' = [order EXCEPT ![o] = Blank]

\* match and handle_modify: less than what is left of the order.
Reduce(o, traded) ==
    /\ o \in Resting /\ traded < order[o].remaining
    /\ Bitset!ReduceInPlace(o, order[o], traded)
    /\ Map!ReduceInPlace(o, order[o], traded)
    /\ Vector!ReduceInPlace(o, order[o], traded)
    /\ order' = [order EXCEPT ![o].remaining = @ - traded]
    /\ UNCHANGED <<free, inUse>>

Next ==
    \E o \in Slot :
        \/ \E r \in Offers : Rest(o, r)
        \/ Leave(o)
        \/ \E traded \in Sizes : Reduce(o, traded)

Spec == Init /\ [][Next]_vars

-----------------------------------------------------------------------------
Open == [o \in Slot |-> order[o].remaining]
Queues == INSTANCE LevelQueues WITH queue <- Bitset!Queue, open <- Open, Size <- Sizes

\* The bitset book is a FIFO queue per side and price, whatever the order of the
\* calls: intrusive links, level array and pool keep every order in its place, and
\* no slot is handed out while it is still queued.
ImplementsLevelQueues == Queues!Spec

\* The three books hold the same queues and answer every query alike, as the queues
\* say: best price, order count, level of each price, marketable quantity at every
\* limit (what a fill-or-kill order is sized by) and depth snapshot.  Tree nodes
\* that come and go and vector elements that move keep the levels' lists intact.
SameAnswers ==
    /\ Map!Queue = Bitset!Queue /\ Vector!Queue = Bitset!Queue
    /\ \A s \in Side :
          LET expected == Queues!Expected(s) IN
          /\ expected = Queues!Answers(Bitset!Levels(s), s, bitCount[s],
                                       LAMBDA p : Bitset!LevelAt(s, p))
          /\ expected = Queues!Answers(Map!Levels(s), s, mapCount[s],
                                       LAMBDA p : Map!LevelAt(s, p))
          /\ expected = Queues!Answers(Vector!Levels(s), s, vecCount[s],
                                       LAMBDA p : Vector!LevelAt(s, p))

\* The two bitset levels of OrderBook agree with its lists: see BitsetBook.
BitsAgree == Bitset!BitsAgree

\* The nodes of the map book and its allocator's free list agree (allocate and
\* deallocate of NodePoolAllocator): see MapBook.
NodesAccounted == Map!NodesAccounted
=============================================================================
