---------------------------- MODULE LevelQueues -----------------------------
(***************************************************************************)
(* What every order book promises the engine: a FIFO queue of orders for   *)
(* each side and price, and answers computed from those queues.  This is   *)
(* the book MatchingEngine is written over.                                *)
(***************************************************************************)
EXTENDS PriceLevel

CONSTANT Size      \* the sizes an order may come with

VARIABLES
    queue,     \* queue[side][price]: the orders, oldest first
    open       \* the open size of each order, 0 when it is not in the book

Queued(o) == \E s \in Side, p \in Price : o \in ToSet(queue[s][p])

Init ==
    /\ queue = [s \in Side |-> [p \in Price |-> <<>>]]
    /\ open = [o \in Slot |-> 0]

Rest(o, s, p, q) ==
    /\ open' = [open EXCEPT ![o] = q]
    /\ ~Queued(o)
    /\ queue' = [queue EXCEPT ![s][p] = Append(@, o)]

Withdraw(o) ==
    /\ open' = [open EXCEPT ![o] = 0]
    /\ \E s \in Side, p \in Price : \E k \in DOMAIN queue[s][p] :
          /\ queue[s][p][k] = o
          /\ queue' = [queue EXCEPT ![s][p] = RemoveAt(@, k)]

Reduce(o, q) ==
    /\ q < open[o]
    /\ open' = [open EXCEPT ![o] = @ - q]
    /\ Queued(o)
    /\ UNCHANGED queue

Next ==
    \E o \in Slot :
        \/ \E s \in Side, p \in Price, q \in Size : Rest(o, s, p, q)
        \/ Withdraw(o)
        \/ \E q \in 1..open[o] : Reduce(o, q)

Spec == Init /\ [][Next]_<<queue, open>>

-----------------------------------------------------------------------------
(* What the queries should answer.                                         *)

Occupied(s) == {p \in Price : queue[s][p] # <<>>}
LevelOf(s, p) ==
    LET q == queue[s][p]
        upto[k \in 0..Len(q)] == IF k = 0 THEN 0 ELSE upto[k - 1] + open[q[k]]
    IN [price |-> p, total |-> upto[Len(q)], count |-> Len(q),
        head |-> q[1], tail |-> q[Len(q)]]
Levels(s) ==
    [k \in 1..Cardinality(Occupied(s)) |-> LevelOf(s, BestFirst(s, Occupied(s))[k])]

\* The best price, the number of orders, each price's level (none: NoPrice),
\* what an aggressor at each limit could take, and the snapshot of two levels.
Answers(levels, s, count, at(_)) ==
    [best       |-> IF levels = <<>> THEN NoPrice ELSE levels[1].price,
     count      |-> count,
     at         |-> [p \in Price |-> at(p)],
     marketable |-> [l \in Price \cup {NoPrice} |-> MarketableOf(levels, Opposite(s), l)],
     top        |-> DepthOf(levels, 2)]
Expected(s) ==
    Answers(Levels(s), s,
            Cardinality({o \in Slot : \E p \in Price : o \in ToSet(queue[s][p])}),
            LAMBDA p : IF queue[s][p] = <<>> THEN NoPrice ELSE p)
=============================================================================
