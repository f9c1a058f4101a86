----------------------------- MODULE BitsetBook -----------------------------
(***************************************************************************)
(* OrderBook (include/lob/order_book.hpp): a dense array of levels per     *)
(* side under a two-level occupancy bitset.  A word is the set of its one  *)
(* bits; Bits stands for 64.                                               *)
(***************************************************************************)
EXTENDS PriceLevel

CONSTANT Bits      \* of a word

VARIABLES
    level,     \* level[side][i], i = price - MinPrice
    words,     \* words[side][w]: the occupied levels of the w-th group
    summary,   \* summary[side][v]: the words of the v-th group that are not 0
    links,     \* the prev and next pointers of the orders
    count      \* order_count_

vars == <<level, words, summary, links, count>>

Span == MaxPrice - MinPrice + 1
WordCount == (Span + Bits - 1) \div Bits
SummaryCount == (WordCount + Bits - 1) \div Bits
Index(p) == p - MinPrice

Init ==
    /\ level = [s \in Side |-> [i \in 0..Span - 1 |-> EmptyLevel]]
    /\ words = [s \in Side |-> [w \in 0..WordCount - 1 |-> {}]]
    /\ summary = [s \in Side |-> [v \in 0..SummaryCount - 1 |-> {}]]
    /\ links = [o \in Slot |-> Unlinked]
    /\ count = [s \in Side |-> 0]

SetBit(s, i) ==
    LET w == i \div Bits IN
    /\ words' = [words EXCEPT ![s][w] = @ \cup {i % Bits}]
    /\ summary' = [summary EXCEPT ![s][w \div Bits] = @ \cup {w % Bits}]

\* Mutant: the summary bit goes with any level of the word.
ClearBitAlways(s, i) ==
    LET w == i \div Bits IN
    /\ words' = [words EXCEPT ![s][w] = @ \ {i % Bits}]
    /\ summary' = [summary EXCEPT ![s][w \div Bits] = @ \ {w % Bits}]
ClearBit(s, i) ==
    LET w == i \div Bits IN
    /\ words' = [words EXCEPT ![s][w] = @ \ {i % Bits}]
    /\ summary' = IF words'[s][w] = {}
                  THEN [summary EXCEPT ![s][w \div Bits] = @ \ {w % Bits}]
                  ELSE summary

TestBit(s, i) == i % Bits \in words[s][i \div Bits]

\* o is about to hold r: side, price and open size.
AddOrder(o, r) ==
    LET i == Index(r.price)
        l == level[r.side][i]
    IN
    /\ level' = [level EXCEPT ![r.side][i] =
                    Pushed([l EXCEPT !.price = IF IsEmpty(l) THEN r.price ELSE @],
                           o, r.remaining)]
    /\ links' = PushLinks(links, l, o)
    /\ count' = [count EXCEPT ![r.side] = @ + 1]
    /\ \/ IsEmpty(l) /\ SetBit(r.side, i)
       \/ ~IsEmpty(l) /\ UNCHANGED <<words, summary>>

RemoveOrder(o, r) ==
    LET i == Index(r.price)
        l == UnlinkedFrom(level[r.side][i], links, o, r.remaining)
    IN
    /\ level' = [level EXCEPT ![r.side][i] =
                    [l EXCEPT !.price = IF IsEmpty(l) THEN NoPrice ELSE @]]
    /\ links' = UnlinkLinks(links, o)
    /\ count' = [count EXCEPT ![r.side] = @ - 1]
    /\ \/ IsEmpty(l) /\ ClearBit(r.side, i)
       \/ ~IsEmpty(l) /\ UNCHANGED <<words, summary>>

ReduceInPlace(o, r, traded) ==
    /\ level' = [level EXCEPT ![r.side][Index(r.price)].total = @ - traded]
    /\ UNCHANGED <<words, summary, links, count>>

-----------------------------------------------------------------------------
(* Queries.  countl_zero and countr_zero of 0 are 64: the first gives -1.  *)

HighBit(word) == IF word = {} THEN -1 ELSE Max(word)
LowBit(word) == IF word = {} THEN Bits ELSE Min(word)

HighestSet(s) ==
    LET busy == {v \in DOMAIN summary[s] : summary[s][v] # {}}
        w == Max(busy) * Bits + HighBit(summary[s][Max(busy)])
    IN IF busy = {} THEN -1 ELSE w * Bits + HighBit(words[s][w])
LowestSet(s) ==
    LET busy == {v \in DOMAIN summary[s] : summary[s][v] # {}}
        w == Min(busy) * Bits + LowBit(summary[s][Min(busy)])
    IN IF busy = {} THEN -1 ELSE w * Bits + LowBit(words[s][w])
BestIndex(s) == IF s = "Buy" THEN HighestSet(s) ELSE LowestSet(s)

\* next_level_toward_mid, as an index; -1 for none.
NextIndex(s, i) ==
    LET worse == {j \in 0..Span - 1 : TestBit(s, j) /\ Better(s, i, j)}
    IN IF i = -1 \/ worse = {} THEN -1 ELSE IF s = "Buy" THEN Max(worse) ELSE Min(worse)

\* The levels from the top of the book inward.
Levels(s) ==
    LET at[k \in 1..Span] == IF k = 1 THEN BestIndex(s) ELSE NextIndex(s, at[k - 1])
        visited == Cardinality({k \in 1..Span : at[k] # -1})
    IN [k \in 1..visited |-> level[s][at[k]]]

LevelAt(s, p) == IF IsEmpty(level[s][Index(p)]) THEN NoPrice ELSE level[s][Index(p)].price

Queue == [s \in Side |-> [p \in Price |-> Chain(level[s][Index(p)], links)]]

-----------------------------------------------------------------------------
\* The two bitset levels and the lists agree: a bit is one exactly when its level
\* queues an order, a summary bit exactly when its word has a one bit.  The bit
\* scans read a word they do not test.
BitsAgree ==
    \A s \in Side :
        /\ \A i \in 0..Span - 1 :
              /\ TestBit(s, i) <=> level[s][i].head # Null
              /\ IsEmpty(level[s][i]) <=> level[s][i].price = NoPrice
        /\ \A w \in 0..WordCount - 1 :
              w % Bits \in summary[s][w \div Bits] <=> words[s][w] # {}
=============================================================================
