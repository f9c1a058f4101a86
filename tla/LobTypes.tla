------------------------------ MODULE LobTypes ------------------------------
(* Sides, prices and what it means to cross: include/lob/types.hpp, and the *)
(* price band of a book.                                                    *)
EXTENDS Integers

CONSTANTS
    MinPrice, MaxPrice,   \* EngineConfig::min_price, max_price
    NoPrice               \* kNoPrice: a market limit, or "no such level"

ASSUME PriceAssumption ==
    /\ MinPrice \in Int /\ MaxPrice \in Int /\ NoPrice \in Int
    /\ NoPrice < MinPrice /\ MinPrice <= MaxPrice

Price == MinPrice..MaxPrice

Side == {"Buy", "Sell"}
Opposite(s) == IF s = "Buy" THEN "Sell" ELSE "Buy"

\* Mutant: an aggressor at exactly the level's price does not cross it.
CrossesStrictly(s, limit, p) ==
    \/ limit = NoPrice
    \/ s = "Buy" /\ limit > p
    \/ s = "Sell" /\ limit < p

\* A market limit crosses every level.
Crosses(s, limit, p) ==
    \/ limit = NoPrice
    \/ s = "Buy" /\ limit >= p
    \/ s = "Sell" /\ limit <= p

\* p is a strictly better price than q for an order resting on side s.
Better(s, p, q) == IF s = "Buy" THEN p > q ELSE p < q
=============================================================================
