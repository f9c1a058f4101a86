--------------------------- MODULE PriceTimeBook ----------------------------
(***************************************************************************)
(* What the matching core promises, with no book structure at all: a set   *)
(* of resting orders and at most one order being matched (the taker).  The *)
(* taker trades with the resting order of the highest priority among those *)
(* it crosses, as much as both have left; it rests or leaves only when     *)
(* there is nothing it could trade with, or its client's own order is next *)
(* and self-trade prevention stops it.                                     *)
(***************************************************************************)
EXTENDS LobTypes

CONSTANTS OrderId, Client,
          StpPulls,       \* self-trade prevention takes the resting order out
          StpStops,       \* self-trade prevention stops the taker
          NoTaker

VARIABLES resting, taker

vars == <<resting, taker>>

Order == [id : OrderId, client : Client, side : Side, price : Price \cup {NoPrice},
          remaining : Nat, seq : Nat]

Ids == {o.id : o \in resting}

\* a comes before b in the queue of their side.
Before(a, b) ==
    \/ Better(a.side, a.price, b.price)
    \/ a.price = b.price /\ a.seq < b.seq

\* The resting order the taker meets next: it is crossed, and nothing else on
\* its side comes before it.
NextToMeet(r) ==
    /\ r \in resting
    /\ r.side = Opposite(taker.side)
    /\ Crosses(taker.side, taker.price, r.price)
    /\ \A o \in resting \ {r} : o.side = r.side => Before(r, o)

NothingToMeet == \A r \in resting : ~NextToMeet(r)

Init == resting = {} /\ taker = NoTaker

\* A new order, younger than every resting one; it does not rest yet.
Arrive ==
    /\ taker = NoTaker
    /\ taker' \in Order
    /\ taker'.id \notin Ids
    /\ taker'.remaining > 0
    /\ \A r \in resting : r.seq < taker'.seq
    /\ UNCHANGED resting

Least(a, b) == IF a < b THEN a ELSE b

Trade(r) ==
    LET q == Least(taker.remaining, r.remaining) IN
    /\ taker # NoTaker /\ taker.remaining > 0
    /\ NextToMeet(r)
    /\ ~(r.client = taker.client /\ (StpPulls \/ StpStops))
    /\ taker' = [taker EXCEPT !.remaining = @ - q]
    /\ resting' = (resting \ {r}) \cup
           IF r.remaining = q THEN {} ELSE {[r EXCEPT !.remaining = @ - q]}

Pull(r) ==
    /\ StpPulls /\ taker # NoTaker /\ taker.remaining > 0
    /\ NextToMeet(r) /\ r.client = taker.client
    /\ resting' = resting \ {r}
    /\ UNCHANGED taker

Stop(r) ==
    /\ StpStops /\ taker # NoTaker /\ taker.remaining > 0
    /\ NextToMeet(r) /\ r.client = taker.client
    /\ taker' = [taker EXCEPT !.remaining = 0]
    /\ UNCHANGED resting

Rest ==
    /\ taker # NoTaker /\ taker.remaining > 0 /\ NothingToMeet
    /\ resting' = resting \cup {taker}
    /\ taker' = NoTaker

Leave ==
    /\ taker # NoTaker
    /\ taker.remaining = 0 \/ NothingToMeet
    /\ taker' = NoTaker
    /\ UNCHANGED resting

\* Between two takers an order is canceled (also to be replayed) or made smaller.
Cancel(r) ==
    /\ taker = NoTaker /\ r \in resting
    /\ resting' = resting \ {r}
    /\ UNCHANGED taker

Shrink(r) ==
    /\ taker = NoTaker /\ r \in resting
    /\ \E q \in 1..(r.remaining - 1) :
          resting' = (resting \ {r}) \cup {[r EXCEPT !.remaining = q]}
    /\ UNCHANGED taker

Next ==
    \/ Arrive
    \/ \E r \in resting : Trade(r) \/ Pull(r) \/ Stop(r) \/ Cancel(r) \/ Shrink(r)
    \/ Rest
    \/ Leave

Spec == Init /\ [][Next]_vars
=============================================================================
