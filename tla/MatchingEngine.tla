--------------------------- MODULE MatchingEngine ---------------------------
(***************************************************************************)
(* The matching core: BasicMatchingEngine<Book>::process and every handler *)
(* it calls (src/src/matching_engine.cpp).  One thread runs process() to   *)
(* completion for one command at a time; the model splits a call at its    *)
(* control points (pc), so that the match loop is one step per resting     *)
(* order it meets and every invariant is also checked inside a call.       *)
(*                                                                         *)
(* The order book is the abstract book all its implementations share: a    *)
(* FIFO of order ids per side and price.  The id index, the slot pool and  *)
(* the slots' contents are separate variables, as they are in the code.    *)
(***************************************************************************)
EXTENDS LobTypes, SequencesExt

CONSTANTS
    OrderId,        \* ids a command may carry (the index reserves key 0)
    Client,         \* ClientId values
    MaxOrders,      \* EngineConfig::max_orders, the slot pool's capacity
    Stp,            \* EngineConfig::stp
    Commands,       \* the commands a run offers to process()
    Halting,        \* TRUE if the operator may call set_halted
    MaxArrivals,    \* bound of the model on arrival_
    NoId, NoClient, NoCommand   \* default-constructed id, client, command

OrderType == {"Limit", "Market", "Ioc", "PostOnly", "Fok"}
RejectReason ==
    {"None", "UnknownOrder", "DuplicateOrderId", "PriceOutOfBand", "ZeroQuantity",
     "PostOnlyWouldCross", "FokUnfillable", "BookHalted", "PoolExhausted",
     "SelfTradePrevented"}

Command == [type : {"New", "Cancel", "Modify"}, id : OrderId, client : Client,
            side : Side, ordType : OrderType, price : Int, qty : Nat]

ASSUME CommandAssumption ==
    /\ Commands \subseteq Command
    /\ NoCommand \notin Command
    /\ NoId \notin OrderId /\ NoClient \notin Client
ASSUME LimitAssumption ==
    /\ MaxOrders \in Nat /\ MaxArrivals \in Nat
    /\ Stp \in {"None", "CancelResting", "CancelAggressor"}
    /\ Halting \in BOOLEAN

VARIABLES
    pc,        \* where process() is: idle, dispatch, new, match, publish, oob
    cmd,       \* the command in process()
    in,        \* handle_new's local `incoming`
    queue,     \* queue[side][price]: the ids of a level, head first
    total,     \* total[side][price]: PriceLevel::total_qty
    index,     \* ids the id index holds
    order,     \* the slot of each indexed id (EmptyOrder when released)
    inUse,     \* pool_.in_use()
    arrival,   \* arrival_
    out,       \* out_: the events of the current call
    lastBid, lastAsk,   \* last_bid_, last_ask_
    halted     \* halted_

bookVars == <<queue, total, index, order, inUse>>
vars == <<pc, cmd, in, bookVars, arrival, out, lastBid, lastAsk, halted>>

-----------------------------------------------------------------------------
(* Commands, orders and events.                                            *)

NewCommand(i, c, s, t, p, q) ==
    [type |-> "New", id |-> i, client |-> c, side |-> s, ordType |-> t,
     price |-> p, qty |-> q]
CancelCommand(i, c) ==
    [type |-> "Cancel", id |-> i, client |-> c, side |-> "Buy",
     ordType |-> "Limit", price |-> NoPrice, qty |-> 0]
ModifyCommand(i, c, p, q) ==
    [type |-> "Modify", id |-> i, client |-> c, side |-> "Buy",
     ordType |-> "Limit", price |-> p, qty |-> q]

EmptyOrder == [client |-> NoClient, side |-> "Buy", type |-> "Limit",
               price |-> 0, quantity |-> 0, remaining |-> 0, seq |-> 0]

Order == [client : Client \cup {NoClient}, side : Side, type : OrderType,
          price : Int, quantity : Nat, remaining : Nat, seq : Nat]

\* An event about order i, whose fields o holds; contra is NoId but for fills.
Report(type, i, contra, o, price, qty, leaves, reason) ==
    [type |-> type, id |-> i, contra |-> contra, client |-> o.client,
     side |-> o.side, price |-> price, qty |-> qty, leaves |-> leaves,
     reason |-> reason]

Emit(events) == out' = out \o events

Reject(reason) ==
    Emit(<<Report("Rejected", cmd.id, NoId, cmd, cmd.price, cmd.qty, 0, reason)>>)

-----------------------------------------------------------------------------
(* The abstract book.                                                      *)

InBand(p) == p \in Price

Occupied(s) == {p \in Price : queue[s][p] # <<>>}
IsBest(s, p) == p \in Occupied(s) /\ \A q \in Occupied(s) : ~Better(s, q, p)
BestPrice(s) ==
    IF Occupied(s) = {} THEN NoPrice ELSE CHOOSE p \in Occupied(s) : IsBest(s, p)

\* What an aggressor on side s could take at its limit.
\* Mutant: the walk does not stop at the limit.
MarketableQtyAll(s, limit) ==
    MapThenSumSet(LAMBDA p : total[Opposite(s)][p], Occupied(Opposite(s)))
MarketableQty(s, limit) ==
    MapThenSumSet(LAMBDA p : total[Opposite(s)][p],
                  {p \in Occupied(Opposite(s)) : Crosses(s, limit, p)})

\* Mutant: a new order goes to the head of its level.
EnqueueFront(q, i) == <<i>> \o q
Enqueue(q, i) == Append(q, i)

PushBack(i, o) ==
    /\ queue' = [queue EXCEPT ![o.side][o.price] = Enqueue(@, i)]
    /\ total' = [total EXCEPT ![o.side][o.price] = @ + o.remaining]

Unlink(i) ==
    LET o == order[i] IN
    /\ \E k \in DOMAIN queue[o.side][o.price] :
          /\ queue[o.side][o.price][k] = i
          /\ queue' = [queue EXCEPT ![o.side][o.price] = RemoveAt(@, k)]
    /\ total' = [total EXCEPT ![o.side][o.price] = @ - o.remaining]

\* Mutant: the order leaves its level, the level's total does not change.
ReduceOrderOnly(i, q) ==
    /\ order' = [order EXCEPT ![i].remaining = @ - q]
    /\ UNCHANGED <<queue, total, index, inUse>>
ReduceInPlace(i, q) ==
    /\ order' = [order EXCEPT ![i].remaining = @ - q]
    /\ total' = [total EXCEPT ![order[i].side][order[i].price] = @ - q]
    /\ UNCHANGED <<queue, index, inUse>>

\* book_.remove, index_.erase, pool_.release: always called together.
\* Mutants: one of the three is forgotten.
ReleaseKeepingIndex(i) ==
    /\ Unlink(i)
    /\ order' = [order EXCEPT ![i] = EmptyOrder]
    /\ inUse' = inUse - 1
    /\ UNCHANGED index
ReleaseKeepingSlot(i) ==
    /\ Unlink(i)
    /\ index' = index \ {i}
    /\ order' = [order EXCEPT ![i] = EmptyOrder]
    /\ UNCHANGED inUse
Release(i) ==
    /\ Unlink(i)
    /\ index' = index \ {i}
    /\ order' = [order EXCEPT ![i] = EmptyOrder]
    /\ inUse' = inUse - 1

-----------------------------------------------------------------------------
Init ==
    /\ pc = "idle" /\ cmd = NoCommand /\ in = EmptyOrder
    /\ queue = [s \in Side |-> [p \in Price |-> <<>>]]
    /\ total = [s \in Side |-> [p \in Price |-> 0]]
    /\ index = {} /\ order = [i \in OrderId |-> EmptyOrder] /\ inUse = 0
    /\ arrival = 0 /\ out = <<>>
    /\ lastBid = NoPrice /\ lastAsk = NoPrice
    /\ halted = FALSE

(* process(): clear the events, dispatch on the command's type.            *)

Receive(c) ==
    /\ pc = "idle"
    /\ c.type # "Cancel" => arrival < MaxArrivals
    /\ pc' = "dispatch" /\ cmd' = c /\ out' = <<>>
    /\ UNCHANGED <<in, bookVars, arrival, lastBid, lastAsk, halted>>

RejectHalted ==
    /\ pc = "dispatch" /\ cmd.type = "New" /\ halted
    /\ Reject("BookHalted")
    /\ pc' = "publish"
    /\ UNCHANGED <<cmd, in, bookVars, arrival, lastBid, lastAsk, halted>>

\* Mutant: the halt flag is not tested.
AdmitNewHalted ==
    /\ pc = "dispatch" /\ cmd.type = "New"
    /\ pc' = "new"
    /\ UNCHANGED <<cmd, in, bookVars, arrival, out, lastBid, lastAsk, halted>>
AdmitNew ==
    /\ pc = "dispatch" /\ cmd.type = "New" /\ ~halted
    /\ pc' = "new"
    /\ UNCHANGED <<cmd, in, bookVars, arrival, out, lastBid, lastAsk, halted>>

SetHalted(h) ==
    /\ Halting /\ pc = "idle"
    /\ halted' = h
    /\ UNCHANGED <<pc, cmd, in, bookVars, arrival, out, lastBid, lastAsk>>

-----------------------------------------------------------------------------
(* handle_new, up to the call of match.                                    *)

IsMarket == cmd.ordType = "Market" \/ cmd.price = NoPrice
Limit == IF IsMarket THEN NoPrice ELSE cmd.price

\* The opposite best level exists and the order would cross it.
\* Mutant: the best level of the order's own side.
WouldCrossOwnSide ==
    \E p \in Price : IsBest(cmd.side, p) /\ Crosses(cmd.side, Limit, p)
WouldCross ==
    \E p \in Price : IsBest(Opposite(cmd.side), p) /\ Crosses(cmd.side, Limit, p)

\* The checks, in the order of the code: the first that fails is the reason.
Rejection ==
    IF cmd.qty = 0 THEN "ZeroQuantity"
    ELSE IF ~IsMarket /\ ~InBand(cmd.price) THEN "PriceOutOfBand"
    ELSE IF cmd.id \in index THEN "DuplicateOrderId"
    ELSE IF cmd.ordType = "PostOnly" /\ WouldCross THEN "PostOnlyWouldCross"
    ELSE IF cmd.ordType = "Fok" /\ MarketableQty(cmd.side, Limit) < cmd.qty
         THEN "FokUnfillable"
    ELSE "None"

RejectNew ==
    /\ pc = "new" /\ Rejection # "None"
    /\ Reject(Rejection)
    /\ pc' = "publish"
    /\ UNCHANGED <<cmd, in, bookVars, arrival, lastBid, lastAsk, halted>>

AcceptNew ==
    /\ pc = "new" /\ Rejection = "None"
    /\ arrival' = arrival + 1
    /\ in' = [client |-> cmd.client, side |-> cmd.side, type |-> cmd.ordType,
              price |-> Limit, quantity |-> cmd.qty, remaining |-> cmd.qty,
              seq |-> arrival']
    /\ Emit(<<Report("Accepted", cmd.id, NoId, in', Limit, cmd.qty, cmd.qty, "None")>>)
    /\ pc' = "match"
    /\ UNCHANGED <<cmd, bookVars, lastBid, lastAsk, halted>>

-----------------------------------------------------------------------------
(* match: one step per resting order met at the head of the best level.    *)

CanMatch(p) ==
    /\ in.remaining > 0
    /\ IsBest(Opposite(in.side), p)
    /\ in.type = "Market" \/ Crosses(in.side, in.price, p)

\* Stp fires on the resting order r.
\* Mutant: it fires whoever the orders belong to.
SelfTradeWithAnyone(r) == Stp # "None"
SelfTrade(r) == Stp # "None" /\ order[r].client = in.client

StpCancelAggressor(p) ==
    LET r == Head(queue[Opposite(in.side)][p]) IN
    /\ pc = "match" /\ CanMatch(p) /\ SelfTrade(r) /\ Stp = "CancelAggressor"
    /\ Emit(<<Report("Canceled", cmd.id, NoId, in, in.price, 0, 0, "SelfTradePrevented")>>)
    /\ in' = [in EXCEPT !.remaining = 0]
    /\ UNCHANGED <<pc, cmd, bookVars, arrival, lastBid, lastAsk, halted>>

\* Mutant: the order is passed over, and stays the head of its level.
StpSkipResting(p) ==
    LET r == Head(queue[Opposite(in.side)][p]) IN
    /\ pc = "match" /\ CanMatch(p) /\ SelfTrade(r) /\ Stp = "CancelResting"
    /\ UNCHANGED vars
StpCancelResting(p) ==
    LET r == Head(queue[Opposite(in.side)][p]) IN
    /\ pc = "match" /\ CanMatch(p) /\ SelfTrade(r) /\ Stp = "CancelResting"
    /\ Emit(<<Report("Canceled", r, NoId, order[r], order[r].price, 0, 0,
                     "SelfTradePrevented")>>)
    /\ Release(r)
    /\ UNCHANGED <<pc, cmd, in, arrival, lastBid, lastAsk, halted>>

\* Mutant: the smaller of the two sizes is not taken.
TradedIncoming(r) == in.remaining
Traded(r) ==
    IF in.remaining < order[r].remaining THEN in.remaining ELSE order[r].remaining

TradeEvents(r, q) ==
    LET o == order[r] IN
    <<Report("Fill", cmd.id, r, in, o.price, q, in.remaining - q, "None"),
      Report("Fill", r, cmd.id, o, o.price, q, o.remaining - q, "None"),
      Report("Trade", cmd.id, r, [in EXCEPT !.client = NoClient], o.price, q, 0, "None")>>

\* The resting order gives q: it leaves the book when nothing is left of it.
Take(r, q) ==
    \/ order[r].remaining = q /\ Release(r)
    \/ order[r].remaining # q /\ ReduceInPlace(r, q)

\* The order match takes from: `lvl->head`.  Mutant: the level's tail.
NewestAt(s, p) == Last(queue[s][p])
OldestAt(s, p) == Head(queue[s][p])

Trade(p) ==
    LET r == OldestAt(Opposite(in.side), p)
        q == Traded(r)
    IN
    /\ pc = "match" /\ CanMatch(p) /\ ~SelfTrade(r)
    /\ Emit(TradeEvents(r, q))
    /\ in' = [in EXCEPT !.remaining = @ - q]
    /\ Take(r, q)
    /\ UNCHANGED <<pc, cmd, arrival, lastBid, lastAsk, halted>>

-----------------------------------------------------------------------------
(* handle_new, after match returned.                                       *)

MatchDone == pc = "match" /\ \A p \in Price : ~CanMatch(p)
Rests == in.type \in {"Limit", "PostOnly"}

FullyFilled ==
    /\ MatchDone /\ in.remaining = 0
    /\ pc' = "publish"
    /\ UNCHANGED <<cmd, in, bookVars, arrival, out, lastBid, lastAsk, halted>>

\* Mutant: what is left is dropped without an event.
CancelIncomingSilently(reason) ==
    /\ pc' = "publish"
    /\ UNCHANGED <<cmd, in, bookVars, arrival, out, lastBid, lastAsk, halted>>
CancelIncoming(reason) ==
    /\ Emit(<<Report("Canceled", cmd.id, NoId, in, in.price, in.remaining, 0, reason)>>)
    /\ pc' = "publish"
    /\ UNCHANGED <<cmd, in, bookVars, arrival, lastBid, lastAsk, halted>>

CancelRemainder == MatchDone /\ in.remaining > 0 /\ ~Rests /\ CancelIncoming("None")

PoolExhausted ==
    /\ MatchDone /\ in.remaining > 0 /\ Rests /\ inUse = MaxOrders
    /\ CancelIncoming("PoolExhausted")

RestIncoming ==
    /\ MatchDone /\ in.remaining > 0 /\ Rests /\ inUse < MaxOrders
    /\ in.price # NoPrice
    /\ PushBack(cmd.id, in)
    /\ index' = index \cup {cmd.id}
    /\ order' = [order EXCEPT ![cmd.id] = in]
    /\ inUse' = inUse + 1
    /\ pc' = "publish"
    /\ UNCHANGED <<cmd, in, arrival, out, lastBid, lastAsk, halted>>

\* A Limit or PostOnly command priced kNoPrice rests too: book_.add computes
\* index(kNoPrice) and writes outside the level array.  Nothing is said of the
\* program after that.
RestOutsideLevels ==
    /\ MatchDone /\ in.remaining > 0 /\ Rests /\ inUse < MaxOrders
    /\ in.price = NoPrice
    /\ pc' = "oob"
    /\ UNCHANGED <<cmd, in, bookVars, arrival, out, lastBid, lastAsk, halted>>

-----------------------------------------------------------------------------
(* handle_cancel and handle_modify.                                        *)

RejectUnknown ==
    /\ pc = "dispatch" /\ cmd.type \in {"Cancel", "Modify"} /\ cmd.id \notin index
    /\ Reject("UnknownOrder")
    /\ pc' = "publish"
    /\ UNCHANGED <<cmd, in, bookVars, arrival, lastBid, lastAsk, halted>>

\* A modify to quantity 0 is handled as a cancel of the same id.
IsCancel == cmd.type = "Cancel" \/ (cmd.type = "Modify" /\ cmd.qty = 0)

HandleCancel ==
    /\ pc = "dispatch" /\ IsCancel /\ cmd.id \in index
    /\ LET o == order[cmd.id] IN
       Emit(<<Report("Canceled", cmd.id, NoId, o, o.price, o.remaining, 0, "None")>>)
    /\ Release(cmd.id)
    /\ pc' = "publish"
    /\ UNCHANGED <<cmd, in, arrival, lastBid, lastAsk, halted>>

NewPrice == IF cmd.price = NoPrice THEN order[cmd.id].price ELSE cmd.price

\* Only a size-down at the same price keeps the place in the queue.
\* Mutant: at any size.
KeepsPriorityAnySize ==
    NewPrice = order[cmd.id].price
KeepsPriority ==
    NewPrice = order[cmd.id].price /\ cmd.qty < order[cmd.id].remaining

IsModify == pc = "dispatch" /\ cmd.type = "Modify" /\ cmd.qty > 0 /\ cmd.id \in index

\* o->quantity = new_qty + o->filled(), after remaining became new_qty.
ModifyInPlace ==
    /\ IsModify /\ KeepsPriority
    /\ LET o == order[cmd.id]
           resized == [o EXCEPT !.remaining = cmd.qty,
                                !.quantity = cmd.qty + (o.quantity - cmd.qty)]
       IN /\ order' = [order EXCEPT ![cmd.id] = resized]
          /\ total' = [total EXCEPT ![o.side][o.price] = @ - (o.remaining - cmd.qty)]
          /\ Emit(<<Report("Replaced", cmd.id, NoId, o, o.price, cmd.qty, cmd.qty, "None")>>)
    /\ pc' = "publish"
    /\ UNCHANGED <<cmd, in, queue, index, inUse, arrival, lastBid, lastAsk, halted>>

\* Every other change removes the order and replays it through handle_new.
ReplayAsNew ==
    /\ IsModify /\ ~KeepsPriority
    /\ LET o == order[cmd.id] IN
       cmd' = NewCommand(cmd.id, o.client, o.side, o.type, NewPrice, cmd.qty)
    /\ Release(cmd.id)
    /\ pc' = "new"
    /\ UNCHANGED <<in, arrival, out, lastBid, lastAsk, halted>>

-----------------------------------------------------------------------------
(* The end of process(): emit_book_changed.                                *)

\* Mutant: one side that did not move hides the other's move.
EitherUnmoved == BestPrice("Buy") = lastBid \/ BestPrice("Sell") = lastAsk
TopUnmoved == BestPrice("Buy") = lastBid /\ BestPrice("Sell") = lastAsk

BookChanged ==
    LET bid == BestPrice("Buy")
        ask == BestPrice("Sell")
    IN [type |-> "BookChanged",
        bid |-> bid, bidQty |-> IF bid = NoPrice THEN 0 ELSE total["Buy"][bid],
        ask |-> ask, askQty |-> IF ask = NoPrice THEN 0 ELSE total["Sell"][ask]]

Return == pc' = "idle" /\ cmd' = NoCommand /\ in' = EmptyOrder

PublishNothing ==
    /\ pc = "publish" /\ TopUnmoved
    /\ Return
    /\ UNCHANGED <<bookVars, arrival, out, lastBid, lastAsk, halted>>

PublishTop ==
    /\ pc = "publish" /\ ~TopUnmoved
    /\ Emit(<<BookChanged>>)
    /\ lastBid' = BestPrice("Buy") /\ lastAsk' = BestPrice("Sell")
    /\ Return
    /\ UNCHANGED <<bookVars, arrival, halted>>

-----------------------------------------------------------------------------
\* The steps of a process() call that is under way.
Step ==
    \/ RejectHalted \/ AdmitNew \/ RejectUnknown \/ HandleCancel
    \/ ModifyInPlace \/ ReplayAsNew
    \/ RejectNew \/ AcceptNew
    \/ \E p \in Price : StpCancelAggressor(p) \/ StpCancelResting(p) \/ Trade(p)
    \/ FullyFilled \/ CancelRemainder \/ PoolExhausted
    \/ RestIncoming \/ RestOutsideLevels
    \/ PublishNothing \/ PublishTop

Next ==
    \/ \E c \in Commands : Receive(c)
    \/ \E h \in BOOLEAN : SetHalted(h)
    \/ Step

Spec == Init /\ [][Next]_vars

\* process() has no blocking call: the engine thread, once in it, runs on.
FairSpec == Spec /\ WF_vars(Step)

-----------------------------------------------------------------------------
(* Properties.                                                             *)

ReportEvent ==
    [type : {"Accepted", "Rejected", "Fill", "Canceled", "Replaced", "Trade"},
     id : OrderId, contra : OrderId \cup {NoId}, client : Client \cup {NoClient},
     side : Side, price : Int, qty : Nat, leaves : Nat, reason : RejectReason]
TopEvent ==
    [type : {"BookChanged"}, bid : Int, bidQty : Int, ask : Int, askQty : Int]

\* Every variable holds a value of its C++ type.
TypeOK ==
    /\ pc \in {"idle", "dispatch", "new", "match", "publish", "oob"}
    /\ cmd \in Command \cup {NoCommand}
    /\ (cmd = NoCommand) <=> (pc = "idle")
    /\ in \in Order
    /\ queue \in [Side -> [Price -> Seq(OrderId)]]
    /\ total \in [Side -> [Price -> Int]]
    /\ index \in SUBSET OrderId
    /\ order \in [OrderId -> Order]
    /\ \A i \in index : order[i].client \in Client
    /\ pc = "match" => in.client \in Client
    /\ inUse \in Int
    /\ arrival \in Nat
    /\ lastBid \in Int /\ lastAsk \in Int
    /\ halted \in BOOLEAN
    /\ out \in Seq(ReportEvent \cup TopEvent)

\* An indexed id is queued at the side and price of its slot, and an id a level
\* queues is indexed with a slot that says so: match, handle_cancel and
\* handle_modify follow index_, Order::price and the level's list alternately.
IndexMatchesBook ==
    /\ \A i \in index :
          /\ order[i].price \in Price
          /\ \E k \in DOMAIN queue[order[i].side][order[i].price] :
                queue[order[i].side][order[i].price][k] = i
    /\ \A s \in Side, p \in Price : \A k \in DOMAIN queue[s][p] :
          LET i == queue[s][p][k] IN
          i \in index /\ order[i].side = s /\ order[i].price = p

\* The pool's slots in use are those of the indexed orders: no path leaks a slot
\* or gives one back twice, and the pool is never overdrawn.
SlotsAccounted ==
    IsFiniteSet(index) /\ inUse = Cardinality(index) /\ inUse <= MaxOrders

\* A level's running total, which fill-or-kill sizing and BookChanged read, is
\* the open size of the orders the level queues.
LevelTotals ==
    \A s \in Side, p \in Price :
        total[s][p] = MapThenSumSet(LAMBDA i : order[i].remaining, ToSet(queue[s][p]))

\* Each level is in arrival order, so an order's place is its time priority
\* through partial fills, size-downs and removals from the middle.
TimePriority ==
    \A s \in Side, p \in Price : \A j, k \in DOMAIN queue[s][p] :
        j < k => order[queue[s][p][j]].seq < order[queue[s][p][k]].seq

\* No resting bid reaches a resting ask, at any step of match and of a replay.
BookUncrossed ==
    \A i, j \in index :
        order[i].side = "Buy" /\ order[j].side = "Sell"
            => order[i].price < order[j].price

\* An order that rests has something left to trade; a full fill removes it.
RestingIsOpen == \A i \in index : order[i].remaining > 0

\* While the incoming order is matched its id is not in the book (a replay took
\* it out), its limit is in the band or a market's, and it is the youngest.
IncomingIsNew ==
    /\ \A i \in index : order[i].seq <= arrival
    /\ pc = "match" =>
          /\ cmd.id \notin index
          /\ in.price \in Price \cup {NoPrice}
          /\ in.type = "Market" => in.price = NoPrice
          /\ in.seq = arrival
          /\ \A i \in index : order[i].seq < arrival

\* What match takes from, or pulls for self-trade prevention, is the best-priced
\* and, at that price, the earliest of all orders that rest on the other side.
HasPriority(r) ==
    \A i \in index \ {r} :
        order[i].side = order[r].side =>
            /\ ~Better(order[r].side, order[i].price, order[r].price)
            /\ order[i].price = order[r].price => order[r].seq < order[i].seq
MatchRespectsPriority ==
    [][pc = "match" => \A r \in index : order'[r] # order[r] => HasPriority(r)]_vars

\* Every iteration of match leaves it less to do: quantity of the incoming order
\* or a resting order is used up, so the two nested loops end.
MatchWork == in.remaining + inUse
MatchProgress == [][pc = "match" /\ pc' = "match" => MatchWork' < MatchWork]_vars

\* While an order stays in the book it never grows, is never repriced and never
\* gets a new order ahead of it: size-up and reprice give up the place in the
\* queue (handle_modify removes and replays), size-down and partial fills keep it.
Ahead(i) ==
    LET q == queue[order[i].side][order[i].price] IN
    {q[k] : k \in {k \in DOMAIN q : \E l \in DOMAIN q : k < l /\ q[l] = i}}
PlaceKept ==
    [][\A i \in index \cap index' :
          /\ order'[i].remaining <= order[i].remaining
          /\ order'[i].price = order[i].price
          /\ Ahead(i)' \subseteq Ahead(i)]_vars

\* types.hpp: a fill-or-kill order fills in full immediately or is rejected.
\* The quantity is counted from the fills of the call, not from `remaining`.
FilledInCall(i) ==
    MapThenSumSet(LAMBDA k : out[k].qty,
                  {k \in DOMAIN out : out[k].type = "Fill" /\ out[k].id = i})
FokAllOrNothing ==
    pc = "publish" /\ cmd.type = "New" /\ cmd.ordType = "Fok"
        => FilledInCall(cmd.id) \in {0, cmd.qty}

\* A post-only order that was accepted never meets a level it crosses in match:
\* the check in handle_new and the loop guard of match agree, so it never takes.
PostOnlyNeverTakes ==
    pc = "match" /\ in.type = "PostOnly" => \A p \in Price : ~CanMatch(p)

\* Every call of process() returns: the handler of every command, in every state
\* of the book, reaches the end of process().
CallReturns == pc # "idle" ~> pc = "idle"

-----------------------------------------------------------------------------
(* The price-time book this engine implements.  Its taker is handle_new's   *)
(* `incoming` while match and the code after it work on it.                 *)

Summary(i, o) == [id |-> i, client |-> o.client, side |-> o.side, price |-> o.price,
                  remaining |-> o.remaining, seq |-> o.seq]

Resting == {Summary(i, order[i]) : i \in index}
Taker == IF pc = "match" THEN Summary(cmd.id, in) ELSE NoCommand

Abstract == INSTANCE PriceTimeBook WITH
    resting <- Resting,
    taker <- Taker,
    NoTaker <- NoCommand,
    StpPulls <- (Stp = "CancelResting"),
    StpStops <- (Stp = "CancelAggressor")

ASSUME TakerAssumption == NoCommand \notin Abstract!Order

\* Every step of process() is a step of the price-time book or leaves it alone:
\* queue links, index, slots and counters together keep price-time priority.
ImplementsPriceTimeBook == Abstract!Spec
=============================================================================
