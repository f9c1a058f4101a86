------------------------------ MODULE EventView ------------------------------
(***************************************************************************)
(* A listener that knows the book only through the events process()        *)
(* returns, in order: the open size of every order, from the meaning the   *)
(* source gives each EventType (include/lob/events.hpp), and the top of    *)
(* book.  It watches the engine and never constrains it.                   *)
(***************************************************************************)
EXTENDS MatchingEngine

VARIABLES
    view,      \* the open size of each id as the events tell it, 0 if none
    top,       \* the payload of the last BookChanged
    reentry    \* the id a modify took out of the book and has not settled yet

viewVars == <<vars, view, top, reentry>>

\* The events this step appended; Receive only clears the sequence.
NewEvents == SubSeq(out', Len(out) + 1, Len(out'))

\* A fill is counted by its matched size, the other events by what they leave.
ApplyEvent(v, e) ==
    CASE e.type \in {"Accepted", "Replaced", "Canceled"} -> [v EXCEPT ![e.id] = e.leaves]
      [] e.type = "Fill" -> [v EXCEPT ![e.id] = @ - e.qty]
      [] OTHER -> v

ApplyTop(t, e) == IF e.type = "BookChanged" THEN e ELSE t

EmptyTop == [type |-> "BookChanged", bid |-> NoPrice, bidQty |-> 0,
             ask |-> NoPrice, askQty |-> 0]

ViewInit ==
    Init /\ view = [i \in OrderId |-> 0] /\ top = EmptyTop /\ reentry = NoId

Observe ==
    /\ view' = FoldLeft(ApplyEvent, view, NewEvents)
    /\ top' = FoldLeft(ApplyTop, top, NewEvents)
    /\ reentry' = IF pc' = "idle" THEN NoId
                  ELSE IF pc = "dispatch" /\ pc' = "new" /\ cmd.type = "Modify"
                       THEN cmd.id ELSE reentry

ViewSpec == ViewInit /\ [][Next /\ Observe]_viewVars

-----------------------------------------------------------------------------
\* The events are a full account of the book: between calls, what a listener
\* believes open is open, to the share.  Fills, self-trade prevention, the
\* cancel of a remainder, pool exhaustion, modify and its replay all report.
ViewMatchesBook ==
    pc = "idle" => \A i \in OrderId : view[i] = order[i].remaining

\* The prices of the last BookChanged are the best prices of the book.
TopPricesKnown ==
    pc = "idle" => top.bid = BestPrice("Buy") /\ top.ask = BestPrice("Sell")

\* A modify releases the order's slot before it replays it, so its replay is
\* never turned away for want of a slot, even when the pool was full.
ReplayFindsSlot == pc = "match" /\ reentry # NoId => inUse < MaxOrders

\* Of the two ways into handle_new only one asks for the halt flag.  What a halted
\* book does promise: it takes in no order that a listener did not hold open before,
\* so all that can still rest or trade is what a modify takes out and replays.
HaltKeepsStrangersOut ==
    [][halted => \A i \in OrderId : view[i] = 0 => view'[i] = 0]_viewVars
=============================================================================
