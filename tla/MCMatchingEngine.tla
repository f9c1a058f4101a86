-------------------------- MODULE MCMatchingEngine --------------------------
(* Small instances of MatchingEngine: the command sets its runs offer.      *)
EXTENDS MatchingEngine

News(ids, clients, types, prices, qtys) ==
    {NewCommand(i, c, s, t, p, q) :
        i \in ids, c \in clients, s \in Side, t \in types, p \in prices, q \in qtys}
Cancels(ids, clients) == {CancelCommand(i, c) : i \in ids, c \in clients}

SomeClient == CHOOSE c \in Client : TRUE

\* Limit orders and every kind of modify: in place, to size 0, to a price that is
\* out of band (3), replayed over a full pool.  The others' orders are of one lot,
\* enough to meet self-trade prevention and time priority.
Modifies(prices, qtys) ==
    {ModifyCommand(i, SomeClient, p, q) : i \in OrderId, p \in prices, q \in qtys}
LimitCommands ==
    News(OrderId, {SomeClient}, {"Limit"}, 1..2, 1..2)
    \cup News(OrderId, Client \ {SomeClient}, {"Limit"}, 1..2, {1})
    \cup News(OrderId, {SomeClient}, {"Ioc"}, {1}, {2})
    \cup Cancels(OrderId, {SomeClient})
    \cup Modifies({NoPrice, 3}, {0, 1, 2}) \cup Modifies({1}, {1, 2})

\* Every order type, market limits included; a Limit or PostOnly order priced
\* kNoPrice is among them.  An order out of band (3) or of size 0 is rejected.
\* One client quotes and meets its own quotes; the others only take, so that no
\* fill-or-kill order meets its client's own (MCEngineFokStp is about that).
TypeCommands ==
    News(OrderId, Client \ {SomeClient}, {"Ioc", "Fok"}, {NoPrice, 1, 2}, {1, 3})
    \cup News(OrderId, Client \ {SomeClient}, {"Market"}, {NoPrice, 1}, {3})
    \cup News(OrderId, {SomeClient}, {"PostOnly"}, {NoPrice, 1, 2}, {1})
    \cup News(OrderId, {SomeClient}, {"Limit"}, {1, 2}, {1, 2})
    \cup News(OrderId, {SomeClient}, {"Limit"}, {NoPrice, 3}, {1})
    \cup News(OrderId, {SomeClient}, {"Limit"}, {1}, {0})
    \cup Cancels(OrderId, {SomeClient})

\* Fill-or-kill orders of two clients against limit orders.
FokCommands ==
    News(OrderId, Client, {"Limit", "Fok"}, {1}, {1, 2})

Symmetry == Permutations(OrderId)
=============================================================================
