---------------------------- MODULE MCEventView -----------------------------
(* Instances of EventView.                                                  *)
EXTENDS EventView

News(clients, types, prices, qtys) ==
    {NewCommand(i, c, s, t, p, q) :
        i \in OrderId, c \in clients, s \in Side, t \in types, p \in prices, q \in qtys}
SomeClient == CHOOSE c \in Client : TRUE
Cancels == {CancelCommand(i, SomeClient) : i \in OrderId}
Modifies(prices, qtys) ==
    {ModifyCommand(i, SomeClient, p, q) : i \in OrderId, p \in prices, q \in qtys}

\* Orders whose replay handle_new cannot reject: Limit orders, repriced in band.
\* The other client's orders are of one lot, enough to meet self-trade prevention.
ViewCommands ==
    News({SomeClient}, {"Limit"}, 1..2, 1..2)
    \cup News(Client \ {SomeClient}, {"Limit"}, 1..2, {1})
    \cup News({SomeClient}, {"Ioc"}, {1}, {2})
    \cup Cancels
    \cup Modifies({1}, {1, 2}) \cup Modifies({NoPrice}, {0, 2})

\* A modify that asks for a price outside the band (1..2).
ReplayCommands ==
    News({SomeClient}, {"Limit"}, 1..2, {1}) \cup Modifies({3}, {1}) \cup Cancels

Symmetry == Permutations(OrderId)
=============================================================================
