-------------------------------- MODULE Feed --------------------------------
(***************************************************************************)
(* The market-data feed: the engine's try_push into the md ring and        *)
(* run_publisher (src/src/engine_server.cpp), a network that loses         *)
(* datagrams, and run_subscribe (src/apps/md_simulator/main.cpp).  Of a    *)
(* datagram only its number is kept: trades, book changes and heartbeats   *)
(* share one sequence.  Datagrams stay in order, as on one link.           *)
(***************************************************************************)
EXTENDS Integers, SequencesExt

CONSTANTS
    RingSize,      \* messages the md ring holds
    Wrap,          \* 2^32: a frame header keeps this much of the sequence
    InFlight,      \* bound of the model on datagrams in the network
    MaxDatagrams, MaxRestarts      \* bounds of the model

VARIABLES
    ring,      \* messages in md
    seq,       \* run_publisher's local: the last number given
    net,       \* datagrams on their way: [no, seq]
    sub,       \* the subscriber: expect, gaps
    sent,      \* history: datagrams numbered, over all restarts
    eras,      \* history: the numbers at which the header's count starts again
    heard, lost, restarts      \* history

history == <<sent, eras, heard, lost, restarts>>
vars == <<ring, seq, net, sub, history>>

Init ==
    /\ ring = 0 /\ seq = 0 /\ net = <<>>
    /\ sub = [expect |-> 0, gaps |-> 0]
    /\ sent = 0 /\ eras = {1} /\ heard = {} /\ lost = {} /\ restarts = 0

\* The engine never waits: a message that finds the ring full is gone before it
\* has a number.
Offer ==
    /\ ring' = IF ring < RingSize THEN ring + 1 ELSE ring
    /\ UNCHANGED <<seq, net, sub, history>>

\* ++seq, encode, sendto; a send that would block is a lost datagram.
Numbered ==
    /\ sent < MaxDatagrams /\ Len(net) < InFlight
    /\ seq' = seq + 1
    /\ sent' = sent + 1
    /\ eras' = IF seq' % Wrap = 0 THEN eras \cup {sent'} ELSE eras
    /\ \/ net' = Append(net, [no |-> sent', seq |-> seq' % Wrap]) /\ UNCHANGED lost
       \/ lost' = lost \cup {sent'} /\ UNCHANGED net
    /\ UNCHANGED <<sub, heard, restarts>>

Publish == ring > 0 /\ ring' = ring - 1 /\ Numbered
Heartbeat == UNCHANGED ring /\ Numbered

\* stop() and start(): the publisher counts from 0 again, the ring is as it was.
Restart ==
    /\ restarts < MaxRestarts
    /\ restarts' = restarts + 1
    /\ seq' = 0 /\ eras' = eras \cup {sent + 1}
    /\ UNCHANGED <<ring, net, sub, sent, heard, lost>>

\* Also what a subscriber that joins late was not there to hear.
Lose ==
    /\ net # <<>>
    /\ net' = Tail(net)
    /\ lost' = lost \cup {Head(net).no}
    /\ UNCHANGED <<ring, seq, sub, sent, eras, heard, restarts>>

\* Mutant: a subscriber that has heard nothing yet expects the first number.
JumpFromStart(s) == IF s > sub.expect THEN s - sub.expect ELSE 0
\* Mutant: a jump counts as one gap, however wide.
OnePerJump(s) == IF sub.expect # 0 /\ s > sub.expect THEN 1 ELSE 0
Jump(s) == IF sub.expect # 0 /\ s > sub.expect THEN s - sub.expect ELSE 0

\* hdr->seq + 1 is computed in 32 bits too.
Receive ==
    /\ net # <<>>
    /\ LET s == Head(net).seq IN
       sub' = [sub EXCEPT !.gaps = @ + Jump(s), !.expect = (s + 1) % Wrap]
    /\ net' = Tail(net)
    /\ heard' = heard \cup {Head(net).no}
    /\ UNCHANGED <<ring, seq, sent, eras, lost, restarts>>

Next == Offer \/ Publish \/ Heartbeat \/ Restart \/ Lose \/ Receive

Spec == Init /\ [][Next]_vars

-----------------------------------------------------------------------------
\* A subscriber never reports more missing datagrams than were lost on the way to
\* it since it joined: publisher restarts, numbers heartbeats use up and the wrap of
\* the 32-bit count raise no false alarm.
GapsAreLosses == sub.gaps <= Cardinality({n \in lost : \E m \in heard : m < n})

\* Every datagram lost between two the subscriber heard is in its count, as long as
\* the publisher neither restarted nor wrapped in between.
SameEra(m, n) == eras \cap (m + 1)..n = {}
Noticeable ==
    {n \in lost : \E a, b \in heard : a < n /\ n < b /\ SameEra(a, b)}
LossesNoticed == Cardinality(Noticeable) <= sub.gaps
=============================================================================
