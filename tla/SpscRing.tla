------------------------------ MODULE SpscRing ------------------------------
(***************************************************************************)
(* SpscRing<T> (include/lob/spsc_ring.hpp): the producer's try_push and    *)
(* the consumer's try_pop, interleaved at each access to what the two      *)
(* threads share.  Each thread keeps a cached copy of the other's index.   *)
(*                                                                         *)
(* An acquire load of the other thread's index may return any value that   *)
(* index held since the last one this thread read: coherence allows no     *)
(* older one, and C++ does not promise the newest.                         *)
(***************************************************************************)
EXTENDS Integers, Sequences

CONSTANTS
    MinCapacity,    \* the constructor's argument
    Capacity,       \* what it is rounded up to
    Item,           \* the values that go through the ring
    NoItem          \* a default-constructed T

\* The constructor doubles from 2 until the argument fits.
ASSUME CapacityAssumption ==
    /\ MinCapacity \in Nat /\ Capacity \in Nat
    /\ Capacity >= 2 /\ Capacity >= MinCapacity
    /\ Capacity > 2 => Capacity < 2 * MinCapacity
    /\ \E k \in 1..Capacity : Capacity = 2^k
ASSUME ItemAssumption == NoItem \notin Item

VARIABLES
    buf,          \* buf_
    head, tail,   \* head_, tail_
    tailCache,    \* tail_cache_, the producer's view of tail
    headCache,    \* head_cache_, the consumer's view of head
    ppc,          \* where try_push is: idle, full?, write, publish
    value,        \* its argument v
    cpc,          \* where try_pop is: idle, empty?, read, free
    copy,         \* the consumer's out parameter
    got           \* what the last successful try_pop returned

producerVars == <<head, tailCache, ppc, value>>
consumerVars == <<tail, headCache, cpc, copy, got>>
vars == <<buf, producerVars, consumerVars>>

Index == 0..(Capacity - 1)

\* (i + 1) & mask_
Succ(i) == IF i + 1 = Capacity THEN 0 ELSE i + 1

\* (j - i) & mask_: how many steps j is ahead of i.
Distance(i, j) == IF i <= j THEN j - i ELSE j - i + Capacity
Forward(i, k) == IF i + k < Capacity THEN i + k ELSE i + k - Capacity

\* The values an index can be seen to have by a thread that last saw `seen`.
Visible(seen, now) == {j \in Index : Distance(seen, j) <= Distance(seen, now)}

Init ==
    /\ buf = [i \in Index |-> NoItem]
    /\ head = 0 /\ tail = 0 /\ tailCache = 0 /\ headCache = 0
    /\ ppc = "idle" /\ value = NoItem
    /\ cpc = "idle" /\ copy = NoItem /\ got = NoItem

-----------------------------------------------------------------------------
(* try_push.                                                               *)

\* The full test against the cached tail.
\* Mutant: no test.
StartPushUntested(v) ==
    /\ ppc = "idle"
    /\ value' = v
    /\ ppc' = "write"
    /\ UNCHANGED <<buf, head, tailCache, consumerVars>>
StartPush(v) ==
    /\ ppc = "idle"
    /\ value' = v
    /\ ppc' = IF Succ(head) = tailCache THEN "full?" ELSE "write"
    /\ UNCHANGED <<buf, head, tailCache, consumerVars>>

\* It says full: reload tail, and give up if it still does.
\* Mutant: the value loaded is used but not kept.
ReloadTailOnce(t) ==
    /\ ppc = "full?" /\ t \in Visible(tailCache, tail)
    /\ ppc' = "idle"
    /\ UNCHANGED <<buf, head, tailCache, value, consumerVars>>
ReloadTail(t) ==
    /\ ppc = "full?" /\ t \in Visible(tailCache, tail)
    /\ tailCache' = t
    /\ ppc' = IF Succ(head) = t THEN "idle" ELSE "write"
    /\ UNCHANGED <<buf, head, value, consumerVars>>

\* Mutant: the item goes one slot too far.
WriteNextSlot ==
    /\ ppc = "write"
    /\ buf' = [buf EXCEPT ![Succ(head)] = value]
    /\ ppc' = "publish"
    /\ UNCHANGED <<head, tailCache, value, consumerVars>>
WriteSlot ==
    /\ ppc = "write"
    /\ buf' = [buf EXCEPT ![head] = value]
    /\ ppc' = "publish"
    /\ UNCHANGED <<head, tailCache, value, consumerVars>>

PublishHead ==
    /\ ppc = "publish"
    /\ head' = Succ(head)
    /\ ppc' = "idle"
    /\ UNCHANGED <<buf, tailCache, value, consumerVars>>

-----------------------------------------------------------------------------
(* try_pop.                                                                *)

\* The empty test against the cached head.
StartPop ==
    /\ cpc = "idle"
    /\ cpc' = IF tail = headCache THEN "empty?" ELSE "read"
    /\ UNCHANGED <<buf, producerVars, tail, headCache, copy, got>>

\* Mutant: the value loaded is used but not kept.
ReloadHeadOnce(h) ==
    /\ cpc = "empty?" /\ h \in Visible(headCache, head)
    /\ cpc' = "idle"
    /\ UNCHANGED <<buf, producerVars, tail, headCache, copy, got>>
ReloadHead(h) ==
    /\ cpc = "empty?" /\ h \in Visible(headCache, head)
    /\ headCache' = h
    /\ cpc' = IF tail = h THEN "idle" ELSE "read"
    /\ UNCHANGED <<buf, producerVars, tail, copy, got>>

ReadSlot ==
    /\ cpc = "read"
    /\ copy' = buf[tail]
    /\ cpc' = "free"
    /\ UNCHANGED <<buf, producerVars, tail, headCache, got>>

FreeTail ==
    /\ cpc = "free"
    /\ tail' = Succ(tail)
    /\ got' = copy
    /\ cpc' = "idle"
    /\ UNCHANGED <<buf, producerVars, headCache, copy>>

-----------------------------------------------------------------------------
PushStep == (\E t \in Index : ReloadTail(t)) \/ WriteSlot \/ PublishHead
PopStep == StartPop \/ (\E h \in Index : ReloadHead(h)) \/ ReadSlot \/ FreeTail

Next == (\E v \in Item : StartPush(v)) \/ PushStep \/ PopStep

Spec == Init /\ [][Next]_vars

\* Both threads call the ring over and over, and a load does not return an old
\* value for ever.
FreshTail == ppc = "full?" /\ ReloadTail(tail)
FreshHead == cpc = "empty?" /\ ReloadHead(head)
Consuming == WF_vars(PopStep) /\ SF_vars(FreshHead)
Producing == WF_vars(\E v \in Item : StartPush(v)) /\ WF_vars(PushStep) /\ SF_vars(FreshTail)

FairSpec == Spec /\ Consuming /\ Producing

-----------------------------------------------------------------------------
(* Properties.                                                             *)

\* Every variable holds a value of its C++ type, and the indices stay in buf_.
TypeOK ==
    /\ buf \in [Index -> Item \cup {NoItem}]
    /\ head \in Index /\ tail \in Index
    /\ tailCache \in Index /\ headCache \in Index
    /\ ppc \in {"idle", "full?", "write", "publish"}
    /\ value \in Item \cup {NoItem}
    /\ ppc # "idle" => value \in Item
    /\ cpc \in {"idle", "empty?", "read", "free"}
    /\ copy \in Item \cup {NoItem} /\ got \in Item \cup {NoItem}

\* buf_ is not atomic: the producer never writes the slot the consumer reads,
\* however old the cached indices either decided on are.
NoSlotRace == ~(ppc = "write" /\ cpc = "read" /\ head = tail)

Occupancy == Distance(tail, head)
Items == [k \in 1..Occupancy |-> buf[Forward(tail, k - 1)]]

Fifo == INSTANCE BoundedFifo WITH
    items <- Items, got <- got, Room <- Capacity - 1, Nothing <- NoItem

\* Through the ring every item comes out once, whole and in order, and at most
\* Capacity - 1 are in it: a push takes effect at the store of head_, a pop at the
\* store of tail_.
ImplementsFifo == Fifo!Spec

\* With a consumer that keeps popping (run_engine, run_publisher, the gateway's
\* drain) what is in the ring comes out: tail_ reaches every head_ it trails.
Drains == \A i \in Index : (head = i) ~> (tail = i)

\* A producer that retries, as the bounded spins of the gateway and of push_exec
\* do, is not locked out: its cached tail does not stay stale.
PushGetsThrough == []<>(ppc = "publish")
=============================================================================
