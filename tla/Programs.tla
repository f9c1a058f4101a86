------------------------------ MODULE Programs ------------------------------
(***************************************************************************)
(* The programs that stand beside the server, one of which runs:           *)
(* md_simulator as the order-entry client or as the market-data subscriber *)
(* (main() of src/apps/md_simulator/main.cpp decides once, from --mode),   *)
(* and the open-loop benchmark of lob_bench.                               *)
(***************************************************************************)
EXTENDS Integers, SequencesExt

CONSTANTS
    MaxLive, Room, MaxCommands, MaxReports,              \* see OrderEntry
    HeaderSize, FrameSize, Garbage,                      \* see OrderEntry
    RingSize, Wrap, InFlight, MaxDatagrams, MaxRestarts, \* see Feed
    Gaps, Services, MaxEvents,                           \* see LoadBench
    HalfMag, Highest, ChartEdges                         \* see LatencyHistogram

ASSUME ProgramsAssumption ==
    /\ {MaxLive, Room, MaxCommands, MaxReports, MaxEvents} \subseteq Nat
    /\ {RingSize, InFlight, MaxDatagrams, MaxRestarts, Highest} \subseteq Nat
    /\ HeaderSize \in Nat \ {0} /\ Garbage \subseteq [length : Nat, fits : BOOLEAN]
    /\ FrameSize \in [{"New", "Cancel", "Modify", "Report"} -> Nat]
    /\ \A type \in DOMAIN FrameSize : FrameSize[type] >= HeaderSize
    /\ Gaps \subseteq Nat /\ Services \subseteq Nat
    /\ Wrap \in Nat \ {0, 1} /\ HalfMag \in Nat \ {0}

VARIABLES
    mode,      \* the program that runs
    gen, issued, clean, short, up, down, in, out, decoded, reported, rx, seen,
    ring, seq, net, sub, sent, eras, heard, lost, restarts,
    now, sched, hist, orders

flowVars == <<gen, issued, clean, short, up, down, in, out, decoded, reported, rx, seen>>
feedVars == <<ring, seq, net, sub, sent, eras, heard, lost, restarts>>
loadVars == <<now, sched, hist, orders>>
vars == <<mode, flowVars, feedVars, loadVars>>

Flow == INSTANCE OrderEntry
Subscription == INSTANCE Feed
Load == INSTANCE LoadBench

Init ==
    /\ mode \in {"flow", "subscribe", "load"}
    /\ Flow!Init /\ Subscription!Init /\ Load!Init

RunFlow == mode = "flow" /\ Flow!Next /\ UNCHANGED <<mode, feedVars, loadVars>>
RunSubscribe ==
    mode = "subscribe" /\ Subscription!Next /\ UNCHANGED <<mode, flowVars, loadVars>>
RunLoad == mode = "load" /\ Load!Next /\ UNCHANGED <<mode, flowVars, feedVars>>

Next == RunFlow \/ RunSubscribe \/ RunLoad

Spec == Init /\ [][Next]_vars

-----------------------------------------------------------------------------
\* Both directions of the order-entry stream are read back as they were written
\* (gateway decode loop and flush, run_flow's pump): see OrderEntry.
FramesArriveWhole == Flow!FramesArriveWhole

\* The generator is done with an order it canceled (order_flow.cpp): see OrderEntry.
CancelledForGood == Flow!CancelledForGood

\* The subscriber raises no false alarm (run_subscribe's gap count): see Feed.
GapsAreLosses == Subscription!GapsAreLosses

\* The subscriber misses no loss it could see (run_subscribe's gap count): see Feed.
LossesNoticed == Subscription!LossesNoticed

\* The latencies lob_bench shows are true (measure_load, LatencyHistogram): see
\* LoadBench.
ResponseTimesTrue == Load!ResponseTimesTrue

\* The mean and the extremes lob_bench shows are true (record, mean): see LoadBench.
SummaryTrue == Load!SummaryTrue
=============================================================================
