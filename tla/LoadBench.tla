------------------------------ MODULE LoadBench ------------------------------
(***************************************************************************)
(* lob_bench --mode load (measure_load of src/apps/bench/main.cpp): orders *)
(* are due on a schedule that does not wait for the engine, and each one's *)
(* response time, from when it was due, goes into a latency histogram.     *)
(***************************************************************************)
EXTENDS LatencyHistogram

CONSTANTS
    Gaps,          \* times between two arrivals of the schedule
    Services,      \* times process() may take
    MaxEvents      \* orders of a run, warm-up left out

VARIABLES
    now, sched,    \* the clock, and when the last order was due
    hist,          \* the histogram
    orders         \* history: gap and service time of each order

vars == <<now, sched, hist, orders>>

Init == now = 0 /\ sched = 0 /\ hist = Empty /\ orders = <<>>

\* Wait for the order's time if it is not past, process the order, record.
\* Mutant: from when the engine got to the order.
FromStart(gap, service) == service
ResponseTime(gap, service) == Max({now, sched + gap}) + service - (sched + gap)

Order(gap, service) ==
    /\ Len(orders) < MaxEvents
    /\ sched' = sched + gap
    /\ now' = Max({now, sched + gap}) + service
    /\ hist' = Record(hist, ResponseTime(gap, service))
    /\ orders' = Append(orders, [gap |-> gap, service |-> service])

Next == \E gap \in Gaps, service \in Services : Order(gap, service)

Spec == Init /\ [][Next]_vars

-----------------------------------------------------------------------------
(* What an open-loop client would have seen: the work that an order finds  *)
(* before it is what its predecessor found and brought, less the gap.      *)

Backlog[i \in DOMAIN orders] ==
    IF i = 1 THEN 0
    ELSE Max({0, Backlog[i - 1] + orders[i - 1].service - orders[i].gap})
Response == [i \in DOMAIN orders |-> Backlog[i] + orders[i].service]

Under(v) == Cardinality({i \in DOMAIN Response : Response[i] < v})
Exact(rank) == CHOOSE v \in ToSet(Response) : Under(v) < rank /\ rank <= Under(v + 1)
PercentileTrue(part, per) ==
    LET exact == Exact(Rank(part, per, Len(orders)))
        shown == Percentile(hist, part, per)
    IN Min({exact, Trackable - 1}) <= shown /\ Half * (shown - exact) <= exact

\* The latencies' number, sum, least and greatest are those of a client that does not
\* wait for the engine: mean(), min() and max() are of all orders, queueing included.
Total[i \in 0..Len(orders)] == IF i = 0 THEN 0 ELSE Total[i - 1] + Response[i]
SummaryTrue ==
    /\ hist.total = Len(orders) /\ hist.sum = Total[Len(orders)]
    /\ orders # <<>> => hist.min = Min(ToSet(Response)) /\ hist.max = Max(ToSet(Response))

HistogramOf(values) == FoldLeft(Record, Empty, values)

\* The latencies shown are those of a client that does not wait for the engine, its
\* queueing included: a percentile is never below the real one (up to the last value
\* there is a bucket for) and above it by no more than a sub-bucket; bins and chart
\* leave no sample out; histograms of two parts of a run merge into that of the run.
ResponseTimesTrue ==
    orders # <<>> =>
        /\ PercentileTrue(1, 2) /\ PercentileTrue(9, 10) /\ PercentileTrue(1, 1)
        /\ MapThenSumSet(LAMBDA b : b.count, Bins(hist)) = Len(orders)
        /\ FoldLeft(+, 0, LogBins(hist)) = Len(orders)
        /\ \A k \in DOMAIN orders :
              Merge(HistogramOf(SubSeq(Response, 1, k)),
                    HistogramOf(SubSeq(Response, k + 1, Len(orders)))) = hist
=============================================================================
