-------------------------- MODULE LatencyHistogram --------------------------
(***************************************************************************)
(* src/include/lob/latency_histogram.hpp: log-linear buckets, each half a  *)
(* power of two of sub-buckets wide.  The double arithmetic of percentile  *)
(* and of the chart's edges is taken as exact.                             *)
(***************************************************************************)
EXTENDS Integers, SequencesExt

CONSTANTS
    HalfMag,       \* sub_half_mag_, from the significant figures
    Highest,       \* the constructor's `highest`
    ChartEdges     \* powers of 10^(1/per_decade) from 1 up, in hundredths

Half == 2^HalfMag
BucketCount == CHOOSE n \in 1..(Highest + 1) :
    Highest <= Half * 2^n /\ \A m \in 1..(n - 1) : Half * 2^m < Highest
LastCount == (BucketCount + 1) * Half - 1     \* counts_.size() - 1
Counts == 0..LastCount
Trackable == Half * 2^BucketCount      \* the first value no bucket is for

\* The bucket's number is the position of the leading bit past sub_mask_.
Bucket(v) == CHOOSE b \in 0..v : v < Half * 2^(b + 1) /\ (b = 0 \/ Half * 2^b <= v)
CountsIndex(v) == (Bucket(v) + 1) * Half + v \div 2^Bucket(v) - Half

BucketOf(i) == Max({i \div Half - 1, 0})
ValueFromIndex(i) ==
    IF i < Half THEN i ELSE ((i % Half) + Half) * 2^BucketOf(i)
HighestEquivalent(i) == ValueFromIndex(i) + 2^BucketOf(i) - 1

None == -1     \* stands for UINT64_MAX, the min_ of an empty histogram
\* Mutant: min_ starts at 0 and stays there.
EmptyAtZero == [counts |-> [i \in Counts |-> 0], total |-> 0, sum |-> 0, min |-> 0, max |-> 0]
Empty == [counts |-> [i \in Counts |-> 0], total |-> 0, sum |-> 0, min |-> None, max |-> 0]

\* A value past the last bucket is counted in it.
Record(h, v) ==
    LET i == Min({CountsIndex(v), LastCount}) IN
    [counts |-> [h.counts EXCEPT ![i] = @ + 1], total |-> h.total + 1, sum |-> h.sum + v,
     min |-> IF h.min = None THEN v ELSE Min({h.min, v}), max |-> Max({h.max, v})]

Merge(h, g) ==
    [counts |-> [i \in Counts |-> h.counts[i] + g.counts[i]],
     total |-> h.total + g.total, sum |-> h.sum + g.sum,
     min |-> CASE h.min = None -> g.min
               [] g.min = None -> h.min
               [] OTHER -> Min({h.min, g.min}),
     max |-> Max({h.max, g.max})]

CountUpTo(h, i) == SumFunctionOnSet(h.counts, 0..i)

\* Of `per` parts of all samples, the `part`-th; at least the first sample.
Rank(part, per, n) == Max({1, (part * n + per - 1) \div per})
Percentile(h, part, per) ==
    IF h.total = 0 THEN 0
    ELSE HighestEquivalent(CHOOSE i \in Counts :
            /\ CountUpTo(h, i) >= Rank(part, per, h.total)
            /\ \A j \in 0..(i - 1) : CountUpTo(h, j) < Rank(part, per, h.total))

\* bins(): the populated sub-buckets.
Bins(h) == {[lo |-> ValueFromIndex(i), hi |-> HighestEquivalent(i), count |-> h.counts[i]] :
                i \in {i \in Counts : h.counts[i] > 0}}

\* log_bins(): the same samples between the edges of a chart, up to max + 1.
Edges(h) ==
    Append(SelectSeq(ChartEdges, LAMBDA e : e < 100 * (h.max + 1)), 100 * (h.max + 1))
ChartBin(h, v) ==
    Max({1} \cup {k \in DOMAIN Edges(h) : Edges(h)[k] <= 100 * v})
LogBins(h) ==
    IF h.total = 0 THEN <<>>
    ELSE [k \in 1..(Len(Edges(h)) - 1) |->
            SumFunctionOnSet(h.counts,
                              {i \in Counts : ChartBin(h, ValueFromIndex(i)) = k})]
=============================================================================
