-------------------------- MODULE OperationMetrics --------------------------
(***************************************************************************)
(* OperationMetrics and LatencyMetrics of                                  *)
(* src/simulation/scripts/analysis/pq_analyzer.py (MetricsAggregator):    *)
(* one accumulator per PQ operation, the updates _process_log_entry makes  *)
(* to it, and calculate_stats.  Pure operators over the accumulator        *)
(* record; PQAnalyzer gives them state.                                    *)
(*                                                                         *)
(* Latencies arrive as JSON numbers and may be fractional: they are        *)
(* modelled in tenths of a microsecond, and int() truncates them.          *)
(***************************************************************************)
EXTENDS Integers, Sequences, FiniteSets, TLC, SequencesExt

CONSTANT SampleCap   \* replicate samples synthesised per summary line (100)

ASSUME SampleCap \in Nat \ {0}

\* int(avg_us) of a non-negative latency given in tenths of a microsecond.
IntUs(tenths) == tenths \div 10

\* OperationMetrics(name): no successes, no failures, no samples.
NewOperation == [successes |-> 0, failures |-> 0, latencies |-> <<>>]

\* A summary line {"operation": op, "count": count, "latency_avg_us": avg}
\* with count > 0: up to SampleCap copies of int(avg), and the count kept
\* as a cumulative total.
RecordSummary(om, count, avg) ==
    [om EXCEPT !.latencies = @ \o [i \in 1..Min({count, SampleCap}) |-> IntUs(avg)],
               !.successes = Max({@, count})]

\* A completion line restating a cumulative success or failure total.
RecordSuccesses(om, n) == [om EXCEPT !.successes = Max({@, n})]
RecordFailures(om, n) == [om EXCEPT !.failures = Max({@, n})]

\* A completion line's avg_<op>_latency_us: one sample, only while the
\* operation has none and only for a positive average.
RecordAverage(om, avg) ==
    IF om.latencies = <<>> /\ avg > 0
    THEN [om EXCEPT !.latencies = Append(@, IntUs(avg))]
    ELSE om

-----------------------------------------------------------------------------
(***************************************************************************)
(* calculate_stats.  The mean and throughput are rationals: they are kept  *)
(* as total_us / count and compared by cross-multiplication.               *)
(***************************************************************************)

\* sum(samples), grouped by value.
SumSamples(s) ==
    MapThenSumSet(LAMBDA v : v * Cardinality({i \in DOMAIN s : s[i] = v}), Range(s))

ZeroStats == [count |-> 0, total_us |-> 0, min_us |-> 0, max_us |-> 0,
              p50_us |-> 0, p95_us |-> 0, p99_us |-> 0]

\* percentile(p): idx = int(count * p / 100), clamped to [0, count - 1].
\* count * p is an integer, so the float division truncates exactly.
Percentile(sorted, p) ==
    LET n == Len(sorted)
    IN  sorted[Max({0, Min({(n * p) \div 100, n - 1})}) + 1]

\* Mutant of CalculateStats: percentiles read from the unsorted samples.
CalculateStatsUnsorted(om) ==
    IF om.latencies = <<>> THEN ZeroStats
    ELSE LET s == SortSeq(om.latencies, <)
         IN  [count |-> Len(s), total_us |-> SumSamples(s),
              min_us |-> s[1], max_us |-> s[Len(s)],
              p50_us |-> Percentile(om.latencies, 50),
              p95_us |-> Percentile(om.latencies, 95),
              p99_us |-> Percentile(om.latencies, 99)]

CalculateStats(om) ==
    IF om.latencies = <<>> THEN ZeroStats
    ELSE LET s == SortSeq(om.latencies, <)
         IN  [count |-> Len(s), total_us |-> SumSamples(s),
              min_us |-> s[1], max_us |-> s[Len(s)],
              p50_us |-> Percentile(s, 50),
              p95_us |-> Percentile(s, 95),
              p99_us |-> Percentile(s, 99)]

\* ops_per_sec >= t, where ops_per_sec = 1e6 / avg if avg > 0 else 0.
OpsPerSecAtLeast(st, t) ==
    IF st.total_us > 0 THEN 1000000 * st.count >= t * st.total_us
    ELSE 0 >= t

-----------------------------------------------------------------------------
(***************************************************************************)
(* Spec 4.3, as a definition: the nearest-rank percentile of a multiset of *)
(* samples is the sample value with at most k samples strictly below it    *)
(* and more than k at or below it, k = min(floor(count * p / 100),         *)
(* count - 1).  No sorting is involved.                                    *)
(***************************************************************************)
Rank(s, p) == Min({(Len(s) * p) \div 100, Len(s) - 1})
NearestRank(s, p) ==
    CHOOSE v \in Range(s) :
        /\ Cardinality({i \in DOMAIN s : s[i] < v}) <= Rank(s, p)
        /\ Rank(s, p) < Cardinality({i \in DOMAIN s : s[i] <= v})

=============================================================================
