------------------------------ MODULE Metrics ------------------------------
(***************************************************************************)
(* Metrics and its LatencyHistogram (src/utils/metrics.rs).  All access is *)
(* under one lock, so every operation is a step.                           *)
(***************************************************************************)
EXTENDS Integers, Sequences, FiniteSetsExt, SequencesExt

CONSTANTS
  Latencies,     \* latencies recorded, in ns
  Volumes,       \* volumes of the hedges recorded, signed
  MaxRecords     \* bound on the number of records

U64Max == 2147483647   \* stands for u64::MAX: larger than any latency

ASSUME MetricsAssumption == /\ Latencies \subseteq 0..(U64Max - 1)
                            /\ Volumes \subseteq Int /\ MaxRecords \in Nat

VARIABLES
  ticks_processed, total_tick_latency_ns, min_tick_latency_ns, max_tick_latency_ns,
  hedges_executed, total_hedge_volume,
  buckets,       \* latency_histogram
  recorded,      \* history: the latencies since the last reset
  volumes        \* history: the volumes since the last reset

metricsVars == <<ticks_processed, total_tick_latency_ns, min_tick_latency_ns,
                 max_tick_latency_ns, hedges_executed, total_hedge_volume,
                 buckets, recorded, volumes>>

\* Upper bounds of the buckets, the last of which has none.
Boundaries == [i \in 1..10 |-> i * 100] \o [i \in 1..9 |-> (i + 1) * 1000]
              \o [i \in 1..9 |-> (i + 1) * 10000]
BucketCount == Len(Boundaries) + 1

\* Metrics::new: the counters and what reset() writes into them.
MetricsInit ==
  /\ ticks_processed = 0 /\ total_tick_latency_ns = 0
  /\ min_tick_latency_ns = U64Max /\ max_tick_latency_ns = 0
  /\ hedges_executed = 0 /\ total_hedge_volume = 0
  /\ buckets = [b \in 1..BucketCount |-> 0]
  /\ recorded = << >> /\ volumes = << >>

\* Whether a latency belongs below a boundary; and off by one.
BelowOrAt(latency, boundary) == latency <= boundary
Below(latency, boundary) == latency < boundary
BucketOf(latency) ==
  SelectInSeq(Append(Boundaries, U64Max), LAMBDA b : Below(latency, b))

RecordTickLatency(latency) ==
  /\ Len(recorded) + Len(volumes) < MaxRecords
  /\ ticks_processed' = ticks_processed + 1
  /\ total_tick_latency_ns' = total_tick_latency_ns + latency
  /\ min_tick_latency_ns' = Min({min_tick_latency_ns, latency})
  /\ max_tick_latency_ns' = Max({max_tick_latency_ns, latency})
  /\ buckets' = [buckets EXCEPT ![BucketOf(latency)] = @ + 1]
  /\ recorded' = Append(recorded, latency)
  /\ UNCHANGED <<hedges_executed, total_hedge_volume, volumes>>

RecordHedgeExecution(volume) ==
  /\ Len(recorded) + Len(volumes) < MaxRecords
  /\ hedges_executed' = hedges_executed + 1
  /\ total_hedge_volume' = total_hedge_volume + (IF volume >= 0 THEN volume ELSE -volume)
  /\ volumes' = Append(volumes, volume)
  /\ UNCHANGED <<ticks_processed, total_tick_latency_ns, min_tick_latency_ns,
                 max_tick_latency_ns, buckets, recorded>>

Reset ==
  /\ ticks_processed' = 0 /\ total_tick_latency_ns' = 0
  /\ min_tick_latency_ns' = U64Max /\ max_tick_latency_ns' = 0
  /\ hedges_executed' = 0 /\ total_hedge_volume' = 0
  /\ buckets' = [b \in 1..BucketCount |-> 0]
  /\ recorded' = << >> /\ volumes' = << >>

MetricsNext ==
  \/ \E latency \in Latencies : RecordTickLatency(latency)
  \/ \E volume \in Volumes : RecordHedgeExecution(volume)
  \/ Reset

MetricsSpec == MetricsInit /\ [][MetricsNext]_metricsVars

-----------------------------------------------------------------------------
(***************************************************************************)
(* What summary() reports.                                                 *)
(***************************************************************************)
AvgLatency == IF ticks_processed = 0 THEN 0 ELSE total_tick_latency_ns \div ticks_processed
MinLatency == IF min_tick_latency_ns = U64Max THEN 0 ELSE min_tick_latency_ns

SamplesUpTo(b) == FoldFunctionOnSet(LAMBDA x, y : x + y, 0, buckets, 1..b)

\* Reported for a bucket: the middle of the first, the upper bound of the
\* others, the lower bound of the last.
ReportedFor(b) == IF b = 1 THEN Boundaries[1] \div 2
                  ELSE Boundaries[Min({b, Len(Boundaries)})]

\* The rank of the sample that is the percentile.
Rank(percent) == (SamplesUpTo(BucketCount) * percent) \div 100

LatencyPercentile(percent) ==
  IF SamplesUpTo(BucketCount) = 0 THEN 0
  ELSE ReportedFor(Min({b \in 1..BucketCount : SamplesUpTo(b) >= Rank(percent)}))

-----------------------------------------------------------------------------
\* The k-th smallest of the latencies recorded.
UpTo(x) == Cardinality({i \in DOMAIN recorded : recorded[i] <= x})
Smallest(k) == Min({x \in Range(recorded) : UpTo(x) >= k})

\* Above the sample, and at most twice as large.
Near(reported, sample) ==
  CASE sample < 100     -> reported = 50
    [] sample >= 100000 -> reported = 100000
    [] OTHER            -> sample < reported /\ reported <= 2 * sample

(***************************************************************************)
(* The summary is that of the latencies recorded since the last reset: a   *)
(* percentile is above the sample of that rank and at most twice as large, *)
(* between 100 ns, below which it is 50, and 100 us.  Only a rank of 0,    *)
(* with too few samples, is reported as 50 whatever they are.              *)
(***************************************************************************)
SummaryOfTheLatencies ==
  /\ recorded # << >> =>
       /\ MinLatency = Smallest(1) /\ max_tick_latency_ns = Smallest(Len(recorded))
       /\ MinLatency <= AvgLatency /\ AvgLatency <= max_tick_latency_ns
       /\ LatencyPercentile(50) <= LatencyPercentile(95)
       /\ LatencyPercentile(95) <= LatencyPercentile(99)
  /\ \A percent \in {50, 95, 99} :
       LET k == (Len(recorded) * percent) \div 100
       IN IF k > 0 THEN Near(LatencyPercentile(percent), Smallest(k))
          ELSE LatencyPercentile(percent) = IF recorded = << >> THEN 0 ELSE 50
  /\ hedges_executed = Len(volumes)
  /\ LET net == SumFunction(volumes)
     IN net <= total_hedge_volume /\ -net <= total_hedge_volume
=============================================================================
