----------------------------- MODULE Exposition -----------------------------
(***************************************************************************)
(* What the two reporters make of the metrics of an item: the report that  *)
(* DefaultConsoleReporter prints (src/src/metrics.rs), without what it     *)
(* divides by the time, and the registry that PrometheusReporter fills     *)
(* before it pushes it (src/src/prometheus_reporter.rs).  The names of the *)
(* gauges are left out but for the series they tell apart.                 *)
(***************************************************************************)
EXTENDS Metrics

\* The upper bounds of a prometheus histogram: the buckets that have samples.
Bounds(h) == {b \in Buckets : h[b] > 0}

\* A mutation: an observation goes to the bounds above it only.
BoundsAbove(h, value) == {u \in Bounds(h) : u > value}

\* observe counts a value at the least bound that is not below it.
BoundsFor(h, value) == {u \in Bounds(h) : u >= value}

\* The observations at each bound, when every sample is observed at the start
\* of its bucket.
Observed(h) ==
  [u \in Bounds(h) |->
     Samples(h, {b \in Bounds(h) : BoundsFor(h, b) # {} /\ Min(BoundsFor(h, b)) = u})]

\* The series of a histogram add up from the lowest bound.
Cumulative(h) ==
  [u \in Bounds(h) |-> SumOver(Observed(h), {v \in Bounds(h) : v <= u})]

\* register_histogram, and the gauges register_histogram_precalculated adds; an
\* empty histogram has them zero.
HistogramSeries(h) ==
  [le |-> Cumulative(h),
   quantiles |-> [k \in DOMAIN Percentiles |->
                    IF Count(h) = 0 THEN 0 ELSE Percentile(h, Percentiles[k])],
   min |-> IF Count(h) = 0 THEN 0 ELSE Minimum(h),
   max |-> IF Count(h) = 0 THEN 0 ELSE Maximum(h),
   mean |-> IF Count(h) = 0 THEN 0 ELSE Mean(h),
   stddev |-> IF Count(h) = 0 THEN 0 ELSE StdDev(h),
   truncated |-> [t \in Thresholds |-> IF Count(h) = 0 THEN 0 ELSE TruncatedMean(h, t)]]

\* build_registry
Registry(item) ==
  [request_count |-> item.total_requests,
   success_count |-> item.successful_requests,
   bytes_count |-> item.total_bytes,
   response_codes |-> item.summary,
   success_latency |-> HistogramSeries(item.success_latency),
   throughput |-> HistogramSeries(item.throughput),
   error_latency |-> HistogramSeries(item.error_latency),
   latency |-> HistogramSeries(Latency(item))]

\* latency_summary, of an item with requests.
LatencySummary(item) ==
  LET h == Latency(item)
  IN  [min |-> Minimum(h), max |-> Maximum(h), mean |-> Mean(h),
       quantiles |-> [k \in DOMAIN Percentiles |-> Percentile(h, Percentiles[k])],
       stddev |-> StdDev(h),
       truncated |-> [t \in Thresholds |-> TruncatedMean(h, t)]]

\* build_item_report; the rate is in percent, cut off.
ItemReport(item) ==
  [total_bytes |-> item.total_bytes,
   total_requests |-> item.total_requests,
   success_rate |-> IF item.total_requests > 0
                    THEN (item.successful_requests * 100) \div item.total_requests ELSE 0,
   response_codes |-> item.summary,
   latency |-> LatencySummary(item)]

-----------------------------------------------------------------------------
\* Properties.

(* The series of an item agree with each other and with the samples: each
   bound of a histogram has all the samples up to it, the histograms of all
   latencies and of the throughput reach request_count and success_count at
   their highest bounds, and every quantile is one of the bounds; and the
   gateway is told what the console prints (prometheus_reporter.rs 85-265,
   metrics.rs 282-330, 453-477). *)
SeriesAgree ==
  \A i \in Used :
    LET r == Registry(i)
        printed == ItemReport(i)
        all == Latency(i)
    IN  /\ \A u \in Bounds(all) : r.latency.le[u] = AtMost(all, u)
        /\ r.latency.le[r.latency.max] = r.request_count
        /\ r.success_count > 0 =>
             /\ r.success_latency.le[r.success_latency.max] = r.success_count
             /\ r.throughput.le[r.throughput.max] = r.success_count
        /\ \A k \in DOMAIN Percentiles : r.latency.quantiles[k] \in DOMAIN r.latency.le
        /\ r.latency.min <= r.success_latency.min \/ r.success_count = 0
        /\ r.error_latency.max <= r.latency.max
        /\ \A f \in DOMAIN printed.latency : r.latency[f] = printed.latency[f]
        /\ printed.success_rate \in 0..100
        /\ printed.success_rate = 100 <=> DOMAIN r.error_latency.le = {}
=============================================================================
