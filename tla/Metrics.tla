------------------------------ MODULE Metrics ------------------------------
(***************************************************************************)
(* The metrics of a batch and what the reporters compute of them:          *)
(* BenchRunMetrics, the percentiles and means in src/src/metrics.rs.       *)
(*                                                                         *)
(* A histogram maps the start of each of its buckets to a count.  The      *)
(* share of a percentile is counted in 1/Whole.  The number of samples     *)
(* below a percentile is the one f64 gives; the means are exact.           *)
(***************************************************************************)
EXTENDS Integers, Sequences, FiniteSetsExt, Counting

CONSTANTS
  Buckets,       \* starts of the buckets, in microseconds and in bytes a second
  Second,        \* microseconds of a second, 1_000_000 in the code
  Requests,      \* the RequestStats that occur
  Combined,      \* the item that counts every request
  Operations,    \* operation names
  CounterLimit,  \* a counter of the summary is below, 2^31 in the code
  Percentiles,   \* those reported, <<5000, 9000, 9500, 9900, 9990, 9999>>
  Thresholds,    \* those of the truncated means, {500, 100, 10}
  RoundedUp,     \* <<n, p>> of which f64 puts n * p / Whole above the integer it is
  MaxRequests    \* bound on the requests of the batch

Whole  == 10000  \* a share of all samples
Middle == 5000   \* where the code starts counting from the top

Unnamed == "unnamed"  \* operation_name is None

Statuses == {r.status : r \in Requests}

ASSUME MetricsAssumption ==
  /\ 0 \in Buckets /\ Buckets \subseteq Nat /\ IsFiniteSet(Buckets)
  /\ Second \in Nat \ {0}
  /\ \A r \in Requests :
       /\ r.is_success \in BOOLEAN /\ r.bytes_processed \in Nat
       /\ r.duration \in Buckets /\ r.operation_name \in Operations \cup {Unnamed}
  /\ Combined \notin Operations
  /\ IsFiniteSet(Operations) /\ IsFiniteSet(Statuses)
  /\ CounterLimit \in Nat \ {0}
  /\ Percentiles \in Seq(1..Whole)
  /\ \A k \in 1..(Len(Percentiles) - 1) : Percentiles[k] <= Percentiles[k + 1]
  /\ Thresholds \subseteq 1..(Middle - 1)
  /\ RoundedUp \subseteq (Nat \X (1..Whole))
  /\ MaxRequests \in Nat

VARIABLE
  metrics  \* the item of every operation, and Combined

NoSamples == [b \in Buckets |-> 0]

NewItem == [total_requests |-> 0, successful_requests |-> 0, total_bytes |-> 0,
            summary |-> [s \in Statuses |-> 0], throughput |-> NoSamples,
            success_latency |-> NoSamples, error_latency |-> NoSamples]

TypeOK ==
  metrics \in [Operations \cup {Combined} ->
    [total_requests : Nat, successful_requests : Nat, total_bytes : Nat,
     summary : [Statuses -> (-CounterLimit)..(CounterLimit - 1)], throughput : [Buckets -> Nat],
     success_latency : [Buckets -> Nat], error_latency : [Buckets -> Nat]]]

\* The operations are inserted with their first request; an item without
\* requests stands for one that is missing.
Init == metrics = [o \in Operations \cup {Combined} |-> NewItem]

\* An i32 in two's complement, as a release build adds.
AddOne(n) == ((n + 1 + CounterLimit) % (2 * CounterLimit)) - CounterLimit

\* The bucket of a value.
BucketOf(value) == Max({b \in Buckets : b <= value})

Increment(histogram, value) == [histogram EXCEPT ![BucketOf(value)] = @ + 1]

\* Bytes a second.  Of a request that took no measurable time the quotient is
\* infinite, which the cast to u64 makes its largest value, or no number,
\* which it makes zero.
Throughput(r) ==
  IF r.duration > 0 THEN (r.bytes_processed * Second) \div r.duration
  ELSE IF r.bytes_processed > 0 THEN Max(Buckets) ELSE 0

\* A mutation: a failure takes back a success.
ReportFailureTakesBack(item, r) ==
  [total_requests |-> item.total_requests + 1,
   successful_requests |-> item.successful_requests + (IF r.is_success THEN 1 ELSE -1),
   total_bytes |-> item.total_bytes + r.bytes_processed,
   summary |-> [item.summary EXCEPT ![r.status] = AddOne(@)],
   throughput |-> IF r.is_success THEN Increment(item.throughput, Throughput(r))
                                  ELSE item.throughput,
   success_latency |-> IF r.is_success THEN Increment(item.success_latency, r.duration)
                                       ELSE item.success_latency,
   error_latency |-> IF r.is_success THEN item.error_latency
                                     ELSE Increment(item.error_latency, r.duration)]

\* BenchRunMetricsItem::report_request.
ReportItem(item, r) ==
  [total_requests |-> item.total_requests + 1,
   successful_requests |-> item.successful_requests + (IF r.is_success THEN 1 ELSE 0),
   total_bytes |-> item.total_bytes + r.bytes_processed,
   summary |-> [item.summary EXCEPT ![r.status] = AddOne(@)],
   throughput |-> IF r.is_success THEN Increment(item.throughput, Throughput(r))
                                  ELSE item.throughput,
   success_latency |-> IF r.is_success THEN Increment(item.success_latency, r.duration)
                                       ELSE item.success_latency,
   error_latency |-> IF r.is_success THEN item.error_latency
                                     ELSE Increment(item.error_latency, r.duration)]

\* A mutation: a named request is not counted in the combined item.
ReportToOneItem(r) ==
  LET to == IF r.operation_name = Unnamed THEN Combined ELSE r.operation_name
  IN  metrics' = [metrics EXCEPT ![to] = ReportItem(@, r)]

\* BenchRunMetrics::report_request.
ReportRequest(r) ==
  metrics' = [o \in DOMAIN metrics |->
               IF o \in {Combined, r.operation_name} THEN ReportItem(metrics[o], r)
                                                     ELSE metrics[o]]

BatchOver ==
  /\ metrics[Combined].total_requests = MaxRequests
  /\ UNCHANGED metrics

Next ==
  \/ /\ metrics[Combined].total_requests < MaxRequests
     /\ \E r \in Requests : ReportRequest(r)
  \/ BatchOver

Spec == Init /\ [][Next]_metrics

-----------------------------------------------------------------------------
\* Statistics of a histogram.

Samples(h, S) == SumOver(h, S)
Weight(h, S)  == SumOver([b \in S |-> b * h[b]], S)

Count(h)      == Samples(h, Buckets)
AtMost(h, b)  == Samples(h, {c \in Buckets : c <= b})
AtLeast(h, b) == Samples(h, {c \in Buckets : c >= b})

\* checked_add of histograms of the same parameters.
Merge(h1, h2) == [b \in Buckets |-> h1[b] + h2[b]]

Minimum(h) == Min({b \in Buckets : h[b] > 0})
Maximum(h) == Max({b \in Buckets : h[b] > 0})

Ceil(a, b) == (a + b - 1) \div b

\* The ceiling of n * (p / Whole) in f64.  A quotient that is no integer is
\* 1/Whole or more from the next one, far more than f64 is off; one that is an
\* integer may come out a little above it: 99.9% of 2000 samples are 1999.
Share(n, p) ==
  Ceil(n * p, Whole) + (IF <<n, p>> \in RoundedUp /\ (n * p) % Whole = 0 THEN 1 ELSE 0)

Need(n, p) == Max({1, Min({n, Share(n, p)})})

\* A mutation: the top of the histogram may be asked for no sample.
FromAboveOrNone(h, need) ==
  Max({b \in Buckets : AtLeast(h, b) >= Count(h) - need})

\* The first bucket from the top that has the samples above the percentile,
\* or one.
FromAbove(h, need) ==
  Max({b \in Buckets : AtLeast(h, b) >= Max({1, Count(h) - need})})

FromBelow(h, need) == Min({b \in Buckets : AtMost(h, b) >= need})

\* get_percentile, of a histogram with samples.
Percentile(h, p) ==
  IF p < Middle THEN FromBelow(h, Need(Count(h), p)) ELSE FromAbove(h, Need(Count(h), p))

Mean(h) == Ceil(Weight(h, Buckets), Count(h))

Square(x) == x * x

\* The standard deviation, rounded, halves up: the largest s that is not above
\* the root of the variance by more than a half.
StdDev(h) ==
  LET n == Count(h)
      squares == SumOver([b \in Buckets |-> Square(b) * h[b]], Buckets)
      variance == n * squares - Square(Weight(h, Buckets))  \* times n^2
  IN  Max({0} \cup {s \in 1..Maximum(h) : Square((2 * s - 1) * n) <= 4 * variance})

\* A mutation: the buckets of the two percentiles are ignored as well.
KeptInside(h, threshold) ==
  {b \in Buckets : b > Percentile(h, threshold) /\ b < Percentile(h, Whole - threshold)}

\* The buckets a truncated mean does not ignore.
Kept(h, threshold) ==
  {b \in Buckets : b >= Percentile(h, threshold) /\ b <= Percentile(h, Whole - threshold)}

\* truncated_mean, where it has data points.
TruncatedMean(h, threshold) ==
  Weight(h, Kept(h, threshold)) \div Samples(h, Kept(h, threshold))

\* The histogram latency_summary works on.
Latency(item) == Merge(item.success_latency, item.error_latency)

-----------------------------------------------------------------------------
\* Properties, of every item that has requests.

Items == {metrics[o] : o \in DOMAIN metrics}
Used  == {i \in Items : i.total_requests > 0}

(* Every request is in one latency histogram, by its outcome, the successful
   ones have their throughput in the other histogram, and all are in one
   counter of the summary, which are right as long as they do not overflow
   (metrics.rs 212-232). *)
Accounted ==
  \A i \in Items :
    /\ Count(i.success_latency) = i.successful_requests
    /\ Count(i.throughput) = i.successful_requests
    /\ Count(Latency(i)) = i.total_requests
    /\ i.total_requests < CounterLimit =>
         SumOver(i.summary, Statuses) = i.total_requests

(* The items of the operations never add up to more than the combined one,
   and to as much if every request has a name (metrics.rs 186-194). *)
OperationsAddUp ==
  LET named == SumOver([o \in Operations |-> metrics[o].total_requests], Operations)
      bytes == SumOver([o \in Operations |-> metrics[o].total_bytes], Operations)
  IN  /\ named <= metrics[Combined].total_requests
      /\ bytes <= metrics[Combined].total_bytes
      /\ (\A r \in Requests : r.operation_name # Unnamed)
           => named = metrics[Combined].total_requests /\ bytes = metrics[Combined].total_bytes

(* A percentile splits the samples: its share of them lies at or below it and
   the rest of them, but for one at most, at or above it, whichever end the
   code counts from and however f64 rounds the share (metrics.rs 30-67). *)
PercentileSplits ==
  \A i \in Used : \A p \in Thresholds \cup {Percentiles[k] : k \in DOMAIN Percentiles} :
    LET h == Latency(i)
        v == Percentile(h, p)
    IN  /\ AtMost(h, v) * Whole >= Count(h) * p
        /\ (AtLeast(h, v) + 1) * Whole >= Count(h) * (Whole - p)
        /\ h[v] > 0

(* The reported latencies grow from Min to Max along the percentiles, the means
   lie between, and the standard deviation is at most half of the range, up to
   its rounding (metrics.rs 282-330). *)
SummaryOrdered ==
  \A i \in Used :
    LET h == Latency(i)
    IN  /\ \A k \in 1..(Len(Percentiles) - 1) :
             Percentile(h, Percentiles[k]) <= Percentile(h, Percentiles[k + 1])
        /\ Percentile(h, 9999) <= Maximum(h)
        /\ Mean(h) \in Minimum(h)..Maximum(h)
        /\ 2 * StdDev(h) <= Maximum(h) - Minimum(h) + 1
        /\ \A t \in Thresholds : TruncatedMean(h, t) \in Minimum(h)..Maximum(h)

(* A truncated mean ignores at most its threshold at either end, and always
   has data points left, however f64 rounds the shares (metrics.rs 234-266). *)
TruncatesTails ==
  \A i \in Used, t \in Thresholds :
    LET h == Latency(i)
        low == {b \in Buckets : b < Percentile(h, t)}
        high == {b \in Buckets : b > Percentile(h, Whole - t)}
    IN  /\ Samples(h, low) * Whole <= Count(h) * t
        /\ Samples(h, high) * Whole <= Count(h) * t
        /\ Samples(h, Kept(h, t)) > 0
=============================================================================
