---------------------------- MODULE MCBenchBatch ----------------------------
(***************************************************************************)
(* What README.md says of a batch and its metrics, checked against the     *)
(* model of what the code does.                                            *)
(***************************************************************************)
EXTENDS BenchBatch

(* README.md:24 "`request_count` - counter for all requests": the metrics of a
   batch count every request the batch has sent (bench_run.rs 116-130,
   metrics.rs 213). *)
AllRequestsCounted ==
  \A b \in Batches : result[b] = "ok" => Total(tally[b]) = issued[b]
=============================================================================
