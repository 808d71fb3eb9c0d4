----------------------------- MODULE MCMetrics -----------------------------
(***************************************************************************)
(* Metrics with requests of every outcome.  To cut off some of so few       *)
(* samples, there are percentiles and thresholds nearer to the middle than  *)
(* those of the code.                                                      *)
(***************************************************************************)
EXTENDS Exposition

MCBuckets == {0, 1, 4}

Request(success, status, bytes, duration, operation) ==
  [is_success |-> success, status |-> status, bytes_processed |-> bytes,
   duration |-> duration, operation_name |-> operation]

\* An answer, one too fast to be measured, one whose body broke off, an error
\* code and no answer at all.
OfEachOutcome ==
  {Request(TRUE, "200", 3, 1, "a"), Request(TRUE, "200", 1, 0, "b")}
    \cup {Request(FALSE, "200", 2, 4, o) : o \in {"a", Unnamed}}
    \cup {Request(FALSE, "500", 1, 0, "b"), Request(FALSE, "refused", 0, 4, "b")}

MCPercentiles == <<5000, 6000, 7500, 9000, 9900, 9999>>
MCThresholds  == {10, 1000, 2500, 4000}

\* Of an even number of samples, half the percentiles round up.
MCRoundedUp == {2, 4, 6, 8} \X {2500, 5000, 7500}
=============================================================================
