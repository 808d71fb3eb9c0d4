----------------------------- MODULE PerfGauge -----------------------------
(***************************************************************************)
(* The whole program: the session of module RateLadder yields batches, each *)
(* runs as module BatchContract promises (which BenchBatch implements), and *)
(* the main loop of module Reporting hands their metrics to the reporters.  *)
(***************************************************************************)
EXTENDS RateLadder, Reporting

CONSTANTS
  RequestStats,  \* see BatchContract
  MaxAnswers     \* bound on the answers of a kind in a batch

Batches == 1..MaxBatches

VARIABLES phase, answered, reported

Batch == INSTANCE BatchContract

batchVars == <<phase, answered, reported>>
programVars == <<ladderVars, batchVars, vars>>

ASSUME BoundAssumption ==
  /\ MaxAnswers \in Nat
  /\ \A l \in Ladders : BatchTotal(l) <= MaxBatches

ProgramInit == LadderInit /\ Batch!Init /\ Init

-----------------------------------------------------------------------------
\* `for batch in bench_session`, and the batch up to its first await.
TakeBatch ==
  /\ NextBatch
  /\ StartBatch
  /\ Batch!Open(batch')

\* A request is answered: of the running batch, or of one that failed.
AnswerRequest ==
  /\ Alive
  /\ \E b \in Batches, k \in RequestStats :
       answered[b][k] < MaxAnswers /\ Batch!Answer(b, k)
  /\ UNCHANGED <<ladderVars, vars>>

ReturnBatch == BatchOk /\ Batch!Return(batch) /\ UNCHANGED ladderVars

FailBatch == BatchErr /\ Batch!Fail(batch) /\ UNCHANGED ladderVars

\* A mutation: the first error ends the loop.
EndSessionOnErr ==
  /\ complete \/ \E b \in Batches : phase[b] = "err"
  /\ Shutdown
  /\ UNCHANGED <<ladderVars, batchVars>>

\* The iterator yields None.
EndSession == complete /\ Shutdown /\ UNCHANGED <<ladderVars, batchVars>>

JoinReporter == JoinThread /\ UNCHANGED <<ladderVars, batchVars>>

ReporterThread == ThreadStep /\ UNCHANGED <<ladderVars, batchVars>>

PanicAnywhere == Panic /\ UNCHANGED <<ladderVars, batchVars>>

GatewayAppliesLate == ApplyLate /\ UNCHANGED <<ladderVars, batchVars>>

ProgramOver == ~ Alive /\ UNCHANGED programVars

ProgramMain == TakeBatch \/ ReturnBatch \/ FailBatch \/ EndSession \/ JoinReporter

ProgramNext ==
  \/ ProgramMain
  \/ AnswerRequest
  \/ ReporterThread
  \/ PanicAnywhere
  \/ GatewayAppliesLate
  \/ ProgramOver

ProgramSpec == ProgramInit /\ [][ProgramNext]_programVars

\* As in Reporting: batches return and the reporter thread goes on.
FairProgramSpec ==
  ProgramSpec /\ WF_programVars(ProgramMain) /\ WF_programVars(ReporterThread)

-----------------------------------------------------------------------------
\* Properties, beside GatewayFollows of Reporting.

(* What is printed of a batch is every answer it got and no other, although
   the tasks of failed batches may still be at work (main.rs 52-64). *)
PrintedIsTrue ==
  \A i \in 1..Len(printed) :
    phase[printed[i]] = "ok" /\ reported[printed[i]] = answered[printed[i]]

(* When main returns, every step of the ladder has been tried, at its rate,
   and each batch that returned Ok is printed, once and in order: an Err costs
   the metrics of its own batch only (main.rs 52-66, bench_session.rs 54-93). *)
EveryStepTried ==
  main = "done" =>
    /\ Len(rates) = BatchTotal(config)
    /\ \A b \in 1..Len(rates) : rates[b] = RateAt(config, b)
    /\ \A i, j \in 1..Len(printed) : i < j => printed[i] < printed[j]
    /\ \A b \in 1..Len(rates) :
         phase[b] = "ok" <=> \E i \in 1..Len(printed) : printed[i] = b

(* The program comes to its end for every ladder the command line can build,
   if its batches return. *)
ProgramEnds == <>(main = "done" \/ panicked)
=============================================================================
