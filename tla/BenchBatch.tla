----------------------------- MODULE BenchBatch -----------------------------
(***************************************************************************)
(* The batches of a session: BenchBatch::run and                           *)
(* execute_concurrent_sessions in src/src/bench_session.rs, called by the  *)
(* loop over the batches in src/src/main.rs, with the aggregator task      *)
(* each batch spawns.  The client tasks are those of module BenchRun.      *)
(*                                                                         *)
(* A task that is not joined is detached, not cancelled: when a client     *)
(* cannot be built, the first Err returns from the batch at once and       *)
(* leaves its other tasks and its aggregator running beside the next one.  *)
(***************************************************************************)
EXTENDS BenchRun, Counting

VARIABLES
  main,     \* where the main task is: between two batches, joining the
            \* clients, waiting for the aggregator, after its end
  batch,    \* the number of batches started
  joining,  \* the client the main task waits for
  tally,    \* tally[b]: the BenchRunMetrics of the aggregator of batch b
  result    \* result[b]: what BenchBatch::run returned

batchVars == <<main, batch, joining, tally, result>>
vars == <<runVars, batchVars>>

TypeOK ==
  /\ RunTypeOK
  /\ main \in {"next", "join", "collect", "done"}
  /\ batch \in 0..NumBatches
  /\ joining \in Clients
  /\ tally \in [Batches -> [RequestStats -> Nat]]
  /\ result \in [Batches -> {"none", "ok", "err"}]

Init ==
  /\ RunInit
  /\ main = "next"
  /\ batch = 0
  /\ joining = 1
  /\ tally = [b \in Batches |-> NoAnswers]
  /\ result = [b \in Batches |-> "none"]

-----------------------------------------------------------------------------
\* A mutation: the flag stays as the previous batch left it.
KeepStopFlag == stop' = stop

ResetStopFlag == stop' = FALSE

\* BenchBatch::run up to its first await.  The tasks are spawned one by one,
\* but a task neither reads nor is read by one that is not spawned yet and
\* the main task joins only after the last: the spawns commute with the rest.
StartBatch ==
  /\ main = "next"
  /\ batch < NumBatches
  /\ batch' = batch + 1
  /\ ResetStopFlag
  /\ receiver' = [receiver EXCEPT ![batch'] = "open"]
  /\ pc' = [pc EXCEPT ![batch'] = [c \in Clients |-> "build"]]
  /\ late' = [b \in Batches |-> [c \in Clients |-> 0]]
  /\ joining' = 1
  /\ main' = "join"
  /\ UNCHANGED <<requestsSent, stats, chan, issued, answered, tally, result>>

\* The join handle of a task yields Ok.
JoinedOk(b, c) == pc[b][c] \in ReturnedOk

\* A mutation: the index of the task to join runs past the last one.
JoinPastLast ==
  /\ main = "join"
  /\ JoinedOk(batch, joining)
  /\ joining' = joining + 1
  /\ main' = IF joining < Concurrency THEN main ELSE "collect"
  /\ UNCHANGED <<runVars, batch, tally, result>>

Join ==
  /\ main = "join"
  /\ JoinedOk(batch, joining)
  /\ IF joining < Concurrency
     THEN joining' = joining + 1 /\ main' = main
     ELSE joining' = joining /\ main' = "collect"
  /\ UNCHANGED <<runVars, batch, tally, result>>

\* The first task that returned Err ends the batch: the handles of the tasks
\* not joined yet and that of the aggregator are dropped.
JoinErr ==
  /\ main = "join"
  /\ pc[batch][joining] = "failed"
  /\ result' = [result EXCEPT ![batch] = "err"]
  /\ main' = "next"
  /\ UNCHANGED <<runVars, batch, joining, tally>>

\* report_request, as far as its counters are concerned.
Aggregate(b) ==
  /\ receiver[b] = "open"
  /\ chan[b] # <<>>
  /\ tally' = [tally EXCEPT ![b][Head(chan[b])] = @ + 1]
  /\ chan' = [chan EXCEPT ![b] = Tail(@)]
  /\ UNCHANGED <<stop, pc, requestsSent, stats, receiver, issued, answered, late>>
  /\ UNCHANGED <<main, batch, joining, result>>

\* A mutation: an empty channel is taken for a closed one.
SendersForgotten(b) == batch >= b

\* All senders of the channel are dropped: the clones with their tasks, the
\* original when execute_concurrent_sessions returns.
SendersGone(b) ==
  /\ batch >= b
  /\ ~ (main = "join" /\ batch = b)
  /\ \A c \in Clients : TaskEnded(b, c)

\* recv yields None: the channel is drained and closed.
FinishAggregator(b) ==
  /\ receiver[b] = "open"
  /\ chan[b] = <<>>
  /\ SendersGone(b)
  /\ receiver' = [receiver EXCEPT ![b] = "finished"]
  /\ UNCHANGED <<stop, pc, requestsSent, stats, chan, issued, answered, late>>
  /\ UNCHANGED batchVars

\* A mutation: the aggregator is not awaited.
CollectEarly ==
  /\ main = "collect"
  /\ result' = [result EXCEPT ![batch] = "ok"]
  /\ main' = "next"
  /\ UNCHANGED <<runVars, batch, joining, tally>>

\* The aggregator is joined and its metrics are the result of the batch.
CollectMetrics ==
  /\ main = "collect"
  /\ receiver[batch] = "finished"
  /\ result' = [result EXCEPT ![batch] = "ok"]
  /\ main' = "next"
  /\ UNCHANGED <<runVars, batch, joining, tally>>

\* The session has no further batch and main returns.
Exit ==
  /\ main = "next"
  /\ batch = NumBatches
  /\ main' = "done"
  /\ UNCHANGED <<runVars, batch, joining, tally, result>>

\* When main has returned, the runtime drops the tasks that are left, each at
\* an await, in any order.
AbortTask(b, c) ==
  /\ main = "done"
  /\ pc[b][c] \in {"build", "acquire", "inflight", "report"}
  /\ pc' = [pc EXCEPT ![b][c] = "aborted"]
  /\ stats' = [stats EXCEPT ![b][c] = "normal"]
  /\ UNCHANGED <<stop, requestsSent, chan, receiver, issued, answered, late>>
  /\ UNCHANGED batchVars

AbortAggregator(b) ==
  /\ main = "done"
  /\ receiver[b] = "open"
  /\ receiver' = [receiver EXCEPT ![b] = "dropped"]
  /\ chan' = [chan EXCEPT ![b] = <<>>]
  /\ UNCHANGED <<stop, pc, requestsSent, stats, issued, answered, late>>
  /\ UNCHANGED batchVars

\* The process has ended: a state where nothing happens is no deadlock there.
Terminated ==
  /\ main = "done"
  /\ \A b \in Batches : receiver[b] # "open" /\ \A c \in Clients : TaskEnded(b, c)
  /\ UNCHANGED vars

MainStep == StartBatch \/ Join \/ JoinErr \/ CollectMetrics \/ Exit

AggregatorStep(b) == Aggregate(b) \/ FinishAggregator(b)

Next ==
  \/ MainStep
  \/ \E b \in Batches :
       \/ AggregatorStep(b)
       \/ AbortAggregator(b)
       \/ \E c \in Clients :
            \/ TaskStep(b, c) /\ UNCHANGED batchVars
            \/ AbortTask(b, c)
  \/ Terminated

Spec == Init /\ [][Next]_vars

\* The runtime polls every task that can go on.  The target need not answer
\* (no fairness on Respond); HttpBenchAdapter::build_client awaits nothing, so
\* fairness on BuildClient is meant for BuildCanFail = FALSE only.
Fairness ==
  /\ WF_vars(MainStep)
  /\ \A b \in Batches :
       /\ WF_vars(AggregatorStep(b))
       /\ \A c \in Clients :
            WF_vars((OwnStep(b, c) \/ BuildClient(b, c)) /\ UNCHANGED batchVars)

FairSpec == Spec /\ Fairness

-----------------------------------------------------------------------------
\* Properties.

Reporting(b, k) == {c \in Clients : pc[b][c] = "report" /\ stats[b][c] = k}

(* No answer is lost or counted twice on its way through the task, the
   bounded channel and the aggregator (bench_run.rs 122-128, bench_session.rs
   105-110), whichever batch the task belongs to, as long as main runs. *)
MetricsConserved ==
  main # "done" =>
    \A b \in Batches, k \in RequestStats :
      answered[b][k] = tally[b][k] + CountIn(chan[b], k) + Cardinality(Reporting(b, k))

(* The metrics BenchBatch::run returns hold every answer of the batch: none
   is in the channel or yet to come (bench_session.rs 112-117). *)
OkResultComplete ==
  \A b \in Batches : result[b] = "ok" =>
    /\ tally[b] = answered[b]
    /\ chan[b] = <<>>
    /\ \A c \in Clients : TaskEnded(b, c)

(* What MetricsConserved and OkResultComplete need to be inductive: batches
   start one after the other, the main task has joined a prefix of the
   clients, and an aggregator ends after its clients and its channel. *)
OneByOne ==
  /\ main \in {"join", "collect"} => batch \in Batches
  /\ \A b \in Batches :
       /\ b > batch => /\ result[b] = "none" /\ receiver[b] = "none"
                       /\ \A c \in Clients : pc[b][c] = "unborn"
       /\ b <= batch => (result[b] = "none" <=> b = batch /\ main \in {"join", "collect"})

JoinedSoFar ==
  \A c \in Clients :
    \/ main = "collect"
    \/ main = "join" /\ c < joining
    => pc[batch][c] \in ReturnedOk

FinishedLast ==
  /\ \A b \in Batches : receiver[b] = "finished" =>
       chan[b] = <<>> /\ \A c \in Clients : TaskEnded(b, c)
  /\ main # "done" => \A b \in Batches : receiver[b] # "dropped"
  /\ \A b \in Batches : result[b] = "ok" =>
       receiver[b] = "finished" /\ tally[b] = answered[b]

BatchInv == OneByOne /\ JoinedSoFar /\ FinishedLast /\ MetricsConserved

(* What StopOvershoot needs: a client that was late sees the flag up, and is
   past the load of it only if it was before the flag went up. *)
LateOnce ==
  \A b \in Batches, c \in Clients :
    /\ late[b][c] <= 1
    /\ late[b][c] = 1 => stop /\ pc[b][c] # "armed"

(* A batch limited by --num_req that returns Ok, and in which no client met a
   fatal error, reports the whole load it was asked for: "a fatal error from a
   previous batch doesn't prevent this batch from executing"
   (bench_session.rs:100, bench_run.rs 41-45, 88-100). *)
FullLoad ==
  \A b \in Batches :
    /\ result[b] = "ok"
    /\ ~ DurationLimited
    /\ \A c \in Clients : pc[b][c] # "tripped"
    => Total(tally[b]) = Concurrency * MaxRequests

(* While the flag is up, a client sends at most the one request it had decided
   to send before (bench_run.rs 112-118). *)
StopOvershoot == \A b \in Batches, c \in Clients : late[b][c] <= 1

(* At most --concurrency clients are at work at a time, "the number of clients
   generating load concurrently" (README.md:210, bench_session.rs 65, 141-146). *)
ConcurrencyBound == Cardinality(LiveTasks) <= Concurrency

(* A batch that is started returns its metrics, if requests are time-bound,
   whatever the target does and however full the channel gets. *)
BatchReturns ==
  \A b \in Batches : (main = "join" /\ batch = b) ~> result[b] = "ok"

\* How far a batch is, and what it has reported, for its reader.
Phase == [b \in Batches |-> IF b > batch THEN "pending"
                            ELSE IF result[b] = "none" THEN "open" ELSE result[b]]

Reported == [b \in Batches |-> IF result[b] = "ok" THEN tally[b] ELSE NoAnswers]

Contract == INSTANCE BatchContract WITH phase <- Phase, reported <- Reported

(* The batches implement BatchContract: they run one after the other, report
   at their end exactly the answers they got, and nothing changes what was
   reported (main.rs 52-64, bench_session.rs 97-118). *)
ImplementsContract == Contract!Spec
=============================================================================
