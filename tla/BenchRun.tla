------------------------------ MODULE BenchRun ------------------------------
(***************************************************************************)
(* The client tasks of perf-gauge: BenchRun::send_load in                  *)
(* src/src/bench_run.rs, run by one tokio task per client and per batch.   *)
(*                                                                         *)
(* All tasks of the process share the static flag STOP_ON_FATAL, which is  *)
(* global and not per batch, and the tasks of one batch share one bounded  *)
(* metrics channel.  One atomic step of the model lies between two places  *)
(* where another task can run in between and be noticed: the awaits, the   *)
(* load of the flag and the store to it.                                   *)
(*                                                                         *)
(* Batches and channels are created by module BenchBatch.                  *)
(***************************************************************************)
EXTENDS Naturals, Sequences, FiniteSets

CONSTANTS
  Concurrency,      \* clients of a batch (--concurrency)
  NumBatches,       \* batches the rate ladder yields
  MaxRequests,      \* requests of a client in a batch (--num_req); when
                    \* DurationLimited, only a bound on the exploration
  DurationLimited,  \* the batch is limited by --duration, not by --num_req
  HasTimeout,       \* --request_timeout was given
  BuildCanFail,     \* build_client may return Err: FALSE for HttpBenchAdapter,
                    \* TRUE for H3BenchAdapter (DNS, handshake)
  ChannelCapacity   \* 1_000 in the code

ASSUME ConstantsAssumption ==
  /\ Concurrency \in Nat \ {0}
  /\ NumBatches \in Nat \ {0}
  /\ MaxRequests \in Nat
  /\ ChannelCapacity \in Nat \ {0}
  /\ DurationLimited \in BOOLEAN
  /\ HasTimeout \in BOOLEAN
  /\ BuildCanFail \in BOOLEAN

\* A mutation: the loop over the clients runs once too often.
OneClientMore == 1..(Concurrency + 1)

\* One BenchRun, and one task, per client.
Clients == 1..Concurrency
Batches == 1..NumBatches

\* What the control flow reads of a RequestStats: its flag fatal_error.
RequestStats == {"normal", "fatal"}

\* Where a task is.  The first line are the points of send_load, the second
\* one how its task ended: send_load returned Ok without or after raising the
\* flag, returned Err, or was dropped by the runtime at shutdown.
Running == {"build", "check", "acquire", "armed", "inflight", "report", "trip"}
Ended   == {"finished", "tripped", "failed", "aborted"}
ReturnedOk == {"finished", "tripped"}

VARIABLES
  stop,          \* STOP_ON_FATAL
  pc,            \* pc[b][c]: where the task of client c of batch b is
  requestsSent,  \* requestsSent[b][c]: BenchRun.requests_sent
  stats,         \* stats[b][c]: the RequestStats waiting to enter the channel
  chan,          \* chan[b]: content of the metrics channel of batch b
  receiver,      \* receiver[b]: the receiving half, owned by the aggregator
  issued,        \* history: requests a batch has put on the wire
  answered,      \* history: answers a batch got in time, by kind
  late           \* history: requests a client issued while the flag was up

runVars == <<stop, pc, requestsSent, stats, chan, receiver, issued, answered, late>>

NoAnswers == [k \in RequestStats |-> 0]

RunTypeOK ==
  /\ stop \in BOOLEAN
  /\ pc \in [Batches -> [Clients -> {"unborn"} \cup Running \cup Ended]]
  /\ requestsSent \in [Batches -> [Clients -> Nat]]
  /\ stats \in [Batches -> [Clients -> RequestStats]]
  /\ chan \in [Batches -> Seq(RequestStats)]
  /\ receiver \in [Batches -> {"none", "open", "finished", "dropped"}]
  /\ issued \in [Batches -> Nat]
  /\ answered \in [Batches -> [RequestStats -> Nat]]
  /\ late \in [Batches -> [Clients -> Nat]]

RunInit ==
  /\ stop = FALSE
  /\ pc = [b \in Batches |-> [c \in Clients |-> "unborn"]]
  /\ requestsSent = [b \in Batches |-> [c \in Clients |-> 0]]
  /\ stats = [b \in Batches |-> [c \in Clients |-> "normal"]]
  /\ chan = [b \in Batches |-> <<>>]
  /\ receiver = [b \in Batches |-> "none"]
  /\ issued = [b \in Batches |-> 0]
  /\ answered = [b \in Batches |-> NoAnswers]
  /\ late = [b \in Batches |-> [c \in Clients |-> 0]]

-----------------------------------------------------------------------------
\* The steps of the task of client c of batch b.

Goto(b, c, from, to) ==
  /\ pc[b][c] = from
  /\ pc' = [pc EXCEPT ![b][c] = to]

\* build_client returned a client ...
BuildClient(b, c) ==
  /\ Goto(b, c, "build", "check")
  /\ UNCHANGED <<stop, requestsSent, stats, chan, receiver, issued, answered, late>>

\* ... or an error, which the `?` makes the result of the task.
BuildClientFails(b, c) ==
  /\ BuildCanFail
  /\ Goto(b, c, "build", "failed")
  /\ UNCHANGED <<stop, requestsSent, stats, chan, receiver, issued, answered, late>>

\* What has_more_work may answer.  A duration may elapse before any call.
HasMoreWork(sent) ==
  IF DurationLimited THEN {more \in BOOLEAN : more => sent < MaxRequests}
                     ELSE {sent < MaxRequests}

\* has_more_work counts the call, whatever it answers.
CheckWork(b, c) ==
  /\ \E more \in HasMoreWork(requestsSent[b][c]) :
       Goto(b, c, "check", IF more THEN "acquire" ELSE "finished")
  /\ requestsSent' = [requestsSent EXCEPT ![b][c] = @ + 1]
  /\ UNCHANGED <<stop, stats, chan, receiver, issued, answered, late>>

\* A mutation: the flag is never looked at.
LoadStopIgnored(b, c) ==
  /\ Goto(b, c, "acquire", "armed")
  /\ UNCHANGED <<stop, requestsSent, stats, chan, receiver, issued, answered, late>>

\* acquire_one returns, which touches nothing the tasks share, and the flag
\* is loaded: the decision to send is taken here, the request sent later.
LoadStop(b, c) ==
  /\ Goto(b, c, "acquire", IF stop THEN "finished" ELSE "armed")
  /\ UNCHANGED <<stop, requestsSent, stats, chan, receiver, issued, answered, late>>

SendRequest(b, c) ==
  /\ Goto(b, c, "armed", "inflight")
  /\ issued' = [issued EXCEPT ![b] = @ + 1]
  /\ late' = [late EXCEPT ![b][c] = IF stop THEN @ + 1 ELSE @]
  /\ UNCHANGED <<stop, requestsSent, stats, chan, receiver, answered>>

\* send_request completes in time with statistics of kind k.
Respond(b, c, k) ==
  /\ Goto(b, c, "inflight", "report")
  /\ stats' = [stats EXCEPT ![b][c] = k]
  /\ answered' = [answered EXCEPT ![b][k] = @ + 1]
  /\ UNCHANGED <<stop, requestsSent, chan, receiver, issued, late>>

\* A mutation: the time limit is not applied to the request.
TimeOutNever(b, c) == FALSE /\ UNCHANGED runVars

\* timed_operation gives up: a fatal error without a RequestStats.
TimeOut(b, c) ==
  /\ HasTimeout
  /\ Goto(b, c, "inflight", "trip")
  /\ UNCHANGED <<stop, requestsSent, stats, chan, receiver, issued, answered, late>>

AfterReport(k) == IF k = "fatal" THEN "trip" ELSE "check"

\* A mutation: try_send in place of send, losing the item of a full channel.
ReportOrDrop(b, c) ==
  /\ receiver[b] = "open"
  /\ Goto(b, c, "report", AfterReport(stats[b][c]))
  /\ chan' = IF Len(chan[b]) < ChannelCapacity
             THEN [chan EXCEPT ![b] = Append(@, stats[b][c])] ELSE chan
  /\ stats' = [stats EXCEPT ![b][c] = "normal"]
  /\ UNCHANGED <<stop, requestsSent, receiver, issued, answered, late>>

\* metrics_channel.send completes when the channel has room.
Report(b, c) ==
  /\ receiver[b] = "open"
  /\ Len(chan[b]) < ChannelCapacity
  /\ Goto(b, c, "report", AfterReport(stats[b][c]))
  /\ chan' = [chan EXCEPT ![b] = Append(@, stats[b][c])]
  /\ stats' = [stats EXCEPT ![b][c] = "normal"]
  /\ UNCHANGED <<stop, requestsSent, receiver, issued, answered, late>>

\* The receiving half is gone: the loop is left, even after a fatal error,
\* without raising the flag.
ReportToClosed(b, c) ==
  /\ receiver[b] \in {"finished", "dropped"}
  /\ Goto(b, c, "report", "finished")
  /\ stats' = [stats EXCEPT ![b][c] = "normal"]
  /\ UNCHANGED <<stop, requestsSent, chan, receiver, issued, answered, late>>

\* STOP_ON_FATAL.store(true): it stops every task of the process, not only
\* those of the batch of this task.
TripStop(b, c) ==
  /\ Goto(b, c, "trip", "tripped")
  /\ stop' = TRUE
  /\ UNCHANGED <<requestsSent, stats, chan, receiver, issued, answered, late>>

\* The steps the task takes by itself, and all of its steps.
OwnStep(b, c) ==
  \/ CheckWork(b, c)
  \/ LoadStop(b, c)
  \/ SendRequest(b, c)
  \/ TimeOut(b, c)
  \/ Report(b, c)
  \/ ReportToClosed(b, c)
  \/ TripStop(b, c)

TaskStep(b, c) ==
  \/ OwnStep(b, c)
  \/ BuildClient(b, c)
  \/ BuildClientFails(b, c)
  \/ \E k \in RequestStats : Respond(b, c, k)

-----------------------------------------------------------------------------
TaskEnded(b, c) == pc[b][c] \in {"unborn"} \cup Ended

\* Tasks that hold a client, and hence may put load on the target.
LiveTasks == {t \in Batches \X Clients : pc[t[1]][t[2]] \in Running}

Total(counts) == counts["normal"] + counts["fatal"]
=============================================================================
