----------------------------- MODULE Reporting -----------------------------
(***************************************************************************)
(* From the main loop to the reporters: main, shutdown and                 *)
(* create_async_metrics_channel in src/src/main.rs, with the two reporters *)
(* of src/src/metrics.rs and src/src/prometheus_reporter.rs.               *)
(*                                                                         *)
(* The main task sends the metrics of each batch through an unbounded      *)
(* channel to a thread, which hands them to every reporter in turn.  The   *)
(* metrics of a batch are represented by its number.  No adapter names     *)
(* operations, so a report is one print and one push.                      *)
(***************************************************************************)
EXTENDS Naturals, Sequences

CONSTANTS
  MaxBatches,  \* bound: the session yields no more batches
  Continuous,  \* --continuous
  HasGateway   \* --prometheus was given

ASSUME ReportingAssumption ==
  /\ MaxBatches \in Nat
  /\ Continuous \in BOOLEAN
  /\ HasGateway \in BOOLEAN

\* metric_reporters, in the order the thread calls them.
Reporters == IF HasGateway THEN <<"console", "gateway">> ELSE <<"console">>

\* What the gateway shows: nothing, the metrics of a batch, or the empty
\* metrics, all zero, that reset_metrics pushes.
Nothing == 0
Empty == MaxBatches + 1

VARIABLES
  main,     \* main: between two batches, in a batch, joining the thread, done
  batch,    \* batches taken from the session
  sent,     \* history: what went into the channel
  queue,    \* content of the channel
  closed,   \* the sender is dropped
  thread,   \* the reporter thread: "recv", "report", "reset" or "ended"
  item,     \* the metrics being reported
  at,       \* the reporter to call next
  printed,  \* history: what the console reporter printed
  gateway,  \* what the gateway shows
  late,     \* contents of pushes given up by the client, which the gateway may
            \* yet apply
  astray,   \* history: the last push has failed, or a late one has come after it
  panicked  \* a panic has ended the process

vars == <<main, batch, sent, queue, closed, thread, item, at, printed, gateway,
          late, astray, panicked>>

mainVars == <<main, batch, sent, closed>>
threadVars == <<thread, item, at, printed, gateway, late, astray>>

TypeOK ==
  /\ main \in {"next", "batch", "join", "done"}
  /\ batch \in 0..MaxBatches
  /\ sent \in Seq(1..MaxBatches)
  /\ queue \in Seq(1..MaxBatches)
  /\ closed \in BOOLEAN
  /\ thread \in {"recv", "report", "reset", "ended"}
  /\ item \in 0..MaxBatches
  /\ at \in 1..Len(Reporters)
  /\ printed \in Seq(1..MaxBatches)
  /\ gateway \in Nothing..Empty
  /\ late \subseteq Nothing..Empty
  /\ astray \in BOOLEAN
  /\ panicked \in BOOLEAN

Init ==
  /\ main = "next"
  /\ batch = 0
  /\ sent = <<>>
  /\ queue = <<>>
  /\ closed = FALSE
  /\ thread = "recv"
  /\ item = 0
  /\ at = 1
  /\ printed = <<>>
  /\ gateway = Nothing
  /\ late = {}
  /\ astray = FALSE
  /\ panicked = FALSE

-----------------------------------------------------------------------------
\* The main task.

StartBatch ==
  /\ ~ panicked
  /\ main = "next"
  /\ main' = "batch"
  /\ batch' = batch + 1
  /\ UNCHANGED <<sent, queue, closed, threadVars, panicked>>

\* A mutation: the channel keeps the latest metrics only.
BatchOkLatest ==
  /\ ~ panicked
  /\ main = "batch"
  /\ main' = "next"
  /\ sent' = Append(sent, batch)
  /\ queue' = <<batch>>
  /\ UNCHANGED <<batch, closed, threadVars, panicked>>

\* The channel is unbounded and its receiver outlives the sender: send neither
\* waits nor fails.
BatchOk ==
  /\ ~ panicked
  /\ main = "batch"
  /\ main' = "next"
  /\ sent' = Append(sent, batch)
  /\ queue' = Append(queue, batch)
  /\ UNCHANGED <<batch, closed, threadVars, panicked>>

\* The error is logged and the loop goes on.
BatchErr ==
  /\ ~ panicked
  /\ main = "batch"
  /\ main' = "next"
  /\ UNCHANGED <<batch, sent, queue, closed, threadVars, panicked>>

\* A mutation: the sender lives on while main waits for the thread.
KeepSender ==
  /\ ~ panicked
  /\ main = "next"
  /\ main' = "join"
  /\ UNCHANGED <<batch, sent, queue, closed, threadVars, panicked>>

\* The session is over: shutdown drops the sender and joins the thread.
Shutdown ==
  /\ ~ panicked
  /\ main = "next"
  /\ main' = "join"
  /\ closed' = TRUE
  /\ UNCHANGED <<batch, sent, queue, threadVars, panicked>>

JoinThread ==
  /\ ~ panicked
  /\ main = "join"
  /\ thread = "ended"
  /\ main' = "done"
  /\ UNCHANGED <<batch, sent, queue, closed, threadVars, panicked>>

-----------------------------------------------------------------------------
\* The reporter thread.  It ends with the process.

Alive == ~ panicked /\ main # "done"

\* A mutation: the latest metrics are taken first.
ReceiveLatest ==
  /\ Alive
  /\ thread = "recv"
  /\ queue # <<>>
  /\ item' = queue[Len(queue)]
  /\ queue' = SubSeq(queue, 1, Len(queue) - 1)
  /\ thread' = "report"
  /\ at' = 1
  /\ UNCHANGED <<mainVars, printed, gateway, late, astray, panicked>>

Receive ==
  /\ Alive
  /\ thread = "recv"
  /\ queue # <<>>
  /\ item' = Head(queue)
  /\ queue' = Tail(queue)
  /\ thread' = "report"
  /\ at' = 1
  /\ UNCHANGED <<mainVars, printed, gateway, late, astray, panicked>>

\* A mutation: the loop over the reporters does not start again.
NextReporterPast(after) ==
  /\ at' = at + 1
  /\ IF at < Len(Reporters) THEN UNCHANGED thread ELSE thread' = after

\* The reporter after the current one, or on to phase `after`.
NextReporter(after) ==
  IF at < Len(Reporters)
  THEN at' = at + 1 /\ UNCHANGED thread
  ELSE at' = 1 /\ thread' = after

PrintReport ==
  /\ Alive
  /\ thread = "report"
  /\ Reporters[at] = "console"
  /\ printed' = Append(printed, item)
  /\ NextReporter("recv")
  /\ UNCHANGED <<mainVars, queue, item, gateway, late, astray, panicked>>

\* push_metrics replaces all the gateway shows of this job and test.  A push
\* that fails may have reached the gateway, which applies it at any time after.
Push(content) ==
  \/ gateway' = content /\ astray' = FALSE /\ UNCHANGED late
  \/ astray' = TRUE /\ late' \in {late, late \cup {content}} /\ UNCHANGED gateway

\* An error of a reporter is logged, and the next one called all the same.
PushReport ==
  /\ Alive
  /\ thread = "report"
  /\ Reporters[at] = "gateway"
  /\ Push(item)
  /\ NextReporter("recv")
  /\ UNCHANGED <<mainVars, queue, item, printed, panicked>>

\* A mutation: the end of the channel is seen before its content.
ChannelClosedEarly ==
  /\ Alive
  /\ thread = "recv"
  /\ closed
  /\ thread' = IF Continuous THEN "ended" ELSE "reset"
  /\ at' = 1
  /\ UNCHANGED <<mainVars, queue, item, printed, gateway, late, astray, panicked>>

\* A mutation: metrics are reset in a continuous run as well.
ChannelClosedReset ==
  /\ Alive
  /\ thread = "recv"
  /\ queue = <<>>
  /\ closed
  /\ thread' = "reset"
  /\ at' = 1
  /\ UNCHANGED <<mainVars, queue, item, printed, gateway, late, astray, panicked>>

\* recv fails once the sender is dropped and the channel is empty.
ChannelClosed ==
  /\ Alive
  /\ thread = "recv"
  /\ queue = <<>>
  /\ closed
  /\ thread' = IF Continuous THEN "ended" ELSE "reset"
  /\ at' = 1
  /\ UNCHANGED <<mainVars, queue, item, printed, gateway, late, astray, panicked>>

\* A mutation: the gateway keeps the metrics of the last batch.
ResetNothing ==
  /\ Alive
  /\ thread = "reset"
  /\ UNCHANGED <<gateway, late, astray>>
  /\ NextReporter("ended")
  /\ UNCHANGED <<mainVars, queue, item, printed, panicked>>

\* reset_metrics: the console reporter does nothing, the other pushes empty
\* metrics and ignores an error.
ResetMetrics ==
  /\ Alive
  /\ thread = "reset"
  /\ IF Reporters[at] = "gateway" THEN Push(Empty) ELSE UNCHANGED <<gateway, late, astray>>
  /\ NextReporter("ended")
  /\ UNCHANGED <<mainVars, queue, item, printed, panicked>>

\* The content of the push that is under way.
InFlight ==
  IF Reporters[at] # "gateway" THEN {}
  ELSE IF thread = "report" THEN {item} ELSE {Empty}

\* A task of a batch or a reporter panics, and the hook exits the process,
\* whatever push is under way.
Panic ==
  /\ Alive
  /\ main = "batch" \/ thread \in {"report", "reset"}
  /\ panicked' = TRUE
  /\ late' \in {late, late \cup InFlight}
  /\ UNCHANGED <<mainVars, queue, thread, item, at, printed, gateway, astray>>

-----------------------------------------------------------------------------
\* The gateway.  It does not end with the process.

\* A push reaches the gateway, or is done there, after its client has given up.
ApplyLate ==
  \E content \in late :
    /\ gateway' = content
    /\ late' = late \ {content}
    /\ astray' = TRUE
    /\ UNCHANGED <<mainVars, queue, thread, item, at, printed, panicked>>

Terminated == ~ Alive /\ UNCHANGED vars

BatchEnds == BatchOk \/ BatchErr

MainStep ==
  \/ batch < MaxBatches /\ StartBatch
  \/ BatchEnds
  \/ Shutdown
  \/ JoinThread

ThreadStep == Receive \/ PrintReport \/ PushReport \/ ChannelClosed \/ ResetMetrics

Next == MainStep \/ ThreadStep \/ Panic \/ ApplyLate \/ Terminated

Spec == Init /\ [][Next]_vars

\* Batches return, as BatchReturns of BenchBatch says; the thread is
\* scheduled, and its prints and pushes return (the HTTP client of the
\* pushes has a timeout).
FairSpec == Spec /\ WF_vars(MainStep) /\ WF_vars(ThreadStep)

-----------------------------------------------------------------------------
\* Properties.

\* Metrics on their way to reporter i.
Pending(i) ==
  (IF thread = "report" /\ at <= i THEN <<item>> ELSE <<>>) \o queue

(* The console shows the metrics of every batch that returned Ok, in order and
   once each: what it has printed and what is on its way are what main has
   sent, whatever the gateway does (main.rs 52-64, 85-96). *)
ConsoleComplete == printed \o Pending(1) = sent

(* main returns only when nothing is left to print (main.rs 71-76). *)
NothingLeftBehind == main = "done" => printed = sent /\ thread = "ended"

\* What a gateway shows that has taken every push.
Pushed ==
  LET done == Len(sent) - Len(Pending(2))
  IN  IF done = 0 THEN Nothing ELSE sent[done]

(* Once a push has succeeded, and until one fails or an earlier one is applied
   late, the gateway shows the metrics the thread reported last, whatever pushes
   have failed before, and at the end the empty ones exactly if the run is not
   continuous: "In this case metrics are not reset at the end"
   (configuration.rs:83, main.rs 97-103, prometheus_reporter.rs 19-31). *)
GatewayFollows ==
  HasGateway /\ ~ astray =>
    \/ gateway = Pushed /\ (Continuous \/ thread # "ended")
    \/ gateway = Empty /\ ~ Continuous /\ thread = "ended"

(* The program never takes the gateway back to an earlier batch, nor from the
   empty metrics to those of a batch, whatever pushes fail: what goes back is a
   push that its client has given up and that the gateway applies after a later
   one (main.rs 89-96, prometheus_reporter.rs 65-75). *)
GatewayAdvances == [][gateway' >= gateway \/ gateway' \in late]_vars

(* The process comes to its end: main and the thread never wait for each other
   for ever (main.rs 71-76, 89-104). *)
ProcessEnds == <>(main = "done" \/ panicked)
=============================================================================
