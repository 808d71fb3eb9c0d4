------------------------------ MODULE PacedRun ------------------------------
(***************************************************************************)
(* One client task of BenchRun in real time: BenchRun::send_load of        *)
(* src/src/bench_run.rs, limited by --duration, together with its rate     *)
(* limiter.  A step of the task is the step of module BenchRun, under the  *)
(* conditions that the clock adds; the other clients of the batch are seen *)
(* only as the flag they may raise.                                        *)
(*                                                                         *)
(* Time is in milliseconds and moves by Granule, only while the task waits *)
(* for something: the client being built, a token, an answer or room in    *)
(* the channel.  So the steps between two awaits take no time, and a       *)
(* runtime that leaves a ready task waiting is left out.                   *)
(***************************************************************************)
EXTENDS RateLimiter, BenchRun

CONSTANTS
  Granule,    \* milliseconds of a step of the clock
  Durations,  \* --duration
  Timeouts,   \* --request_timeout, NoTimeout for none
  NoTimeout,
  Horizon,    \* bound on the waits the task does not end by itself
  MaxAmount   \* bound on the refills whose course is explored

ASSUME PacedAssumption ==
  /\ Granule \in Nat \ {0}
  /\ Horizon \in Nat
  /\ MaxAmount \in Nat
  /\ \A d \in Durations \cup (Timeouts \ {NoTimeout}) :
       d \in Nat /\ d % Granule = 0
  /\ Concurrency = 1 /\ NumBatches = 1 /\ DurationLimited /\ HasTimeout

VARIABLES
  now,        \* time since bench_begin, when the limiter was built as well
  duration,   \* BenchRun.max_duration
  timeout,    \* BenchRun.timeout
  since,      \* when the request in flight was sent
  built,      \* history: when build_client returned
  slow,       \* history: an answer or its report took time
  lateSends   \* history: when requests were sent with the duration over

clockVars == <<now, duration, timeout, since, built, slow, lateSends>>
vars == <<runVars, limiterVars, clockVars>>

At == pc[1][1]

Init ==
  /\ RunInit
  /\ LimiterInit
  /\ now = 0
  /\ duration \in Durations
  /\ timeout \in Timeouts
  /\ since = 0
  /\ built = 0
  /\ slow = FALSE
  /\ lateSends = <<>>

\* The course of a limiter is explored when the clock can follow it.
Explored ==
  ~ Unlimited =>
    /\ Refill.interval % Granule = 0
    /\ Refill.interval <= Horizon
    /\ Refill.amount <= MaxAmount

\* execute_concurrent_sessions spawns the task.
Spawn ==
  /\ Explored
  /\ Goto(1, 1, "unborn", "build")
  /\ receiver' = [receiver EXCEPT ![1] = "open"]
  /\ UNCHANGED <<stop, requestsSent, stats, chan, issued, answered, late>>
  /\ UNCHANGED <<limiterVars, clockVars>>

Build ==
  /\ BuildClient(1, 1) \/ BuildClientFails(1, 1)
  /\ built' = now
  /\ UNCHANGED <<limiterVars, now, duration, timeout, since, slow, lateSends>>

\* A mutation: the duration is still on in its last instant.
HasTimeInclusive == now <= duration

HasTime == now < duration

\* has_more_work looks at the clock before the task waits for a token.
CheckDuration ==
  /\ CheckWork(1, 1)
  /\ At' = "acquire" <=> HasTime
  /\ UNCHANGED <<limiterVars, clockVars>>

\* A token is there: the flag is looked at, but not the clock again.
Acquire == LoadStop(1, 1) /\ AcquireOne /\ UNCHANGED clockVars

Send ==
  /\ SendRequest(1, 1)
  /\ since' = now
  /\ lateSends' = IF HasTime THEN lateSends ELSE Append(lateSends, now)
  /\ UNCHANGED <<limiterVars, now, duration, timeout, built, slow>>

Answer ==
  /\ \E k \in RequestStats : Respond(1, 1, k)
  /\ UNCHANGED <<limiterVars, clockVars>>

\* A mutation: the time limit is not applied to the request.
TimeIsUpNever == FALSE

TimeIsUp == timeout # NoTimeout /\ now >= since + timeout

GiveUp == TimeIsUp /\ TimeOut(1, 1) /\ UNCHANGED <<limiterVars, clockVars>>

Finish ==
  /\ Report(1, 1) \/ TripStop(1, 1)
  /\ UNCHANGED <<limiterVars, clockVars>>

\* The aggregator of the batch takes an item.
Receive ==
  /\ chan[1] # <<>>
  /\ chan' = [chan EXCEPT ![1] = Tail(@)]
  /\ UNCHANGED <<stop, pc, requestsSent, stats, receiver, issued, answered, late>>
  /\ UNCHANGED <<limiterVars, clockVars>>

\* Another client of the batch met a fatal error.
OtherTrips ==
  /\ ~ stop
  /\ stop' = TRUE
  /\ UNCHANGED <<pc, requestsSent, stats, chan, receiver, issued, answered, late>>
  /\ UNCHANGED <<limiterVars, clockVars>>

\* The task waits for its client, an answer or room in the channel.  The last
\* disjunct lets a timeout elapse that ends beyond the horizon.
WaitsForOthers ==
  /\ \/ At = "build"
     \/ At = "inflight" /\ ~ TimeIsUp
     \/ At = "report" /\ Len(chan[1]) = ChannelCapacity
  /\ \/ now < Horizon
     \/ At = "inflight" /\ timeout # NoTimeout /\ now < since + timeout

WaitsForToken == At = "acquire" /\ ~ Unlimited /\ tokens = 0

\* The clock moves, and at the end of an interval the bucket is refilled.
Advance ==
  /\ WaitsForOthers \/ WaitsForToken
  /\ now' = now + Granule
  /\ IF ~ Unlimited /\ now' % Refill.interval = 0
     THEN Tick ELSE UNCHANGED limiterVars
  /\ slow' = (slow \/ At \in {"inflight", "report"})
  /\ UNCHANGED <<runVars, duration, timeout, since, built, lateSends>>

Next ==
  \/ Spawn \/ Build
  \/ CheckDuration \/ Acquire \/ Send \/ Answer \/ GiveUp \/ Finish
  \/ Receive \/ OtherTrips
  \/ Advance

\* Steps that the task takes when it is ready, without the target.
ReadyStep == CheckDuration \/ Acquire \/ Send \/ GiveUp \/ Finish

\* The runtime polls what is ready and time goes on; the target need not answer.
Fairness ==
  /\ WF_vars(Build)
  /\ WF_vars(ReadyStep)
  /\ WF_vars(Receive)
  /\ WF_vars(Advance)

Spec == Init /\ [][Next]_vars /\ Fairness

-----------------------------------------------------------------------------
\* Properties.

\* The longest a client waits for its next token.
LongestWait == IF Unlimited THEN 0 ELSE Refill.interval

\* Refills of the bucket while the duration is on.
RefillsInTime == IF duration = 0 THEN 0 ELSE (duration - 1) \div Refill.interval

(* has_more_work is asked before the wait for a token (bench_run.rs 109-116),
   so a client may send after its duration, but a single request, and not a
   whole refill interval late; one whose client was built too late sends
   none. *)
LateBound ==
  /\ Len(lateSends) <= 1
  /\ \A i \in DOMAIN lateSends : lateSends[i] < duration + LongestWait
  /\ built >= duration => issued[1] = 0

(* However slowly the target answers and the client is built, a client never
   sends more than its rate allows for the duration, and the one late
   request. *)
LoadBounded ==
  ~ Unlimited => issued[1] <= Refill.amount * RefillsInTime + 1

(* The load that was asked for is put on a target that answers at once, even
   when building the client took time, as long as the bucket could save the
   tokens of that time: the clock and the bucket start with the BenchRun and
   not with its client (bench_run.rs 77-85). *)
LoadReached ==
  /\ ~ Unlimited
  /\ At = "finished" /\ ~ stop
  /\ ~ slow
  /\ built < duration /\ built <= BurstFactor * Refill.interval
  => issued[1] >= Refill.amount * RefillsInTime

(* With --request_timeout no request is in flight longer than the timeout
   after the last moment a request can be sent ("Each async operation must be
   time-bound", bench_run.rs:141). *)
EndsInTime ==
  At = "inflight" /\ timeout # NoTimeout =>
    now < duration + LongestWait + timeout

(* A client whose requests are limited in rate and in time ends, though the
   target may never answer: by its clock, however slowly tokens come, and not
   by a number of requests as in module BenchBatch. *)
RunEnds ==
  At = "build" /\ ~ Unlimited /\ timeout # NoTimeout ~> At \in Ended
=============================================================================
