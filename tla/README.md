# perf-gauge in TLA+

A model of [perf-gauge](../src), a load generator for network services: TLA+ modules, TLC
configurations that check them on small instances, and proofs for TLAPS. Line numbers are
those of `src/src/*.rs`, `src/README.md` is the program's own README.

## The system

| Component | Source | State | Operations | Interacts with |
|---|---|---|---|---|
| Client task | `bench_run.rs` | `requests_sent`, its `RequestStats`, the flag `STOP_ON_FATAL` of the whole process | `send_load`, `has_more_work`, `timed_operation`, `reset_stop_flag` | adapter, rate limiter, metrics channel |
| Batch | `bench_session.rs` 97-149 | join handles, the channel, the aggregator's metrics | `run`, `execute_concurrent_sessions` | spawns the client tasks and the aggregator; returns the metrics to the main loop |
| Rate ladder and session | `bench_session.rs` 36-94, 152-187 | `current`, `max_rate_iterations`, `complete` | `next`, `get_current`, `increment_rate` | yields batches to the main loop |
| Main loop, reporter thread | `main.rs` | an unbounded channel, its sender, the thread | `main`, `shutdown`, `create_async_metrics_channel` | runs batches, calls the reporters |
| Reporters | `metrics.rs` 405-478, `prometheus_reporter.rs` | none of their own; what the push gateway shows | `report`, `reset_metrics` | console, gateway |
| Metrics | `metrics.rs` | counters, summary, histograms, by operation | `report_request`, percentiles, means | aggregator, reporters |
| Rate limiter | `rate_limiter.rs` | a token bucket (crate `leaky_bucket`) | `build_rate_limiter`, `acquire_one` | one per client |
| HTTP adapter | `http_bench_session.rs` | a pool of connections (crate `hyper_util`) | `build_client`, `build_request`, `send_request` | client task, target |
| HTTP/3 adapter | `h3_bench_session.rs` | one QUIC connection (crates `h3`, `quinn`) | `build_client`, `send_request` | client task, target |
| Command line | `configuration.rs` | none | `from_command_line` | builds all of the above |
| Logger | `main.rs` 108-126 | its level | `init_logger` | formats configuration and batches, if the level asks for it |

What is hard about it: the tasks of a batch interleave freely, at awaits and on several
threads; the stop flag outlives the batch it is raised in; a task that is not joined is
detached, not cancelled, so that a batch that fails leaves clients and an aggregator behind;
the end of an aggregator depends on when the last sender of its channel is dropped; the channel
is bounded, so that aggregator, clients and main task wait for each other; a request may time
out, and a push that failed may be applied after the next one; a panic anywhere ends the process. A client looks
at the clock before it waits for its limiter, and both start before it is built. An answer may end
at every await, a body may break off after a good status, connections are kept or lost behind the
adapter's back; and much that the command line accepts is only found out by an `expect` later. The
arithmetic of the ladder, the refill and the percentiles has its edges. The hazards are listed,
each at its line, in `PROJECT.json`.

What makes each component correct:

* a batch reports every answer it got, once, and none of another batch; it returns; a fatal
  error stops its clients after at most one more request each, and no later batch;
* the ladder yields the rates its arguments ask for, and ends;
* the reporters are given the metrics of every successful batch, in order, before the process
  ends, and the gateway is left as `--continuous` says;
* the limiter never lets a client get ahead of its rate by more than the bucket holds; a client
  sends at most one request after its duration, by less than a refill interval, and as many as it
  should to a target that is fast;
* an adapter returns statistics that are those of the answer, says that an error is fatal only if
  it is one of `--error_stop`, and over HTTP uses connections as `--conn_reuse` says;
* options that are not refused lead to no panic later on, but for the few known to;
* counters, histograms and percentiles agree with the requests they stand for.

## The modules

| Module | Models | State and actions |
|---|---|---|
| `BenchRun` | the client task | `pc[b][c]` is the point of `send_load` the task of client `c` of batch `b` is at; one action per stretch between two points where another task can interfere |
| `BenchBatch` | batch, aggregator, loop over the batches, drop of the tasks at shutdown | `StartBatch`, `Join`, `JoinErr`, `CollectMetrics`, `Exit` for the main task; `Aggregate`, `FinishAggregator`; `AbortTask`, `AbortAggregator` |
| `BatchContract` | what batches promise, without tasks and channels | `Open`, `Answer`, `Return`, `Fail`; `BenchBatch` implements it |
| `RateLadder` | ladder and iterator | `NextBatch` is `next`, `IncrementRate` is `increment_rate` |
| `Reporting` | main loop, reporter thread, both reporters, panic hook, for sessions of any length up to the bound `MaxBatches`; the push gateway (external) | one action per call of a reporter; `ApplyLate` is the gateway's |
| `PerfGauge` | ladder, batches and reporting together | extends `RateLadder` and `Reporting` and has an instance of `BatchContract`; its actions join those of the three |
| `RateLimiter` | refill of a rate, bucket of a client | `LimiterInit` builds it, `Tick` (external) refills, `AcquireOne` |
| `PacedRun` | a client task with its limiter, its duration, its timeout and a clock | each action joins one of `BenchRun` with what clock and limiter add; `Advance` moves the clock |
| `AdapterContract` | what `BenchRun` may rely on of an adapter | `Start`, `AnswerHead`, `AnswerBody`, `ReturnAnswer`, `ReturnFailure`, `Leave` |
| `Adapter` | what both adapters share: configuration, connections, answer, statistics | `stage` is the await `build_client` or `send_request` is at |
| `HttpAdapter`, `H3Adapter` | the two adapters | one action per await, by outcome, and those of the libraries (a connection goes back to the pool, is closed, is lost) |
| `CommandLine` | `from_command_line` | operators: `Outcome` is the first refusal, `ConfigOf` the configuration of the adapter, `CommandLines` all there are |
| `BenchmarkMode` | one client from the options on, over `CommandLine` and both adapters; implements `AdapterContract` | `ReadOptions`, `StartSession`, then the actions of the adapter |
| `Metrics`, `Exposition` | `report_request`, statistics; what the console prints and the series of the gateway | `ReportRequest`; the statistics are operators |
| `Counting` | counting in a sequence and adding up the values of a function, both as cardinalities and so without recursion | |
| `MC*` | values of constants for TLC | |
| `BenchBatchProofs`, `RateLadderProofs`, `ReportingProofs`, `PerfGaugeProofs`, `RateLimiterProofs`, `PacedRunProofs`, `BenchmarkModeProofs`, `MetricsProofs` | what is proved of the module of that name (`MetricsProofs`: of `Metrics` and `Exposition`) | |

`main` of `BenchBatch` and `Reporting` are the same task at different grains: the first has the
inside of `BenchBatch::run`, the second what follows it.

### Decisions

* *Grain.* A step of a task is what lies between two places where another task can run and be
  noticed. Loading the flag (112) and sending (117) are two steps although no await is between
  them, for tasks run on several threads. `Relaxed` accesses to the one flag are modelled as
  atomic accesses in one order, which is what coherence gives to a single location.
* *Spawning* the tasks of a batch is one step with the reset of the flag: a task that is not
  spawned yet is not read by any other, and the main task joins only after the last. (The model
  therefore has no request of a client between the reset and the spawn of a sibling that it
  could not also have after it.)
* *Senders.* The channel of a batch is closed when its tasks have ended and
  `execute_concurrent_sessions` has returned (`SendersGone`).
* *Time* is a choice in the batches: a duration may elapse before any call of `has_more_work`, a
  request may time out whenever it is in flight. In `PacedRun` it is a clock in steps of `Granule`,
  which moves only while the task waits for its client, a token, an answer or room in the channel.
  A runtime that leaves a ready task waiting is therefore left out; it would add its delay to every
  bound in time. The history variables `built`, `slow` and `lateSends` record when the client was
  built, whether an answer or its report took time and which requests were late.
* *Libraries.* The adapters see hyper, h3 and quinn only by what their awaits return, and the
  models let those return every result at every await, with one assumption: a body that hyper does
  not see to be cut off (one that ends with the connection) is whole. In particular `recv_data` of h3
  may say anything when it is called once more (`CheckStream`), so that over HTTP/3 a body that was
  cut off is a success if the second call returns `Ok`: `AdapterContract` promises no more there
  (`twice`), and that `h3` repeats its error would have to be known from `h3`. A pool with room for no idle connection
  keeps none, and hyper tries a request again only on a connection that was used before.
* *Options* are what the code makes of them (a text that parses or not, a URL of a kind), in the
  order in which the code looks at them; the features are those the program is built with.
* *The gateway* is outside the process. A push whose client gave up, by its timeout or with the
  process, may be applied at any later time, also after a later push and after the end (`late`,
  `ApplyLate`); nothing can be done about that here, since pushes have no order the gateway knows of.
  So the gateway may go back to such a push. `GatewayAdvances` says that nothing else takes it back,
  and `GatewayFollows` that it is right from each push that succeeds to the next that fails or comes
  late, whatever failed before. It says nothing of the last push, that of the empty metrics, if that
  one fails: it is not tried again.
* *Metrics* are counted by what the control flow tells apart, fatal or not; `Metrics` has the rest.
* *f64.* The ladder adds, subtracts and compares on a grid of fractions, where f64 is exact if
  the grid is dyadic. The share of a percentile (`Share`, metrics.rs:36) is what f64 makes of it: a
  product that is an integer may come out a little above it, and its ceiling is then one more (99.9%
  of 2000 samples are 1999, since `99.9 / 100.0` is above 0.999). The constant `RoundedUp` says for
  which numbers and percentiles that happens; the proofs hold for every choice of it, the run has
  some of both kinds. In `RateLimiter`, and for the means of `Metrics`, the results are those of
  exact arithmetic; f64 may differ where a quotient is an integer or a tie. The standard deviation
  is the integer the exact one rounds to.
* *History variables* (`issued`, `answered`, `late` of `BenchBatch`, `sent`, `printed`, `astray`, `rates`,
  `acquired`) record what happened and guard nothing.
* *Mutations.* Operators under a comment that begins with "A mutation" are not part of the
  models: they are plausible bugs, one for each property, each of which makes TLC refute it.

## The runs

| Run | Question | Bounds |
|---|---|---|
| `BenchBatch_http` | two HTTP batches: conservation, completeness, the flag, `--concurrency`, refinement of `BatchContract`, and that batches return | 2 clients, 2 batches, 2 requests, channel of 1 |
| `BenchBatch_h3` | completeness and refinement beside leftovers of failed batches, batches limited by time | same, at most 2 requests before the duration is over |
| `RateLadder` | staircase and number of batches | rates 0..4 and steps -1..2 in halves, `--max_iter` 0..3 |
| `Reporting` | console complete, gateway up to date and not taken back by the program, the process ends | 3 batches, a gateway that may fail at each push, and apply it at any time after |
| `PerfGauge` | all together, in a continuous run | ladders of at most 3 batches, one answer per batch |
| `PacedRun` | precision of the refill, pacing, late requests, load below and above the rate, the end of a client | 20 rates, 1, 3 and 64 clients, bursts of 2 refills; clock in steps of 500 ms up to 3000, durations 0, 500 and 2000, timeouts 500, 1000 and none |
| `BenchmarkMode` | both adapters implement `AdapterContract`, which accepted options panic, connections as asked | 233 command lines, 3 sets of features, 2 log levels, 3 requests of a client, bodies of a frame |
| `Metrics` | counters, operations, percentiles, deviation, series and console | 9 requests of 6 outcomes, counters of an int of 4 bits |

Two clients are the least that can interfere by flag and channel, two batches the least in which
one can disturb the next, two requests the least in which the loop is taken again, and a channel
of one is full as soon as one client has reported; the safety properties proved below hold for any
bounds, liveness is checked at these only. A ladder needs a step that overshoots,
one that hits its end, a fractional and a negative one, which the grid has.

`PacedRun` checks the refill for all rates and explores the course of those whose interval the
clock can follow (`Explored`: a multiple of `Granule`, within `Horizon`, at most `MaxAmount` tokens):
intervals of 500, 1000, 2000 and 3000 ms lie below, at and above the durations, and bursts of 2
refills fill up within the horizon. `Horizon` bounds only the waits that nothing else ends, and is
above the longest duration; `MaxRequests` is met only by a client without a limiter, whose requests
take no time in the model. The number of clients matters for the rate of one client, so that one
is modelled; the others are the flag they may raise. `BenchmarkMode` has one client as well, since
clients share nothing but their configuration. Three requests are enough to use a connection, lose
it and use another, and the command lines vary each option that the code parses, and in pairs where
two are looked at together. Both runs end when the client does, so `CHECK_DEADLOCK` is `FALSE`
there.

The percentiles of `Metrics` include some nearer to the middle than the code's, so that nine samples are enough to
cut off some at either end, `RoundedUp` has half of the shares that are integers rounded up, and a `CounterLimit` of 8 makes the overflow of the i32 happen.
`OperationsAddUp` has a clause for the case that every request has a name, which the requests of the
run do not meet (no adapter names any): it is proved only.

Runs that find what a document says violated by what the code does:

| Run | What |
|---|---|
| `BenchBatch_isolation` | `bench_session.rs:100` promises that a fatal error of a previous batch does not prevent the next one from executing. A client left over from a failed HTTP/3 batch raises the flag after the reset, and the next batch returns Ok, cut short. |
| `BenchBatch_count` | `README.md:24`: `request_count` counts all requests. Timed-out ones are missing. |
| `RateLadder_maxiter` | `README.md:214`: 15 iterations at the max rate. There are 16. |
| `RateLadder_maxrate` | `configuration.rs:74`: steps until `--rate_max` is reached. Not with steps below 1. |

More sentences of the documents do not hold, and are not worth a run:

* `README.md:210` speaks of `--concurrency` clients at a time. The clients left over from a failed
  HTTP/3 batch send beside those of the next, the same cause as that of `BenchBatch_isolation`.
  With `BuildCanFail` the invariant `ConcurrencyBound` fails; `BenchBatch_http` checks it without.
* `README.md:211` says that a timeout stops the execution. It stops its batch only, since the flag
  is reset.
* `bench_run.rs:141` says that each operation is time-bound. A request is only with
  `--request_timeout`, and building a client or waiting for the channel is not: without
  `HasTimeout` the property `BatchReturns` fails.
* `configuration.rs:107` and `:126` promise random balancing over the targets and a choice about
  connections. An HTTP/3 client sends every request over its one connection to the host of the
  first target (`OpenStream`), with or without `--conn_reuse`.
* `http_bench_session.rs:206` expects that header names are valid by then. Nothing checks them
  before, and `HttpRequestBuilder::validate` (262) accepts everything; nor does anything refuse a
  command line without targets. Both are among the options of `PanicLater` in `BenchmarkMode`,
  which `OnlyThesePanic` shows to be all that are accepted and panic later on.
* `configuration.rs:77` says that `--rate_max` requires `--rate-step`. It requires `--rate` as well,
  although that has a default by `:71`: without it, `:167` panics.
* `configuration.rs:89` asks for the URL of the gateway, and `README.md:216` for `host:port`. Only
  the address of an IP and a port is accepted (`:237` panics at anything else, `localhost:9091`
  too).
* `configuration.rs:369` says that `random://` needs a positive integer. It takes those of 32
  bits and zero, and panics at larger ones (`:368`).

The last three are refusals of `from_command_line`, which `Refusals` in `CommandLine` has as the
code does; the properties of `BenchmarkMode` are about the command lines that are accepted.

### Fairness

`FairSpec` of `BenchBatch` assumes that the runtime polls what is ready (weak fairness of the
main task, of each aggregator and of each client's own steps) and that the rate limiter lets a
client go on. It does not assume that the target answers: `BatchReturns` holds by the timeout.
`BuildClient` is fair since the HTTP adapter's `build_client` awaits nothing. That a duration
elapses follows from the bound `MaxRequests` in that model, and from the clock in `PacedRun`:
`RunEnds` assumes only that the runtime polls a ready task and the aggregator, that the client gets
built or fails, and that time goes on; with a rate and a timeout the client then ends, whether the
target answers or not. A client without a rate is left out there, since its requests take no time
in the model. `Reporting` and
`PerfGauge` assume that batches return, which is `BatchReturns`, and that a print or a push
returns (the push client has a timeout).

## The proofs

Every invariant that a passing run checks is also a theorem, and so are the refinements of
`BatchContract` and `AdapterContract` and the action property `GatewayAdvances`. The theorems hold
for all values of the constants that satisfy the assumptions named in the modules, which TLC
evaluates in every run:

| Assumption | Module | Says |
|---|---|---|
| `ConstantsAssumption` | `BenchRun` | clients, batches and a channel are at least one; switches are Booleans |
| `LadderAssumption` | `RateLadder` | rates are on the grid and not negative, steps on the grid, iterations numbers |
| `ReportingAssumption`, `BoundAssumption` | `Reporting`, `PerfGauge` | `MaxBatches` is a number that no ladder exceeds, so that the bound cuts nothing off |
| `LimiterAssumption`, `PacedAssumption` | `RateLimiter`, `PacedRun` | rates are fractions, counts are positive, durations and timeouts are multiples of the step of the clock, and it is one client of one batch |
| `AdapterAssumption`, `PoolAssumption`, `OptionsAssumption` | `Adapter`, `HttpAdapter`, `BenchmarkMode` | statuses have three digits, a client sends less than the `usize::MAX` requests whose connections the pool has room for, and options are command lines |
| `MetricsAssumption` | `Metrics` | buckets are finitely many numbers with 0, percentiles are ascending, thresholds lie below the middle; f64 rounds up whatever shares it likes |

Two theorems have a hypothesis more: `ConcurrencyRespected` and `LoadIsFull` assume that clients can
be built (`BuildCanFail = FALSE`), as they always can with the HTTP adapter; without it both
properties fail, by the clients that a failed HTTP/3 batch leaves behind.

Hardly an invariant of the runs is inductive as it stands. What they need besides:

* `BenchBatchProofs`. `BatchInvariant` has `OneByOne` (batches start in order, and the running one
  alone has no result), `JoinedSoFar` (the main task has joined a prefix of the clients),
  `FinishedLast` (an aggregator ends after its clients, with its channel empty) and
  `MetricsConserved`: conservation breaks at the end of an aggregator unless its channel is empty,
  which needs the clients to be done, which at `CollectMetrics` needs the joins. `Conservation` and
  `OkIsComplete` follow. `Refinement` maps `CollectMetrics` to `Return`, `JoinErr` to `Fail`,
  `StartBatch` to `Open`, `Respond` to `Answer` and the rest to a stutter, with `FinishedLast` for
  the equality of what is reported and what was answered. `AtMostOneLate` rests on `LateOnce`, and
  `LoadIsFull` on `LoadInv`: the flag is up only if a client of this very batch has raised it, a
  client ends early only if it is up, and as long as nobody trips, the answers of a batch are the
  sum of the rounds of its clients.
* `RateLadderProofs`. `LadderInvariant` gives `current` and the iterations left as functions of the
  number of batches so far; `StaircaseHolds`, `BatchCountHolds` and `LadderTypeCorrect` follow.
* `ReportingProofs`. `ReportingInvariant`: a thread that has left its loop has an empty channel
  whose sender is gone. `ConsoleIsComplete` and `NothingIsLeftBehind` follow. `GatewayInvariant`
  adds `InOrder` (what waits is in order and not older than what the gateway shows or may yet
  apply), from which `GatewayIsAdvancing` follows, and `UpToDate`: a batch is printed before it is pushed, so that in
  the middle of a report the gateway is one behind the console. `GatewayIsFollowing` is that at
  rest.
* `PerfGaugeProofs`. `PartsRefined` shows the program to implement `RateLadder`, `BatchContract`
  and `Reporting`, so that what is proved of these holds of it: each of its actions is an action of a
  part or leaves it alone, but for one guard. `Reporting` ends a session at `MaxBatches` and the
  program at the end of its ladder, and `WithinBound` has the one from the other by `BatchCount`.
  `ProgramInvariant` keeps the parts in step: `PhasesInStep` (a batch of the contract is open while
  the main loop waits for it) and `SentAreOk` (what went into the channel are the batches that
  returned Ok, each once). `PrintsTheTruth`, `TriesEveryStep` and `ProgramGatewayFollows` follow.
* `RateLimiterProofs`. `LimiterInv` bounds every stretch of time and not only the last: what was
  acquired in it, and the tokens at its end, are at most its refills and what the bucket holds
  (`WindowsTick`, `WindowsAcquire`). The refill is precise whatever the rate, `FastPrecise` and
  `RefillKeepsRate` say: they need that `gcd` divides both its arguments, `GcdDivides`. That its
  recursion defines a function at all is proved by the least number at which it would not
  (`FitsAgree`, `FitsExists`), since the library's theorem on recursive functions takes an operator
  as a parameter.
* `PacedRunProofs`. `PacedInvariant` joins the limiter, the clock and the course of the task. `Late`
  is the reason why a client sends one request after its duration at most and by less than a refill:
  one that still waits for a token has not seen a refill since the duration was over. `Load` counts a
  token for every request, `Reached` says that as long as nobody else takes time no token is lost
  and that the clock does not move while there is one to use. `RunPaced`, `RunPrecise`,
  `RunLateBound`, `RunLoadBounded`, `RunLoadReached` and `RunEndsInTime` follow.
* `BenchmarkModeProofs`. `ModeInvariant`: the configuration stays what the options ask for
  (`Configured`), what the code has read of an answer agrees with the answer (`AnswerRead`), the
  connection of a request is there and no more were opened than requests begun (`Connected`,
  without which `ConnectionsAsAsked` is not inductive), and options outside `PanicLater` have not met a panic (`OnlyThesePanic`, by which `AcceptedRun`).
  `AdapterRefinement` maps every step of both adapters to one of `AdapterContract`, with
  `AnswerRead` for the statistics of `ReturnAnswer`.
* `MetricsProofs`. `MetricsInvariant`: every item is booked with its requests, and the operations add
  up. The sums are cardinalities, so that the lemmas on sums (`SumSplit`, `SumPlus`, `SumTimes`,
  `SumGrows`, `SumChanged`) are about finite sets; where one needs induction, `SetInduction` has it for a
  collection of sets instead of a predicate. `PercentilesSplit` follows from what the search from
  either end returns (`FromBelowIs`, `FromAboveIs`), and `TailsTruncated` from it. `SummariesOrdered`
  has to compare a percentile counted from below with one counted from above (`PercentilesGrow`), to
  bound the means by the extremes (`WeightBounds`), and for the standard deviation to prove
  Popoviciu's inequality in whole numbers (`UnderTheLine`, `VarianceBound`, `DeviationBound`): every
  sample is between the extremes, so that its square lies below the line through theirs.
  `SeriesAgreement` is about the registry and the console of `Exposition`.

Only model-checked: the liveness properties `BatchReturns`, `RunEnds`, `ProcessEnds` and
`ProgramEnds`, since fairness needs ENABLED, which the prover does not know. The runs that expect a
violation are counterexamples and have nothing to prove.

## Not modelled

* What the console divides by the time of the report, rate and bitrate: `build_item_report` takes
  the time when it runs, so a report that waits behind a slow push shows too low a rate, but
  `Reporting` has no clock. The order of the summary, the text and the JSON: layout.
* The time a batch takes beyond its duration to join its clients, and the load of several clients
  together in time: `PacedRun` has one client.
* What ends the build of an HTTP/3 client whose target does not answer: timeouts of quinn.
* What clap accepts and refuses by itself, the text of a URI, a header or a duration.
* TLS set-up, the appenders of the logger, build files, the examples: configuration and output.

## Plan

What the properties say is proved, but for liveness. What is left is to make the models say more:

* several clients of a batch together in time: `PacedRun` has one, and that their loads add up to
  the rate asked for is only the precision of its share (`RefillPrecise`);
* the safety half of `BatchReturns`, that a batch whose tasks are all blocked is one that waits for
  its target, as an invariant that can be proved without fairness;
* rate and bitrate of the console, which need a clock in `Reporting`.
