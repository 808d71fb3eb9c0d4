----------------------------- MODULE RateLadder -----------------------------
(***************************************************************************)
(* The rates of a session: RateLadder and the iterator of BenchSession in  *)
(* src/src/bench_session.rs, with the ladders that the command line can    *)
(* build (src/src/configuration.rs).                                       *)
(*                                                                         *)
(* Rates are f64 in the code.  Here they are integers that count 1/One of  *)
(* a request per second; the code adds, subtracts and compares only, which *)
(* f64 does exactly on such a grid when One is a power of two.             *)
(***************************************************************************)
EXTENDS Integers, Sequences

CONSTANTS
  One,         \* one request per second
  Rates,       \* values of --rate and --rate_max
  Steps,       \* values of --rate_step
  NoStep,      \* rate_increment is None
  Iterations   \* values of --max_iter

ASSUME LadderAssumption ==
  /\ One \in Nat \ {0}
  /\ Rates \subseteq Nat
  /\ Steps \subseteq Int
  /\ NoStep \notin Int
  /\ Iterations \subseteq Nat

VARIABLES
  config,    \* the fields of the ladder that never change
  current,   \* current
  left,      \* max_rate_iterations
  complete,  \* complete
  rates      \* history: the rates of the batches yielded so far

ladderVars == <<config, current, left, complete, rates>>

\* With --rate_max, --rate and --rate_step are required; without it the end of
\* the ladder is its start and it has no step.
Ladders ==
  [start : Rates, end : Rates, step : Steps, iterations : Iterations]
    \cup {[start |-> r, end |-> r, step |-> NoStep, iterations |-> m] :
            r \in Rates, m \in Iterations}

LadderTypeOK ==
  /\ config \in Ladders
  /\ current \in Int
  /\ left \in Nat
  /\ complete \in BOOLEAN
  /\ rates \in Seq(Int)

LadderInit ==
  /\ config \in Ladders
  /\ current = 0
  /\ left = config.iterations
  /\ complete = FALSE
  /\ rates = <<>>

Lesser(a, b)  == IF a <= b THEN a ELSE b
Greater(a, b) == IF a >= b THEN a ELSE b

GetCurrent == Greater(current, config.start)

\* A mutation: the distance to the end does not cap the step.
IncrementUncapped == config.step

Increment == Lesser(config.step, config.end - GetCurrent)

\* A mutation: the count runs below zero.
CountIterationPastZero ==
  IF left >= 0 THEN left' = left - 1 /\ UNCHANGED complete
               ELSE complete' = TRUE /\ UNCHANGED left

\* A mutation: one iteration fewer.
CountIterationEarly ==
  IF left > 1 THEN left' = left - 1 /\ UNCHANGED complete
              ELSE complete' = TRUE /\ UNCHANGED left

\* An increment below 1. uses up one of the iterations at the max rate.
CountIteration ==
  IF left > 0 THEN left' = left - 1 /\ UNCHANGED complete
              ELSE complete' = TRUE /\ UNCHANGED left

IncrementRate ==
  \/ /\ config.step = NoStep
     /\ IF left <= 1 THEN complete' = TRUE /\ UNCHANGED left
                     ELSE left' = left - 1 /\ UNCHANGED complete
     /\ UNCHANGED current
  \/ /\ config.step # NoStep
     /\ current' = GetCurrent + Increment
     /\ IF Increment < One THEN CountIteration ELSE UNCHANGED <<left, complete>>

\* BenchSession::next yields a batch at the current rate and moves on.
NextBatch ==
  /\ ~ complete
  /\ rates' = Append(rates, GetCurrent)
  /\ IncrementRate
  /\ UNCHANGED config

\* next returns None from now on.
SessionOver == complete /\ UNCHANGED ladderVars

LadderNext == NextBatch \/ SessionOver

LadderSpec == LadderInit /\ [][LadderNext]_ladderVars

-----------------------------------------------------------------------------
\* Properties.

\* The step never takes the ladder off its start.
Flat(l) == \/ l.step = NoStep
           \/ l.step < 0
           \/ l.start > l.end

RateAt(l, i) ==
  IF Flat(l) THEN l.start ELSE Lesser(l.start + (i - 1) * l.step, l.end)

(* The rate of the i-th batch is the arithmetic progression cut off at
   --rate_max, or --rate all along: the incremental updates of current agree
   with this closed form (bench_session.rs 153-187, README.md 212). *)
Staircase == \A i \in 1..Len(rates) : rates[i] = RateAt(config, i)

\* Increments of at least one request per second between start and end.
Climbs(l) ==
  LET distance == l.end - l.start
      whole == distance \div l.step
  IN  whole + (IF distance - whole * l.step >= One THEN 1 ELSE 0)

BatchTotal(l) ==
  IF l.step = NoStep THEN Greater(1, l.iterations)
  ELSE IF l.step < One \/ l.start > l.end THEN l.iterations + 1
  ELSE Climbs(l) + l.iterations + 1

(* The session yields as many batches as the ladder has climbs of at least one
   request per second, and --max_iter and one more at its end; without a step
   it yields --max_iter, and at least one.  It is complete then and not before,
   so it ends for every choice of arguments: a step of zero, a negative or a
   fractional one, and an end below the start included (bench_session.rs
   54-57, 157-187). *)
BatchCount ==
  /\ Len(rates) <= BatchTotal(config)
  /\ complete <=> Len(rates) = BatchTotal(config)
=============================================================================
