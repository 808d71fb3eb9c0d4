---------------------------- MODULE MCRateLadder ----------------------------
(***************************************************************************)
(* RateLadder on a grid of half requests per second, with what README.md   *)
(* and the help of the command line say of the options.                    *)
(***************************************************************************)
EXTENDS RateLadder, FiniteSets

MCRates == {0, 1, 2, 4, 5, 8}
MCSteps == {-2, 0, 1, 2, 3, 4}
MCIterations == 0..3

(* README.md:214 "`--max_iter 15` - perform `15` iterations at the max rate",
   for ladders that reach the max rate by whole steps (bench_session.rs 172-183). *)
MaxIterAtMaxRate ==
  /\ complete
  /\ config.step # NoStep /\ config.step >= One
  /\ config.start < config.end /\ (config.end - config.start) % config.step = 0
  /\ config.iterations > 0
  => Cardinality({i \in 1..Len(rates) : rates[i] = config.end}) = config.iterations

(* README.md:212 "then add 1000 rps after each step until it reaches 25k", and
   configuration.rs:74 "Rate increase step (until it reaches --rate_max)", for
   any step above zero (bench_session.rs 173-183). *)
ReachesMaxRate ==
  /\ complete
  /\ config.step # NoStep /\ config.step > 0
  /\ config.start <= config.end
  /\ config.iterations > 0
  => rates[Len(rates)] = config.end
=============================================================================
