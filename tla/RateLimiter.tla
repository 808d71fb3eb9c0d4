---------------------------- MODULE RateLimiter ----------------------------
(***************************************************************************)
(* The rate limiter of one client: src/src/rate_limiter.rs, on top of the  *)
(* token bucket of the crate leaky_bucket, which is modelled from the      *)
(* options it is built with.  Each BenchRun has its own limiter, at the    *)
(* rate of the batch divided by the number of clients, and its one task    *)
(* acquires one token at a time.  Module PacedRun composes the limiter     *)
(* with that task and a clock.                                             *)
(*                                                                         *)
(* A rate is a fraction of requests per second.  The code computes it and  *)
(* the two results below in f64; here they are exact.                      *)
(***************************************************************************)
EXTENDS Integers, Sequences

CONSTANTS
  Rates,        \* rates of a batch, as [num, den]
  ClientCounts, \* numbers of clients that share the rate
  BurstFactor   \* 100 in the code

ASSUME LimiterAssumption ==
  /\ Rates \subseteq [num : Nat, den : Nat \ {0}]
  /\ ClientCounts \subseteq Nat \ {0}
  /\ BurstFactor \in Nat \ {0}

\* The rate of a client.
PerClient(rate, sharers) == [num |-> rate.num, den |-> rate.den * sharers]

gcd[p \in Nat \X Nat] == IF p[2] = 0 THEN p[1] ELSE gcd[<<p[2], p[1] % p[2]>>]

\* A mutation: the scaled rate is cut off.
ScaledCutOff(r) == (10 * r.num) \div r.den

\* (rate_per_second * 10.).round(): halves go up.
Scaled(r) == (20 * r.num + r.den) \div (2 * r.den)

\* Tokens and milliseconds of a refill.
RefillAmountAndDuration(r) ==
  IF r.num > r.den
  THEN LET g == gcd[<<Scaled(r), 10000>>]
       IN  [amount |-> Scaled(r) \div g, interval |-> 10000 \div g]
  ELSE [amount |-> 1, interval |-> (1000 * r.den) \div r.num]

VARIABLES
  rate,     \* the rate of the batch
  sharers,  \* the number of clients
  tokens,   \* tokens in the bucket
  acquired  \* history: acquired[i], the tokens acquired up to the end of the
            \* i-th interval

limiterVars == <<rate, sharers, tokens, acquired>>

Unlimited == rate.num = 0

Refill == RefillAmountAndDuration(PerClient(rate, sharers))

\* A mutation: the bucket holds the same number of tokens at every rate.
MaxTokensFixed == BurstFactor

MaxTokens == BurstFactor * Refill.amount

\* A mutation: the bucket is full at first.
LimiterInitFull ==
  /\ rate \in Rates
  /\ sharers \in ClientCounts
  /\ tokens = IF Unlimited THEN 0 ELSE MaxTokens
  /\ acquired = <<0>>

\* build_rate_limiter
LimiterInit ==
  /\ rate \in Rates
  /\ sharers \in ClientCounts
  /\ tokens = 0
  /\ acquired = <<0>>

\* A mutation: no limit to the tokens that are saved.
AddTokensUnlimited == tokens' = tokens + Refill.amount

AddTokens ==
  tokens' = IF tokens + Refill.amount <= MaxTokens
            THEN tokens + Refill.amount ELSE MaxTokens

\* The end of an interval.
Tick ==
  /\ ~ Unlimited
  /\ AddTokens
  /\ acquired' = Append(acquired, acquired[Len(acquired)])
  /\ UNCHANGED <<rate, sharers>>

\* acquire_one completes: at once without a bucket, or with a token of it.
AcquireOne ==
  \/ Unlimited /\ UNCHANGED limiterVars
  \/ /\ ~ Unlimited
     /\ tokens > 0
     /\ tokens' = tokens - 1
     /\ acquired' = [acquired EXCEPT ![Len(acquired)] = @ + 1]
     /\ UNCHANGED <<rate, sharers>>

-----------------------------------------------------------------------------
\* Properties.

\* Tokens acquired in these intervals.
Granted(from, to) ==
  acquired[to] - (IF from = 1 THEN 0 ELSE acquired[from - 1])

(* From the start of a batch a client never gets ahead of its rate, and after
   a pause it catches up by at most the tokens the bucket holds, in whatever
   window of time (rate_limiter.rs 30-42). *)
Paced ==
  ~ Unlimited =>
    /\ Granted(1, Len(acquired)) <= (Len(acquired) - 1) * Refill.amount
    /\ \A i, j \in 1..Len(acquired) : i <= j =>
         Granted(i, j) <= MaxTokens + (j - i) * Refill.amount

(* The refill keeps the rate of a client "to preserve one decimal place of
   precision" above one request per second (rate_limiter.rs:62), and the
   interval to a millisecond below; so the clients of a batch are together off
   its rate by at most a twentieth of a request per second each. *)
RefillPrecise ==
  ~ Unlimited =>
    LET r == PerClient(rate, sharers)
        wanted == r.num * Refill.interval
        given == 1000 * Refill.amount * r.den
        off == IF given >= wanted THEN given - wanted ELSE wanted - given
    IN  /\ Refill.amount >= 1 /\ Refill.interval >= 1
        /\ IF r.num > r.den THEN 20 * off <= r.den * Refill.interval
                            ELSE wanted <= given /\ off < r.num
=============================================================================
