-------------------------- MODULE RateLadderProofs --------------------------
(***************************************************************************)
(* The closed forms of module RateLadder hold for all rates, steps and     *)
(* numbers of iterations, on any grid.                                     *)
(***************************************************************************)
EXTENDS RateLadder, TLAPS

\* The number of batches before the iterations count down.
Climbing(l) == IF l.step < One \/ l.start > l.end THEN 0 ELSE Climbs(l)

(* The fields of a ladder have their types. *)
LEMMA LadderFields ==
  ASSUME NEW l \in Ladders
  PROVE  /\ l.start \in Nat /\ l.end \in Nat /\ l.iterations \in Nat
         /\ l.step # NoStep => l.step \in Int
         /\ l.step = NoStep => l.end = l.start
<1>1. CASE l \in [start : Rates, end : Rates, step : Steps, iterations : Iterations]
  BY <1>1, LadderAssumption DEF LadderAssumption
<1>2. CASE \E r \in Rates, m \in Iterations :
             l = [start |-> r, end |-> r, step |-> NoStep, iterations |-> m]
  BY <1>2, LadderAssumption DEF LadderAssumption
<1>. QED BY <1>1, <1>2 DEF Ladders

(* Quotient and remainder of the distance by the step. *)
LEMMA Division ==
  ASSUME NEW d \in Nat, NEW s \in Nat \ {0}
  PROVE  d \div s \in Nat /\ d - (d \div s) * s \in 0..(s - 1)
BY SMT

(* A multiple of a non-negative step. *)
LEMMA Multiples ==
  ASSUME NEW n \in Nat, NEW s \in Int
  PROVE  n * s \in Int /\ (n + 1) * s = n * s + s /\ (s >= 0 => n * s >= 0)
BY SMT

(* Multiples of a step are ordered as their factors. *)
LEMMA MultiplesOrdered ==
  ASSUME NEW m \in Nat, NEW n \in Nat, m < n, NEW s \in Nat
  PROVE  m * s + s <= n * s
BY SMT

(* One capped increment of a capped rate. *)
LEMMA CappedIncrement ==
  ASSUME NEW a \in Int, NEW s \in Int, NEW st \in Int, NEW e \in Int,
         s >= 0, st <= e, st <= a
  PROVE  Greater(Lesser(a, e) + Lesser(s, e - Lesser(a, e)), st) = Lesser(a + s, e)
BY DEF Greater, Lesser

(* The rate after one increment is the next one of the closed form. *)
LEMMA NextRate ==
  ASSUME NEW l \in Ladders, l.step # NoStep, NEW n \in Nat
  PROVE  /\ RateAt(l, n + 1) \in Int
         /\ Greater(RateAt(l, n + 1) + Lesser(l.step, l.end - RateAt(l, n + 1)), l.start)
              = RateAt(l, n + 2)
<1> DEFINE m == n * l.step
<1>1. l.start \in Nat /\ l.end \in Nat /\ l.step \in Int BY LadderFields
<1>2. m \in Int /\ (n + 1) * l.step = m + l.step /\ (l.step >= 0 => m >= 0)
  BY <1>1, Multiples
<1>3. (n + 1) - 1 = n /\ (n + 2) - 1 = n + 1 OBVIOUS
<1>4. CASE Flat(l)
  <2>1. RateAt(l, n + 1) = l.start /\ RateAt(l, n + 2) = l.start BY <1>4 DEF RateAt
  <2>2. l.step < 0 \/ l.start > l.end BY <1>4 DEF Flat
  <2>. QED BY <1>1, <2>1, <2>2 DEF Lesser, Greater
<1>5. CASE ~ Flat(l)
  <2>1. RateAt(l, n + 1) = Lesser(l.start + m, l.end) BY <1>3, <1>5 DEF RateAt
  <2>2. RateAt(l, n + 2) = Lesser(l.start + (m + l.step), l.end)
    BY <1>2, <1>3, <1>5 DEF RateAt
  <2>3. l.step >= 0 /\ l.start <= l.end /\ m >= 0 BY <1>1, <1>2, <1>5 DEF Flat
  <2> HIDE DEF m
  <2>4. /\ l.start + m \in Int /\ l.start <= l.start + m
        /\ (l.start + m) + l.step = l.start + (m + l.step)
    BY <1>1, <1>2, <2>3
  <2>5. Greater(RateAt(l, n + 1) + Lesser(l.step, l.end - RateAt(l, n + 1)), l.start)
          = Lesser(l.start + (m + l.step), l.end)
    <3> DEFINE a == l.start + m
    <3>1. a \in Int /\ l.start <= a BY <2>4
    <3>2. Greater(Lesser(a, l.end) + Lesser(l.step, l.end - Lesser(a, l.end)), l.start)
            = Lesser(a + l.step, l.end)
      <4> DEFINE s == l.step
                 st == l.start
                 e == l.end
      <4>1. s \in Int /\ st \in Int /\ e \in Int BY <1>1
      <4>2. s >= 0 /\ st <= e /\ a \in Int /\ st <= a BY <2>3, <3>1
      <4> HIDE DEF a, s, st, e
      <4>3. Greater(Lesser(a, e) + Lesser(s, e - Lesser(a, e)), st) = Lesser(a + s, e)
        BY <4>1, <4>2, CappedIncrement
      <4>. QED BY <4>3 DEF s, st, e
    <3>. QED BY <2>1, <2>4, <3>2
  <2>6. RateAt(l, n + 1) \in Int BY <1>1, <2>1, <2>4 DEF Lesser
  <2>. QED BY <2>2, <2>5, <2>6
<1>. QED BY <1>4, <1>5

(* The increment falls below one request per second exactly when the climbs
   are over. *)
LEMMA ClimbsOver ==
  ASSUME NEW l \in Ladders, l.step # NoStep, NEW n \in Nat
  PROVE  /\ Climbing(l) \in Nat
         /\ Lesser(l.step, l.end - RateAt(l, n + 1)) < One <=> n >= Climbing(l)
<1>1. l.start \in Nat /\ l.end \in Nat /\ l.step \in Int BY LadderFields
<1>2. One \in Nat \ {0} BY LadderAssumption DEF LadderAssumption
<1>3. RateAt(l, n + 1) \in Int BY NextRate
<1>4. CASE l.step < One
  <2>1. Lesser(l.step, l.end - RateAt(l, n + 1)) < One
    BY <1>1, <1>2, <1>3, <1>4 DEF Lesser
  <2>. QED BY <1>4, <2>1 DEF Climbing
<1>5. CASE l.start > l.end
  <2>1. RateAt(l, n + 1) = l.start BY <1>5 DEF RateAt, Flat
  <2>2. Lesser(l.step, l.end - l.start) < One BY <1>1, <1>2, <1>5 DEF Lesser
  <2>. QED BY <1>5, <2>1, <2>2 DEF Climbing
<1>6. CASE l.step >= One /\ l.start <= l.end
  <2> DEFINE d == l.end - l.start
             q == d \div l.step
             r == d - q * l.step
             m == n * l.step
  <2>1. d \in Nat /\ l.step \in Nat \ {0} BY <1>1, <1>2, <1>6
  <2>2. q \in Nat /\ r \in 0..(l.step - 1) BY <2>1, Division
  <2>3. Climbing(l) = q + (IF r >= One THEN 1 ELSE 0)
    BY <1>1, <1>2, <1>6 DEF Climbing, Climbs
  <2>4. m \in Int /\ q * l.step \in Int BY <2>1, <2>2, Multiples
  <2>5. ~ Flat(l) BY <1>1, <1>2, <1>6 DEF Flat
  <2>6. RateAt(l, n + 1) = Lesser(l.start + m, l.end)
    <3>1. (n + 1) - 1 = n OBVIOUS
    <3>. QED BY <2>5, <3>1 DEF RateAt
  <2>7. /\ n < q => m + l.step <= q * l.step
        /\ q < n => q * l.step + l.step <= m
        /\ n = q => m = q * l.step
    BY <2>1, <2>2, MultiplesOrdered
  <2> DEFINE p == q * l.step
  <2>8. d = p + r /\ p \in Int BY <2>1, <2>2, <2>4
  <2>9. l.end = l.start + d BY <1>1
  <2>10. Climbing(l) \in Nat BY <1>2, <2>2, <2>3
  <2> HIDE DEF d, q, r, m, p
  <2>11. CASE n < q
    <3>1. m + l.step <= p BY <2>7, <2>11 DEF p
    <3>2. Lesser(l.step, l.end - Lesser(l.start + m, l.end)) >= One
      BY <1>1, <1>2, <1>6, <2>1, <2>2, <2>4, <2>8, <2>9, <3>1 DEF Lesser
    <3>. QED BY <1>1, <1>2, <2>2, <2>3, <2>4, <2>6, <2>10, <2>11, <3>2 DEF Lesser
  <2>12. CASE n = q
    <3>1. m = p BY <2>7, <2>12 DEF p
    <3>2. Lesser(l.step, l.end - Lesser(l.start + m, l.end)) = r
      BY <1>1, <2>1, <2>2, <2>4, <2>8, <2>9, <3>1 DEF Lesser
    <3>. QED BY <1>2, <2>2, <2>3, <2>6, <2>10, <2>12, <3>2
  <2>13. CASE q < n
    <3>1. p + l.step <= m BY <2>7, <2>13 DEF p
    <3>2. Lesser(l.step, l.end - Lesser(l.start + m, l.end)) = 0
      BY <1>1, <2>1, <2>2, <2>4, <2>8, <2>9, <3>1 DEF Lesser
    <3>. QED BY <1>2, <2>2, <2>3, <2>6, <2>10, <2>13, <3>2
  <2>. QED BY <2>2, <2>11, <2>12, <2>13
<1>. QED BY <1>1, <1>2, <1>4, <1>5, <1>6

-----------------------------------------------------------------------------
(* How far the ladder is, from the number of batches it has yielded. *)
Progress ==
  LET n == Len(rates)
      k == Climbing(config)
  IN  /\ GetCurrent = RateAt(config, n + 1)
      /\ IF config.step = NoStep
         THEN IF complete THEN n = Greater(1, config.iterations)
              ELSE left = config.iterations - n /\ (n = 0 \/ left >= 1)
         ELSE IF complete THEN n = k + config.iterations + 1
              ELSE left = config.iterations - Greater(0, n - k)

LadderInv == LadderTypeOK /\ Staircase /\ Progress

(* The first batch is still to come. *)
LEMMA LadderStart == LadderInit => LadderInv
<1> SUFFICES ASSUME LadderInit PROVE LadderInv OBVIOUS
<1> USE DEF LadderInit
<1>1. LadderTypeOK
  <2>1. config \in Ladders /\ left \in Nat BY LadderFields
  <2>2. current \in Int /\ rates \in Seq(Int) OBVIOUS
  <2>3. complete \in BOOLEAN OBVIOUS
  <2>. QED BY <2>1, <2>2, <2>3 DEF LadderTypeOK
<1>2. Staircase BY DEF Staircase
<1>3. ASSUME config.step = NoStep PROVE Progress
  <2>1. GetCurrent = RateAt(config, 0 + 1)
    BY <1>3, LadderFields DEF GetCurrent, Greater, RateAt, Flat
  <2>2. left = config.iterations - 0 BY LadderFields
  <2>. QED BY <1>3, <2>1, <2>2 DEF Progress
<1>4. ASSUME config.step # NoStep PROVE Progress
  <2>1. config.start \in Nat /\ config.end \in Nat /\ config.step \in Int
        /\ config.iterations \in Nat
    BY <1>4, LadderFields
  <2>2. Climbing(config) \in Nat BY <1>4, ClimbsOver
  <2>3. RateAt(config, 0 + 1) = config.start
    BY <2>1 DEF RateAt, Flat, Lesser
  <2>4. GetCurrent = config.start BY <2>1 DEF GetCurrent, Greater
  <2>. QED BY <1>4, <2>1, <2>2, <2>3, <2>4 DEF Progress, Greater
<1>. QED BY <1>1, <1>2, <1>3, <1>4 DEF LadderInv

(* Every batch keeps the invariant. *)
LEMMA LadderStep == ASSUME LadderInv, NextBatch PROVE LadderInv'
<1> DEFINE n == Len(rates)
<1> USE DEF LadderInv
<1>1. /\ config \in Ladders /\ config' = config /\ rates \in Seq(Int) /\ n \in Nat
      /\ config.start \in Nat /\ config.end \in Nat /\ config.iterations \in Nat
      /\ current \in Int /\ left \in Nat /\ complete = FALSE
  BY LadderFields DEF NextBatch, LadderTypeOK
<1>2. GetCurrent \in Int BY <1>1 DEF GetCurrent, Greater
<1>3. /\ rates' = Append(rates, GetCurrent) /\ rates' \in Seq(Int)
      /\ Len(rates') = n + 1 /\ rates'[n + 1] = GetCurrent
      /\ \A i \in 1..n : rates'[i] = rates[i]
  BY <1>1, <1>2 DEF NextBatch
<1>4. CASE config.step = NoStep
  <2>1. current' = current
        /\ \/ left <= 1 /\ complete' = TRUE /\ left' = left
           \/ left > 1 /\ complete' = FALSE /\ left' = left - 1
    BY <1>1, <1>4 DEF NextBatch, IncrementRate
  <2>2. left = config.iterations - n /\ (n = 0 \/ left >= 1) BY <1>1, <1>4 DEF Progress
  <2>3. IF complete' THEN n + 1 = Greater(1, config.iterations)
        ELSE left' = config.iterations - (n + 1) /\ left' >= 1
    BY <1>1, <2>1, <2>2 DEF Greater
  <2>4. left' = left \/ (left > 1 /\ left' = left - 1) BY <2>1
  <2>9. left' \in Nat BY <1>1, <2>4
  <2>10. complete' \in BOOLEAN BY <2>1
  <2>7. LadderTypeOK' BY <1>1, <1>3, <2>1, <2>9, <2>10 DEF LadderTypeOK
  <2>5. GetCurrent = config.start /\ GetCurrent' = config.start
    BY <1>1, <1>4, <2>1 DEF GetCurrent, Flat, RateAt, Progress
  <2>8. Progress'
    BY <1>1, <1>3, <1>4, <2>3, <2>5 DEF Progress, RateAt, Flat
  <2>6. Staircase' BY <1>1, <1>3, <1>4, <2>5 DEF Staircase, RateAt, Flat
  <2>. QED BY <2>7, <2>8, <2>6
<1>5. CASE config.step # NoStep
  <2>1. config.step \in Int BY <1>1, <1>5, LadderFields
  <2>2. Increment \in Int BY <1>1, <1>2, <2>1 DEF Increment, Lesser
  <2>3. current' = GetCurrent + Increment
        /\ IF Increment < One THEN CountIteration ELSE left' = left /\ complete' = complete
    BY <1>5 DEF NextBatch, IncrementRate
  <2>4. GetCurrent = RateAt(config, n + 1)
        /\ left = config.iterations - Greater(0, n - Climbing(config))
    BY <1>1, <1>5 DEF Progress
  <2>5. GetCurrent' = RateAt(config, n + 2)
    BY <1>1, <1>5, <2>3, <2>4, NextRate DEF GetCurrent, Increment
  <2>6. Climbing(config) \in Nat /\ (Increment < One <=> n >= Climbing(config))
    BY <1>1, <1>5, <2>4, ClimbsOver DEF Increment
  <2>7. \/ n >= Climbing(config) /\ left > 0 /\ left' = left - 1 /\ complete' = FALSE
        \/ n >= Climbing(config) /\ ~ (left > 0) /\ left' = left /\ complete' = TRUE
        \/ ~ (n >= Climbing(config)) /\ left' = left /\ complete' = FALSE
    BY <1>1, <2>3, <2>6 DEF CountIteration
  <2>8. Progress'
    <3>1. Len(rates') + 1 = n + 2 BY <1>1, <1>3
    <3>3. /\ n >= Climbing(config) /\ ~ (left > 0)
               => n + 1 = Climbing(config) + config.iterations + 1
          /\ n >= Climbing(config) /\ left > 0
               => left - 1 = config.iterations - Greater(0, n + 1 - Climbing(config))
          /\ ~ (n >= Climbing(config))
               => left = config.iterations - Greater(0, n + 1 - Climbing(config))
      <4>1. /\ n \in Nat /\ Climbing(config) \in Nat
            /\ config.iterations \in Nat /\ left \in Nat
        BY <1>1, <2>6
      <4>2. left = config.iterations - Greater(0, n - Climbing(config)) BY <2>4
      <4> DEFINE k == Climbing(config)
                 m == config.iterations
      <4>3. k \in Nat /\ m \in Nat /\ left = m - Greater(0, n - k) BY <4>1, <4>2
      <4>4. k = Climbing(config) /\ m = config.iterations OBVIOUS
      <4> HIDE DEF n, k, m
      <4>5. /\ n >= k /\ ~ (left > 0) => n + 1 = k + m + 1
            /\ n >= k /\ left > 0 => left - 1 = m - Greater(0, n + 1 - k)
            /\ ~ (n >= k) => left = m - Greater(0, n + 1 - k)
        BY <4>1, <4>3 DEF Greater
      <4>. QED BY <4>4, <4>5
    <3>4. IF complete' THEN n + 1 = Climbing(config) + config.iterations + 1
          ELSE left' = config.iterations - Greater(0, n + 1 - Climbing(config))
      BY <2>7, <3>3
    <3>5. GetCurrent' = RateAt(config', Len(rates') + 1) BY <1>1, <2>5, <3>1
    <3>6. IF complete' THEN Len(rates') = Climbing(config') + config'.iterations + 1
          ELSE left' = config'.iterations - Greater(0, Len(rates') - Climbing(config'))
      <4>1. config' = config /\ Len(rates') = n + 1 BY <1>1, <1>3
      <4>2. Climbing(config') = Climbing(config) /\ config'.iterations = config.iterations
        BY <4>1
      <4> HIDE DEF n
      <4>3. CASE complete' BY <3>4, <4>1, <4>2, <4>3
      <4>4. CASE ~ complete'
        <5>1. left' = config.iterations - Greater(0, n + 1 - Climbing(config)) BY <3>4, <4>4
        <5>2. Len(rates') - Climbing(config') = n + 1 - Climbing(config)
          BY <1>1, <2>6, <4>1, <4>2
        <5>. QED BY <4>2, <4>4, <5>1, <5>2
      <4>. QED BY <4>3, <4>4
    <3>7. config'.step # NoStep BY <1>1, <1>5
    <3> HIDE DEF n
    <3>. QED BY <3>5, <3>6, <3>7 DEF Progress
  <2>9. LadderTypeOK'
    <3>1. current' \in Int BY <1>2, <2>2, <2>3
    <3>2. left' = left \/ (left > 0 /\ left' = left - 1) BY <2>7
    <3>3. left' \in Nat BY <1>1, <3>2
    <3>4. complete' \in BOOLEAN BY <2>7
    <3>. QED BY <1>1, <1>3, <3>1, <3>3, <3>4 DEF LadderTypeOK
  <2>10. Staircase' BY <1>1, <1>3, <2>4 DEF Staircase
  <2>. QED BY <2>8, <2>9, <2>10
<1>. QED BY <1>4, <1>5

(* The closed forms of the rates and of their number are reached batch by
   batch, and nothing changes once the ladder is complete. *)
THEOREM LadderInvariant == LadderSpec => []LadderInv
<1>1. LadderInv /\ UNCHANGED ladderVars => LadderInv'
  BY DEF ladderVars, LadderInv, LadderTypeOK, Staircase, Progress, GetCurrent, Climbing
<1>2. LadderInv /\ [LadderNext]_ladderVars => LadderInv'
  BY <1>1, LadderStep DEF LadderNext, SessionOver
<1>. QED BY LadderStart, <1>2, PTL DEF LadderSpec

(* The fields of the ladder keep their types; in particular the count of the
   iterations left, a usize, never wraps. *)
THEOREM LadderTypeCorrect == LadderSpec => []LadderTypeOK
<1>1. LadderInv => LadderTypeOK BY DEF LadderInv
<1>. QED BY <1>1, LadderInvariant, PTL

(* Every batch of every ladder has the rate of the closed form. *)
THEOREM StaircaseHolds == LadderSpec => []Staircase
<1>1. LadderInv => Staircase BY DEF LadderInv
<1>. QED BY <1>1, LadderInvariant, PTL

(* The number of batches of a ladder. *)
LEMMA LadderTotal ==
  ASSUME NEW l \in Ladders
  PROVE  BatchTotal(l) \in Nat \ {0}
<1>1. l.iterations \in Nat BY LadderFields
<1>2. CASE l.step = NoStep BY <1>1, <1>2 DEF BatchTotal, Greater
<1>3. CASE l.step # NoStep
  <2>1. Climbing(l) \in Nat BY <1>3, ClimbsOver
  <2>2. BatchTotal(l) = Climbing(l) + l.iterations + 1
    BY <1>1, <1>3 DEF BatchTotal, Climbing
  <2>. QED BY <1>1, <2>1, <2>2
<1>. QED BY <1>2, <1>3

(* The number of batches follows from how far the ladder is. *)
LEMMA LadderCounts == LadderInv => BatchCount
<1>. SUFFICES ASSUME LadderInv PROVE BatchCount OBVIOUS
<1>1. /\ config \in Ladders /\ config.iterations \in Nat /\ Len(rates) \in Nat
      /\ left \in Nat /\ complete \in BOOLEAN
  BY LadderFields DEF LadderInv, LadderTypeOK
<1>2. CASE config.step = NoStep
  <2>1. BatchTotal(config) = Greater(1, config.iterations) BY <1>2 DEF BatchTotal
  <2>2. CASE complete
    <3>1. Len(rates) = Greater(1, config.iterations)
      BY <1>2, <2>2 DEF LadderInv, Progress
    <3>2. Len(rates) <= Greater(1, config.iterations) BY <1>1, <3>1
    <3>. QED BY <2>1, <2>2, <3>1, <3>2 DEF BatchCount
  <2>3. CASE ~ complete
    <3>1. left = config.iterations - Len(rates) /\ (Len(rates) = 0 \/ left >= 1)
      BY <1>2, <2>3 DEF LadderInv, Progress
    <3>2. Len(rates) < Greater(1, config.iterations) BY <1>1, <3>1 DEF Greater
    <3>3. Greater(1, config.iterations) \in Nat BY <1>1 DEF Greater
    <3>. QED BY <1>1, <2>1, <2>3, <3>2, <3>3 DEF BatchCount
  <2>. QED BY <2>2, <2>3
<1>3. CASE config.step # NoStep
  <2>1. Climbing(config) \in Nat BY <1>1, <1>3, ClimbsOver
  <2>2. BatchTotal(config) = Climbing(config) + config.iterations + 1
    BY <1>1, <1>3 DEF BatchTotal, Climbing
  <2>. QED BY <1>1, <1>3, <2>1, <2>2 DEF LadderInv, Progress, BatchCount, Greater
<1>. QED BY <1>2, <1>3

(* Every ladder yields the number of batches of the closed form, and is
   complete exactly then. *)
THEOREM BatchCountHolds == LadderSpec => []BatchCount
<1>. QED BY LadderCounts, LadderInvariant, PTL
=============================================================================
