------------------------- MODULE RateLimiterProofs -------------------------
(***************************************************************************)
(* Proofs about module RateLimiter, for every rate, number of clients and  *)
(* burst factor: the recursion of gcd is well defined and gcd divides both *)
(* of its arguments, the refill keeps the rate, and what a client acquires *)
(* keeps to it.                                                            *)
(***************************************************************************)
EXTENDS RateLimiter, WellFoundedInduction, SequenceTheorems, TLAPS

-----------------------------------------------------------------------------
\* Arithmetic.

(* A set of numbers that is not empty has a least one. *)
LEMMA LeastNat ==
  ASSUME NEW T \in SUBSET Nat, T # {}
  PROVE  \E n \in T : \A m \in T : n <= m
<1>1. PICK n \in T : \A m \in T : ~ (<<m, n>> \in OpToRel(<, Nat))
  BY NatLessThanWellFounded, WFMin
<1>2. ASSUME NEW m \in T PROVE n <= m
  <2>1. <<m, n>> \notin OpToRel(<, Nat) BY <1>1
  <2>2. m \in Nat /\ n \in Nat OBVIOUS
  <2>3. ~ (m < n) BY <2>1, <2>2 DEF OpToRel
  <2>. QED BY <2>2, <2>3
<1>. QED BY <1>2

(* Division with a remainder. *)
LEMMA DivMod ==
  ASSUME NEW a \in Nat, NEW b \in Nat \ {0}
  PROVE  /\ a \div b \in Nat /\ a % b \in Nat /\ a % b < b
         /\ a = b * (a \div b) + (a % b)
OBVIOUS

LEMMA DivModUnique ==
  ASSUME NEW a \in Nat, NEW b \in Nat \ {0}, NEW q \in Nat, NEW r \in Nat,
         r < b, a = b * q + r
  PROVE  a \div b = q /\ a % b = r
OBVIOUS

-----------------------------------------------------------------------------
\* gcd is defined by recursion on its second argument.

(* f is as gcd is defined, where the second argument is at most n. *)
Fits(f, n) ==
  \A a \in Nat, b \in 0..n : f[<<a, b>>] = IF b = 0 THEN a ELSE f[<<b, a % b>>]

LEMMA FitsAgree ==
  ASSUME NEW f, NEW g, NEW m \in Nat, NEW n \in Nat, Fits(f, m), Fits(g, n)
  PROVE  \A a \in Nat, b \in Nat : b <= m /\ b <= n => f[<<a, b>>] = g[<<a, b>>]
<1> DEFINE T == {b \in Nat : b <= m /\ b <= n /\ \E a \in Nat : f[<<a, b>>] # g[<<a, b>>]}
<1> SUFFICES ASSUME T # {} PROVE FALSE
  OBVIOUS
<1>1. PICK b \in T : \A c \in T : b <= c
  <2>1. T \in SUBSET Nat OBVIOUS
  <2>. QED BY <2>1, LeastNat, Zenon
<1>2. PICK a \in Nat : f[<<a, b>>] # g[<<a, b>>] BY <1>1
<1>3. b \in 0..m /\ b \in 0..n OBVIOUS
<1>4. b # 0 BY <1>2, <1>3 DEF Fits
<1>5. f[<<a, b>>] = f[<<b, a % b>>] /\ g[<<a, b>>] = g[<<b, a % b>>]
  BY <1>3, <1>4 DEF Fits
<1>6. a % b \in Nat /\ a % b < b BY <1>4, DivMod
<1>7. a % b \notin T BY <1>1, <1>6
<1>. QED BY <1>2, <1>5, <1>6, <1>7

LEMMA FitsExists == ASSUME NEW n \in Nat PROVE \E f : Fits(f, n)
<1> DEFINE T == {k \in Nat : ~ \E f : Fits(f, k)}
<1> SUFFICES ASSUME T # {} PROVE FALSE
  OBVIOUS
<1>1. PICK k \in T : \A c \in T : k <= c
  <2>1. T \in SUBSET Nat OBVIOUS
  <2>. QED BY <2>1, LeastNat, Zenon
<1>2. CASE k = 0
  <2> DEFINE f == [p \in Nat \X {0} |-> p[1]]
  <2>1. \A a \in Nat, b \in 0..0 : f[<<a, b>>] = a OBVIOUS
  <2>2. Fits(f, 0) BY <2>1 DEF Fits
  <2>. QED BY <1>2, <2>2
<1>3. CASE k # 0
  <2>1. k - 1 \in Nat /\ k - 1 \notin T BY <1>1, <1>3
  <2>2. PICK g : Fits(g, k - 1) BY <2>1
  <2> DEFINE f == [p \in Nat \X (0..k) |->
                     IF p[2] = k THEN g[<<k, p[1] % k>>] ELSE g[p]]
  <2>3. ASSUME NEW a \in Nat, NEW b \in 0..k
        PROVE  f[<<a, b>>] = IF b = 0 THEN a ELSE f[<<b, a % b>>]
    <3>1. f[<<a, b>>] = IF b = k THEN g[<<k, a % k>>] ELSE g[<<a, b>>] OBVIOUS
    <3>2. CASE b = 0
      <4>1. 0 \in 0..(k - 1) BY <2>1
      <4>2. g[<<a, 0>>] = IF 0 = 0 THEN a ELSE g[<<0, a % 0>>] BY <2>2, <4>1, Zenon DEF Fits
      <4>3. g[<<a, 0>>] = a BY <4>2, Zenon
      <4>. QED BY <1>3, <3>1, <3>2, <4>3
    <3>3. CASE b # 0
      <4>1. a % b \in Nat /\ a % b < b BY <3>3, DivMod
      <4>2. <<b, a % b>> \in Nat \X (0..k) /\ a % b # k BY <4>1
      <4>3. f[<<b, a % b>>] = g[<<b, a % b>>] BY <4>2
      <4>4. CASE b # k
        <5>1. b \in 0..(k - 1) BY <2>1, <4>4
        <5>2. g[<<a, b>>] = IF b = 0 THEN a ELSE g[<<b, a % b>>]
          BY <2>2, <5>1, Zenon DEF Fits
        <5>3. g[<<a, b>>] = g[<<b, a % b>>] BY <3>3, <5>2, Zenon
        <5>. QED BY <3>1, <3>3, <4>3, <4>4, <5>3
      <4>5. CASE b = k
        <5>. QED BY <3>1, <3>3, <4>3, <4>5
      <4>. QED BY <4>4, <4>5
    <3>. QED BY <3>2, <3>3
  <2> HIDE DEF f
  <2>4. Fits(f, k) BY <2>3 DEF Fits
  <2>. QED BY <2>4
<1>. QED BY <1>2, <1>3

(* The equation that defines gcd has a solution, so gcd satisfies it. *)
LEMMA GcdUnfold ==
  ASSUME NEW a \in Nat, NEW b \in Nat
  PROVE  gcd[<<a, b>>] = IF b = 0 THEN a ELSE gcd[<<b, a % b>>]
<1> DEFINE Part(n) == CHOOSE f : Fits(f, n)
           F == [p \in Nat \X Nat |-> Part(p[2])[p]]
           Body(f) == [p \in Nat \X Nat |->
                         IF p[2] = 0 THEN p[1] ELSE f[<<p[2], p[1] % p[2]>>]]
<1>1. \A n \in Nat : Fits(Part(n), n) BY FitsExists
<1> HIDE DEF Part
<1>2. ASSUME NEW p \in Nat \X Nat PROVE F[p] = Body(F)[p]
  <2>1. PICK x \in Nat, y \in Nat : p = <<x, y>> OBVIOUS
  <2>2. F[p] = Part(y)[<<x, y>>] BY <2>1
  <2>3. Body(F)[p] = IF y = 0 THEN x ELSE F[<<y, x % y>>] BY <2>1
  <2>4. Part(y)[<<x, y>>] = IF y = 0 THEN x ELSE Part(y)[<<y, x % y>>]
    BY <1>1 DEF Fits
  <2>5. ASSUME y # 0 PROVE F[<<y, x % y>>] = Part(y)[<<y, x % y>>]
    <3>1. x % y \in Nat /\ x % y < y BY <2>5, DivMod
    <3>2. F[<<y, x % y>>] = Part(x % y)[<<y, x % y>>] BY <3>1
    <3>3. Fits(Part(y), y) /\ Fits(Part(x % y), x % y) BY <1>1, <3>1
    <3>. QED BY <3>1, <3>2, <3>3, FitsAgree
  <2>. QED BY <2>2, <2>3, <2>4, <2>5
<1>3. F = Body(F)
  <2>1. F = [p \in Nat \X Nat |-> F[p]] OBVIOUS
  <2>. QED BY <1>2, <2>1
<1> HIDE DEF F
<1>4. gcd = CHOOSE f : f = Body(f) BY DEF gcd
<1>5. gcd = Body(gcd) BY <1>3, <1>4
<1>. QED BY <1>5

Divides(g, n) == \E x \in Nat : n = g * x

(* A common divisor of the arguments the recursion goes on with is one of the
   arguments it was at. *)
LEMMA DivisorCarries ==
  ASSUME NEW a \in Nat, NEW b \in Nat \ {0}, NEW g \in Nat,
         Divides(g, b), Divides(g, a % b)
  PROVE  Divides(g, a)
<1>1. a \div b \in Nat /\ a = b * (a \div b) + (a % b) BY DivMod
<1>2. PICK x \in Nat : b = g * x BY DEF Divides
<1>3. PICK y \in Nat : a % b = g * y BY DEF Divides
<1>4. PICK q \in Nat : a = (g * x) * q + g * y BY <1>1, <1>2, <1>3
<1>5. (g * x) * q + g * y = g * (x * q + y) OBVIOUS
<1>6. x * q + y \in Nat OBVIOUS
<1>. QED BY <1>4, <1>5, <1>6 DEF Divides

(* gcd is positive and divides both of its arguments. *)
LEMMA GcdDivides ==
  ASSUME NEW a \in Nat, NEW b \in Nat, b # 0
  PROVE  /\ gcd[<<a, b>>] \in Nat \ {0}
         /\ Divides(gcd[<<a, b>>], a) /\ Divides(gcd[<<a, b>>], b)
<1> DEFINE Good(u, v) == /\ gcd[<<u, v>>] \in Nat \ {0}
                         /\ Divides(gcd[<<u, v>>], u) /\ Divides(gcd[<<u, v>>], v)
           T == {v \in Nat : v # 0 /\ \E u \in Nat : ~ Good(u, v)}
<1> SUFFICES ASSUME T # {} PROVE FALSE
  BY Zenon
<1> HIDE DEF Good
<1>1. PICK v \in T : \A c \in T : v <= c
  <2>1. T \in SUBSET Nat OBVIOUS
  <2>. QED BY <2>1, LeastNat, Zenon
<1>2. v \in Nat \ {0} /\ \E u \in Nat : ~ Good(u, v) OBVIOUS
<1>3. PICK u \in Nat : ~ Good(u, v) BY <1>2
<1>4. gcd[<<u, v>>] = gcd[<<v, u % v>>] BY <1>2, GcdUnfold
<1>5. /\ u % v \in Nat /\ u % v < v /\ u \div v \in Nat
      /\ u = v * (u \div v) + (u % v)
  BY <1>2, DivMod
<1>6. CASE u % v = 0
  <2>1. gcd[<<v, 0>>] = IF 0 = 0 THEN v ELSE gcd[<<0, v % 0>>] BY <1>2, GcdUnfold, Zenon
  <2>2. gcd[<<v, 0>>] = v BY <2>1, Zenon
  <2>3. gcd[<<u, v>>] = v BY <1>4, <1>6, <2>2
  <2>4. v = v * 1 BY <1>2
  <2>5. u = v * (u \div v) BY <1>2, <1>5, <1>6
  <2>6. Divides(v, v) BY <2>4 DEF Divides
  <2>7. Divides(v, u) BY <1>5, <2>5, Zenon DEF Divides
  <2>. QED BY <1>2, <1>3, <2>3, <2>6, <2>7 DEF Good
<1>7. CASE u % v # 0
  <2>1. ~ (u % v \in T) BY <1>1, <1>2, <1>5
  <2>2. Good(v, u % v) BY <1>2, <1>5, <1>7, <2>1, Zenon
  <2> DEFINE g == gcd[<<v, u % v>>]
  <2>3. g \in Nat \ {0} /\ Divides(g, v) /\ Divides(g, u % v) BY <2>2, Zenon DEF Good
  <2> HIDE DEF g
  <2>4. Divides(g, u) BY <1>2, <2>3, DivisorCarries
  <2>5. gcd[<<u, v>>] = g BY <1>4 DEF g
  <2>. QED BY <1>3, <2>3, <2>4, <2>5, Zenon DEF Good
<1>. QED BY <1>6, <1>7

-----------------------------------------------------------------------------
\* The refill.

(* A number divided by one of its divisors. *)
LEMMA DivByDivisor ==
  ASSUME NEW n \in Nat, NEW g \in Nat \ {0}, NEW x \in Nat, n = g * x
  PROVE  n \div g = x
BY DivModUnique

(* The scaled rate is the nearest whole number to ten times the rate. *)
LEMMA ScaledNearest ==
  ASSUME NEW r \in [num : Nat, den : Nat \ {0}]
  PROVE  /\ Scaled(r) \in Nat
         /\ (2 * r.den) * Scaled(r) <= 20 * r.num + r.den
         /\ 20 * r.num + r.den < (2 * r.den) * Scaled(r) + 2 * r.den
<1> DEFINE n == 20 * r.num + r.den
           d == 2 * r.den
<1>1. n \in Nat /\ d \in Nat \ {0} OBVIOUS
<1>2. Scaled(r) = n \div d BY DEF Scaled
<1> HIDE DEF n, d
<1>3. /\ n \div d \in Nat /\ n % d \in Nat /\ n % d < d
      /\ n = d * (n \div d) + (n % d)
  BY <1>1, DivMod
<1>4. PICK q \in Nat, m \in Nat : q = n \div d /\ m < d /\ n = d * q + m BY <1>3
<1>5. d * q \in Nat BY <1>1
<1>6. d * q <= n /\ n < d * q + d BY <1>1, <1>4, <1>5
<1>. QED BY <1>2, <1>4, <1>6 DEF n, d

(* Above one request per second, amount and interval are in the proportion of
   the scaled rate to ten seconds. *)
LEMMA FastRefill ==
  ASSUME NEW r \in [num : Nat, den : Nat \ {0}], r.num > r.den
  PROVE  \E g \in Nat \ {0} :
           /\ RefillAmountAndDuration(r).amount \in Nat \ {0}
           /\ RefillAmountAndDuration(r).interval \in Nat \ {0}
           /\ Scaled(r) = g * RefillAmountAndDuration(r).amount
           /\ 10000 = g * RefillAmountAndDuration(r).interval
<1>1. Scaled(r) \in Nat BY ScaledNearest
<1>2. Scaled(r) # 0 BY ScaledNearest
<1> DEFINE s == Scaled(r)
           g == gcd[<<s, 10000>>]
<1>3. RefillAmountAndDuration(r) = [amount |-> s \div g, interval |-> 10000 \div g]
  BY DEF RefillAmountAndDuration
<1> HIDE DEF s
<1>9. s \in Nat /\ 10000 \in Nat /\ 10000 # 0 BY <1>1 DEF s
<1>4. g \in Nat \ {0} /\ Divides(g, s) /\ Divides(g, 10000)
  BY <1>9, GcdDivides
<1> HIDE DEF g
<1>10. PICK x \in Nat : s = g * x BY <1>4 DEF Divides
<1>11. PICK y \in Nat : 10000 = g * y BY <1>4 DEF Divides
<1>5. s = g * x /\ 10000 = g * y BY <1>10, <1>11
<1>6. s \div g = x /\ 10000 \div g = y BY <1>1, <1>4, <1>5, DivByDivisor DEF s
<1>7. x # 0 /\ y # 0 BY <1>2, <1>4, <1>5 DEF s
<1>8. /\ RefillAmountAndDuration(r).amount = x
      /\ RefillAmountAndDuration(r).interval = y
  BY <1>3, <1>6
<1>. QED BY <1>4, <1>5, <1>7, <1>8 DEF s

(* Otherwise one token comes in the milliseconds of a request, cut off. *)
LEMMA SlowRefill ==
  ASSUME NEW r \in [num : Nat, den : Nat \ {0}], r.num # 0, ~ (r.num > r.den)
  PROVE  /\ RefillAmountAndDuration(r).amount = 1
         /\ RefillAmountAndDuration(r).interval \in Nat \ {0}
         /\ r.num * RefillAmountAndDuration(r).interval <= 1000 * r.den
         /\ 1000 * r.den < r.num * RefillAmountAndDuration(r).interval + r.num
<1> DEFINE n == 1000 * r.den
           q == n \div r.num
<1>1. r.num \in Nat \ {0} /\ r.den \in Nat \ {0} /\ n \in Nat OBVIOUS
<1>2. RefillAmountAndDuration(r) = [amount |-> 1, interval |-> q]
  BY DEF RefillAmountAndDuration
<1>4. n >= r.num BY <1>1
<1> HIDE DEF n
<1>3. q \in Nat /\ n % r.num \in Nat /\ n % r.num < r.num /\ n = r.num * q + (n % r.num)
  BY <1>1, DivMod
<1> HIDE DEF q
<1>5. r.num * q \in Nat BY <1>1, <1>3
<1>6. r.num * q <= n /\ n < r.num * q + r.num BY <1>1, <1>3, <1>5
<1>7. q # 0 BY <1>1, <1>4, <1>6
<1>8. /\ RefillAmountAndDuration(r).amount = 1
      /\ RefillAmountAndDuration(r).interval = q
  BY <1>2
<1>. QED BY <1>3, <1>6, <1>7, <1>8 DEF n

(* A factor on both sides of a comparison. *)
LEMMA Cancel ==
  ASSUME NEW g \in Nat \ {0}, NEW x \in Int, NEW y \in Int, g * x <= g * y
  PROVE  x <= y
<1>1. x > y => g * x > g * y OBVIOUS
<1>. QED BY <1>1

(* The share of a client is a rate. *)
LEMMA ShareType ==
  ASSUME rate \in Rates, sharers \in ClientCounts
  PROVE  /\ PerClient(rate, sharers) \in [num : Nat, den : Nat \ {0}]
         /\ PerClient(rate, sharers).num = rate.num
<1>1. rate.num \in Nat /\ rate.den \in Nat \ {0} /\ sharers \in Nat \ {0}
  BY LimiterAssumption
<1>2. rate.den * sharers \in Nat \ {0} BY <1>1
<1>. QED BY <1>1, <1>2 DEF PerClient

(* A limited client has a refill of at least one token, in some time. *)
LEMMA RefillType ==
  ASSUME rate \in Rates, sharers \in ClientCounts, ~ Unlimited
  PROVE  Refill.amount \in Nat \ {0} /\ Refill.interval \in Nat \ {0}
<1> DEFINE r == PerClient(rate, sharers)
<1>1. r \in [num : Nat, den : Nat \ {0}] /\ r.num # 0 BY ShareType DEF Unlimited
<1>2. Refill = RefillAmountAndDuration(r) BY DEF Refill
<1> HIDE DEF r
<1>3. CASE r.num > r.den BY <1>1, <1>2, <1>3, FastRefill
<1>4. CASE ~ (r.num > r.den) BY <1>1, <1>2, <1>4, SlowRefill
<1>. QED BY <1>3, <1>4

(* How far a refill is off the rate, above one request per second. *)
LEMMA FastPrecise ==
  ASSUME NEW num \in Nat, NEW den \in Nat, NEW s \in Nat, NEW g \in Nat \ {0},
         NEW amount \in Nat, NEW interval \in Nat,
         s = g * amount, 10000 = g * interval,
         (2 * den) * s <= 20 * num + den,
         20 * num + den < (2 * den) * s + 2 * den
  PROVE  /\ 20 * (1000 * amount * den - num * interval) <= den * interval
         /\ 20 * (num * interval - 1000 * amount * den) <= den * interval
<1> DEFINE P == amount * den
           Q == num * interval
           R == den * interval
           S == den * s
<1>1. P \in Nat /\ Q \in Nat /\ R \in Nat /\ S \in Nat OBVIOUS
<1>2. g * P = S
  <2>1. g * (amount * den) = den * (g * amount) OBVIOUS
  <2>. QED BY <2>1
<1>3. g * Q = 10000 * num
  <2>1. g * (num * interval) = num * (g * interval) OBVIOUS
  <2>. QED BY <2>1
<1>4. g * R = 10000 * den
  <2>1. g * (den * interval) = den * (g * interval) OBVIOUS
  <2>. QED BY <2>1
<1>5. (2 * den) * s = 2 * S OBVIOUS
<1>6. 1000 * amount * den = 1000 * P OBVIOUS
<1>7. 2 * S <= 20 * num + den /\ 20 * num < 2 * S + den BY <1>1, <1>5
<1> HIDE DEF P, Q, R, S
<1>8. g * (20 * (1000 * P - Q)) = 20000 * (g * P) - 20 * (g * Q) BY <1>1
<1>9. g * (20 * (Q - 1000 * P)) = 20 * (g * Q) - 20000 * (g * P) BY <1>1
<1>10. g * (20 * (1000 * P - Q)) <= g * R BY <1>1, <1>2, <1>3, <1>4, <1>7, <1>8
<1>11. g * (20 * (Q - 1000 * P)) <= g * R BY <1>1, <1>2, <1>3, <1>4, <1>7, <1>9
<1>12. 20 * (1000 * P - Q) <= R /\ 20 * (Q - 1000 * P) <= R
  <2>1. 20 * (1000 * P - Q) \in Int /\ 20 * (Q - 1000 * P) \in Int /\ R \in Int BY <1>1
  <2>. QED BY <1>10, <1>11, <2>1, Cancel
<1>. QED BY <1>6, <1>12 DEF P, Q, R

(* Every refill keeps the rate as closely as RefillPrecise says. *)
LEMMA RefillKeepsRate ==
  ASSUME rate \in Rates, sharers \in ClientCounts
  PROVE  RefillPrecise
<1> SUFFICES ASSUME ~ Unlimited PROVE RefillPrecise
  BY DEF RefillPrecise
<1> DEFINE r == PerClient(rate, sharers)
           amount == Refill.amount
           interval == Refill.interval
           wanted == r.num * interval
           given == 1000 * amount * r.den
           off == IF given >= wanted THEN given - wanted ELSE wanted - given
<1>1. r \in [num : Nat, den : Nat \ {0}] /\ r.num # 0 BY ShareType DEF Unlimited
<1>2. amount \in Nat \ {0} /\ interval \in Nat \ {0} BY RefillType
<1>3. Refill = RefillAmountAndDuration(r) BY DEF Refill
<1>4. SUFFICES IF r.num > r.den THEN 20 * off <= r.den * interval
                                ELSE wanted <= given /\ off < r.num
  BY <1>2 DEF RefillPrecise
<1> HIDE DEF r
<1>5. r.num \in Nat /\ r.den \in Nat \ {0} BY <1>1
<1>6. wanted \in Nat /\ given \in Nat BY <1>2, <1>5
<1>7. CASE r.num > r.den
  <2>1. PICK g \in Nat \ {0} : Scaled(r) = g * amount /\ 10000 = g * interval
    BY <1>1, <1>3, <1>7, FastRefill
  <2>2. /\ Scaled(r) \in Nat
        /\ (2 * r.den) * Scaled(r) <= 20 * r.num + r.den
        /\ 20 * r.num + r.den < (2 * r.den) * Scaled(r) + 2 * r.den
    BY <1>1, ScaledNearest
  <2>3. /\ 20 * (1000 * amount * r.den - r.num * interval) <= r.den * interval
        /\ 20 * (r.num * interval - 1000 * amount * r.den) <= r.den * interval
    <3> DEFINE s == Scaled(r)
               m == r.num
               n == r.den
    <3>1. /\ m \in Nat /\ n \in Nat /\ s \in Nat /\ amount \in Nat /\ interval \in Nat
          /\ s = g * amount /\ 10000 = g * interval
          /\ (2 * n) * s <= 20 * m + n /\ 20 * m + n < (2 * n) * s + 2 * n
      BY <1>2, <1>5, <2>1, <2>2
    <3> HIDE DEF s, m, n, amount, interval
    <3>2. /\ 20 * (1000 * amount * n - m * interval) <= n * interval
          /\ 20 * (m * interval - 1000 * amount * n) <= n * interval
      BY <3>1, FastPrecise
    <3>. QED BY <3>2 DEF m, n
  <2>. QED BY <1>7, <2>3
<1>8. CASE ~ (r.num > r.den)
  <2>1. /\ amount = 1 /\ r.num * interval <= 1000 * r.den
        /\ 1000 * r.den < r.num * interval + r.num
    BY <1>1, <1>3, <1>8, SlowRefill
  <2>2. given = 1000 * r.den BY <1>5, <2>1
  <2>. QED BY <1>5, <1>6, <1>8, <2>1, <2>2
<1>. QED BY <1>7, <1>8

-----------------------------------------------------------------------------
\* What a client acquires.

(* The tokens of the intervals i to j, q being what was acquired so far. *)
Window(q, i, j) == q[j] - (IF i = 1 THEN 0 ELSE q[i - 1])

(* With t tokens in a bucket of m that gets a in each interval: what is in the
   bucket may be acquired at once, so a window that ends now has room for it. *)
Within(q, t, a, m) ==
  /\ t <= m
  /\ q[Len(q)] + t <= (Len(q) - 1) * a
  /\ \A i \in 1..Len(q) : Window(q, i, Len(q)) + t <= m + (Len(q) - i) * a
  /\ \A i \in 1..Len(q), j \in 1..Len(q) : i <= j => Window(q, i, j) <= m + (j - i) * a

LEMMA WindowType ==
  ASSUME NEW q \in Seq(Nat), NEW i \in 1..Len(q), NEW j \in 1..Len(q)
  PROVE  Window(q, i, j) \in Int
<1>1. q[j] \in Nat OBVIOUS
<1>2. i # 1 => i - 1 \in 1..Len(q) /\ q[i - 1] \in Nat OBVIOUS
<1>. QED BY <1>1, <1>2 DEF Window

(* The bounds carry over to the next interval. *)
LEMMA WindowsTick ==
  ASSUME NEW q \in Seq(Nat), q # <<>>, NEW t \in Nat, NEW a \in Nat, NEW m \in Nat,
         Within(q, t, a, m), NEW u \in Nat, u <= m, u <= t + a
  PROVE  Within(Append(q, q[Len(q)]), u, a, m)
<1> DEFINE L == Len(q)
           p == Append(q, q[L])
<1>1. L \in Nat \ {0} /\ \A i \in 1..L : q[i] \in Nat BY EmptySeq
<1>2. /\ p \in Seq(Nat) /\ Len(p) = L + 1
      /\ \A i \in 1..L : p[i] = q[i]
      /\ p[L + 1] = q[L]
  BY <1>1, AppendProperties
<1>3. /\ t <= m
      /\ q[L] + t <= (L - 1) * a
      /\ \A i \in 1..L : Window(q, i, L) + t <= m + (L - i) * a
      /\ \A i \in 1..L, j \in 1..L : i <= j => Window(q, i, j) <= m + (j - i) * a
  BY DEF Within
<1> HIDE DEF p, L
<1>4. \A n \in Nat : (n + 1) * a = n * a + a /\ n * a \in Nat OBVIOUS
<1>5. p[L + 1] + u <= L * a
  <2>1. L - 1 \in Nat /\ (L - 1) + 1 = L BY <1>1
  <2>2. PICK k \in Nat : k = (L - 1) * a /\ L * a = k + a BY <1>4, <2>1
  <2>3. PICK x \in Nat : x = q[L] BY <1>1
  <2>4. x + t <= k BY <1>3, <2>2, <2>3
  <2>5. x + u <= k + a BY <2>4
  <2>. QED BY <1>2, <2>2, <2>3, <2>5, Zenon
<1>6. ASSUME NEW i \in 1..L
      PROVE  Window(p, i, L + 1) = Window(q, i, L) /\ Window(q, i, L) \in Int
  <2>1. p[L + 1] = q[L] /\ (i # 1 => p[i - 1] = q[i - 1]) BY <1>1, <1>2
  <2>2. L \in 1..L BY <1>1
  <2>. QED BY <2>1, <2>2, WindowType DEF Window, L
<1>7. Window(p, L + 1, L + 1) = 0
  <2>1. L + 1 # 1 /\ (L + 1) - 1 = L /\ L \in 1..L BY <1>1
  <2>2. p[L + 1] = q[L] /\ p[L] = q[L] /\ q[L] \in Nat BY <1>1, <1>2, <2>1
  <2>. QED BY <2>1, <2>2 DEF Window
<1>8. ASSUME NEW i \in 1..(L + 1)
      PROVE  /\ Window(p, i, L + 1) \in Int
             /\ Window(p, i, L + 1) + u <= m + ((L + 1) - i) * a
             /\ ((L + 1) - i) * a \in Nat
  <2>1. CASE i = L + 1
    <3>1. ((L + 1) - i) * a = 0 BY <1>1, <2>1
    <3>2. Window(p, i, L + 1) = 0 BY <1>7, <2>1
    <3>3. 0 + u <= m + 0 OBVIOUS
    <3>. QED BY <3>1, <3>2, <3>3
  <2>2. CASE i # L + 1
    <3>1. i \in 1..L /\ L - i \in Nat /\ (L + 1) - i = (L - i) + 1 BY <1>1, <2>2
    <3>2. PICK k \in Nat : k = (L - i) * a /\ ((L + 1) - i) * a = k + a BY <1>4, <3>1
    <3>3. PICK w \in Int : w = Window(q, i, L) /\ w = Window(p, i, L + 1) BY <1>6, <3>1
    <3>4. w + t <= m + k BY <1>3, <3>1, <3>2, <3>3
    <3>5. w + u <= m + (k + a) /\ k + a \in Nat BY <3>4
    <3>. QED BY <3>2, <3>3, <3>5
  <2>. QED BY <2>1, <2>2
<1>9. ASSUME NEW i \in 1..(L + 1), NEW j \in 1..(L + 1), i <= j
      PROVE  Window(p, i, j) <= m + (j - i) * a
  <2>1. CASE j = L + 1
    <3>1. PICK w \in Int, k \in Nat : /\ w = Window(p, i, L + 1) /\ k = ((L + 1) - i) * a
                                     /\ w + u <= m + k
      BY <1>8
    <3>2. w + u <= m + k BY <3>1
    <3>3. w <= m + k BY <3>2
    <3>. QED BY <2>1, <3>1, <3>3, Zenon
  <2>2. CASE j # L + 1
    <3>1. i \in 1..L /\ j \in 1..L BY <1>1, <1>9, <2>2
    <3>2. p[j] = q[j] /\ (i # 1 => p[i - 1] = q[i - 1]) BY <1>1, <1>2, <3>1
    <3>3. Window(p, i, j) = Window(q, i, j) BY <3>2 DEF Window
    <3>. QED BY <1>3, <1>9, <3>1, <3>3
  <2>. QED BY <2>1, <2>2
<1>10. Within(p, u, a, m)
  <2>1. Len(p) - 1 = L BY <1>1, <1>2
  <2>. QED BY <1>2, <1>5, <1>8, <1>9, <2>1 DEF Within
<1>. QED BY <1>10 DEF p, L

(* A token that is acquired leaves the bucket. *)
LEMMA WindowsAcquire ==
  ASSUME NEW q \in Seq(Nat), q # <<>>, NEW t \in Nat, NEW a \in Nat, NEW m \in Nat,
         Within(q, t, a, m), t > 0
  PROVE  Within([q EXCEPT ![Len(q)] = @ + 1], t - 1, a, m)
<1> DEFINE L == Len(q)
           p == [q EXCEPT ![L] = @ + 1]
<1>1. L \in Nat \ {0} /\ L \in 1..L /\ \A i \in 1..L : q[i] \in Nat BY EmptySeq
<1>2. /\ Len(p) = L /\ p[L] = q[L] + 1
      /\ \A i \in 1..L : i # L => p[i] = q[i]
  BY <1>1
<1>3. /\ t <= m
      /\ q[L] + t <= (L - 1) * a
      /\ \A i \in 1..L : Window(q, i, L) + t <= m + (L - i) * a
      /\ \A i \in 1..L, j \in 1..L : i <= j => Window(q, i, j) <= m + (j - i) * a
  BY DEF Within
<1>4. \A i \in 1..L : Window(q, i, L) \in Int BY <1>1, WindowType
<1>11. \A n \in Nat : n * a \in Nat OBVIOUS
<1> HIDE DEF p, L
<1>5. ASSUME NEW i \in 1..L, NEW j \in 1..L, i <= j
      PROVE  Window(p, i, j) = IF j = L THEN Window(q, i, L) + 1 ELSE Window(q, i, j)
  <2>1. i # 1 => p[i - 1] = q[i - 1] /\ q[i - 1] \in Nat BY <1>1, <1>2, <1>5
  <2>2. q[j] \in Nat /\ q[L] \in Nat BY <1>1
  <2>3. CASE j = L
    <3>1. p[L] = q[L] + 1 /\ q[L] \in Nat BY <1>2, <2>2
    <3>2. PICK x \in Nat : x = q[L] /\ x + 1 = p[L] BY <3>1
    <3>3. PICK y \in Nat : /\ y = IF i = 1 THEN 0 ELSE q[i - 1]
                           /\ y = IF i = 1 THEN 0 ELSE p[i - 1]
      BY <2>1
    <3>4. Window(q, i, L) = x - y /\ Window(p, i, L) = (x + 1) - y
      BY <3>2, <3>3, Zenon DEF Window
    <3>5. (x + 1) - y = (x - y) + 1 OBVIOUS
    <3>. QED BY <2>3, <3>4, <3>5, Zenon
  <2>4. CASE j # L BY <1>2, <2>1, <2>4 DEF Window
  <2>. QED BY <2>3, <2>4
<1>6. p[L] + (t - 1) <= (L - 1) * a BY <1>1, <1>2, <1>3
<1>7. ASSUME NEW i \in 1..L PROVE Window(p, i, L) + (t - 1) <= m + (L - i) * a
  <2>1. Window(p, i, L) = Window(q, i, L) + 1 BY <1>1, <1>5
  <2>2. Window(q, i, L) + t <= m + (L - i) * a BY <1>3
  <2>3. L - i \in Nat /\ (L - i) * a \in Nat BY <1>1, <1>11
  <2>. QED BY <1>4, <2>1, <2>2, <2>3
<1>8. ASSUME NEW i \in 1..L, NEW j \in 1..L, i <= j
      PROVE  Window(p, i, j) <= m + (j - i) * a
  <2>1. CASE j = L
    <3>1. Window(p, i, L) + (t - 1) <= m + (L - i) * a BY <1>7
    <3>2. Window(p, i, L) \in Int BY <1>1, <1>4, <1>5
    <3>3. L - i \in Nat /\ (L - i) * a \in Nat BY <1>1, <1>11
    <3>. QED BY <2>1, <3>1, <3>2, <3>3
  <2>2. CASE j # L BY <1>3, <1>5, <1>8, <2>2
  <2>. QED BY <2>1, <2>2
<1>9. t - 1 <= m BY <1>3
<1>10. Within(p, t - 1, a, m) BY <1>2, <1>6, <1>7, <1>8, <1>9 DEF Within
<1>. QED BY <1>10 DEF p, L

LimiterTypeOK ==
  /\ rate \in Rates /\ sharers \in ClientCounts
  /\ tokens \in Nat
  /\ acquired \in Seq(Nat) /\ acquired # <<>>

LimiterInv ==
  /\ LimiterTypeOK
  /\ ~ Unlimited => Within(acquired, tokens, Refill.amount, MaxTokens)

(* The bucket of a limited client has room for a refill. *)
LEMMA BucketType ==
  ASSUME LimiterTypeOK, ~ Unlimited
  PROVE  /\ Refill.amount \in Nat \ {0} /\ MaxTokens \in Nat
         /\ Refill.amount <= MaxTokens
<1> DEFINE a == Refill.amount
<1>1. a \in Nat \ {0} BY RefillType DEF LimiterTypeOK
<1>2. BurstFactor \in Nat \ {0} BY LimiterAssumption
<1>3. MaxTokens = BurstFactor * a BY DEF MaxTokens
<1> HIDE DEF a
<1>4. BurstFactor * a \in Nat /\ a <= BurstFactor * a BY <1>1, <1>2
<1>. QED BY <1>1, <1>3, <1>4 DEF a

LEMMA LimiterInitInv == ASSUME LimiterInit PROVE LimiterInv
<1>1. LimiterTypeOK BY DEF LimiterInit, LimiterTypeOK
<1>2. ASSUME ~ Unlimited PROVE Within(acquired, tokens, Refill.amount, MaxTokens)
  <2> DEFINE a == Refill.amount
             m == MaxTokens
  <2>1. a \in Nat /\ m \in Nat BY <1>1, <1>2, BucketType
  <2>2. acquired = <<0>> /\ tokens = 0 BY DEF LimiterInit
  <2> HIDE DEF a, m
  <2>3. Len(<<0>>) = 1 /\ <<0>>[1] = 0 /\ 1..1 = {1} /\ (1 - 1) * a = 0 BY <2>1
  <2>4. Window(<<0>>, 1, 1) = 0 BY <2>3 DEF Window
  <2>5. Within(<<0>>, 0, a, m) BY <2>1, <2>3, <2>4 DEF Within
  <2>. QED BY <2>2, <2>5 DEF a, m
<1>. QED BY <1>1, <1>2 DEF LimiterInv

LEMMA LimiterStep ==
  ASSUME LimiterInv, Tick \/ AcquireOne \/ UNCHANGED limiterVars
  PROVE  LimiterInv'
<1>1. /\ rate \in Rates /\ sharers \in ClientCounts /\ tokens \in Nat
      /\ acquired \in Seq(Nat) /\ acquired # <<>>
  BY DEF LimiterInv, LimiterTypeOK
<1>2. rate' = rate /\ sharers' = sharers BY DEF Tick, AcquireOne, limiterVars
<1>3. Unlimited' = Unlimited /\ Refill' = Refill /\ MaxTokens' = MaxTokens
  BY <1>2 DEF Unlimited, Refill, MaxTokens
<1>4. CASE Tick
  <2>1. /\ ~ Unlimited /\ acquired' = Append(acquired, acquired[Len(acquired)])
        /\ tokens' = IF tokens + Refill.amount <= MaxTokens
                     THEN tokens + Refill.amount ELSE MaxTokens
    BY <1>4 DEF Tick, AddTokens
  <2>2. Refill.amount \in Nat \ {0} /\ MaxTokens \in Nat
    BY <2>1, BucketType DEF LimiterInv
  <2>3. tokens' \in Nat /\ tokens' <= MaxTokens /\ tokens' <= tokens + Refill.amount
    BY <1>1, <2>1, <2>2
  <2>4. acquired[Len(acquired)] \in Nat BY <1>1, EmptySeq
  <2>5. acquired' \in Seq(Nat) /\ acquired' # <<>> BY <1>1, <2>1, <2>4
  <2>6. Within(acquired, tokens, Refill.amount, MaxTokens) BY <2>1 DEF LimiterInv
  <2>7. Within(acquired', tokens', Refill.amount, MaxTokens)
    BY <1>1, <2>1, <2>2, <2>3, <2>6, WindowsTick, Zenon
  <2>. QED BY <1>1, <1>2, <1>3, <2>3, <2>5, <2>7 DEF LimiterInv, LimiterTypeOK
<1>5. CASE AcquireOne
  <2>1. CASE Unlimited
    BY <1>1, <1>2, <1>3, <1>5, <2>1 DEF AcquireOne, limiterVars, LimiterInv, LimiterTypeOK
  <2>2. CASE ~ Unlimited
    <3>1. /\ tokens > 0 /\ tokens' = tokens - 1
          /\ acquired' = [acquired EXCEPT ![Len(acquired)] = @ + 1]
      BY <1>5, <2>2 DEF AcquireOne
    <3>2. Refill.amount \in Nat /\ MaxTokens \in Nat BY <2>2, BucketType DEF LimiterInv
    <3>3. tokens' \in Nat BY <1>1, <3>1
    <3>4. Len(acquired) \in 1..Len(acquired) /\ acquired[Len(acquired)] + 1 \in Nat
      BY <1>1, EmptySeq
    <3>5. acquired' \in Seq(Nat) /\ Len(acquired') = Len(acquired)
      BY <1>1, <3>1, <3>4, ExceptSeq
    <3>6. acquired' # <<>> BY <1>1, <3>5, EmptySeq
    <3>7. Within(acquired, tokens, Refill.amount, MaxTokens) BY <2>2 DEF LimiterInv
    <3>8. Within(acquired', tokens', Refill.amount, MaxTokens)
      BY <1>1, <3>1, <3>2, <3>7, WindowsAcquire
    <3>. QED BY <1>1, <1>2, <1>3, <3>3, <3>5, <3>6, <3>8 DEF LimiterInv, LimiterTypeOK
  <2>. QED BY <2>1, <2>2
<1>6. CASE UNCHANGED limiterVars
  BY <1>1, <1>3, <1>6 DEF limiterVars, LimiterInv, LimiterTypeOK
<1>. QED BY <1>4, <1>5, <1>6

LEMMA LimiterPaces == LimiterInv => Paced
<1> SUFFICES ASSUME LimiterInv, ~ Unlimited PROVE Paced
  BY DEF Paced
<1> DEFINE a == Refill.amount
           m == MaxTokens
<1>1. a \in Nat /\ m \in Nat BY BucketType DEF LimiterInv
<1>2. tokens \in Nat /\ acquired \in Seq(Nat) /\ acquired # <<>>
  BY DEF LimiterInv, LimiterTypeOK
<1>3. Within(acquired, tokens, a, m) BY DEF LimiterInv
<1>4. \A i, j : Granted(i, j) = Window(acquired, i, j) BY DEF Granted, Window
<1> HIDE DEF a, m
<1>5. Len(acquired) \in Nat \ {0} /\ acquired[Len(acquired)] \in Nat BY <1>2, EmptySeq
<1>6. Window(acquired, 1, Len(acquired)) = acquired[Len(acquired)] BY <1>5 DEF Window
<1>7. (Len(acquired) - 1) * a \in Nat BY <1>1, <1>5
<1>8. acquired[Len(acquired)] + tokens <= (Len(acquired) - 1) * a BY <1>3 DEF Within
<1>9. acquired[Len(acquired)] <= (Len(acquired) - 1) * a BY <1>2, <1>5, <1>7, <1>8
<1>. QED BY <1>3, <1>4, <1>6, <1>9 DEF Paced, Within, a, m
=============================================================================
