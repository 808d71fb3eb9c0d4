--------------------------- MODULE MetricsProofs ---------------------------
(***************************************************************************)
(* Proofs about modules Metrics and Exposition, for every set of buckets   *)
(* and of requests, any number of operations and any width of the counters. *)
(***************************************************************************)
EXTENDS Exposition, FiniteSetTheorems, WellFoundedInduction, TLAPS

-----------------------------------------------------------------------------
\* Division, least and greatest elements.

LEMMA DivMod ==
  ASSUME NEW a \in Nat, NEW b \in Nat \ {0}
  PROVE  /\ a \div b \in Nat /\ a % b \in Nat /\ a % b < b
         /\ a = b * (a \div b) + (a % b)
OBVIOUS

LEMMA DivModUnique ==
  ASSUME NEW a \in Nat, NEW b \in Nat \ {0}, NEW q \in Nat, NEW r \in Nat,
         r < b, a = b * q + r
  PROVE  a \div b = q /\ a % b = r
OBVIOUS

(* A set of numbers that is not empty has a least one. *)
LEMMA LeastOf ==
  ASSUME NEW T \in SUBSET Nat, T # {}
  PROVE  Min(T) \in T /\ \A m \in T : Min(T) <= m
<1>1. PICK n \in T : \A m \in T : ~ (<<m, n>> \in OpToRel(<, Nat))
  BY NatLessThanWellFounded, WFMin
<1>2. ASSUME NEW m \in T PROVE n <= m
  <2>1. <<m, n>> \notin OpToRel(<, Nat) BY <1>1
  <2>2. m \in Nat /\ n \in Nat OBVIOUS
  <2>3. ~ (m < n) BY <2>1, <2>2 DEF OpToRel
  <2>. QED BY <2>2, <2>3
<1>. QED BY <1>2 DEF Min

(* Induction over a finite set: a collection P of sets that has the empty set, *)
(* and with a set the same set with one more element of S, has S.            *)
LEMMA SetInduction ==
  ASSUME NEW S, IsFiniteSet(S), NEW P, {} \in P,
         \A R \in P : \A x \in S : x \notin R => R \cup {x} \in P
  PROVE  S \in P
<1> DEFINE T == {n \in Nat : \E R \in SUBSET S : Cardinality(R) = n /\ R \notin P}
<1>1. ASSUME T # {} PROVE FALSE
  <2>1. Min(T) \in T /\ \A m \in T : Min(T) <= m
    <3>1. T \in SUBSET Nat OBVIOUS
    <3>. QED BY <1>1, <3>1, LeastOf
  <2>2. PICK R \in SUBSET S : Cardinality(R) = Min(T) /\ R \notin P BY <2>1
  <2>3. PICK x \in R : TRUE BY <2>2
  <2>4. IsFiniteSet(R) BY FS_Subset
  <2>5. /\ Cardinality(R \ {x}) = Cardinality(R) - 1
        /\ Cardinality(R \ {x}) \in Nat /\ Cardinality(R) \in Nat
    BY <2>4, FS_RemoveElement, FS_CardinalityType
  <2>6. Cardinality(R \ {x}) \notin T
    <3>1. ~ (Cardinality(R \ {x}) >= Cardinality(R)) BY <2>5
    <3> HIDE DEF T
    <3>. QED BY <2>1, <2>2, <2>5, <3>1
  <2>7. R \ {x} \in P BY <2>5, <2>6
  <2>8. (R \ {x}) \cup {x} = R /\ x \in S OBVIOUS
  <2>. QED BY <2>2, <2>7, <2>8
<1>2. Cardinality(S) \in Nat BY FS_CardinalityType
<1>. QED BY <1>1, <1>2

(* A finite set of numbers that is not empty has a greatest one. *)
LEMMA GreatestOf ==
  ASSUME NEW S \in SUBSET Nat, IsFiniteSet(S), S # {}
  PROVE  Max(S) \in S /\ \A m \in S : Max(S) >= m
<1> DEFINE P == {R \in SUBSET S : R # {} => \E x \in R : \A y \in R : x >= y}
<1>1. {} \in P OBVIOUS
<1>2. ASSUME NEW R \in P, NEW x \in S, x \notin R PROVE R \cup {x} \in P
  <2>1. CASE R = {}
    <3>1. \A y \in R \cup {x} : x >= y BY <2>1
    <3>. QED BY <3>1
  <2>2. CASE R # {}
    <3>1. PICK y \in R : \A z \in R : y >= z BY <2>2
    <3>2. x \in Nat /\ \A z \in R : z \in Nat OBVIOUS
    <3>3. CASE x >= y
      <4>1. \A z \in R \cup {x} : x >= z BY <3>1, <3>2, <3>3
      <4>. QED BY <4>1
    <3>4. CASE ~ (x >= y)
      <4>1. \A z \in R \cup {x} : y >= z BY <3>1, <3>2, <3>4
      <4>. QED BY <4>1
    <3>. QED BY <3>3, <3>4
  <2>. QED BY <2>1, <2>2
<1>3. S \in P
  <2> HIDE DEF P
  <2>. QED BY <1>1, <1>2, SetInduction
<1>4. PICK x \in S : \A y \in S : x >= y BY <1>3
<1>. QED BY <1>4 DEF Max

-----------------------------------------------------------------------------
\* Sums.

\* The f[x] are natural numbers.
Summable(f, S) == IsFiniteSet(S) /\ \A x \in S : f[x] \in Nat

LEMMA SummableIn ==
  ASSUME NEW f, NEW S, Summable(f, S), NEW R \in SUBSET S
  PROVE  Summable(f, R)
<1>1. IsFiniteSet(R) BY FS_Subset DEF Summable
<1>. QED BY <1>1 DEF Summable

Slots(f, S) == UNION {{x} \X (1..f[x]) : x \in S}

LEMMA SlotsAre ==
  ASSUME NEW f, NEW S, NEW t
  PROVE  t \in Slots(f, S) <=> \E x \in S : \E i \in 1..f[x] : t = <<x, i>>
BY DEF Slots

LEMMA SlotsFinite ==
  ASSUME NEW f, NEW S, Summable(f, S)
  PROVE  /\ IsFiniteSet(Slots(f, S))
         /\ SumOver(f, S) \in Nat /\ SumOver(f, S) = Cardinality(Slots(f, S))
<1> DEFINE g == [x \in S |-> {x} \X (1..f[x])]
           T == {{x} \X (1..f[x]) : x \in S}
<1>1. g \in Surjection(S, T) BY DEF Surjection
<1>2. IsFiniteSet(T) BY <1>1, FS_Surjection DEF Summable
<1>3. ASSUME NEW x \in S PROVE IsFiniteSet({x} \X (1..f[x]))
  <2>1. f[x] \in Int /\ 1 \in Int BY DEF Summable
  <2>2. IsFiniteSet({x}) /\ IsFiniteSet(1..f[x]) BY <2>1, FS_Singleton, FS_Interval
  <2>. QED BY <2>2, FS_Product
<1>4. IsFiniteSet(UNION T) BY <1>2, <1>3, FS_UNION
<1>5. Slots(f, S) = UNION T BY DEF Slots
<1>6. SumOver(f, S) = Cardinality(Slots(f, S)) BY DEF SumOver, Slots
<1>. QED BY <1>4, <1>5, <1>6, FS_CardinalityType

(* The sum over two sets that have nothing in common. *)
LEMMA SumSplit ==
  ASSUME NEW f, NEW S, NEW T, Summable(f, S), Summable(f, T), S \cap T = {}
  PROVE  Summable(f, S \cup T) /\ SumOver(f, S \cup T) = SumOver(f, S) + SumOver(f, T)
<1>1. Summable(f, S \cup T) BY FS_Union DEF Summable
<1>2. Slots(f, S \cup T) = Slots(f, S) \cup Slots(f, T) BY DEF Slots
<1>3. Slots(f, S) \cap Slots(f, T) = {}
  <2>1. \A t : ~ (t \in Slots(f, S) /\ t \in Slots(f, T)) BY SlotsAre
  <2>. QED BY <2>1
<1>6. IsFiniteSet(Slots(f, S)) /\ IsFiniteSet(Slots(f, T)) BY SlotsFinite
<1>4. Cardinality(Slots(f, S \cup T))
        = Cardinality(Slots(f, S)) + Cardinality(Slots(f, T)) - 0
  <2>1. Cardinality(Slots(f, S) \cup Slots(f, T))
          = Cardinality(Slots(f, S)) + Cardinality(Slots(f, T))
              - Cardinality(Slots(f, S) \cap Slots(f, T))
    BY <1>6, FS_Union
  <2>2. Cardinality(Slots(f, S) \cap Slots(f, T)) = 0 BY <1>3, FS_EmptySet
  <2>. QED BY <1>2, <2>1, <2>2
<1>5. /\ SumOver(f, S) \in Nat /\ SumOver(f, T) \in Nat
      /\ SumOver(f, S) = Cardinality(Slots(f, S)) /\ SumOver(f, T) = Cardinality(Slots(f, T))
      /\ SumOver(f, S \cup T) = Cardinality(Slots(f, S \cup T))
  BY <1>1, SlotsFinite
<1>. QED BY <1>1, <1>4, <1>5

(* The sum over one element, and over none. *)
LEMMA SumSingle ==
  ASSUME NEW f, NEW x, f[x] \in Nat
  PROVE  Summable(f, {x}) /\ SumOver(f, {x}) = f[x]
<1>1. Summable(f, {x}) BY FS_Singleton DEF Summable
<1>2. Slots(f, {x}) = {x} \X (1..f[x]) BY DEF Slots
<1> DEFINE n == f[x]
<1> HIDE DEF n
<1>0. n \in Nat /\ n \in Int /\ 1 \in Int BY DEF n
<1>3. /\ IsFiniteSet({x}) /\ Cardinality({x}) = 1
      /\ IsFiniteSet(1..n) /\ Cardinality(1..n) = n
  <2>1. IsFiniteSet(1..n) /\ Cardinality(1..n) = IF 1 > n THEN 0 ELSE n - 1 + 1
    BY <1>0, FS_Interval
  <2>2. Cardinality(1..n) = n BY <1>0, <2>1
  <2>. QED BY <2>1, <2>2, FS_Singleton
<1>4. Cardinality({x} \X (1..n)) = 1 * n
  <2>1. Cardinality({x} \X (1..n)) = Cardinality({x}) * Cardinality(1..n)
    BY <1>3, FS_Product
  <2>. QED BY <1>3, <2>1
<1>5. SumOver(f, {x}) = Cardinality(Slots(f, {x})) BY <1>1, SlotsFinite
<1>6. Slots(f, {x}) = {x} \X (1..n) BY <1>2 DEF n
<1>7. SumOver(f, {x}) = n BY <1>0, <1>4, <1>5, <1>6
<1>. QED BY <1>1, <1>7 DEF n

LEMMA SumNone ==
  ASSUME NEW f
  PROVE  Summable(f, {}) /\ SumOver(f, {}) = 0
<1>1. Summable(f, {}) BY FS_EmptySet DEF Summable
<1>2. Slots(f, {}) = {} BY DEF Slots
<1>. QED BY <1>1, <1>2, SlotsFinite, FS_EmptySet

(* Taking one element out. *)
LEMMA SumWithout ==
  ASSUME NEW f, NEW S, Summable(f, S), NEW x \in S
  PROVE  /\ Summable(f, S \ {x}) /\ SumOver(f, S \ {x}) \in Nat
         /\ SumOver(f, S) = SumOver(f, S \ {x}) + f[x]
<1>1. Summable(f, S \ {x}) BY FS_RemoveElement DEF Summable
<1>2. f[x] \in Nat BY DEF Summable
<1>3. Summable(f, {x}) /\ SumOver(f, {x}) = f[x] BY <1>2, SumSingle
<1>4. (S \ {x}) \cup {x} = S /\ (S \ {x}) \cap {x} = {} OBVIOUS
<1>5. SumOver(f, (S \ {x}) \cup {x}) = SumOver(f, S \ {x}) + SumOver(f, {x})
  BY <1>1, <1>3, <1>4, SumSplit
<1>. QED BY <1>1, <1>3, <1>4, <1>5, SlotsFinite

(* Adding one. *)
LEMMA SumWith ==
  ASSUME NEW f, NEW S, NEW x, Summable(f, S), x \notin S, f[x] \in Nat
  PROVE  SumOver(f, S \cup {x}) = SumOver(f, S) + f[x]
<1>1. Summable(f, {x}) /\ SumOver(f, {x}) = f[x] BY SumSingle
<1>2. S \cap {x} = {} OBVIOUS
<1>3. SumOver(f, S \cup {x}) = SumOver(f, S) + SumOver(f, {x})
  BY <1>1, <1>2, SumSplit
<1>. QED BY <1>1, <1>3

(* A sum depends on the values it adds, and grows with them and with the set. *)
LEMMA SumAgree ==
  ASSUME NEW f, NEW g, NEW S, \A x \in S : f[x] = g[x]
  PROVE  SumOver(f, S) = SumOver(g, S)
<1>1. Slots(f, S) = Slots(g, S)
  <2>1. \A t : t \in Slots(f, S) <=> t \in Slots(g, S) BY SlotsAre
  <2>. QED BY <2>1
<1>. QED BY <1>1 DEF SumOver, Slots

LEMMA SumGrows ==
  ASSUME NEW f, NEW g, NEW S, NEW T, Summable(f, S), Summable(g, T),
         S \subseteq T, \A x \in S : f[x] <= g[x]
  PROVE  SumOver(f, S) <= SumOver(g, T)
<1>1. ASSUME NEW t, t \in Slots(f, S) PROVE t \in Slots(g, T)
  <2>1. PICK x \in S : \E i \in 1..f[x] : t = <<x, i>> BY <1>1, SlotsAre
  <2>2. PICK i \in 1..f[x] : t = <<x, i>> BY <2>1
  <2>3. f[x] \in Nat /\ g[x] \in Nat /\ f[x] <= g[x] /\ x \in T BY DEF Summable
  <2>4. i \in 1..g[x] BY <2>3
  <2>. QED BY <2>2, <2>3, <2>4, SlotsAre
<1>2. Slots(f, S) \in SUBSET Slots(g, T) BY <1>1
<1>3. Cardinality(Slots(f, S)) <= Cardinality(Slots(g, T)) BY <1>2, SlotsFinite, FS_Subset
<1>. QED BY <1>3, SlotsFinite

(* A sum with one value changed. *)
LEMMA SumChanged ==
  ASSUME NEW f, NEW g, NEW S, NEW x, Summable(f, S), x \in S, g[x] \in Nat,
         \A y \in S : y # x => g[y] = f[y]
  PROVE  /\ Summable(g, S) /\ SumOver(g, S) \in Nat
         /\ SumOver(g, S) + f[x] = SumOver(f, S) + g[x]
<1>1. Summable(g, S) BY DEF Summable
<1>2. SumOver(g, S \ {x}) = SumOver(f, S \ {x}) BY SumAgree
<1>3. SumOver(f, S) = SumOver(f, S \ {x}) + f[x] /\ SumOver(f, S \ {x}) \in Nat
  BY SumWithout
<1>4. SumOver(g, S) = SumOver(g, S \ {x}) + g[x] BY <1>1, SumWithout
<1>5. f[x] \in Nat BY DEF Summable
<1>. QED BY <1>1, <1>2, <1>3, <1>4, <1>5, SlotsFinite

(* The sum of the pointwise sums, and of the multiples. *)
LEMMA SumPlus ==
  ASSUME NEW f, NEW g, NEW h, NEW S, Summable(f, S), Summable(g, S),
         \A x \in S : h[x] = f[x] + g[x]
  PROVE  /\ Summable(h, S)
         /\ SumOver(h, S) = SumOver(f, S) + SumOver(g, S)
<1>0. Summable(h, S) BY DEF Summable
<1> DEFINE P == {R \in SUBSET S : SumOver(h, R) = SumOver(f, R) + SumOver(g, R)}
<1>1. {} \in P
  <2>1. SumOver(h, {}) = 0 /\ SumOver(f, {}) = 0 /\ SumOver(g, {}) = 0 BY SumNone
  <2>. QED BY <2>1
<1>2. ASSUME NEW R \in P, NEW x \in S, x \notin R PROVE R \cup {x} \in P
  <2>0. f[x] \in Nat /\ g[x] \in Nat /\ h[x] \in Nat BY <1>0 DEF Summable
  <2>1. Summable(f, R) /\ Summable(g, R) /\ Summable(h, R)
    BY <1>0, SummableIn
  <2>2. /\ SumOver(f, R \cup {x}) = SumOver(f, R) + f[x]
        /\ SumOver(g, R \cup {x}) = SumOver(g, R) + g[x]
        /\ SumOver(h, R \cup {x}) = SumOver(h, R) + h[x]
    BY <1>2, <2>0, <2>1, SumWith
  <2>3. /\ SumOver(f, R) \in Nat /\ SumOver(g, R) \in Nat
        /\ f[x] \in Nat /\ g[x] \in Nat /\ h[x] = f[x] + g[x]
        /\ SumOver(h, R) = SumOver(f, R) + SumOver(g, R)
    BY <2>1, SlotsFinite DEF Summable
  <2>4. SumOver(h, R \cup {x}) = SumOver(f, R \cup {x}) + SumOver(g, R \cup {x})
    BY <2>2, <2>3
  <2>. QED BY <2>4
<1>3. S \in P
  <2>1. IsFiniteSet(S) BY DEF Summable
  <2> HIDE DEF P
  <2>. QED BY <1>1, <1>2, <2>1, SetInduction
<1>. QED BY <1>0, <1>3

LEMMA SumTimes ==
  ASSUME NEW f, NEW h, NEW c \in Nat, NEW S, Summable(f, S),
         \A x \in S : h[x] = c * f[x]
  PROVE  /\ Summable(h, S)
         /\ SumOver(h, S) = c * SumOver(f, S)
<1>0. Summable(h, S)
  <2>1. \A x \in S : f[x] \in Nat /\ c * f[x] \in Nat BY DEF Summable
  <2>. QED BY <2>1 DEF Summable
<1> DEFINE P == {R \in SUBSET S : SumOver(h, R) = c * SumOver(f, R)}
<1>1. {} \in P
  <2>1. SumOver(h, {}) = 0 /\ SumOver(f, {}) = 0 BY SumNone
  <2>. QED BY <2>1
<1>2. ASSUME NEW R \in P, NEW x \in S, x \notin R PROVE R \cup {x} \in P
  <2>0. f[x] \in Nat /\ h[x] \in Nat BY <1>0 DEF Summable
  <2>1. Summable(f, R) /\ Summable(h, R) BY <1>0, SummableIn
  <2>2. /\ SumOver(f, R \cup {x}) = SumOver(f, R) + f[x]
        /\ SumOver(h, R \cup {x}) = SumOver(h, R) + h[x]
    BY <1>2, <2>0, <2>1, SumWith
  <2>3. /\ SumOver(f, R) \in Nat /\ f[x] \in Nat /\ h[x] = c * f[x]
        /\ SumOver(h, R) = c * SumOver(f, R)
    BY <2>1, SlotsFinite DEF Summable
  <2>4. \A m, n \in Nat : c * (m + n) = (c * m) + (c * n) OBVIOUS
  <2>5. SumOver(h, R \cup {x}) = c * SumOver(f, R \cup {x})
    BY <2>2, <2>3, <2>4
  <2>. QED BY <2>5
<1>3. S \in P
  <2>1. IsFiniteSet(S) BY DEF Summable
  <2> HIDE DEF P
  <2>. QED BY <1>1, <1>2, <2>1, SetInduction
<1>. QED BY <1>0, <1>3

-----------------------------------------------------------------------------
\* Histograms.

Histograms == [Buckets -> Nat]

\* The samples under a bucket, and over it.
Under(h, b) == Samples(h, {c \in Buckets : c < b})
Over(h, b)  == Samples(h, {c \in Buckets : c > b})

LEMMA BucketsAre == /\ 0 \in Buckets /\ Buckets \in SUBSET Nat /\ IsFiniteSet(Buckets)
BY MetricsAssumption

(* The counts of a part of the buckets add up to a number. *)
LEMMA SamplesType ==
  ASSUME NEW h \in Histograms, NEW S \in SUBSET Buckets
  PROVE  IsFiniteSet(S) /\ Summable(h, S) /\ Samples(h, S) \in Nat
<1>1. IsFiniteSet(S) BY BucketsAre, FS_Subset
<1>2. Summable(h, S) BY <1>1 DEF Summable, Histograms
<1>. QED BY <1>1, <1>2, SlotsFinite DEF Samples

LEMMA SamplesGrow ==
  ASSUME NEW h \in Histograms, NEW S \in SUBSET Buckets, NEW T \in SUBSET Buckets,
         S \subseteq T
  PROVE  Samples(h, S) <= Samples(h, T)
<1>1. Summable(h, S) /\ Summable(h, T) BY SamplesType
<1>2. \A x \in S : h[x] <= h[x]
  <2>1. \A x \in S : h[x] \in Nat BY DEF Histograms
  <2>. QED BY <2>1
<1>. QED BY <1>1, <1>2, SumGrows DEF Samples

LEMMA SamplesSplit ==
  ASSUME NEW h \in Histograms, NEW S \in SUBSET Buckets, NEW T \in SUBSET Buckets,
         S \cap T = {}
  PROVE  Samples(h, S \cup T) = Samples(h, S) + Samples(h, T)
<1>1. Summable(h, S) /\ Summable(h, T) BY SamplesType
<1>. QED BY <1>1, SumSplit DEF Samples

(* A bucket divides the samples into those under it, its own and those over *)
(* it.                                                                      *)
LEMMA Divide ==
  ASSUME NEW h \in Histograms, NEW b \in Buckets
  PROVE  /\ Under(h, b) \in Nat /\ Over(h, b) \in Nat /\ h[b] \in Nat
         /\ AtMost(h, b) = Under(h, b) + h[b]
         /\ AtLeast(h, b) = Over(h, b) + h[b]
         /\ Count(h) = Under(h, b) + h[b] + Over(h, b)
<1> DEFINE U == {c \in Buckets : c < b}
           O == {c \in Buckets : c > b}
<1>0. b \in Nat /\ \A c \in Buckets : c \in Nat BY BucketsAre
<1>1. U \in SUBSET Buckets /\ O \in SUBSET Buckets /\ {b} \in SUBSET Buckets OBVIOUS
<1>2. /\ {c \in Buckets : c <= b} = U \cup {b} /\ U \cap {b} = {}
      /\ {c \in Buckets : c >= b} = O \cup {b} /\ O \cap {b} = {}
      /\ Buckets = (U \cup {b}) \cup O /\ (U \cup {b}) \cap O = {}
  <2>1. \A c \in Buckets :
          /\ (c <= b <=> c < b \/ c = b) /\ (c >= b <=> c > b \/ c = b)
          /\ ~ (b < b) /\ ~ (b > b) /\ ~ (c < b /\ c > b)
          /\ (c < b \/ c = b \/ c > b)
    BY <1>0
  <2>2. {c \in Buckets : c <= b} = U \cup {b} /\ U \cap {b} = {} BY <2>1
  <2>3. {c \in Buckets : c >= b} = O \cup {b} /\ O \cap {b} = {} BY <2>1
  <2>4. Buckets = (U \cup {b}) \cup O /\ (U \cup {b}) \cap O = {} BY <2>1
  <2>. QED BY <2>2, <2>3, <2>4
<1>3. Samples(h, U) \in Nat /\ Samples(h, O) \in Nat /\ h[b] \in Nat
  BY <1>1, SamplesType DEF Histograms
<1>4. Samples(h, {b}) = h[b] BY <1>3, SumSingle DEF Samples
<1>5. Under(h, b) = Samples(h, U) /\ Over(h, b) = Samples(h, O) BY DEF Under, Over
<1> HIDE DEF U, O
<1>6. Samples(h, U \cup {b}) = Samples(h, U) + Samples(h, {b})
  BY <1>1, <1>2, SamplesSplit
<1>7. Samples(h, O \cup {b}) = Samples(h, O) + Samples(h, {b})
  BY <1>1, <1>2, SamplesSplit
<1>8. Samples(h, (U \cup {b}) \cup O) = Samples(h, U \cup {b}) + Samples(h, O)
  <2>1. U \cup {b} \in SUBSET Buckets BY <1>1
  <2>. QED BY <1>1, <1>2, <2>1, SamplesSplit
<1>9. AtMost(h, b) = Under(h, b) + h[b] BY <1>2, <1>4, <1>5, <1>6 DEF AtMost
<1>10. AtLeast(h, b) = Over(h, b) + h[b] BY <1>2, <1>4, <1>5, <1>7 DEF AtLeast
<1>11. Count(h) = Under(h, b) + h[b] + Over(h, b)
  BY <1>2, <1>4, <1>5, <1>6, <1>8 DEF Count
<1>. QED BY <1>3, <1>5, <1>9, <1>10, <1>11

(* The samples up to a bucket are under every greater one. *)
LEMMA UnderNext ==
  ASSUME NEW h \in Histograms, NEW b \in Buckets, NEW c \in Buckets, b < c
  PROVE  AtMost(h, b) <= Under(h, c) /\ AtLeast(h, c) <= Over(h, b)
<1>0. b \in Nat /\ c \in Nat /\ \A d \in Buckets : d \in Nat BY BucketsAre
<1>5. \A d \in Buckets : (d <= b => d < c) /\ (d >= c => d > b) BY <1>0
<1>1. {d \in Buckets : d <= b} \subseteq {d \in Buckets : d < c} BY <1>5
<1>2. {d \in Buckets : d >= c} \subseteq {d \in Buckets : d > b} BY <1>5
<1>3. AtMost(h, b) <= Under(h, c) BY <1>1, SamplesGrow DEF AtMost, Under
<1>4. AtLeast(h, c) <= Over(h, b) BY <1>2, SamplesGrow DEF AtLeast, Over
<1>. QED BY <1>3, <1>4

(* Counted from the bottom, the first bucket with enough samples up to it. *)
LEMMA FromBelowIs ==
  ASSUME NEW h \in Histograms, NEW k \in 1..Count(h), Count(h) \in Nat
  PROVE  /\ FromBelow(h, k) \in Buckets
         /\ AtMost(h, FromBelow(h, k)) >= k /\ Under(h, FromBelow(h, k)) < k
         /\ \A b \in Buckets : AtMost(h, b) >= k => FromBelow(h, k) <= b
<1> DEFINE E == {b \in Buckets : AtMost(h, b) >= k}
           v == FromBelow(h, k)
<1>0. k \in Nat /\ k > 0 OBVIOUS
<1>1. \A b \in Buckets : b \in Nat BY BucketsAre
<1>2. E # {}
  <2> DEFINE top == Max(Buckets)
  <2>1. top \in Buckets /\ \A b \in Buckets : top >= b BY BucketsAre, GreatestOf
  <2>2. {c \in Buckets : c <= top} = Buckets BY <1>1, <2>1
  <2>3. AtMost(h, top) = Count(h) BY <2>2 DEF AtMost, Count
  <2>. QED BY <2>1, <2>3
<1>3. v \in E /\ \A b \in E : v <= b
  <2>1. E \in SUBSET Nat BY <1>1
  <2>2. v = Min(E) BY DEF FromBelow
  <2>. QED BY <1>2, <2>1, <2>2, LeastOf
<1>4. v \in Buckets /\ AtMost(h, v) >= k /\ \A b \in Buckets : AtMost(h, b) >= k => v <= b
  BY <1>3
<1> HIDE DEF E, v
<1>5. Under(h, v) < k
  <2> DEFINE U == {c \in Buckets : c < v}
  <2>1. CASE U = {}
    <3>1. Under(h, v) = 0 BY <2>1, SumNone DEF Under, Samples
    <3>. QED BY <1>0, <3>1
  <2>2. CASE U # {}
    <3>1. U \in SUBSET Nat /\ IsFiniteSet(U)
      <4>1. U \in SUBSET Buckets OBVIOUS
      <4>. QED BY <1>1, <4>1, BucketsAre, FS_Subset
    <3>2. Max(U) \in U /\ \A c \in U : Max(U) >= c BY <2>2, <3>1, GreatestOf
    <3>3. PICK u \in U : \A c \in U : u >= c BY <3>2
    <3>4. u \in Buckets /\ u < v BY <3>3
    <3>5. u \in Nat /\ v \in Nat BY <1>1, <1>4, <3>4
    <3>6. \A c \in Buckets : c < v <=> c <= u BY <1>1, <3>3, <3>4, <3>5
    <3>7. {c \in Buckets : c <= u} = {c \in Buckets : c < v} BY <3>6
    <3>8. AtMost(h, u) = Under(h, v) BY <3>7 DEF AtMost, Under
    <3>9. ~ (AtMost(h, u) >= k) BY <1>4, <3>4, <3>5
    <3>10. Under(h, v) \in Nat BY <1>4, Divide
    <3>. QED BY <1>0, <3>8, <3>9, <3>10
  <2>. QED BY <2>1, <2>2
<1>. QED BY <1>4, <1>5 DEF v

(* Counted from the top, the first bucket with enough samples from it on. *)
LEMMA FromAboveIs ==
  ASSUME NEW h \in Histograms, NEW k \in Nat, NEW w \in 1..Count(h), Count(h) \in Nat,
         w = Max({1, Count(h) - k})
  PROVE  /\ FromAbove(h, k) \in Buckets
         /\ AtLeast(h, FromAbove(h, k)) >= w /\ Over(h, FromAbove(h, k)) < w
         /\ \A b \in Buckets : AtLeast(h, b) >= w => FromAbove(h, k) >= b
<1> DEFINE E == {b \in Buckets : AtLeast(h, b) >= w}
           v == FromAbove(h, k)
<1>0. w \in Nat /\ w > 0 OBVIOUS
<1>1. \A b \in Buckets : b \in Nat BY BucketsAre
<1>2. E # {}
  <2>1. {c \in Buckets : c >= 0} = Buckets BY <1>1
  <2>2. AtLeast(h, 0) = Count(h) BY <2>1 DEF AtLeast, Count
  <2>. QED BY <2>2, BucketsAre
<1>3. v \in E /\ \A b \in E : v >= b
  <2>1. E \in SUBSET Nat /\ IsFiniteSet(E)
    <3>1. E \in SUBSET Buckets OBVIOUS
    <3>. QED BY <1>1, <3>1, BucketsAre, FS_Subset
  <2>2. v = Max(E) BY DEF FromAbove
  <2> HIDE DEF E, v
  <2>. QED BY <1>2, <2>1, <2>2, GreatestOf
<1>4. v \in Buckets /\ AtLeast(h, v) >= w /\ \A b \in Buckets : AtLeast(h, b) >= w => v >= b
  BY <1>3
<1> HIDE DEF E, v
<1>5. Over(h, v) < w
  <2> DEFINE O == {c \in Buckets : c > v}
  <2>1. CASE O = {}
    <3>1. Over(h, v) = 0 BY <2>1, SumNone DEF Over, Samples
    <3>. QED BY <1>0, <3>1
  <2>2. CASE O # {}
    <3>1. O \in SUBSET Nat
      <4>1. O \in SUBSET Buckets OBVIOUS
      <4>. QED BY <1>1, <4>1
    <3>2. Min(O) \in O /\ \A c \in O : Min(O) <= c BY <2>2, <3>1, LeastOf
    <3>3. PICK u \in O : \A c \in O : u <= c BY <3>2
    <3>4. u \in Buckets /\ u > v BY <3>3
    <3>5. u \in Nat /\ v \in Nat BY <1>1, <1>4, <3>4
    <3>6. \A c \in Buckets : c > v <=> c >= u BY <1>1, <3>3, <3>4, <3>5
    <3>7. {c \in Buckets : c >= u} = {c \in Buckets : c > v} BY <3>6
    <3>8. AtLeast(h, u) = Over(h, v) BY <3>7 DEF AtLeast, Over
    <3>9. ~ (AtLeast(h, u) >= w) BY <1>4, <3>4, <3>5
    <3>10. Over(h, v) \in Nat BY <1>4, Divide
    <3>. QED BY <1>0, <3>8, <3>9, <3>10
  <2>. QED BY <2>1, <2>2
<1>. QED BY <1>4, <1>5 DEF v

-----------------------------------------------------------------------------
\* Percentiles.

LEMMA GreaterOfTwo ==
  ASSUME NEW a \in Nat, NEW b \in Int
  PROVE  Max({a, b}) = IF a >= b THEN a ELSE b
<1> DEFINE m == IF a >= b THEN a ELSE b
<1>1. m \in {a, b} /\ \A x \in {a, b} : m >= x OBVIOUS
<1>2. \A y \in {a, b} : (\A x \in {a, b} : y >= x) => y = m OBVIOUS
<1>. QED BY <1>1, <1>2 DEF Max

LEMMA LesserOfTwo ==
  ASSUME NEW a \in Nat, NEW b \in Nat
  PROVE  Min({a, b}) = IF a <= b THEN a ELSE b
<1> DEFINE m == IF a <= b THEN a ELSE b
<1>1. m \in {a, b} /\ \A x \in {a, b} : m <= x OBVIOUS
<1>2. \A y \in {a, b} : (\A x \in {a, b} : y <= x) => y = m OBVIOUS
<1>. QED BY <1>1, <1>2 DEF Min

\* A product the provers need not look into.
Times(a, b) == a * b

LEMMA TimesType == ASSUME NEW a \in Nat, NEW b \in Nat PROVE Times(a, b) \in Nat
BY DEF Times

LEMMA TimesGrows ==
  ASSUME NEW n \in Nat, NEW p \in Nat, NEW q \in Nat, p <= q
  PROVE  Times(n, p) <= Times(n, q)
<1>1. PICK d \in Nat : q = p + d
  <2>1. q - p \in Nat /\ q = p + (q - p) OBVIOUS
  <2>. QED BY <2>1
<1>2. n * (p + d) = (n * p) + (n * d) OBVIOUS
<1>3. n * p \in Nat /\ n * d \in Nat OBVIOUS
<1> DEFINE x == n * p
           y == n * d
<1>4. Times(n, p) = x /\ Times(n, q) = x + y BY <1>1, <1>2 DEF Times
<1>5. x \in Nat /\ y \in Nat BY <1>3
<1> HIDE DEF x, y
<1>. QED BY <1>4, <1>5

LEMMA TimesOne ==
  ASSUME NEW n \in Nat
  PROVE  Times(n, 1) = n /\ Times(n, Whole) = n * Whole
BY DEF Times

\* A percentile.
IsShare(p) == p \in Nat /\ 1 <= p /\ p <= Whole

LEMMA ShareIs ==
  /\ Middle \in Nat /\ Whole \in Nat /\ IsShare(Whole)
  /\ \A p : IsShare(p) =>
       p \in Nat /\ 1 <= p /\ p <= Whole /\ (p < Middle \/ (p >= Middle /\ ~ (p < Middle)))
BY DEF IsShare, Middle, Whole

(* The samples a percentile needs are its share of all, rounded up, by one     *)
(* at most, also where the share is an integer.                              *)
LEMMA NeedIs ==
  ASSUME NEW n \in Nat \ {0}, NEW p, IsShare(p)
  PROVE  /\ Need(n, p) \in 1..n
         /\ Need(n, p) * Whole >= Times(n, p)
         /\ (Need(n, p) - 1) * Whole <= Times(n, p)
<1> DEFINE x == Times(n, p)
           c == Share(n, p)
           k == Min({n, c})
<1>0. n \in Nat /\ p \in Nat /\ 1 <= p /\ p <= Whole BY DEF IsShare
<1>1. x \in Nat /\ x >= 1 /\ x <= n * Whole
  <2>1. x \in Nat BY <1>0, TimesType
  <2>2. Times(n, 1) <= x BY <1>0, TimesGrows
  <2>3. x <= Times(n, Whole) BY <1>0, ShareIs, TimesGrows
  <2> HIDE DEF x
  <2>. QED BY <1>0, <2>1, <2>2, <2>3, TimesOne
<1>6. Need(n, p) = Max({1, k}) BY DEF Need
<1>8. c = Ceil(x, Whole) + 0 \/ (c = Ceil(x, Whole) + 1 /\ x % Whole = 0)
  <2>1. CASE <<n, p>> \in RoundedUp /\ x % Whole = 0 BY <2>1 DEF Share, Times
  <2>2. CASE ~ (<<n, p>> \in RoundedUp /\ x % Whole = 0) BY <2>2 DEF Share, Times
  <2>. QED BY <2>1, <2>2
<1> HIDE DEF x, c
<1>2. c \in Nat /\ c * Whole >= x /\ (c - 1) * Whole <= x
  <2>1. CASE c = Ceil(x, Whole) + 0 BY <1>1, <2>1 DEF Ceil, Whole
  <2>2. CASE c = Ceil(x, Whole) + 1 /\ x % Whole = 0 BY <1>1, <2>2 DEF Ceil, Whole
  <2>. QED BY <1>8, <2>1, <2>2
<1>3. c >= 1 BY <1>1, <1>2 DEF Whole
<1>4. (k = c \/ k = n) /\ k <= c /\ k <= n BY <1>0, <1>2, LesserOfTwo
<1> HIDE DEF k
<1>5. Max({1, k}) = k BY <1>0, <1>2, <1>3, <1>4, GreaterOfTwo
<1>7. k \in 1..n /\ k * Whole >= x /\ (k - 1) * Whole <= x
  BY <1>0, <1>1, <1>2, <1>3, <1>4 DEF Whole
<1>. QED BY <1>5, <1>6, <1>7 DEF x

LEMMA NeedType ==
  ASSUME NEW n \in Nat \ {0}, NEW p, IsShare(p)
  PROVE  Need(n, p) \in 1..n
BY NeedIs

(* A greater share needs at least as many samples. *)
LEMMA NeedGrows ==
  ASSUME NEW n \in Nat \ {0}, NEW p, NEW q, IsShare(p), IsShare(q), p <= q
  PROVE  Need(n, p) <= Need(n, q)
<1>1. Times(n, p) \in Nat /\ Times(n, q) \in Nat /\ (p # q => Times(n, p) < Times(n, q))
  <2>1. n \in Nat /\ n >= 1 /\ p \in Nat /\ q \in Nat BY DEF IsShare
  <2>2. Times(n, p) \in Nat /\ Times(n, q) \in Nat BY <2>1, TimesType
  <2>3. ASSUME p # q PROVE Times(n, p) + n <= Times(n, q)
    <3>1. p + 1 \in Nat /\ p + 1 <= q BY <2>1, <2>3
    <3>2. Times(n, p + 1) <= Times(n, q) BY <2>1, <3>1, TimesGrows
    <3>3. \A a \in Nat : n * (a + 1) = (n * a) + n BY <2>1
    <3>4. Times(n, p + 1) = Times(n, p) + n BY <2>1, <3>3 DEF Times
    <3>. QED BY <3>2, <3>4
  <2>. QED BY <2>1, <2>2, <2>3
<1>2. Need(n, p) \in Nat /\ Need(n, q) \in Nat
  <2>1. Need(n, p) \in 1..n /\ Need(n, q) \in 1..n BY NeedType
  <2>. QED BY <2>1
<1>3. (Need(n, p) - 1) * Whole <= Times(n, p) BY NeedIs
<1>4. Need(n, q) * Whole >= Times(n, q) BY NeedIs
<1>5. CASE p = q BY <1>2, <1>5
<1>6. CASE p # q
  <2>1. Need(n, q) * Whole > (Need(n, p) - 1) * Whole BY <1>1, <1>2, <1>3, <1>4, <1>6 DEF Whole
  <2>. QED BY <1>2, <2>1 DEF Whole
<1>. QED BY <1>5, <1>6

(* Where a percentile below the middle is, and one above it. *)
LEMMA LowPercentile ==
  ASSUME NEW h \in Histograms, Count(h) \in Nat \ {0}, NEW p, IsShare(p), p < Middle
  PROVE  /\ Percentile(h, p) = FromBelow(h, Need(Count(h), p))
         /\ Percentile(h, p) \in Buckets
         /\ AtMost(h, Percentile(h, p)) >= Need(Count(h), p)
         /\ Under(h, Percentile(h, p)) < Need(Count(h), p)
         /\ \A b \in Buckets :
              AtMost(h, b) >= Need(Count(h), p) => Percentile(h, p) <= b
<1>1. Need(Count(h), p) \in 1..Count(h) BY NeedType
<1>2. Percentile(h, p) = FromBelow(h, Need(Count(h), p)) BY DEF Percentile
<1>. QED BY <1>1, <1>2, FromBelowIs

\* The samples that are counted from the top.
Rest(h, p) == Max({1, Count(h) - Need(Count(h), p)})

LEMMA HighPercentile ==
  ASSUME NEW h \in Histograms, Count(h) \in Nat \ {0}, NEW p, IsShare(p), p >= Middle
  PROVE  /\ Rest(h, p) \in 1..Count(h)
         /\ Rest(h, p) = 1 \/ Rest(h, p) = Count(h) - Need(Count(h), p)
         /\ Rest(h, p) >= Count(h) - Need(Count(h), p)
         /\ Percentile(h, p) = FromAbove(h, Need(Count(h), p))
         /\ Percentile(h, p) \in Buckets
         /\ AtLeast(h, Percentile(h, p)) >= Rest(h, p)
         /\ Over(h, Percentile(h, p)) < Rest(h, p)
         /\ \A b \in Buckets : AtLeast(h, b) >= Rest(h, p) => Percentile(h, p) >= b
<1> DEFINE n == Count(h)
           k == Need(n, p)
<1>1. k \in 1..n BY NeedType
<1>2. Rest(h, p) = IF 1 >= n - k THEN 1 ELSE n - k BY <1>1, GreaterOfTwo DEF Rest
<1>8. ~ (p < Middle) BY ShareIs
<1>3. Percentile(h, p) = FromAbove(h, k) BY <1>8 DEF Percentile
<1> HIDE DEF n, k
<1>4. n \in Nat \ {0} BY DEF n
<1>5. /\ Rest(h, p) \in 1..n /\ Rest(h, p) >= n - k
      /\ Rest(h, p) = 1 \/ Rest(h, p) = n - k
  BY <1>1, <1>2, <1>4
<1>6. Rest(h, p) = Max({1, n - k}) BY DEF Rest, n, k
<1>7. /\ FromAbove(h, k) \in Buckets
      /\ AtLeast(h, FromAbove(h, k)) >= Rest(h, p) /\ Over(h, FromAbove(h, k)) < Rest(h, p)
      /\ \A b \in Buckets : AtLeast(h, b) >= Rest(h, p) => FromAbove(h, k) >= b
  <2>1. k \in Nat BY <1>1, <1>4
  <2>. QED BY <1>4, <1>5, <1>6, <2>1, FromAboveIs DEF n
<1>. QED BY <1>3, <1>5, <1>7 DEF n, k

(* A percentile has samples; at most as many as its share needs are up to it, *)
(* and at least the rest are from it on.                                     *)
LEMMA PercentileIs ==
  ASSUME NEW h \in Histograms, Count(h) \in Nat \ {0}, NEW p, IsShare(p)
  PROVE  /\ Percentile(h, p) \in Buckets /\ h[Percentile(h, p)] > 0
         /\ AtMost(h, Percentile(h, p)) >= Need(Count(h), p)
         /\ AtLeast(h, Percentile(h, p)) >= Count(h) - Need(Count(h), p)
<1> DEFINE n == Count(h)
           k == Need(n, p)
           v == Percentile(h, p)
<1>1. n \in Nat \ {0} /\ k \in 1..n BY NeedType
<1>2. CASE p < Middle
  <2>2. v \in Buckets /\ AtMost(h, v) >= k /\ Under(h, v) < k BY <1>2, LowPercentile
  <2>3. /\ Under(h, v) \in Nat /\ Over(h, v) \in Nat /\ h[v] \in Nat
        /\ AtMost(h, v) = Under(h, v) + h[v] /\ AtLeast(h, v) = Over(h, v) + h[v]
        /\ n = Under(h, v) + h[v] + Over(h, v)
    BY <2>2, Divide
  <2> HIDE DEF n, k, v
  <2>4. h[v] > 0 /\ AtMost(h, v) >= k /\ AtLeast(h, v) >= n - k BY <1>1, <2>2, <2>3
  <2>. QED BY <2>2, <2>4 DEF n, k, v
<1>3. CASE ~ (p < Middle)
  <2> DEFINE w == Rest(h, p)
  <2>1. p >= Middle BY <1>3, ShareIs
  <2>2. /\ v \in Buckets /\ AtLeast(h, v) >= w /\ Over(h, v) < w
        /\ w \in 1..n /\ w >= n - k /\ (w = 1 \/ w = n - k)
    BY <2>1, HighPercentile
  <2>3. /\ Under(h, v) \in Nat /\ Over(h, v) \in Nat /\ h[v] \in Nat
        /\ AtMost(h, v) = Under(h, v) + h[v] /\ AtLeast(h, v) = Over(h, v) + h[v]
        /\ n = Under(h, v) + h[v] + Over(h, v)
    BY <2>2, Divide
  <2> HIDE DEF n, k, v, w
  <2>4. h[v] > 0 /\ AtMost(h, v) >= k /\ AtLeast(h, v) >= n - k BY <1>1, <2>2, <2>3
  <2>. QED BY <2>2, <2>4 DEF n, k, v
<1>. QED BY <1>2, <1>3

(* Percentiles grow with the share. *)
LEMMA PercentilesGrow ==
  ASSUME NEW h \in Histograms, Count(h) \in Nat \ {0},
         NEW p, NEW q, IsShare(p), IsShare(q), p <= q
  PROVE  Percentile(h, p) <= Percentile(h, q)
<1> DEFINE n == Count(h)
           j == Need(n, p)
           k == Need(n, q)
           u == Percentile(h, p)
           v == Percentile(h, q)
<1>1. n \in Nat \ {0} /\ j \in 1..n /\ k \in 1..n /\ j <= k BY NeedType, NeedGrows
<1>2. u \in Buckets /\ v \in Buckets BY PercentileIs
<1>3. u \in Nat /\ v \in Nat BY <1>2, BucketsAre
<1>4. AtMost(h, v) >= k /\ AtMost(h, v) \in Nat
  BY <1>2, PercentileIs, Divide
<1>5. CASE p < Middle
  <2>2. \A b \in Buckets : AtMost(h, b) >= j => u <= b BY <1>5, LowPercentile
  <2>3. AtMost(h, v) >= j BY <1>1, <1>4
  <2>. QED BY <1>2, <2>2, <2>3
<1>6. CASE ~ (p < Middle)
  <2>1. p >= Middle /\ q >= Middle BY <1>6, ShareIs
  <2>2. AtLeast(h, u) >= Rest(h, p) /\ Rest(h, p) \in Nat /\ Rest(h, p) >= 1 /\ Rest(h, p) >= n - j
    BY <1>1, <2>1, HighPercentile
  <2>3. \A b \in Buckets : AtLeast(h, b) >= Rest(h, q) => v >= b BY <2>1, HighPercentile
  <2>4. Rest(h, q) = 1 \/ Rest(h, q) = n - k BY <2>1, HighPercentile
  <2>5. AtLeast(h, u) \in Nat BY <1>2, Divide
  <2> HIDE DEF n, j, k, u, v
  <2>6. Rest(h, q) <= Rest(h, p) BY <1>1, <2>2, <2>4
  <2>7. AtLeast(h, u) >= Rest(h, q) BY <1>1, <2>2, <2>4, <2>5, <2>6
  <2>8. v >= u BY <1>2, <2>3, <2>7
  <2>. QED BY <1>3, <2>8 DEF u, v
<1>. QED BY <1>5, <1>6

-----------------------------------------------------------------------------
\* The items: what each request adds.

ItemType ==
  [total_requests : Nat, successful_requests : Nat, total_bytes : Nat,
   summary : [Statuses -> (-CounterLimit)..(CounterLimit - 1)], throughput : Histograms,
   success_latency : Histograms, error_latency : Histograms]

\* Every request of an item is in its histograms and its counters.
Booked(i) ==
  /\ Count(i.success_latency) = i.successful_requests
  /\ Count(i.throughput) = i.successful_requests
  /\ Count(i.success_latency) + Count(i.error_latency) = i.total_requests
  /\ i.total_requests < CounterLimit =>
       /\ \A s \in Statuses : i.summary[s] \in Nat
       /\ SumOver(i.summary, Statuses) = i.total_requests

LEMMA SumZero ==
  ASSUME NEW f, NEW S, IsFiniteSet(S), \A x \in S : f[x] = 0
  PROVE  Summable(f, S) /\ SumOver(f, S) = 0
<1>1. Summable(f, S) BY DEF Summable
<1>2. ASSUME NEW t, t \in Slots(f, S) PROVE FALSE
  <2>1. PICK x \in S : \E i \in 1..f[x] : t = <<x, i>> BY <1>2, SlotsAre
  <2>2. f[x] = 0 OBVIOUS
  <2>3. 1..0 = {} OBVIOUS
  <2>. QED BY <2>1, <2>2, <2>3
<1>3. Slots(f, S) = {} BY <1>2
<1>. QED BY <1>1, <1>3, SlotsFinite, FS_EmptySet

(* A value goes to a bucket, which counts one more. *)
LEMMA BucketIs ==
  ASSUME NEW v \in Nat
  PROVE  BucketOf(v) \in Buckets
<1> DEFINE S == {b \in Buckets : b <= v}
<1>1. S \in SUBSET Buckets /\ 0 \in S BY BucketsAre
<1>2. S \in SUBSET Nat /\ IsFiniteSet(S) BY <1>1, BucketsAre, FS_Subset
<1>3. Max(S) \in S BY <1>1, <1>2, GreatestOf
<1>4. BucketOf(v) = Max(S) BY DEF BucketOf
<1> HIDE DEF S
<1>. QED BY <1>1, <1>3, <1>4

LEMMA Incremented ==
  ASSUME NEW h \in Histograms, NEW v \in Nat
  PROVE  /\ Increment(h, v) \in Histograms
         /\ Count(h) \in Nat /\ Count(Increment(h, v)) = Count(h) + 1
<1> DEFINE b == BucketOf(v)
           g == Increment(h, v)
<1>1. b \in Buckets BY BucketIs
<1>2. g = [h EXCEPT ![b] = @ + 1] BY DEF Increment
<1> HIDE DEF b, g
<1>3. h \in [Buckets -> Nat] BY DEF Histograms
<1>4. g \in [Buckets -> Nat] /\ g[b] = h[b] + 1 /\ \A c \in Buckets : c # b => g[c] = h[c]
  BY <1>1, <1>2, <1>3
<1>5. Summable(h, Buckets) BY SamplesType
<1>8. h[b] \in Nat /\ g[b] \in Nat /\ \A c \in Buckets : c # b => g[c] = h[c]
  BY <1>1, <1>3, <1>4
<1>6. /\ Summable(g, Buckets) /\ SumOver(g, Buckets) \in Nat
      /\ SumOver(g, Buckets) + h[b] = SumOver(h, Buckets) + g[b]
  BY <1>1, <1>5, <1>8, SumChanged
<1>7. SumOver(h, Buckets) \in Nat BY <1>5, SlotsFinite
<1>9. SumOver(g, Buckets) = SumOver(h, Buckets) + 1 BY <1>4, <1>6, <1>7, <1>8
<1>. QED BY <1>4, <1>7, <1>9 DEF g, Histograms, Count, Samples

LEMMA CountType == ASSUME NEW h \in Histograms PROVE Count(h) \in Nat
BY SamplesType DEF Count

LEMMA NothingCounted == NoSamples \in Histograms /\ Count(NoSamples) = 0
<1>1. NoSamples \in Histograms BY DEF NoSamples, Histograms
<1>2. \A b \in Buckets : NoSamples[b] = 0 BY DEF NoSamples
<1>3. SumOver(NoSamples, Buckets) = 0 BY <1>2, BucketsAre, SumZero
<1>. QED BY <1>1, <1>3 DEF Count, Samples

(* The throughput of a request is a number. *)
LEMMA ThroughputType ==
  ASSUME NEW r \in Requests
  PROVE  Throughput(r) \in Nat /\ r.duration \in Nat
<1>1. /\ r.bytes_processed \in Nat /\ r.duration \in Nat /\ Second \in Nat
  BY MetricsAssumption
<1>2. Max(Buckets) \in Nat BY BucketsAre, GreatestOf
<1>3. r.bytes_processed * Second \in Nat BY <1>1
<1>4. r.duration > 0 => (r.bytes_processed * Second) \div r.duration \in Nat
  BY <1>1, <1>3, DivMod
<1>. QED BY <1>1, <1>2, <1>4 DEF Throughput

(* A counter of the summary stays in its range, and counts until it is full. *)
LEMMA AddOneIs ==
  ASSUME NEW n \in (-CounterLimit)..(CounterLimit - 1)
  PROVE  /\ AddOne(n) \in (-CounterLimit)..(CounterLimit - 1)
         /\ n \in Nat /\ n + 1 < CounterLimit => AddOne(n) = n + 1
<1> DEFINE c == CounterLimit
           a == n + 1 + c
<1>1. c \in Nat \ {0} BY MetricsAssumption
<1> HIDE DEF c
<1>2. n \in (-c)..(c - 1) BY DEF c
<1>3. a \in Nat /\ 2 * c \in Nat \ {0} BY <1>1, <1>2
<1>4. a % (2 * c) \in Nat /\ a % (2 * c) < 2 * c BY <1>3, DivMod
<1>5. AddOne(n) = (a % (2 * c)) - c BY DEF AddOne, c
<1>6. AddOne(n) \in (-c)..(c - 1) BY <1>1, <1>4, <1>5
<1>7. ASSUME n \in Nat, n + 1 < c PROVE AddOne(n) = n + 1
  <2>1. a < 2 * c BY <1>1, <1>7
  <2>2. a = (2 * c) * 0 + a BY <1>3
  <2>3. a % (2 * c) = a BY <1>3, <2>1, <2>2, DivModUnique
  <2>. QED BY <1>1, <1>5, <1>7, <2>3
<1>. QED BY <1>6, <1>7 DEF c

(* A new item is empty. *)
LEMMA ItemStart == NewItem \in ItemType /\ Booked(NewItem)
<1>1. CounterLimit \in Nat \ {0} /\ IsFiniteSet(Statuses) BY MetricsAssumption
<1>2. NoSamples \in Histograms /\ Count(NoSamples) = 0 BY NothingCounted
<1> DEFINE zero == [s \in Statuses |-> 0]
<1>3. zero \in [Statuses -> (-CounterLimit)..(CounterLimit - 1)] BY <1>1
<1>4. SumOver(zero, Statuses) = 0 BY <1>1, SumZero
<1>5. \A s \in Statuses : zero[s] \in Nat OBVIOUS
<1>6. NewItem = [total_requests |-> 0, successful_requests |-> 0, total_bytes |-> 0,
                 summary |-> zero, throughput |-> NoSamples,
                 success_latency |-> NoSamples, error_latency |-> NoSamples]
  BY DEF NewItem
<1> HIDE DEF zero
<1>7. NewItem \in ItemType BY <1>2, <1>3, <1>6 DEF ItemType
<1>8. Booked(NewItem) BY <1>2, <1>4, <1>5, <1>6 DEF Booked
<1>. QED BY <1>7, <1>8

(* Reporting a request keeps an item right. *)
LEMMA SummaryStep ==
  ASSUME NEW f, NEW g, NEW s \in Statuses, NEW n \in Nat,
         f[s] \in (-CounterLimit)..(CounterLimit - 1), g[s] = AddOne(f[s]),
         \A t \in Statuses : t # s => g[t] = f[t],
         \A t \in Statuses : f[t] \in Nat,
         SumOver(f, Statuses) = n, n + 1 < CounterLimit
  PROVE  /\ \A t \in Statuses : g[t] \in Nat
         /\ SumOver(g, Statuses) = n + 1
<1>1. Summable(f, Statuses) BY MetricsAssumption DEF Summable
<1>2. /\ SumOver(f, Statuses \ {s}) \in Nat /\ f[s] \in Nat
      /\ SumOver(f, Statuses) = SumOver(f, Statuses \ {s}) + f[s]
  BY <1>1, SumWithout
<1>3. CounterLimit \in Nat BY MetricsAssumption
<1>4. f[s] + 1 < CounterLimit BY <1>2, <1>3
<1>5. g[s] = f[s] + 1 BY <1>2, <1>4, AddOneIs
<1>6. g[s] \in Nat BY <1>2, <1>5
<1>7. /\ Summable(g, Statuses) /\ SumOver(g, Statuses) \in Nat
      /\ SumOver(g, Statuses) + f[s] = SumOver(f, Statuses) + g[s]
  BY <1>1, <1>6, SumChanged
<1>8. SumOver(g, Statuses) = n + 1 BY <1>2, <1>5, <1>7
<1>. QED BY <1>6, <1>8

LEMMA ItemStep ==
  ASSUME NEW i \in ItemType, Booked(i), NEW r \in Requests
  PROVE  ReportItem(i, r) \in ItemType /\ Booked(ReportItem(i, r))
<1> DEFINE j == ReportItem(i, r)
           g == [i.summary EXCEPT ![r.status] = AddOne(@)]
           t == IF r.is_success THEN Increment(i.throughput, Throughput(r))
                                ELSE i.throughput
           u == IF r.is_success THEN Increment(i.success_latency, r.duration)
                                ELSE i.success_latency
           e == IF r.is_success THEN i.error_latency
                                ELSE Increment(i.error_latency, r.duration)
           one == IF r.is_success THEN 1 ELSE 0
<1>1. r.is_success \in BOOLEAN /\ r.bytes_processed \in Nat BY MetricsAssumption
<1>2. /\ i.total_requests \in Nat /\ i.successful_requests \in Nat /\ i.total_bytes \in Nat
      /\ i.summary \in [Statuses -> (-CounterLimit)..(CounterLimit - 1)]
      /\ i.throughput \in Histograms /\ i.success_latency \in Histograms
      /\ i.error_latency \in Histograms
  BY DEF ItemType
<1>3. r.status \in Statuses BY DEF Statuses
<1>4. /\ Throughput(r) \in Nat /\ r.duration \in Nat BY ThroughputType
<1>5. /\ t \in Histograms /\ u \in Histograms /\ e \in Histograms
      /\ Count(t) = Count(i.throughput) + one
      /\ Count(u) = Count(i.success_latency) + one
      /\ Count(e) = Count(i.error_latency) + (1 - one)
  <2>0. /\ Count(i.throughput) \in Nat /\ Count(i.success_latency) \in Nat
        /\ Count(i.error_latency) \in Nat
    BY <1>2, CountType
  <2>1. CASE r.is_success
    <3>1. t = Increment(i.throughput, Throughput(r)) BY <2>1
    <3>2. u = Increment(i.success_latency, r.duration) BY <2>1
    <3>3. e = i.error_latency /\ one = 1 BY <2>1
    <3> HIDE DEF t, u, e, one
    <3>4. t \in Histograms /\ Count(t) = Count(i.throughput) + 1
      BY <1>2, <1>4, <3>1, Incremented
    <3>5. u \in Histograms /\ Count(u) = Count(i.success_latency) + 1
      BY <1>2, <1>4, <3>2, Incremented
    <3>. QED BY <1>2, <2>0, <3>3, <3>4, <3>5
  <2>2. CASE ~ r.is_success
    <3>1. e = Increment(i.error_latency, r.duration) BY <2>2
    <3>2. t = i.throughput /\ u = i.success_latency /\ one = 0 BY <2>2
    <3> HIDE DEF t, u, e, one
    <3>3. e \in Histograms /\ Count(e) = Count(i.error_latency) + 1
      BY <1>2, <1>4, <3>1, Incremented
    <3>. QED BY <1>2, <2>0, <3>2, <3>3
  <2>. QED BY <2>1, <2>2
<1>6. /\ g \in [Statuses -> (-CounterLimit)..(CounterLimit - 1)]
      /\ /\ \A s \in Statuses : i.summary[s] \in Nat
         /\ SumOver(i.summary, Statuses) = i.total_requests
         /\ i.total_requests + 1 < CounterLimit
         => /\ \A s \in Statuses : g[s] \in Nat
            /\ SumOver(g, Statuses) = i.total_requests + 1
  <2> DEFINE f == i.summary
             a == AddOne(f[r.status])
  <2>1. f \in [Statuses -> (-CounterLimit)..(CounterLimit - 1)] BY <1>2
  <2>2. f[r.status] \in (-CounterLimit)..(CounterLimit - 1) BY <1>3, <2>1
  <2>3. a \in (-CounterLimit)..(CounterLimit - 1) BY <2>2, AddOneIs
  <2>4. g = [f EXCEPT ![r.status] = a] OBVIOUS
  <2> HIDE DEF f, g, a
  <2>5. /\ g \in [Statuses -> (-CounterLimit)..(CounterLimit - 1)]
        /\ g[r.status] = a /\ \A s \in Statuses : s # r.status => g[s] = f[s]
    BY <1>3, <2>1, <2>3, <2>4
  <2>6. ASSUME \A s \in Statuses : f[s] \in Nat, SumOver(f, Statuses) = i.total_requests,
               i.total_requests + 1 < CounterLimit
        PROVE  /\ \A s \in Statuses : g[s] \in Nat
               /\ SumOver(g, Statuses) = i.total_requests + 1
    <3>1. g[r.status] = AddOne(f[r.status]) BY <2>5 DEF a
    <3>2. i.total_requests \in Nat BY <1>2
    <3>. QED BY <1>3, <2>2, <2>5, <2>6, <3>1, <3>2, SummaryStep
  <2>. QED BY <2>5, <2>6 DEF f
<1>7. one \in {0, 1} OBVIOUS
<1>8. j = [total_requests |-> i.total_requests + 1,
           successful_requests |-> i.successful_requests + one,
           total_bytes |-> i.total_bytes + r.bytes_processed,
           summary |-> g, throughput |-> t, success_latency |-> u, error_latency |-> e]
  BY DEF ReportItem
<1> HIDE DEF j, g, t, u, e, one
<1>9. /\ i.total_requests + 1 \in Nat /\ i.successful_requests + one \in Nat
      /\ i.total_bytes + r.bytes_processed \in Nat
  BY <1>1, <1>2, <1>7
<1>10. j \in ItemType BY <1>5, <1>6, <1>8, <1>9 DEF ItemType
<1>11. /\ Count(i.success_latency) = i.successful_requests
       /\ Count(i.throughput) = i.successful_requests
       /\ Count(i.success_latency) + Count(i.error_latency) = i.total_requests
       /\ i.total_requests < CounterLimit =>
            /\ \A s \in Statuses : i.summary[s] \in Nat
            /\ SumOver(i.summary, Statuses) = i.total_requests
  BY DEF Booked
<1>12. /\ Count(u) = i.successful_requests + one /\ Count(t) = i.successful_requests + one
       /\ Count(u) + Count(e) = i.total_requests + 1
  <2>1. Count(i.error_latency) \in Nat BY <1>2, CountType
  <2>. QED BY <1>2, <1>5, <1>7, <1>11, <2>1
<1>13. i.total_requests + 1 < CounterLimit =>
         /\ \A s \in Statuses : g[s] \in Nat
         /\ SumOver(g, Statuses) = i.total_requests + 1
  <2>1. CounterLimit \in Nat BY MetricsAssumption
  <2>2. i.total_requests + 1 < CounterLimit => i.total_requests < CounterLimit BY <1>2, <2>1
  <2>. QED BY <1>6, <1>11, <2>2
<1>14. Booked(j) BY <1>8, <1>12, <1>13 DEF Booked
<1>. QED BY <1>10, <1>14 DEF j

-----------------------------------------------------------------------------
\* The metrics of a batch.

Named == [o \in Operations |-> metrics[o].total_requests]
Bytes == [o \in Operations |-> metrics[o].total_bytes]

\* The inductive invariant: every item has what it was told of, and the
\* operations add up.
MetricsInv ==
  /\ TypeOK
  /\ \A o \in Operations \cup {Combined} : Booked(metrics[o])
  /\ OperationsAddUp

LEMMA TypeIs == TypeOK <=> metrics \in [Operations \cup {Combined} -> ItemType]
BY DEF TypeOK, ItemType, Histograms

(* A sum of which one term, if it is one, grows. *)
LEMMA TallyStep ==
  ASSUME NEW f, NEW g, NEW S, NEW x, NEW d \in Nat, Summable(f, S),
         \A o \in S : g[o] = IF o = x THEN f[o] + d ELSE f[o]
  PROVE  SumOver(g, S) = SumOver(f, S) + (IF x \in S THEN d ELSE 0)
<1>0. SumOver(f, S) \in Nat BY SlotsFinite
<1>1. CASE x \in S
  <2>1. f[x] \in Nat /\ g[x] = f[x] + d BY <1>1 DEF Summable
  <2>2. g[x] \in Nat /\ \A o \in S : o # x => g[o] = f[o] BY <1>1, <2>1
  <2>3. SumOver(g, S) \in Nat /\ SumOver(g, S) + f[x] = SumOver(f, S) + g[x]
    BY <1>1, <2>2, SumChanged
  <2>. QED BY <1>0, <1>1, <2>1, <2>3
<1>2. CASE x \notin S
  <2>1. \A o \in S : g[o] = f[o] BY <1>2
  <2>2. SumOver(g, S) = SumOver(f, S) BY <2>1, SumAgree
  <2>. QED BY <1>0, <1>2, <2>2
<1>. QED BY <1>1, <1>2

(* The operations have no requests and no bytes at first. *)
LEMMA MetricsStart == Init => MetricsInv
<1> SUFFICES ASSUME Init PROVE MetricsInv
  OBVIOUS
<1>1. metrics = [o \in Operations \cup {Combined} |-> NewItem] BY DEF Init
<1>2. NewItem \in ItemType /\ Booked(NewItem) BY ItemStart
<1>3. TypeOK BY <1>1, <1>2, TypeIs
<1>4. \A o \in Operations \cup {Combined} : Booked(metrics[o]) BY <1>1, <1>2
<1>5. \A o \in Operations \cup {Combined} :
        metrics[o].total_requests = 0 /\ metrics[o].total_bytes = 0
  BY <1>1 DEF NewItem
<1>6. SumOver(Named, Operations) = 0 /\ SumOver(Bytes, Operations) = 0
  <2>1. IsFiniteSet(Operations) BY MetricsAssumption
  <2>2. \A o \in Operations : Named[o] = 0 /\ Bytes[o] = 0 BY <1>5 DEF Named, Bytes
  <2>. QED BY <2>1, <2>2, SumZero
<1>7. OperationsAddUp BY <1>5, <1>6 DEF OperationsAddUp, Named, Bytes
<1>. QED BY <1>3, <1>4, <1>7 DEF MetricsInv

LEMMA TalliesAre ==
  ASSUME TypeOK
  PROVE  /\ Summable(Named, Operations) /\ Summable(Bytes, Operations)
         /\ SumOver(Named, Operations) \in Nat /\ SumOver(Bytes, Operations) \in Nat
<1>1. \A o \in Operations : Named[o] \in Nat /\ Bytes[o] \in Nat
  BY TypeIs DEF ItemType, Named, Bytes
<1>2. IsFiniteSet(Operations) BY MetricsAssumption
<1>3. Summable(Named, Operations) /\ Summable(Bytes, Operations)
  BY <1>1, <1>2 DEF Summable
<1>. QED BY <1>3, SlotsFinite

LEMMA ReportStep ==
  ASSUME MetricsInv, NEW r \in Requests, ReportRequest(r)
  PROVE  MetricsInv'
<1> DEFINE D == Operations \cup {Combined}
           To == {Combined, r.operation_name}
<1>0. TypeOK /\ OperationsAddUp /\ \A o \in D : Booked(metrics[o]) BY DEF MetricsInv
<1>1. metrics \in [D -> ItemType] BY <1>0, TypeIs
<1>2. metrics' = [o \in D |-> IF o \in To THEN ReportItem(metrics[o], r) ELSE metrics[o]]
  BY <1>1 DEF ReportRequest
<1>3. ASSUME NEW o \in D PROVE metrics'[o] \in ItemType /\ Booked(metrics'[o])
  <2>1. metrics[o] \in ItemType /\ Booked(metrics[o]) BY <1>0, <1>1
  <2>2. ReportItem(metrics[o], r) \in ItemType /\ Booked(ReportItem(metrics[o], r))
    BY <2>1, ItemStep
  <2>. QED BY <1>2, <2>1, <2>2
<1>4. metrics' \in [D -> ItemType] BY <1>2, <1>3
<1>5. TypeOK' BY <1>4 DEF TypeOK, ItemType, Histograms
<1>6. /\ \A o \in D : metrics[o].total_requests \in Nat /\ metrics[o].total_bytes \in Nat
      /\ r.bytes_processed \in Nat
  BY <1>1, MetricsAssumption DEF ItemType
<1>7. \A o \in D :
        /\ metrics'[o].total_requests = IF o \in To THEN metrics[o].total_requests + 1
                                                    ELSE metrics[o].total_requests
        /\ metrics'[o].total_bytes = IF o \in To THEN metrics[o].total_bytes + r.bytes_processed
                                                 ELSE metrics[o].total_bytes
  BY <1>2 DEF ReportItem
<1>8. Combined \notin Operations /\ r.operation_name \in Operations \cup {Unnamed}
  BY MetricsAssumption
<1>9. /\ SumOver(Named', Operations)
           = SumOver(Named, Operations) + (IF r.operation_name \in Operations THEN 1 ELSE 0)
      /\ SumOver(Bytes', Operations)
           = SumOver(Bytes, Operations)
               + (IF r.operation_name \in Operations THEN r.bytes_processed ELSE 0)
  <2>1. \A o \in Operations : o \in To <=> o = r.operation_name BY <1>8
  <2>2. \A o \in Operations :
          /\ Named'[o] = IF o = r.operation_name THEN Named[o] + 1 ELSE Named[o]
          /\ Bytes'[o] = IF o = r.operation_name THEN Bytes[o] + r.bytes_processed ELSE Bytes[o]
    BY <1>7, <2>1 DEF Named, Bytes
  <2>3. Summable(Named, Operations) /\ Summable(Bytes, Operations) BY <1>0, TalliesAre
  <2>4. 1 \in Nat OBVIOUS
  <2>5. SumOver(Named', Operations)
          = SumOver(Named, Operations) + (IF r.operation_name \in Operations THEN 1 ELSE 0)
    BY <2>2, <2>3, <2>4, TallyStep
  <2>6. SumOver(Bytes', Operations)
          = SumOver(Bytes, Operations)
              + (IF r.operation_name \in Operations THEN r.bytes_processed ELSE 0)
    BY <1>6, <2>2, <2>3, TallyStep
  <2>. QED BY <2>5, <2>6
<1>10. OperationsAddUp'
  <2> DEFINE named == SumOver(Named, Operations)
             bytes == SumOver(Bytes, Operations)
             all == metrics[Combined].total_requests
             size == metrics[Combined].total_bytes
             b == r.bytes_processed
             nonames == \A q \in Requests : q.operation_name # Unnamed
  <2>1. named \in Nat /\ bytes \in Nat /\ all \in Nat /\ size \in Nat /\ b \in Nat
    BY <1>0, <1>6, TalliesAre
  <2>2. named <= all /\ bytes <= size /\ (nonames => named = all /\ bytes = size)
    BY <1>0 DEF OperationsAddUp, Named, Bytes
  <2>3. metrics'[Combined].total_requests = all + 1 /\ metrics'[Combined].total_bytes = size + b
    BY <1>7
  <2>4. nonames => r.operation_name \in Operations BY <1>8
  <2>5. \/ named' = named + 1 /\ bytes' = bytes + b
        \/ named' = named /\ bytes' = bytes /\ ~ nonames
    <3>1. CASE r.operation_name \in Operations BY <1>9, <3>1
    <3>2. CASE r.operation_name \notin Operations
      <4>1. ~ nonames BY <2>4, <3>2
      <4>2. named' = named /\ bytes' = bytes
        <5> HIDE DEF nonames
        <5>. QED BY <1>9, <2>1, <3>2
      <4>. QED BY <4>1, <4>2
    <3>. QED BY <3>1, <3>2
  <2> HIDE DEF named, bytes, all, size, b, nonames
  <2>6. /\ named' <= all + 1 /\ bytes' <= size + b
        /\ nonames => named' = all + 1 /\ bytes' = size + b
    BY <2>1, <2>2, <2>5
  <2>7. /\ named' <= metrics'[Combined].total_requests
        /\ bytes' <= metrics'[Combined].total_bytes
        /\ nonames => /\ named' = metrics'[Combined].total_requests
                      /\ bytes' = metrics'[Combined].total_bytes
    BY <2>3, <2>6
  <2>. QED BY <2>7 DEF OperationsAddUp, Named, Bytes, named, bytes, nonames
<1>. QED BY <1>3, <1>5, <1>10 DEF MetricsInv

(* The invariant holds in every reachable state. *)
THEOREM MetricsInvariant == Spec => []MetricsInv
<1>1. ASSUME MetricsInv, [Next]_metrics PROVE MetricsInv'
  <2>1. CASE UNCHANGED metrics
    BY <1>1, <2>1 DEF MetricsInv, TypeOK, OperationsAddUp
  <2>2. CASE Next
    <3>1. CASE \E r \in Requests : ReportRequest(r) BY <1>1, <3>1, ReportStep
    <3>2. CASE BatchOver
      BY <1>1, <3>2 DEF BatchOver, MetricsInv, TypeOK, OperationsAddUp
    <3>. QED BY <2>2, <3>1, <3>2 DEF Next
  <2>. QED BY <1>1, <2>1, <2>2
<1>. QED BY <1>1, MetricsStart, PTL DEF Spec

-----------------------------------------------------------------------------
\* What the items say.

LEMMA MergeIs ==
  ASSUME NEW g \in Histograms, NEW h \in Histograms
  PROVE  /\ Merge(g, h) \in Histograms
         /\ \A b \in Buckets : Merge(g, h)[b] = g[b] + h[b]
         /\ Count(Merge(g, h)) = Count(g) + Count(h)
<1>1. \A b \in Buckets : g[b] \in Nat /\ h[b] \in Nat BY DEF Histograms
<1>2. \A b \in Buckets : Merge(g, h)[b] = g[b] + h[b] BY DEF Merge
<1>3. Merge(g, h) \in Histograms BY <1>1 DEF Merge, Histograms
<1>4. Summable(g, Buckets) /\ Summable(h, Buckets) BY SamplesType
<1>5. SumOver(Merge(g, h), Buckets) = SumOver(g, Buckets) + SumOver(h, Buckets)
  BY <1>2, <1>4, SumPlus
<1>. QED BY <1>2, <1>3, <1>5 DEF Count, Samples

LEMMA ItemsAre ==
  ASSUME MetricsInv, NEW i \in Items
  PROVE  /\ i \in ItemType /\ Booked(i)
         /\ i.success_latency \in Histograms /\ i.error_latency \in Histograms
         /\ i.throughput \in Histograms
         /\ i.total_requests \in Nat /\ i.successful_requests \in Nat
         /\ Latency(i) \in Histograms /\ Count(Latency(i)) = i.total_requests
<1>1. metrics \in [Operations \cup {Combined} -> ItemType] BY TypeIs DEF MetricsInv
<1>2. i \in ItemType /\ Booked(i) BY <1>1 DEF Items, MetricsInv
<1>3. /\ i.success_latency \in Histograms /\ i.error_latency \in Histograms
      /\ i.throughput \in Histograms
      /\ i.total_requests \in Nat /\ i.successful_requests \in Nat
  BY <1>2 DEF ItemType
<1>4. Count(i.success_latency) + Count(i.error_latency) = i.total_requests
  BY <1>2 DEF Booked
<1>. QED BY <1>2, <1>3, <1>4, MergeIs DEF Latency

LEMMA UsedIs ==
  ASSUME MetricsInv, NEW i \in Used
  PROVE  i \in Items /\ Latency(i) \in Histograms /\ Count(Latency(i)) \in Nat \ {0}
<1>1. i \in Items /\ i.total_requests > 0 BY DEF Used
<1>. QED BY <1>1, ItemsAre

(* An item's histograms and counters have each of its requests once          *)
(* (metrics.rs 212-232).                                                     *)
THEOREM RequestsAccounted == Spec => []Accounted
<1>1. MetricsInv => Accounted
  <2> SUFFICES ASSUME MetricsInv, NEW i \in Items
               PROVE  /\ Count(i.success_latency) = i.successful_requests
                      /\ Count(i.throughput) = i.successful_requests
                      /\ Count(Latency(i)) = i.total_requests
                      /\ i.total_requests < CounterLimit =>
                           SumOver(i.summary, Statuses) = i.total_requests
    BY DEF Accounted
  <2>. QED BY ItemsAre DEF Booked
<1>. QED BY <1>1, MetricsInvariant, PTL

(* The operations add up to the combined item (metrics.rs 186-194).          *)
THEOREM OperationsSum == Spec => []OperationsAddUp
<1>1. MetricsInv => OperationsAddUp BY DEF MetricsInv
<1>. QED BY <1>1, MetricsInvariant, PTL

(* The variable keeps its type, a counter of the summary its range.          *)
THEOREM MetricsTyped == Spec => []TypeOK
<1>1. MetricsInv => TypeOK BY DEF MetricsInv
<1>. QED BY <1>1, MetricsInvariant, PTL

LEMMA SequenceIs ==
  ASSUME NEW S, NEW q \in Seq(S)
  PROVE  Len(q) \in Nat /\ DOMAIN q = 1..Len(q) /\ \A k \in 1..Len(q) : q[k] \in S
OBVIOUS

\* The shares that are asked for.
LEMMA SharesAre ==
  /\ \A k \in DOMAIN Percentiles : IsShare(Percentiles[k])
  /\ \A t \in Thresholds :
       /\ IsShare(t) /\ t < Middle /\ IsShare(Whole - t) /\ Whole - t >= Middle
       /\ t <= Whole - t
<1>1. Percentiles \in Seq(1..Whole) /\ Thresholds \subseteq 1..(Middle - 1)
  BY MetricsAssumption
<1>2. ASSUME NEW k \in DOMAIN Percentiles PROVE IsShare(Percentiles[k])
  <2>1. DOMAIN Percentiles = 1..Len(Percentiles)
        /\ \A j \in 1..Len(Percentiles) : Percentiles[j] \in 1..Whole
    BY <1>1, SequenceIs
  <2>2. Percentiles[k] \in 1..Whole BY <2>1
  <2>. QED BY <2>2, ShareIs DEF IsShare
<1>3. ASSUME NEW t \in Thresholds
      PROVE  /\ IsShare(t) /\ t < Middle /\ IsShare(Whole - t) /\ Whole - t >= Middle
             /\ t <= Whole - t
  <2>1. t \in 1..(Middle - 1) BY <1>1
  <2>. QED BY <2>1 DEF IsShare, Whole, Middle
<1>. QED BY <1>2, <1>3

(* A percentile splits the samples of every histogram.                       *)
LEMMA Splits ==
  ASSUME NEW h \in Histograms, Count(h) \in Nat \ {0}, NEW p, IsShare(p)
  PROVE  /\ AtMost(h, Percentile(h, p)) * Whole >= Count(h) * p
         /\ (AtLeast(h, Percentile(h, p)) + 1) * Whole >= Count(h) * (Whole - p)
         /\ h[Percentile(h, p)] > 0
<1> DEFINE n == Count(h)
           k == Need(n, p)
           v == Percentile(h, p)
           x == Times(n, p)
           y == Times(n, Whole - p)
           low == AtMost(h, v)
           high == AtLeast(h, v)
<1>1. v \in Buckets /\ h[v] > 0 /\ low >= k /\ high >= n - k BY PercentileIs
<1>2. low \in Nat /\ high \in Nat BY <1>1, Divide
<1>3. n \in Nat /\ k \in 1..n /\ k * Whole >= x /\ (k - 1) * Whole <= x BY NeedIs
<1>4. p \in Nat /\ Whole - p \in Nat BY ShareIs
<1>5. x \in Nat /\ y \in Nat BY <1>3, <1>4, TimesType
<1>6. x + y = n * Whole
  <2>1. \A a \in Nat, b \in Nat : n * (a + b) = (n * a) + (n * b) BY <1>3
  <2>2. n * (p + (Whole - p)) = (n * p) + (n * (Whole - p)) BY <1>4, <2>1
  <2>3. p + (Whole - p) = Whole BY <1>4, ShareIs
  <2>. QED BY <2>2, <2>3 DEF Times
<1>7. Count(h) * p = x /\ Count(h) * (Whole - p) = y BY DEF Times
<1> HIDE DEF n, k, v, x, y, low, high
<1>8. low * Whole >= x BY <1>1, <1>2, <1>3, <1>5 DEF Whole
<1>9. (high + 1) * Whole >= y BY <1>1, <1>2, <1>3, <1>5, <1>6 DEF Whole
<1>. QED BY <1>1, <1>7, <1>8, <1>9 DEF v, low, high

(* Whichever end the code counts from and however f64 rounds the share, a      *)
(* percentile has its share of the samples at or below it and the rest, but    *)
(* for one at most, at or above it (metrics.rs 30-67).                        *)
THEOREM PercentilesSplit == Spec => []PercentileSplits
<1>1. MetricsInv => PercentileSplits
  <2> SUFFICES ASSUME MetricsInv, NEW i \in Used,
                      NEW p \in Thresholds \cup {Percentiles[k] : k \in DOMAIN Percentiles}
               PROVE  LET h == Latency(i)
                          v == Percentile(h, p)
                      IN  /\ AtMost(h, v) * Whole >= Count(h) * p
                          /\ (AtLeast(h, v) + 1) * Whole >= Count(h) * (Whole - p)
                          /\ h[v] > 0
    BY DEF PercentileSplits
  <2>1. IsShare(p) BY SharesAre
  <2>2. Latency(i) \in Histograms /\ Count(Latency(i)) \in Nat \ {0} BY UsedIs
  <2>. QED BY <2>1, <2>2, Splits
<1>. QED BY <1>1, MetricsInvariant, PTL

-----------------------------------------------------------------------------
\* Truncated means.

(* The complement of a share. *)
LEMMA Complement ==
  ASSUME NEW n \in Nat, NEW t, IsShare(t)
  PROVE  /\ Times(n, t) \in Nat /\ Times(n, Whole - t) \in Nat
         /\ Times(n, t) + Times(n, Whole - t) = n * Whole
<1>1. t \in Nat /\ Whole - t \in Nat BY ShareIs
<1>2. Times(n, t) \in Nat /\ Times(n, Whole - t) \in Nat BY <1>1, TimesType
<1>3. \A a \in Nat, b \in Nat : n * (a + b) = (n * a) + (n * b) OBVIOUS
<1>4. n * (t + (Whole - t)) = (n * t) + (n * (Whole - t)) BY <1>1, <1>3
<1>5. t + (Whole - t) = Whole BY <1>1, ShareIs
<1>. QED BY <1>2, <1>4, <1>5 DEF Times

(* What is cut off at both ends, and that something is left. *)
LEMMA Tails ==
  ASSUME NEW h \in Histograms, Count(h) \in Nat \ {0}, NEW t \in Thresholds
  PROVE  /\ Under(h, Percentile(h, t)) * Whole <= Count(h) * t
         /\ Over(h, Percentile(h, Whole - t)) * Whole <= Count(h) * t
         /\ Kept(h, t) \in SUBSET Buckets /\ Samples(h, Kept(h, t)) \in Nat \ {0}
<1> DEFINE n == Count(h)
           x == Times(n, t)
           y == Times(n, Whole - t)
           lo == Percentile(h, t)
           hi == Percentile(h, Whole - t)
           j == Need(n, t)
           k == Need(n, Whole - t)
           w == Rest(h, Whole - t)
<1>1. /\ IsShare(t) /\ t < Middle /\ IsShare(Whole - t) /\ Whole - t >= Middle
      /\ t <= Whole - t
  BY SharesAre
<1>2. n \in Nat \ {0} /\ x \in Nat /\ y \in Nat /\ x + y = n * Whole BY <1>1, Complement
<1>3. j \in 1..n /\ (j - 1) * Whole <= x BY <1>1, NeedIs
<1>4. k \in 1..n /\ k * Whole >= y BY <1>1, NeedIs
<1>5. lo \in Buckets /\ Under(h, lo) < j BY <1>1, LowPercentile
<1>6. hi \in Buckets /\ Over(h, hi) < w /\ (w = 1 \/ w = n - k) BY <1>1, HighPercentile
<1>7. Under(h, lo) \in Nat /\ Over(h, hi) \in Nat BY <1>5, <1>6, Divide
<1>8. lo <= hi BY <1>1, PercentilesGrow
<1>9. h[lo] > 0 BY <1>1, PercentileIs
<1>10. Count(h) * t = x BY DEF Times
<1>11. /\ Kept(h, t) \in SUBSET Buckets /\ {lo} \in SUBSET Buckets
       /\ {lo} \subseteq Kept(h, t)
  <2>1. lo \in Nat BY <1>5, BucketsAre
  <2>2. lo \in {b \in Buckets : b >= lo /\ b <= hi} BY <1>5, <1>8, <2>1
  <2>. QED BY <1>5, <2>2 DEF Kept
<1>12. Samples(h, Kept(h, t)) \in Nat \ {0}
  <2>1. h[lo] \in Nat BY <1>5 DEF Histograms
  <2>2. Samples(h, {lo}) = h[lo] BY <2>1, SumSingle DEF Samples
  <2>3. Samples(h, {lo}) <= Samples(h, Kept(h, t)) BY <1>11, SamplesGrow
  <2>4. Samples(h, Kept(h, t)) \in Nat BY <1>11, SamplesType
  <2> HIDE DEF lo
  <2>. QED BY <1>9, <2>1, <2>2, <2>3, <2>4
<1> HIDE DEF n, x, y, lo, hi, j, k, w
<1>13. Under(h, lo) * Whole <= x BY <1>2, <1>3, <1>5, <1>7 DEF Whole
<1>14. Over(h, hi) * Whole <= x
  <2>1. CASE w = 1 BY <1>2, <1>6, <1>7, <2>1 DEF Whole
  <2>2. CASE w = n - k BY <1>2, <1>4, <1>6, <1>7, <2>2 DEF Whole
  <2>. QED BY <1>6, <2>1, <2>2
<1>. QED BY <1>10, <1>11, <1>12, <1>13, <1>14 DEF lo, hi

(* A truncated mean ignores no more than its threshold at either end and has *)
(* data points left (metrics.rs 234-266).                                    *)
THEOREM TailsTruncated == Spec => []TruncatesTails
<1>1. MetricsInv => TruncatesTails
  <2> SUFFICES ASSUME MetricsInv, NEW i \in Used, NEW t \in Thresholds
               PROVE  LET h == Latency(i)
                          low == {b \in Buckets : b < Percentile(h, t)}
                          high == {b \in Buckets : b > Percentile(h, Whole - t)}
                      IN  /\ Samples(h, low) * Whole <= Count(h) * t
                          /\ Samples(h, high) * Whole <= Count(h) * t
                          /\ Samples(h, Kept(h, t)) > 0
    BY DEF TruncatesTails
  <2> DEFINE h == Latency(i)
  <2>1. h \in Histograms /\ Count(h) \in Nat \ {0} BY UsedIs
  <2> HIDE DEF h
  <2>2. /\ Under(h, Percentile(h, t)) * Whole <= Count(h) * t
        /\ Over(h, Percentile(h, Whole - t)) * Whole <= Count(h) * t
        /\ Samples(h, Kept(h, t)) \in Nat \ {0}
    BY <2>1, Tails
  <2>3. Samples(h, Kept(h, t)) > 0 BY <2>2
  <2>. QED BY <2>2, <2>3, Zenon DEF h, Under, Over
<1>. QED BY <1>1, MetricsInvariant, PTL

-----------------------------------------------------------------------------
\* Means and the standard deviation.

LEMMA ProductGrows ==
  ASSUME NEW a \in Nat, NEW b \in Nat, NEW c \in Nat, a <= b
  PROVE  a * c <= b * c /\ a * c \in Nat /\ b * c \in Nat
<1>1. PICK d \in Nat : b = a + d
  <2>1. b - a \in Nat /\ b = a + (b - a) OBVIOUS
  <2>. QED BY <2>1
<1>2. (a + d) * c = (a * c) + (d * c) OBVIOUS
<1>3. a * c \in Nat /\ d * c \in Nat OBVIOUS
<1> DEFINE x == a * c
           y == d * c
<1>4. b * c = x + y BY <1>1, <1>2
<1>5. x \in Nat /\ y \in Nat BY <1>3
<1>6. x <= x + y /\ x + y \in Nat
  <2> HIDE DEF x, y
  <2>. QED BY <1>5
<1>. QED BY <1>3, <1>4, <1>6

(* A quotient lies between the bounds of what is divided. *)
LEMMA QuotientBounds ==
  ASSUME NEW a \in Nat, NEW n \in Nat \ {0}, NEW m \in Nat, NEW u \in Nat,
         m * n <= a, a < (u + 1) * n
  PROVE  a \div n \in m..u
<1> DEFINE q == a \div n
<1>1. q \in Nat /\ a % n \in Nat /\ a % n < n /\ a = n * q + (a % n) BY DivMod
<1> HIDE DEF q
<1>2. n * q = q * n /\ q * n \in Nat BY <1>1
<1>3. q * n <= a /\ a < (q * n) + n BY <1>1, <1>2
<1>4. q <= u
  <2> SUFFICES ASSUME ~ (q <= u) PROVE FALSE
    OBVIOUS
  <2>1. u + 1 <= q /\ u + 1 \in Nat BY <1>1
  <2>2. (u + 1) * n <= q * n /\ (u + 1) * n \in Nat BY <1>1, <2>1, ProductGrows
  <2>. QED BY <1>2, <1>3, <2>2
<1>5. m <= q
  <2> SUFFICES ASSUME ~ (m <= q) PROVE FALSE
    OBVIOUS
  <2>1. q + 1 <= m /\ q + 1 \in Nat BY <1>1
  <2>2. (q + 1) * n <= m * n /\ (q + 1) * n \in Nat /\ m * n \in Nat BY <2>1, ProductGrows
  <2>3. (q + 1) * n = (q * n) + n BY <1>1
  <2>. QED BY <1>2, <1>3, <2>2, <2>3
<1>. QED BY <1>1, <1>4, <1>5 DEF q

(* The least and the greatest bucket that has samples. *)
LEMMA ExtremesAre ==
  ASSUME NEW h \in Histograms, Count(h) \in Nat \ {0}
  PROVE  /\ Minimum(h) \in Buckets /\ h[Minimum(h)] > 0
         /\ Maximum(h) \in Buckets /\ h[Maximum(h)] > 0
         /\ \A b \in Buckets : h[b] > 0 => Minimum(h) <= b /\ b <= Maximum(h)
<1> DEFINE P == {b \in Buckets : h[b] > 0}
<1>1. P \in SUBSET Buckets OBVIOUS
<1>2. P \in SUBSET Nat /\ IsFiniteSet(P) BY <1>1, BucketsAre, FS_Subset
<1>3. P # {}
  <2> SUFFICES ASSUME P = {} PROVE FALSE
    OBVIOUS
  <2>1. \A b \in Buckets : h[b] \in Nat /\ ~ (h[b] > 0) BY DEF Histograms
  <2>2. \A b \in Buckets : h[b] = 0 BY <2>1
  <2>3. SumOver(h, Buckets) = 0 BY <2>2, BucketsAre, SumZero
  <2>. QED BY <2>3 DEF Count, Samples
<1>4. Minimum(h) = Min(P) /\ Maximum(h) = Max(P) BY DEF Minimum, Maximum
<1>5. Min(P) \in P /\ \A b \in P : Min(P) <= b BY <1>2, <1>3, LeastOf
<1>6. Max(P) \in P /\ \A b \in P : Max(P) >= b BY <1>2, <1>3, GreatestOf
<1>7. Max(P) \in Nat /\ \A b \in P : b \in Nat BY <1>2, <1>6
<1>. QED BY <1>4, <1>5, <1>6, <1>7

(* The weight of a part of the buckets lies between its samples, each at the *)
(* least and at the greatest of the buckets that have some.                  *)
LEMMA WeightBounds ==
  ASSUME NEW h \in Histograms, NEW S \in SUBSET Buckets, NEW m \in Nat, NEW u \in Nat,
         \A b \in S : h[b] > 0 => m <= b /\ b <= u
  PROVE  /\ Weight(h, S) \in Nat /\ Samples(h, S) \in Nat
         /\ m * Samples(h, S) <= Weight(h, S) /\ Weight(h, S) <= u * Samples(h, S)
<1> DEFINE f == [b \in S |-> b * h[b]]
           low == [b \in S |-> m * h[b]]
           high == [b \in S |-> u * h[b]]
<1>1. Summable(h, S) /\ IsFiniteSet(S) BY SamplesType
<1>2. \A b \in S : b \in Nat /\ h[b] \in Nat BY BucketsAre DEF Histograms
<1>3. ASSUME NEW b \in S
      PROVE  /\ b * h[b] \in Nat
             /\ m * h[b] <= b * h[b] /\ b * h[b] <= u * h[b]
  <2>1. PICK c \in Nat : c = h[b] BY <1>2
  <2>2. b \in Nat BY <1>2
  <2>3. CASE c = 0
    <3>1. m * 0 = 0 /\ b * 0 = 0 /\ u * 0 = 0 BY <2>2
    <3>. QED BY <2>1, <2>3, <3>1
  <2>4. CASE c # 0
    <3>1. m <= b /\ b <= u BY <2>1, <2>4
    <3>2. m * c <= b * c /\ b * c \in Nat BY <2>2, <3>1, ProductGrows
    <3>3. b * c <= u * c BY <2>2, <3>1, ProductGrows
    <3>. QED BY <2>1, <3>2, <3>3
  <2>. QED BY <2>3, <2>4
<1>4. Summable(low, S) /\ SumOver(low, S) = m * SumOver(h, S)
  <2>1. \A b \in S : low[b] = m * h[b] OBVIOUS
  <2> HIDE DEF low
  <2>. QED BY <1>1, <2>1, SumTimes
<1>5. Summable(high, S) /\ SumOver(high, S) = u * SumOver(h, S)
  <2>1. \A b \in S : high[b] = u * h[b] OBVIOUS
  <2> HIDE DEF high
  <2>. QED BY <1>1, <2>1, SumTimes
<1>6. \A b \in S : low[b] <= f[b] /\ f[b] <= high[b] BY <1>3
<1>7. Summable(f, S)
  <2>1. \A b \in S : f[b] \in Nat BY <1>3
  <2>. QED BY <1>1, <2>1 DEF Summable
<1>8. Weight(h, S) = SumOver(f, S) /\ Samples(h, S) = SumOver(h, S) BY DEF Weight, Samples
<1> HIDE DEF f, low, high
<1>9. SumOver(low, S) <= SumOver(f, S) BY <1>4, <1>6, <1>7, SumGrows
<1>10. SumOver(f, S) <= SumOver(high, S) BY <1>5, <1>6, <1>7, SumGrows
<1>11. SumOver(f, S) \in Nat /\ SumOver(h, S) \in Nat BY <1>1, <1>7, SlotsFinite
<1>. QED BY <1>4, <1>5, <1>8, <1>9, <1>10, <1>11

(* A mean over buckets that have samples lies between the extremes. *)
LEMMA MeansBetween ==
  ASSUME NEW h \in Histograms, Count(h) \in Nat \ {0}
  PROVE  /\ Mean(h) \in Minimum(h)..Maximum(h)
         /\ \A t \in Thresholds : TruncatedMean(h, t) \in Minimum(h)..Maximum(h)
<1> DEFINE m == Minimum(h)
           u == Maximum(h)
           n == Count(h)
           w == Weight(h, Buckets)
<1>1. /\ m \in Nat /\ u \in Nat /\ \A b \in Buckets : h[b] > 0 => m <= b /\ b <= u
  BY ExtremesAre, BucketsAre
<1>2. Mean(h) \in m..u
  <2>1. w \in Nat /\ m * Samples(h, Buckets) <= w /\ w <= u * Samples(h, Buckets)
    <3> HIDE DEF m, u
    <3>. QED BY <1>1, WeightBounds
  <2>2. n = Samples(h, Buckets) BY DEF Count
  <2>3. Mean(h) = (w + n - 1) \div n BY DEF Mean, Ceil
  <2> HIDE DEF m, u, n, w
  <2>4. n \in Nat \ {0} BY DEF n
  <2>5. m * n <= w /\ w <= u * n BY <2>1, <2>2
  <2>6. m * n \in Nat /\ u * n \in Nat /\ (u + 1) * n = (u * n) + n BY <1>1, <2>4
  <2>7. w + n - 1 \in Nat /\ m * n <= w + n - 1 /\ w + n - 1 < (u + 1) * n
    BY <2>1, <2>4, <2>5, <2>6
  <2>. QED BY <1>1, <2>3, <2>4, <2>7, QuotientBounds
<1>3. ASSUME NEW t \in Thresholds PROVE TruncatedMean(h, t) \in m..u
  <2> DEFINE K == Kept(h, t)
             a == Weight(h, K)
             s == Samples(h, K)
  <2>1. K \in SUBSET Buckets /\ s \in Nat \ {0} BY Tails
  <2>2. a \in Nat /\ m * s <= a /\ a <= u * s
    <3>1. \A b \in K : h[b] > 0 => m <= b /\ b <= u BY <1>1, <2>1
    <3> HIDE DEF m, u, K
    <3>. QED BY <1>1, <2>1, <3>1, WeightBounds
  <2>3. TruncatedMean(h, t) = a \div s BY DEF TruncatedMean
  <2> HIDE DEF m, u, K, a, s
  <2>4. u * s \in Nat /\ (u + 1) * s = (u * s) + s BY <1>1, <2>1
  <2>5. a < (u + 1) * s BY <2>1, <2>2, <2>4
  <2>. QED BY <1>1, <2>1, <2>2, <2>3, <2>5, QuotientBounds
<1>. QED BY <1>2, <1>3

(* Squares. *)
LEMMA SquareGrows ==
  ASSUME NEW a \in Nat, NEW b \in Nat, a < b
  PROVE  Square(a) < Square(b)
<1>1. PICK d \in Nat \ {0} : b = a + d
  <2>1. b - a \in Nat \ {0} /\ b = a + (b - a) OBVIOUS
  <2>. QED BY <2>1
<1>2. (a + d) * (a + d) = (a * a) + (2 * (a * d)) + (d * d) OBVIOUS
<1>3. a * a \in Nat /\ a * d \in Nat /\ d * d \in Nat /\ d * d > 0
  <2>1. a * a \in Nat /\ a * d \in Nat /\ d * d \in Nat OBVIOUS
  <2>2. 1 * d <= d * d BY ProductGrows
  <2>. QED BY <2>1, <2>2
<1> DEFINE x == a * a
           y == a * d
           z == d * d
<1>4. x \in Nat /\ y \in Nat /\ z \in Nat /\ z > 0 BY <1>3
<1>5. b * b = x + (2 * y) + z BY <1>1, <1>2
<1>6. Square(a) = x /\ Square(b) = x + (2 * y) + z BY <1>5 DEF Square
<1> HIDE DEF x, y, z
<1>. QED BY <1>4, <1>6

(* Of a sample between m and u, the square is under the line that joins the   *)
(* squares of m and u.                                                       *)
LEMMA UnderTheLine ==
  ASSUME NEW b \in Nat, NEW m \in Nat, NEW u \in Nat, NEW c \in Nat,
         c # 0 => m <= b /\ b <= u
  PROVE  (Square(b) * c) + ((m * u) * c) <= (m + u) * (b * c)
<1>1. CASE c = 0
  <2>1. Square(b) \in Nat /\ m * u \in Nat BY DEF Square
  <2>2. Square(b) * 0 = 0 /\ (m * u) * 0 = 0 /\ b * 0 = 0 /\ (m + u) * 0 = 0 BY <2>1
  <2>. QED BY <1>1, <2>2
<1>2. CASE c # 0
  <2>1. PICK d \in Nat : b = m + d
    <3>1. b - m \in Nat /\ b = m + (b - m) BY <1>2
    <3>. QED BY <3>1
  <2>2. PICK e \in Nat : u = b + e
    <3>1. u - b \in Nat /\ u = b + (u - b) BY <1>2
    <3>. QED BY <3>1
  <2>3. u = m + d + e BY <2>1, <2>2
  <2>4. ((m + d) * (m + d)) + (m * (m + d + e)) + (d * e) = (m + (m + d + e)) * (m + d)
    OBVIOUS
  <2>5. Square(b) + (m * u) + (d * e) = (m + u) * b BY <2>1, <2>3, <2>4 DEF Square
  <2> DEFINE x == Square(b)
             y == m * u
             z == d * e
  <2>6. x \in Nat /\ y \in Nat /\ z \in Nat /\ m + u \in Nat BY DEF Square
  <2>7. (m + u) * (b * c) = (x + y + z) * c
    <3>1. (m + u) * (b * c) = ((m + u) * b) * c OBVIOUS
    <3>. QED BY <2>5, <3>1
  <2> HIDE DEF x, y, z
  <2>8. (x + y + z) * c = (x * c) + (y * c) + (z * c) BY <2>6
  <2>9. x * c \in Nat /\ y * c \in Nat /\ z * c \in Nat BY <2>6
  <2>10. (x * c) + (y * c) <= (m + u) * (b * c) BY <2>7, <2>8, <2>9
  <2>. QED BY <2>10 DEF x, y
<1>. QED BY <1>1, <1>2

(* Four times a product is at most the square of the sum. *)
LEMMA ProductOfParts ==
  ASSUME NEW x \in Nat, NEW y \in Nat
  PROVE  4 * (x * y) <= Square(x + y)
<1>1. Square(x + y) - (4 * (x * y)) = (x - y) * (x - y) BY DEF Square
<1>2. (x - y) * (x - y) >= 0
  <2>1. CASE x >= y
    <3>1. x - y \in Nat BY <2>1
    <3>2. \A a \in Nat : a * a \in Nat OBVIOUS
    <3>. QED BY <3>1, <3>2
  <2>2. CASE ~ (x >= y)
    <3>1. y - x \in Nat /\ (x - y) * (x - y) = (y - x) * (y - x) BY <2>2
    <3>2. \A a \in Nat : a * a \in Nat OBVIOUS
    <3>. QED BY <3>1, <3>2
  <2>. QED BY <2>1, <2>2
<1>3. Square(x + y) \in Nat /\ x * y \in Nat BY DEF Square
<1>. QED BY <1>1, <1>2, <1>3

(* The inequality of Popoviciu: the variance of samples between m and u is at *)
(* most a quarter of the square of their distance.                            *)
LEMMA VarianceBound ==
  ASSUME NEW n \in Nat, NEW q \in Nat, NEW w \in Nat, NEW m \in Nat, NEW u \in Nat,
         m <= u, m * n <= w, w <= u * n, q + ((m * u) * n) <= (m + u) * w
  PROVE  4 * ((n * q) - Square(w)) <= Square(n * (u - m))
<1> DEFINE a == m * n
           b == u * n
           x == w - a
           y == b - w
<1>1. a \in Nat /\ b \in Nat /\ x \in Nat /\ y \in Nat OBVIOUS
<1>2. x + y = n * (u - m)
  <2>1. n * (u - m) = (u * n) - (m * n) OBVIOUS
  <2>. QED BY <1>1, <2>1
<1>3. n * q + (a * b) <= (a + b) * w
  <2>1. m * u \in Nat /\ (m * u) * n \in Nat /\ (m + u) * w \in Nat OBVIOUS
  <2> DEFINE l == q + ((m * u) * n)
             r == (m + u) * w
  <2>2. l \in Nat /\ r \in Nat /\ l <= r BY <2>1
  <2>3. l * n <= r * n
    <3> HIDE DEF l, r
    <3>. QED BY <2>2, ProductGrows
  <2>4. l * n = (n * q) + (a * b)
    <3>1. (q + ((m * u) * n)) * n = (q * n) + (((m * u) * n) * n) BY <2>1
    <3>2. ((m * u) * n) * n = (m * n) * (u * n) OBVIOUS
    <3>3. q * n = n * q OBVIOUS
    <3>. QED BY <3>1, <3>2, <3>3
  <2>5. r * n = (a + b) * w OBVIOUS
  <2>. QED BY <2>3, <2>4, <2>5
<1>4. ((a + b) * w) - (a * b) - Square(w) = x * y
  <2> HIDE DEF a, b
  <2>. QED BY <1>1 DEF Square
<1>5. 4 * (x * y) <= Square(x + y)
  <2> HIDE DEF x, y
  <2>. QED BY <1>1, ProductOfParts
<1>6. (n * q) - Square(w) <= x * y
  <2> HIDE DEF x, y
  <2>1. n * q \in Nat /\ a * b \in Nat /\ (a + b) * w \in Nat /\ Square(w) \in Nat /\ x * y \in Nat
    BY <1>1 DEF Square
  <2> HIDE DEF a, b
  <2>. QED BY <1>3, <1>4, <2>1
<1>7. /\ n * q \in Nat /\ Square(w) \in Nat /\ x * y \in Nat /\ Square(x + y) \in Nat
      /\ Square(n * (u - m)) = Square(x + y)
  BY <1>1, <1>2 DEF Square
<1> HIDE DEF x, y
<1>. QED BY <1>5, <1>6, <1>7

(* The squares of the samples, in the sum, are under the line too. *)
LEMMA SquaresBound ==
  ASSUME NEW h \in Histograms, NEW m \in Nat, NEW u \in Nat,
         \A b \in Buckets : h[b] > 0 => m <= b /\ b <= u
  PROVE  LET q == SumOver([b \in Buckets |-> Square(b) * h[b]], Buckets)
         IN  /\ q \in Nat
             /\ q + ((m * u) * Count(h)) <= (m + u) * Weight(h, Buckets)
<1> DEFINE f == [b \in Buckets |-> Square(b) * h[b]]
           g == [b \in Buckets |-> (m * u) * h[b]]
           k == [b \in Buckets |-> f[b] + g[b]]
           p == [b \in Buckets |-> b * h[b]]
           r == [b \in Buckets |-> (m + u) * p[b]]
<1>1. Summable(h, Buckets) /\ IsFiniteSet(Buckets) BY SamplesType
<1>2. \A b \in Buckets : b \in Nat /\ h[b] \in Nat BY BucketsAre DEF Histograms
<1>3. m * u \in Nat /\ m + u \in Nat OBVIOUS
<1>4. ASSUME NEW b \in Buckets
      PROVE  f[b] \in Nat /\ g[b] \in Nat /\ p[b] \in Nat /\ k[b] <= r[b]
  <2>1. PICK c \in Nat : c = h[b] BY <1>2
  <2>2. b \in Nat BY <1>2
  <2>3. c # 0 => m <= b /\ b <= u BY <2>1
  <2>4. (Square(b) * c) + ((m * u) * c) <= (m + u) * (b * c) BY <2>2, <2>3, UnderTheLine
  <2>5. Square(b) \in Nat /\ Square(b) * c \in Nat /\ (m * u) * c \in Nat /\ b * c \in Nat
    <3>1. Square(b) \in Nat BY <2>2 DEF Square
    <3>. QED BY <1>3, <2>2, <3>1
  <2>6. f[b] = Square(b) * c /\ g[b] = (m * u) * c /\ p[b] = b * c BY <2>1
  <2>7. k[b] = f[b] + g[b] /\ r[b] = (m + u) * p[b] OBVIOUS
  <2> HIDE DEF f, g, k, p, r
  <2>. QED BY <2>4, <2>5, <2>6, <2>7
<1>5. Summable(f, Buckets) /\ Summable(p, Buckets)
  <2>1. \A b \in Buckets : f[b] \in Nat /\ p[b] \in Nat BY <1>4
  <2> HIDE DEF f, p
  <2>. QED BY <1>1, <2>1 DEF Summable
<1>6. Summable(g, Buckets) /\ SumOver(g, Buckets) = (m * u) * SumOver(h, Buckets)
  <2>1. \A b \in Buckets : g[b] = (m * u) * h[b] OBVIOUS
  <2> HIDE DEF g
  <2>. QED BY <1>1, <1>3, <2>1, SumTimes
<1>7. Summable(k, Buckets) /\ SumOver(k, Buckets) = SumOver(f, Buckets) + SumOver(g, Buckets)
  <2>1. \A b \in Buckets : k[b] = f[b] + g[b] OBVIOUS
  <2>2. Summable(f, Buckets) /\ Summable(g, Buckets) BY <1>5, <1>6
  <2> HIDE DEF f, g, k, p, r
  <2>. QED BY <2>1, <2>2, SumPlus
<1>8. Summable(r, Buckets) /\ SumOver(r, Buckets) = (m + u) * SumOver(p, Buckets)
  <2>1. \A b \in Buckets : r[b] = (m + u) * p[b] OBVIOUS
  <2> HIDE DEF p, r
  <2>. QED BY <1>3, <1>5, <2>1, SumTimes
<1>9. SumOver(k, Buckets) <= SumOver(r, Buckets)
  <2>1. \A b \in Buckets : k[b] <= r[b] BY <1>4
  <2> HIDE DEF k, r
  <2>. QED BY <1>7, <1>8, <2>1, SumGrows
<1>10. SumOver(f, Buckets) \in Nat
  <2> HIDE DEF f
  <2>. QED BY <1>5, SlotsFinite
<1>11. /\ Count(h) = SumOver(h, Buckets) /\ Weight(h, Buckets) = SumOver(p, Buckets)
  BY DEF Count, Samples, Weight
<1>12. SumOver(f, Buckets) + ((m * u) * Count(h)) <= (m + u) * Weight(h, Buckets)
  <2> HIDE DEF f, g, k, p, r
  <2>. QED BY <1>6, <1>7, <1>8, <1>9, <1>11
<1>. QED BY <1>10, <1>12

(* The standard deviation is at most half of the range, rounded up. *)
LEMMA DeviationBound ==
  ASSUME NEW h \in Histograms, Count(h) \in Nat \ {0}
  PROVE  2 * StdDev(h) <= Maximum(h) - Minimum(h) + 1
<1> DEFINE m == Minimum(h)
           u == Maximum(h)
           n == Count(h)
           w == Weight(h, Buckets)
           q == SumOver([b \in Buckets |-> Square(b) * h[b]], Buckets)
           v == (n * q) - Square(w)
           S == {s \in 1..u : Square((2 * s - 1) * n) <= 4 * v}
<1>1. /\ m \in Nat /\ u \in Nat /\ m <= u /\ \A b \in Buckets : h[b] > 0 => m <= b /\ b <= u
  BY ExtremesAre, BucketsAre
<1>2. w \in Nat /\ m * n <= w /\ w <= u * n
  <2>1. n = Samples(h, Buckets) BY DEF Count
  <2> HIDE DEF m, u, n
  <2>. QED BY <1>1, <2>1, WeightBounds
<1>3. q \in Nat /\ q + ((m * u) * n) <= (m + u) * w
  <2> HIDE DEF m, u
  <2>. QED BY <1>1, SquaresBound
<1>4. n \in Nat \ {0} OBVIOUS
<1>5. StdDev(h) = Max({0} \cup S) BY DEF StdDev
<1> HIDE DEF m, u, n, w, q
<1>6. 4 * v <= Square(n * (u - m)) BY <1>1, <1>2, <1>3, <1>4, VarianceBound
<1> HIDE DEF v
<1>7. Max({0} \cup S) \in {0} \cup S
  <2>1. {0} \cup S \in SUBSET (0..u) BY <1>1
  <2>2. {0} \cup S \in SUBSET Nat BY <1>1, <2>1
  <2>3. IsFiniteSet(0..u) BY <1>1, FS_Interval
  <2>4. IsFiniteSet({0} \cup S) BY <2>1, <2>3, FS_Subset
  <2> HIDE DEF S
  <2>. QED BY <2>2, <2>4, GreatestOf
<1>8. ASSUME NEW s \in S PROVE 2 * s - 1 <= u - m
  <2>1. s \in Nat \ {0} /\ Square((2 * s - 1) * n) <= 4 * v BY <1>1
  <2> DEFINE e == 2 * s - 1
             d == u - m
  <2>2. e \in Nat /\ d \in Nat BY <1>1, <2>1
  <2>3. e * n \in Nat /\ d * n \in Nat /\ n * d = d * n BY <1>4, <2>2
  <2>4. Square(e * n) \in Nat /\ Square(d * n) \in Nat BY <2>3 DEF Square
  <2>5. Square(e * n) <= 4 * v /\ 4 * v <= Square(d * n) BY <1>6, <2>1, <2>3
  <2> HIDE DEF e, d
  <2>6. e <= d
    <3> SUFFICES ASSUME ~ (e <= d) PROVE FALSE
      OBVIOUS
    <3>1. d + 1 \in Nat /\ d + 1 <= e BY <2>2
    <3>2. (d + 1) * n <= e * n BY <1>4, <2>2, <3>1, ProductGrows
    <3>3. (d + 1) * n = (d * n) + n BY <1>4, <2>2
    <3>4. d * n < e * n BY <1>4, <2>3, <3>2, <3>3
    <3>5. Square(d * n) < Square(e * n) BY <2>3, <3>4, SquareGrows
    <3>6. v \in Int
      <4>1. n * q \in Int /\ Square(w) \in Int BY <1>2, <1>3, <1>4 DEF Square
      <4>. QED BY <4>1 DEF v
    <3>. QED BY <2>4, <2>5, <3>5, <3>6
  <2>. QED BY <2>6 DEF e, d
<1>9. CASE Max({0} \cup S) = 0
  <2>1. 2 * 0 <= u - m + 1 BY <1>1
  <2>. QED BY <1>5, <1>9, <2>1 DEF u, m
<1>10. CASE Max({0} \cup S) \in S
  <2>1. PICK s \in S : s = Max({0} \cup S) BY <1>10
  <2>2. 2 * s - 1 <= u - m BY <1>8
  <2>3. s \in Nat BY <1>1
  <2>4. 2 * s <= u - m + 1 BY <1>1, <2>2, <2>3
  <2>. QED BY <1>5, <2>1, <2>4 DEF u, m
<1>. QED BY <1>7, <1>9, <1>10

(* The reported latencies are in order, the means lie between the extremes    *)
(* and the standard deviation is at most half of their distance              *)
(* (metrics.rs 282-330).                                                     *)
THEOREM SummariesOrdered == Spec => []SummaryOrdered
<1>1. MetricsInv => SummaryOrdered
  <2> SUFFICES ASSUME MetricsInv, NEW i \in Used
               PROVE  LET h == Latency(i)
                      IN  /\ \A k \in 1..(Len(Percentiles) - 1) :
                               Percentile(h, Percentiles[k]) <= Percentile(h, Percentiles[k + 1])
                          /\ Percentile(h, 9999) <= Maximum(h)
                          /\ Mean(h) \in Minimum(h)..Maximum(h)
                          /\ 2 * StdDev(h) <= Maximum(h) - Minimum(h) + 1
                          /\ \A t \in Thresholds : TruncatedMean(h, t) \in Minimum(h)..Maximum(h)
    BY DEF SummaryOrdered
  <2> DEFINE h == Latency(i)
  <2>1. h \in Histograms /\ Count(h) \in Nat \ {0} BY UsedIs
  <2> HIDE DEF h
  <2>2. ASSUME NEW k \in 1..(Len(Percentiles) - 1)
        PROVE  Percentile(h, Percentiles[k]) <= Percentile(h, Percentiles[k + 1])
    <3>1. Percentiles \in Seq(1..Whole) /\ Percentiles[k] <= Percentiles[k + 1]
      BY MetricsAssumption
    <3>2. Len(Percentiles) \in Nat /\ DOMAIN Percentiles = 1..Len(Percentiles)
      BY <3>1, SequenceIs
    <3>3. k \in DOMAIN Percentiles /\ k + 1 \in DOMAIN Percentiles BY <3>2
    <3>4. IsShare(Percentiles[k]) /\ IsShare(Percentiles[k + 1]) BY <3>3, SharesAre
    <3>. QED BY <2>1, <3>1, <3>4, PercentilesGrow
  <2>3. Percentile(h, 9999) <= Maximum(h)
    <3>1. IsShare(9999) BY DEF IsShare, Whole
    <3>2. Percentile(h, 9999) \in Buckets /\ h[Percentile(h, 9999)] > 0
      BY <2>1, <3>1, PercentileIs
    <3>. QED BY <2>1, <3>2, ExtremesAre
  <2>. QED BY <2>1, <2>2, <2>3, MeansBetween, DeviationBound DEF h
<1>. QED BY <1>1, MetricsInvariant, PTL

-----------------------------------------------------------------------------
\* The two reports.

(* Every sample is observed at the bound it came from. *)
LEMMA ObservedIs ==
  ASSUME NEW h \in Histograms, NEW u \in Bounds(h)
  PROVE  Observed(h)[u] = h[u]
<1>1. Bounds(h) \in SUBSET Buckets /\ u \in Buckets BY DEF Bounds
<1>2. \A b \in Bounds(h) : b \in Nat BY <1>1, BucketsAre
<1>3. ASSUME NEW b \in Bounds(h)
      PROVE  BoundsFor(h, b) # {} /\ Min(BoundsFor(h, b)) = b
  <2>1. \A c \in BoundsFor(h, b) : c \in Nat /\ b <= c BY <1>2 DEF BoundsFor
  <2>2. b >= b BY <1>2
  <2>3. b \in BoundsFor(h, b) BY <2>2 DEF BoundsFor
  <2>4. BoundsFor(h, b) \in SUBSET Nat BY <2>1
  <2>5. Min(BoundsFor(h, b)) \in BoundsFor(h, b) /\ Min(BoundsFor(h, b)) <= b
    BY <2>3, <2>4, LeastOf
  <2>. QED BY <1>2, <2>1, <2>3, <2>5
<1>4. {b \in Bounds(h) : BoundsFor(h, b) # {} /\ Min(BoundsFor(h, b)) = u} = {u} BY <1>3
<1>5. Observed(h)[u] = Samples(h, {u}) BY <1>4 DEF Observed
<1>6. h[u] \in Nat BY <1>1 DEF Histograms
<1>. QED BY <1>5, <1>6, SumSingle DEF Samples

(* So the series of a histogram at a bound are the samples up to it. *)
LEMMA CumulativeIs ==
  ASSUME NEW h \in Histograms, NEW u \in Bounds(h)
  PROVE  Cumulative(h)[u] = AtMost(h, u)
<1> DEFINE L == {v \in Bounds(h) : v <= u}
           Z == {c \in Buckets : c <= u /\ ~ (h[c] > 0)}
<1>1. L \in SUBSET Buckets /\ Z \in SUBSET Buckets /\ L \cap Z = {} BY DEF Bounds
<1>2. L \cup Z = {c \in Buckets : c <= u} BY DEF Bounds
<1>3. Cumulative(h)[u] = SumOver(Observed(h), L) BY DEF Cumulative
<1>4. \A v \in L : Observed(h)[v] = h[v] BY ObservedIs
<1>5. SumOver(h, Z) = 0
  <2>1. \A c \in Z : h[c] \in Nat /\ ~ (h[c] > 0) BY DEF Histograms
  <2>2. \A c \in Z : h[c] = 0 BY <2>1
  <2>3. IsFiniteSet(Z) BY <1>1, SamplesType
  <2> HIDE DEF Z
  <2>. QED BY <2>2, <2>3, SumZero
<1> HIDE DEF L, Z
<1>6. SumOver(Observed(h), L) = SumOver(h, L) BY <1>4, SumAgree
<1>7. Samples(h, L \cup Z) = Samples(h, L) + Samples(h, Z) BY <1>1, SamplesSplit
<1>8. Samples(h, L) \in Nat BY <1>1, SamplesType
<1>. QED BY <1>2, <1>3, <1>5, <1>6, <1>7, <1>8 DEF AtMost, Samples

(* All samples are up to the greatest bucket that has some. *)
LEMMA SeriesEnd ==
  ASSUME NEW h \in Histograms, Count(h) \in Nat \ {0}
  PROVE  /\ Maximum(h) \in Bounds(h)
         /\ Cumulative(h)[Maximum(h)] = Count(h)
<1> DEFINE u == Maximum(h)
           O == {c \in Buckets : c > u}
<1>1. u \in Buckets /\ h[u] > 0 /\ \A b \in Buckets : h[b] > 0 => b <= u BY ExtremesAre
<1>2. u \in Bounds(h) BY <1>1 DEF Bounds
<1>3. SumOver(h, O) = 0
  <2>1. u \in Nat /\ \A c \in O : c \in Nat /\ c > u BY <1>1, BucketsAre
  <2>2. \A c \in O : ~ (h[c] > 0) BY <1>1, <2>1
  <2>3. \A c \in O : h[c] \in Nat BY DEF Histograms
  <2>4. \A c \in O : h[c] = 0 BY <2>2, <2>3
  <2>5. O \in SUBSET Buckets OBVIOUS
  <2>6. IsFiniteSet(O) BY <2>5, SamplesType
  <2> HIDE DEF O
  <2>. QED BY <2>4, <2>6, SumZero
<1>4. Over(h, u) = 0 BY <1>3 DEF Over, Samples
<1> HIDE DEF u, O
<1>5. AtMost(h, u) = Count(h) BY <1>1, <1>4, Divide
<1>6. Cumulative(h)[u] = AtMost(h, u) BY <1>2, CumulativeIs
<1>. QED BY <1>2, <1>5, <1>6 DEF u

(* An empty histogram has no bounds. *)
LEMMA NoBounds ==
  ASSUME NEW h \in Histograms
  PROVE  Count(h) = 0 <=> Bounds(h) = {}
<1>1. ASSUME Count(h) = 0, NEW b \in Bounds(h) PROVE FALSE
  <2>1. b \in Buckets /\ h[b] > 0 BY DEF Bounds
  <2>. QED BY <1>1, <2>1, Divide
<1>2. ASSUME Bounds(h) = {} PROVE Count(h) = 0
  <2>1. \A b \in Buckets : h[b] \in Nat /\ ~ (h[b] > 0) BY <1>2 DEF Bounds, Histograms
  <2>2. \A b \in Buckets : h[b] = 0 BY <2>1
  <2>3. SumOver(h, Buckets) = 0 BY <2>2, BucketsAre, SumZero
  <2>. QED BY <2>3 DEF Count, Samples
<1>. QED BY <1>1, <1>2

(* The share of successes is one of percent, and all of them if no request    *)
(* failed.                                                                   *)
LEMMA RateIs ==
  ASSUME NEW n \in Nat \ {0}, NEW s \in Nat, s <= n
  PROVE  /\ (s * 100) \div n \in 0..100
         /\ (s * 100) \div n = 100 <=> s = n
<1> DEFINE q == (s * 100) \div n
<1>1. s * 100 \in Nat OBVIOUS
<1>2. 0 * n <= s * 100 /\ s * 100 < (100 + 1) * n
  <2>1. 0 * n = 0 /\ (100 + 1) * n = 101 * n OBVIOUS
  <2>. QED BY <2>1
<1>3. q \in 0..100 BY <1>1, <1>2, QuotientBounds
<1>4. ASSUME s # n PROVE q # 100
  <2>1. s * 100 < (99 + 1) * n BY <1>4
  <2>2. q \in 0..99 BY <1>1, <1>2, <2>1, QuotientBounds
  <2>. QED BY <2>2
<1>5. ASSUME s = n PROVE q = 100
  <2>1. 100 * n <= s * 100 BY <1>5
  <2>2. q \in 100..100 BY <1>1, <1>2, <2>1, QuotientBounds
  <2>. QED BY <2>2
<1>. QED BY <1>3, <1>4, <1>5

LEMMA SeriesAre ==
  ASSUME NEW h \in Histograms
  PROVE  /\ HistogramSeries(h).le = Cumulative(h) /\ DOMAIN HistogramSeries(h).le = Bounds(h)
         /\ HistogramSeries(h).max = IF Count(h) = 0 THEN 0 ELSE Maximum(h)
         /\ HistogramSeries(h).min = IF Count(h) = 0 THEN 0 ELSE Minimum(h)
         /\ HistogramSeries(h).mean = IF Count(h) = 0 THEN 0 ELSE Mean(h)
         /\ HistogramSeries(h).stddev = IF Count(h) = 0 THEN 0 ELSE StdDev(h)
         /\ HistogramSeries(h).quantiles
              = [k \in DOMAIN Percentiles |->
                   IF Count(h) = 0 THEN 0 ELSE Percentile(h, Percentiles[k])]
         /\ HistogramSeries(h).truncated
              = [t \in Thresholds |-> IF Count(h) = 0 THEN 0 ELSE TruncatedMean(h, t)]
BY DEF HistogramSeries, Cumulative

(* The gateway is told of an item what the console prints. *)
LEMMA ReportsSame ==
  ASSUME NEW i, Latency(i) \in Histograms, Count(Latency(i)) \in Nat \ {0}
  PROVE  \A f \in DOMAIN LatencySummary(i) :
           HistogramSeries(Latency(i))[f] = LatencySummary(i)[f]
<1> DEFINE h == Latency(i)
           s == HistogramSeries(h)
           l == LatencySummary(i)
<1>1. Count(h) # 0 OBVIOUS
<1>2. /\ s.min = Minimum(h) /\ s.max = Maximum(h) /\ s.mean = Mean(h) /\ s.stddev = StdDev(h)
      /\ s.quantiles = [k \in DOMAIN Percentiles |-> Percentile(h, Percentiles[k])]
      /\ s.truncated = [t \in Thresholds |-> TruncatedMean(h, t)]
  BY <1>1, SeriesAre
<1>3. l = [min |-> Minimum(h), max |-> Maximum(h), mean |-> Mean(h),
           quantiles |-> [k \in DOMAIN Percentiles |-> Percentile(h, Percentiles[k])],
           stddev |-> StdDev(h),
           truncated |-> [t \in Thresholds |-> TruncatedMean(h, t)]]
  BY DEF LatencySummary
<1>4. /\ l.min = Minimum(h) /\ l.max = Maximum(h) /\ l.mean = Mean(h) /\ l.stddev = StdDev(h)
      /\ l.quantiles = [k \in DOMAIN Percentiles |-> Percentile(h, Percentiles[k])]
      /\ l.truncated = [t \in Thresholds |-> TruncatedMean(h, t)]
      /\ DOMAIN l = {"min", "max", "mean", "quantiles", "stddev", "truncated"}
  BY <1>3
<1>5. /\ s.min = l.min /\ s.max = l.max /\ s.mean = l.mean /\ s.stddev = l.stddev
      /\ s.quantiles = l.quantiles /\ s.truncated = l.truncated
  BY <1>2, <1>4
<1> HIDE DEF h, s, l
<1>6. \A f \in {"min", "max", "mean", "quantiles", "stddev", "truncated"} : s[f] = l[f]
  BY <1>5
<1>. QED BY <1>4, <1>6 DEF h, s, l

(* The series of an item agree with each other, with the samples and with     *)
(* what is printed (prometheus_reporter.rs 85-265, metrics.rs 282-330,        *)
(* 453-477).                                                                 *)
THEOREM SeriesAgreement == Spec => []SeriesAgree
<1>1. ASSUME MetricsInv, NEW i \in Used
      PROVE  LET r == Registry(i)
                 printed == ItemReport(i)
                 all == Latency(i)
             IN  /\ \A u \in Bounds(all) : r.latency.le[u] = AtMost(all, u)
                 /\ r.latency.le[r.latency.max] = r.request_count
                 /\ r.success_count > 0 =>
                      /\ r.success_latency.le[r.success_latency.max] = r.success_count
                      /\ r.throughput.le[r.throughput.max] = r.success_count
                 /\ \A k \in DOMAIN Percentiles : r.latency.quantiles[k] \in DOMAIN r.latency.le
                 /\ r.latency.min <= r.success_latency.min \/ r.success_count = 0
                 /\ r.error_latency.max <= r.latency.max
                 /\ \A f \in DOMAIN printed.latency : r.latency[f] = printed.latency[f]
                 /\ printed.success_rate \in 0..100
                 /\ printed.success_rate = 100 <=> DOMAIN r.error_latency.le = {}
  <2> DEFINE r == Registry(i)
             printed == ItemReport(i)
             all == Latency(i)
             ok == i.success_latency
             failed == i.error_latency
             n == i.total_requests
             s == i.successful_requests
  <2>1. /\ i \in Items /\ all \in Histograms /\ Count(all) \in Nat \ {0} BY <1>1, UsedIs
  <2>2. /\ ok \in Histograms /\ failed \in Histograms /\ i.throughput \in Histograms
        /\ n \in Nat /\ s \in Nat /\ Count(all) = n
        /\ Count(ok) = s /\ Count(i.throughput) = s /\ Count(ok) + Count(failed) = n
    BY <1>1, <2>1, ItemsAre DEF Booked
  <2>3. Count(failed) \in Nat /\ n \in Nat \ {0} /\ s <= n /\ (s = n <=> Count(failed) = 0)
    <3>1. Count(failed) \in Nat BY <2>2, CountType
    <3> HIDE DEF n, s, all, ok, failed
    <3>. QED BY <2>1, <2>2, <3>1
  <2>4. /\ r.request_count = n /\ r.success_count = s
        /\ r.latency = HistogramSeries(all) /\ r.success_latency = HistogramSeries(ok)
        /\ r.error_latency = HistogramSeries(failed)
        /\ r.throughput = HistogramSeries(i.throughput)
    BY DEF Registry
  <2>5. /\ printed.latency = LatencySummary(i)
        /\ printed.success_rate = IF n > 0 THEN (s * 100) \div n ELSE 0
    BY DEF ItemReport
  <2>6. \A b \in Buckets : all[b] = ok[b] + failed[b] /\ ok[b] \in Nat /\ failed[b] \in Nat
    BY <2>2, MergeIs DEF Latency, Histograms
  <2> HIDE DEF r, printed, all, ok, failed, n, s
  <2>7. /\ r.latency.le = Cumulative(all) /\ DOMAIN r.latency.le = Bounds(all)
        /\ r.latency.max = Maximum(all) /\ r.latency.min = Minimum(all)
        /\ r.latency.quantiles = [k \in DOMAIN Percentiles |-> Percentile(all, Percentiles[k])]
    <3>1. Count(all) # 0 BY <2>1
    <3>. QED BY <2>1, <2>4, <3>1, SeriesAre
  <2>8. \A u \in Bounds(all) : r.latency.le[u] = AtMost(all, u)
    BY <2>1, <2>7, CumulativeIs
  <2>9. r.latency.le[r.latency.max] = r.request_count
    BY <2>1, <2>2, <2>4, <2>7, SeriesEnd
  <2>10. ASSUME r.success_count > 0
         PROVE  /\ r.success_latency.le[r.success_latency.max] = r.success_count
                /\ r.throughput.le[r.throughput.max] = r.success_count
    <3>1. s \in Nat \ {0} /\ Count(ok) # 0 /\ Count(i.throughput) # 0 BY <2>2, <2>4, <2>10
    <3>2. r.success_latency.le = Cumulative(ok) /\ r.success_latency.max = Maximum(ok)
      BY <2>2, <2>4, <3>1, SeriesAre
    <3>3. r.throughput.le = Cumulative(i.throughput) /\ r.throughput.max = Maximum(i.throughput)
      BY <2>2, <2>4, <3>1, SeriesAre
    <3>. QED BY <2>2, <2>4, <3>1, <3>2, <3>3, SeriesEnd
  <2>11. ASSUME NEW k \in DOMAIN Percentiles
         PROVE  r.latency.quantiles[k] \in DOMAIN r.latency.le
    <3>1. IsShare(Percentiles[k]) BY SharesAre
    <3>2. r.latency.quantiles[k] = Percentile(all, Percentiles[k]) BY <2>7
    <3>3. Percentile(all, Percentiles[k]) \in Buckets /\ all[Percentile(all, Percentiles[k])] > 0
      BY <2>1, <3>1, PercentileIs
    <3>. QED BY <2>7, <3>2, <3>3 DEF Bounds
  <2>12. ASSUME r.success_count # 0 PROVE r.latency.min <= r.success_latency.min
    <3>1. Count(ok) \in Nat \ {0} BY <2>2, <2>4, <2>12
    <3>2. r.success_latency.min = Minimum(ok)
      <4>1. Count(ok) # 0 BY <3>1
      <4>. QED BY <2>2, <2>4, <4>1, SeriesAre
    <3>3. Minimum(ok) \in Buckets /\ ok[Minimum(ok)] > 0 BY <2>2, <3>1, ExtremesAre
    <3>4. all[Minimum(ok)] > 0 BY <2>6, <3>3
    <3>5. Minimum(all) <= Minimum(ok) BY <2>1, <3>3, <3>4, ExtremesAre
    <3>. QED BY <2>7, <3>2, <3>5
  <2>13. r.error_latency.max <= r.latency.max
    <3>1. Maximum(all) \in Nat BY <2>1, ExtremesAre, BucketsAre
    <3>2. CASE Count(failed) = 0
      <4>1. r.error_latency.max = 0 BY <2>2, <2>4, <3>2, SeriesAre
      <4>. QED BY <2>7, <3>1, <4>1
    <3>3. CASE Count(failed) # 0
      <4>1. Count(failed) \in Nat \ {0} BY <2>3, <3>3
      <4>2. r.error_latency.max = Maximum(failed) BY <2>2, <2>4, <3>3, SeriesAre
      <4>3. Maximum(failed) \in Buckets /\ failed[Maximum(failed)] > 0
        BY <2>2, <4>1, ExtremesAre
      <4>4. all[Maximum(failed)] > 0 BY <2>6, <4>3
      <4>5. Maximum(failed) <= Maximum(all) BY <2>1, <4>3, <4>4, ExtremesAre
      <4>. QED BY <2>7, <4>2, <4>5
    <3>. QED BY <3>2, <3>3
  <2>14. \A f \in DOMAIN printed.latency : r.latency[f] = printed.latency[f]
    BY <2>1, <2>4, <2>5, ReportsSame DEF all
  <2>15. printed.success_rate \in 0..100 /\ (printed.success_rate = 100 <=> s = n)
    <3>1. printed.success_rate = (s * 100) \div n BY <2>3, <2>5
    <3>. QED BY <2>2, <2>3, <3>1, RateIs
  <2>16. DOMAIN r.error_latency.le = {} <=> Count(failed) = 0
    BY <2>2, <2>4, SeriesAre, NoBounds
  <2>17. r.latency.min <= r.success_latency.min \/ r.success_count = 0 BY <2>12
  <2>18. printed.success_rate = 100 <=> DOMAIN r.error_latency.le = {}
    BY <2>3, <2>15, <2>16
  <2>. QED BY <2>8, <2>9, <2>10, <2>11, <2>13, <2>14, <2>15, <2>17, <2>18, Zenon
           DEF r, printed, all
<1>2. MetricsInv => SeriesAgree BY <1>1, Zenon DEF SeriesAgree
<1>. QED BY <1>2, MetricsInvariant, PTL

=============================================================================
