--------------------------- MODULE PacedRunProofs ---------------------------
(***************************************************************************)
(* Proofs about module PacedRun, for every rate, number of clients, burst  *)
(* factor, duration, timeout and granularity of the clock.                 *)
(***************************************************************************)
EXTENDS PacedRun, RateLimiterProofs

-----------------------------------------------------------------------------
\* The invariant.

Tasks == {"unborn"} \cup Running \cup Ended

Unborn == {"unborn", "build"}

Armed == IF At = "armed" THEN 1 ELSE 0

PacedTypeOK ==
  /\ pc \in [Batches -> [Clients -> Tasks]]
  /\ issued \in [Batches -> Nat]
  /\ stop \in BOOLEAN /\ slow \in BOOLEAN
  /\ now \in Nat /\ since \in Nat /\ built \in Nat
  /\ duration \in Durations /\ timeout \in Timeouts
  /\ lateSends \in Seq(Nat)

(* Everything falls on a step of the clock, and the intervals of the limiter
   are those of the time that has passed. *)
Clocked ==
  /\ now % Granule = 0 /\ since % Granule = 0
  /\ since <= now /\ built <= now
  /\ ~ Unlimited =>
       /\ At = "unborn" => now = 0
       /\ At # "unborn" => Refill.interval % Granule = 0
       /\ Len(acquired) - 1 = now \div Refill.interval

(* When a request is sent, and until when it is in flight: a task that still
   waits for its token has not seen a refill since the duration was over. *)
Late ==
  /\ Len(lateSends) <= 1
  /\ \A i \in DOMAIN lateSends : lateSends[i] < duration + LongestWait
  /\ lateSends # <<>> => duration <= now
  /\ At \in {"acquire", "armed"} => lateSends = <<>> /\ now < duration + LongestWait
  /\ At = "acquire" /\ ~ Unlimited /\ tokens = 0 =>
       (now \div Refill.interval) * Refill.interval < duration
  /\ At = "inflight" => since < duration + LongestWait
  /\ At = "inflight" /\ timeout # NoTimeout => now <= since + timeout

(* A client that is built too late sends nothing. *)
Built ==
  /\ At \in Unborn => issued[1] = 0 /\ lateSends = <<>>
  /\ duration <= built => issued[1] = 0 /\ At \in Unborn \cup {"check", "finished", "failed"}

(* Every request has its token, and none on time is beyond the refills. *)
Load ==
  ~ Unlimited =>
    /\ issued[1] + Armed <= acquired[Len(acquired)]
    /\ issued[1] <= Refill.amount * RefillsInTime + Len(lateSends)

(* As long as nobody else takes time, no token is lost, and before the clock
   moves every token is used. *)
Reached ==
  ~ Unlimited =>
    /\ At \in Unborn =>
         /\ acquired[Len(acquired)] = 0
         /\ now <= BurstFactor * Refill.interval =>
              tokens = (now \div Refill.interval) * Refill.amount
    /\ ~ stop => issued[1] + Armed = acquired[Len(acquired)]
    /\ At = "finished" /\ ~ stop => duration <= now
    /\ At \notin Unborn /\ ~ slow /\ built <= BurstFactor * Refill.interval =>
         /\ acquired[Len(acquired)] + tokens = (now \div Refill.interval) * Refill.amount
         /\ ~ stop /\ built < now =>
              ((now - 1) \div Refill.interval) * Refill.amount <= issued[1] + Armed

PacedInv ==
  /\ PacedTypeOK /\ LimiterInv /\ Clocked
  /\ Late /\ Built /\ Load /\ Reached

-----------------------------------------------------------------------------
\* Arithmetic of the clock.

LEMMA Multiple ==
  ASSUME NEW g \in Nat \ {0}, NEW x \in Nat, x % g = 0
  PROVE  \E q \in Nat : x = g * q
<1>1. x \div g \in Nat /\ x = g * (x \div g) + (x % g) BY DivMod
<1>. QED BY <1>1

LEMMA MultipleSum ==
  ASSUME NEW g \in Nat \ {0}, NEW x \in Nat, x % g = 0
  PROVE  (x + g) % g = 0
<1>1. PICK q \in Nat : x = g * q BY Multiple
<1> DEFINE y == x + g
<1>2. y \in Nat /\ q + 1 \in Nat /\ 0 \in Nat /\ 0 < g /\ y = g * (q + 1) + 0 BY <1>1
<1> HIDE DEF y
<1>3. y % g = 0 BY <1>2, DivModUnique
<1>. QED BY <1>3 DEF y

(* Of two multiples the larger one is larger by a whole step. *)
LEMMA MultipleLess ==
  ASSUME NEW g \in Nat \ {0}, NEW x \in Nat, NEW y \in Nat,
         x % g = 0, y % g = 0, x < y
  PROVE  x + g <= y
<1>1. PICK q \in Nat : x = g * q BY Multiple
<1>2. PICK r \in Nat : y = g * r BY Multiple
<1>3. q < r
  <2>1. r <= q => g * r <= g * q OBVIOUS
  <2>. QED BY <1>1, <1>2, <2>1
<1>4. q + 1 <= r BY <1>3
<1>5. g * (q + 1) <= g * r BY <1>4
<1>. QED BY <1>1, <1>2, <1>5

(* A step of the clock ends an interval or stays within it. *)
LEMMA ClockStep ==
  ASSUME NEW g \in Nat \ {0}, NEW i \in Nat \ {0}, NEW x \in Nat, i % g = 0, x % g = 0
  PROVE  /\ IF (x + g) % i = 0
            THEN (x + g) \div i = (x \div i) + 1 /\ x + g = (x \div i) * i + i
            ELSE (x + g) \div i = x \div i
         /\ ((x + g) - 1) \div i = x \div i
         /\ x + g <= (x \div i) * i + i
<1> DEFINE q == x \div i
           r == x % i
<1>1. q \in Nat /\ r \in Nat /\ r < i /\ x = i * q + r BY DivMod
<1>2. r % g = 0
  <2>1. PICK b \in Nat : i = g * b BY Multiple
  <2>2. PICK a \in Nat : x = g * a BY Multiple
  <2> HIDE DEF q, r
  <2>3. r = g * a - (g * b) * q BY <1>1, <2>1, <2>2
  <2>4. g * a - (g * b) * q = g * (a - b * q) BY <1>1
  <2>5. PICK c \in Int : c = a - b * q /\ r = g * c BY <1>1, <2>3, <2>4
  <2>6. c \in Nat
    <3>1. c < 0 => g * c < 0 BY <2>5
    <3>. QED BY <1>1, <2>5, <3>1
  <2>. QED BY <1>1, <2>5, <2>6, DivModUnique
<1>3. r + g <= i BY <1>1, <1>2, MultipleLess
<1> HIDE DEF q, r
<1>4. i * q = q * i /\ i * q \in Nat BY <1>1
<1>5. ((x + g) - 1) \div i = q
  <2>1. (x + g) - 1 \in Nat /\ r + g - 1 \in Nat BY <1>1
  <2>2. (x + g) - 1 = i * q + (r + g - 1) /\ r + g - 1 < i BY <1>1, <1>3, <1>4
  <2>. QED BY <1>1, <2>1, <2>2, DivModUnique
<1>6. CASE r + g = i
  <2>1. x + g = i * (q + 1) + 0 BY <1>1, <1>4, <1>6
  <2>2. (x + g) \div i = q + 1 /\ (x + g) % i = 0 BY <1>1, <2>1, DivModUnique
  <2>3. x + g = q * i + i BY <1>1, <1>4, <1>6
  <2>. QED BY <1>5, <2>2, <2>3 DEF q
<1>7. CASE r + g # i
  <2>1. r + g \in Nat /\ r + g < i /\ r + g # 0 BY <1>1, <1>3, <1>7
  <2>2. x + g = i * q + (r + g) BY <1>1, <1>4
  <2>3. (x + g) \div i = q /\ (x + g) % i = r + g BY <1>1, <2>1, <2>2, DivModUnique
  <2>4. x + g <= q * i + i BY <1>4, <2>1, <2>2
  <2>. QED BY <1>5, <2>1, <2>3, <2>4 DEF q
<1>. QED BY <1>6, <1>7

LEMMA DivMonotone ==
  ASSUME NEW i \in Nat \ {0}, NEW x \in Nat, NEW y \in Nat, x <= y
  PROVE  x \div i <= y \div i
<1> DEFINE q == x \div i
           p == y \div i
<1>1. q \in Nat /\ x % i \in Nat /\ x % i < i /\ x = i * q + (x % i) BY DivMod
<1>2. p \in Nat /\ y % i \in Nat /\ y % i < i /\ y = i * p + (y % i) BY DivMod
<1> HIDE DEF q, p
<1>3. ASSUME p < q PROVE FALSE
  <2>1. p + 1 <= q BY <1>1, <1>2, <1>3
  <2>2. i * (p + 1) <= i * q BY <1>1, <1>2, <2>1
  <2>3. i * (p + 1) = i * p + i BY <1>2
  <2>4. i * p \in Nat /\ i * q \in Nat BY <1>1, <1>2
  <2>. QED BY <1>1, <1>2, <2>2, <2>3, <2>4
<1>. QED BY <1>1, <1>2, <1>3 DEF q, p

LEMMA TimesMonotone ==
  ASSUME NEW a \in Nat, NEW x \in Nat, NEW y \in Nat, x <= y
  PROVE  x * a <= y * a /\ x * a \in Nat /\ y * a \in Nat
OBVIOUS

(* Sums of multiples. *)
LEMMA MultiplePlus ==
  ASSUME NEW g \in Nat \ {0}, NEW x \in Nat, NEW y \in Nat, x % g = 0, y % g = 0
  PROVE  (x + y) % g = 0
<1>1. PICK q \in Nat : x = g * q BY Multiple
<1>2. PICK r \in Nat : y = g * r BY Multiple
<1> DEFINE z == x + y
<1>3. z \in Nat /\ q + r \in Nat /\ 0 \in Nat /\ 0 < g /\ z = g * (q + r) + 0 BY <1>1, <1>2
<1> HIDE DEF z
<1>4. z % g = 0 BY <1>3, DivModUnique
<1>. QED BY <1>4 DEF z

-----------------------------------------------------------------------------
\* The steps, as the invariant sees them.

Starts ==
  /\ At = "unborn" /\ At' = "build" /\ Explored
  /\ UNCHANGED <<stop, issued, limiterVars, clockVars>>

Builds ==
  /\ At = "build" /\ At' \in {"check", "failed"}
  /\ built' = now
  /\ UNCHANGED <<stop, issued, limiterVars, now, duration, timeout, since, slow, lateSends>>

Checks ==
  /\ At = "check" /\ At' = IF HasTime THEN "acquire" ELSE "finished"
  /\ UNCHANGED <<stop, issued, limiterVars, clockVars>>

Acquires ==
  /\ At = "acquire" /\ At' = IF stop THEN "finished" ELSE "armed"
  /\ AcquireOne
  /\ UNCHANGED <<stop, issued, clockVars>>

Sends ==
  /\ At = "armed" /\ At' = "inflight"
  /\ issued'[1] = issued[1] + 1
  /\ since' = now
  /\ lateSends' = IF HasTime THEN lateSends ELSE Append(lateSends, now)
  /\ UNCHANGED <<stop, limiterVars, now, duration, timeout, built, slow>>

Moves ==
  /\ \/ At' = At
     \/ /\ At \in {"inflight", "report", "trip"}
        /\ At' \in {"report", "trip", "check", "tripped"}
  /\ stop => stop'
  /\ UNCHANGED <<issued, limiterVars, clockVars>>

Course ==
  Starts \/ Builds \/ Checks \/ Acquires \/ Sends \/ Moves \/ Advance

LEMMA OneTask == Batches = {1} /\ Clients = {1}
<1>1. 1..1 = {1} OBVIOUS
<1>. QED BY <1>1, PacedAssumption DEF Batches, Clients

LEMMA GotoAt ==
  ASSUME PacedTypeOK, NEW from, NEW to \in Tasks, Goto(1, 1, from, to)
  PROVE  At = from /\ At' = to /\ pc' \in [Batches -> [Clients -> Tasks]]
BY OneTask DEF Goto, At, PacedTypeOK

(* Every step is one of those, and keeps the types. *)
LEMMA Steps ==
  ASSUME PacedTypeOK, [Next]_vars
  PROVE  Course /\ PacedTypeOK'
<1> USE OneTask
<1>0. /\ pc \in [Batches -> [Clients -> Tasks]] /\ issued \in [Batches -> Nat]
      /\ stop \in BOOLEAN /\ slow \in BOOLEAN
      /\ now \in Nat /\ since \in Nat /\ built \in Nat
      /\ duration \in Durations /\ timeout \in Timeouts /\ lateSends \in Seq(Nat)
  BY DEF PacedTypeOK
<1> DEFINE pcType == pc' \in [Batches -> [Clients -> Tasks]]
           quiet == UNCHANGED <<stop, issued, clockVars>> /\ pcType
<1>1. quiet => PacedTypeOK' BY <1>0 DEF PacedTypeOK, clockVars
<1>2. CASE Spawn
  <2>1. At = "unborn" /\ At' = "build" /\ pcType
    BY <1>2, GotoAt DEF Spawn, Tasks, Running
  <2>2. Explored /\ UNCHANGED <<stop, issued, limiterVars, clockVars>> BY <1>2 DEF Spawn
  <2>. QED BY <1>1, <2>1, <2>2 DEF Course, Starts
<1>3. CASE Build
  <2>1. PICK to \in {"check", "failed"} : Goto(1, 1, "build", to)
    BY <1>3 DEF Build, BuildClient, BuildClientFails
  <2>2. At = "build" /\ At' = to /\ pcType BY <2>1, GotoAt DEF Tasks, Running, Ended
  <2>3. /\ built' = now
        /\ UNCHANGED <<stop, issued, limiterVars, now, duration, timeout, since, slow, lateSends>>
    BY <1>3 DEF Build, BuildClient, BuildClientFails
  <2>4. PacedTypeOK' BY <1>0, <2>2, <2>3 DEF PacedTypeOK
  <2>. QED BY <2>2, <2>3, <2>4 DEF Course, Builds
<1>4. CASE CheckDuration
  <2>1. PICK to \in {"acquire", "finished"} : Goto(1, 1, "check", to)
    BY <1>4 DEF CheckDuration, CheckWork
  <2>2. At = "check" /\ At' = to /\ pcType BY <2>1, GotoAt DEF Tasks, Running, Ended
  <2>3. UNCHANGED <<stop, issued, limiterVars, clockVars>>
    BY <1>4 DEF CheckDuration, CheckWork
  <2>4. At' = "acquire" <=> HasTime BY <1>4 DEF CheckDuration
  <2>5. At' = IF HasTime THEN "acquire" ELSE "finished" BY <2>2, <2>4
  <2>. QED BY <1>1, <2>2, <2>3, <2>5 DEF Course, Checks
<1>5. CASE Acquire
  <2>1. Goto(1, 1, "acquire", IF stop THEN "finished" ELSE "armed")
    BY <1>5 DEF Acquire, LoadStop
  <2>2. At = "acquire" /\ At' = (IF stop THEN "finished" ELSE "armed") /\ pcType
    BY <2>1, GotoAt DEF Tasks, Running, Ended
  <2>3. AcquireOne /\ UNCHANGED <<stop, issued, clockVars>> BY <1>5 DEF Acquire, LoadStop
  <2>. QED BY <1>1, <2>2, <2>3 DEF Course, Acquires
<1>6. CASE Send
  <2>1. Goto(1, 1, "armed", "inflight") BY <1>6 DEF Send, SendRequest
  <2>2. At = "armed" /\ At' = "inflight" /\ pcType
    BY <2>1, GotoAt DEF Tasks, Running
  <2>3. issued' = [issued EXCEPT ![1] = @ + 1] BY <1>6 DEF Send, SendRequest
  <2>4. issued'[1] = issued[1] + 1 /\ issued' \in [Batches -> Nat] BY <1>0, <2>3
  <2>5. /\ since' = now
        /\ lateSends' = IF HasTime THEN lateSends ELSE Append(lateSends, now)
        /\ UNCHANGED <<stop, limiterVars, now, duration, timeout, built, slow>>
    BY <1>6 DEF Send, SendRequest
  <2>6. PacedTypeOK' BY <1>0, <2>2, <2>4, <2>5 DEF PacedTypeOK
  <2>. QED BY <2>2, <2>4, <2>5, <2>6 DEF Course, Sends
<1>7. CASE Answer \/ GiveUp \/ Finish
  <2>1. \E from \in {"inflight", "report", "trip"}, to \in {"report", "trip", "check", "tripped"} : Goto(1, 1, from, to)
    BY <1>7 DEF Answer, Respond, GiveUp, TimeOut, Finish, Report, AfterReport, TripStop
  <2>2. PICK from \in {"inflight", "report", "trip"}, to \in {"report", "trip", "check", "tripped"} : Goto(1, 1, from, to)
    BY <2>1
  <2>3. At = from /\ At' = to /\ pcType BY <2>2, GotoAt DEF Tasks, Running, Ended
  <2>4. stop' = stop \/ stop' = TRUE
    BY <1>7 DEF Answer, Respond, GiveUp, TimeOut, Finish, Report, TripStop
  <2>5. UNCHANGED <<issued, limiterVars, clockVars>>
    BY <1>7 DEF Answer, Respond, GiveUp, TimeOut, Finish, Report, TripStop
  <2>6. PacedTypeOK' BY <1>0, <2>3, <2>4, <2>5 DEF PacedTypeOK, clockVars
  <2>7. stop => stop' BY <2>4
  <2>. QED BY <2>3, <2>5, <2>6, <2>7 DEF Course, Moves
<1>8. CASE Receive \/ OtherTrips \/ UNCHANGED vars
  <2>1. UNCHANGED <<pc, issued, limiterVars, clockVars>>
    BY <1>8 DEF Receive, OtherTrips, vars, runVars
  <2>2. stop' = stop \/ stop' = TRUE BY <1>8 DEF Receive, OtherTrips, vars, runVars
  <2>3. At' = At BY <2>1 DEF At
  <2>4. PacedTypeOK' BY <1>0, <2>1, <2>2 DEF PacedTypeOK, clockVars
  <2>5. stop => stop' BY <2>2
  <2>6. UNCHANGED <<issued, limiterVars, clockVars>> BY <2>1
  <2>7. Moves BY <2>3, <2>5, <2>6 DEF Moves
  <2>. QED BY <2>4, <2>7 DEF Course
<1>9. CASE Advance
  <2>1. /\ UNCHANGED <<stop, pc, issued, duration, timeout, since, built, lateSends>>
        /\ now' = now + Granule
    BY <1>9 DEF Advance, runVars
  <2>2. slow' \in BOOLEAN BY <1>9 DEF Advance
  <2>3. Granule \in Nat BY PacedAssumption
  <2>4. PacedTypeOK' BY <1>0, <2>1, <2>2, <2>3 DEF PacedTypeOK
  <2>. QED BY <1>9, <2>4 DEF Course
<1>. QED BY <1>2, <1>3, <1>4, <1>5, <1>6, <1>7, <1>8, <1>9 DEF Next

(* The limiter and the options of a run stay what they are. *)
LEMMA Fixed ==
  ASSUME Course
  PROVE  /\ rate' = rate /\ sharers' = sharers /\ duration' = duration /\ timeout' = timeout
         /\ Tick \/ AcquireOne \/ UNCHANGED limiterVars
         /\ (Unlimited' <=> Unlimited) /\ Refill' = Refill /\ MaxTokens' = MaxTokens
         /\ LongestWait' = LongestWait /\ RefillsInTime' = RefillsInTime
<1>1. /\ Tick \/ AcquireOne \/ UNCHANGED limiterVars
      /\ duration' = duration /\ timeout' = timeout
  BY DEF Course, Starts, Builds, Checks, Acquires, Sends, Moves, Advance, clockVars
<1>2. rate' = rate /\ sharers' = sharers BY <1>1 DEF Tick, AcquireOne, limiterVars
<1>3. (Unlimited' <=> Unlimited) /\ Refill' = Refill BY <1>2 DEF Unlimited, Refill
<1>. QED BY <1>1, <1>2, <1>3 DEF MaxTokens, LongestWait, RefillsInTime

(* The numbers the invariant is about. *)
LEMMA Numbers ==
  ASSUME PacedTypeOK, LimiterInv
  PROVE  /\ Granule \in Nat \ {0} /\ duration \in Nat /\ duration % Granule = 0
         /\ timeout # NoTimeout => timeout \in Nat /\ timeout % Granule = 0
         /\ LongestWait \in Nat /\ issued[1] \in Nat /\ Armed \in {0, 1}
         /\ tokens \in Nat
         /\ ~ Unlimited =>
              /\ LongestWait = Refill.interval
              /\ Refill.interval \in Nat \ {0} /\ Refill.amount \in Nat \ {0}
              /\ RefillsInTime \in Nat /\ now \div Refill.interval \in Nat
              /\ MaxTokens \in Nat /\ Refill.amount <= MaxTokens
              /\ Len(acquired) \in Nat \ {0} /\ acquired[Len(acquired)] \in Nat
<1>1. /\ Granule \in Nat \ {0} /\ duration \in Nat /\ duration % Granule = 0
      /\ timeout # NoTimeout => timeout \in Nat /\ timeout % Granule = 0
  BY PacedAssumption DEF PacedTypeOK
<1>2. issued[1] \in Nat BY OneTask DEF PacedTypeOK
<1>3. Armed \in {0, 1} BY DEF Armed
<1>4. LimiterTypeOK BY DEF LimiterInv
<1>5. ASSUME ~ Unlimited
      PROVE  /\ Refill.interval \in Nat \ {0} /\ Refill.amount \in Nat \ {0}
             /\ MaxTokens \in Nat /\ Refill.amount <= MaxTokens
  BY <1>4, <1>5, RefillType, BucketType DEF LimiterTypeOK
<1>6. LongestWait \in Nat BY <1>5 DEF LongestWait
<1>7. ASSUME ~ Unlimited PROVE LongestWait = Refill.interval BY <1>7 DEF LongestWait
<1>8. ASSUME ~ Unlimited
      PROVE  RefillsInTime \in Nat /\ now \div Refill.interval \in Nat
  <2> DEFINE i == Refill.interval
  <2>1. i \in Nat \ {0} /\ now \in Nat BY <1>5, <1>8 DEF PacedTypeOK
  <2>2. RefillsInTime = IF duration = 0 THEN 0 ELSE (duration - 1) \div i
    BY DEF RefillsInTime
  <2> HIDE DEF i
  <2>3. now \div i \in Nat BY <2>1, DivMod
  <2>4. duration # 0 => duration - 1 \in Nat BY <1>1
  <2>5. RefillsInTime \in Nat BY <2>1, <2>2, <2>4, DivMod
  <2>. QED BY <2>3, <2>5 DEF i
<1>9. tokens \in Nat /\ Len(acquired) \in Nat \ {0} /\ acquired[Len(acquired)] \in Nat
  BY <1>4, EmptySeq DEF LimiterTypeOK
<1>. QED BY <1>1, <1>2, <1>3, <1>5, <1>6, <1>7, <1>8, <1>9

(* The clock and the bucket, when the clock moves. *)
LEMMA ClockMoves ==
  ASSUME PacedTypeOK, LimiterInv, Clocked, Advance
  PROVE  /\ At' = At /\ At \in {"build", "inflight", "report", "acquire"}
         /\ now' = now + Granule /\ now' \in Nat
         /\ UNCHANGED <<stop, issued, duration, timeout, since, built, lateSends>>
         /\ slow' = (slow \/ At \in {"inflight", "report"})
         /\ At = "acquire" => ~ Unlimited /\ tokens = 0
         /\ Unlimited => UNCHANGED limiterVars
         /\ ~ Unlimited =>
              /\ (now' - 1) \div Refill.interval = now \div Refill.interval
              /\ now' <= (now \div Refill.interval) * Refill.interval + Refill.interval
              /\ acquired'[Len(acquired')] = acquired[Len(acquired)]
              /\ \/ /\ now' \div Refill.interval = (now \div Refill.interval) + 1
                    /\ now' = (now \div Refill.interval) * Refill.interval + Refill.interval
                    /\ Len(acquired') = Len(acquired) + 1
                    /\ tokens' = IF tokens + Refill.amount <= MaxTokens
                                 THEN tokens + Refill.amount ELSE MaxTokens
                 \/ /\ now' \div Refill.interval = now \div Refill.interval
                    /\ UNCHANGED <<tokens, acquired>>
<1>1. /\ now' = now + Granule
      /\ UNCHANGED <<pc, stop, issued, duration, timeout, since, built, lateSends>>
      /\ slow' = (slow \/ At \in {"inflight", "report"})
  BY DEF Advance, runVars
<1>2. At' = At BY <1>1 DEF At
<1>3. /\ At \in {"build", "inflight", "report", "acquire"}
      /\ At = "acquire" => ~ Unlimited /\ tokens = 0
  BY DEF Advance, WaitsForOthers, WaitsForToken
<1>4. Granule \in Nat \ {0} /\ now \in Nat /\ now' \in Nat
  BY <1>1, Numbers, SMTT(20) DEF PacedTypeOK
<1>5. Unlimited => UNCHANGED limiterVars BY DEF Advance
<1>6. ASSUME ~ Unlimited
      PROVE  /\ (now' - 1) \div Refill.interval = now \div Refill.interval
             /\ now' <= (now \div Refill.interval) * Refill.interval + Refill.interval
             /\ acquired'[Len(acquired')] = acquired[Len(acquired)]
             /\ \/ /\ now' \div Refill.interval = (now \div Refill.interval) + 1
                   /\ now' = (now \div Refill.interval) * Refill.interval + Refill.interval
                   /\ Len(acquired') = Len(acquired) + 1
                   /\ tokens' = IF tokens + Refill.amount <= MaxTokens
                                THEN tokens + Refill.amount ELSE MaxTokens
                \/ /\ now' \div Refill.interval = now \div Refill.interval
                   /\ UNCHANGED <<tokens, acquired>>
  <2> DEFINE i == Refill.interval
             d == now \div i
             y == now + Granule
  <2>1. i \in Nat \ {0} BY <1>6, Numbers
  <2>2. now % Granule = 0 /\ i % Granule = 0 BY <1>3, <1>6 DEF Clocked
  <2>3. IF now' % i = 0 THEN Tick ELSE UNCHANGED limiterVars BY <1>6 DEF Advance
  <2>4. now' = y BY <1>1
  <2> HIDE DEF i
  <2>5. /\ IF y % i = 0 THEN y \div i = d + 1 /\ y = d * i + i ELSE y \div i = d
        /\ (y - 1) \div i = d
        /\ y <= d * i + i
    BY <1>4, <2>1, <2>2, ClockStep
  <2> HIDE DEF y, d
  <2>6. CASE now' % i = 0
    <3>1. /\ acquired' = Append(acquired, acquired[Len(acquired)])
          /\ tokens' = IF tokens + Refill.amount <= MaxTokens
                       THEN tokens + Refill.amount ELSE MaxTokens
      BY <2>3, <2>6 DEF Tick, AddTokens
    <3>2. acquired \in Seq(Nat) /\ Len(acquired) \in Nat \ {0} /\ acquired[Len(acquired)] \in Nat
      BY <1>6, Numbers DEF LimiterInv, LimiterTypeOK
    <3>3. Len(acquired') = Len(acquired) + 1 /\ acquired'[Len(acquired')] = acquired[Len(acquired)]
      BY <3>1, <3>2, AppendProperties
    <3>4. y \div i = d + 1 /\ y = d * i + i /\ (y - 1) \div i = d /\ y <= d * i + i
      BY <2>4, <2>5, <2>6
    <3>. QED BY <2>4, <3>1, <3>3, <3>4 DEF i, d
  <2>7. CASE now' % i # 0
    <3>1. UNCHANGED <<tokens, acquired>> BY <2>3, <2>7 DEF limiterVars
    <3>2. y \div i = d /\ (y - 1) \div i = d /\ y <= d * i + i BY <2>4, <2>5, <2>7
    <3>. QED BY <2>4, <3>1, <3>2 DEF i, d
  <2>. QED BY <2>6, <2>7
<1>. QED BY <1>1, <1>2, <1>3, <1>4, <1>5, <1>6

-----------------------------------------------------------------------------
\* Every step keeps every part of the invariant.

(* Everything falls on a step of the clock. *)
LEMMA ClockedStep ==
  ASSUME PacedInv, Course, LimiterInv'
  PROVE  Clocked'
<1> USE DEF PacedInv
<1>0. /\ (Unlimited' <=> Unlimited) /\ Refill' = Refill
      /\ now \in Nat /\ since \in Nat /\ built \in Nat /\ Granule \in Nat \ {0}
      /\ ~ Unlimited => Len(acquired) \in Nat \ {0} /\ now \div Refill.interval \in Nat
  BY Fixed, Numbers DEF PacedTypeOK
<1>1. /\ now % Granule = 0 /\ since % Granule = 0 /\ since <= now /\ built <= now
      /\ ~ Unlimited =>
           /\ At = "unborn" => now = 0
           /\ At # "unborn" => Refill.interval % Granule = 0
           /\ Len(acquired) - 1 = now \div Refill.interval
  BY DEF Clocked
<1>2. CASE Starts
  <2>1. ~ Unlimited => Refill.interval % Granule = 0
    BY <1>2 DEF Starts, Explored
  <2>. QED BY <1>0, <1>1, <1>2, <2>1 DEF Starts, Clocked, clockVars, limiterVars
<1>3. CASE Builds \/ Checks \/ Sends \/ Moves
  <2>1. /\ now' = now /\ acquired' = acquired /\ (At' = "unborn" <=> At = "unborn")
        /\ since' \in {since, now} /\ built' \in {built, now}
    BY <1>3 DEF Builds, Checks, Sends, Moves, clockVars, limiterVars
  <2>2. /\ now' % Granule = 0 /\ since' % Granule = 0
        /\ since' <= now' /\ built' <= now'
    <3> HIDE DEF PacedInv
    <3>1. CASE since' = since BY <1>0, <1>1, <2>1, <3>1
    <3>2. CASE since' = now BY <1>0, <1>1, <2>1, <3>2
    <3>. QED BY <2>1, <3>1, <3>2
  <2>. QED BY <1>0, <1>1, <2>1, <2>2 DEF Clocked
<1>4. CASE Acquires
  <2>1. /\ At # "unborn" /\ At' # "unborn" /\ UNCHANGED <<now, since, built>>
    BY <1>4 DEF Acquires, clockVars
  <2>2. AcquireOne BY <1>4 DEF Acquires
  <2>3. acquired \in Seq(Nat) BY DEF LimiterInv, LimiterTypeOK
  <2>4. Len(acquired') = Len(acquired)
    BY <2>2, <2>3 DEF AcquireOne, limiterVars
  <2>. QED BY <1>0, <1>1, <2>1, <2>4 DEF Clocked
<1>5. CASE Advance
  <2>1. /\ At' = At /\ At # "unborn" /\ now' = now + Granule /\ now' \in Nat
        /\ since' = since /\ built' = built
    BY <1>5, ClockMoves
  <2>2. now' % Granule = 0 BY <1>0, <1>1, <2>1, MultipleSum
  <2>3. ~ Unlimited => Len(acquired') - 1 = now' \div Refill.interval
    BY <1>0, <1>1, <1>5, ClockMoves
  <2>4. since' <= now' /\ built' <= now' BY <1>0, <1>1, <2>1
  <2>. QED BY <1>0, <1>1, <2>1, <2>2, <2>3, <2>4 DEF Clocked
<1>. QED BY <1>2, <1>3, <1>4, <1>5 DEF Course

(* When requests are sent. *)
LEMMA LateStep ==
  ASSUME PacedInv, Course
  PROVE  Late'
<1> USE DEF PacedInv
<1> DEFINE i == Refill.interval
           d == now \div i
           w == LongestWait
<1>0. /\ (Unlimited' <=> Unlimited) /\ Refill' = Refill /\ w' = w
      /\ duration' = duration /\ timeout' = timeout
  BY Fixed
<1>1. /\ now \in Nat /\ since \in Nat /\ duration \in Nat /\ w \in Nat /\ lateSends \in Seq(Nat)
      /\ timeout # NoTimeout => timeout \in Nat
      /\ ~ Unlimited => i \in Nat \ {0} /\ d \in Nat /\ w = i /\ d * i \in Nat
  BY Numbers, SMTT(20) DEF PacedTypeOK
<1>2. /\ Len(lateSends) <= 1
      /\ \A k \in DOMAIN lateSends : lateSends[k] < duration + w
      /\ lateSends # <<>> => duration <= now
      /\ At \in {"acquire", "armed"} => lateSends = <<>> /\ now < duration + w
      /\ At = "acquire" /\ ~ Unlimited /\ tokens = 0 => d * i < duration
      /\ At = "inflight" => since < duration + w
      /\ At = "inflight" /\ timeout # NoTimeout => now <= since + timeout
  BY DEF Late
<1>3. SUFFICES /\ Len(lateSends') <= 1
               /\ \A k \in DOMAIN lateSends' : lateSends'[k] < duration + w
               /\ lateSends' # <<>> => duration <= now'
               /\ At' \in {"acquire", "armed"} => lateSends' = <<>> /\ now' < duration + w
               /\ At' = "acquire" /\ ~ Unlimited /\ tokens' = 0 => (now' \div i) * i < duration
               /\ At' = "inflight" => since' < duration + w
               /\ At' = "inflight" /\ timeout # NoTimeout => now' <= since' + timeout
  BY <1>0 DEF Late
<1> HIDE DEF PacedInv, w
<1>4. CASE Starts \/ Builds \/ Moves
  BY <1>2, <1>4 DEF Starts, Builds, Moves, clockVars, limiterVars
<1>5. CASE Checks
  <2>1. UNCHANGED <<now, since, tokens, lateSends>> /\ At' = IF now < duration THEN "acquire" ELSE "finished"
    BY <1>5 DEF Checks, HasTime, clockVars, limiterVars
  <2>2. ~ Unlimited => d * i <= now
    <3>1. ASSUME ~ Unlimited PROVE now = i * d + (now % i) /\ now % i \in Nat
      <4>1. i \in Nat \ {0} BY <1>1, <3>1
      <4> HIDE DEF i
      <4>. QED BY <1>1, <4>1, DivMod
    <3> HIDE DEF i, d
    <3>. QED BY <1>1, <3>1
  <2> HIDE DEF i, d
  <2>3. now < duration => lateSends = <<>> BY <1>1, <1>2
  <2>4. now < duration => now < duration + w BY <1>1
  <2>5. ~ Unlimited /\ now < duration => d * i < duration BY <1>1, <2>2
  <2>. QED BY <1>2, <2>1, <2>3, <2>4, <2>5 DEF d
<1>6. CASE Acquires
  <2>1. UNCHANGED <<now, since, lateSends>> /\ At = "acquire" /\ At' \in {"armed", "finished"}
    BY <1>6 DEF Acquires, clockVars
  <2>. QED BY <1>2, <2>1
<1>7. CASE Sends
  <2>1. /\ now' = now /\ since' = now /\ At = "armed" /\ At' = "inflight"
        /\ lateSends' = IF now < duration THEN lateSends ELSE Append(lateSends, now)
    BY <1>7 DEF Sends, HasTime
  <2>2. lateSends = <<>> /\ now < duration + w BY <1>2, <2>1
  <2>3. \/ lateSends' = <<>>
        \/ lateSends' = <<now>> /\ duration <= now
    BY <1>1, <2>1, <2>2
  <2>4. /\ Len(lateSends') <= 1
        /\ \A k \in DOMAIN lateSends' : lateSends'[k] < duration + w
        /\ lateSends' # <<>> => duration <= now
    <3>1. CASE lateSends' = <<>> BY <3>1
    <3>2. CASE lateSends' = <<now>> /\ duration <= now
      <4>1. Len(<<now>>) = 1 /\ DOMAIN <<now>> = {1} /\ <<now>>[1] = now OBVIOUS
      <4>. QED BY <2>2, <3>2, <4>1
    <3>. QED BY <2>3, <3>1, <3>2
  <2>5. timeout # NoTimeout => now <= now + timeout BY <1>1
  <2>. QED BY <2>1, <2>2, <2>4, <2>5
<1>8. CASE Advance
  <2>1. /\ At' = At /\ now' = now + Granule /\ now' \in Nat /\ Granule \in Nat \ {0}
        /\ since' = since /\ lateSends' = lateSends
        /\ At \in {"build", "inflight", "report", "acquire"}
        /\ At = "acquire" => ~ Unlimited /\ tokens = 0
    BY <1>8, ClockMoves, Numbers DEF PacedInv
  <2>2. lateSends' # <<>> => duration <= now' BY <1>1, <1>2, <2>1
  <2>3. ASSUME At = "acquire" PROVE now' < duration + w
    <3>1. now' <= d * i + i BY <1>8, <2>1, <2>3, ClockMoves DEF PacedInv
    <3>2. d * i < duration /\ w = i /\ d * i \in Nat /\ i \in Nat BY <1>1, <1>2, <2>1, <2>3
    <3> HIDE DEF d, i
    <3>. QED BY <1>1, <2>1, <3>1, <3>2
  <2>4. ASSUME At = "acquire", tokens' = 0 PROVE (now' \div i) * i < duration
    <3>1. ~ Unlimited /\ tokens = 0 BY <2>1, <2>4
    <3>2. /\ Refill.amount \in Nat \ {0} /\ MaxTokens \in Nat /\ Refill.amount <= MaxTokens
      BY <3>1, Numbers DEF PacedInv
    <3>3. \/ tokens' = IF tokens + Refill.amount <= MaxTokens
                       THEN tokens + Refill.amount ELSE MaxTokens
          \/ now' \div i = d
      BY <1>8, <3>1, ClockMoves DEF PacedInv
    <3>4. now' \div i = d BY <2>4, <3>1, <3>2, <3>3
    <3>5. d * i < duration BY <1>2, <2>4, <3>1
    <3>. QED BY <3>4, <3>5
  <2>5. ASSUME At = "inflight", timeout # NoTimeout PROVE now' <= since + timeout
    <3>1. now < since + timeout
      <4>1. ~ TimeIsUp BY <1>8, <2>5 DEF Advance, WaitsForOthers, WaitsForToken
      <4>. QED BY <1>1, <2>5, <4>1 DEF TimeIsUp
    <3>2. now % Granule = 0 /\ since % Granule = 0 /\ timeout % Granule = 0
      BY <2>5, Numbers DEF PacedInv, Clocked
    <3>3. (since + timeout) % Granule = 0 BY <1>1, <2>1, <2>5, <3>2, MultiplePlus
    <3>4. since + timeout \in Nat BY <1>1, <2>5
    <3>5. now + Granule <= since + timeout BY <1>1, <2>1, <3>1, <3>2, <3>3, <3>4, MultipleLess
    <3>. QED BY <2>1, <3>5
  <2> HIDE DEF d, i
  <2>. QED BY <1>2, <2>1, <2>2, <2>3, <2>4, <2>5
<1>. QED BY <1>4, <1>5, <1>6, <1>7, <1>8 DEF Course

(* A client that is built too late. *)
LEMMA BuiltStep ==
  ASSUME PacedInv, Course
  PROVE  Built'
<1> USE DEF PacedInv
<1>0. /\ now \in Nat /\ built \in Nat /\ duration \in Nat /\ built <= now
      /\ duration' = duration
  BY Fixed, Numbers DEF PacedTypeOK, Clocked
<1>1. /\ At \in Unborn => issued[1] = 0 /\ lateSends = <<>>
      /\ duration <= built => issued[1] = 0 /\ At \in Unborn \cup {"check", "finished", "failed"}
  BY DEF Built
<1> USE DEF Unborn
<1> HIDE DEF PacedInv
<1>2. CASE Starts
  BY <1>0, <1>1, <1>2 DEF Starts, Built, clockVars
<1>3. CASE Builds
  BY <1>0, <1>1, <1>3 DEF Builds, Built
<1>4. CASE Checks
  <2>1. duration <= built => At' = "finished" BY <1>0, <1>4 DEF Checks, HasTime
  <2>2. UNCHANGED <<issued, built>> /\ At' \in {"acquire", "finished"}
    BY <1>4 DEF Checks, clockVars
  <2>. QED BY <1>0, <1>1, <2>1, <2>2 DEF Built
<1>5. CASE Acquires \/ Sends
  <2>1. ~ (duration <= built) BY <1>1, <1>5 DEF Acquires, Sends
  <2>2. built' = built /\ At' \in {"armed", "inflight", "finished"}
    BY <1>5 DEF Acquires, Sends, clockVars
  <2>. QED BY <1>0, <2>1, <2>2 DEF Built
<1>6. CASE Moves
  <2>1. UNCHANGED <<issued, built, lateSends>> BY <1>6 DEF Moves, clockVars
  <2>2. \/ At' = At
        \/ /\ At \notin Unborn \cup {"check", "finished", "failed"}
           /\ At' \in {"report", "trip", "check", "tripped"}
    BY <1>6 DEF Moves
  <2>. QED BY <1>0, <1>1, <2>1, <2>2 DEF Built
<1>7. CASE Advance
  <2>1. At' = At /\ UNCHANGED <<issued, built, lateSends>>
    BY <1>7, ClockMoves DEF PacedInv
  <2>. QED BY <1>0, <1>1, <2>1 DEF Built
<1>. QED BY <1>2, <1>3, <1>4, <1>5, <1>6, <1>7 DEF Course

(* A token is taken from the bucket. *)
LEMMA TokenTaken ==
  ASSUME LimiterTypeOK, ~ Unlimited, AcquireOne
  PROVE  /\ tokens > 0 /\ tokens' = tokens - 1
         /\ Len(acquired') = Len(acquired)
         /\ acquired'[Len(acquired')] = acquired[Len(acquired)] + 1
<1>1. /\ tokens > 0 /\ tokens' = tokens - 1
      /\ acquired' = [acquired EXCEPT ![Len(acquired)] = @ + 1]
  BY DEF AcquireOne
<1>2. acquired \in Seq(Nat) /\ Len(acquired) \in Nat \ {0} BY EmptySeq DEF LimiterTypeOK
<1>3. Len(acquired') = Len(acquired) BY <1>1, <1>2
<1>4. acquired'[Len(acquired)] = acquired[Len(acquired)] + 1 BY <1>1, <1>2
<1>. QED BY <1>1, <1>3, <1>4

(* A request that is sent in time has one of the tokens of that time. *)
LEMMA OnTime ==
  ASSUME PacedInv, ~ Unlimited, At = "armed", now < duration
  PROVE  issued[1] + 1 <= Refill.amount * RefillsInTime
<1> USE DEF PacedInv
<1> DEFINE i == Refill.interval
           a == Refill.amount
           d == now \div i
           e == (duration - 1) \div i
           l == acquired[Len(acquired)]
<1>1. /\ i \in Nat \ {0} /\ a \in Nat /\ l \in Nat /\ tokens \in Nat /\ issued[1] \in Nat
      /\ duration \in Nat /\ now \in Nat
  BY Numbers DEF PacedTypeOK
<1>2. issued[1] + 1 <= l BY DEF Load, Armed
<1>3. l + tokens <= (Len(acquired) - 1) * a BY DEF LimiterInv, Within
<1>4. Len(acquired) - 1 = d BY DEF Clocked
<1>5. RefillsInTime = e BY <1>1 DEF RefillsInTime
<1> HIDE DEF i, a, l, PacedInv
<1>6. duration - 1 \in Nat /\ now <= duration - 1 BY <1>1
<1>7. d <= e BY <1>1, <1>6, DivMonotone
<1>8. d \in Nat /\ e \in Nat BY <1>1, <1>6, DivMod
<1> HIDE DEF d, e
<1>9. d * a <= e * a /\ d * a \in Nat /\ e * a \in Nat BY <1>1, <1>7, <1>8, TimesMonotone
<1>10. l + tokens <= d * a BY <1>3, <1>4
<1>11. issued[1] + 1 <= e * a BY <1>1, <1>2, <1>9, <1>10
<1>12. e * a = a * e BY <1>1, <1>8
<1>. QED BY <1>5, <1>11, <1>12 DEF a

(* Every request has its token, and few are late. *)
LEMMA LoadStep ==
  ASSUME PacedInv, Course, ~ Unlimited
  PROVE  /\ issued'[1] + Armed' <= acquired'[Len(acquired')]
         /\ issued'[1] <= Refill.amount * RefillsInTime + Len(lateSends')
<1> USE DEF PacedInv
<1> DEFINE l == acquired[Len(acquired)]
           u == Refill.amount * RefillsInTime
<1>0. PacedTypeOK /\ LimiterInv OBVIOUS
<1>1. /\ issued[1] \in Nat /\ l \in Nat /\ u \in Nat /\ Len(lateSends) \in Nat
      /\ lateSends \in Seq(Nat) /\ now \in Nat /\ duration \in Nat
  <2>1. /\ issued[1] \in Nat /\ duration \in Nat
        /\ Refill.amount \in Nat /\ RefillsInTime \in Nat
        /\ Len(acquired) \in Nat \ {0} /\ acquired[Len(acquired)] \in Nat
    BY <1>0, Numbers
  <2>2. lateSends \in Seq(Nat) /\ now \in Nat BY <1>0 DEF PacedTypeOK
  <2>3. Refill.amount * RefillsInTime \in Nat BY <2>1
  <2>. QED BY <2>1, <2>2, <2>3
<1>2. /\ issued[1] + (IF At = "armed" THEN 1 ELSE 0) <= l
      /\ issued[1] <= u + Len(lateSends)
  BY DEF Load, Armed
<1>3. SUFFICES /\ issued'[1] + (IF At' = "armed" THEN 1 ELSE 0) <= acquired'[Len(acquired')]
               /\ issued'[1] <= u + Len(lateSends')
  BY DEF Armed
<1>4. CASE Starts \/ Builds \/ Checks \/ Moves
  <2>1. UNCHANGED <<issued, acquired, lateSends>> /\ (At' # "armed" \/ At' = At)
    BY <1>4 DEF Starts, Builds, Checks, Moves, clockVars, limiterVars
  <2> HIDE DEF u, PacedInv
  <2>. QED BY <1>1, <1>2, <2>1
<1>5. CASE Acquires
  <2>1. UNCHANGED <<issued, lateSends>> /\ At = "acquire" /\ AcquireOne
    BY <1>5 DEF Acquires, clockVars
  <2>2. acquired'[Len(acquired')] = l + 1 BY <2>1, TokenTaken DEF LimiterInv
  <2> HIDE DEF l, u, PacedInv
  <2>. QED BY <1>1, <1>2, <2>1, <2>2
<1>6. CASE Sends
  <2>1. /\ issued'[1] = issued[1] + 1 /\ acquired' = acquired /\ At = "armed" /\ At' = "inflight"
        /\ lateSends' = IF now < duration THEN lateSends ELSE Append(lateSends, now)
    BY <1>6 DEF Sends, HasTime, limiterVars
  <2>2. CASE now < duration
    <3>1. issued[1] + 1 <= u BY <2>1, <2>2, OnTime
    <3> HIDE DEF u, PacedInv
    <3>. QED BY <1>1, <1>2, <2>1, <2>2, <3>1
  <2>3. CASE ~ (now < duration)
    <3>1. Len(lateSends') = Len(lateSends) + 1 BY <1>1, <2>1, <2>3
    <3> HIDE DEF u, PacedInv
    <3>. QED BY <1>1, <1>2, <2>1, <3>1
  <2>. QED BY <2>2, <2>3
<1>7. CASE Advance
  <2>1. /\ UNCHANGED <<issued, lateSends>> /\ At' = At
        /\ acquired'[Len(acquired')] = l
    BY <1>7, ClockMoves
  <2> HIDE DEF u, l, PacedInv
  <2>. QED BY <1>1, <1>2, <2>1
<1>. QED BY <1>4, <1>5, <1>6, <1>7 DEF Course

(* While the client is being built, its tokens are saved. *)
LEMMA SavedStep ==
  ASSUME PacedInv, Course, ~ Unlimited, At' \in Unborn
  PROVE  /\ acquired'[Len(acquired')] = 0
         /\ now' <= BurstFactor * Refill.interval =>
              tokens' = (now' \div Refill.interval) * Refill.amount
<1> USE DEF PacedInv
<1> DEFINE i == Refill.interval
           a == Refill.amount
           d == now \div i
<1>1. /\ i \in Nat \ {0} /\ a \in Nat \ {0} /\ d \in Nat /\ tokens \in Nat /\ now \in Nat
      /\ BurstFactor \in Nat \ {0}
  BY Numbers, LimiterAssumption DEF PacedTypeOK
<1>2. CASE ~ Advance
  <2>1. At \in Unborn /\ UNCHANGED <<now, tokens, acquired>>
    BY <1>2 DEF Course, Starts, Builds, Checks, Acquires, Sends, Moves, clockVars,
                limiterVars, Unborn
  <2>. QED BY <2>1 DEF Reached
<1>3. CASE Advance
  <2>1. /\ At \in Unborn /\ now' = now + Granule /\ Granule \in Nat
        /\ acquired'[Len(acquired')] = acquired[Len(acquired)]
    BY <1>3, ClockMoves, Numbers
  <2>2. /\ acquired[Len(acquired)] = 0
        /\ now <= BurstFactor * i => tokens = d * a
    BY <2>1 DEF Reached
  <2>3. \/ /\ now' \div i = d + 1
           /\ now' = d * i + i
           /\ tokens' = IF tokens + a <= MaxTokens THEN tokens + a ELSE MaxTokens
        \/ now' \div i = d /\ tokens' = tokens
    BY <1>3, ClockMoves
  <2>4. MaxTokens = BurstFactor * a BY DEF MaxTokens
  <2> HIDE DEF a, i, d, PacedInv
  <2>5. ASSUME now' <= BurstFactor * i PROVE tokens' = (now' \div i) * a
    <3>1. BurstFactor * i \in Nat BY <1>1
    <3>2. tokens = d * a BY <1>1, <2>1, <2>2, <2>5, <3>1
    <3>3. CASE now' \div i = d /\ tokens' = tokens BY <3>2, <3>3
    <3>4. CASE /\ now' \div i = d + 1
               /\ now' = d * i + i
               /\ tokens' = IF tokens + a <= MaxTokens THEN tokens + a ELSE MaxTokens
      <4>1. d + 1 <= BurstFactor
        <5>1. ASSUME BurstFactor <= d PROVE FALSE
          <6>1. BurstFactor * i <= d * i /\ d * i \in Nat BY <1>1, <5>1, TimesMonotone
          <6>. QED BY <1>1, <2>5, <3>1, <3>4, <6>1
        <5>. QED BY <1>1, <5>1
      <4>2. (d + 1) * a <= BurstFactor * a BY <1>1, <4>1, TimesMonotone
      <4>3. (d + 1) * a = d * a + a BY <1>1
      <4>. QED BY <2>4, <3>2, <3>4, <4>2, <4>3
    <3>. QED BY <2>3, <3>3, <3>4
  <2>. QED BY <2>1, <2>2, <2>5 DEF a, i
<1>. QED BY <1>2, <1>3

(* No token is lost, and all are used before the clock moves. *)
LEMMA UsedStep ==
  ASSUME PacedInv, Course, ~ Unlimited, At' \notin Unborn, ~ slow',
         built' <= BurstFactor * Refill.interval
  PROVE  /\ acquired'[Len(acquired')] + tokens' = (now' \div Refill.interval) * Refill.amount
         /\ ~ stop' /\ built' < now' =>
              ((now' - 1) \div Refill.interval) * Refill.amount <= issued'[1] + Armed'
<1> USE DEF PacedInv
<1> DEFINE i == Refill.interval
           a == Refill.amount
           d == now \div i
           e == (now - 1) \div i
           l == acquired[Len(acquired)]
           s == issued[1] + (IF At = "armed" THEN 1 ELSE 0)
           s2 == issued'[1] + (IF At' = "armed" THEN 1 ELSE 0)
<1>1. /\ i \in Nat \ {0} /\ a \in Nat \ {0} /\ d \in Nat /\ tokens \in Nat /\ now \in Nat
      /\ built \in Nat /\ l \in Nat /\ issued[1] \in Nat /\ built <= now
      /\ MaxTokens \in Nat /\ a <= MaxTokens
  BY Numbers DEF PacedTypeOK, Clocked
<1>2. ASSUME At \notin Unborn, ~ slow, built <= BurstFactor * i
      PROVE  /\ l + tokens = d * a
             /\ ~ stop /\ built < now => e * a <= s
  BY <1>2 DEF Reached, Armed
<1>3. SUFFICES /\ acquired'[Len(acquired')] + tokens' = (now' \div i) * a
               /\ ~ stop' /\ built' < now' => ((now' - 1) \div i) * a <= s2
  BY DEF Armed
<1>4. CASE Starts BY <1>4 DEF Starts, Unborn
<1>5. CASE Builds
  <2>1. At \in Unborn /\ now' = now /\ built' = now /\ UNCHANGED <<tokens, acquired>>
    BY <1>5 DEF Builds, Unborn, limiterVars
  <2>2. l = 0 /\ tokens = d * a BY <2>1 DEF Reached
  <2> HIDE DEF a, d, PacedInv
  <2>. QED BY <1>1, <2>1, <2>2 DEF d
<1>6. CASE Checks \/ Moves
  <2>1. /\ UNCHANGED <<now, tokens, acquired, built, slow, issued>> /\ At \notin Unborn
        /\ stop => stop'
        /\ At = "armed" <=> At' = "armed"
    BY <1>6 DEF Checks, Moves, clockVars, limiterVars, Unborn
  <2>2. ~ slow BY <2>1
  <2>. QED BY <1>2, <2>1, <2>2
<1>7. CASE Acquires
  <2>1. /\ UNCHANGED <<now, built, slow, issued>> /\ At \notin Unborn /\ AcquireOne
        /\ At = "acquire" /\ stop' = stop /\ (~ stop => At' = "armed")
    BY <1>7 DEF Acquires, clockVars, Unborn
  <2>2. ~ slow BY <2>1
  <2>3. /\ acquired'[Len(acquired')] = l + 1 /\ tokens' = tokens - 1
    BY <2>1, TokenTaken DEF LimiterInv
  <2>4. l + tokens = d * a BY <1>2, <2>1, <2>2
  <2>5. ASSUME ~ stop', built' < now' PROVE e * a <= s2
    <3>1. e * a <= s /\ s2 = s + 1 /\ s \in Nat BY <1>1, <1>2, <2>1, <2>2, <2>5
    <3>2. now - 1 \in Nat BY <1>1, <2>1, <2>5
    <3> HIDE DEF i, a, s, s2, PacedInv
    <3>3. e \in Nat BY <1>1, <3>2, DivMod
    <3> HIDE DEF e
    <3>4. e * a \in Nat BY <1>1, <3>3
    <3>. QED BY <3>1, <3>4
  <2> HIDE DEF a, i, s2, l, e, PacedInv
  <2>6. acquired'[Len(acquired')] + tokens' = d * a BY <1>1, <2>3, <2>4
  <2>. QED BY <2>1, <2>5, <2>6 DEF e
<1>8. CASE Sends
  <2>1. /\ UNCHANGED <<now, built, slow, tokens, acquired, stop>> /\ At \notin Unborn
        /\ At = "armed" /\ At' = "inflight" /\ issued'[1] = issued[1] + 1
    BY <1>8 DEF Sends, limiterVars, Unborn
  <2>2. s2 = s BY <1>1, <2>1
  <2>. QED BY <1>2, <2>1, <2>2
<1>9. CASE Advance
  <2>1. /\ At' = At /\ UNCHANGED <<built, issued, stop>>
        /\ slow' = (slow \/ At \in {"inflight", "report"})
        /\ At \in {"build", "inflight", "report", "acquire"}
        /\ (now' - 1) \div i = d
        /\ acquired'[Len(acquired')] = l
        /\ \/ /\ now' \div i = d + 1
              /\ tokens' = IF tokens + a <= MaxTokens THEN tokens + a ELSE MaxTokens
           \/ now' \div i = d /\ tokens' = tokens
    BY <1>9, ClockMoves
  <2>2. At = "acquire" /\ ~ slow BY <2>1 DEF Unborn
  <2>3. tokens = 0 BY <1>9, <2>2, ClockMoves
  <2>4. l + tokens = d * a BY <1>2, <2>1, <2>2 DEF Unborn
  <2>5. ~ stop => s = l BY <2>2 DEF Reached, Armed
  <2>6. s2 = s BY <2>1
  <2> HIDE DEF a, i, d, e, l, s, s2, PacedInv
  <2>7. (d + 1) * a = d * a + a BY <1>1
  <2>8. acquired'[Len(acquired')] + tokens' = (now' \div i) * a
    BY <1>1, <2>1, <2>3, <2>4, <2>7
  <2>9. ~ stop => d * a <= s2 BY <1>1, <2>3, <2>4, <2>5, <2>6
  <2>. QED BY <2>1, <2>8, <2>9
<1>. QED BY <1>4, <1>5, <1>6, <1>7, <1>8, <1>9 DEF Course

(* What was used, and when the task ends by itself. *)
LEMMA ReachedStep ==
  ASSUME PacedInv, Course
  PROVE  Reached'
<1> USE DEF PacedInv
<1>1. /\ (Unlimited' <=> Unlimited) /\ Refill' = Refill /\ duration' = duration
      /\ issued[1] \in Nat /\ now \in Nat /\ duration \in Nat
  BY Fixed, Numbers DEF PacedTypeOK
<1>2. ASSUME ~ Unlimited, ~ stop'
      PROVE  issued'[1] + (IF At' = "armed" THEN 1 ELSE 0) = acquired'[Len(acquired')]
  <2>1. ~ stop
    BY <1>2, ClockMoves DEF Course, Starts, Builds, Checks, Acquires, Sends, Moves
  <2>2. issued[1] + (IF At = "armed" THEN 1 ELSE 0) = acquired[Len(acquired)]
    BY <1>2, <2>1 DEF Reached, Armed
  <2>3. CASE Starts \/ Builds \/ Checks \/ Moves
    BY <2>2, <2>3 DEF Starts, Builds, Checks, Moves, limiterVars
  <2>4. CASE Acquires
    <3>1. At = "acquire" /\ At' = "armed" /\ issued' = issued BY <2>1, <2>4 DEF Acquires
    <3>2. acquired'[Len(acquired')] = acquired[Len(acquired)] + 1
      BY <1>2, <2>4, TokenTaken DEF Acquires, LimiterInv
    <3>. QED BY <1>1, <2>2, <3>1, <3>2
  <2>5. CASE Sends BY <1>1, <2>2, <2>5 DEF Sends, limiterVars
  <2>6. CASE Advance BY <1>2, <2>2, <2>6, ClockMoves
  <2>. QED BY <2>3, <2>4, <2>5, <2>6 DEF Course
<1>3. ASSUME ~ Unlimited, At' = "finished", ~ stop' PROVE duration <= now'
  <2>1. CASE Checks BY <1>1, <1>3, <2>1 DEF Checks, HasTime, clockVars
  <2>2. CASE Moves
    BY <1>3, <2>2 DEF Moves, clockVars, Reached
  <2>3. CASE Starts \/ Builds \/ Acquires \/ Sends
    BY <1>3, <2>3 DEF Starts, Builds, Acquires, Sends
  <2>4. CASE Advance BY <1>3, <2>4, ClockMoves
  <2>. QED BY <2>1, <2>2, <2>3, <2>4 DEF Course
<1>. QED BY <1>1, <1>2, <1>3, SavedStep, UsedStep DEF Reached, Armed

-----------------------------------------------------------------------------
\* The theorems.

LEMMA PacedInit == Init => PacedInv
<1> SUFFICES ASSUME Init PROVE PacedInv OBVIOUS
<1>1. /\ pc = [b \in Batches |-> [c \in Clients |-> "unborn"]]
      /\ issued = [b \in Batches |-> 0]
      /\ stop = FALSE /\ slow = FALSE /\ now = 0 /\ since = 0 /\ built = 0
      /\ duration \in Durations /\ timeout \in Timeouts /\ lateSends = <<>>
  BY DEF Init, RunInit
<1>2. PacedTypeOK
  <2>1. "unborn" \in Tasks BY DEF Tasks
  <2>2. pc \in [Batches -> [Clients -> Tasks]] BY <1>1, <2>1
  <2>3. issued \in [Batches -> Nat] BY <1>1
  <2>4. lateSends \in Seq(Nat) BY <1>1
  <2>. QED BY <1>1, <2>2, <2>3, <2>4 DEF PacedTypeOK
<1>3. At = "unborn" /\ issued[1] = 0 BY <1>1, OneTask DEF At
<1>4. LimiterInit BY DEF Init
<1>5. LimiterInv BY <1>4, LimiterInitInv
<1>6. tokens = 0 /\ acquired = <<0>> BY <1>4 DEF LimiterInit
<1>7. Len(<<0>>) = 1 /\ <<0>>[1] = 0 OBVIOUS
<1>8. Granule \in Nat \ {0} BY PacedAssumption
<1>9. 0 % Granule = 0
  <2>1. 0 = Granule * 0 + 0 BY <1>8
  <2>. QED BY <1>8, <2>1, DivModUnique
<1>10. ASSUME ~ Unlimited
       PROVE  /\ 0 \div Refill.interval = 0 /\ 0 * Refill.amount = 0
              /\ Refill.amount * RefillsInTime \in Nat
  <2> DEFINE i == Refill.interval
             a == Refill.amount
  <2>1. i \in Nat \ {0} /\ a \in Nat /\ RefillsInTime \in Nat BY <1>2, <1>5, <1>10, Numbers
  <2> HIDE DEF i, a
  <2>2. 0 = i * 0 + 0 BY <2>1
  <2>3. 0 \div i = 0 BY <2>1, <2>2, DivModUnique
  <2>4. 0 * a = 0 /\ a * RefillsInTime \in Nat BY <2>1
  <2>. QED BY <2>3, <2>4 DEF i, a
<1>11. Clocked BY <1>1, <1>3, <1>6, <1>7, <1>9, <1>10 DEF Clocked
<1>12. Late BY <1>1, <1>3 DEF Late
<1>13. Built BY <1>1, <1>3 DEF Built, Unborn
<1>14. Load BY <1>1, <1>3, <1>6, <1>7, <1>10 DEF Load, Armed
<1>15. Reached BY <1>1, <1>3, <1>6, <1>7, <1>10 DEF Reached, Armed, Unborn
<1>. QED BY <1>2, <1>5, <1>11, <1>12, <1>13, <1>14, <1>15 DEF PacedInv

LEMMA PacedNext == PacedInv /\ [Next]_vars => PacedInv'
<1> SUFFICES ASSUME PacedInv, [Next]_vars PROVE PacedInv' OBVIOUS
<1>1. Course /\ PacedTypeOK' BY Steps DEF PacedInv
<1>2. LimiterInv' BY <1>1, Fixed, LimiterStep DEF PacedInv
<1>3. Load'
  <2>1. (Unlimited' <=> Unlimited) /\ Refill' = Refill /\ RefillsInTime' = RefillsInTime
    BY <1>1, Fixed
  <2>. QED BY <1>1, <2>1, LoadStep DEF Load
<1>. QED BY <1>1, <1>2, <1>3, ClockedStep, LateStep, BuiltStep, ReachedStep DEF PacedInv

(* The clock, the bucket and the task agree in every state: send_load, its
   limiter and its duration (bench_run.rs 77-172). *)
THEOREM PacedInvariant == Spec => []PacedInv
<1>. QED BY PacedInit, PacedNext, PTL DEF Spec

(* A client never gets ahead of its rate and catches up by at most what its
   bucket holds (rate_limiter.rs 30-42), at every rate and burst factor. *)
THEOREM RunPaced == Spec => []Paced
<1>1. PacedInv => Paced BY LimiterPaces DEF PacedInv
<1>. QED BY <1>1, PacedInvariant, PTL

(* The refill keeps every rate, for every number of clients, to a twentieth
   of a request per second or to a millisecond (rate_limiter.rs 58-88). *)
THEOREM RunPrecise == Spec => []RefillPrecise
<1>1. PacedInv => RefillPrecise
  BY RefillKeepsRate DEF PacedInv, LimiterInv, LimiterTypeOK
<1>. QED BY <1>1, PacedInvariant, PTL

(* At most one request after the duration, less than a refill interval late,
   and none of a client that was built too late (bench_run.rs 109-116). *)
THEOREM RunLateBound == Spec => []LateBound
<1>1. PacedInv => LateBound
  <2> SUFFICES ASSUME PacedInv PROVE LateBound OBVIOUS
  <2>1. duration \in Nat /\ built \in Nat BY Numbers, SMTT(20) DEF PacedInv, PacedTypeOK
  <2>. QED BY <2>1 DEF PacedInv, Late, Built, LateBound
<1>. QED BY <1>1, PacedInvariant, PTL

(* A client sends no more than its rate allows for the duration, and the one
   late request. *)
THEOREM RunLoadBounded == Spec => []LoadBounded
<1>1. PacedInv => LoadBounded
  <2> SUFFICES ASSUME PacedInv, ~ Unlimited
               PROVE  issued[1] <= Refill.amount * RefillsInTime + 1
    BY DEF LoadBounded
  <2> DEFINE u == Refill.amount * RefillsInTime
  <2>1. u \in Nat /\ issued[1] \in Nat /\ lateSends \in Seq(Nat)
    BY Numbers, SMTT(20) DEF PacedInv, PacedTypeOK
  <2>2. issued[1] <= u + Len(lateSends) /\ Len(lateSends) <= 1
    BY DEF PacedInv, Load, Late
  <2> HIDE DEF u
  <2>3. issued[1] <= u + 1 BY <2>1, <2>2
  <2>. QED BY <2>3 DEF u
<1>. QED BY <1>1, PacedInvariant, PTL

(* The load that was asked for is put on a target that answers at once, even
   when building the client took time (bench_run.rs 77-85). *)
THEOREM RunLoadReached == Spec => []LoadReached
<1>1. PacedInv => LoadReached
  <2> SUFFICES ASSUME PacedInv, ~ Unlimited, At = "finished", ~ stop, ~ slow,
                      built < duration, built <= BurstFactor * Refill.interval
               PROVE  issued[1] >= Refill.amount * RefillsInTime
    BY DEF LoadReached
  <2> DEFINE i == Refill.interval
             a == Refill.amount
             d == (now - 1) \div i
             e == (duration - 1) \div i
  <2>1. /\ i \in Nat \ {0} /\ a \in Nat /\ issued[1] \in Nat
        /\ duration \in Nat /\ now \in Nat /\ built \in Nat
    BY Numbers, SMTT(20) DEF PacedInv, PacedTypeOK
  <2>2. duration <= now BY DEF PacedInv, Reached
  <2>3. built < now BY <2>1, <2>2
  <2>4. d * a <= issued[1] + Armed /\ Armed = 0
    BY <2>3 DEF PacedInv, Reached, Unborn, Armed
  <2>5. RefillsInTime = e BY <2>1 DEF RefillsInTime
  <2> HIDE DEF i, a
  <2>6. duration - 1 \in Nat /\ now - 1 \in Nat /\ duration - 1 <= now - 1 BY <2>1, <2>2
  <2>7. e <= d BY <2>1, <2>6, DivMonotone
  <2>8. d \in Nat /\ e \in Nat BY <2>1, <2>6, DivMod
  <2> HIDE DEF d, e
  <2>9. e * a <= d * a /\ e * a \in Nat /\ d * a \in Nat BY <2>1, <2>7, <2>8, TimesMonotone
  <2>10. e * a <= issued[1] /\ a * e = e * a BY <2>1, <2>4, <2>8, <2>9
  <2>. QED BY <2>1, <2>5, <2>9, <2>10 DEF a
<1>. QED BY <1>1, PacedInvariant, PTL

(* With a timeout no request is in flight longer than the timeout after the
   last moment a request can be sent (bench_run.rs 137-172). *)
THEOREM RunEndsInTime == Spec => []EndsInTime
<1>1. PacedInv => EndsInTime
  <2> SUFFICES ASSUME PacedInv, At = "inflight", timeout # NoTimeout
               PROVE  now < duration + LongestWait + timeout
    BY DEF EndsInTime
  <2>1. /\ now \in Nat /\ since \in Nat /\ duration \in Nat /\ timeout \in Nat
        /\ LongestWait \in Nat
    BY Numbers, SMTT(20) DEF PacedInv, PacedTypeOK
  <2>2. since < duration + LongestWait /\ now <= since + timeout BY DEF PacedInv, Late
  <2> HIDE DEF PacedInv
  <2>. QED BY <2>1, <2>2
<1>. QED BY <1>1, PacedInvariant, PTL
=============================================================================
