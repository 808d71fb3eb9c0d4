-------------------------- MODULE BenchBatchProofs --------------------------
(***************************************************************************)
(* Proofs about module BenchBatch, for any number of clients, batches and  *)
(* requests, any capacity of the channel, and both protocol adapters.      *)
(***************************************************************************)
EXTENDS BenchBatch, FiniteSetTheorems, FunctionTheorems, TLAPS

-----------------------------------------------------------------------------
\* Counting: what appending to a queue and taking its head do to the counts.

(* The positions counted form a finite set. *)
LEMMA CountType ==
  ASSUME NEW S, NEW q \in Seq(S), NEW k
  PROVE  /\ IsFiniteSet({i \in 1..Len(q) : q[i] = k})
         /\ CountIn(q, k) \in Nat
<1>1. Len(q) \in Nat /\ IsFiniteSet(1..Len(q)) BY FS_Interval
<1>2. {i \in 1..Len(q) : q[i] = k} \in SUBSET (1..Len(q)) OBVIOUS
<1>3. IsFiniteSet({i \in 1..Len(q) : q[i] = k}) BY <1>1, <1>2, FS_Subset
<1>. QED BY <1>3, FS_CardinalityType DEF CountIn

(* An empty queue holds nothing. *)
LEMMA CountEmpty == ASSUME NEW k PROVE CountIn(<<>>, k) = 0
<1>1. {i \in 1..Len(<<>>) : <<>>[i] = k} = {} OBVIOUS
<1>. QED BY <1>1, FS_EmptySet DEF CountIn

(* Appending x adds one to the count of x and nothing to the others. *)
LEMMA CountAppend ==
  ASSUME NEW S, NEW q \in Seq(S), NEW x \in S, NEW k
  PROVE  CountIn(Append(q, x), k) = CountIn(q, k) + (IF x = k THEN 1 ELSE 0)
<1> DEFINE P == {i \in 1..Len(q) : q[i] = k}
           PA == {i \in 1..Len(Append(q, x)) : Append(q, x)[i] = k}
<1>1. IsFiniteSet(P) /\ Cardinality(P) \in Nat
  BY CountType, FS_CardinalityType
<1>2. /\ Len(q) \in Nat /\ Len(Append(q, x)) = Len(q) + 1
      /\ \A i \in 1..Len(q) : Append(q, x)[i] = q[i]
      /\ Append(q, x)[Len(q) + 1] = x
  OBVIOUS
<1>0. CountIn(q, k) = Cardinality(P) /\ CountIn(Append(q, x), k) = Cardinality(PA)
  BY DEF CountIn
<1>3. CASE x = k
  <2>1. PA = P \cup {Len(q) + 1} BY <1>2, <1>3
  <2>2. Len(q) + 1 \notin P BY <1>2
  <2>3. Cardinality(PA) = Cardinality(P) + 1 BY <1>1, <2>1, <2>2, FS_AddElement
  <2> HIDE DEF P, PA
  <2>. QED BY <1>0, <1>3, <2>3
<1>4. CASE x # k
  <2>1. PA = P BY <1>2, <1>4
  <2> HIDE DEF P, PA
  <2>. QED BY <1>1, <1>0, <1>4, <2>1
<1>. QED BY <1>3, <1>4

(* Taking the head away takes one from its count and nothing from the others. *)
LEMMA CountTail ==
  ASSUME NEW S, NEW q \in Seq(S), q # <<>>, NEW k
  PROVE  CountIn(q, k) = CountIn(Tail(q), k) + (IF Head(q) = k THEN 1 ELSE 0)
<1> DEFINE P == {i \in 1..Len(q) : q[i] = k}
           PT == {i \in 1..Len(Tail(q)) : Tail(q)[i] = k}
           shift == [i \in PT |-> i + 1]
<1>1. /\ Len(q) \in Nat \ {0} /\ Len(Tail(q)) = Len(q) - 1
      /\ \A i \in 1..Len(Tail(q)) : Tail(q)[i] = q[i + 1]
      /\ Head(q) = q[1] /\ Tail(q) \in Seq(S)
  <2>1. Len(q) \in Nat \ {0} OBVIOUS
  <2>2. Tail(q) \in Seq(S) /\ Len(Tail(q)) = Len(q) - 1 OBVIOUS
  <2>3. \A i \in 1..Len(Tail(q)) : Tail(q)[i] = q[i + 1] OBVIOUS
  <2>. QED BY <2>1, <2>2, <2>3
<1>2. IsFiniteSet(PT) /\ Cardinality(PT) \in Nat
  <2>1. Tail(q) \in Seq(S) BY <1>1
  <2>2. IsFiniteSet(PT) BY <2>1, CountType
  <2>. QED BY <2>2, FS_CardinalityType
<1>0. CountIn(q, k) = Cardinality(P) /\ CountIn(Tail(q), k) = Cardinality(PT)
  BY DEF CountIn
<1>3. shift \in Bijection(PT, P \ {1})
  <2>1. \A i \in PT : i + 1 \in P \ {1} BY <1>1
  <2>2. \A i, j \in PT : shift[i] = shift[j] => i = j BY <1>1
  <2>3. \A j \in P \ {1} : \E i \in PT : shift[i] = j
    <3> TAKE j \in P \ {1}
    <3>1. j - 1 \in PT /\ shift[j - 1] = j BY <1>1
    <3>. QED BY <3>1
  <2>. QED BY <2>1, <2>2, <2>3, Fun_IsBij
<1>4. IsFiniteSet(P \ {1}) /\ Cardinality(P \ {1}) = Cardinality(PT)
  BY <1>2, <1>3, FS_Bijection, Fun_ExistsBij
<1>5. CASE Head(q) = k
  <2>1. P = (P \ {1}) \cup {1} /\ 1 \notin P \ {1} BY <1>1, <1>5
  <2>2. Cardinality((P \ {1}) \cup {1}) = Cardinality(P \ {1}) + 1
    BY <1>4, <2>1, FS_AddElement
  <2>3. Cardinality(P) = Cardinality(PT) + 1 BY <1>4, <2>1, <2>2
  <2> HIDE DEF P, PT
  <2>. QED BY <1>0, <1>5, <2>3
<1>6. CASE Head(q) # k
  <2>1. P = P \ {1} BY <1>1, <1>6
  <2>2. Cardinality(P) = Cardinality(PT) BY <1>4, <2>1
  <2> HIDE DEF P, PT
  <2>. QED BY <1>2, <1>0, <1>6, <2>2
<1>. QED BY <1>5, <1>6

-----------------------------------------------------------------------------
\* Type correctness.

PCType == [Batches -> [Clients -> {"unborn"} \cup Running \cup Ended]]

(* All variables start with their types. *)
LEMMA TypeInit == Init => TypeOK
<1> SUFFICES ASSUME Init PROVE TypeOK OBVIOUS
<1> USE DEF Init, RunInit, NoAnswers
<1>1. stop \in BOOLEAN /\ pc \in PCType BY DEF PCType
<1>2. requestsSent \in [Batches -> [Clients -> Nat]] OBVIOUS
<1>3. stats \in [Batches -> [Clients -> RequestStats]] BY DEF RequestStats
<1>4. chan \in [Batches -> Seq(RequestStats)] OBVIOUS
<1>5. receiver \in [Batches -> {"none", "open", "finished", "dropped"}] OBVIOUS
<1>6. issued \in [Batches -> Nat] /\ late \in [Batches -> [Clients -> Nat]] OBVIOUS
<1>7. /\ answered \in [Batches -> [RequestStats -> Nat]]
      /\ tally \in [Batches -> [RequestStats -> Nat]]
  OBVIOUS
<1>8. batch \in 0..NumBatches /\ joining \in Clients
  BY ConstantsAssumption DEF ConstantsAssumption, Clients
<1>9. result \in [Batches -> {"none", "ok", "err"}] OBVIOUS
<1>. QED BY <1>1, <1>2, <1>3, <1>4, <1>5, <1>6, <1>7, <1>8, <1>9
         DEF TypeOK, RunTypeOK, PCType

(* A task that moves to a known point keeps the type of pc. *)
LEMMA TypeGoto ==
  ASSUME TypeOK, NEW b \in Batches, NEW c \in Clients,
         NEW to \in Running \cup Ended,
         pc' = [pc EXCEPT ![b][c] = to]
  PROVE  pc' \in PCType
BY DEF TypeOK, RunTypeOK, PCType

(* The steps of one client task keep the types. *)
LEMMA TypeTask ==
  ASSUME TypeOK, NEW b \in Batches, NEW c \in Clients,
         TaskStep(b, c), UNCHANGED batchVars
  PROVE  TypeOK'
<1>1. pc' \in PCType
  <2> USE TypeGoto DEF Goto, Running, Ended
  <2>1. CASE BuildClient(b, c) BY <2>1 DEF BuildClient
  <2>2. CASE BuildClientFails(b, c) BY <2>2 DEF BuildClientFails
  <2>3. CASE CheckWork(b, c)
    <3>1. \/ pc' = [pc EXCEPT ![b][c] = "acquire"]
          \/ pc' = [pc EXCEPT ![b][c] = "finished"]
      BY <2>3 DEF CheckWork
    <3>. QED BY <3>1
  <2>4. CASE LoadStop(b, c) BY <2>4 DEF LoadStop
  <2>5. CASE SendRequest(b, c) BY <2>5 DEF SendRequest
  <2>6. CASE TimeOut(b, c) BY <2>6 DEF TimeOut
  <2>7. CASE Report(b, c) BY <2>7 DEF Report, AfterReport
  <2>8. CASE ReportToClosed(b, c) BY <2>8 DEF ReportToClosed
  <2>9. CASE TripStop(b, c) BY <2>9 DEF TripStop
  <2>10. ASSUME NEW k \in RequestStats, Respond(b, c, k) PROVE pc' \in PCType
    BY <2>10 DEF Respond
  <2>. QED BY <2>1, <2>2, <2>3, <2>4, <2>5, <2>6, <2>7, <2>8, <2>9, <2>10
           DEF TaskStep, OwnStep
<1>2. stop' \in BOOLEAN /\ receiver' = receiver
  BY DEF TypeOK, RunTypeOK, TaskStep, OwnStep, BuildClient, BuildClientFails, CheckWork,
         LoadStop, SendRequest, Respond, TimeOut, Report, ReportToClosed, TripStop
<1> USE DEF TaskStep, OwnStep, BuildClient, BuildClientFails, CheckWork, LoadStop,
            SendRequest, Respond, TimeOut, Report, ReportToClosed, TripStop
<1>3. requestsSent' \in [Batches -> [Clients -> Nat]]
  <2>1. requestsSent \in [Batches -> [Clients -> Nat]] BY DEF TypeOK, RunTypeOK
  <2>2. requestsSent' = requestsSent \/ requestsSent' = [requestsSent EXCEPT ![b][c] = @ + 1]
    OBVIOUS
  <2> HIDE DEF TaskStep
  <2>. QED BY <2>1, <2>2
<1>4. stats' \in [Batches -> [Clients -> RequestStats]]
  <2>1. stats \in [Batches -> [Clients -> RequestStats]] BY DEF TypeOK, RunTypeOK
  <2>2. stats' = stats \/ \E k \in RequestStats : stats' = [stats EXCEPT ![b][c] = k]
    BY DEF RequestStats
  <2> HIDE DEF TaskStep
  <2>. QED BY <2>1, <2>2
<1>5. chan' \in [Batches -> Seq(RequestStats)]
  <2>1. stats[b][c] \in RequestStats /\ chan \in [Batches -> Seq(RequestStats)]
    BY DEF TypeOK, RunTypeOK
  <2>2. Append(chan[b], stats[b][c]) \in Seq(RequestStats) BY <2>1
  <2>3. chan' = chan \/ chan' = [chan EXCEPT ![b] = Append(chan[b], stats[b][c])]
    OBVIOUS
  <2> HIDE DEF TaskStep
  <2>. QED BY <2>1, <2>2, <2>3
<1>6. issued' \in [Batches -> Nat]
  <2>1. issued \in [Batches -> Nat] BY DEF TypeOK, RunTypeOK
  <2>2. issued' = issued \/ issued' = [issued EXCEPT ![b] = @ + 1]
    OBVIOUS
  <2> HIDE DEF TaskStep
  <2>. QED BY <2>1, <2>2
<1>7. answered' \in [Batches -> [RequestStats -> Nat]]
  <2>1. answered \in [Batches -> [RequestStats -> Nat]] BY DEF TypeOK, RunTypeOK
  <2>2. answered' = answered \/ \E k \in RequestStats : answered' = [answered EXCEPT ![b][k] = @ + 1]
    OBVIOUS
  <2> HIDE DEF TaskStep
  <2>. QED BY <2>1, <2>2
<1>8. late' \in [Batches -> [Clients -> Nat]]
  <2>1. late \in [Batches -> [Clients -> Nat]] BY DEF TypeOK, RunTypeOK
  <2>2. late' = late \/ late' = [late EXCEPT ![b][c] = IF stop THEN @ + 1 ELSE @]
    OBVIOUS
  <2> HIDE DEF TaskStep
  <2>. QED BY <2>1, <2>2
<1>. HIDE DEF TaskStep
<1>. QED BY <1>1, <1>2, <1>3, <1>4, <1>5, <1>6, <1>7, <1>8
         DEF TypeOK, RunTypeOK, PCType, batchVars

(* The steps of main, the aggregators and the runtime keep the types. *)
LEMMA TypeBatch ==
  ASSUME TypeOK
  PROVE  /\ MainStep => TypeOK'
         /\ \A b \in Batches : AggregatorStep(b) \/ AbortAggregator(b) => TypeOK'
         /\ \A b \in Batches, c \in Clients : AbortTask(b, c) => TypeOK'
<1> USE DEF TypeOK, RunTypeOK, batchVars, runVars
<1>1. ASSUME StartBatch PROVE TypeOK'
  <2>1. batch' \in Batches /\ batch' \in 0..NumBatches
    BY <1>1, ConstantsAssumption DEF StartBatch, Batches, ConstantsAssumption
  <2>2. joining' \in Clients /\ main' = "join"
    BY <1>1, ConstantsAssumption DEF StartBatch, Clients, ConstantsAssumption
  <2>3. pc' \in PCType BY <1>1, <2>1 DEF StartBatch, PCType, Running
  <2>4. late' \in [Batches -> [Clients -> Nat]] BY <1>1 DEF StartBatch
  <2>5. /\ stop' \in BOOLEAN
        /\ receiver' \in [Batches -> {"none", "open", "finished", "dropped"}]
    BY <1>1, <2>1 DEF StartBatch, ResetStopFlag
  <2>. QED BY <1>1, <2>1, <2>2, <2>3, <2>4, <2>5 DEF StartBatch, PCType
<1>2. ASSUME Join PROVE TypeOK'
  <2>1. joining' \in Clients /\ main' \in {"join", "collect"}
    BY <1>2, ConstantsAssumption DEF Join, Clients, ConstantsAssumption
  <2>. QED BY <1>2, <2>1 DEF Join
<1>3. ASSUME JoinErr PROVE TypeOK' BY <1>3 DEF JoinErr
<1>4. ASSUME CollectMetrics PROVE TypeOK' BY <1>4 DEF CollectMetrics
<1>5. ASSUME Exit PROVE TypeOK' BY <1>5 DEF Exit
<1>6. ASSUME NEW b \in Batches, Aggregate(b) PROVE TypeOK'
  <2>1. Head(chan[b]) \in RequestStats /\ Tail(chan[b]) \in Seq(RequestStats)
    BY <1>6 DEF Aggregate
  <2>2. tally' \in [Batches -> [RequestStats -> Nat]] BY <1>6, <2>1, SMTT(20) DEF Aggregate
  <2>3. chan' \in [Batches -> Seq(RequestStats)] BY <1>6, <2>1 DEF Aggregate
  <2>. QED BY <1>6, <2>2, <2>3 DEF Aggregate
<1>7. ASSUME NEW b \in Batches, FinishAggregator(b) PROVE TypeOK'
  BY <1>7 DEF FinishAggregator
<1>8. ASSUME NEW b \in Batches, AbortAggregator(b) PROVE TypeOK'
  BY <1>8 DEF AbortAggregator
<1>9. ASSUME NEW b \in Batches, NEW c \in Clients, AbortTask(b, c) PROVE TypeOK'
  <2>1. pc' \in PCType BY <1>9, TypeGoto DEF AbortTask, Ended
  <2>2. stats' \in [Batches -> [Clients -> RequestStats]]
    BY <1>9 DEF AbortTask, RequestStats
  <2>. QED BY <1>9, <2>1, <2>2 DEF AbortTask, PCType
<1>. QED BY <1>1, <1>2, <1>3, <1>4, <1>5, <1>6, <1>7, <1>8, <1>9
         DEF MainStep, AggregatorStep

(* A step that changes nothing. *)
LEMMA TypeStutter == ASSUME TypeOK, UNCHANGED vars PROVE TypeOK'
BY DEF TypeOK, RunTypeOK, vars, runVars, batchVars

(* Every variable keeps its type in every step of the tasks, the aggregators,
   the main task and the runtime. *)
THEOREM TypeCorrect == Spec => []TypeOK
<1>1. TypeOK /\ [Next]_vars => TypeOK'
  BY TypeTask, TypeBatch, TypeStutter DEF Next, Terminated
<1>. QED BY TypeInit, <1>1, PTL DEF Spec

-----------------------------------------------------------------------------
\* The invariant of the batches.

(* A step of a task moves this task only, and touches the channel and the
   answers of its own batch only. *)
LEMMA TaskFrame ==
  ASSUME TypeOK, NEW b \in Batches, NEW c \in Clients, TaskStep(b, c)
  PROVE  /\ pc[b][c] \in Running
         /\ \E to \in Running \cup Ended : pc' = [pc EXCEPT ![b][c] = to]
         /\ receiver' = receiver
         /\ \A other \in Batches \ {b} :
              chan'[other] = chan[other] /\ answered'[other] = answered[other]
<1>1. pc[b][c] \in Running /\ receiver' = receiver
  BY DEF TaskStep, OwnStep, BuildClient, BuildClientFails, CheckWork, LoadStop,
         SendRequest, Respond, TimeOut, Report, ReportToClosed, TripStop, Goto, Running
<1>2. \E to \in Running \cup Ended : pc' = [pc EXCEPT ![b][c] = to]
  <2> USE DEF Goto, Running, Ended
  <2>1. CASE BuildClient(b, c) BY <2>1 DEF BuildClient
  <2>2. CASE BuildClientFails(b, c) BY <2>2 DEF BuildClientFails
  <2>3. CASE CheckWork(b, c) BY <2>3 DEF CheckWork
  <2>4. CASE LoadStop(b, c) BY <2>4 DEF LoadStop
  <2>5. CASE SendRequest(b, c) BY <2>5 DEF SendRequest
  <2>6. CASE TimeOut(b, c) BY <2>6 DEF TimeOut
  <2>7. CASE Report(b, c) BY <2>7 DEF Report, AfterReport
  <2>8. CASE ReportToClosed(b, c) BY <2>8 DEF ReportToClosed
  <2>9. CASE TripStop(b, c) BY <2>9 DEF TripStop
  <2>10. CASE \E k \in RequestStats : Respond(b, c, k) BY <2>10 DEF Respond
  <2>. QED BY <2>1, <2>2, <2>3, <2>4, <2>5, <2>6, <2>7, <2>8, <2>9, <2>10
           DEF TaskStep, OwnStep
<1>3. chan' = chan \/ chan' = [chan EXCEPT ![b] = Append(chan[b], stats[b][c])]
  BY DEF TaskStep, OwnStep, BuildClient, BuildClientFails, CheckWork, LoadStop,
         SendRequest, Respond, TimeOut, Report, ReportToClosed, TripStop
<1>4. \/ answered' = answered
      \/ \E k \in RequestStats : answered' = [answered EXCEPT ![b][k] = @ + 1]
  BY DEF TaskStep, OwnStep, BuildClient, BuildClientFails, CheckWork, LoadStop,
         SendRequest, Respond, TimeOut, Report, ReportToClosed, TripStop
<1>5. \A other \in Batches \ {b} : chan'[other] = chan[other]
  BY <1>3 DEF TypeOK, RunTypeOK
<1>6. \A other \in Batches \ {b} : answered'[other] = answered[other]
  BY <1>4 DEF TypeOK, RunTypeOK
<1>. QED BY <1>1, <1>2, <1>5, <1>6

(* A step of a task keeps the order of the batches, of the joins and of the
   end of the aggregators. *)
LEMMA OrderTask ==
  ASSUME TypeOK, OneByOne, JoinedSoFar, FinishedLast,
         NEW b \in Batches, NEW c \in Clients,
         TaskStep(b, c), UNCHANGED batchVars
  PROVE  OneByOne' /\ JoinedSoFar' /\ FinishedLast'
<1>1. PICK to \in Running \cup Ended : pc' = [pc EXCEPT ![b][c] = to]
  BY TaskFrame
<1>2. /\ pc[b][c] \in Running /\ receiver' = receiver
      /\ \A other \in Batches \ {b} :
           chan'[other] = chan[other] /\ answered'[other] = answered[other]
      /\ main' = main /\ batch' = batch /\ joining' = joining
      /\ tally' = tally /\ result' = result
  BY TaskFrame DEF batchVars
<1>3. \A b2 \in Batches, c2 \in Clients : b2 # b \/ c2 # c => pc'[b2][c2] = pc[b2][c2]
  BY <1>1 DEF TypeOK, RunTypeOK
<1>4. ~ (b > batch) /\ receiver[b] # "finished" /\ result[b] # "ok"
  BY <1>2 DEF OneByOne, FinishedLast, TaskEnded, Running, Ended
<1>5. OneByOne' BY <1>2, <1>3, <1>4 DEF OneByOne
<1>6. JoinedSoFar'
  <2>1. SUFFICES ASSUME NEW c2 \in Clients,
                        main = "collect" \/ (main = "join" /\ c2 < joining)
                 PROVE  pc'[batch][c2] \in ReturnedOk
    BY <1>2 DEF JoinedSoFar
  <2>2. batch \in Batches /\ pc[batch][c2] \in ReturnedOk
    BY <2>1 DEF OneByOne, JoinedSoFar
  <2>3. batch # b \/ c2 # c BY <1>2, <2>2 DEF Running, ReturnedOk
  <2>. QED BY <1>3, <2>2, <2>3
<1>7. FinishedLast' BY <1>2, <1>3, <1>4 DEF FinishedLast, TaskEnded
<1>. QED BY <1>5, <1>6, <1>7

(* The clients at the channel are finitely many. *)
LEMMA ReportingFinite ==
  ASSUME NEW b, NEW k
  PROVE  IsFiniteSet(Reporting(b, k)) /\ Cardinality(Reporting(b, k)) \in Nat
<1>1. IsFiniteSet(Clients)
  BY ConstantsAssumption, FS_Interval DEF Clients, ConstantsAssumption
<1>2. Reporting(b, k) \in SUBSET Clients BY DEF Reporting
<1>3. IsFiniteSet(Reporting(b, k)) BY <1>1, <1>2, FS_Subset
<1>. QED BY <1>3, FS_CardinalityType

(* Nothing is under way to an aggregator that has ended. *)
LEMMA NothingUnderway ==
  ASSUME TypeOK, FinishedLast, MetricsConserved, main # "done",
         NEW b \in Batches, receiver[b] = "finished"
  PROVE  tally[b] = answered[b]
<1>1. ASSUME NEW k \in RequestStats PROVE tally[b][k] = answered[b][k]
  <2>1. Reporting(b, k) = {}
    BY DEF FinishedLast, TaskEnded, Reporting, Ended
  <2>2. CountIn(chan[b], k) = 0 /\ Cardinality(Reporting(b, k)) = 0
    BY <2>1, CountEmpty, FS_EmptySet DEF FinishedLast
  <2>3. answered[b][k] = tally[b][k] + CountIn(chan[b], k) + Cardinality(Reporting(b, k))
    BY DEF MetricsConserved
  <2>4. tally[b][k] \in Nat BY DEF TypeOK
  <2>. QED BY <2>2, <2>3, <2>4
<1>. QED BY <1>1 DEF TypeOK, RunTypeOK

(* So does a step of main, of an aggregator or of the runtime; that a batch
   that returns Ok has counted all of its answers is where conservation of the
   answers is needed. *)
LEMMA OrderBatch ==
  ASSUME TypeOK, BatchInv
  PROVE  /\ MainStep => OneByOne' /\ JoinedSoFar' /\ FinishedLast'
         /\ \A b \in Batches :
              AggregatorStep(b) \/ AbortAggregator(b)
                => OneByOne' /\ JoinedSoFar' /\ FinishedLast'
         /\ \A b \in Batches, c \in Clients :
              AbortTask(b, c) => OneByOne' /\ JoinedSoFar' /\ FinishedLast'
<1> DEFINE Goal == OneByOne /\ JoinedSoFar /\ FinishedLast
<1> USE DEF BatchInv
<1>1. ASSUME StartBatch PROVE Goal'
  <2> USE <1>1 DEF StartBatch
  <2>1. /\ batch \in Nat /\ batch' = batch + 1 /\ batch' \in Batches
        /\ main = "next" /\ main' = "join" /\ joining' = 1
        /\ result' = result /\ chan' = chan /\ tally' = tally /\ answered' = answered
    BY ConstantsAssumption DEF Batches, TypeOK, ConstantsAssumption
  <2>2. \A b \in Batches \ {batch'} : receiver'[b] = receiver[b] /\ pc'[b] = pc[b]
    BY DEF TypeOK, RunTypeOK
  <2>3. receiver'[batch'] = "open" /\ receiver[batch'] = "none" /\ result[batch'] = "none"
    BY <2>1 DEF TypeOK, RunTypeOK, OneByOne
  <2>4. OneByOne' BY <2>1, <2>2, <2>3 DEF OneByOne, Batches
  <2>5. JoinedSoFar' BY <2>1 DEF JoinedSoFar, Clients
  <2>6. FinishedLast' BY <2>1, <2>2, <2>3 DEF FinishedLast, TaskEnded
  <2>. QED BY <2>4, <2>5, <2>6
<1>2. ASSUME Join PROVE Goal'
  <2> USE <1>2 DEF Join
  <2>1. /\ main = "join" /\ main' \in {"join", "collect"} /\ batch' = batch
        /\ pc' = pc /\ result' = result /\ receiver' = receiver /\ chan' = chan
        /\ tally' = tally /\ answered' = answered
        /\ pc[batch][joining] \in ReturnedOk
    BY DEF runVars, JoinedOk
  <2>2. OneByOne' BY <2>1 DEF OneByOne
  <2>3. JoinedSoFar'
    <3>1. ASSUME NEW c \in Clients, c <= joining PROVE pc[batch][c] \in ReturnedOk
      <4>1. c < joining \/ c = joining
        BY <3>1, ConstantsAssumption DEF TypeOK, Clients, ConstantsAssumption
      <4>. QED BY <2>1, <4>1 DEF JoinedSoFar
    <3>2. ASSUME NEW c \in Clients,
                 main' = "collect" \/ (main' = "join" /\ c < joining')
          PROVE  c <= joining
      BY <3>2, ConstantsAssumption DEF TypeOK, Clients, ConstantsAssumption
    <3>. QED BY <2>1, <3>1, <3>2 DEF JoinedSoFar
  <2>4. FinishedLast' BY <2>1 DEF FinishedLast, TaskEnded
  <2>. QED BY <2>2, <2>3, <2>4
<1>3. ASSUME JoinErr PROVE Goal'
  <2> USE <1>3 DEF JoinErr
  <2>1. /\ main = "join" /\ main' = "next" /\ batch' = batch /\ pc' = pc
        /\ receiver' = receiver /\ chan' = chan /\ tally' = tally /\ answered' = answered
        /\ batch \in Batches /\ result' = [result EXCEPT ![batch] = "err"]
    BY DEF runVars, OneByOne
  <2>2. OneByOne' BY <2>1 DEF OneByOne, TypeOK
  <2>3. JoinedSoFar' BY <2>1 DEF JoinedSoFar
  <2>4. FinishedLast' BY <2>1 DEF FinishedLast, TaskEnded, TypeOK
  <2>. QED BY <2>2, <2>3, <2>4
<1>4. ASSUME CollectMetrics PROVE Goal'
  <2> USE <1>4 DEF CollectMetrics
  <2>1. /\ main = "collect" /\ main' = "next" /\ batch' = batch /\ pc' = pc
        /\ receiver' = receiver /\ chan' = chan /\ tally' = tally /\ answered' = answered
        /\ batch \in Batches /\ result' = [result EXCEPT ![batch] = "ok"]
        /\ receiver[batch] = "finished"
    BY DEF runVars, OneByOne
  <2>2. tally[batch] = answered[batch]
    BY <2>1, NothingUnderway
  <2>3. OneByOne' BY <2>1 DEF OneByOne, TypeOK
  <2>4. JoinedSoFar' BY <2>1 DEF JoinedSoFar
  <2>5. FinishedLast' BY <2>1, <2>2 DEF FinishedLast, TaskEnded, TypeOK
  <2>. QED BY <2>3, <2>4, <2>5
<1>5. ASSUME Exit PROVE Goal'
  <2>1. /\ main = "next" /\ main' = "done" /\ UNCHANGED <<batch, pc, receiver, chan>>
        /\ UNCHANGED <<tally, answered, result>>
    BY <1>5 DEF Exit, runVars
  <2>. QED BY <2>1 DEF OneByOne, JoinedSoFar, FinishedLast, TaskEnded
<1>6. ASSUME NEW b \in Batches, Aggregate(b) PROVE Goal'
  <2>1. /\ receiver[b] = "open" /\ UNCHANGED <<pc, receiver, answered>>
        /\ UNCHANGED <<main, batch, joining, result>>
        /\ \A b2 \in Batches \ {b} : chan'[b2] = chan[b2] /\ tally'[b2] = tally[b2]
    BY <1>6 DEF Aggregate, TypeOK, RunTypeOK
  <2>. QED BY <2>1 DEF OneByOne, JoinedSoFar, FinishedLast, TaskEnded
<1>7. ASSUME NEW b \in Batches, FinishAggregator(b) PROVE Goal'
  <2>1. /\ receiver[b] = "open" /\ chan[b] = <<>> /\ batch >= b
        /\ \A c \in Clients : TaskEnded(b, c)
        /\ UNCHANGED <<pc, chan, tally, answered, main, batch, joining, result>>
        /\ receiver' = [receiver EXCEPT ![b] = "finished"]
    BY <1>7 DEF FinishAggregator, SendersGone, batchVars
  <2>2. receiver'[b] = "finished" /\ \A b2 \in Batches \ {b} : receiver'[b2] = receiver[b2]
    BY <2>1 DEF TypeOK, RunTypeOK
  <2>3. ~ (b > batch) BY <2>1 DEF OneByOne
  <2>4. OneByOne' BY <2>1, <2>2, <2>3 DEF OneByOne
  <2>5. JoinedSoFar' BY <2>1 DEF JoinedSoFar
  <2>6. FinishedLast' BY <2>1, <2>2 DEF FinishedLast, TaskEnded
  <2>. QED BY <2>4, <2>5, <2>6
<1>8. ASSUME NEW b \in Batches, AbortAggregator(b) PROVE Goal'
  <2>1. /\ receiver[b] = "open" /\ main = "done"
        /\ UNCHANGED <<pc, tally, answered, main, batch, joining, result>>
        /\ receiver' = [receiver EXCEPT ![b] = "dropped"]
        /\ \A b2 \in Batches \ {b} : chan'[b2] = chan[b2]
    BY <1>8 DEF AbortAggregator, batchVars, TypeOK, RunTypeOK
  <2>2. receiver'[b] = "dropped" /\ \A b2 \in Batches \ {b} : receiver'[b2] = receiver[b2]
    BY <2>1 DEF TypeOK, RunTypeOK
  <2>3. ~ (b > batch) BY <2>1 DEF OneByOne
  <2>4. OneByOne' BY <2>1, <2>2, <2>3 DEF OneByOne
  <2>5. JoinedSoFar' BY <2>1 DEF JoinedSoFar
  <2>6. FinishedLast' BY <2>1, <2>2 DEF FinishedLast, TaskEnded
  <2>. QED BY <2>4, <2>5, <2>6
<1>9. ASSUME NEW b \in Batches, NEW c \in Clients, AbortTask(b, c) PROVE Goal'
  <2>1. /\ main = "done" /\ pc[b][c] \notin {"unborn"} \cup Ended
        /\ UNCHANGED <<receiver, chan, tally, answered, main, batch, joining, result>>
        /\ pc' = [pc EXCEPT ![b][c] = "aborted"]
    BY <1>9 DEF AbortTask, batchVars, Ended
  <2>2. \A b2 \in Batches, c2 \in Clients : b2 # b \/ c2 # c => pc'[b2][c2] = pc[b2][c2]
    BY <2>1 DEF TypeOK, RunTypeOK
  <2>3. ~ (b > batch) BY <2>1 DEF OneByOne
  <2>4. OneByOne' BY <2>1, <2>2, <2>3 DEF OneByOne
  <2>5. JoinedSoFar' BY <2>1 DEF JoinedSoFar
  <2>6. receiver[b] # "finished" BY <2>1 DEF FinishedLast, TaskEnded
  <2>7. FinishedLast' BY <2>1, <2>2, <2>6 DEF FinishedLast, TaskEnded
  <2>. QED BY <2>4, <2>5, <2>7
<1>. QED BY <1>1, <1>2, <1>3, <1>4, <1>5, <1>6, <1>7, <1>8, <1>9
         DEF MainStep, AggregatorStep

-----------------------------------------------------------------------------
\* Conservation of the answers.

(* The equation of one batch and one kind. *)
Conserved(b, k) ==
  answered[b][k] = tally[b][k] + CountIn(chan[b], k) + Cardinality(Reporting(b, k))

(* Nothing of the equation changes with a batch's channel, counts and clients. *)
LEMMA ConservedFrame ==
  ASSUME NEW b \in Batches, NEW k \in RequestStats, Conserved(b, k),
         answered'[b][k] = answered[b][k], tally'[b][k] = tally[b][k],
         chan'[b] = chan[b], Reporting(b, k)' = Reporting(b, k)
  PROVE  Conserved(b, k)'
BY DEF Conserved, CountIn

(* Each step of a task takes an answer at most one stage further. *)
LEMMA ConservedTask ==
  ASSUME TypeOK, FinishedLast, MetricsConserved, main # "done",
         NEW b \in Batches, NEW c \in Clients,
         TaskStep(b, c), UNCHANGED batchVars,
         NEW b2 \in Batches, NEW k \in RequestStats
  PROVE  Conserved(b2, k)'
<1>1. Conserved(b2, k) BY DEF MetricsConserved, Conserved
<1>2. tally' = tally BY DEF batchVars
<1>3. CASE b2 # b
  <2>1. \E to : pc' = [pc EXCEPT ![b][c] = to] BY TaskFrame
  <2>2. pc'[b2] = pc[b2] BY <1>3, <2>1 DEF TypeOK, RunTypeOK
  <2>3. stats' = stats \/ \E s : stats' = [stats EXCEPT ![b][c] = s]
    BY DEF TaskStep, OwnStep, BuildClient, BuildClientFails, CheckWork, LoadStop,
           SendRequest, Respond, TimeOut, Report, ReportToClosed, TripStop
  <2>4. stats'[b2] = stats[b2] BY <1>3, <2>3 DEF TypeOK, RunTypeOK
  <2>5. Reporting(b2, k)' = Reporting(b2, k) BY <2>2, <2>4 DEF Reporting
  <2>6. chan'[b2] = chan[b2] /\ answered'[b2] = answered[b2] BY <1>3, TaskFrame
  <2>. QED BY <1>1, <1>2, <2>5, <2>6, ConservedFrame
<1>4. ASSUME b2 = b, \E to \in {"check", "failed", "acquire", "armed", "inflight",
                                "finished", "trip", "tripped"} :
                      pc[b][c] # "report" /\ pc' = [pc EXCEPT ![b][c] = to],
             stats' = stats, chan' = chan, answered' = answered
      PROVE  Conserved(b2, k)'
  <2>1. pc'[b][c] # "report" /\ \A d \in Clients \ {c} : pc'[b][d] = pc[b][d]
    BY <1>4 DEF TypeOK, RunTypeOK
  <2>2. Reporting(b, k)' = Reporting(b, k) BY <1>4, <2>1 DEF Reporting
  <2>. QED BY <1>1, <1>2, <1>4, <2>2, ConservedFrame
<1>5. CASE b2 = b /\ BuildClient(b, c) BY <1>4, <1>5 DEF BuildClient, Goto
<1>6. CASE b2 = b /\ BuildClientFails(b, c) BY <1>4, <1>6 DEF BuildClientFails, Goto
<1>7. CASE b2 = b /\ CheckWork(b, c) BY <1>4, <1>7 DEF CheckWork, Goto
<1>8. CASE b2 = b /\ LoadStop(b, c) BY <1>4, <1>8 DEF LoadStop, Goto
<1>9. CASE b2 = b /\ SendRequest(b, c) BY <1>4, <1>9 DEF SendRequest, Goto
<1>10. CASE b2 = b /\ TimeOut(b, c) BY <1>4, <1>10 DEF TimeOut, Goto
<1>11. CASE b2 = b /\ TripStop(b, c) BY <1>4, <1>11 DEF TripStop, Goto
<1>12. ASSUME b2 = b, NEW j \in RequestStats, Respond(b, c, j) PROVE Conserved(b2, k)'
  <2>1. /\ pc[b][c] = "inflight" /\ pc' = [pc EXCEPT ![b][c] = "report"]
        /\ stats' = [stats EXCEPT ![b][c] = j] /\ chan' = chan
        /\ answered' = [answered EXCEPT ![b][j] = @ + 1]
    BY <1>12 DEF Respond, Goto
  <2>2. /\ pc'[b][c] = "report" /\ stats'[b][c] = j
        /\ \A d \in Clients \ {c} : pc'[b][d] = pc[b][d] /\ stats'[b][d] = stats[b][d]
    BY <2>1 DEF TypeOK, RunTypeOK
  <2>3. c \notin Reporting(b, k) BY <2>1 DEF Reporting
  <2>4. CASE j = k
    <3>1. Reporting(b, k)' = Reporting(b, k) \cup {c} BY <2>2, <2>4 DEF Reporting
    <3>2. Cardinality(Reporting(b, k)') = Cardinality(Reporting(b, k)) + 1
      BY <3>1, <2>3, ReportingFinite, FS_AddElement
    <3>3. answered'[b][k] = answered[b][k] + 1 BY <2>1, <2>4 DEF TypeOK, RunTypeOK
    <3>4. CountIn(chan[b], k) \in Nat BY CountType DEF TypeOK, RunTypeOK
    <3>5. tally[b][k] \in Nat BY DEF TypeOK
    <3>. QED BY <1>1, <1>2, <1>12, <2>1, <3>2, <3>3, <3>4, <3>5, ReportingFinite
             DEF Conserved
  <2>5. CASE j # k
    <3>1. Reporting(b, k)' = Reporting(b, k) BY <2>2, <2>3, <2>5 DEF Reporting
    <3>2. answered'[b][k] = answered[b][k] BY <2>1, <2>5 DEF TypeOK, RunTypeOK
    <3>. QED BY <1>1, <1>2, <1>12, <2>1, <3>1, <3>2, ConservedFrame
  <2>. QED BY <2>4, <2>5
<1>13. CASE b2 = b /\ Report(b, c)
  <2> DEFINE s == stats[b][c]
  <2>0. s \in RequestStats /\ chan[b] \in Seq(RequestStats) BY DEF TypeOK, RunTypeOK
  <2>1. /\ pc[b][c] = "report" /\ answered' = answered
        /\ pc' = [pc EXCEPT ![b][c] = AfterReport(s)]
        /\ stats' = [stats EXCEPT ![b][c] = "normal"]
        /\ chan' = [chan EXCEPT ![b] = Append(chan[b], s)]
    BY <1>13 DEF Report, Goto
  <2>2. /\ pc'[b][c] # "report" /\ chan'[b] = Append(chan[b], s)
        /\ \A d \in Clients \ {c} : pc'[b][d] = pc[b][d] /\ stats'[b][d] = stats[b][d]
    <3>1. AfterReport(s) # "report" BY DEF AfterReport
    <3>2. pc'[b][c] # "report" /\ \A d \in Clients \ {c} : pc'[b][d] = pc[b][d]
      BY <2>1, <3>1 DEF TypeOK, RunTypeOK
    <3>3. \A d \in Clients \ {c} : stats'[b][d] = stats[b][d]
      BY <2>1 DEF TypeOK, RunTypeOK
    <3>4. chan'[b] = Append(chan[b], s) BY <2>1 DEF TypeOK, RunTypeOK
    <3>. QED BY <3>2, <3>3, <3>4
  <2>3. CountIn(chan'[b], k) = CountIn(chan[b], k) + (IF s = k THEN 1 ELSE 0)
    BY <2>0, <2>2, CountAppend
  <2>4. Reporting(b, k)' = Reporting(b, k) \ {c} BY <2>2 DEF Reporting
  <2>5. c \in Reporting(b, k) <=> s = k BY <2>1 DEF Reporting
  <2>6. Cardinality(Reporting(b, k)') = Cardinality(Reporting(b, k)) - (IF s = k THEN 1 ELSE 0)
    <3>1. IsFiniteSet(Reporting(b, k)) /\ Cardinality(Reporting(b, k)) \in Nat
      BY ReportingFinite
    <3>2. Cardinality(Reporting(b, k) \ {c}) =
            IF c \in Reporting(b, k) THEN Cardinality(Reporting(b, k)) - 1
                                     ELSE Cardinality(Reporting(b, k))
      BY <3>1, FS_RemoveElement
    <3>. QED BY <2>4, <2>5, <3>1, <3>2
  <2>7. CountIn(chan[b], k) \in Nat /\ tally[b][k] \in Nat
    BY <2>0, CountType DEF TypeOK
  <2> HIDE DEF s
  <2>. QED BY <1>1, <1>2, <1>13, <2>1, <2>3, <2>6, <2>7, ReportingFinite DEF Conserved
<1>14. ~ ReportToClosed(b, c)
  BY DEF ReportToClosed, Goto, FinishedLast, TaskEnded, Ended
<1>. QED BY <1>3, <1>5, <1>6, <1>7, <1>8, <1>9, <1>10, <1>11, <1>12, <1>13, <1>14
         DEF TaskStep, OwnStep

(* The steps of main keep the equations; an aggregator moves one answer from
   the channel to its counters. *)
LEMMA ConservedBatch ==
  ASSUME TypeOK, BatchInv, main # "done",
         NEW b2 \in Batches, NEW k \in RequestStats
  PROVE  /\ MainStep => Conserved(b2, k)'
         /\ \A b \in Batches : AggregatorStep(b) => Conserved(b2, k)'
<1>1. Conserved(b2, k) BY DEF BatchInv, MetricsConserved, Conserved
<1>2. ASSUME UNCHANGED <<pc, stats, chan, answered, tally>> PROVE Conserved(b2, k)'
  <2>1. Reporting(b2, k)' = Reporting(b2, k) BY <1>2 DEF Reporting
  <2>. QED BY <1>1, <1>2, <2>1, ConservedFrame
<1>3. ASSUME StartBatch PROVE Conserved(b2, k)'
  <2>1. /\ UNCHANGED <<stats, chan, answered, tally>>
        /\ batch \in Nat /\ batch' = batch + 1
        /\ pc' = [pc EXCEPT ![batch'] = [c \in Clients |-> "build"]]
    BY <1>3 DEF StartBatch, TypeOK
  <2>2. Reporting(b2, k)' = Reporting(b2, k)
    <3>1. CASE b2 = batch'
      <4>1. \A c \in Clients : pc[b2][c] = "unborn"
        BY <2>1, <3>1 DEF BatchInv, OneByOne, Batches
      <4>2. \A c \in Clients : pc'[b2][c] = "build"
        BY <2>1, <3>1 DEF TypeOK, RunTypeOK
      <4>. QED BY <4>1, <4>2 DEF Reporting
    <3>2. CASE b2 # batch'
      <4>1. pc'[b2] = pc[b2] BY <2>1, <3>2 DEF TypeOK, RunTypeOK
      <4>. QED BY <2>1, <4>1 DEF Reporting
    <3>. QED BY <3>1, <3>2
  <2>. QED BY <1>1, <2>1, <2>2, ConservedFrame
<1>4. ASSUME NEW b \in Batches, Aggregate(b) PROVE Conserved(b2, k)'
  <2>1. /\ chan[b] # <<>> /\ chan[b] \in Seq(RequestStats)
        /\ UNCHANGED <<pc, stats, answered>>
        /\ tally' = [tally EXCEPT ![b][Head(chan[b])] = @ + 1]
        /\ chan' = [chan EXCEPT ![b] = Tail(chan[b])]
    BY <1>4 DEF Aggregate, TypeOK, RunTypeOK
  <2>2. Reporting(b2, k)' = Reporting(b2, k) BY <2>1 DEF Reporting
  <2>3. CASE b2 # b
    <3>1. chan'[b2] = chan[b2] /\ tally'[b2][k] = tally[b2][k]
      BY <2>1, <2>3 DEF TypeOK, RunTypeOK
    <3>. QED BY <1>1, <2>1, <2>2, <3>1, ConservedFrame
  <2>4. CASE b2 = b
    <3>1. chan'[b] = Tail(chan[b]) BY <2>1 DEF TypeOK, RunTypeOK
    <3>2. CountIn(chan[b], k) = CountIn(chan'[b], k) + (IF Head(chan[b]) = k THEN 1 ELSE 0)
      BY <2>1, <3>1, CountTail
    <3>3. Head(chan[b]) \in RequestStats /\ Tail(chan[b]) \in Seq(RequestStats) BY <2>1
    <3>4. CountIn(chan'[b], k) \in Nat BY <3>1, <3>3, CountType
    <3>5. tally'[b][k] = tally[b][k] + (IF Head(chan[b]) = k THEN 1 ELSE 0)
      BY <2>1, <3>3 DEF TypeOK
    <3>6. tally[b][k] \in Nat BY DEF TypeOK
    <3>. QED BY <1>1, <2>1, <2>2, <2>4, <3>2, <3>4, <3>5, <3>6, ReportingFinite
             DEF Conserved
  <2>. QED BY <2>3, <2>4
<1>5. ASSUME NEW b \in Batches, FinishAggregator(b) PROVE Conserved(b2, k)'
  BY <1>2, <1>5 DEF FinishAggregator, batchVars
<1>6. ASSUME Join \/ JoinErr \/ CollectMetrics \/ Exit PROVE Conserved(b2, k)'
  BY <1>2, <1>6 DEF Join, JoinErr, CollectMetrics, Exit, runVars
<1>. QED BY <1>3, <1>4, <1>5, <1>6 DEF MainStep, AggregatorStep

-----------------------------------------------------------------------------
\* The theorems.

(* No batch, task or answer exists at the start. *)
LEMMA BatchInvInit == Init => BatchInv
<1> SUFFICES ASSUME Init PROVE BatchInv OBVIOUS
<1>1. OneByOne BY DEF Init, RunInit, OneByOne, Batches
<1>2. JoinedSoFar BY DEF Init, JoinedSoFar
<1>3. FinishedLast BY DEF Init, RunInit, FinishedLast
<1>4. MetricsConserved
  <2>1. ASSUME NEW b \in Batches, NEW k \in RequestStats
        PROVE  /\ answered[b][k] = 0 /\ tally[b][k] = 0
               /\ chan[b] = <<>> /\ Reporting(b, k) = {}
    BY DEF Init, RunInit, NoAnswers, Reporting
  <2>2. ASSUME NEW b \in Batches, NEW k \in RequestStats
        PROVE  CountIn(chan[b], k) = 0 /\ Cardinality(Reporting(b, k)) = 0
    BY <2>1, CountEmpty, FS_EmptySet
  <2>. QED BY <2>1, <2>2 DEF MetricsConserved
<1>. QED BY <1>1, <1>2, <1>3, <1>4 DEF BatchInv

(* Main does not come back from its end. *)
LEMMA DoneStays == ASSUME main = "done", [Next]_vars PROVE main' = "done"
BY DEF Next, MainStep, StartBatch, Join, JoinErr, CollectMetrics, Exit, AggregatorStep,
       Aggregate, FinishAggregator, AbortAggregator, AbortTask, Terminated, batchVars, vars

(* Every step keeps the invariant. *)
LEMMA BatchInvStep == ASSUME TypeOK, BatchInv, [Next]_vars PROVE BatchInv'
<1>1. CASE UNCHANGED vars
  BY <1>1 DEF vars, runVars, batchVars, BatchInv, OneByOne, JoinedSoFar, FinishedLast,
              TaskEnded, MetricsConserved, Reporting, CountIn
<1>2. CASE Next /\ ~ UNCHANGED vars
  <2>1. OneByOne' /\ JoinedSoFar' /\ FinishedLast'
    BY <1>2, OrderTask, OrderBatch DEF Next, BatchInv, Terminated
  <2>2. ASSUME main' # "done" PROVE MetricsConserved'
    <3>1. main # "done" BY <2>2, DoneStays
    <3>2. ASSUME NEW b \in Batches, NEW k \in RequestStats PROVE Conserved(b, k)'
      BY <1>2, <3>1, ConservedTask, ConservedBatch
         DEF Next, BatchInv, AbortTask, AbortAggregator, Terminated
    <3>. QED BY <3>2 DEF MetricsConserved, Conserved
  <2>3. MetricsConserved' BY <2>2 DEF MetricsConserved
  <2>. QED BY <2>1, <2>3 DEF BatchInv
<1>. QED BY <1>1, <1>2

(* The invariant of the batches holds in every state. *)
THEOREM BatchInvariant == Spec => []BatchInv
BY BatchInvInit, BatchInvStep, TypeCorrect, PTL DEF Spec

(* No answer is lost or counted twice between the clients and the metrics of
   their batch, for any number of clients and capacity of the channel, with
   batches that fail included (bench_run.rs 122-128, bench_session.rs 97-118). *)
THEOREM Conservation == Spec => []MetricsConserved
<1>1. BatchInv => MetricsConserved BY DEF BatchInv
<1>. QED BY <1>1, BatchInvariant, PTL

(* The metrics of a batch that returned Ok hold all of its answers, for ever. *)
THEOREM OkIsComplete == Spec => []OkResultComplete
<1>1. BatchInv => OkResultComplete BY DEF BatchInv, FinishedLast, OkResultComplete
<1>. QED BY <1>1, BatchInvariant, PTL

-----------------------------------------------------------------------------
\* Overshoot after a fatal error.

(* The strengthened form of StopOvershoot is kept by every step. *)
LEMMA LateOnceStep == ASSUME TypeOK, LateOnce, [Next]_vars PROVE LateOnce'
<1> SUFFICES ASSUME NEW b2 \in Batches, NEW c2 \in Clients
             PROVE  /\ late'[b2][c2] <= 1
                    /\ late'[b2][c2] = 1 => stop' /\ pc'[b2][c2] # "armed"
  BY DEF LateOnce
<1>1. /\ late[b2][c2] <= 1 /\ late[b2][c2] \in Nat
      /\ late[b2][c2] = 1 => stop /\ pc[b2][c2] # "armed"
  BY DEF LateOnce, TypeOK, RunTypeOK
<1>2. CASE StartBatch
  <2>1. late' = [b \in Batches |-> [c \in Clients |-> 0]] BY <1>2 DEF StartBatch
  <2>. QED BY <2>1
<1>3. ASSUME NEW b \in Batches, NEW c \in Clients, TaskStep(b, c)
      PROVE  /\ late'[b2][c2] <= 1
             /\ late'[b2][c2] = 1 => stop' /\ pc'[b2][c2] # "armed"
  <2>1. stop => stop'
    BY <1>3 DEF TaskStep, OwnStep, BuildClient, BuildClientFails, CheckWork, LoadStop,
                SendRequest, Respond, TimeOut, Report, ReportToClosed, TripStop
  <2>2. PICK to \in Running \cup Ended : pc' = [pc EXCEPT ![b][c] = to]
    BY <1>3, TaskFrame
  <2>3. CASE SendRequest(b, c)
    <3>1. /\ pc[b][c] = "armed" /\ pc' = [pc EXCEPT ![b][c] = "inflight"] /\ stop' = stop
          /\ late' = [late EXCEPT ![b][c] = IF stop THEN @ + 1 ELSE @]
      BY <2>3 DEF SendRequest, Goto
    <3>2. CASE b2 = b /\ c2 = c
      <4>1. late[b2][c2] = 0 /\ pc'[b2][c2] = "inflight"
        BY <1>1, <3>1, <3>2 DEF TypeOK, RunTypeOK
      <4>2. late'[b2][c2] = IF stop THEN 1 ELSE 0
        BY <3>1, <3>2, <4>1 DEF TypeOK, RunTypeOK
      <4>. QED BY <3>1, <4>1, <4>2
    <3>3. CASE ~ (b2 = b /\ c2 = c)
      <4>1. late'[b2][c2] = late[b2][c2] BY <3>1, <3>3 DEF TypeOK, RunTypeOK
      <4>2. pc'[b2][c2] = pc[b2][c2] BY <3>1, <3>3 DEF TypeOK, RunTypeOK
      <4>. QED BY <1>1, <3>1, <4>1, <4>2
    <3>. QED BY <3>2, <3>3
  <2>4. CASE LoadStop(b, c)
    <3>1. /\ pc' = [pc EXCEPT ![b][c] = IF stop THEN "finished" ELSE "armed"]
          /\ late' = late /\ stop' = stop
      BY <2>4 DEF LoadStop, Goto
    <3>2. stop => pc'[b2][c2] = "finished" \/ pc'[b2][c2] = pc[b2][c2]
      BY <3>1 DEF TypeOK, RunTypeOK
    <3>. QED BY <1>1, <3>1, <3>2
  <2>5. CASE ~ SendRequest(b, c) /\ ~ LoadStop(b, c)
    <3>1. late' = late
      BY <1>3, <2>5 DEF TaskStep, OwnStep, BuildClient, BuildClientFails, CheckWork,
                        Respond, TimeOut, Report, ReportToClosed, TripStop
    <3>2. pc'[b][c] # "armed"
      <4>1. ASSUME NEW x, x # "armed", pc' = [pc EXCEPT ![b][c] = x]
            PROVE  pc'[b][c] # "armed"
        BY <4>1 DEF TypeOK, RunTypeOK
      <4>. QED
        BY <1>3, <2>5, <4>1
        DEF TaskStep, OwnStep, BuildClient, BuildClientFails, CheckWork, Goto,
            Respond, TimeOut, Report, AfterReport, ReportToClosed, TripStop
    <3>3. pc'[b2][c2] = pc[b2][c2] \/ (b2 = b /\ c2 = c)
      BY <2>2 DEF TypeOK, RunTypeOK
    <3>. QED BY <1>1, <2>1, <3>1, <3>2, <3>3
  <2>. QED BY <2>3, <2>4, <2>5
<1>4. ASSUME NEW b \in Batches, NEW c \in Clients, AbortTask(b, c)
      PROVE  /\ late'[b2][c2] <= 1
             /\ late'[b2][c2] = 1 => stop' /\ pc'[b2][c2] # "armed"
  <2>1. UNCHANGED <<stop, late>> /\ pc' = [pc EXCEPT ![b][c] = "aborted"]
    BY <1>4 DEF AbortTask
  <2>2. pc'[b2][c2] \in {pc[b2][c2], "aborted"} BY <2>1 DEF TypeOK, RunTypeOK
  <2>. QED BY <1>1, <2>1, <2>2
<1>5. CASE UNCHANGED <<stop, pc, late>> BY <1>1, <1>5
<1>. QED BY <1>2, <1>3, <1>4, <1>5
         DEF Next, MainStep, Join, JoinErr, CollectMetrics, Exit, AggregatorStep, Aggregate,
             FinishAggregator, AbortAggregator, Terminated, vars, runVars

(* Once a client has raised the stop flag, every other client, of this batch
   or left over from an earlier one, issues at most one more request: the one
   it had decided to send before (bench_run.rs 112-118). *)
THEOREM AtMostOneLate == Spec => []StopOvershoot
<1>1. Init => LateOnce BY DEF Init, RunInit, LateOnce
<1>2. LateOnce => StopOvershoot BY DEF LateOnce, StopOvershoot
<1>. QED BY <1>1, <1>2, LateOnceStep, TypeCorrect, PTL DEF Spec

-----------------------------------------------------------------------------
\* Refinement.

(* What the contract sees of a step that changes none of its variables. *)
LEMMA ContractStutter ==
  ASSUME UNCHANGED <<batch, result, answered>>,
         \A b \in Batches : result[b] = "ok" => tally'[b] = tally[b]
  PROVE  UNCHANGED Contract!vars
BY DEF Contract!vars, Phase, Reported

(* Every step of the batches is a step of the contract or changes nothing
   that the contract sees. *)
LEMMA ContractStep ==
  ASSUME TypeOK, BatchInv, BatchInv', [Next]_vars
  PROVE  [Contract!Next]_Contract!vars
<1> USE DEF BatchInv
<1>1. CASE StartBatch
  <2>1. /\ main = "next" /\ main' = "join" /\ batch \in Nat /\ batch' = batch + 1
        /\ batch' \in Batches /\ UNCHANGED <<result, tally, answered>>
    BY <1>1, ConstantsAssumption DEF StartBatch, Batches, TypeOK, ConstantsAssumption
  <2>2. result[batch'] = "none" /\ Reported' = Reported
    BY <2>1 DEF OneByOne, Reported
  <2>3. \A b \in Batches : b < batch' => result[b] \in {"ok", "err"}
    BY <2>1 DEF OneByOne, TypeOK, Batches
  <2>4. Phase' = [Phase EXCEPT ![batch'] = "open"]
    <3>1. \A b \in Batches : Phase'[b] = IF b = batch' THEN "open" ELSE Phase[b]
      BY <2>1, <2>2 DEF Phase, Batches
    <3>. QED BY <3>1 DEF Phase
  <2>5. Phase[batch'] = "pending" BY <2>1 DEF Phase
  <2>6. \A b \in Batches \ {batch'} :
          Phase[b] \in IF b < batch' THEN {"ok", "err"} ELSE {"pending"}
    BY <2>1, <2>3 DEF Phase, Batches
  <2>7. Contract!Open(batch') BY <2>1, <2>2, <2>4, <2>5, <2>6 DEF Contract!Open
  <2>. QED BY <2>1, <2>7 DEF Contract!Next
<1>2. CASE CollectMetrics
  <2>1. /\ main = "collect" /\ batch \in Batches /\ result[batch] = "none"
        /\ UNCHANGED <<batch, tally, answered>>
        /\ result' = [result EXCEPT ![batch] = "ok"]
    BY <1>2 DEF CollectMetrics, OneByOne, runVars, Batches
  <2>2. tally[batch] = answered[batch]
    <3>1. result'[batch] = "ok" BY <2>1 DEF TypeOK
    <3>. QED BY <2>1, <3>1 DEF FinishedLast
  <2>3. \A b \in Batches : result'[b] = IF b = batch THEN "ok" ELSE result[b]
    BY <2>1 DEF TypeOK
  <2>4. Phase[batch] = "open" BY <2>1 DEF Phase, Batches
  <2>5. Phase' = [Phase EXCEPT ![batch] = "ok"]
    <3>1. \A b \in Batches : Phase'[b] = IF b = batch THEN "ok" ELSE Phase[b]
      BY <2>1, <2>3 DEF Phase, Batches
    <3>. QED BY <3>1 DEF Phase
  <2>6. Reported' = [Reported EXCEPT ![batch] = answered[batch]]
    <3>1. \A b \in Batches : Reported'[b] = IF b = batch THEN answered[batch] ELSE Reported[b]
      BY <2>1, <2>2, <2>3 DEF Reported
    <3>. QED BY <3>1 DEF Reported
  <2>7. Contract!Return(batch) BY <2>1, <2>4, <2>5, <2>6 DEF Contract!Return
  <2>. QED BY <2>1, <2>7 DEF Contract!Next
<1>3. CASE JoinErr
  <2>1. /\ main = "join" /\ batch \in Batches /\ result[batch] = "none"
        /\ UNCHANGED <<batch, tally, answered>>
        /\ result' = [result EXCEPT ![batch] = "err"]
    BY <1>3 DEF JoinErr, OneByOne, runVars, Batches
  <2>2. \A b \in Batches : result'[b] = IF b = batch THEN "err" ELSE result[b]
    BY <2>1 DEF TypeOK
  <2>3. Phase[batch] = "open" BY <2>1 DEF Phase, Batches
  <2>4. Phase' = [Phase EXCEPT ![batch] = "err"]
    <3>1. \A b \in Batches : Phase'[b] = IF b = batch THEN "err" ELSE Phase[b]
      BY <2>1, <2>2 DEF Phase, Batches
    <3>. QED BY <3>1 DEF Phase
  <2>5. Reported' = Reported BY <2>1, <2>2 DEF Reported
  <2>6. Contract!Fail(batch) BY <2>1, <2>3, <2>4, <2>5 DEF Contract!Fail
  <2>. QED BY <2>1, <2>6 DEF Contract!Next
<1>4. ASSUME NEW b \in Batches, NEW c \in Clients, TaskStep(b, c), UNCHANGED batchVars
      PROVE  [Contract!Next]_Contract!vars
  <2>1. UNCHANGED <<batch, result, tally>> BY <1>4 DEF batchVars
  <2>2. CASE answered' = answered BY <2>1, <2>2, ContractStutter
  <2>3. ASSUME NEW k \in RequestStats, answered' = [answered EXCEPT ![b][k] = @ + 1]
        PROVE  Contract!Next
    <3>1. pc[b][c] \in Running BY <1>4, TaskFrame
    <3>2. result[b] # "ok" /\ ~ (b > batch)
      BY <3>1 DEF OneByOne, FinishedLast, TaskEnded, Running, Ended
    <3>3. Phase[b] \in {"open", "err"} BY <3>2 DEF Phase, TypeOK
    <3>4. UNCHANGED <<Phase, Reported>> BY <2>1 DEF Phase, Reported
    <3>5. Contract!Answer(b, k) BY <2>3, <3>3, <3>4 DEF Contract!Answer
    <3>. QED BY <3>5 DEF Contract!Next
  <2>4. answered' = answered \/ \E k \in RequestStats : answered' = [answered EXCEPT ![b][k] = @ + 1]
    BY <1>4 DEF TaskStep, OwnStep, BuildClient, BuildClientFails, CheckWork, LoadStop,
                SendRequest, Respond, TimeOut, Report, ReportToClosed, TripStop
  <2>. QED BY <2>2, <2>3, <2>4
<1>5. ASSUME NEW b \in Batches, Aggregate(b) PROVE UNCHANGED Contract!vars
  <2>1. /\ receiver[b] = "open" /\ UNCHANGED <<batch, result, answered>>
        /\ \A b2 \in Batches \ {b} : tally'[b2] = tally[b2]
    BY <1>5 DEF Aggregate, TypeOK
  <2>2. result[b] # "ok" BY <2>1 DEF FinishedLast
  <2>. QED BY <2>1, <2>2, ContractStutter
<1>6. CASE UNCHANGED <<batch, result, answered, tally>> BY <1>6, ContractStutter
<1>. QED BY <1>1, <1>2, <1>3, <1>4, <1>5, <1>6
         DEF Next, MainStep, Join, Exit, AggregatorStep, FinishAggregator, AbortAggregator,
             AbortTask, Terminated, vars, runVars, batchVars

(* The tasks, channels and flags of the batches implement the contract of the
   batches, for every value of the constants. *)
THEOREM Refinement == Spec => ImplementsContract
<1>1. Init => Contract!Init
  <2> SUFFICES ASSUME Init PROVE Contract!Init OBVIOUS
  <2>1. Phase = [b \in Batches |-> "pending"]
    BY DEF Init, Phase, Batches
  <2>2. Reported = [b \in Batches |-> [k \in RequestStats |-> 0]]
    BY DEF Init, Reported, NoAnswers
  <2>3. answered = [b \in Batches |-> [k \in RequestStats |-> 0]]
    BY DEF Init, RunInit, NoAnswers
  <2>. QED BY <2>1, <2>2, <2>3 DEF Contract!Init
<1>2. TypeOK /\ BatchInv /\ BatchInv' /\ [Next]_vars => [Contract!Next]_Contract!vars
  BY ContractStep
<1>. QED BY <1>1, <1>2, TypeCorrect, BatchInvariant, PTL
         DEF Spec, ImplementsContract, Contract!Spec

-----------------------------------------------------------------------------
\* The load generators, when clients can always be built.

(* No task fails and no batch ends early. *)
NoneFailed ==
  /\ \A b \in Batches, c \in Clients : pc[b][c] # "failed"
  /\ \A b \in Batches : result[b] # "err"

(* Only a failed build_client makes a task fail, and only that fails a batch. *)
LEMMA NoneFailedStep ==
  ASSUME BuildCanFail = FALSE, TypeOK, BatchInv, NoneFailed, [Next]_vars
  PROVE  NoneFailed'
<1>1. CASE StartBatch
  <2>1. batch' \in Batches
    BY <1>1, ConstantsAssumption DEF StartBatch, TypeOK, Batches, ConstantsAssumption
  <2>2. /\ result' = result
        /\ pc' = [pc EXCEPT ![batch'] = [c \in Clients |-> "build"]]
    BY <1>1 DEF StartBatch
  <2>3. ASSUME NEW b \in Batches, NEW c \in Clients PROVE pc'[b][c] # "failed"
    <3>1. pc'[b][c] = pc[b][c] \/ pc'[b][c] = "build"
      BY <2>1, <2>2 DEF TypeOK, RunTypeOK
    <3>. QED BY <3>1 DEF NoneFailed
  <2>. QED BY <2>2, <2>3 DEF NoneFailed
<1>2. CASE JoinErr
  <2>1. main = "join" /\ joining \in Clients /\ batch \in Batches /\ pc[batch][joining] = "failed"
    BY <1>2 DEF JoinErr, TypeOK, BatchInv, OneByOne
  <2>. QED BY <2>1 DEF NoneFailed
<1>3. CASE CollectMetrics
  <2>1. batch \in Batches /\ pc' = pc /\ result' = [result EXCEPT ![batch] = "ok"]
    BY <1>3 DEF CollectMetrics, BatchInv, OneByOne, runVars
  <2>2. ASSUME NEW b \in Batches PROVE result'[b] # "err"
    BY <2>1 DEF NoneFailed, TypeOK
  <2>. QED BY <2>1, <2>2 DEF NoneFailed
<1>4. ASSUME NEW b \in Batches, NEW c \in Clients,
             NEW to, to # "failed", pc' = [pc EXCEPT ![b][c] = to], result' = result
      PROVE  NoneFailed'
  BY <1>4 DEF NoneFailed, TypeOK, RunTypeOK
<1>5. ASSUME NEW b \in Batches, NEW c \in Clients, TaskStep(b, c), UNCHANGED batchVars
      PROVE  NoneFailed'
  <2>1. \E to : to # "failed" /\ pc' = [pc EXCEPT ![b][c] = to]
    BY <1>5 DEF TaskStep, OwnStep, BuildClient, BuildClientFails, CheckWork, LoadStop,
                SendRequest, Respond, TimeOut, Report, AfterReport, ReportToClosed,
                TripStop, Goto
  <2>. QED BY <1>4, <1>5, <2>1 DEF batchVars
<1>6. ASSUME NEW b \in Batches, NEW c \in Clients, AbortTask(b, c) PROVE NoneFailed'
  BY <1>4, <1>6 DEF AbortTask, batchVars
<1>7. CASE UNCHANGED <<pc, result>> BY <1>7 DEF NoneFailed
<1>. QED BY <1>1, <1>2, <1>3, <1>5, <1>6, <1>7
         DEF Next, MainStep, Join, Exit, AggregatorStep, Aggregate, FinishAggregator,
             AbortAggregator, Terminated, vars, runVars, batchVars

(* With an adapter that never fails to build a client, all live tasks belong
   to one batch, so at most --concurrency clients are at work. *)
LEMMA OneBatchLive ==
  ASSUME TypeOK, BatchInv, NoneFailed
  PROVE  ConcurrencyBound
<1>1. ASSUME NEW t \in LiveTasks PROVE t[1] = batch /\ t[2] \in Clients /\ t = <<t[1], t[2]>>
  <2>1. t[1] \in Batches /\ t[2] \in Clients /\ t = <<t[1], t[2]>> /\ pc[t[1]][t[2]] \in Running
    BY DEF LiveTasks
  <2>2. ~ (t[1] > batch) BY <2>1 DEF BatchInv, OneByOne, Running
  <2>3. result[t[1]] # "ok"
    BY <2>1 DEF BatchInv, FinishedLast, TaskEnded, Running, Ended
  <2>4. result[t[1]] = "none" BY <2>1, <2>3 DEF NoneFailed, TypeOK
  <2>. QED BY <2>1, <2>2, <2>4 DEF BatchInv, OneByOne, TypeOK, Batches
<1>2. IsFiniteSet(Clients) /\ Cardinality(Clients) = Concurrency
  BY ConstantsAssumption, FS_Interval DEF Clients, ConstantsAssumption
<1> DEFINE client == [t \in LiveTasks |-> t[2]]
<1>3. client \in Injection(LiveTasks, Clients)
  <2>1. client \in [LiveTasks -> Clients] BY <1>1
  <2>2. \A t, u \in LiveTasks : client[t] = client[u] => t = u BY <1>1
  <2>. QED BY <2>1, <2>2, Fun_IsInj
<1>4. Cardinality(LiveTasks) <= Cardinality(Clients) BY <1>2, <1>3, FS_Injection
<1>. QED BY <1>2, <1>4 DEF ConcurrencyBound

(* HttpBenchAdapter never has more than --concurrency clients at work, however
   many batches a session has (bench_session.rs 65, 141-146). *)
THEOREM ConcurrencyRespected ==
  ASSUME BuildCanFail = FALSE
  PROVE  Spec => []ConcurrencyBound
<1>1. Init => NoneFailed BY DEF Init, RunInit, NoneFailed
<1>2. TypeOK /\ BatchInv /\ NoneFailed /\ [Next]_vars => NoneFailed'
  BY NoneFailedStep
<1>3. TypeOK /\ BatchInv /\ NoneFailed => ConcurrencyBound BY OneBatchLive
<1>. QED BY <1>1, <1>2, <1>3, TypeCorrect, BatchInvariant, PTL DEF Spec
-----------------------------------------------------------------------------
\* The load that was asked for.

(* The answers of all clients, as pairs of a client and a number, f[c] being
   how many client c has got. *)
SlotsOf(f) == {t \in Clients \X (1..MaxRequests) : t[2] <= f[t[1]]}

LEMMA SlotsFinite ==
  ASSUME NEW f
  PROVE  /\ IsFiniteSet(SlotsOf(f)) /\ Cardinality(SlotsOf(f)) \in Nat
         /\ Cardinality(Clients \X (1..MaxRequests)) = Concurrency * MaxRequests
<1>1. /\ IsFiniteSet(Clients) /\ Cardinality(Clients) = Concurrency
      /\ IsFiniteSet(1..MaxRequests) /\ Cardinality(1..MaxRequests) = MaxRequests
  BY ConstantsAssumption, FS_Interval DEF Clients, ConstantsAssumption
<1>2. /\ IsFiniteSet(Clients \X (1..MaxRequests))
      /\ Cardinality(Clients \X (1..MaxRequests)) = Concurrency * MaxRequests
  BY <1>1, FS_Product
<1>3. SlotsOf(f) \in SUBSET (Clients \X (1..MaxRequests)) BY DEF SlotsOf
<1>4. IsFiniteSet(SlotsOf(f)) BY <1>2, <1>3, FS_Subset
<1>. QED BY <1>2, <1>4, FS_CardinalityType

LEMMA NoSlots ==
  ASSUME NEW f, \A c \in Clients : f[c] = 0
  PROVE  Cardinality(SlotsOf(f)) = 0
<1>1. SlotsOf(f) = {} BY ConstantsAssumption DEF SlotsOf, ConstantsAssumption
<1>. QED BY <1>1, FS_EmptySet

LEMMA AllSlots ==
  ASSUME NEW f, \A c \in Clients : f[c] = MaxRequests
  PROVE  Cardinality(SlotsOf(f)) = Concurrency * MaxRequests
<1>1. SlotsOf(f) = Clients \X (1..MaxRequests)
  BY ConstantsAssumption DEF SlotsOf, ConstantsAssumption
<1>. QED BY <1>1, SlotsFinite

(* An answer takes the next slot of its client. *)
LEMMA OneMoreSlot ==
  ASSUME NEW f \in [Clients -> Int], NEW g \in [Clients -> Int], NEW c \in Clients,
         f[c] \in 0..(MaxRequests - 1), g[c] = f[c] + 1,
         \A d \in Clients \ {c} : g[d] = f[d]
  PROVE  Cardinality(SlotsOf(g)) = Cardinality(SlotsOf(f)) + 1
<1> DEFINE x == <<c, f[c] + 1>>
<1>0. MaxRequests \in Nat BY ConstantsAssumption DEF ConstantsAssumption
<1>1. x \notin SlotsOf(f) BY <1>0 DEF SlotsOf
<1>2. SlotsOf(g) = SlotsOf(f) \cup {x}
  <2>1. ASSUME NEW t \in Clients \X (1..MaxRequests)
        PROVE  t[2] <= g[t[1]] <=> (t[2] <= f[t[1]] \/ t = x)
    <3>1. t = <<t[1], t[2]>> /\ t[1] \in Clients /\ t[2] \in Int BY <1>0
    <3>2. CASE t[1] = c
      <4>1. t[2] <= f[c] + 1 <=> (t[2] <= f[c] \/ t[2] = f[c] + 1) BY <3>1
      <4>2. t = x <=> t[2] = f[c] + 1 BY <3>1, <3>2
      <4>. QED BY <3>2, <4>1, <4>2
    <3>3. CASE t[1] # c
      <4>1. t # x BY <3>3
      <4>. QED BY <3>1, <3>3, <4>1
    <3>. QED BY <3>2, <3>3
  <2>2. x \in Clients \X (1..MaxRequests) BY <1>0
  <2>. QED BY <2>1, <2>2 DEF SlotsOf
<1>3. IsFiniteSet(SlotsOf(f)) BY SlotsFinite
<1> HIDE DEF x
<1>. QED BY <1>1, <1>2, <1>3, FS_AddElement

(* How many answers each client of a batch has got, if none has timed out. *)
AnswersOf(b) ==
  [c \in Clients |->
     IF pc[b][c] \in {"acquire", "armed", "inflight", "finished"}
     THEN requestsSent[b][c] - 1 ELSE requestsSent[b][c]]

RequestsCounted(b, c) ==
  /\ pc[b][c] \in {"unborn", "build"} => requestsSent[b][c] = 0
  /\ pc[b][c] = "check" => requestsSent[b][c] <= MaxRequests
  /\ pc[b][c] \in {"acquire", "armed", "inflight", "report"} =>
       requestsSent[b][c] \in 1..MaxRequests
  /\ pc[b][c] = "finished" =>
       \/ requestsSent[b][c] = MaxRequests + 1
       \/ \E other \in Clients : pc[b][other] = "tripped"

Tripping(b) == \E c \in Clients : pc[b][c] \in {"trip", "tripped"}

AnswersCounted(b) ==
  ~ Tripping(b) => Total(answered[b]) = Cardinality(SlotsOf(AnswersOf(b)))

(* What FullLoad needs: the flag is up only if a client of this batch has
   raised it, a client ends early only if it is up, and has been answered in
   every round before its last. *)
LoadInv ==
  /\ \A b \in Batches : result[b] = "ok" => \A c \in Clients : pc[b][c] \in ReturnedOk
  /\ stop => batch \in Batches /\ \E c \in Clients : pc[batch][c] = "tripped"
  /\ \A b \in Batches :
       AnswersCounted(b) /\ \A c \in Clients : RequestsCounted(b, c)

LEMMA LoadInit == Init => LoadInv
<1> SUFFICES ASSUME Init PROVE LoadInv OBVIOUS
<1>1. /\ stop = FALSE
      /\ \A b \in Batches : result[b] = "none" /\ answered[b] = NoAnswers
      /\ \A b \in Batches, c \in Clients : pc[b][c] = "unborn" /\ requestsSent[b][c] = 0
  BY DEF Init, RunInit
<1>2. ASSUME NEW b \in Batches PROVE AnswersCounted(b)
  <2>1. \A c \in Clients : AnswersOf(b)[c] = 0 BY <1>1 DEF AnswersOf
  <2>2. Total(answered[b]) = 0 BY <1>1 DEF Total, NoAnswers, RequestStats
  <2>. QED BY <2>1, <2>2, NoSlots DEF AnswersCounted
<1>. QED BY <1>1, <1>2 DEF LoadInv, RequestsCounted

(* When no client fails to be built, only the batch that main waits for has
   live tasks. *)
LEMMA LiveBatch ==
  ASSUME TypeOK, BatchInv, NoneFailed, NEW b \in Batches, NEW c \in Clients,
         pc[b][c] \in Running
  PROVE  /\ b = batch /\ main \in {"join", "collect"} /\ result[b] = "none"
         /\ receiver[b] \notin {"finished", "dropped"}
<1>1. ~ (b > batch) BY DEF BatchInv, OneByOne, Running
<1>2. result[b] # "ok" /\ receiver[b] # "finished"
  BY DEF BatchInv, FinishedLast, TaskEnded, Running, Ended
<1>3. result[b] = "none" BY <1>2 DEF NoneFailed, TypeOK
<1>4. b = batch /\ main \in {"join", "collect"}
  BY <1>1, <1>3 DEF BatchInv, OneByOne, TypeOK, Batches
<1>. QED BY <1>2, <1>3, <1>4 DEF BatchInv, FinishedLast

(* A task moves: what this changes is about the task and its batch only. *)
LEMMA LoadMove ==
  ASSUME TypeOK, LoadInv, NEW c \in Clients, NEW to, batch \in Batches,
         pc[batch][c] \in Running, pc' = [pc EXCEPT ![batch][c] = to],
         result[batch] # "ok", UNCHANGED <<result, batch>>,
         stop' = stop \/ to = "tripped",
         \A b \in Batches, d \in Clients :
           b # batch \/ d # c => requestsSent'[b][d] = requestsSent[b][d],
         \A b \in Batches : b # batch => answered'[b] = answered[b],
         RequestsCounted(batch, c)', AnswersCounted(batch)'
  PROVE  LoadInv'
<1>1. /\ pc'[batch][c] = to
      /\ \A b \in Batches, d \in Clients : b # batch \/ d # c => pc'[b][d] = pc[b][d]
  BY DEF TypeOK, RunTypeOK
<1>2. pc[batch][c] \notin {"tripped", "finished"} BY DEF Running
<1>3. \A b \in Batches, d \in Clients : pc[b][d] = "tripped" => pc'[b][d] = "tripped"
  BY <1>1, <1>2
<1>4. \A b \in Batches : result'[b] = "ok" => \A d \in Clients : pc'[b][d] \in ReturnedOk
  BY <1>1 DEF LoadInv
<1>5. stop' => \E d \in Clients : pc'[batch][d] = "tripped"
  BY <1>1, <1>3 DEF LoadInv
<1>6. ASSUME NEW b \in Batches, NEW d \in Clients PROVE RequestsCounted(b, d)'
  <2>1. CASE b = batch /\ d = c BY <2>1
  <2>2. CASE b # batch \/ d # c
    <3>1. pc'[b][d] = pc[b][d] /\ requestsSent'[b][d] = requestsSent[b][d] BY <1>1, <2>2
    <3>2. RequestsCounted(b, d) BY DEF LoadInv
    <3>. QED BY <1>3, <3>1, <3>2 DEF RequestsCounted
  <2>. QED BY <2>1, <2>2
<1>7. ASSUME NEW b \in Batches, b # batch PROVE AnswersCounted(b)'
  <2>1. \A d \in Clients : pc'[b][d] = pc[b][d] /\ requestsSent'[b][d] = requestsSent[b][d]
    BY <1>1, <1>7
  <2>2. AnswersOf(b)' = AnswersOf(b) BY <2>1 DEF AnswersOf
  <2>3. Tripping(b)' <=> Tripping(b) BY <2>1 DEF Tripping
  <2>4. AnswersCounted(b) /\ answered'[b] = answered[b] BY <1>7 DEF LoadInv
  <2>. QED BY <2>2, <2>3, <2>4 DEF AnswersCounted, Total
<1>8. ASSUME NEW b \in Batches PROVE AnswersCounted(b)' BY <1>7
<1>. QED BY <1>4, <1>5, <1>6, <1>8 DEF LoadInv

(* A move that is not the end of a request. *)
LEMMA SameAnswers ==
  ASSUME TypeOK, LoadInv, NEW b \in Batches, NEW c \in Clients, NEW to,
         pc' = [pc EXCEPT ![b][c] = to], answered' = answered,
         \A d \in Clients : d # c => requestsSent'[b][d] = requestsSent[b][d],
         \/ to \in {"trip", "tripped"}
         \/ /\ pc[b][c] \notin {"trip", "tripped"}
            /\ AnswersOf(b)'[c] = AnswersOf(b)[c]
  PROVE  AnswersCounted(b)'
<1>1. pc'[b][c] = to /\ \A d \in Clients : d # c => pc'[b][d] = pc[b][d]
  BY DEF TypeOK, RunTypeOK
<1>2. CASE to \in {"trip", "tripped"}
  BY <1>1, <1>2 DEF AnswersCounted, Tripping
<1>3. CASE pc[b][c] \notin {"trip", "tripped"} /\ AnswersOf(b)'[c] = AnswersOf(b)[c]
  <2>1. ~ Tripping(b)' => ~ Tripping(b) BY <1>1, <1>3 DEF Tripping
  <2>2. \A d \in Clients : AnswersOf(b)'[d] = AnswersOf(b)[d]
    BY <1>1, <1>3 DEF AnswersOf
  <2>3. AnswersOf(b)' = AnswersOf(b) BY <2>2 DEF AnswersOf
  <2>4. AnswersCounted(b) BY DEF LoadInv
  <2>. QED BY <2>1, <2>3, <2>4 DEF AnswersCounted, Total
<1>. QED BY <1>2, <1>3

(* The end of a request. *)
LEMMA OneMoreAnswer ==
  ASSUME TypeOK, LoadInv, NEW b \in Batches, NEW c \in Clients, NEW k \in RequestStats,
         Respond(b, c, k)
  PROVE  AnswersCounted(b)'
<1>1. /\ pc[b][c] = "inflight" /\ pc' = [pc EXCEPT ![b][c] = "report"]
      /\ answered' = [answered EXCEPT ![b][k] = @ + 1] /\ requestsSent' = requestsSent
  BY DEF Respond, Goto
<1>2. pc'[b][c] = "report" /\ \A d \in Clients : d # c => pc'[b][d] = pc[b][d]
  BY <1>1 DEF TypeOK, RunTypeOK
<1>3. requestsSent[b][c] \in 1..MaxRequests
  BY <1>1 DEF LoadInv, RequestsCounted
<1>4. /\ answered[b]["normal"] \in Nat /\ answered[b]["fatal"] \in Nat
      /\ Total(answered'[b]) = Total(answered[b]) + 1
  <2>1. k \in {"normal", "fatal"} /\ answered[b] \in [RequestStats -> Nat]
    BY DEF RequestStats, TypeOK, RunTypeOK
  <2>2. answered'[b] = [answered[b] EXCEPT ![k] = @ + 1]
    BY <1>1 DEF TypeOK, RunTypeOK
  <2>3. \A j \in RequestStats :
          answered'[b][j] = IF j = k THEN answered[b][j] + 1 ELSE answered[b][j]
    BY <2>1, <2>2
  <2>4. answered[b]["normal"] \in Nat /\ answered[b]["fatal"] \in Nat
    BY <2>1 DEF RequestStats
  <2>. QED BY <2>1, <2>3, <2>4 DEF Total, RequestStats
<1>5. ASSUME ~ Tripping(b)'
      PROVE  Total(answered'[b]) = Cardinality(SlotsOf(AnswersOf(b)'))
  <2> DEFINE f == AnswersOf(b)
             g == AnswersOf(b)'
  <2>1. ~ Tripping(b) BY <1>1, <1>2, <1>5 DEF Tripping
  <2>2. Total(answered[b]) = Cardinality(SlotsOf(f))
    BY <2>1 DEF LoadInv, AnswersCounted
  <2>3. requestsSent[b] \in [Clients -> Nat] BY DEF TypeOK, RunTypeOK
  <2>4. f \in [Clients -> Int] /\ g \in [Clients -> Int]
    BY <1>1, <2>3 DEF AnswersOf
  <2>5. f[c] = requestsSent[b][c] - 1 /\ g[c] = requestsSent[b][c]
    BY <1>1, <1>2 DEF AnswersOf
  <2>6. \A d \in Clients \ {c} : g[d] = f[d] BY <1>1, <1>2 DEF AnswersOf
  <2> HIDE DEF f, g
  <2>7. MaxRequests \in Nat BY ConstantsAssumption DEF ConstantsAssumption
  <2>8. f[c] \in 0..(MaxRequests - 1) /\ g[c] = f[c] + 1 BY <1>3, <2>5, <2>7
  <2>9. Cardinality(SlotsOf(g)) = Cardinality(SlotsOf(f)) + 1
    BY <2>4, <2>6, <2>8, OneMoreSlot
  <2>. QED BY <1>4, <2>2, <2>9 DEF g
<1>. QED BY <1>5 DEF AnswersCounted, SlotsOf

(* A step of a task keeps the count. *)
LEMMA LoadTask ==
  ASSUME BuildCanFail = FALSE, DurationLimited = FALSE,
         TypeOK, BatchInv, NoneFailed, LoadInv,
         NEW b \in Batches, NEW c \in Clients, TaskStep(b, c), UNCHANGED batchVars
  PROVE  LoadInv'
<1>1. pc[b][c] \in Running BY TaskFrame
<1>2. /\ b = batch /\ result[b] # "ok" /\ receiver[b] \notin {"finished", "dropped"}
      /\ batch \in Batches /\ UNCHANGED <<result, batch>>
  BY <1>1, LiveBatch DEF batchVars
<1>3. /\ requestsSent[b][c] \in Nat /\ MaxRequests \in Nat /\ RequestsCounted(b, c)
      /\ requestsSent \in [Batches -> [Clients -> Nat]] /\ stop \in BOOLEAN
      /\ answered \in [Batches -> [RequestStats -> Nat]]
  BY ConstantsAssumption DEF TypeOK, RunTypeOK, ConstantsAssumption, LoadInv
<1>4. ASSUME NEW to, pc' = [pc EXCEPT ![b][c] = to]
      PROVE  pc'[b][c] = to
  BY <1>4 DEF TypeOK, RunTypeOK
\* Moves between two points of the loop that count nothing.
<1>5. ASSUME NEW from, NEW to, Goto(b, c, from, to),
             UNCHANGED <<stop, requestsSent, answered>>,
             \/ from = "build" /\ to = "check"
             \/ from = "acquire" /\ to = "armed"
             \/ from = "armed" /\ to = "inflight"
             \/ from = "inflight" /\ to = "trip"
             \/ from = "report" /\ to \in {"check", "trip"}
      PROVE  LoadInv'
  <2>1. pc[b][c] = from /\ pc' = [pc EXCEPT ![b][c] = to] /\ pc'[b][c] = to
    BY <1>4, <1>5 DEF Goto
  <2>2. RequestsCounted(b, c)'
    BY <1>3, <1>5, <2>1 DEF RequestsCounted
  <2>3. AnswersCounted(b)'
    <3>1. CASE to = "trip" BY <1>5, <2>1, <3>1, SameAnswers
    <3>2. CASE to # "trip"
      <4>1. AnswersOf(b)'[c] = AnswersOf(b)[c]
        BY <1>5, <2>1, <3>2 DEF AnswersOf
      <4>. QED BY <1>5, <2>1, <4>1, SameAnswers
    <3>. QED BY <3>1, <3>2
  <2>. QED BY <1>1, <1>2, <1>5, <2>1, <2>2, <2>3, LoadMove
<1>6. CASE BuildClient(b, c) BY <1>5, <1>6 DEF BuildClient
<1>7. CASE BuildClientFails(b, c) BY <1>7 DEF BuildClientFails
<1>8. CASE CheckWork(b, c)
  <2>1. PICK to \in {"acquire", "finished"} :
          /\ pc[b][c] = "check" /\ pc' = [pc EXCEPT ![b][c] = to]
          /\ to = "acquire" <=> requestsSent[b][c] < MaxRequests
    BY <1>8 DEF CheckWork, HasMoreWork, Goto
  <2>2. /\ requestsSent' = [requestsSent EXCEPT ![b][c] = @ + 1]
        /\ UNCHANGED <<stop, answered>>
    BY <1>8 DEF CheckWork
  <2>3. /\ requestsSent'[b][c] = requestsSent[b][c] + 1
        /\ \A b2 \in Batches, d \in Clients :
             b2 # b \/ d # c => requestsSent'[b2][d] = requestsSent[b2][d]
    BY <1>3, <2>2
  <2>4. pc'[b][c] = to BY <1>4, <2>1
  <2>5. requestsSent[b][c] <= MaxRequests BY <1>3, <2>1 DEF RequestsCounted
  <2>6. RequestsCounted(b, c)'
    BY <1>3, <2>1, <2>3, <2>4, <2>5 DEF RequestsCounted
  <2>7. AnswersOf(b)'[c] = AnswersOf(b)[c]
    <3>1. AnswersOf(b)[c] = requestsSent[b][c] BY <2>1 DEF AnswersOf
    <3>2. AnswersOf(b)'[c] = requestsSent'[b][c] - 1 BY <2>1, <2>4 DEF AnswersOf
    <3>. QED BY <1>3, <2>3, <3>1, <3>2
  <2>8. AnswersCounted(b)' BY <2>1, <2>2, <2>3, <2>7, SameAnswers
  <2>. QED BY <1>1, <1>2, <2>1, <2>2, <2>3, <2>6, <2>8, LoadMove
<1>9. CASE LoadStop(b, c)
  <2>1. Goto(b, c, "acquire", IF stop THEN "finished" ELSE "armed")
        /\ UNCHANGED <<stop, requestsSent, answered>>
    BY <1>9 DEF LoadStop
  <2>2. CASE ~ stop BY <1>5, <2>1, <2>2
  <2>3. CASE stop
    <3>1. /\ pc[b][c] = "acquire" /\ pc' = [pc EXCEPT ![b][c] = "finished"]
          /\ pc'[b][c] = "finished"
      BY <1>4, <2>1, <2>3 DEF Goto
    <3>2. PICK d \in Clients : pc[b][d] = "tripped" BY <1>2, <2>3 DEF LoadInv
    <3>3. pc'[b][d] = "tripped" BY <3>1, <3>2 DEF TypeOK, RunTypeOK
    <3>4. RequestsCounted(b, c)' BY <3>1, <3>3 DEF RequestsCounted
    <3>5. AnswersOf(b)'[c] = AnswersOf(b)[c] BY <2>1, <3>1 DEF AnswersOf
    <3>6. AnswersCounted(b)' BY <2>1, <3>1, <3>5, SameAnswers
    <3>. QED BY <1>1, <1>2, <2>1, <3>1, <3>4, <3>6, LoadMove
  <2>. QED BY <2>2, <2>3
<1>10. CASE SendRequest(b, c) BY <1>5, <1>10 DEF SendRequest
<1>11. CASE TimeOut(b, c) BY <1>5, <1>11 DEF TimeOut
<1>12. CASE Report(b, c)
  <2>1. AfterReport(stats[b][c]) \in {"check", "trip"} BY DEF AfterReport
  <2>. QED BY <1>5, <1>12, <2>1 DEF Report
<1>13. CASE ReportToClosed(b, c) BY <1>2, <1>13 DEF ReportToClosed
<1>14. CASE TripStop(b, c)
  <2>1. /\ pc[b][c] = "trip" /\ pc' = [pc EXCEPT ![b][c] = "tripped"]
        /\ pc'[b][c] = "tripped" /\ UNCHANGED <<requestsSent, answered>>
    BY <1>4, <1>14 DEF TripStop, Goto
  <2>2. RequestsCounted(b, c)' BY <2>1 DEF RequestsCounted
  <2>3. AnswersCounted(b)' BY <2>1, SameAnswers
  <2>. QED BY <1>1, <1>2, <2>1, <2>2, <2>3, LoadMove
<1>15. ASSUME NEW k \in RequestStats, Respond(b, c, k) PROVE LoadInv'
  <2>1. /\ pc[b][c] = "inflight" /\ pc' = [pc EXCEPT ![b][c] = "report"]
        /\ pc'[b][c] = "report" /\ UNCHANGED <<stop, requestsSent>>
        /\ answered' = [answered EXCEPT ![b][k] = @ + 1]
    BY <1>4, <1>15 DEF Respond, Goto
  <2>2. RequestsCounted(b, c)' BY <1>3, <2>1 DEF RequestsCounted
  <2>3. AnswersCounted(b)' BY <1>15, OneMoreAnswer
  <2>4. \A b2 \in Batches : b2 # b => answered'[b2] = answered[b2] BY <1>3, <2>1
  <2>. QED BY <1>1, <1>2, <2>1, <2>2, <2>3, <2>4, LoadMove
<1>. QED BY <1>6, <1>7, <1>8, <1>9, <1>10, <1>11, <1>12, <1>13, <1>14, <1>15
         DEF TaskStep, OwnStep

(* So does every other step. *)
LEMMA LoadStep ==
  ASSUME BuildCanFail = FALSE, DurationLimited = FALSE,
         TypeOK, BatchInv, NoneFailed, LoadInv, [Next]_vars
  PROVE  LoadInv'
<1>1. CASE StartBatch
  <2>1. /\ batch' = batch + 1 /\ batch' \in Batches /\ batch' > batch
        /\ stop' = FALSE /\ UNCHANGED <<result, requestsSent, answered>>
        /\ pc' = [pc EXCEPT ![batch'] = [d \in Clients |-> "build"]]
    BY <1>1, ConstantsAssumption
       DEF StartBatch, ResetStopFlag, TypeOK, Batches, ConstantsAssumption
  <2>2. /\ \A d \in Clients : pc[batch'][d] = "unborn" /\ pc'[batch'][d] = "build"
        /\ \A b \in Batches, d \in Clients : b # batch' => pc'[b][d] = pc[b][d]
        /\ result[batch'] = "none"
    BY <2>1 DEF BatchInv, OneByOne, TypeOK, RunTypeOK
  <2>3. \A b \in Batches : result'[b] = "ok" => \A d \in Clients : pc'[b][d] \in ReturnedOk
    BY <2>1, <2>2 DEF LoadInv
  <2>4. ASSUME NEW b \in Batches PROVE AnswersCounted(b)' /\ \A d \in Clients : RequestsCounted(b, d)'
    <3>1. AnswersOf(b)' = AnswersOf(b) BY <2>1, <2>2 DEF AnswersOf
    <3>2. Tripping(b)' <=> Tripping(b) BY <2>1, <2>2 DEF Tripping
    <3>3. AnswersCounted(b)' BY <2>1, <3>1, <3>2 DEF AnswersCounted, Total, LoadInv
    <3>4. ASSUME NEW d \in Clients PROVE RequestsCounted(b, d)'
      <4>1. RequestsCounted(b, d) BY DEF LoadInv
      <4>. QED BY <2>1, <2>2, <4>1 DEF RequestsCounted
    <3>. QED BY <3>3, <3>4
  <2>. QED BY <2>1, <2>3, <2>4 DEF LoadInv
<1>2. CASE CollectMetrics
  <2>1. /\ main = "collect" /\ batch \in Batches
        /\ UNCHANGED <<stop, pc, requestsSent, answered, batch>>
        /\ result' = [result EXCEPT ![batch] = "ok"]
    BY <1>2 DEF CollectMetrics, BatchInv, OneByOne, runVars
  <2>2. \A d \in Clients : pc[batch][d] \in ReturnedOk
    BY <2>1 DEF BatchInv, JoinedSoFar
  <2>3. \A b \in Batches : result'[b] = "ok" => b = batch \/ result[b] = "ok"
    BY <2>1 DEF TypeOK
  <2>. QED BY <2>1, <2>2, <2>3
           DEF LoadInv, AnswersCounted, AnswersOf, Tripping, RequestsCounted
<1>3. CASE JoinErr
  <2>1. main = "join" /\ joining \in Clients /\ batch \in Batches /\ pc[batch][joining] = "failed"
    BY <1>3 DEF JoinErr, TypeOK, BatchInv, OneByOne
  <2>. QED BY <2>1 DEF NoneFailed
<1>4. ASSUME NEW b \in Batches, NEW c \in Clients, AbortTask(b, c) PROVE LoadInv'
  <2>1. main = "done" /\ pc[b][c] \in Running BY <1>4 DEF AbortTask, Running
  <2>. QED BY <2>1, LiveBatch
<1>5. CASE UNCHANGED <<stop, pc, requestsSent, answered, batch, result>>
  BY <1>5 DEF LoadInv, AnswersCounted, AnswersOf, Tripping, RequestsCounted
<1>. QED BY <1>1, <1>2, <1>3, <1>4, <1>5, LoadTask
         DEF Next, MainStep, Join, Exit, AggregatorStep, Aggregate, FinishAggregator,
             AbortAggregator, Terminated, vars, runVars, batchVars

(* A batch that returns Ok and in which nothing was fatal reports the whole
   load, in every batch and for every number of clients and requests: with
   HttpBenchAdapter, no earlier batch can stop it (bench_session.rs 97-118). *)
THEOREM LoadIsFull ==
  ASSUME BuildCanFail = FALSE
  PROVE  Spec => []FullLoad
<1>1. Init => NoneFailed BY DEF Init, RunInit, NoneFailed
<1>2. TypeOK /\ BatchInv /\ NoneFailed /\ [Next]_vars => NoneFailed'
  BY NoneFailedStep
<1> DEFINE Inv == DurationLimited = FALSE => LoadInv
<1>3. Init => Inv BY LoadInit
<1>4. TypeOK /\ BatchInv /\ NoneFailed /\ Inv /\ [Next]_vars => Inv' BY LoadStep
<1>5. TypeOK /\ BatchInv /\ Inv => FullLoad
  <2> SUFFICES ASSUME TypeOK, BatchInv, LoadInv, NEW b \in Batches, result[b] = "ok",
                      \A c \in Clients : pc[b][c] # "tripped"
               PROVE  Total(tally[b]) = Concurrency * MaxRequests
    BY ConstantsAssumption DEF FullLoad, ConstantsAssumption
  <2>1. \A c \in Clients : pc[b][c] = "finished"
    BY DEF LoadInv, ReturnedOk
  <2>2. \A c \in Clients : requestsSent[b][c] = MaxRequests + 1
    BY <2>1 DEF LoadInv, RequestsCounted
  <2>3. MaxRequests \in Nat BY ConstantsAssumption DEF ConstantsAssumption
  <2>4. \A c \in Clients : AnswersOf(b)[c] = MaxRequests
    BY <2>1, <2>2, <2>3 DEF AnswersOf
  <2>5. Total(answered[b]) = Cardinality(SlotsOf(AnswersOf(b)))
    BY <2>1 DEF LoadInv, AnswersCounted, Tripping
  <2>6. tally[b] = answered[b] BY DEF BatchInv, FinishedLast
  <2>. QED BY <2>4, <2>5, <2>6, AllSlots
<1> HIDE DEF Inv
<1>. QED BY <1>1, <1>2, <1>3, <1>4, <1>5, TypeCorrect, BatchInvariant, PTL DEF Spec
=============================================================================
