-------------------------- MODULE PerfGaugeProofs --------------------------
(***************************************************************************)
(* Proofs about module PerfGauge, for every ladder, any number of kinds of *)
(* answers, with and without a gateway, in continuous runs and others.     *)
(* The program implements its three parts, so that what is proved of the   *)
(* ladder and of the reporters holds in it.                                *)
(***************************************************************************)
EXTENDS PerfGauge, RateLadderProofs, ReportingProofs, TLAPS

Phases == {"pending", "open", "ok", "err"}

ProgramTypeOK ==
  /\ phase \in [Batches -> Phases]
  /\ answered \in [Batches -> [RequestStats -> Nat]]
  /\ reported \in [Batches -> [RequestStats -> Nat]]

(* The main loop and the batches: those taken from the session have begun, the
   last of them may be open, and no batch is reported before it is over. *)
PhasesInStep ==
  /\ batch = Len(rates)
  /\ \A b \in Batches :
       /\ phase[b] = "pending" <=> b > batch
       /\ phase[b] = "open" <=> b = batch /\ main = "batch"
       /\ phase[b] = "ok" => reported[b] = answered[b]
  /\ main \in {"join", "done"} => complete

(* The batches that went into the channel are those that returned Ok. *)
SentAreOk ==
  /\ \A i, j \in 1..Len(sent) : i < j => sent[i] < sent[j]
  /\ \A i \in 1..Len(sent) : phase[sent[i]] = "ok"
  /\ \A b \in Batches : phase[b] = "ok" => \E i \in 1..Len(sent) : sent[i] = b

ProgramInv ==
  LadderInv /\ GatewayInv /\ ProgramTypeOK /\ PhasesInStep /\ SentAreOk

-----------------------------------------------------------------------------
\* Every step is one of each part, or leaves it alone.

LEMMA LadderPart == [ProgramNext]_programVars => [LadderNext]_ladderVars
BY DEF ProgramNext, ProgramMain, TakeBatch, AnswerRequest, ReturnBatch, FailBatch,
       EndSession, JoinReporter, ReporterThread, PanicAnywhere, GatewayAppliesLate,
       ProgramOver, programVars, LadderNext

LEMMA CountsNext == LadderInv' => BatchCount'
BY LadderCounts, PTL

(* What follows of the ladder for the step. *)
LEMMA LadderKept ==
  ASSUME LadderInv, [ProgramNext]_programVars
  PROVE  LadderInv' /\ BatchCount'
<1>1. CASE NextBatch BY <1>1, LadderStep, CountsNext
<1>2. CASE UNCHANGED ladderVars
  <2>1. LadderInv'
    BY <1>2 DEF ladderVars, LadderInv, LadderTypeOK, Staircase, Progress, GetCurrent, Climbing
  <2>. QED BY <2>1, CountsNext
<1>. QED BY <1>1, <1>2, LadderPart DEF LadderNext, SessionOver

(* The session yields no batch beyond the bound. *)
LEMMA WithinBound ==
  ASSUME LadderInv, batch = Len(rates), TakeBatch, LadderInv', BatchCount'
  PROVE  batch < MaxBatches
<1>1. /\ config' = config /\ config \in Ladders /\ rates \in Seq(Int)
      /\ rates' = Append(rates, GetCurrent)
  BY DEF TakeBatch, NextBatch, LadderInv, LadderTypeOK
<1>2. Len(rates') = Len(rates) + 1 /\ Len(rates) \in Nat BY <1>1
<1>3. Len(rates') <= BatchTotal(config) BY <1>1 DEF BatchCount
<1>4. BatchTotal(config) <= MaxBatches BY <1>1, BoundAssumption DEF BoundAssumption
<1>5. BatchTotal(config) \in Int
  <2>1. config \in Ladders BY <1>1
  <2>. QED BY <2>1, LadderTotal
<1>6. MaxBatches \in Nat BY ReportingAssumption DEF ReportingAssumption
<1>. QED BY <1>2, <1>3, <1>4, <1>5, <1>6

(* The reporters see a session of at most MaxBatches batches. *)
LEMMA ReportingPart ==
  ASSUME LadderInv, batch = Len(rates), [ProgramNext]_programVars
  PROVE  [Next]_vars
<1>1. CASE TakeBatch
  <2>1. batch < MaxBatches BY <1>1, LadderKept, WithinBound
  <2>. QED BY <1>1, <2>1 DEF TakeBatch, Next, MainStep
<1>2. CASE ReturnBatch \/ FailBatch
  BY <1>2 DEF ReturnBatch, FailBatch, Next, MainStep, BatchEnds
<1>3. CASE EndSession \/ JoinReporter
  BY <1>3 DEF EndSession, JoinReporter, Next, MainStep
<1>4. CASE ReporterThread \/ PanicAnywhere \/ GatewayAppliesLate
  BY <1>4 DEF ReporterThread, PanicAnywhere, GatewayAppliesLate, Next
<1>5. CASE AnswerRequest \/ ProgramOver \/ UNCHANGED programVars
  BY <1>5 DEF AnswerRequest, ProgramOver, programVars
<1>. QED BY <1>1, <1>2, <1>3, <1>4, <1>5 DEF ProgramNext, ProgramMain

(* The batch that runs is one of the session, and what is printed has been
   sent before. *)
LEMMA BatchInSession ==
  ASSUME ReportingInv, main = "batch"
  PROVE  batch \in Batches
BY DEF ReportingInv, ThreadInv, Batches

LEMMA PrintedFirst ==
  ASSUME ReportingInv, NEW i \in 1..Len(printed)
  PROVE  i \in 1..Len(sent) /\ sent[i] = printed[i]
<1> DEFINE T == 0..MaxBatches
           p == Pending(1)
<1>1. printed \in Seq(T) /\ p \in Seq(T)
  <2>1. /\ printed \in Seq(1..MaxBatches) /\ queue \in Seq(1..MaxBatches)
        /\ item \in T /\ TypeOK /\ 1..MaxBatches \subseteq T
    BY DEF ReportingInv, TypeOK
  <2> HIDE DEF T, p
  <2>2. printed \in Seq(T) /\ queue \in Seq(T) BY <2>1, SeqMonotonic
  <2>3. <<item>> \in Seq(T) /\ <<>> \in Seq(T) BY <2>1
  <2>4. <<item>> \o queue \in Seq(T) /\ <<>> \o queue \in Seq(T)
    BY <2>2, <2>3, ConcatProperties
  <2>5. p = <<item>> \o queue \/ p = <<>> \o queue BY <2>1, PendingCases DEF p
  <2>. QED BY <2>2, <2>4, <2>5
<1>2. sent = printed \o p BY DEF ReportingInv, ConsoleComplete
<1> HIDE DEF T, p
<1>3. /\ Len(sent) = Len(printed) + Len(p) /\ Len(printed) \in Nat /\ Len(p) \in Nat
      /\ \A j \in 1..Len(printed) : sent[j] = printed[j]
  BY <1>1, <1>2, ConcatProperties
<1>. QED BY <1>3

(* The batches open one after the other, and end as BatchContract says. *)
LEMMA BatchPart ==
  ASSUME ReportingInv, ReportingInv', [ProgramNext]_programVars
  PROVE  [Batch!Next]_(Batch!vars)
<1>1. CASE TakeBatch
  <2>1. batch' \in Batches
    BY <1>1 DEF TakeBatch, StartBatch, ReportingInv, ThreadInv, Batches
  <2>2. Batch!Open(batch') BY <1>1 DEF TakeBatch
  <2>. QED BY <2>1, <2>2 DEF Batch!Next
<1>2. CASE ReturnBatch
  <2>1. batch \in Batches /\ Batch!Return(batch)
    BY <1>2, BatchInSession DEF ReturnBatch, BatchOk
  <2>. QED BY <2>1 DEF Batch!Next
<1>3. CASE FailBatch
  <2>1. batch \in Batches /\ Batch!Fail(batch)
    BY <1>3, BatchInSession DEF FailBatch, BatchErr
  <2>. QED BY <2>1 DEF Batch!Next
<1>4. CASE AnswerRequest BY <1>4 DEF AnswerRequest, Batch!Next
<1>5. CASE EndSession \/ JoinReporter \/ ReporterThread \/ PanicAnywhere \/ GatewayAppliesLate
  BY <1>5 DEF EndSession, JoinReporter, ReporterThread, PanicAnywhere, GatewayAppliesLate,
              batchVars, Batch!vars
<1>6. CASE ProgramOver \/ UNCHANGED programVars
  BY <1>6 DEF ProgramOver, programVars, batchVars, Batch!vars
<1>. QED BY <1>1, <1>2, <1>3, <1>4, <1>5, <1>6 DEF ProgramNext, ProgramMain

-----------------------------------------------------------------------------
\* The invariant.

LEMMA ProgramStart == ProgramInit => ProgramInv
<1>. SUFFICES ASSUME ProgramInit PROVE ProgramInv OBVIOUS
<1>1. LadderInv /\ GatewayInv BY LadderStart, GatewayInit DEF ProgramInit
<1>2. /\ phase = [b \in Batches |-> "pending"]
      /\ answered = [b \in Batches |-> [k \in RequestStats |-> 0]]
      /\ reported = [b \in Batches |-> [k \in RequestStats |-> 0]]
  BY DEF ProgramInit, Batch!Init
<1>3. ProgramTypeOK
  <2>1. \A b \in Batches : phase[b] \in Phases BY <1>2 DEF Phases
  <2>. QED BY <1>2, <2>1 DEF ProgramTypeOK
<1>4. main = "next" /\ batch = 0 /\ sent = <<>> /\ rates = <<>>
  BY DEF ProgramInit, Init, LadderInit
<1>5. PhasesInStep
  <2>1. Len(rates) = 0 BY <1>4
  <2>2. \A b \in Batches : b > 0 /\ phase[b] = "pending" BY <1>2 DEF Batches
  <2>. QED BY <1>4, <2>1, <2>2 DEF PhasesInStep
<1>6. SentAreOk
  <2>1. Len(sent) = 0 BY <1>4
  <2>2. \A b \in Batches : phase[b] = "pending" BY <1>2
  <2>. QED BY <2>1, <2>2 DEF SentAreOk
<1>. QED BY <1>1, <1>3, <1>5, <1>6 DEF ProgramInv

(* What the parts that keep their own invariant have in common with the rest. *)
LEMMA Ranges ==
  ASSUME ReportingInv
  PROVE  /\ MaxBatches \in Nat /\ batch \in 0..MaxBatches
         /\ sent \in Seq(Batches) /\ Len(sent) \in Nat
         /\ \A i \in 1..Len(sent) : sent[i] \in Batches
BY ReportingAssumption DEF ReportingAssumption, ReportingInv, TypeOK, Batches

(* A batch begins. *)
LEMMA TakeBatchStep ==
  ASSUME LadderInv, ReportingInv, ReportingInv', ProgramTypeOK, PhasesInStep, SentAreOk,
         TakeBatch
  PROVE  ProgramTypeOK' /\ PhasesInStep' /\ SentAreOk'
<1>1. /\ main = "next" /\ main' = "batch" /\ batch' = batch + 1
      /\ sent' = sent /\ answered' = answered /\ reported' = reported
      /\ phase[batch'] = "pending" /\ phase' = [phase EXCEPT ![batch'] = "open"]
  BY DEF TakeBatch, StartBatch, Batch!Open
<1>2. batch' \in Batches BY <1>1 DEF ReportingInv, ThreadInv, Batches
<1>3. /\ phase \in [Batches -> Phases] /\ phase'[batch'] = "open"
      /\ \A b \in Batches : b # batch' => phase'[b] = phase[b]
  BY <1>1, <1>2 DEF ProgramTypeOK
<1>4. ProgramTypeOK'
  <2>1. phase' \in [Batches -> Phases] BY <1>1, <1>3 DEF Phases
  <2>. QED BY <1>1, <2>1 DEF ProgramTypeOK
<1>5. Len(rates') = Len(rates) + 1
  BY DEF TakeBatch, NextBatch, LadderInv, LadderTypeOK
<1>6. PhasesInStep'
  <2>1. batch' = Len(rates') BY <1>1, <1>5 DEF PhasesInStep
  <2>2. ASSUME NEW b \in Batches
        PROVE  /\ phase'[b] = "pending" <=> b > batch'
               /\ phase'[b] = "open" <=> b = batch' /\ main' = "batch"
               /\ phase'[b] = "ok" => reported'[b] = answered'[b]
    <3>1. CASE b = batch' BY <1>1, <1>2, <1>3, <3>1 DEF Batches
    <3>2. CASE b # batch'
      <4>1. b > batch <=> b > batch' BY <1>1, <3>2, Ranges DEF Batches
      <4>. QED BY <1>1, <1>3, <3>2, <4>1 DEF PhasesInStep
    <3>. QED BY <3>1, <3>2
  <2>. QED BY <1>1, <2>1, <2>2 DEF PhasesInStep
<1>7. SentAreOk'
  <2>1. \A i \in 1..Len(sent) : sent[i] # batch' BY <1>1 DEF SentAreOk
  <2>2. \A i \in 1..Len(sent) : phase'[sent[i]] = "ok"
    BY <1>3, <2>1, Ranges DEF SentAreOk
  <2>3. \A b \in Batches : phase'[b] = "ok" => phase[b] = "ok" BY <1>3
  <2>. QED BY <1>1, <2>2, <2>3 DEF SentAreOk
<1>. QED BY <1>4, <1>6, <1>7

(* A batch returns Ok. *)
LEMMA ReturnBatchStep ==
  ASSUME ReportingInv, ProgramTypeOK, PhasesInStep, SentAreOk, ReturnBatch
  PROVE  ProgramTypeOK' /\ PhasesInStep' /\ SentAreOk'
<1>1. /\ main = "batch" /\ main' = "next" /\ batch' = batch
      /\ sent' = Append(sent, batch) /\ answered' = answered /\ rates' = rates
      /\ phase[batch] = "open" /\ phase' = [phase EXCEPT ![batch] = "ok"]
      /\ reported' = [reported EXCEPT ![batch] = answered[batch]]
  BY DEF ReturnBatch, BatchOk, Batch!Return, ladderVars
<1>2. batch \in Batches BY <1>1 DEF ReportingInv, ThreadInv, Batches
<1>3. /\ phase'[batch] = "ok" /\ reported'[batch] = answered[batch]
      /\ \A b \in Batches : b # batch => phase'[b] = phase[b] /\ reported'[b] = reported[b]
  BY <1>1, <1>2 DEF ProgramTypeOK
<1>4. ProgramTypeOK'
  <2>1. phase' \in [Batches -> Phases] BY <1>1, <1>2 DEF ProgramTypeOK, Phases
  <2>2. reported' \in [Batches -> [RequestStats -> Nat]] BY <1>1, <1>2 DEF ProgramTypeOK
  <2>. QED BY <1>1, <2>1, <2>2 DEF ProgramTypeOK
<1>5. PhasesInStep'
  <2>1. ASSUME NEW b \in Batches
        PROVE  /\ phase'[b] = "pending" <=> b > batch'
               /\ phase'[b] = "open" <=> b = batch' /\ main' = "batch"
               /\ phase'[b] = "ok" => reported'[b] = answered'[b]
    <3>1. CASE b = batch BY <1>1, <1>2, <1>3, <3>1 DEF Batches
    <3>2. CASE b # batch BY <1>1, <1>3, <3>2 DEF PhasesInStep
    <3>. QED BY <3>1, <3>2
  <2>. QED BY <1>1, <2>1 DEF PhasesInStep
<1>6. SentAreOk'
  <2>1. ASSUME NEW i \in 1..Len(sent) PROVE sent[i] < batch
    <3>1. sent[i] \in Batches /\ phase[sent[i]] = "ok" BY Ranges DEF SentAreOk
    <3>2. ~ (sent[i] > batch) /\ sent[i] # batch BY <1>1, <3>1 DEF PhasesInStep
    <3>. QED BY <1>2, <3>1, <3>2 DEF Batches
  <2>2. /\ Len(sent') = Len(sent) + 1 /\ sent'[Len(sent) + 1] = batch
        /\ \A i \in 1..Len(sent) : sent'[i] = sent[i]
    BY <1>1, <1>2, Ranges
  <2>3. \A i \in 1..Len(sent') : i \in 1..Len(sent) \/ i = Len(sent) + 1
    BY <2>2, Ranges
  <2>4. \A i, j \in 1..Len(sent') : i < j => sent'[i] < sent'[j]
    BY <2>1, <2>2, <2>3, Ranges DEF SentAreOk
  <2>5. \A i \in 1..Len(sent') : phase'[sent'[i]] = "ok"
    <3>1. \A i \in 1..Len(sent) : sent[i] \in Batches /\ sent[i] # batch
      BY <1>2, <2>1, Ranges DEF Batches
    <3>. QED BY <1>3, <2>2, <2>3, <3>1 DEF SentAreOk
  <2>6. ASSUME NEW b \in Batches, phase'[b] = "ok"
        PROVE  \E i \in 1..Len(sent') : sent'[i] = b
    <3>1. CASE b = batch
      <4>1. Len(sent) + 1 \in 1..Len(sent') BY <2>2, Ranges
      <4>. QED BY <2>2, <3>1, <4>1
    <3>2. CASE b # batch
      <4>1. PICK i \in 1..Len(sent) : sent[i] = b BY <1>3, <2>6, <3>2 DEF SentAreOk
      <4>2. i \in 1..Len(sent') BY <2>2, Ranges
      <4>. QED BY <2>2, <4>1, <4>2
    <3>. QED BY <3>1, <3>2
  <2>. QED BY <2>4, <2>5, <2>6 DEF SentAreOk
<1>. QED BY <1>4, <1>5, <1>6

(* A batch returns Err: nothing is sent. *)
LEMMA FailBatchStep ==
  ASSUME ReportingInv, ProgramTypeOK, PhasesInStep, SentAreOk, FailBatch
  PROVE  ProgramTypeOK' /\ PhasesInStep' /\ SentAreOk'
<1>1. /\ main = "batch" /\ main' = "next" /\ batch' = batch
      /\ sent' = sent /\ answered' = answered /\ reported' = reported /\ rates' = rates
      /\ phase[batch] = "open" /\ phase' = [phase EXCEPT ![batch] = "err"]
  BY DEF FailBatch, BatchErr, Batch!Fail, ladderVars
<1>2. batch \in Batches BY <1>1 DEF ReportingInv, ThreadInv, Batches
<1>3. /\ phase'[batch] = "err"
      /\ \A b \in Batches : b # batch => phase'[b] = phase[b]
  BY <1>1, <1>2 DEF ProgramTypeOK
<1>4. ProgramTypeOK'
  <2>1. phase' \in [Batches -> Phases] BY <1>1, <1>2 DEF ProgramTypeOK, Phases
  <2>. QED BY <1>1, <2>1 DEF ProgramTypeOK
<1>5. PhasesInStep'
  <2>1. ASSUME NEW b \in Batches
        PROVE  /\ phase'[b] = "pending" <=> b > batch'
               /\ phase'[b] = "open" <=> b = batch' /\ main' = "batch"
               /\ phase'[b] = "ok" => reported'[b] = answered'[b]
    <3>1. CASE b = batch BY <1>1, <1>2, <1>3, <3>1 DEF Batches
    <3>2. CASE b # batch BY <1>1, <1>3, <3>2 DEF PhasesInStep
    <3>. QED BY <3>1, <3>2
  <2>. QED BY <1>1, <2>1 DEF PhasesInStep
<1>6. SentAreOk'
  <2>1. \A i \in 1..Len(sent) : sent[i] # batch BY <1>1 DEF SentAreOk
  <2>2. \A i \in 1..Len(sent) : phase'[sent[i]] = "ok"
    BY <1>3, <2>1, Ranges DEF SentAreOk
  <2>3. \A b \in Batches : phase'[b] = "ok" => phase[b] = "ok" BY <1>3
  <2>. QED BY <1>1, <2>2, <2>3 DEF SentAreOk
<1>. QED BY <1>4, <1>5, <1>6

(* An answer comes in: of no batch that has returned Ok. *)
LEMMA AnswerRequestStep ==
  ASSUME ProgramTypeOK, PhasesInStep, SentAreOk, AnswerRequest
  PROVE  ProgramTypeOK' /\ PhasesInStep' /\ SentAreOk'
<1>1. PICK b \in Batches, k \in RequestStats : Batch!Answer(b, k) BY DEF AnswerRequest
<1>2. /\ phase' = phase /\ reported' = reported /\ phase[b] # "ok"
      /\ answered' = [answered EXCEPT ![b] = [answered[b] EXCEPT ![k] = answered[b][k] + 1]]
  BY <1>1 DEF Batch!Answer
<1>3. main' = main /\ batch' = batch /\ sent' = sent /\ rates' = rates /\ complete' = complete
  BY DEF AnswerRequest, ladderVars, vars
<1>4. ProgramTypeOK'
  <2>1. answered[b] \in [RequestStats -> Nat] BY DEF ProgramTypeOK
  <2>2. [answered[b] EXCEPT ![k] = answered[b][k] + 1] \in [RequestStats -> Nat] BY <2>1
  <2>3. answered' \in [Batches -> [RequestStats -> Nat]] BY <1>2, <2>2 DEF ProgramTypeOK
  <2>. QED BY <1>2, <2>3 DEF ProgramTypeOK
<1>5. \A c \in Batches : c # b => answered'[c] = answered[c] BY <1>2 DEF ProgramTypeOK
<1>6. PhasesInStep' BY <1>2, <1>3, <1>5 DEF PhasesInStep
<1>7. SentAreOk' BY <1>2, <1>3 DEF SentAreOk
<1>. QED BY <1>4, <1>6, <1>7

(* The other steps of the program. *)
LEMMA RestStep ==
  ASSUME ProgramTypeOK, PhasesInStep, SentAreOk,
         \/ EndSession \/ JoinReporter \/ ReporterThread \/ PanicAnywhere
         \/ GatewayAppliesLate \/ ProgramOver \/ UNCHANGED programVars
  PROVE  ProgramTypeOK' /\ PhasesInStep' /\ SentAreOk'
<1>1. /\ phase' = phase /\ answered' = answered /\ reported' = reported
      /\ rates' = rates /\ complete' = complete
  BY DEF EndSession, JoinReporter, ReporterThread, PanicAnywhere, GatewayAppliesLate,
         ProgramOver, programVars, batchVars, ladderVars
<1>2. batch' = batch /\ sent' = sent
  BY DEF EndSession, Shutdown, JoinReporter, JoinThread, ReporterThread, ThreadStep, Receive,
         PrintReport, PushReport, ChannelClosed, ResetMetrics, PanicAnywhere, Panic,
         GatewayAppliesLate, ApplyLate, ProgramOver, programVars, vars, mainVars
<1>3. \/ main' = main
      \/ main = "next" /\ main' = "join" /\ complete
      \/ main = "join" /\ main' = "done"
  BY DEF EndSession, Shutdown, JoinReporter, JoinThread, ReporterThread, ThreadStep, Receive,
         PrintReport, PushReport, ChannelClosed, ResetMetrics, PanicAnywhere, Panic,
         GatewayAppliesLate, ApplyLate, ProgramOver, programVars, vars, mainVars
<1>4. ProgramTypeOK' BY <1>1 DEF ProgramTypeOK
<1>5. PhasesInStep'
  <2>1. main' = "batch" <=> main = "batch" BY <1>3
  <2>2. main' \in {"join", "done"} => complete BY <1>3 DEF PhasesInStep
  <2>. QED BY <1>1, <1>2, <2>1, <2>2 DEF PhasesInStep
<1>6. SentAreOk' BY <1>1, <1>2 DEF SentAreOk
<1>. QED BY <1>4, <1>5, <1>6

LEMMA ProgramStep ==
  ASSUME ProgramInv, [ProgramNext]_programVars
  PROVE  ProgramInv'
<1>1. LadderInv' BY LadderKept DEF ProgramInv
<1>2. [Next]_vars BY ReportingPart DEF ProgramInv, PhasesInStep
<1>3. ReportingInv' BY <1>2, ReportingNext DEF ProgramInv, GatewayInv
<1>4. GatewayInv'
  BY <1>2, <1>3, InOrderStep, UpToDateStep DEF ProgramInv, GatewayInv
<1>5. ProgramTypeOK' /\ PhasesInStep' /\ SentAreOk'
  <2>. USE DEF ProgramInv, GatewayInv
  <2>1. CASE TakeBatch BY <1>3, <2>1, TakeBatchStep
  <2>2. CASE ReturnBatch BY <2>2, ReturnBatchStep
  <2>3. CASE FailBatch BY <2>3, FailBatchStep
  <2>4. CASE AnswerRequest BY <2>4, AnswerRequestStep
  <2>5. CASE \/ EndSession \/ JoinReporter \/ ReporterThread \/ PanicAnywhere
             \/ GatewayAppliesLate \/ ProgramOver \/ UNCHANGED programVars
    BY <2>5, RestStep
  <2>. QED BY <2>1, <2>2, <2>3, <2>4, <2>5 DEF ProgramNext, ProgramMain
<1>. QED BY <1>1, <1>4, <1>5 DEF ProgramInv

(* Ladder, batches and reporters stay in step. *)
THEOREM ProgramInvariant == ProgramSpec => []ProgramInv
<1>1. ProgramInv /\ [ProgramNext]_programVars => ProgramInv' BY ProgramStep
<1>. QED BY ProgramStart, <1>1, PTL DEF ProgramSpec

(* The program is a session of its ladder, whose batches run as promised and
   are reported by the main loop: each part behaves in it as its own module
   says, and what the modules prove of them holds of the program. *)
THEOREM PartsRefined == ProgramSpec => LadderSpec /\ Batch!Spec /\ Spec
<1>1. ProgramInit => LadderInit /\ Batch!Init /\ Init BY DEF ProgramInit
<1>2. ProgramInv /\ [ProgramNext]_programVars => [LadderNext]_ladderVars BY LadderPart
<1>3. ProgramInv /\ [ProgramNext]_programVars => [Next]_vars
  BY ReportingPart DEF ProgramInv, PhasesInStep
<1>4. ProgramInv /\ ProgramInv' /\ [ProgramNext]_programVars => [Batch!Next]_(Batch!vars)
  BY BatchPart DEF ProgramInv, GatewayInv
<1>. QED BY <1>1, <1>2, <1>3, <1>4, ProgramInvariant, PTL
         DEF ProgramSpec, LadderSpec, Spec, Batch!Spec

(* What is printed of a batch is every answer it got. *)
THEOREM PrintsTheTruth == ProgramSpec => []PrintedIsTrue
<1>1. ProgramInv => PrintedIsTrue
  <2>. SUFFICES ASSUME ProgramInv, NEW i \in 1..Len(printed)
                PROVE  phase[printed[i]] = "ok" /\ reported[printed[i]] = answered[printed[i]]
    BY DEF PrintedIsTrue
  <2>1. i \in 1..Len(sent) /\ sent[i] = printed[i] BY PrintedFirst DEF ProgramInv, GatewayInv
  <2>2. sent[i] \in Batches BY <2>1, Ranges DEF ProgramInv, GatewayInv
  <2>. QED BY <2>1, <2>2 DEF ProgramInv, SentAreOk, PhasesInStep
<1>. QED BY <1>1, ProgramInvariant, PTL

(* When main returns, the whole ladder has been tried, each step at its rate,
   and the batches that returned Ok are printed. *)
THEOREM TriesEveryStep == ProgramSpec => []EveryStepTried
<1>1. ProgramInv /\ NothingLeftBehind => EveryStepTried
  <2>. SUFFICES ASSUME ProgramInv, NothingLeftBehind, main = "done"
                PROVE  /\ Len(rates) = BatchTotal(config)
                       /\ \A b \in 1..Len(rates) : rates[b] = RateAt(config, b)
                       /\ \A i, j \in 1..Len(printed) : i < j => printed[i] < printed[j]
                       /\ \A b \in 1..Len(rates) :
                            phase[b] = "ok" <=> \E i \in 1..Len(printed) : printed[i] = b
    BY DEF EveryStepTried
  <2>1. complete BY DEF ProgramInv, PhasesInStep
  <2>2. Len(rates) = BatchTotal(config) BY <2>1, LadderCounts DEF ProgramInv, BatchCount
  <2>3. \A b \in 1..Len(rates) : rates[b] = RateAt(config, b)
    BY DEF ProgramInv, LadderInv, Staircase
  <2>4. printed = sent BY DEF NothingLeftBehind
  <2>5. \A b \in 1..Len(rates) : b \in Batches
    BY Ranges DEF ProgramInv, GatewayInv, PhasesInStep, Batches
  <2>. QED BY <2>2, <2>3, <2>4, <2>5 DEF ProgramInv, SentAreOk
<1>. QED BY <1>1, ProgramInvariant, PartsRefined, NothingIsLeftBehind, PTL

(* The gateway of the program is left as --continuous says. *)
THEOREM ProgramGatewayFollows == ProgramSpec => []GatewayFollows
BY PartsRefined, GatewayIsFollowing, PTL
=============================================================================
