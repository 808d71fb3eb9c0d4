-------------------------- MODULE ReportingProofs --------------------------
(***************************************************************************)
(* Proofs about module Reporting, for every number of batches, with and    *)
(* without a gateway, in continuous runs and others.                       *)
(***************************************************************************)
EXTENDS Reporting, SequenceTheorems, TLAPS

-----------------------------------------------------------------------------
\* Sequences that are handed on at their front and grow at their end.

(* Appending to the last of three sequences appends to all of them. *)
LEMMA AppendToLast ==
  ASSUME NEW S, NEW a \in Seq(S), NEW p \in Seq(S), NEW q \in Seq(S), NEW x \in S
  PROVE  a \o (p \o Append(q, x)) = Append(a \o (p \o q), x)
<1>1. /\ p \o q \in Seq(S) /\ a \o (p \o q) \in Seq(S)
      /\ Append(q, x) \in Seq(S) /\ <<x>> \in Seq(S)
  BY ConcatProperties
<1>2. Append(q, x) = q \o <<x>> OBVIOUS
<1>3. Append(a \o (p \o q), x) = (a \o (p \o q)) \o <<x>> BY <1>1
<1>4. p \o (q \o <<x>>) = (p \o q) \o <<x>> BY <1>1, ConcatAssociative
<1>5. a \o ((p \o q) \o <<x>>) = (a \o (p \o q)) \o <<x>> BY <1>1, ConcatAssociative
<1>. QED BY <1>2, <1>3, <1>4, <1>5

(* A sequence that is not empty is its head before its tail. *)
LEMMA HeadAndTail ==
  ASSUME NEW S, NEW q \in Seq(S), q # <<>>
  PROVE  <<Head(q)>> \o Tail(q) = q
<1>1. /\ Head(q) \in S /\ Tail(q) \in Seq(S) /\ Len(Tail(q)) = Len(q) - 1
      /\ \A i \in 1..Len(Tail(q)) : Tail(q)[i] = q[i + 1]
  BY HeadTailProperties
<1>2. <<Head(q)>> \in Seq(S) /\ Len(<<Head(q)>>) = 1 BY <1>1
<1>3. /\ <<Head(q)>> \o Tail(q) \in Seq(S)
      /\ Len(<<Head(q)>> \o Tail(q)) = 1 + Len(Tail(q))
      /\ \A i \in 1..(1 + Len(Tail(q))) :
           (<<Head(q)>> \o Tail(q))[i] = IF i <= 1 THEN <<Head(q)>>[i] ELSE Tail(q)[i - 1]
  BY <1>1, <1>2, ConcatProperties
<1>4. Len(q) \in Nat /\ Len(q) # 0 BY LenProperties, EmptySeq
<1>5. Head(q) = q[1] OBVIOUS
<1>6. ASSUME NEW i \in 1..Len(q) PROVE (<<Head(q)>> \o Tail(q))[i] = q[i]
  <2>1. CASE i = 1 BY <1>1, <1>3, <1>4, <1>5, <2>1
  <2>2. CASE i > 1
    <3>1. i - 1 \in 1..Len(Tail(q)) BY <1>1, <1>4, <1>6, <2>2
    <3>2. Tail(q)[i - 1] = q[i] BY <1>1, <3>1
    <3>. QED BY <1>1, <1>3, <1>4, <2>2, <3>2
  <2>. QED BY <2>1, <2>2
<1>. QED BY <1>1, <1>3, <1>4, <1>6, SeqEqual

(* Moving the first of what is pending to the end of what is done. *)
LEMMA MoveOn ==
  ASSUME NEW S, NEW a \in Seq(S), NEW q \in Seq(S), NEW x \in S
  PROVE  Append(a, x) \o (<<>> \o q) = a \o (<<x>> \o q)
<1>1. Append(a, x) = a \o <<x>> /\ <<x>> \in Seq(S) OBVIOUS
<1>2. <<>> \o q = q BY ConcatEmptySeq
<1>. QED BY <1>1, <1>2, ConcatAssociative

-----------------------------------------------------------------------------
\* The invariant.

(* A thread that has left its loop has seen the channel empty and closed, and
   main closes it at the end of its own loop. *)
ThreadInv ==
  /\ thread \in {"reset", "ended"} => queue = <<>> /\ closed
  /\ closed <=> main \in {"join", "done"}
  /\ main = "done" => thread = "ended"
  /\ thread = "report" => item \in 1..MaxBatches
  /\ thread \in {"recv", "ended"} => at = 1
  /\ main = "batch" => batch \in 1..MaxBatches

ReportingInv == TypeOK /\ ThreadInv /\ ConsoleComplete

(* The two reporters, by their position. *)
LEMMA ReporterAt ==
  /\ Len(Reporters) \in {1, 2}
  /\ \A i \in 1..Len(Reporters) : /\ Reporters[i] = "console" <=> i = 1
                                  /\ Reporters[i] = "gateway" <=> i = 2
<1>1. CASE HasGateway
  <2>1. Reporters = <<"console", "gateway">> BY <1>1 DEF Reporters
  <2>. QED BY <2>1
<1>2. CASE ~ HasGateway
  <2>1. Reporters = <<"console">> BY <1>2 DEF Reporters
  <2>. QED BY <2>1
<1>. QED BY <1>1, <1>2, ReportingAssumption DEF ReportingAssumption

LEMMA ReportingInit == Init => ReportingInv
<1>. SUFFICES ASSUME Init PROVE ReportingInv OBVIOUS
<1>1. TypeOK
  <2>1. /\ 1 \in 1..Len(Reporters) /\ 0 \in Nothing..Empty /\ 0 \in 0..MaxBatches
        /\ gateway = 0
    BY ReporterAt, ReportingAssumption DEF Init, ReportingAssumption, Nothing, Empty
  <2>2. <<>> \in Seq(1..MaxBatches) OBVIOUS
  <2>. QED BY <2>1, <2>2 DEF Init, TypeOK
<1>2. ThreadInv BY DEF Init, ThreadInv
<1>3. Pending(1) = <<>> \o <<>> BY DEF Init, Pending
<1>4. <<>> \o (<<>> \o <<>>) = <<>> OBVIOUS
<1>5. ConsoleComplete BY <1>3, <1>4 DEF Init, ConsoleComplete
<1>. QED BY <1>1, <1>2, <1>5 DEF ReportingInv

-----------------------------------------------------------------------------
\* The steps.

LEMMA NextReporterType ==
  ASSUME at \in 1..Len(Reporters), NEW after, NextReporter(after)
  PROVE  /\ at' \in 1..Len(Reporters)
         /\ (thread' = thread /\ at' = at + 1) \/ (thread' = after /\ at' = 1)
<1>1. at \in Nat /\ 1 <= at /\ Len(Reporters) \in Nat /\ 1 <= Len(Reporters)
  BY ReporterAt
<1>2. CASE at < Len(Reporters) BY <1>1, <1>2 DEF NextReporter
<1>3. CASE ~ (at < Len(Reporters)) BY <1>1, <1>3 DEF NextReporter
<1>. QED BY <1>2, <1>3

LEMMA PushType ==
  ASSUME gateway \in Nothing..Empty, late \subseteq Nothing..Empty, astray \in BOOLEAN,
         NEW content \in Nothing..Empty, Push(content)
  PROVE  /\ gateway' \in Nothing..Empty /\ late' \subseteq Nothing..Empty
         /\ astray' \in BOOLEAN
BY DEF Push

(* What Pending(1) is, in the loop of the thread. *)
LEMMA PendingCases ==
  ASSUME TypeOK
  PROVE  /\ thread = "report" /\ at = 1 => Pending(1) = <<item>> \o queue
         /\ ~ (thread = "report" /\ at = 1) => Pending(1) = <<>> \o queue
<1>1. at \in Nat /\ at >= 1 BY ReporterAt DEF TypeOK
<1>2. at <= 1 <=> at = 1 BY <1>1
<1>3. CASE thread = "report" /\ at = 1 BY <1>2, <1>3 DEF Pending
<1>4. CASE ~ (thread = "report" /\ at = 1) BY <1>2, <1>4 DEF Pending
<1>. QED BY <1>3, <1>4

LEMMA PendingCasesNext ==
  ASSUME TypeOK'
  PROVE  /\ thread' = "report" /\ at' = 1 => Pending(1)' = <<item'>> \o queue'
         /\ ~ (thread' = "report" /\ at' = 1) => Pending(1)' = <<>> \o queue'
<1>1. at' \in Nat /\ at' >= 1 BY ReporterAt DEF TypeOK
<1>2. at' <= 1 <=> at' = 1 BY <1>1
<1>3. CASE thread' = "report" /\ at' = 1 BY <1>2, <1>3 DEF Pending
<1>4. CASE ~ (thread' = "report" /\ at' = 1) BY <1>2, <1>4 DEF Pending
<1>. QED BY <1>3, <1>4

(* A step that leaves the sequences, the item and the position alone. *)
LEMMA FrameComplete ==
  ASSUME ConsoleComplete, UNCHANGED <<printed, sent, queue, item, at, thread>>
  PROVE  ConsoleComplete'
BY DEF ConsoleComplete, Pending

LEMMA StartBatchStep == ReportingInv /\ batch < MaxBatches /\ StartBatch => ReportingInv'
<1>. SUFFICES ASSUME ReportingInv, batch < MaxBatches, StartBatch PROVE ReportingInv'
  OBVIOUS
<1>1. batch + 1 \in 1..MaxBatches
  BY ReportingAssumption DEF ReportingInv, TypeOK, ReportingAssumption
<1>2. TypeOK' BY <1>1 DEF ReportingInv, TypeOK, StartBatch, threadVars
<1>3. ThreadInv' BY <1>1 DEF ReportingInv, ThreadInv, StartBatch, threadVars
<1>4. ConsoleComplete' BY FrameComplete DEF ReportingInv, StartBatch, threadVars
<1>. QED BY <1>2, <1>3, <1>4 DEF ReportingInv

LEMMA BatchOkStep == ReportingInv /\ BatchOk => ReportingInv'
<1>. SUFFICES ASSUME ReportingInv, BatchOk PROVE ReportingInv' OBVIOUS
<1>1. batch \in 1..MaxBatches BY DEF ReportingInv, ThreadInv, BatchOk
<1>2. TypeOK' BY <1>1 DEF ReportingInv, TypeOK, BatchOk, threadVars
<1>3. ThreadInv' BY DEF ReportingInv, ThreadInv, BatchOk, threadVars
<1>4. ConsoleComplete'
  <2>1. /\ printed' = printed /\ item' = item /\ at' = at /\ thread' = thread
        /\ queue' = Append(queue, batch) /\ sent' = Append(sent, batch)
    BY DEF BatchOk, threadVars
  <2>2. PICK p \in {<<>>, <<item>>} : Pending(1) = p \o queue /\ Pending(1)' = p \o queue'
    BY <1>2, <2>1, PendingCases, PendingCasesNext DEF ReportingInv
  <2>3. p \in Seq(0..MaxBatches)
    <3>1. item \in 0..MaxBatches BY DEF ReportingInv, TypeOK
    <3>2. <<item>> \in Seq(0..MaxBatches) /\ <<>> \in Seq(0..MaxBatches) BY <3>1
    <3>. QED BY <3>2
  <2>4. /\ printed \in Seq(0..MaxBatches) /\ queue \in Seq(0..MaxBatches)
        /\ batch \in 0..MaxBatches
    <3>1. 1..MaxBatches \subseteq 0..MaxBatches OBVIOUS
    <3>. QED BY <3>1, SeqMonotonic DEF ReportingInv, TypeOK
  <2>5. printed \o (p \o Append(queue, batch)) = Append(printed \o (p \o queue), batch)
    <3>. DEFINE S == 0..MaxBatches
    <3>1. printed \in Seq(S) /\ p \in Seq(S) /\ queue \in Seq(S) /\ batch \in S
      BY <2>3, <2>4
    <3>. HIDE DEF S
    <3>. QED BY ONLY <3>1, AppendToLast, SMTT(60)
  <2>. QED BY <2>1, <2>2, <2>5 DEF ReportingInv, ConsoleComplete
<1>. QED BY <1>2, <1>3, <1>4 DEF ReportingInv

LEMMA BatchErrStep == ReportingInv /\ BatchErr => ReportingInv'
<1>. SUFFICES ASSUME ReportingInv, BatchErr PROVE ReportingInv' OBVIOUS
<1>1. TypeOK' BY DEF ReportingInv, TypeOK, BatchErr, threadVars
<1>2. ThreadInv' BY DEF ReportingInv, ThreadInv, BatchErr, threadVars
<1>3. ConsoleComplete' BY FrameComplete DEF ReportingInv, BatchErr, threadVars
<1>. QED BY <1>1, <1>2, <1>3 DEF ReportingInv

LEMMA ShutdownStep == ReportingInv /\ Shutdown => ReportingInv'
<1>. SUFFICES ASSUME ReportingInv, Shutdown PROVE ReportingInv' OBVIOUS
<1>1. TypeOK' BY DEF ReportingInv, TypeOK, Shutdown, threadVars
<1>2. ThreadInv' BY DEF ReportingInv, ThreadInv, Shutdown, threadVars
<1>3. ConsoleComplete' BY FrameComplete DEF ReportingInv, Shutdown, threadVars
<1>. QED BY <1>1, <1>2, <1>3 DEF ReportingInv

LEMMA JoinThreadStep == ReportingInv /\ JoinThread => ReportingInv'
<1>. SUFFICES ASSUME ReportingInv, JoinThread PROVE ReportingInv' OBVIOUS
<1>1. TypeOK' BY DEF ReportingInv, TypeOK, JoinThread, threadVars
<1>2. ThreadInv' BY DEF ReportingInv, ThreadInv, JoinThread, threadVars
<1>3. ConsoleComplete' BY FrameComplete DEF ReportingInv, JoinThread, threadVars
<1>. QED BY <1>1, <1>2, <1>3 DEF ReportingInv

LEMMA ReceiveStep == ReportingInv /\ Receive => ReportingInv'
<1>. SUFFICES ASSUME ReportingInv, Receive PROVE ReportingInv' OBVIOUS
<1>1. queue \in Seq(1..MaxBatches) /\ queue # <<>> BY DEF ReportingInv, TypeOK, Receive
<1>2. Head(queue) \in 1..MaxBatches /\ Tail(queue) \in Seq(1..MaxBatches)
  BY <1>1, HeadTailProperties
<1>3. TypeOK' BY <1>2, ReporterAt DEF ReportingInv, TypeOK, Receive, mainVars
<1>4. ThreadInv' BY <1>2 DEF ReportingInv, ThreadInv, Receive, mainVars
<1>5. ConsoleComplete'
  <2>1. Pending(1) = <<>> \o queue BY PendingCases DEF ReportingInv, Receive
  <2>2. Pending(1)' = <<Head(queue)>> \o Tail(queue)
    BY <1>3, PendingCasesNext DEF Receive
  <2>3. Pending(1)' = Pending(1) BY <1>1, <2>1, <2>2, HeadAndTail, ConcatEmptySeq
  <2>. QED BY <2>3 DEF ReportingInv, ConsoleComplete, Receive, mainVars
<1>. QED BY <1>3, <1>4, <1>5 DEF ReportingInv

LEMMA PrintReportStep == ReportingInv /\ PrintReport => ReportingInv'
<1>. SUFFICES ASSUME ReportingInv, PrintReport PROVE ReportingInv' OBVIOUS
<1>1. at = 1 /\ item \in 1..MaxBatches
  BY ReporterAt DEF ReportingInv, TypeOK, ThreadInv, PrintReport
<1>2. /\ at' \in 1..Len(Reporters)
      /\ (thread' = thread /\ at' = at + 1) \/ (thread' = "recv" /\ at' = 1)
  BY NextReporterType DEF ReportingInv, TypeOK, PrintReport
<1>3. TypeOK' BY <1>1, <1>2 DEF ReportingInv, TypeOK, PrintReport, mainVars
<1>4. ThreadInv' BY <1>2 DEF ReportingInv, ThreadInv, PrintReport, mainVars
<1>5. ConsoleComplete'
  <2>1. Pending(1) = <<item>> \o queue
    BY <1>1, PendingCases DEF ReportingInv, PrintReport
  <2>2. Pending(1)' = <<>> \o queue
    BY <1>1, <1>2, <1>3, PendingCasesNext DEF PrintReport
  <2>3. Append(printed, item) \o (<<>> \o queue) = printed \o (<<item>> \o queue)
    BY <1>1, MoveOn DEF ReportingInv, TypeOK
  <2>. QED BY <2>1, <2>2, <2>3 DEF ReportingInv, ConsoleComplete, PrintReport, mainVars
<1>. QED BY <1>3, <1>4, <1>5 DEF ReportingInv

LEMMA PushReportStep == ReportingInv /\ PushReport => ReportingInv'
<1>. SUFFICES ASSUME ReportingInv, PushReport PROVE ReportingInv' OBVIOUS
<1>1. at = 2 /\ item \in 1..MaxBatches
  BY ReporterAt DEF ReportingInv, TypeOK, ThreadInv, PushReport
<1>2. at' = 1 /\ thread' = "recv"
  <2>1. ~ (at < Len(Reporters)) BY <1>1, ReporterAt
  <2>. QED BY <2>1 DEF PushReport, NextReporter
<1>3. /\ gateway' \in Nothing..Empty /\ late' \subseteq Nothing..Empty
      /\ astray' \in BOOLEAN
  <2>1. item \in Nothing..Empty BY <1>1, ReportingAssumption DEF Nothing, Empty, ReportingAssumption
  <2>. QED BY <2>1, PushType DEF ReportingInv, TypeOK, PushReport
<1>4. TypeOK' BY <1>2, <1>3, ReporterAt DEF ReportingInv, TypeOK, PushReport, mainVars
<1>5. ThreadInv' BY <1>2 DEF ReportingInv, ThreadInv, PushReport, mainVars
<1>6. ConsoleComplete'
  <2>1. Pending(1) = <<>> \o queue
    BY <1>1, PendingCases DEF ReportingInv
  <2>2. Pending(1)' = <<>> \o queue
    BY <1>2, <1>4, PendingCasesNext DEF PushReport
  <2>. QED BY <2>1, <2>2 DEF ReportingInv, ConsoleComplete, PushReport, mainVars
<1>. QED BY <1>4, <1>5, <1>6 DEF ReportingInv

LEMMA ChannelClosedStep == ReportingInv /\ ChannelClosed => ReportingInv'
<1>. SUFFICES ASSUME ReportingInv, ChannelClosed PROVE ReportingInv' OBVIOUS
<1>1. thread' \in {"reset", "ended"} BY DEF ChannelClosed
<1>2. TypeOK' BY <1>1, ReporterAt DEF ReportingInv, TypeOK, ChannelClosed, mainVars
<1>3. ThreadInv' BY <1>1 DEF ReportingInv, ThreadInv, ChannelClosed, mainVars, Alive
<1>4. ConsoleComplete'
  <2>1. Pending(1) = <<>> \o queue /\ Pending(1)' = <<>> \o queue
    BY <1>1, <1>2, PendingCases, PendingCasesNext DEF ReportingInv, ChannelClosed
  <2>. QED BY <2>1 DEF ReportingInv, ConsoleComplete, ChannelClosed, mainVars
<1>. QED BY <1>2, <1>3, <1>4 DEF ReportingInv

LEMMA ResetMetricsStep == ReportingInv /\ ResetMetrics => ReportingInv'
<1>. SUFFICES ASSUME ReportingInv, ResetMetrics PROVE ReportingInv' OBVIOUS
<1>1. /\ at' \in 1..Len(Reporters)
      /\ (thread' = thread /\ at' = at + 1) \/ (thread' = "ended" /\ at' = 1)
  BY NextReporterType DEF ReportingInv, TypeOK, ResetMetrics
<1>2. /\ gateway' \in Nothing..Empty /\ late' \subseteq Nothing..Empty
      /\ astray' \in BOOLEAN
  <2>1. Empty \in Nothing..Empty BY ReportingAssumption DEF Nothing, Empty, ReportingAssumption
  <2>. QED BY <2>1, PushType DEF ReportingInv, TypeOK, ResetMetrics
<1>3. thread = "reset" /\ thread' \in {"reset", "ended"} BY <1>1 DEF ResetMetrics
<1>4. TypeOK' BY <1>1, <1>2, <1>3 DEF ReportingInv, TypeOK, ResetMetrics, mainVars
<1>5. ThreadInv' BY <1>1, <1>3 DEF ReportingInv, ThreadInv, ResetMetrics, mainVars, Alive
<1>6. ConsoleComplete'
  <2>1. Pending(1) = <<>> \o queue /\ Pending(1)' = <<>> \o queue
    BY <1>3, <1>4, PendingCases, PendingCasesNext DEF ReportingInv, ResetMetrics
  <2>. QED BY <2>1 DEF ReportingInv, ConsoleComplete, ResetMetrics, mainVars
<1>. QED BY <1>4, <1>5, <1>6 DEF ReportingInv

LEMMA PanicStep == ReportingInv /\ Panic => ReportingInv'
<1>. SUFFICES ASSUME ReportingInv, Panic PROVE ReportingInv' OBVIOUS
<1>1. TypeOK'
  <2>1. InFlight \subseteq Nothing..Empty
    BY ReportingAssumption
    DEF ReportingInv, TypeOK, InFlight, Nothing, Empty, ReportingAssumption
  <2>2. late' \subseteq Nothing..Empty BY <2>1 DEF ReportingInv, TypeOK, Panic
  <2>. QED BY <2>2 DEF ReportingInv, TypeOK, Panic, mainVars
<1>2. ThreadInv' BY DEF ReportingInv, ThreadInv, Panic, mainVars
<1>3. ConsoleComplete' BY FrameComplete DEF ReportingInv, Panic, mainVars
<1>. QED BY <1>1, <1>2, <1>3 DEF ReportingInv

LEMMA ApplyLateStep == ReportingInv /\ ApplyLate => ReportingInv'
<1>. SUFFICES ASSUME ReportingInv, ApplyLate PROVE ReportingInv' OBVIOUS
<1>1. TypeOK' BY DEF ReportingInv, TypeOK, ApplyLate, mainVars
<1>2. ThreadInv' BY DEF ReportingInv, ThreadInv, ApplyLate, mainVars
<1>3. ConsoleComplete' BY FrameComplete DEF ReportingInv, ApplyLate, mainVars
<1>. QED BY <1>1, <1>2, <1>3 DEF ReportingInv

LEMMA StutterStep == ReportingInv /\ UNCHANGED vars => ReportingInv'
<1>. SUFFICES ASSUME ReportingInv, UNCHANGED vars PROVE ReportingInv' OBVIOUS
<1>1. TypeOK' BY DEF ReportingInv, TypeOK, vars
<1>2. ThreadInv' BY DEF ReportingInv, ThreadInv, vars
<1>3. ConsoleComplete' BY FrameComplete DEF ReportingInv, vars
<1>. QED BY <1>1, <1>2, <1>3 DEF ReportingInv

LEMMA ReportingNext == ReportingInv /\ [Next]_vars => ReportingInv'
BY StartBatchStep, BatchOkStep, BatchErrStep, ShutdownStep, JoinThreadStep, ReceiveStep,
   PrintReportStep, PushReportStep, ChannelClosedStep, ResetMetricsStep, PanicStep,
   ApplyLateStep, StutterStep
DEF Next, MainStep, BatchEnds, ThreadStep, Terminated

-----------------------------------------------------------------------------
\* The theorems about the console.

(* The invariant of main loop, channel and thread. *)
THEOREM ReportingInvariant == Spec => []ReportingInv
<1>. QED BY ReportingInit, ReportingNext, PTL DEF Spec

(* Every variable keeps its type. *)
THEOREM ReportingTypeCorrect == Spec => []TypeOK
<1>1. ReportingInv => TypeOK BY DEF ReportingInv
<1>. QED BY <1>1, ReportingInvariant, PTL

(* What is printed and what is on its way to the console is what main has
   sent, in order. *)
THEOREM ConsoleIsComplete == Spec => []ConsoleComplete
<1>1. ReportingInv => ConsoleComplete BY DEF ReportingInv
<1>. QED BY <1>1, ReportingInvariant, PTL

(* When main has returned, everything it has sent is printed. *)
THEOREM NothingIsLeftBehind == Spec => []NothingLeftBehind
<1>1. ReportingInv => NothingLeftBehind
  <2>. SUFFICES ASSUME ReportingInv, main = "done" PROVE printed = sent /\ thread = "ended"
    BY DEF NothingLeftBehind
  <2>1. thread = "ended" /\ queue = <<>> BY DEF ReportingInv, ThreadInv
  <2>2. Pending(1) = <<>> \o <<>> BY <2>1, PendingCases DEF ReportingInv
  <2>3. <<>> \o <<>> = <<>> OBVIOUS
  <2>4. printed \o <<>> = sent BY <2>2, <2>3 DEF ReportingInv, ConsoleComplete
  <2>5. printed \o <<>> = printed BY ConcatEmptySeq DEF ReportingInv, TypeOK
  <2>. QED BY <2>1, <2>4, <2>5
<1>. QED BY <1>1, ReportingInvariant, PTL
-----------------------------------------------------------------------------
\* The gateway.

(* The pushes that have returned, as the console knows them: a batch is
   printed before it is pushed. *)
PushedCount == IF thread = "report" /\ at = 2 THEN Len(printed) - 1 ELSE Len(printed)

(* What the gateway shows or may yet apply. *)
Reached == {gateway} \cup late

(* What is pushed next is not older than what has reached the gateway. *)
InOrder ==
  /\ \A i, j \in 1..Len(queue) : i <= j => queue[i] <= queue[j]
  /\ \A i \in 1..Len(queue) : queue[i] <= batch
  /\ \A c \in Reached, i \in 1..Len(queue) : c <= queue[i]
  /\ thread = "report" =>
       /\ item <= batch
       /\ \A c \in Reached : c <= item
       /\ \A i \in 1..Len(queue) : item <= queue[i]
  /\ thread \in {"recv", "report"} => \A c \in Reached : c <= batch

(* What the gateway shows after a push that has succeeded. *)
UpToDate ==
  HasGateway =>
    /\ thread = "report" /\ at = 2 => printed # <<>> /\ printed[Len(printed)] = item
    /\ thread = "reset" => ~ Continuous
    /\ ~ astray =>
         gateway = IF thread = "ended" /\ ~ Continuous THEN Empty
                   ELSE IF PushedCount = 0 THEN Nothing ELSE printed[PushedCount]

GatewayInv == ReportingInv /\ InOrder /\ UpToDate

LEMMA PushedIsPrinted ==
  GatewayInv /\ HasGateway =>
    Pushed = IF PushedCount = 0 THEN Nothing ELSE printed[PushedCount]
<1>. SUFFICES ASSUME GatewayInv, HasGateway
              PROVE  Pushed = IF PushedCount = 0 THEN Nothing ELSE printed[PushedCount]
  OBVIOUS
<1>1. /\ printed \in Seq(1..MaxBatches) /\ queue \in Seq(1..MaxBatches)
      /\ sent = printed \o Pending(1) /\ item \in 0..MaxBatches /\ at \in {1, 2}
  <2>1. at \in 1..Len(Reporters) BY DEF GatewayInv, ReportingInv, TypeOK
  <2>2. at \in {1, 2} BY <2>1, ReporterAt
  <2>. QED BY <2>2 DEF GatewayInv, ReportingInv, TypeOK, ConsoleComplete
<1> DEFINE S == 1..MaxBatches
           T == 0..MaxBatches
<1>2. /\ <<item>> \in Seq(T) /\ queue \in Seq(T) /\ <<>> \in Seq(T) /\ printed \in Seq(T)
  <2>1. S \subseteq T OBVIOUS
  <2>2. item \in T /\ printed \in Seq(S) /\ queue \in Seq(S) BY <1>1
  <2> HIDE DEF S, T
  <2>3. printed \in Seq(T) /\ queue \in Seq(T) BY <2>1, <2>2, SeqMonotonic
  <2>4. <<item>> \in Seq(T) /\ <<>> \in Seq(T) BY <2>2
  <2>. QED BY <2>3, <2>4
<1> HIDE DEF S, T
<1>3. /\ thread = "report" => Pending(2) = <<item>> \o queue
      /\ thread # "report" => Pending(2) = <<>> \o queue
  BY <1>1 DEF Pending
<1>4. /\ thread = "report" /\ at = 1 => Pending(1) = <<item>> \o queue
      /\ ~ (thread = "report" /\ at = 1) => Pending(1) = <<>> \o queue
  BY PendingCases DEF GatewayInv, ReportingInv
<1>5. /\ Len(<<item>> \o queue) = 1 + Len(queue) /\ Len(<<>> \o queue) = Len(queue)
      /\ <<item>> \o queue \in Seq(T) /\ <<>> \o queue \in Seq(T)
      /\ Len(queue) \in Nat /\ Len(printed) \in Nat
  BY <1>2, ConcatProperties
<1>6. /\ Len(Pending(2)) = Len(queue) + (IF thread = "report" THEN 1 ELSE 0)
      /\ Len(Pending(1)) = Len(queue) + (IF thread = "report" /\ at = 1 THEN 1 ELSE 0)
      /\ Pending(1) \in Seq(T)
  <2>1. CASE thread = "report" /\ at = 1
    <3>1. Pending(1) = <<item>> \o queue /\ Pending(2) = Pending(1)
      BY <1>3, <1>4, <2>1
    <3>2. Pending(1) \in Seq(T) /\ Len(Pending(1)) = 1 + Len(queue) BY <1>5, <3>1
    <3>. QED BY <1>5, <2>1, <3>1, <3>2
  <2>2. CASE thread = "report" /\ at # 1 BY <1>3, <1>4, <1>5, <2>2
  <2>3. CASE thread # "report" BY <1>3, <1>4, <1>5, <2>3
  <2>. QED BY <2>1, <2>2, <2>3
<1>7. /\ Len(sent) = Len(printed) + Len(Pending(1))
      /\ \A i \in 1..Len(printed) : sent[i] = printed[i]
  BY <1>1, <1>2, <1>6, ConcatProperties
<1>8. Len(sent) - Len(Pending(2)) = PushedCount
  <2>1. CASE thread = "report" /\ at = 1 BY <1>5, <1>6, <1>7, <2>1 DEF PushedCount
  <2>2. CASE thread = "report" /\ at = 2 BY <1>5, <1>6, <1>7, <2>2 DEF PushedCount
  <2>3. CASE thread # "report" BY <1>5, <1>6, <1>7, <2>3 DEF PushedCount
  <2>. QED BY <1>1, <2>1, <2>2, <2>3
<1>9. PushedCount \in 0..Len(printed)
  BY <1>5, EmptySeq DEF PushedCount, GatewayInv, UpToDate
<1>. QED BY <1>7, <1>8, <1>9 DEF Pushed
LEMMA GatewayInit == Init => GatewayInv
<1>. SUFFICES ASSUME Init PROVE GatewayInv OBVIOUS
<1>1. ReportingInv BY ReportingInit
<1>2. InOrder
  <2>1. /\ Len(queue) = 0 /\ Reached = {0} /\ batch = 0 /\ thread = "recv"
    BY DEF Init, Reached, Nothing
  <2>. QED BY <2>1 DEF InOrder
<1>3. UpToDate BY DEF Init, UpToDate, PushedCount
<1>. QED BY <1>1, <1>2, <1>3 DEF GatewayInv

(* The thread takes the gateway forward, whatever has reached it. *)
LEMMA InOrderStep ==
  ASSUME ReportingInv, InOrder, [Next]_vars
  PROVE  InOrder' /\ (gateway' >= gateway \/ gateway' \in late)
<1>1. /\ queue \in Seq(1..MaxBatches) /\ item \in 0..MaxBatches /\ batch \in 0..MaxBatches
      /\ gateway \in 0..Empty /\ MaxBatches \in Nat /\ Empty = MaxBatches + 1
      /\ gateway \in Reached /\ \A c \in Reached : c \in 0..Empty
  BY ReportingAssumption DEF ReportingInv, TypeOK, Nothing, Empty, Reached
<1>2. /\ \A i, j \in 1..Len(queue) : i <= j => queue[i] <= queue[j]
      /\ \A i \in 1..Len(queue) : queue[i] <= batch
      /\ \A c \in Reached, i \in 1..Len(queue) : c <= queue[i]
      /\ thread = "report" =>
           /\ item <= batch
           /\ \A c \in Reached : c <= item
           /\ \A i \in 1..Len(queue) : item <= queue[i]
      /\ thread \in {"recv", "report"} => \A c \in Reached : c <= batch
  BY DEF InOrder
<1>3. Len(queue) \in Nat /\ \A i \in 1..Len(queue) : queue[i] \in Nat
  BY <1>1
<1>4. /\ thread \in {"reset", "ended"} => queue = <<>> /\ main \in {"join", "done"}
      /\ thread \in {"recv", "report", "reset", "ended"}
  BY DEF ReportingInv, TypeOK, ThreadInv
<1>5. CASE StartBatch
  <2>1. batch' = batch + 1 /\ UNCHANGED <<queue, thread, item, gateway, late>>
    BY <1>5 DEF StartBatch, threadVars
  <2>2. Reached' = Reached BY <2>1 DEF Reached
  <2>. QED BY <1>1, <1>2, <1>3, <2>1, <2>2 DEF InOrder
<1>6. CASE BatchOk
  <2>1. /\ queue' = Append(queue, batch)
        /\ UNCHANGED <<batch, thread, item, gateway, late>> /\ main = "batch"
    BY <1>6 DEF BatchOk, threadVars
  <2>2. /\ Len(queue') = Len(queue) + 1
        /\ \A i \in 1..Len(queue) : queue'[i] = queue[i]
        /\ queue'[Len(queue) + 1] = batch
    BY <1>1, <2>1
  <2>3. \A c \in Reached : c <= batch BY <1>2, <1>4, <2>1
  <2>4. ASSUME NEW i \in 1..Len(queue')
        PROVE  /\ queue'[i] <= batch /\ \A c \in Reached : c <= queue'[i]
               /\ thread = "report" => item <= queue'[i]
               /\ \A j \in 1..Len(queue') : i <= j => queue'[i] <= queue'[j]
    <3>1. i \in 1..Len(queue) \/ i = Len(queue) + 1 BY <1>3, <2>2
    <3>2. \A j \in 1..Len(queue') : j \in 1..Len(queue) \/ j = Len(queue) + 1 BY <1>3, <2>2
    <3>. QED BY <1>1, <1>2, <1>3, <2>2, <2>3, <3>1, <3>2, SMTT(20)
  <2>5. Reached' = Reached BY <2>1 DEF Reached
  <2>. QED BY <1>1, <1>2, <2>1, <2>3, <2>4, <2>5 DEF InOrder
<1>7. CASE Receive
  <2>1. /\ queue # <<>> /\ item' = Head(queue) /\ queue' = Tail(queue)
        /\ UNCHANGED <<batch, gateway, late>> /\ thread = "recv" /\ thread' = "report"
    BY <1>7 DEF Receive, mainVars
  <2>2. /\ Len(queue') = Len(queue) - 1 /\ Len(queue) >= 1
        /\ \A i \in 1..Len(queue') : queue'[i] = queue[i + 1] /\ i + 1 \in 1..Len(queue)
        /\ item' = queue[1]
    BY <1>1, <2>1
  <2>3. 1 \in 1..Len(queue) BY <1>3, <2>2
  <2>4. /\ item' <= batch /\ \A c \in Reached : c <= item'
        /\ \A i \in 1..Len(queue') : item' <= queue'[i] /\ queue'[i] <= batch
        /\ \A c \in Reached, i \in 1..Len(queue') : c <= queue'[i]
    <3>1. item' <= batch /\ \A c \in Reached : c <= item' BY <1>2, <2>2, <2>3
    <3>2. \A i \in 1..Len(queue') : 1 <= i + 1 BY <1>3, <2>2
    <3>3. \A i \in 1..Len(queue') : queue[1] <= queue[i + 1] /\ queue[i + 1] <= batch
      BY <1>2, <2>2, <2>3, <3>2
    <3>4. \A c \in Reached, i \in 1..Len(queue') : c <= queue[i + 1] BY <1>2, <2>2
    <3>. QED BY <2>2, <3>1, <3>3, <3>4
  <2>5. \A i, j \in 1..Len(queue') : i <= j => queue'[i] <= queue'[j]
    BY <1>2, <1>3, <2>2, SMTT(20)
  <2>6. Reached' = Reached BY <2>1 DEF Reached
  <2>. QED BY <1>1, <1>2, <2>1, <2>4, <2>5, <2>6 DEF InOrder
<1>8. CASE PushReport
  <2>1. /\ gateway' \in {gateway, item} /\ late' \subseteq late \cup {item}
        /\ thread = "report" /\ thread' \in {"report", "recv"}
        /\ UNCHANGED <<queue, item, batch>>
    BY <1>8 DEF PushReport, Push, NextReporter, mainVars
  <2>2. gateway' >= gateway BY <1>1, <1>2, <2>1
  <2>3. \A c \in Reached' : c \in Reached \/ c = item BY <2>1 DEF Reached
  <2>4. \A c \in Reached' : c <= item /\ c <= batch
    <3>1. item <= batch /\ item <= item /\ \A c \in Reached : c <= item /\ c <= batch
      BY <1>1, <1>2, <2>1
    <3>. QED BY <2>3, <3>1
  <2>5. \A c \in Reached', i \in 1..Len(queue) : c <= queue[i]
    BY <1>1, <1>2, <2>1, <2>3
  <2>. QED BY <1>2, <2>1, <2>2, <2>4, <2>5 DEF InOrder
<1>9. CASE ResetMetrics
  <2>1. /\ gateway' \in {gateway, Empty} /\ thread = "reset"
        /\ thread' \in {"reset", "ended"} /\ UNCHANGED <<queue, item, batch>>
    BY <1>9 DEF ResetMetrics, NextReporter, Push, mainVars
  <2>2. queue = <<>> BY <1>4, <2>1
  <2>3. gateway' >= gateway BY <1>1, <2>1
  <2>4. \A i \in 1..Len(queue') : FALSE BY <2>1, <2>2
  <2>. QED BY <1>2, <2>1, <2>3, <2>4 DEF InOrder
<1>10. CASE Panic
  <2>1. /\ UNCHANGED <<queue, item, gateway, batch, thread, at>>
        /\ late' \subseteq late \cup InFlight
    BY <1>10 DEF Panic, mainVars
  <2>2. CASE thread \in {"reset", "ended"}
    <3>1. \A i \in 1..Len(queue') : FALSE BY <1>4, <2>1, <2>2
    <3>. QED BY <1>1, <2>1, <2>2, <3>1 DEF InOrder
  <2>3. CASE thread = "report"
    <3>1. InFlight \subseteq {item} BY <2>3 DEF InFlight
    <3>2. \A c \in Reached' : c \in Reached \/ c = item BY <2>1, <3>1 DEF Reached
    <3>3. \A c \in Reached' : c <= item /\ c <= batch
      <4>1. item <= batch /\ item <= item /\ \A c \in Reached : c <= item /\ c <= batch
        BY <1>1, <1>2, <2>3
      <4>. QED BY <3>2, <4>1
    <3>4. \A c \in Reached', i \in 1..Len(queue) : c <= queue[i]
      BY <1>2, <2>3, <3>2
    <3>. QED BY <1>1, <1>2, <2>1, <2>3, <3>3, <3>4 DEF InOrder
  <2>4. CASE thread = "recv"
    <3>1. at = 1 /\ at \in 1..Len(Reporters)
      BY <2>4 DEF ReportingInv, TypeOK, ThreadInv
    <3>2. InFlight = {} BY <3>1, ReporterAt DEF InFlight
    <3>3. Reached' = Reached BY <2>1, <1>10, <3>2 DEF Panic, Reached
    <3>. QED BY <1>1, <1>2, <2>1, <2>4, <3>3 DEF InOrder
  <2>. QED BY <1>4, <2>2, <2>3, <2>4
<1>11. CASE ApplyLate
  <2>1. /\ gateway' \in late /\ late' \subseteq late
        /\ UNCHANGED <<queue, item, batch, thread>>
    BY <1>11 DEF ApplyLate, mainVars
  <2>2. Reached' \subseteq Reached BY <2>1 DEF Reached
  <2>. QED BY <1>1, <1>2, <2>1, <2>2 DEF InOrder
<1>12. CASE \/ BatchErr \/ Shutdown \/ JoinThread \/ PrintReport \/ ChannelClosed
            \/ UNCHANGED vars
  <2>1. UNCHANGED <<queue, item, gateway, late, batch>>
    BY <1>12 DEF BatchErr, Shutdown, JoinThread, PrintReport, ChannelClosed, vars,
                 mainVars, threadVars
  <2>2. /\ thread' = "report" => thread = "report"
        /\ thread' \in {"recv", "report"} => thread \in {"recv", "report"}
    BY <1>12 DEF BatchErr, Shutdown, JoinThread, PrintReport, ChannelClosed, vars,
                 NextReporter, threadVars
  <2>3. Reached' = Reached BY <2>1 DEF Reached
  <2>. QED BY <1>1, <1>2, <2>1, <2>2, <2>3 DEF InOrder
<1>. QED BY <1>5, <1>6, <1>7, <1>8, <1>9, <1>10, <1>11, <1>12
         DEF Next, MainStep, BatchEnds, ThreadStep, Terminated

(* Pushes that succeed bring the gateway up to date. *)
LEMMA UpToDateStep ==
  ASSUME ReportingInv, UpToDate, [Next]_vars
  PROVE  UpToDate'
<1>. SUFFICES ASSUME HasGateway PROVE UpToDate' BY DEF UpToDate
<1>1. /\ printed \in Seq(1..MaxBatches) /\ item \in 0..MaxBatches /\ at \in {1, 2}
      /\ Len(Reporters) = 2 /\ astray \in BOOLEAN
  <2>1. Reporters = <<"console", "gateway">> BY DEF Reporters
  <2>2. Len(Reporters) = 2 BY <2>1
  <2>. QED BY <2>2 DEF ReportingInv, TypeOK
<1> DEFINE shown == IF PushedCount = 0 THEN Nothing ELSE printed[PushedCount]
<1>2. /\ thread = "report" /\ at = 2 => printed # <<>> /\ printed[Len(printed)] = item
      /\ thread = "reset" => ~ Continuous
      /\ ~ astray => gateway = IF thread = "ended" /\ ~ Continuous THEN Empty ELSE shown
  BY DEF UpToDate
<1>3. Len(printed) \in Nat BY <1>1
<1>4. CASE \/ StartBatch \/ BatchOk \/ BatchErr \/ Shutdown \/ JoinThread \/ Panic
           \/ UNCHANGED vars
  <2>1. UNCHANGED <<printed, item, at, thread, gateway, astray>>
    BY <1>4 DEF StartBatch, BatchOk, BatchErr, Shutdown, JoinThread, Panic, vars, threadVars
  <2>2. PushedCount' = PushedCount BY <2>1 DEF PushedCount
  <2>. QED BY <1>2, <2>1, <2>2 DEF UpToDate
<1>5. CASE Receive
  <2>1. /\ UNCHANGED <<printed, gateway, late, astray>>
        /\ thread = "recv" /\ thread' = "report" /\ at' = 1
    BY <1>5 DEF Receive, mainVars
  <2>2. PushedCount' = PushedCount BY <2>1 DEF PushedCount
  <2>. QED BY <1>2, <2>1, <2>2 DEF UpToDate
<1>6. CASE PrintReport
  <2>1. at = 1 BY <1>1, <1>6, ReporterAt DEF PrintReport
  <2>2. /\ thread = "report" /\ thread' = "report" /\ at' = 2 /\ UNCHANGED <<item, gateway, late, astray>>
        /\ printed' = Append(printed, item)
    BY <1>1, <1>6, <2>1 DEF PrintReport, NextReporter
  <2>3. /\ Len(printed') = Len(printed) + 1 /\ printed' # <<>>
        /\ printed'[Len(printed')] = item
        /\ \A k \in 1..Len(printed) : printed'[k] = printed[k]
    BY <1>1, <2>2
  <2>4. PushedCount = Len(printed) /\ PushedCount' = Len(printed)
    BY <1>3, <2>1, <2>2, <2>3 DEF PushedCount
  <2>5. (IF PushedCount' = 0 THEN Nothing ELSE printed'[PushedCount']) = shown
    BY <1>3, <2>3, <2>4
  <2>. QED BY <1>2, <2>2, <2>3, <2>5 DEF UpToDate
<1>7. CASE PushReport
  <2>1. thread = "report" /\ at = 2 BY <1>1, <1>7, ReporterAt DEF PushReport
  <2>2. /\ thread' = "recv" /\ at' = 1 /\ UNCHANGED <<item, printed>>
        /\ ~ astray' => gateway' = item
    BY <1>1, <1>7, <2>1 DEF PushReport, Push, NextReporter
  <2>3. PushedCount' = Len(printed) /\ Len(printed) # 0 /\ printed[Len(printed)] = item
    BY <1>1, <1>2, <2>1, <2>2, EmptySeq DEF PushedCount
  <2>. QED BY <2>2, <2>3 DEF UpToDate
<1>8. CASE ChannelClosed
  <2>1. /\ thread = "recv" /\ thread' = IF Continuous THEN "ended" ELSE "reset"
        /\ UNCHANGED <<printed, gateway, late, astray>>
    BY <1>8 DEF ChannelClosed
  <2>2. PushedCount' = PushedCount BY <2>1 DEF PushedCount
  <2>. QED BY <1>2, <2>1, <2>2 DEF UpToDate
<1>9. CASE ResetMetrics
  <2>1. thread = "reset" /\ ~ Continuous /\ printed' = printed
    BY <1>2, <1>9 DEF ResetMetrics
  <2>2. CASE at = 1
    <3>1. thread' = "reset" /\ UNCHANGED <<gateway, late, astray>>
      BY <1>1, <1>9, <2>2, ReporterAt DEF ResetMetrics, NextReporter
    <3>2. PushedCount' = PushedCount BY <2>1, <3>1 DEF PushedCount
    <3>. QED BY <1>2, <2>1, <3>1, <3>2 DEF UpToDate
  <2>3. CASE at = 2
    <3>1. thread' = "ended" /\ (~ astray' => gateway' = Empty)
      BY <1>1, <1>9, <2>3, ReporterAt DEF ResetMetrics, NextReporter, Push
    <3>. QED BY <2>1, <3>1 DEF UpToDate
  <2>. QED BY <1>1, <2>2, <2>3
<1>10. CASE ApplyLate
  <2>1. UNCHANGED <<printed, item, at, thread>> /\ astray' = TRUE
    BY <1>10 DEF ApplyLate
  <2>. QED BY <1>2, <2>1 DEF UpToDate
<1>. QED BY <1>4, <1>5, <1>6, <1>7, <1>8, <1>9, <1>10
         DEF Next, MainStep, BatchEnds, ThreadStep, Terminated

(* What the gateway shows is in step with the thread. *)
THEOREM GatewayInvariant == Spec => []GatewayInv
<1>1. GatewayInv /\ [Next]_vars => GatewayInv'
  <2>. SUFFICES ASSUME GatewayInv, [Next]_vars PROVE GatewayInv' OBVIOUS
  <2>1. ReportingInv' BY ReportingNext DEF GatewayInv
  <2>. QED BY <2>1, InOrderStep, UpToDateStep DEF GatewayInv
<1>. QED BY GatewayInit, <1>1, PTL DEF Spec

(* From a push that succeeds to the next that fails or is applied late, the
   gateway shows the batch reported last, and at the end the empty metrics
   exactly if the run is not continuous. *)
THEOREM GatewayIsFollowing == Spec => []GatewayFollows
<1>1. GatewayInv => GatewayFollows
  <2>. SUFFICES ASSUME GatewayInv, HasGateway, ~ astray
                PROVE  \/ gateway = Pushed /\ (Continuous \/ thread # "ended")
                       \/ gateway = Empty /\ ~ Continuous /\ thread = "ended"
    BY DEF GatewayFollows
  <2>. QED BY PushedIsPrinted DEF GatewayInv, UpToDate
<1>. QED BY <1>1, GatewayInvariant, PTL

(* Only a push that its client has given up, applied late, takes the gateway
   back to an earlier batch. *)
THEOREM GatewayIsAdvancing == Spec => GatewayAdvances
<1>1. GatewayInv /\ [Next]_vars => [gateway' >= gateway \/ gateway' \in late]_vars
  BY InOrderStep DEF GatewayInv
<1>. QED BY <1>1, GatewayInvariant, PTL DEF Spec, GatewayAdvances
=============================================================================
