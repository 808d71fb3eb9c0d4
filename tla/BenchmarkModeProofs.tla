------------------------ MODULE BenchmarkModeProofs ------------------------
(***************************************************************************)
(* Proofs about module BenchmarkMode, for every set of command lines and   *)
(* of builds, every status code, and any number of requests and frames.    *)
(***************************************************************************)
EXTENDS BenchmarkMode, FiniteSetTheorems, SequenceTheorems, TLAPS

-----------------------------------------------------------------------------
\* The invariant.

Config == [http3 : BOOLEAN, targets : Seq(Target),
           header : [name : BOOLEAN, values : Seq(BOOLEAN)],
           body : Nat, reuse : BOOLEAN, stop : SUBSET Codes]

Stages == {"start", "configured", "refused", "unbuilt", "connecting",
           "handshake", "ready"} \cup InFlight \cup Gone

\* Where no request has been begun.
Before == {"start", "configured", "refused", "unbuilt", "connecting",
           "handshake", "failed"}

(* The hosts of the targets, and the one there is before a target is picked. *)
Hosts == STRING \cup {"none"}

Connection == [host : Hosts, uses : Nat,
               state : {"busy", "returning", "idle", "discarded", "closed"}]

Wire == [head : {0} \cup Statuses, received : Nat, ended : {"open", "whole", "cut"},
         last : {"none", "fine", "error"}]

Local == [success : BOOLEAN, fatal : BOOLEAN, total : Nat, body_error : BOOLEAN]

(* The options do not change, and the configuration is what they ask for. *)
Configured ==
  /\ options \in Options /\ features \in Builds /\ level \in {"info", "warn"}
  /\ config = ConfigOf(options)

ClientTypeOK ==
  /\ stage \in Stages
  /\ wire \in Wire
  /\ local \in Local
  /\ sent \in Nat /\ sent <= MaxSent

(* What the code has read of the answer agrees with the answer itself. *)
AnswerRead ==
  /\ stage \in Before \cup {"panicked"} => stats = NoStats
  /\ stage \in {"connect", "head", "open", "send", "finish", "response"} =>
       wire = NoAnswer
  /\ stage \in {"body", "data", "again", "result"} =>
       /\ wire.head \in Statuses
       /\ local.total = wire.received
       /\ local.success <=> IsSuccess(wire.head)
       /\ local.fatal <=> (~ IsSuccess(wire.head) /\ wire.head \in config.stop)
  /\ stage \in {"body", "data"} => wire.ended = "open" /\ wire.received <= MaxFrames
  /\ stage \in {"again", "result"} =>
       wire.ended \in {"whole", "cut"} /\ wire.last \in {"fine", "error"}
  /\ stage \in {"body", "data", "again"} => ~ local.body_error
  /\ stage = "result" => local.body_error <=> wire.last = "error"

(* The connections of a client, and the one a request is at. *)
ConnsTypeOK ==
  /\ url.host \in Hosts
  /\ conns \in Seq(Connection)
  /\ stage \in {"head", "body"} => conn \in DOMAIN conns
  /\ config.http3 =>
       /\ stage = "connecting" => config.targets # <<>>
       /\ stage \in {"start", "configured", "unbuilt", "connecting"} => conns = <<>>
       /\ stage \in {"handshake", "ready"} \cup InFlight => conns # <<>>
       /\ stage \notin {"connect", "head", "body"}

(* An HTTP client opens at most one connection for a request, and none that
   it does not need. *)
Connected ==
  ~ config.http3 =>
    /\ Len(conns) <= sent
    /\ stage = "connect" => Len(conns) < sent
    /\ stage = "head" /\ conns[conn].uses > 1 => Len(conns) < sent
    /\ ~ config.reuse => \A i \in DOMAIN conns : conns[i].state # "idle"

ModeInv ==
  /\ Configured /\ ClientTypeOK /\ AnswerRead
  /\ ConnsTypeOK /\ Connected /\ ConnectionsAsAsked /\ OnlyThesePanic

-----------------------------------------------------------------------------
\* The configuration.

(* More than one element leaves some behind the head. *)
LEMMA TailAtLeastOne ==
  ASSUME NEW S, NEW q \in Seq(S), q # <<>>, Len(q) # 1
  PROVE  Tail(q) # <<>>
<1>1. q # <<>> /\ Len(q) \in Nat BY EmptySeq
<1>2. Len(Tail(q)) = Len(q) - 1 BY <1>1, HeadTailProperties
<1>3. Len(Tail(q)) # 0 BY <1>1, <1>2
<1>4. Len(<<>>) = 0 OBVIOUS
<1>. QED BY <1>3, <1>4, Zenon

(* What the options are turned into. *)
LEMMA ConfigType == ASSUME NEW o \in CommandLines PROVE ConfigOf(o) \in Config
<1>1. o.header # <<>> => HeaderOf(o.header) \in [name : BOOLEAN, values : Seq(BOOLEAN)]
  <2> SUFFICES ASSUME o.header # <<>>
               PROVE  HeaderOf(o.header) \in [name : BOOLEAN, values : Seq(BOOLEAN)]
    OBVIOUS
  <2>1. o.header \in Seq(BOOLEAN) BY DEF CommandLines
  <2>2. Len(o.header) \in Nat /\ Len(o.header) > 0 BY <2>1
  <2>3. o.header[1] \in BOOLEAN BY <2>1, <2>2, ElementOfSeq
  <2>4. Tail(o.header) \in Seq(BOOLEAN) BY <2>1, HeadTailProperties
  <2>. QED BY <2>3, <2>4 DEF HeaderOf
<1>2. NoHeader \in [name : BOOLEAN, values : Seq(BOOLEAN)] BY DEF NoHeader
<1>3. GenerateBody(o.body) \in Nat BY DEF GenerateBody, CommandLines
<1>4. /\ o.http3 \in BOOLEAN /\ o.targets \in Seq(Target) /\ o.conn_reuse \in BOOLEAN
      /\ o.error_stop \in SUBSET Codes
  BY DEF CommandLines
<1>. QED BY <1>1, <1>2, <1>3, <1>4 DEF ConfigOf, Config

(* Without the options of PanicLater there is always something to pick, and
   over HTTP what is picked can be built. *)
LEMMA AlwaysBuildable ==
  ASSUME options \in CommandLines, config = ConfigOf(options), ~ PanicLater
  PROVE  /\ ~ NothingToPick
         /\ ~ config.http3 => \A pick \in Picks : Buildable(pick)
<1> DEFINE o == options
<1>0. /\ config.targets = o.targets /\ o.targets # <<>> /\ config.http3 = o.http3
      /\ Len(o.header) # 1
      /\ ~ o.http3 => \A i \in DOMAIN o.targets : o.targets[i].kind # "illegal"
      /\ ~ o.http3 => \A i \in DOMAIN o.header : o.header[i]
  BY DEF ConfigOf, PanicLater
<1>1. o.header \in Seq(BOOLEAN) BY DEF CommandLines
<1>2. /\ config.header.values # <<>>
      /\ ~ o.http3 => /\ config.header.name
                      /\ \A i \in DOMAIN config.header.values : config.header.values[i]
  <2>1. CASE o.header = <<>>
    <3>1. config.header = NoHeader BY <2>1 DEF ConfigOf
    <3>2. config.header.values = <<TRUE>>
      <4>1. [name |-> TRUE, values |-> <<TRUE>>].values = <<TRUE>> OBVIOUS
      <4>. QED BY <3>1, <4>1, Zenon DEF NoHeader
    <3>5. config.header.name BY <3>1 DEF NoHeader
    <3>3. DOMAIN <<TRUE>> = {1} /\ <<TRUE>> # <<>> OBVIOUS
    <3>4. <<TRUE>>[1] OBVIOUS
    <3>. QED BY <3>2, <3>3, <3>4, <3>5, Zenon
  <2>2. CASE o.header # <<>>
    <3>1. config.header = HeaderOf(o.header) BY <2>2 DEF ConfigOf
    <3> HIDE DEF o
    <3>2. /\ config.header.name = o.header[1]
          /\ config.header.values = Tail(o.header)
      BY <3>1 DEF HeaderOf
    <3>3. Len(o.header) \in Nat /\ Len(o.header) > 1
      <4> DEFINE n == Len(o.header)
      <4>1. n \in Nat /\ n # 0 BY <1>1, <2>2, EmptySeq
      <4>2. n # 1 BY <1>0 DEF o
      <4> HIDE DEF n
      <4>3. n > 1 BY <4>1, <4>2
      <4>. QED BY <4>1, <4>3 DEF n
    <3>4. Tail(o.header) # <<>> BY <1>0, <1>1, <2>2, TailAtLeastOne
    <3>5. DOMAIN Tail(o.header) = 1..(Len(o.header) - 1) BY <1>1, <3>3
    <3>6. \A i \in 1..(Len(o.header) - 1) : Tail(o.header)[i] = o.header[i + 1]
      BY <1>1, <3>3, <3>5, HeadTailProperties, EmptySeq
    <3>7. DOMAIN o.header = 1..Len(o.header) BY <1>1
    <3>8. ASSUME ~ o.http3 PROVE o.header[1]
      <4>1. 1 \in DOMAIN o.header BY <3>3, <3>7
      <4>. QED BY <1>0, <3>8, <4>1, Zenon
    <3>9. ASSUME ~ o.http3, NEW i \in DOMAIN Tail(o.header) PROVE Tail(o.header)[i]
      <4>1. i \in 1..(Len(o.header) - 1) BY <3>5
      <4>2. i + 1 \in DOMAIN o.header BY <3>3, <3>7, <4>1
      <4>3. o.header[i + 1] BY <1>0, <3>9, <4>2, Zenon
      <4>. QED BY <3>6, <4>1, <4>3
    <3>. QED BY <3>2, <3>4, <3>8, <3>9
  <2>. QED BY <2>1, <2>2
<1>3. ASSUME ~ o.http3, NEW pick \in Picks PROVE Buildable(pick)
  <2>1. pick[1] \in DOMAIN config.targets /\ pick[2] \in DOMAIN config.header.values
    BY <1>3 DEF Picks
  <2>2. config.targets[pick[1]].kind # "illegal" BY <1>0, <1>3, <2>1
  <2>. QED BY <1>2, <1>3, <2>1, <2>2 DEF Buildable
<1>. QED BY <1>0, <1>2, <1>3 DEF NothingToPick

-----------------------------------------------------------------------------
\* Steps of the operators the actions are made of.

(* What the code reads off a status. *)
LEMMA StatusRead ==
  ASSUME NEW s
  PROVE  /\ ReadStatus(s) \in Local
         /\ ReadStatus(s).success <=> IsSuccess(s)
         /\ ReadStatus(s).fatal <=> (~ IsSuccess(s) /\ s \in config.stop)
         /\ ReadStatus(s).total = 0
         /\ ~ ReadStatus(s).body_error
<1> DEFINE b == IsSuccess(s)
           d == ~ IsSuccess(s) /\ s \in config.stop
<1>1. ReadStatus(s) = [NoLocal EXCEPT !.success = b, !.fatal = d] BY DEF ReadStatus
<1>2. b \in BOOLEAN /\ d \in BOOLEAN BY DEF IsSuccess
<1>3. b <=> IsSuccess(s) OBVIOUS
<1>4. d <=> (~ IsSuccess(s) /\ s \in config.stop) OBVIOUS
<1> HIDE DEF b, d
<1>5. ReadStatus(s) = [success |-> b, fatal |-> d, total |-> 0, body_error |-> FALSE]
  BY <1>1 DEF NoLocal
<1>6. ReadStatus(s) \in Local BY <1>2, <1>5 DEF Local
<1>7. ReadStatus(s).success = b /\ ReadStatus(s).fatal = d BY <1>5
<1>8. ReadStatus(s).total = 0 BY <1>5
<1>9. ~ ReadStatus(s).body_error BY <1>5
<1>10. ReadStatus(s).success <=> IsSuccess(s) BY <1>3, <1>7, Zenon
<1>11. ReadStatus(s).fatal <=> (~ IsSuccess(s) /\ s \in config.stop) BY <1>4, <1>7, Zenon
<1>. QED BY <1>6, <1>8, <1>9, <1>10, <1>11, Zenon

(* An element of a sequence is replaced. *)
LEMMA Replaced ==
  ASSUME NEW S, NEW q \in Seq(S), NEW i \in DOMAIN q, NEW c \in S, NEW p,
         p = [q EXCEPT ![i] = c]
  PROVE  /\ p \in Seq(S) /\ Len(p) = Len(q) /\ DOMAIN p = DOMAIN q
         /\ \A j \in DOMAIN q : p[j] = IF j = i THEN c ELSE q[j]
BY ExceptSeq

(* A connection changes its state and nothing else. *)
LEMMA StateSet ==
  ASSUME conns \in Seq(Connection), NEW i \in DOMAIN conns,
         NEW s \in {"busy", "returning", "idle", "discarded", "closed"}, SetState(i, s)
  PROVE  /\ conns' \in Seq(Connection)
         /\ Len(conns') = Len(conns) /\ DOMAIN conns' = DOMAIN conns
         /\ \A j \in DOMAIN conns :
              /\ conns'[j].uses = conns[j].uses
              /\ conns'[j].state = IF j = i THEN s ELSE conns[j].state
<1>1. conns[i] \in Connection BY ElementOfSeq
<1>2. conns' = [conns EXCEPT ![i] = [conns[i] EXCEPT !.state = s]] BY DEF SetState
<1>3. [conns[i] EXCEPT !.state = s] \in Connection BY <1>1 DEF Connection
<1>4. /\ [conns[i] EXCEPT !.state = s].uses = conns[i].uses
      /\ [conns[i] EXCEPT !.state = s].state = s
  BY <1>1 DEF Connection
<1>5. /\ conns' \in Seq(Connection) /\ Len(conns') = Len(conns)
      /\ DOMAIN conns' = DOMAIN conns
      /\ \A j \in DOMAIN conns :
           conns'[j] = IF j = i THEN [conns[i] EXCEPT !.state = s] ELSE conns[j]
  BY <1>2, <1>3, Replaced
<1>. QED BY <1>4, <1>5

(* A connection takes another request. *)
Taken(i) == conns' = [conns EXCEPT ![i].state = "busy", ![i].uses = @ + 1]

LEMMA ConnectionUsed ==
  ASSUME conns \in Seq(Connection), NEW i \in DOMAIN conns, Taken(i)
  PROVE  /\ conns' \in Seq(Connection)
         /\ Len(conns') = Len(conns) /\ DOMAIN conns' = DOMAIN conns
         /\ \A j \in DOMAIN conns :
              conns'[j].state = IF j = i THEN "busy" ELSE conns[j].state
<1>1. conns[i] \in Connection BY ElementOfSeq
<1>2. PICK c \in Connection : c.state = "busy" /\ conns' = [conns EXCEPT ![i] = c]
  <2> DEFINE d == [host |-> conns[i].host, uses |-> conns[i].uses, state |-> "busy"]
             c == [host |-> conns[i].host, uses |-> conns[i].uses + 1, state |-> "busy"]
  <2>1. conns[i] = [host |-> conns[i].host, uses |-> conns[i].uses, state |-> conns[i].state]
    BY <1>1 DEF Connection
  <2>2. [conns[i] EXCEPT !.state = "busy"] = d BY <2>1
  <2>3. [d EXCEPT !.uses = conns[i].uses + 1] = c OBVIOUS
  <2>4. conns' = [[conns EXCEPT ![i].state = "busy"] EXCEPT ![i].uses = conns[i].uses + 1]
    BY DEF Taken
  <2>5. [conns EXCEPT ![i].state = "busy"] = [conns EXCEPT ![i] = d] BY <2>2
  <2>7. c \in Connection /\ c.state = "busy" BY <1>1 DEF Connection
  <2> HIDE DEF c, d
  <2>6. conns' = [conns EXCEPT ![i] = [d EXCEPT !.uses = conns[i].uses + 1]] BY <2>4, <2>5
  <2>. QED BY <2>3, <2>6, <2>7
<1>4. /\ conns' \in Seq(Connection) /\ Len(conns') = Len(conns)
      /\ DOMAIN conns' = DOMAIN conns
      /\ \A j \in DOMAIN conns : conns'[j] = IF j = i THEN c ELSE conns[j]
  BY <1>2, Replaced
<1>. QED BY <1>2, <1>4

(* A connection is opened. *)
LEMMA ConnectionOpened ==
  ASSUME conns \in Seq(Connection), NEW h \in Hosts,
         conns' = Append(conns, [host |-> h, uses |-> 1, state |-> "busy"])
  PROVE  /\ conns' \in Seq(Connection)
         /\ Len(conns') = Len(conns) + 1 /\ Len(conns') \in DOMAIN conns'
         /\ \A j \in DOMAIN conns' :
              IF j = Len(conns') THEN conns'[j].uses = 1 /\ conns'[j].state = "busy"
              ELSE j \in DOMAIN conns /\ conns'[j] = conns[j]
<1> DEFINE c == [host |-> h, uses |-> 1, state |-> "busy"]
<1>1. c \in Connection /\ c.uses = 1 /\ c.state = "busy" BY DEF Connection
<1>2. conns' = Append(conns, c) OBVIOUS
<1> HIDE DEF c
<1>. QED BY <1>1, <1>2, AppendProperties


-----------------------------------------------------------------------------
\* What has been read of the answer.

(* The head of an answer has been read. *)
LEMMA HeadRead ==
  ASSUME NEW s \in Statuses, wire = NoAnswer,
         wire' = [wire EXCEPT !.head = s], local' = ReadStatus(s), config' = config
  PROVE  /\ wire' = [head |-> s, received |-> 0, ended |-> "open", last |-> "none"]
         /\ wire' \in Wire /\ local' \in Local
         /\ local'.total = 0 /\ ~ local'.body_error
         /\ local'.success <=> IsSuccess(s)
         /\ local'.fatal <=> (~ IsSuccess(s) /\ s \in config'.stop)
<1>1. wire' = [head |-> s, received |-> 0, ended |-> "open", last |-> "none"] BY DEF NoAnswer
<1>2. [head |-> s, received |-> 0, ended |-> "open", last |-> "none"] \in Wire BY DEF Wire
<1>3. wire' \in Wire BY <1>1, <1>2, Zenon
<1>. QED BY <1>1, <1>3, StatusRead

(* A frame of the body has been read. *)
LEMMA FrameRead ==
  ASSUME wire \in Wire, local \in Local, NEW d \in {0, 1},
         wire' = [wire EXCEPT !.received = @ + d],
         local' = [local EXCEPT !.total = @ + d]
  PROVE  /\ wire' \in Wire /\ wire'.head = wire.head /\ wire'.ended = wire.ended
         /\ wire'.received = wire.received + d
         /\ local' \in Local /\ local'.total = local.total + d
         /\ local'.success = local.success /\ local'.fatal = local.fatal
         /\ local'.body_error = local.body_error
<1>1. /\ wire' \in Wire /\ wire'.head = wire.head /\ wire'.ended = wire.ended
      /\ wire'.received = wire.received + d
  BY DEF Wire
<1>2. local' \in Local BY DEF Local
<1>3. local'.total = local.total + d BY DEF Local
<1>4. /\ local'.success = local.success /\ local'.fatal = local.fatal
      /\ local'.body_error = local.body_error
  BY DEF Local
<1>. QED BY <1>1, <1>2, <1>3, <1>4, Zenon

(* The body ends. *)
LEMMA BodyEnded ==
  ASSUME wire \in Wire, NEW how \in {"whole", "cut"}, BodyEnds(how)
  PROVE  /\ wire' \in Wire /\ wire'.ended = how
         /\ wire'.last \in {"fine", "error"} /\ (wire'.last = "error" <=> how = "cut")
         /\ wire'.head = wire.head /\ wire'.received = wire.received
<1>1. PICK l \in {"fine", "error"} :
        /\ wire' = [wire EXCEPT !.ended = how, !.last = l]
        /\ l = "error" <=> how = "cut"
  BY DEF BodyEnds
<1>. QED BY <1>1 DEF Wire

(* The library is asked again. *)
LEMMA AskedAgain ==
  ASSUME wire \in Wire, NEW l \in {"fine", "error"}, wire' = [wire EXCEPT !.last = l]
  PROVE  /\ wire' \in Wire /\ wire'.last = l /\ wire'.ended = wire.ended
         /\ wire'.head = wire.head /\ wire'.received = wire.received
BY DEF Wire

(* What came of the body is noted. *)
LEMMA ErrorNoted ==
  ASSUME local \in Local, NEW b \in BOOLEAN, local' = [local EXCEPT !.body_error = b]
  PROVE  /\ local' \in Local /\ local'.total = local.total
         /\ local'.success = local.success /\ local'.fatal = local.fatal
         /\ local'.body_error = b
<1>1. local' \in Local BY DEF Local
<1>2. local'.total = local.total BY DEF Local
<1>3. local'.success = local.success /\ local'.fatal = local.fatal BY DEF Local
<1>4. local'.body_error = b BY DEF Local
<1>. QED BY <1>1, <1>2, <1>3, <1>4, Zenon

(* The answer is read as it comes, by either adapter. *)
LEMMA AnswerStep ==
  ASSUME ClientTypeOK, AnswerRead, Next
  PROVE  ClientTypeOK' /\ AnswerRead'
<1> USE DEF ClientTypeOK, AnswerRead, Stages, InFlight, Before, Gone
<1>1. CASE HttpBuildRequest \/ H3BuildRequest
  <2>1. /\ stage = "ready" /\ sent < MaxSent /\ sent' = sent + 1 /\ config' = config
        /\ \/ Panic
           \/ stage' \in {"connect", "open"} /\ wire' = NoAnswer /\ local' = NoLocal
           \/ stats' = ErrorStats /\ UNCHANGED <<stage, wire, local>>
    BY <1>1, Zenon DEF HttpBuildRequest, H3BuildRequest, Begin, Start, Panic
  <2>2. sent' \in Nat /\ sent' <= MaxSent BY <2>1, AdapterAssumption
  <2>3. CASE Panic BY <2>1, <2>2, <2>3 DEF Panic
  <2>4. CASE stage' \in {"connect", "open"} /\ wire' = NoAnswer /\ local' = NoLocal
    BY <2>1, <2>2, <2>4 DEF NoAnswer, NoLocal, Wire, Local
  <2>5. CASE stats' = ErrorStats /\ UNCHANGED <<stage, wire, local>> BY <2>1, <2>2, <2>5
  <2>. QED BY <2>1, <2>3, <2>4, <2>5
<1>2. CASE HttpHead \/ RecvResponse
  <2>1. /\ stage \in {"head", "response"} /\ stage' \in {"body", "data"}
        /\ config' = config /\ sent' = sent
    BY <1>2 DEF HttpHead, RecvResponse, Go
  <2>2. PICK s \in Statuses : wire' = [wire EXCEPT !.head = s] /\ local' = ReadStatus(s)
    BY <1>2, Zenon DEF HttpHead, RecvResponse
  <2>3. wire = NoAnswer BY <2>1
  <2>4. /\ wire' = [head |-> s, received |-> 0, ended |-> "open", last |-> "none"]
        /\ wire' \in Wire /\ local' \in Local
        /\ local'.total = 0 /\ ~ local'.body_error
        /\ local'.success <=> IsSuccess(s)
        /\ local'.fatal <=> (~ IsSuccess(s) /\ s \in config'.stop)
    BY <2>1, <2>2, <2>3, HeadRead, Zenon
  <2>5. MaxFrames \in Nat BY AdapterAssumption
  <2> HIDE DEF ClientTypeOK, AnswerRead
  <2>6. ClientTypeOK' BY <2>1, <2>4 DEF ClientTypeOK
  <2>7. AnswerRead' BY <2>1, <2>4, <2>5 DEF AnswerRead
  <2>. QED BY <2>6, <2>7
<1>3. CASE HttpFrame \/ RecvData
  <2>1. /\ stage \in {"body", "data"} /\ stage' = stage /\ wire.received < MaxFrames
        /\ config' = config /\ sent' = sent
    BY <1>3 DEF HttpFrame, RecvData
  <2>2. PICK d \in {0, 1} : /\ wire' = [wire EXCEPT !.received = @ + d]
                            /\ local' = [local EXCEPT !.total = @ + d]
    BY <1>3 DEF HttpFrame, RecvData
  <2>3. /\ wire' \in Wire /\ wire'.head = wire.head /\ wire'.ended = wire.ended
        /\ wire'.received = wire.received + d
        /\ local' \in Local /\ local'.total = local.total + d
        /\ local'.success = local.success /\ local'.fatal = local.fatal
        /\ local'.body_error = local.body_error
    BY <2>2, FrameRead
  <2>4. wire'.received <= MaxFrames BY <2>1, <2>3, AdapterAssumption DEF Wire
  <2> HIDE DEF ClientTypeOK, AnswerRead
  <2>6. ClientTypeOK' BY <2>1, <2>3 DEF ClientTypeOK
  <2>7. AnswerRead' BY <2>1, <2>3, <2>4 DEF AnswerRead
  <2>. QED BY <2>6, <2>7
<1>4. CASE HttpBodyEnd
  <2>1. /\ stage = "body" /\ stage' = "result" /\ config' = config /\ sent' = sent
    BY <1>4 DEF HttpBodyEnd
  <2>2. PICK how \in {"whole", "cut"} : /\ BodyEnds(how)
                                        /\ local' = [local EXCEPT !.body_error = (how = "cut")]
    BY <1>4, Zenon DEF HttpBodyEnd
  <2>3. PICK b \in BOOLEAN : b <=> how = "cut" OBVIOUS
  <2>4. /\ wire' \in Wire /\ wire'.ended = how
        /\ wire'.last \in {"fine", "error"} /\ (wire'.last = "error" <=> how = "cut")
        /\ wire'.head = wire.head /\ wire'.received = wire.received
    BY <2>2, BodyEnded
  <2>5. /\ local' \in Local /\ local'.total = local.total
        /\ local'.success = local.success /\ local'.fatal = local.fatal
        /\ local'.body_error = b
    BY <2>2, <2>3, ErrorNoted
  <2> HIDE DEF ClientTypeOK, AnswerRead
  <2>6. ClientTypeOK' BY <2>1, <2>4, <2>5 DEF ClientTypeOK
  <2>7. AnswerRead' BY <2>1, <2>3, <2>4, <2>5 DEF AnswerRead
  <2>. QED BY <2>6, <2>7
<1>5. CASE RecvDataEnds
  <2>1. /\ stage = "data" /\ stage' = "again" /\ config' = config /\ sent' = sent
        /\ local' = local
    BY <1>5 DEF RecvDataEnds, Go
  <2>2. PICK how \in {"whole", "cut"} : BodyEnds(how) BY <1>5 DEF RecvDataEnds
  <2>3. /\ wire' \in Wire /\ wire'.ended = how /\ wire'.last \in {"fine", "error"}
        /\ wire'.head = wire.head /\ wire'.received = wire.received
    BY <2>2, BodyEnded
  <2>. QED BY <2>1, <2>3
<1>6. CASE CheckStream
  <2>1. /\ stage = "again" /\ stage' = "result" /\ config' = config /\ sent' = sent
    BY <1>6, Zenon DEF CheckStream, Go
  <2>2. PICK l \in {"fine", "error"} : /\ wire' = [wire EXCEPT !.last = l]
                                       /\ local' = [local EXCEPT !.body_error = (l = "error")]
    BY <1>6, Zenon DEF CheckStream
  <2>3. PICK b \in BOOLEAN : b <=> l = "error" OBVIOUS
  <2>4. /\ wire' \in Wire /\ wire'.last = l /\ wire'.ended = wire.ended
        /\ wire'.head = wire.head /\ wire'.received = wire.received
    BY <2>2, AskedAgain
  <2>5. /\ local' \in Local /\ local'.total = local.total
        /\ local'.success = local.success /\ local'.fatal = local.fatal
        /\ local'.body_error = b
    BY <2>2, <2>3, ErrorNoted
  <2> HIDE DEF ClientTypeOK, AnswerRead
  <2>6. ClientTypeOK' BY <2>1, <2>4, <2>5 DEF ClientTypeOK
  <2>7. AnswerRead' BY <2>1, <2>3, <2>4, <2>5 DEF AnswerRead
  <2>. QED BY <2>6, <2>7
<1>7. CASE HttpBuildClient BY <1>7 DEF HttpBuildClient, clientVars
<1>8. CASE TakeIdle BY <1>8 DEF TakeIdle
<1>9. CASE Connect BY <1>9 DEF Connect
<1>10. CASE ConnectFails BY <1>10 DEF ConnectFails, Return, ErrorStats
<1>11. CASE RetryConnect BY <1>11 DEF RetryConnect
<1>12. CASE HttpNoAnswer BY <1>12 DEF HttpNoAnswer, Return, ErrorStats
<1>13. CASE HttpReturn BY <1>13 DEF HttpReturn, Return, AnswerStats
<1>14. CASE PutBack BY <1>14 DEF PutBack
<1>15. CASE IdleCloses BY <1>15 DEF IdleCloses
<1>16. CASE DropRequest BY <1>16 DEF DropRequest
<1>17. CASE Resolve BY <1>17 DEF Resolve, Panic, Go, BuildFails, clientVars
<1>18. CASE QuicConnect BY <1>18 DEF QuicConnect, Go, BuildFails, clientVars
<1>19. CASE H3Handshake BY <1>19 DEF H3Handshake, Go, BuildFails, clientVars
<1>20. CASE ConnectionLost BY <1>20 DEF ConnectionLost
<1>21. CASE H3Error BY <1>21 DEF H3Error, Return, ErrorStats
<1>22. CASE OpenStream BY <1>22 DEF OpenStream, Go
<1>23. CASE SendData BY <1>23 DEF SendData, Go, clientVars
<1>24. CASE FinishStream BY <1>24 DEF FinishStream, Go, clientVars
<1>25. CASE H3Return BY <1>25 DEF H3Return, Return, AnswerStats
<1>26. CASE ReadOptions BY <1>26 DEF ReadOptions, clientVars
<1>27. CASE StartSession BY <1>27 DEF StartSession, Panic, clientVars
<1>. QED
  BY <1>1, <1>2, <1>3, <1>4, <1>5, <1>6, <1>7, <1>8, <1>9,
     <1>10, <1>11, <1>12, <1>13, <1>14, <1>15, <1>16, <1>17, <1>18,
     <1>19, <1>20, <1>21, <1>22, <1>23, <1>24, <1>25, <1>26, <1>27, Zenon
  DEF Next, HttpNext, HttpSendRequest, H3Next, H3SendRequest

-----------------------------------------------------------------------------
\* What becomes of the connections.

(* An interval without one of its elements. *)
LEMMA OneLess ==
  ASSUME NEW n \in Nat, NEW i \in 1..n
  PROVE  IsFiniteSet((1..n) \ {i}) /\ Cardinality((1..n) \ {i}) = n - 1
<1>1. IsFiniteSet(1..n) BY FS_Interval
<1>2. Cardinality(1..n) = n BY FS_Interval
<1>. QED BY <1>1, <1>2, FS_RemoveElement

(* Only as many connections are idle as there are, less those that are not. *)
LEMMA IdleFewer ==
  ASSUME conns \in Seq(Connection), NEW h, NEW i \in DOMAIN conns, conns[i].state # "idle"
  PROVE  Cardinality(Idle(h)) \in Nat /\ Cardinality(Idle(h)) < Len(conns)
<1>1. Len(conns) \in Nat /\ DOMAIN conns = 1..Len(conns) OBVIOUS
<1>2. /\ IsFiniteSet((1..Len(conns)) \ {i})
      /\ Cardinality((1..Len(conns)) \ {i}) = Len(conns) - 1
  BY <1>1, OneLess
<1>3. Idle(h) \subseteq (1..Len(conns)) \ {i} BY <1>1 DEF Idle
<1>4. IsFiniteSet(Idle(h)) /\ Cardinality(Idle(h)) <= Cardinality((1..Len(conns)) \ {i})
  BY <1>2, <1>3, FS_Subset
<1>5. Cardinality(Idle(h)) \in Nat BY <1>4, FS_CardinalityType
<1>. QED BY <1>1, <1>2, <1>4, <1>5

(* The target of a request is one of those of the configuration. *)
LEMMA Picked ==
  ASSUME config.targets \in Seq(Target), NEW pick \in Picks
  PROVE  config.targets[pick[1]] \in Target /\ config.targets[pick[1]].host \in Hosts
<1>1. pick[1] \in DOMAIN config.targets BY DEF Picks
<1>2. config.targets[pick[1]] \in Target BY <1>1, ElementOfSeq
<1>. QED BY <1>2 DEF Target, Hosts

(* hyper opens at most one connection for a request, and its pool keeps all
   of them or none. *)
LEMMA HttpConnsStep ==
  ASSUME config.targets \in Seq(Target), ClientTypeOK, ConnsTypeOK, Connected,
         ConnectionsAsAsked, ~ config.http3, HttpNext
  PROVE  ConnsTypeOK' /\ Connected' /\ ConnectionsAsAsked'
<1> USE DEF ConnsTypeOK, Connected, ConnectionsAsAsked
<1>0. Len(conns) \in Nat /\ DOMAIN conns = 1..Len(conns) /\ sent \in Nat
  BY DEF ClientTypeOK
<1>1. CASE HttpBuildRequest
  <2>1. /\ stage = "ready" /\ sent' = sent + 1 /\ config' = config
        /\ conns' = conns /\ conn' = conn
    BY <1>1, Zenon DEF HttpBuildRequest, Begin, Start, Panic
  <2>2. \/ stage' = "panicked" /\ url' = url
        \/ stage' = "connect" /\ \E pick \in Picks : url' = config.targets[pick[1]]
    BY <1>1, Zenon DEF HttpBuildRequest, Begin, Start, Panic
  <2>3. url'.host \in Hosts BY <2>2, Picked
  <2>. QED BY <1>0, <2>1, <2>2, <2>3
<1>2. CASE TakeIdle
  <2>1. PICK i \in Idle(url.host) : Taken(i) /\ conn' = i
    BY <1>2, Zenon DEF TakeIdle, Taken
  <2>2. /\ stage = "connect" /\ stage' = "head" /\ config' = config /\ url' = url
        /\ sent' = sent
    BY <1>2 DEF TakeIdle
  <2>3. i \in DOMAIN conns /\ conns[i].state = "idle" BY <2>1 DEF Idle
  <2>4. /\ conns' \in Seq(Connection)
        /\ Len(conns') = Len(conns) /\ DOMAIN conns' = DOMAIN conns
        /\ \A j \in DOMAIN conns : conns'[j].state = IF j = i THEN "busy" ELSE conns[j].state
    BY <2>1, <2>3, ConnectionUsed
  <2>5. config.reuse BY <2>3
  <2>. QED BY <1>0, <2>1, <2>2, <2>3, <2>4, <2>5
<1>3. CASE Connect
  <2>1. /\ stage = "connect" /\ stage' = "head" /\ config' = config /\ url' = url
        /\ sent' = sent /\ conn' = Len(conns')
        /\ conns' = Append(conns, [host |-> url.host, uses |-> 1, state |-> "busy"])
    BY <1>3 DEF Connect
  <2>2. /\ conns' \in Seq(Connection)
        /\ Len(conns') = Len(conns) + 1 /\ Len(conns') \in DOMAIN conns'
        /\ \A j \in DOMAIN conns' :
             IF j = Len(conns') THEN conns'[j].uses = 1 /\ conns'[j].state = "busy"
             ELSE j \in DOMAIN conns /\ conns'[j] = conns[j]
    BY <2>1, ConnectionOpened
  <2>. QED BY <1>0, <2>1, <2>2
<1>4. CASE RetryConnect
  <2>1. /\ stage = "head" /\ stage' = "connect" /\ config' = config /\ url' = url
        /\ sent' = sent /\ conn' = conn /\ conns[conn].uses > 1 /\ SetState(conn, "closed")
    BY <1>4 DEF RetryConnect
  <2>2. /\ conns' \in Seq(Connection)
        /\ Len(conns') = Len(conns) /\ DOMAIN conns' = DOMAIN conns
        /\ \A j \in DOMAIN conns :
             /\ conns'[j].uses = conns[j].uses
             /\ conns'[j].state = IF j = conn THEN "closed" ELSE conns[j].state
    BY <2>1, StateSet
  <2>. QED BY <1>0, <2>1, <2>2
<1>5. CASE HttpNoAnswer \/ HttpBodyEnd
  <2>1. /\ stage \in {"head", "body"} /\ stage' \in {"ready", "result"}
        /\ config' = config /\ url' = url /\ sent' = sent /\ conn' = conn
    BY <1>5 DEF HttpNoAnswer, HttpBodyEnd, Return, ErrorStats
  <2>2. PICK s \in {"returning", "closed"} : SetState(conn, s)
    BY <1>5, Zenon DEF HttpNoAnswer, HttpBodyEnd
  <2>3. /\ conns' \in Seq(Connection)
        /\ Len(conns') = Len(conns) /\ DOMAIN conns' = DOMAIN conns
        /\ \A j \in DOMAIN conns :
             /\ conns'[j].uses = conns[j].uses
             /\ conns'[j].state = IF j = conn THEN s ELSE conns[j].state
    BY <2>1, <2>2, StateSet
  <2>. QED BY <1>0, <2>1, <2>2, <2>3
<1>6. CASE PutBack
  <2>1. /\ config' = config /\ stage' = stage /\ url' = url /\ conn' = conn /\ sent' = sent
    BY <1>6 DEF PutBack
  <2>2. PICK i \in DOMAIN conns :
          /\ conns[i].state = "returning"
          /\ SetState(i, IF Cardinality(Idle(conns[i].host)) < PoolMaxIdle
                         THEN "idle" ELSE "discarded")
    BY <1>6 DEF PutBack
  <2>3. PICK s \in {"idle", "discarded"} :
          /\ SetState(i, s)
          /\ s = IF Cardinality(Idle(conns[i].host)) < PoolMaxIdle THEN "idle" ELSE "discarded"
    BY <2>2
  <2>4. /\ Cardinality(Idle(conns[i].host)) \in Nat
        /\ Cardinality(Idle(conns[i].host)) < Len(conns)
    BY <2>2, IdleFewer
  <2>5. config.reuse => s = "idle"
    BY <1>0, <2>3, <2>4, PoolAssumption, AdapterAssumption
       DEF PoolMaxIdle, MaxUsize, ClientTypeOK
  <2>6. ~ config.reuse => s = "discarded" BY <2>3, <2>4 DEF PoolMaxIdle
  <2>7. /\ conns' \in Seq(Connection)
        /\ Len(conns') = Len(conns) /\ DOMAIN conns' = DOMAIN conns
        /\ \A j \in DOMAIN conns :
             /\ conns'[j].uses = conns[j].uses
             /\ conns'[j].state = IF j = i THEN s ELSE conns[j].state
    BY <2>3, StateSet
  <2>. QED BY <1>0, <2>1, <2>5, <2>6, <2>7
<1>7. CASE IdleCloses
  <2>1. /\ config' = config /\ stage' = stage /\ url' = url /\ conn' = conn /\ sent' = sent
    BY <1>7 DEF IdleCloses
  <2>2. PICK i \in DOMAIN conns : SetState(i, "closed") BY <1>7 DEF IdleCloses
  <2>3. /\ conns' \in Seq(Connection)
        /\ Len(conns') = Len(conns) /\ DOMAIN conns' = DOMAIN conns
        /\ \A j \in DOMAIN conns :
             /\ conns'[j].uses = conns[j].uses
             /\ conns'[j].state = IF j = i THEN "closed" ELSE conns[j].state
    BY <2>2, StateSet
  <2>. QED BY <1>0, <2>1, <2>3
<1>8. CASE HttpBuildClient \/ ConnectFails \/ HttpHead \/ HttpFrame \/ HttpReturn \/ DropRequest
  <2>1. UNCHANGED <<config, url, conns, conn, sent>>
    BY <1>8 DEF HttpBuildClient, ConnectFails, HttpHead, HttpFrame, HttpReturn, DropRequest,
                Return, clientVars
  <2>2. stage' \in {"ready", "over", "body"} /\ (stage' = "body" => stage \in {"head", "body"})
    BY <1>8 DEF HttpBuildClient, ConnectFails, HttpHead, HttpFrame, HttpReturn, DropRequest, Return
  <2>. QED BY <1>0, <2>1, <2>2
<1>. QED
  BY <1>1, <1>2, <1>3, <1>4, <1>5, <1>6, <1>7, <1>8, Zenon DEF HttpNext, HttpSendRequest

(* An HTTP/3 client opens one connection before its first request. *)
LEMMA H3ConnsStep ==
  ASSUME config.targets \in Seq(Target), ConnsTypeOK, Connected, ConnectionsAsAsked,
         config.http3, H3Next
  PROVE  ConnsTypeOK' /\ Connected' /\ ConnectionsAsAsked'
<1> USE DEF ConnsTypeOK, Connected, ConnectionsAsAsked, InFlight
<1>0. Len(conns) \in Nat /\ DOMAIN conns = 1..Len(conns) OBVIOUS
<1>1. CASE Resolve
  BY <1>0, <1>1 DEF Resolve, Panic, Go, BuildFails, clientVars
<1>2. CASE QuicConnect
  <2>1. CASE BuildFails("connecting") BY <1>0, <2>1 DEF BuildFails, Go, clientVars
  <2>2. CASE ~ BuildFails("connecting")
    <3>1. /\ stage = "connecting" /\ stage' = "handshake" /\ config' = config /\ url' = url
          /\ conns' = <<[host |-> config.targets[1].host, uses |-> 0, state |-> "idle"]>>
      BY <1>2, <2>2, Zenon DEF QuicConnect, Go
    <3>2. config.targets[1] \in Target BY <3>1
    <3>3. [host |-> config.targets[1].host, uses |-> 0, state |-> "idle"] \in Connection
      BY <3>2 DEF Target, Connection, Hosts
    <3>4. conns' \in Seq(Connection) /\ Len(conns') = 1 /\ conns' # <<>> BY <3>1, <3>3
    <3>. QED BY <3>1, <3>4
  <2>. QED BY <2>1, <2>2
<1>3. CASE H3BuildRequest
  <2>1. /\ stage = "ready" /\ config' = config /\ conns' = conns /\ conn' = conn
    BY <1>3, Zenon DEF H3BuildRequest, Begin, Start, Panic
  <2>2. \/ stage' \in {"panicked", "ready"} /\ url' = url
        \/ stage' = "open" /\ \E pick \in Picks : url' = config.targets[pick[1]]
    BY <1>3, Zenon DEF H3BuildRequest, Begin, Start, Panic
  <2>3. url'.host \in Hosts BY <2>2, Picked
  <2>. QED BY <1>0, <2>1, <2>2, <2>3
<1>4. CASE OpenStream
  <2>1. /\ stage = "open" /\ stage' \in {"send", "finish"} /\ config' = config /\ url' = url
        /\ conns' = [conns EXCEPT ![1].uses = @ + 1]
    BY <1>4 DEF OpenStream, Go
  <2>2. 1 \in DOMAIN conns BY <1>0, <2>1, EmptySeq
  <2>3. conns[1] \in Connection BY <2>2, ElementOfSeq
  <2>4. [conns[1] EXCEPT !.uses = @ + 1] \in Connection BY <2>3 DEF Connection
  <2>5. conns' = [conns EXCEPT ![1] = [conns[1] EXCEPT !.uses = @ + 1]] BY <2>1
  <2>6. conns' \in Seq(Connection) /\ Len(conns') = Len(conns) BY <2>2, <2>4, <2>5, Replaced
  <2>7. conns' # <<>> BY <1>0, <2>2, <2>6, EmptySeq
  <2>. QED BY <2>1, <2>6, <2>7
<1>5. CASE ConnectionLost
  <2>1. /\ conns # <<>> /\ SetState(1, "closed")
        /\ config' = config /\ stage' = stage /\ url' = url /\ conn' = conn
    BY <1>5 DEF ConnectionLost
  <2>2. 1 \in DOMAIN conns BY <1>0, <2>1, EmptySeq
  <2>3. /\ conns' \in Seq(Connection)
        /\ Len(conns') = Len(conns) /\ DOMAIN conns' = DOMAIN conns
    BY <2>1, <2>2, StateSet
  <2>4. conns' # <<>> BY <1>0, <2>2, <2>3, EmptySeq
  <2>. QED BY <1>0, <2>1, <2>3, <2>4
<1>6. CASE \/ H3Handshake \/ H3Error \/ SendData \/ FinishStream \/ RecvResponse
           \/ RecvData \/ RecvDataEnds \/ CheckStream \/ H3Return \/ DropRequest
  <2>1. UNCHANGED <<config, url, conns, conn>>
    BY <1>6 DEF H3Handshake, H3Error, SendData, FinishStream, RecvResponse, RecvData,
                RecvDataEnds, CheckStream, H3Return, DropRequest, Return, BuildFails,
                Go, clientVars
  <2>2. /\ stage \in {"handshake"} \cup InFlight
        /\ stage' \in {"ready", "over", "failed", "finish", "response", "data", "again", "result"}
    BY <1>6 DEF H3Handshake, H3Error, SendData, FinishStream, RecvResponse, RecvData,
                RecvDataEnds, CheckStream, H3Return, DropRequest, Return, BuildFails, Go
  <2>. QED BY <1>0, <2>1, <2>2
<1>. QED
  BY <1>1, <1>2, <1>3, <1>4, <1>5, <1>6, Zenon DEF H3Next, H3SendRequest

-----------------------------------------------------------------------------
\* The invariant is inductive.

(* What the configuration is, whatever the options. *)
LEMMA ConfiguredType ==
  ASSUME Configured
  PROVE  options \in CommandLines /\ features \in SUBSET Features
         /\ config.targets \in Seq(Target)
<1>1. options \in CommandLines /\ features \in SUBSET Features
  BY OptionsAssumption DEF Configured
<1>2. config \in Config BY <1>1, ConfigType DEF Configured
<1>. QED BY <1>1, <1>2 DEF Config

(* Nothing changes the configuration. *)
LEMMA ConfiguredStep == ASSUME Configured, Next PROVE Configured' /\ config' = config
<1>1. UNCHANGED <<options, features, level>> BY DEF Next
<1>2. config' = config
  <2>1. CASE ReadOptions \/ StartSession BY <2>1 DEF ReadOptions, StartSession, Panic
  <2>2. CASE HttpNext
    BY <2>2 DEF HttpNext, HttpSendRequest, HttpBuildClient, HttpBuildRequest, TakeIdle,
                Connect, ConnectFails, RetryConnect, HttpNoAnswer, HttpHead, HttpFrame,
                HttpBodyEnd, HttpReturn, PutBack, IdleCloses, DropRequest, Panic, Return
  <2>3. CASE H3Next
    BY <2>3 DEF H3Next, H3SendRequest, Resolve, QuicConnect, H3Handshake, ConnectionLost,
                H3BuildRequest, H3Error, OpenStream, SendData, FinishStream, RecvResponse,
                RecvData, RecvDataEnds, CheckStream, H3Return, DropRequest, BuildFails,
                Panic, Return
  <2>. QED BY <2>1, <2>2, <2>3, Zenon DEF Next
<1>. QED BY <1>1, <1>2 DEF Configured

(* Any other options get through the two places that panic: the log and the
   making of a request. *)
LEMMA PanicStep == ASSUME Configured, OnlyThesePanic, Next PROVE OnlyThesePanic'
<1>0. UNCHANGED <<options, level>> BY DEF Next
<1> SUFFICES ASSUME ~ PanicLater, stage # "panicked" PROVE stage' # "panicked"
  BY <1>0 DEF OnlyThesePanic, PanicLater
<1>1. options \in CommandLines /\ config = ConfigOf(options)
  BY ConfiguredType DEF Configured
<1>2. ~ NothingToPick /\ (~ config.http3 => \A pick \in Picks : Buildable(pick))
  BY <1>1, AlwaysBuildable
<1>3. config.targets # <<>> BY <1>2 DEF NothingToPick
<1>4. ~ (options.concurrency = 0 /\ level = "info") BY DEF PanicLater
<1>5. CASE ReadOptions BY <1>5 DEF ReadOptions
<1>6. CASE StartSession
  <2>1. stage' \in {"over", "unbuilt"}
    BY <1>3, <1>4, <1>6, Zenon DEF StartSession, Unloggable, clientVars
  <2>. QED BY <2>1
<1>7. CASE ~ config.http3 /\ HttpBuildRequest
  <2>1. stage' = "connect" BY <1>2, <1>7, Zenon DEF HttpBuildRequest, Start
  <2>. QED BY <2>1
<1>8. CASE H3BuildRequest
  <2>1. stage' = "open" \/ stage' = stage BY <1>2, <1>8, Zenon DEF H3BuildRequest, Start
  <2>. QED BY <2>1
<1>9. CASE Resolve BY <1>3, <1>9 DEF Resolve, BuildFails, Go
<1>10. CASE \/ HttpBuildClient \/ TakeIdle \/ Connect \/ ConnectFails \/ RetryConnect
            \/ HttpNoAnswer \/ HttpHead \/ HttpFrame \/ HttpBodyEnd \/ HttpReturn
            \/ PutBack \/ IdleCloses \/ DropRequest
  BY <1>10 DEF HttpBuildClient, TakeIdle, Connect, ConnectFails, RetryConnect,
               HttpNoAnswer, HttpHead, HttpFrame, HttpBodyEnd, HttpReturn, PutBack,
               IdleCloses, DropRequest, Return
<1>11. CASE \/ QuicConnect \/ H3Handshake \/ ConnectionLost \/ H3Error \/ OpenStream
            \/ SendData \/ FinishStream \/ RecvResponse \/ RecvData \/ RecvDataEnds
            \/ CheckStream \/ H3Return
  BY <1>11 DEF QuicConnect, H3Handshake, ConnectionLost, H3Error, OpenStream, SendData,
               FinishStream, RecvResponse, RecvData, RecvDataEnds, CheckStream, H3Return,
               Return, BuildFails, Go
<1>. QED
  BY <1>5, <1>6, <1>7, <1>8, <1>9, <1>10, <1>11, Zenon
  DEF Next, HttpNext, HttpSendRequest, H3Next, H3SendRequest

LEMMA ModeInit == Init => ModeInv
<1> SUFFICES ASSUME Init PROVE ModeInv
  OBVIOUS
<1> USE DEF Init, ClientInit
<1>1. Configured BY DEF Configured
<1>2. ClientTypeOK
  BY AdapterAssumption DEF ClientTypeOK, Stages, NoAnswer, NoLocal, Wire, Local
<1>3. AnswerRead BY DEF AnswerRead, Before
<1>4. conns \in Seq(Connection) /\ Len(conns) = 0 /\ DOMAIN conns = {} OBVIOUS
<1>5. ConnsTypeOK
  <2>1. url = [kind |-> "none", host |-> "none"] /\ stage = "start" /\ conns = <<>>
    BY Zenon
  <2> HIDE DEF Init, ClientInit
  <2>2. url.host \in Hosts BY <2>1 DEF Hosts
  <2>. QED BY <1>4, <2>1, <2>2, Zenon DEF ConnsTypeOK, InFlight
<1>6. Connected BY <1>4 DEF Connected
<1>7. ConnectionsAsAsked BY <1>4 DEF ConnectionsAsAsked
<1>8. OnlyThesePanic BY DEF OnlyThesePanic
<1>. QED BY <1>1, <1>2, <1>3, <1>5, <1>6, <1>7, <1>8 DEF ModeInv

LEMMA ModeStep == ModeInv /\ [Next]_vars => ModeInv'
<1> SUFFICES ASSUME ModeInv, [Next]_vars PROVE ModeInv'
  OBVIOUS
<1> USE DEF ModeInv
<1>1. CASE Next
  <2>1. config.targets \in Seq(Target) BY ConfiguredType
  <2>2. Configured' /\ config' = config BY <1>1, ConfiguredStep
  <2>3. ClientTypeOK' /\ AnswerRead' BY <1>1, AnswerStep
  <2>4. OnlyThesePanic' BY <1>1, PanicStep
  <2>5. ConnsTypeOK' /\ Connected' /\ ConnectionsAsAsked'
    <3>1. CASE ~ config.http3 /\ HttpNext BY <2>1, <3>1, HttpConnsStep
    <3>2. CASE config.http3 /\ H3Next BY <2>1, <3>2, H3ConnsStep
    <3>3. CASE ReadOptions \/ StartSession
      <4>1. UNCHANGED <<url, conns, conn, sent>> /\ stage \in {"start", "configured"}
        BY <3>3 DEF ReadOptions, StartSession, Panic, clientVars
      <4>2. stage' \in {"configured", "refused", "panicked", "over", "unbuilt"}
        BY <3>3 DEF ReadOptions, StartSession, Panic
      <4>3. ConnsTypeOK' BY <2>2, <4>1, <4>2 DEF ConnsTypeOK, InFlight
      <4>4. Connected' BY <2>2, <4>1, <4>2 DEF Connected
      <4>5. ConnectionsAsAsked' BY <2>2, <4>1 DEF ConnectionsAsAsked
      <4>. QED BY <4>3, <4>4, <4>5
    <3>. QED BY <1>1, <3>1, <3>2, <3>3, Zenon DEF Next
  <2>. QED BY <2>2, <2>3, <2>4, <2>5
<1>2. CASE UNCHANGED vars
  <2> USE <1>2 DEF vars, clientVars
  <2>1. Configured' BY DEF Configured
  <2>2. ClientTypeOK' BY DEF ClientTypeOK
  <2>3. AnswerRead' BY DEF AnswerRead
  <2>4. ConnsTypeOK' BY DEF ConnsTypeOK
  <2>5. Connected' BY DEF Connected
  <2>6. ConnectionsAsAsked' BY DEF ConnectionsAsAsked
  <2>7. OnlyThesePanic' BY DEF OnlyThesePanic, PanicLater
  <2>. QED BY <2>1, <2>2, <2>3, <2>4, <2>5, <2>6, <2>7
<1>. QED BY <1>1, <1>2

(* In every state the client's stage, connections and what it has read of an
   answer fit together, and the configuration is that of the options. *)
THEOREM ModeInvariant == Spec => []ModeInv
BY ModeInit, ModeStep, PTL DEF Spec

(* A command line that is not refused panics later on only without targets,
   with a header without values, without clients to log and, over HTTP, with a
   part of a request that cannot be built, whatever targets and header values
   are picked at random. *)
THEOREM AcceptedRun == Spec => []OnlyThesePanic
<1>1. ModeInv => OnlyThesePanic BY DEF ModeInv
<1>. QED BY <1>1, ModeInvariant, PTL

(* Over HTTP, no connection carries a second request without --conn_reuse, and
   with it the pool throws none away. *)
THEOREM ConnectionsHold == Spec => []ConnectionsAsAsked
<1>1. ModeInv => ConnectionsAsAsked BY DEF ModeInv
<1>. QED BY <1>1, ModeInvariant, PTL

-----------------------------------------------------------------------------
\* The adapters keep the contract.

(* The statistics of an answer are those the contract asks for. *)
LEMMA StatsAgree ==
  ASSUME ClientTypeOK, AnswerRead, stage = "result"
  PROVE  AnswerStats = Contract!StatsOf(wire)
<1> DEFINE good == IsSuccess(wire.head) /\ wire.last = "fine"
           bad == ~ IsSuccess(wire.head) /\ wire.head \in config.stop
<1>1. Contract!StatsOf(wire)
        = [status |-> wire.head, bytes |-> wire.received, success |-> good, fatal |-> bad]
  BY Zenon DEF Contract!StatsOf, Contract!IsSuccess, IsSuccess
<1>2. good \in BOOLEAN /\ bad \in BOOLEAN BY DEF IsSuccess
<1>3. /\ local.success \in BOOLEAN /\ local.fatal \in BOOLEAN
      /\ local.body_error \in BOOLEAN
  BY DEF ClientTypeOK, Local
<1>4. local.total = wire.received BY DEF AnswerRead
<1>5. /\ local.success <=> IsSuccess(wire.head)
      /\ local.fatal <=> (~ IsSuccess(wire.head) /\ wire.head \in config.stop)
      /\ local.body_error <=> wire.last = "error"
      /\ wire.last \in {"fine", "error"}
  BY DEF AnswerRead
<1>6. (local.success /\ ~ local.body_error) <=> good
  <2>1. wire.last = "fine" <=> ~ (wire.last = "error") BY <1>5
  <2>. QED BY <1>5, <2>1, Zenon
<1>7. local.fatal <=> bad BY <1>5, Zenon
<1> HIDE DEF good, bad
<1>8. (local.success /\ ~ local.body_error) = good BY <1>2, <1>3, <1>6
<1>9. local.fatal = bad BY <1>2, <1>3, <1>7
<1>. QED BY <1>1, <1>4, <1>8, <1>9, Zenon DEF AnswerStats

(* Each step of a client is one of the contract, or none. *)
LEMMA ContractStep ==
  ASSUME ModeInv, [Next]_vars
  PROVE  [Contract!Next]_(Contract!vars)
<1> USE DEF InFlight, Gone
<1>1. ClientTypeOK /\ AnswerRead BY DEF ModeInv
<1>2. ASSUME Next PROVE config' = config BY <1>2, ConfiguredStep DEF ModeInv
<1>3. CASE HttpBuildRequest \/ H3BuildRequest
  <2>1. stage = "ready" /\ config' = config
    BY <1>3, Zenon DEF HttpBuildRequest, H3BuildRequest, Begin, Start, Panic
  <2>2. \/ stage' = "panicked" /\ stats' = NoStats /\ wire' = wire
        \/ stage' \in {"connect", "open"} /\ wire' = NoAnswer /\ stats' = NoStats
        \/ stage' = stage /\ stats' = ErrorStats /\ wire' = wire
    BY <1>3, Zenon DEF HttpBuildRequest, H3BuildRequest, Begin, Start, Panic
  <2>3. CASE stage' = "panicked" /\ stats' = NoStats /\ wire' = wire
    <3>1. Contract!Leave BY <2>1, <2>3 DEF Contract!Leave, Contract!NoStats, NoStats
    <3>. QED BY <3>1 DEF Contract!Next
  <2>4. CASE stage' \in {"connect", "open"} /\ wire' = NoAnswer /\ stats' = NoStats
    <3>1. Contract!Start
      BY <2>1, <2>4 DEF Contract!Start, Contract!NoStats, Contract!NoAnswer, NoStats, NoAnswer
    <3>. QED BY <3>1 DEF Contract!Next
  <2>5. CASE stage' = stage /\ stats' = ErrorStats /\ wire' = wire
    <3>1. Contract!ReturnFailure
      BY <2>1, <2>5 DEF Contract!ReturnFailure, Contract!Failure, ErrorStats
    <3>. QED BY <3>1 DEF Contract!Next
  <2>. QED BY <2>2, <2>3, <2>4, <2>5
<1>4. CASE ConnectFails \/ HttpNoAnswer \/ H3Error
  <2>1. /\ stage \in {"connect", "head", "open", "send", "finish", "response"}
        /\ Return(ErrorStats)
    BY <1>4 DEF ConnectFails, HttpNoAnswer, H3Error
  <2>2. /\ stage' = "ready" /\ stats' = ErrorStats /\ config' = config /\ wire' = wire
    BY <2>1 DEF Return, ErrorStats
  <2>3. wire.head = 0 BY <1>1, <2>1 DEF AnswerRead, NoAnswer
  <2>4. Contract!ReturnFailure
    BY <2>1, <2>2, <2>3 DEF Contract!ReturnFailure, Contract!Failure, ErrorStats
  <2>. QED BY <2>4 DEF Contract!Next
<1>5. CASE HttpHead \/ RecvResponse
  <2>1. /\ stage \in {"head", "response"} /\ stage' \in {"body", "data"}
        /\ config' = config /\ stats' = stats
    BY <1>5 DEF HttpHead, RecvResponse, Go
  <2>2. PICK s \in Statuses : wire' = [wire EXCEPT !.head = s]
    BY <1>5, Zenon DEF HttpHead, RecvResponse
  <2>3. wire.head = 0 BY <1>1, <2>1 DEF AnswerRead, NoAnswer
  <2>4. Contract!AnswerHead BY <2>1, <2>2, <2>3 DEF Contract!AnswerHead
  <2>. QED BY <2>4 DEF Contract!Next
<1>6. CASE HttpFrame \/ RecvData
  <2>1. /\ stage \in {"body", "data"} /\ stage' = stage /\ wire.received < MaxFrames
        /\ config' = config /\ stats' = stats
    BY <1>6 DEF HttpFrame, RecvData
  <2>2. PICK d \in {0, 1} : wire' = [wire EXCEPT !.received = @ + d]
    BY <1>6 DEF HttpFrame, RecvData
  <2>3. wire.head \in Statuses /\ wire.ended = "open" /\ wire \in Wire
    BY <1>1, <2>1 DEF AnswerRead, ClientTypeOK
  <2>4. wire.head # 0 BY <2>3, AdapterAssumption
  <2>5. CASE d = 0
    <3>1. wire' = wire BY <2>2, <2>3, <2>5 DEF Wire
    <3>. QED BY <2>1, <3>1 DEF Contract!vars
  <2>6. CASE d = 1
    <3>1. Contract!AnswerBody BY <2>1, <2>2, <2>3, <2>4, <2>6 DEF Contract!AnswerBody
    <3>. QED BY <3>1 DEF Contract!Next
  <2>. QED BY <2>5, <2>6
<1>7. CASE HttpBodyEnd \/ RecvDataEnds
  <2>1. /\ stage \in {"body", "data"} /\ stage' \in {"result", "again"}
        /\ config' = config /\ stats' = stats
    BY <1>7 DEF HttpBodyEnd, RecvDataEnds, Go
  <2>2. \/ wire' = [wire EXCEPT !.ended = "whole", !.last = "fine"]
        \/ wire' = [wire EXCEPT !.ended = "cut", !.last = "error"]
    BY <1>7 DEF HttpBodyEnd, RecvDataEnds, BodyEnds
  <2>3. wire.head \in Statuses /\ wire.ended = "open" BY <1>1, <2>1 DEF AnswerRead
  <2>4. wire.head # 0 BY <2>3, AdapterAssumption
  <2>5. Contract!AnswerBody BY <2>1, <2>2, <2>3, <2>4 DEF Contract!AnswerBody
  <2>. QED BY <2>5 DEF Contract!Next
<1>8. CASE HttpReturn \/ H3Return
  <2>1. stage = "result" /\ Return(AnswerStats) BY <1>8 DEF HttpReturn, H3Return
  <2>2. AnswerStats = Contract!StatsOf(wire) BY <1>1, <2>1, StatsAgree
  <2>3. wire.ended # "open" BY <1>1, <2>1 DEF AnswerRead
  <2>4. /\ stats' = Contract!StatsOf(wire) /\ config' = config /\ wire' = wire
        /\ stage' = IF stats'.fatal THEN "over" ELSE "ready"
    BY <2>1, <2>2 DEF Return
  <2>5. Contract!ReturnAnswer BY <2>1, <2>3, <2>4 DEF Contract!ReturnAnswer
  <2>. QED BY <2>5 DEF Contract!Next
<1>9. CASE DropRequest
  <2>1. Contract!Leave
    BY <1>9 DEF DropRequest, Contract!Leave, Contract!NoStats, NoStats
  <2>. QED BY <2>1 DEF Contract!Next
<1>10. CASE ReadOptions \/ StartSession \/ Resolve \/ QuicConnect \/ H3Handshake
  <2>1. /\ stage \in {"start", "configured", "unbuilt", "connecting", "handshake"}
        /\ config' = config /\ wire' = wire /\ (stats' = stats \/ stats' = NoStats)
        /\ stage' \in {"configured", "refused", "panicked", "over", "unbuilt", "failed",
                       "connecting", "handshake", "ready"}
    BY <1>10 DEF ReadOptions, StartSession, Resolve, QuicConnect, H3Handshake, Panic, Go,
                 BuildFails, clientVars
  <2>2. stats = NoStats BY <1>1, <2>1 DEF AnswerRead, Before
  <2>3. stats' = NoStats BY <2>1, <2>2
  <2>4. CASE stage' \in {"refused", "panicked", "over", "failed"}
    <3>1. Contract!Leave BY <2>1, <2>3, <2>4 DEF Contract!Leave, Contract!NoStats, NoStats
    <3>. QED BY <3>1 DEF Contract!Next
  <2>5. CASE stage' \in {"configured", "unbuilt", "connecting", "handshake", "ready"}
    BY <2>1, <2>2, <2>3, <2>5 DEF Contract!vars
  <2>. QED BY <2>1, <2>4, <2>5
<1>11. CASE \/ HttpBuildClient \/ TakeIdle \/ Connect \/ RetryConnect \/ PutBack
            \/ IdleCloses \/ ConnectionLost \/ OpenStream \/ SendData \/ FinishStream
  <2>1. UNCHANGED <<config, wire, stats>>
    BY <1>11 DEF HttpBuildClient, TakeIdle, Connect, RetryConnect, PutBack, IdleCloses,
                 ConnectionLost, OpenStream, SendData, FinishStream, clientVars
  <2>2. \/ stage' = stage
        \/ stage = "unbuilt" /\ stage' = "ready"
        \/ stage \in InFlight /\ stage' \in InFlight
    BY <1>11 DEF HttpBuildClient, TakeIdle, Connect, RetryConnect, PutBack, IdleCloses,
                 ConnectionLost, OpenStream, SendData, FinishStream, Go
  <2>. QED BY <2>1, <2>2 DEF Contract!vars
<1>12. CASE config.http3 /\ CheckStream
  <2>1. /\ stage = "again" /\ stage' = "result" /\ config' = config /\ stats' = stats
        /\ \E l \in {"fine", "error"} : wire' = [wire EXCEPT !.last = l]
    BY <1>12, Zenon DEF CheckStream, Go
  <2>2. wire.ended # "open" BY <1>1, <2>1 DEF AnswerRead
  <2>3. Contract!AskAgain BY <1>12, <2>1, <2>2 DEF Contract!AskAgain
  <2>. QED BY <2>3 DEF Contract!Next
<1>13. CASE UNCHANGED vars BY <1>13 DEF vars, clientVars, Contract!vars
<1>. QED
  BY <1>3, <1>4, <1>5, <1>6, <1>7, <1>8, <1>9, <1>10, <1>11, <1>12, <1>13, Zenon
  DEF Next, HttpNext, HttpSendRequest, H3Next, H3SendRequest

LEMMA ContractInit == ASSUME Init PROVE Contract!Init
<1>1. /\ stage = "start" /\ wire = NoAnswer /\ stats = NoStats /\ options \in Options
      /\ config = ConfigOf(options)
  BY Zenon DEF Init, ClientInit
<1>2. config.stop \in SUBSET Codes
  <2>1. config.stop = options.error_stop BY <1>1 DEF ConfigOf
  <2>. QED BY <1>1, <2>1, OptionsAssumption DEF CommandLines
<1>3. config.http3 \in BOOLEAN
  <2>1. config.http3 = options.http3 BY <1>1 DEF ConfigOf
  <2>. QED BY <1>1, <2>1, OptionsAssumption DEF CommandLines
<1>. QED
  BY <1>1, <1>2, <1>3 DEF Contract!Init, Contract!NoAnswer, Contract!NoStats, NoAnswer, NoStats,
                    InFlight, Gone

(* Both adapters implement what BenchRun relies on: whatever the connections
   and the answers do, the statistics of a request are those of its answer, a
   success being a 2xx answer of whose body the library said last that it is
   fine (over HTTP the one time it says so, over HTTP/3 the second time,
   whatever it said first); only an answer listed in --error_stop is fatal,
   and a client that is over sends no more. *)
THEOREM AdapterRefinement == Spec => KeepsContract
BY ContractInit, ContractStep, ModeInvariant, PTL
DEF Spec, KeepsContract, Contract!Spec
=============================================================================
