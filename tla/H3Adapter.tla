----------------------------- MODULE H3Adapter -----------------------------
(***************************************************************************)
(* H3BenchAdapter of src/src/h3_bench_session.rs: one QUIC connection to   *)
(* the host of the first target, opened by build_client, carries all the   *)
(* requests of the client, one stream each, and is never opened again.     *)
(* h3 and quinn are external.                                              *)
(***************************************************************************)
EXTENDS Adapter

Go(from, to) == stage = from /\ stage' = to

\* build_client ends with an error.
BuildFails(from) ==
  /\ Go(from, "failed")
  /\ UNCHANGED <<config, clientVars>>

\* first_url panics without a target; resolve_target refuses what is not an
\* absolute https URL, and may not find an address.
Resolve ==
  \/ /\ stage = "unbuilt" /\ config.targets = <<>>
     /\ Panic /\ UNCHANGED sent
  \/ config.targets # <<>> /\ BuildFails("unbuilt")
  \/ /\ config.targets # <<>> /\ config.targets[1].kind \in {"https", "illegal"}
     /\ Go("unbuilt", "connecting")
     /\ UNCHANGED <<config, clientVars>>

QuicConnect ==
  \/ BuildFails("connecting")
  \/ /\ Go("connecting", "handshake")
     /\ conns' = <<[host |-> config.targets[1].host, uses |-> 0, state |-> "idle"]>>
     /\ UNCHANGED <<config, url, conn, wire, local, stats, sent>>

H3Handshake ==
  \/ BuildFails("handshake")
  \/ Go("handshake", "ready") /\ UNCHANGED <<config, clientVars>>

\* The connection is lost, and stays so.
ConnectionLost ==
  /\ conns # <<>> /\ conns[1].state = "idle"
  /\ SetState(1, "closed")
  /\ UNCHANGED <<config, stage, url, conn, wire, local, stats, sent>>

Lost == conns[1].state = "closed"

\* A request that cannot be built is a failure like any other.
H3BuildRequest ==
  /\ Begin
  /\ \/ NothingToPick /\ Panic
     \/ \E pick \in Picks :
          IF Buildable(pick)
          THEN Start(pick, "open") /\ UNCHANGED <<config, conns, conn>>
          ELSE /\ stats' = ErrorStats
               /\ UNCHANGED <<config, stage, url, conns, conn, wire, local>>

\* An await of the sending half, or of the head, fails.
H3Error ==
  /\ stage \in {"open", "send", "finish", "response"}
  /\ Return(ErrorStats)
  /\ UNCHANGED <<conns, conn>>

\* send_request opens a stream on the connection, whatever host it is to.
OpenStream ==
  /\ Go("open", IF config.body > 0 THEN "send" ELSE "finish")
  /\ ~ Lost
  /\ conns' = [conns EXCEPT ![1].uses = @ + 1]
  /\ conn' = 1
  /\ UNCHANGED <<config, url, wire, local, stats, sent>>

SendData ==
  /\ Go("send", "finish")
  /\ UNCHANGED <<config, clientVars>>

FinishStream ==
  /\ Go("finish", "response")
  /\ UNCHANGED <<config, clientVars>>

RecvResponse ==
  /\ Go("response", "data")
  /\ \E s \in Statuses :
       /\ wire' = [wire EXCEPT !.head = s]
       /\ local' = ReadStatus(s)
  /\ UNCHANGED <<config, url, conns, conn, stats, sent>>

RecvData ==
  /\ stage = "data" /\ wire.received < MaxFrames
  /\ wire' = [wire EXCEPT !.received = @ + 1]
  /\ local' = [local EXCEPT !.total = @ + 1]
  /\ UNCHANGED <<config, stage, url, conns, conn, stats, sent>>

\* The loop is left at the end of the body and, without a word, at an error.
RecvDataEnds ==
  /\ Go("data", "again")
  /\ \E how \in {"whole", "cut"} : BodyEnds(how)
  /\ UNCHANGED <<config, url, conns, conn, local, stats, sent>>

\* A mutation: nothing is asked when the loop is left.
AssumeWhole ==
  /\ Go("again", "result")
  /\ UNCHANGED <<config, clientVars>>

\* recv_data once more: whatever it says now decides, also if that is no
\* error after one, or an error after the end.
CheckStream ==
  /\ Go("again", "result")
  /\ \E word \in {"fine", "error"} :
       /\ wire' = [wire EXCEPT !.last = word]
       /\ local' = [local EXCEPT !.body_error = (word = "error")]
  /\ UNCHANGED <<config, url, conns, conn, stats, sent>>

H3Return ==
  /\ stage = "result"
  /\ Return(AnswerStats)
  /\ UNCHANGED <<conns, conn>>

H3SendRequest ==
  \/ H3BuildRequest \/ H3Error
  \/ OpenStream \/ SendData \/ FinishStream
  \/ RecvResponse \/ RecvData \/ RecvDataEnds \/ CheckStream \/ H3Return

H3Next ==
  \/ Resolve \/ QuicConnect \/ H3Handshake
  \/ H3SendRequest \/ ConnectionLost \/ DropRequest
=============================================================================
