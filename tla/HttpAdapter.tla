---------------------------- MODULE HttpAdapter ----------------------------
(***************************************************************************)
(* HttpBenchAdapter of src/src/http_bench_session.rs, over hyper's client  *)
(* and its pool of idle connections, both external.  A connection is busy, *)
(* then on its way back to the pool, which happens beside the client, then *)
(* idle, or discarded by the pool for want of room; it may be closed by    *)
(* the target, by an error or by its age at any time.                      *)
(***************************************************************************)
EXTENDS Adapter, FiniteSets

MaxUsize == 1000000

\* A client has fewer connections than a usize can count.
ASSUME PoolAssumption == MaxSent <= MaxUsize

\* A mutation: the pool is never switched off.
PoolMaxIdleAlways == MaxUsize

PoolMaxIdle == IF config.reuse THEN MaxUsize ELSE 0

\* build_client awaits nothing and cannot fail.
HttpBuildClient ==
  /\ stage = "unbuilt"
  /\ stage' = "ready"
  /\ UNCHANGED <<config, clientVars>>

\* A request that cannot be built panics in one of its expects.
HttpBuildRequest ==
  /\ Begin
  /\ \/ NothingToPick /\ Panic
     \/ \E pick \in Picks :
          IF Buildable(pick)
          THEN Start(pick, "connect") /\ UNCHANGED <<config, conns, conn>>
          ELSE Panic

Idle(host) == {i \in DOMAIN conns : conns[i].state = "idle" /\ conns[i].host = host}

\* An idle connection to the host is taken before one is opened.
TakeIdle ==
  /\ stage = "connect"
  /\ \E i \in Idle(url.host) :
       /\ conns' = [conns EXCEPT ![i].state = "busy", ![i].uses = @ + 1]
       /\ conn' = i
  /\ stage' = "head"
  /\ UNCHANGED <<config, url, wire, local, stats, sent>>

Connect ==
  /\ stage = "connect" /\ url.kind # "relative"
  /\ Idle(url.host) = {}
  /\ conns' = Append(conns, [host |-> url.host, uses |-> 1, state |-> "busy"])
  /\ conn' = Len(conns')
  /\ stage' = "head"
  /\ UNCHANGED <<config, url, wire, local, stats, sent>>

\* hyper refuses the URL or cannot connect.
ConnectFails ==
  /\ stage = "connect"
  /\ Return(ErrorStats)
  /\ UNCHANGED <<conns, conn>>

\* An idle connection turns out to be closed: hyper tries another one.
RetryConnect ==
  /\ stage = "head" /\ conns[conn].uses > 1
  /\ SetState(conn, "closed")
  /\ stage' = "connect"
  /\ UNCHANGED <<config, url, conn, wire, local, stats, sent>>

\* client.request returns an error ...
HttpNoAnswer ==
  /\ stage = "head"
  /\ \E s \in {"returning", "closed"} : SetState(conn, s)
  /\ Return(ErrorStats)
  /\ UNCHANGED conn

\* ... or the head of the answer.
HttpHead ==
  /\ stage = "head"
  /\ \E s \in Statuses :
       /\ wire' = [wire EXCEPT !.head = s]
       /\ local' = ReadStatus(s)
  /\ stage' = "body"
  /\ UNCHANGED <<config, url, conns, conn, stats, sent>>

\* A frame of the body; one of trailers has no data.
HttpFrame ==
  /\ stage = "body" /\ wire.ended = "open" /\ wire.received < MaxFrames
  /\ \E data \in {0, 1} :
       /\ wire' = [wire EXCEPT !.received = @ + data]
       /\ local' = [local EXCEPT !.total = @ + data]
  /\ UNCHANGED <<config, stage, url, conns, conn, stats, sent>>

\* The loop notes the error that ends it.
HttpBodyEnd ==
  /\ stage = "body"
  /\ \E how \in {"whole", "cut"} :
       /\ BodyEnds(how)
       /\ local' = [local EXCEPT !.body_error = (how = "cut")]
  /\ \E s \in {"returning", "closed"} : SetState(conn, s)
  /\ stage' = "result"
  /\ UNCHANGED <<config, url, conn, stats, sent>>

HttpReturn ==
  /\ stage = "result"
  /\ Return(AnswerStats)
  /\ UNCHANGED <<conns, conn>>

\* hyper hands a connection back to its pool.
PutBack ==
  /\ \E i \in DOMAIN conns :
       /\ conns[i].state = "returning"
       /\ SetState(i, IF Cardinality(Idle(conns[i].host)) < PoolMaxIdle
                      THEN "idle" ELSE "discarded")
  /\ UNCHANGED <<config, stage, url, conn, wire, local, stats, sent>>

\* The target or the age of a connection closes it.
IdleCloses ==
  /\ \E i \in DOMAIN conns :
       conns[i].state \in {"idle", "returning"} /\ SetState(i, "closed")
  /\ UNCHANGED <<config, stage, url, conn, wire, local, stats, sent>>

HttpSendRequest ==
  \/ HttpBuildRequest
  \/ TakeIdle \/ Connect \/ ConnectFails \/ RetryConnect
  \/ HttpNoAnswer \/ HttpHead \/ HttpFrame \/ HttpBodyEnd \/ HttpReturn

HttpNext ==
  HttpBuildClient \/ HttpSendRequest \/ PutBack \/ IdleCloses \/ DropRequest
=============================================================================
