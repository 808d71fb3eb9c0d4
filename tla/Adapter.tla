------------------------------ MODULE Adapter ------------------------------
(***************************************************************************)
(* What the two adapters have in common: the configuration, the client of  *)
(* one task with its connections, the request it is at, and the steps that *)
(* end one.  HttpAdapter and H3Adapter have the protocols, BenchmarkMode   *)
(* puts them behind the command line.                                      *)
(*                                                                         *)
(* The libraries (hyper with its pool, h3, quinn) are modelled as far as   *)
(* the adapters can tell: what each await may return, and what becomes of  *)
(* a connection.  One atomic step ends at an await.                        *)
(***************************************************************************)
EXTENDS Integers, Sequences

CONSTANTS
  Statuses,   \* status codes of the target
  MaxFrames,  \* bound on the frames of a body
  MaxSent     \* bound on the requests of a client

ASSUME AdapterAssumption ==
  /\ Statuses \subseteq 100..999
  /\ MaxFrames \in Nat
  /\ MaxSent \in Nat

VARIABLES
  config,  \* [http3, targets, header, body, reuse, stop]
  stage,   \* where build_client or send_request is
  url,     \* the target of the request
  conns,   \* the connections of the client: [host, uses, state]
  conn,    \* the connection of the request
  wire,    \* the answer so far: status (0 before the head), data and end,
           \* and what the library said last of the end
  local,   \* total_size, body_error and what was read off the status
  stats,   \* the last RequestStats
  sent     \* requests begun

clientVars == <<url, conns, conn, wire, local, stats, sent>>

\* The awaits of send_request, and the ends of a client.  Before, the stage is
\* "unbuilt" or an await of build_client, and "ready" between two requests.
InFlight == {"connect", "head", "body", "open", "send", "finish",
             "response", "data", "again", "result"}
Gone == {"over", "failed", "panicked"}

NoAnswer == [head |-> 0, received |-> 0, ended |-> "open", last |-> "none"]
NoLocal == [success |-> FALSE, fatal |-> FALSE, total |-> 0, body_error |-> FALSE]
NoStats == [status |-> 0, bytes |-> -1, success |-> FALSE, fatal |-> FALSE]

ClientInit ==
  /\ url = [kind |-> "none", host |-> "none"]
  /\ conns = <<>>
  /\ conn = 0
  /\ wire = NoAnswer
  /\ local = NoLocal
  /\ stats = NoStats
  /\ sent = 0

\* A request is about to be built, from a URL and a header value that are
\* picked at random.
Begin == stage = "ready" /\ sent < MaxSent /\ sent' = sent + 1

\* gen_range panics when there is nothing to pick from.
NothingToPick == config.targets = <<>> \/ config.header.values = <<>>

Picks == (DOMAIN config.targets) \X (DOMAIN config.header.values)

\* Request::builder takes these parts.
Buildable(pick) ==
  /\ config.targets[pick[1]].kind # "illegal"
  /\ config.header.name
  /\ config.header.values[pick[2]]

\* A panic in the task, which the hook makes the end of the process.
Panic ==
  /\ stage' = "panicked"
  /\ stats' = NoStats
  /\ UNCHANGED <<config, url, conns, conn, wire, local>>

Start(pick, first) ==
  /\ url' = config.targets[pick[1]]
  /\ stage' = first
  /\ wire' = NoAnswer
  /\ local' = NoLocal
  /\ stats' = NoStats

IsSuccess(status) == status \in 200..299

\* What the code reads off the status of an answer.
ReadStatus(status) ==
  [NoLocal EXCEPT !.success = IsSuccess(status),
                  !.fatal = ~ IsSuccess(status) /\ status \in config.stop]

\* No more frames, or an error in place of one.
BodyEnds(how) ==
  wire' = [wire EXCEPT !.ended = how, !.last = IF how = "cut" THEN "error" ELSE "fine"]

ErrorStats == [status |-> 0, bytes |-> 0, success |-> FALSE, fatal |-> FALSE]

AnswerStats ==
  [status  |-> wire.head,
   bytes   |-> local.total,
   success |-> local.success /\ ~ local.body_error,
   fatal   |-> local.fatal]

\* send_request returns; send_load goes on unless the error is fatal.
Return(result) ==
  /\ stats' = result
  /\ stage' = IF result.fatal THEN "over" ELSE "ready"
  /\ UNCHANGED <<config, url, wire, local, sent>>

\* timed_operation drops the request at whatever await it is.
DropRequest ==
  /\ stage \in InFlight \ {"result"}
  /\ stage' = "over"
  /\ stats' = NoStats
  /\ UNCHANGED <<config, url, conns, conn, wire, local, sent>>

SetState(i, s) == conns' = [conns EXCEPT ![i].state = s]
=============================================================================
