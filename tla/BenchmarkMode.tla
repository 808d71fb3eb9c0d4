--------------------------- MODULE BenchmarkMode ---------------------------
(***************************************************************************)
(* The life of one client from the command line on: the options are read,  *)
(* refused or turned into the configuration of an adapter, which is logged *)
(* with the first batch, and the task of the client uses the adapter of    *)
(* its BenchmarkMode (main.rs 40-55, configuration.rs, bench_session.rs    *)
(* 129-137).                                                               *)
(***************************************************************************)
EXTENDS CommandLine, HttpAdapter, H3Adapter

CONSTANTS
  Options,  \* command lines
  Builds    \* sets of features the program is built with

ASSUME OptionsAssumption ==
  /\ Options \subseteq CommandLines
  /\ Builds \subseteq SUBSET Features

VARIABLES
  options,
  features,
  level     \* of the logger: "info" with config/log4rs.yaml, "warn" without

vars == <<options, features, level, config, stage, clientVars>>

\* The process starts; config is what the options would be turned into.
Init ==
  /\ options \in Options
  /\ features \in Builds
  /\ level \in {"info", "warn"}
  /\ config = ConfigOf(options)
  /\ stage = "start"
  /\ ClientInit

\* from_command_line; a process that is refused its options ends.
ReadOptions ==
  /\ stage = "start"
  /\ stage' = IF Outcome(options, features) = "run" THEN "configured" ELSE "refused"
  /\ UNCHANGED <<config, clientVars>>

\* What is logged shows the first of the targets and of the clients, and it is
\* a panic to have none, but only if the level has the line formatted.
Unloggable == config.targets = <<>> \/ options.concurrency = 0

\* The configuration and the first batch are logged, and its clients spawned.
StartSession ==
  /\ stage = "configured"
  /\ IF level = "info" /\ Unloggable
     THEN Panic /\ UNCHANGED sent
     ELSE /\ stage' = IF options.concurrency = 0 THEN "over" ELSE "unbuilt"
          /\ UNCHANGED <<config, clientVars>>

Next ==
  /\ \/ ReadOptions \/ StartSession
     \/ ~ config.http3 /\ HttpNext
     \/ config.http3 /\ H3Next
  /\ UNCHANGED <<options, features, level>>

Spec == Init /\ [][Next]_vars

-----------------------------------------------------------------------------
\* Properties.

Contract == INSTANCE AdapterContract WITH
  phase <- CASE stage \in InFlight -> "busy"
             [] stage \in Gone \cup {"refused"} -> "over"
             [] OTHER -> "idle",
  stop <- config.stop,
  twice <- config.http3

(* Both adapters keep the contract BenchRun relies on: the statistics are
   those of the answer; over HTTP, a body that was cut off is no success
   whatever its status (http_bench_session.rs 157-173), and over HTTP/3, one
   that recv_data calls an error when it is asked again, whatever it said
   before (h3_bench_session.rs 249-261); only an answer listed in --error_stop
   is fatal, and no request follows a fatal one, a timeout or a panic. *)
KeepsContract == Contract!Spec

\* Options that from_command_line takes and that panic all the same: without
\* targets, with a header without values, without clients to log and, over
\* HTTP only, with a part of a request that cannot be built.
PanicLater ==
  \/ options.targets = <<>> \/ Len(options.header) = 1
  \/ options.concurrency = 0 /\ level = "info"
  \/ /\ ~ options.http3
     /\ \/ \E i \in DOMAIN options.targets : options.targets[i].kind = "illegal"
        \/ \E i \in DOMAIN options.header : ~ options.header[i]

(* A command line that is not refused panics later on only if it is one of
   these: no other meets one of the expects and indexings of the Display of a
   configuration or batch, of build_request, first_url and request_parts
   (http_bench_session.rs 139-142, 197-249, 274, bench_session.rs:196),
   whatever is picked at random and logged. *)
OnlyThesePanic == stage = "panicked" => PanicLater

(* --conn_reuse ("If connections should be re-used", configuration.rs:126)
   decides about HTTP connections (http_bench_session.rs 133-137): without it
   no connection carries a second request, not even a retry, and with it none
   is thrown away. *)
ConnectionsAsAsked ==
  ~ config.http3 =>
    \A i \in DOMAIN conns :
      IF config.reuse THEN conns[i].state # "discarded" ELSE conns[i].uses <= 1
=============================================================================
