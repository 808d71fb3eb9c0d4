---------------------------- MODULE CommandLine ----------------------------
(***************************************************************************)
(* BenchmarkConfig::from_command_line of src/src/configuration.rs: which   *)
(* options are refused, in the order the code looks at them, and what the  *)
(* adapter is configured with.  What clap refuses by itself (a number that *)
(* is none, an unknown option) is not seen by the code.                    *)
(*                                                                         *)
(* An option is "none", "legal" or "illegal" where it is parsed by the     *)
(* code; the other texts are what the code makes of them:                  *)
(*   targets  a sequence of [kind, host], kind being "https", "http",      *)
(*            "relative" (a URI without a host) or "illegal" (no URI);     *)
(*   header   the parts of -H between colons, a part being its legality    *)
(*            in a request, <<>> without the option;                       *)
(*   body     [form, legal, size], form being the prefix of -B.            *)
(***************************************************************************)
EXTENDS Integers, Sequences

Features == {"http3", "tls-boring", "report-to-prometheus"}

Parsed == {"none", "legal", "illegal"}
Codes == 0..65535

Target == [kind : {"https", "http", "relative", "illegal"}, host : STRING]

\* Cli and HttpOptions, as far as they are looked at here.
CommandLines ==
  [concurrency : Nat, duration : Parsed, num_req : {"none", "legal"},
   request_timeout : Parsed, rate : BOOLEAN, rate_step : BOOLEAN, rate_max : BOOLEAN,
   targets : Seq(Target), header : Seq(BOOLEAN), method : Parsed,
   error_stop : SUBSET Codes,
   body : [form : {"none", "random", "base64", "file", "other"},
           legal : BOOLEAN, size : Nat],
   ignore_cert : BOOLEAN, conn_reuse : BOOLEAN, http2_only : BOOLEAN,
   http3 : BOOLEAN, prometheus : Parsed]

Refusal(bad, how) == IF bad THEN <<how>> ELSE <<>>

\* read_file_as_vec, generate_random_vec and the base64 decoder panic at what
\* they cannot read, and any other form is refused.
BodyRefused(body) == body.form = "other" \/ ~ body.legal

GenerateBody(body) == IF body.form = "none" THEN 0 ELSE body.size

ModeRefusals(o, features) ==
  Refusal(o.ignore_cert /\ "tls-boring" \in features, "exit")
    \o Refusal(o.method = "illegal", "panic")
    \o Refusal(BodyRefused(o.body), "panic")
    \o Refusal(o.http3 /\ (o.http2_only \/ "http3" \notin features), "exit")

PrometheusRefusals(o, features) ==
  Refusal(o.prometheus # "none" /\ "report-to-prometheus" \notin features, "exit")
    \o Refusal(o.prometheus = "illegal", "panic")

Refusals(o, features) ==
  Refusal(o.duration = "illegal", "panic")
    \o Refusal(o.request_timeout = "illegal", "panic")
    \o Refusal(o.duration = "none" /\ o.num_req = "none", "panic")
    \o Refusal(o.rate_max /\ ~ (o.rate /\ o.rate_step), "panic")
    \o ModeRefusals(o, features)
    \o PrometheusRefusals(o, features)

\* What becomes of the process: the first refusal, or the benchmark runs.
Outcome(o, features) ==
  LET all == Refusals(o, features) IN IF all = <<>> THEN "run" ELSE Head(all)

\* A mutation: the first value goes with the name of the header.
HeaderValuesCut(parts) == [name |-> parts[1], values |-> SubSeq(parts, 3, Len(parts))]

HeaderOf(parts) == [name |-> parts[1], values |-> Tail(parts)]

\* A request without a header is one whose header is always legal.
NoHeader == [name |-> TRUE, values |-> <<TRUE>>]

\* build_mode
ConfigOf(o) ==
  [http3   |-> o.http3,
   targets |-> o.targets,
   header  |-> IF o.header = <<>> THEN NoHeader ELSE HeaderOf(o.header),
   body    |-> GenerateBody(o.body),
   reuse   |-> o.conn_reuse,
   stop    |-> o.error_stop]

=============================================================================
