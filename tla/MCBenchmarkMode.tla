-------------------------- MODULE MCBenchmarkMode --------------------------
(***************************************************************************)
(* BenchmarkMode for command lines that differ from a plain one in what    *)
(* is parsed, and in what the adapters are configured with.                *)
(***************************************************************************)
EXTENDS BenchmarkMode

To(kind, host) == [kind |-> kind, host |-> host]
Body(form, legal, size) == [form |-> form, legal |-> legal, size |-> size]

Plain ==
  [concurrency |-> 1, duration |-> "legal", num_req |-> "none", request_timeout |-> "none",
   rate |-> FALSE, rate_step |-> FALSE, rate_max |-> FALSE,
   targets |-> <<To("https", "a")>>, header |-> <<>>, method |-> "none",
   error_stop |-> {200, 401}, body |-> Body("none", TRUE, 0),
   ignore_cert |-> FALSE, conn_reuse |-> FALSE, http2_only |-> FALSE,
   http3 |-> FALSE, prometheus |-> "none"]

\* Command lines that differ in what the code parses or refuses.
Limits ==
  {[Plain EXCEPT !.duration = d, !.num_req = n, !.request_timeout = t] :
     d \in Parsed, n \in {"none", "legal"}, t \in Parsed}
    \cup {[Plain EXCEPT !.rate = r, !.rate_step = s, !.rate_max = m] :
            r \in BOOLEAN, s \in BOOLEAN, m \in BOOLEAN}
    \cup {[Plain EXCEPT !.concurrency = 0]}

Modes ==
  {[Plain EXCEPT !.ignore_cert = c, !.http2_only = h, !.http3 = q,
                 !.method = m, !.prometheus = p] :
     c \in BOOLEAN, h \in BOOLEAN, q \in BOOLEAN, m \in Parsed, p \in Parsed}

Bodies ==
  {Body("none", TRUE, 0), Body("random", TRUE, 0), Body("random", TRUE, 1),
   Body("random", FALSE, 0), Body("base64", TRUE, 1), Body("base64", FALSE, 0),
   Body("file", TRUE, 1), Body("file", FALSE, 0), Body("other", TRUE, 1)}

\* Command lines that differ in what the requests are made of.
TargetLists ==
  {<<>>, <<To("https", "a"), To("https", "b")>>,
   <<To("http", "a")>>, <<To("relative", "a")>>,
   <<To("https", "a"), To("illegal", "b")>>, <<To("illegal", "a")>>}

Headers == {<<>>, <<TRUE>>, <<TRUE, TRUE>>, <<TRUE, TRUE, FALSE>>, <<FALSE, TRUE>>}

Requests ==
  {[Plain EXCEPT !.targets = u, !.header = h, !.http3 = q, !.conn_reuse = r] :
     u \in TargetLists, h \in Headers, q \in BOOLEAN, r \in BOOLEAN}
    \cup {[Plain EXCEPT !.body = b, !.http3 = q] : b \in Bodies, q \in BOOLEAN}

MCOptions == Limits \cup Modes \cup Requests

MCBuilds == {{}, {"http3", "report-to-prometheus"}, {"tls-boring"}}
=============================================================================
