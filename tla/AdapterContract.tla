-------------------------- MODULE AdapterContract --------------------------
(***************************************************************************)
(* What BenchRun may rely on of a BenchmarkProtocolAdapter and its client, *)
(* whatever the protocol: what the RequestStats of send_request say about  *)
(* the answer of the target, and which of them end the client's run.       *)
(***************************************************************************)
EXTENDS Integers

CONSTANTS
  Statuses,  \* status codes of the target
  Codes,     \* status codes that --error_stop takes
  MaxFrames  \* bound on the frames of a body

VARIABLES
  phase,  \* "idle", "busy" with a request, or "over": no request follows
  stop,   \* the codes of --error_stop
  twice,  \* the library is asked again after the end of a body (HTTP/3)
  wire,   \* the answer so far: status (0 before the head), data and end,
          \* and what the library said last of the end
  stats   \* the last RequestStats, NoStats before the first and after a drop

vars == <<phase, stop, twice, wire, stats>>

IsSuccess(status) == status \in 200..299

NoAnswer == [head |-> 0, received |-> 0, ended |-> "open", last |-> "none"]

NoStats == [status |-> 0, bytes |-> -1, success |-> FALSE, fatal |-> FALSE]

\* No answer at all: a failure, which is never fatal.
Failure == [status |-> 0, bytes |-> 0, success |-> FALSE, fatal |-> FALSE]

\* A success is a 2xx answer of whose body the library said last that nothing
\* is wrong with it.  Unless it is asked twice, that is one that arrived whole.
\* A fatal error is an answer with one of the codes of --error_stop, if that is
\* not a 2xx.
StatsOf(answer) ==
  [status  |-> answer.head,
   bytes   |-> answer.received,
   success |-> IsSuccess(answer.head) /\ answer.last = "fine",
   fatal   |-> ~ IsSuccess(answer.head) /\ answer.head \in stop]

Init ==
  /\ phase = "idle"
  /\ stop \in SUBSET Codes
  /\ twice \in BOOLEAN
  /\ wire = NoAnswer
  /\ stats = NoStats

Start ==
  /\ phase = "idle"
  /\ phase' = "busy"
  /\ wire' = NoAnswer
  /\ stats' = NoStats
  /\ UNCHANGED <<stop, twice>>

AnswerHead ==
  /\ phase = "busy" /\ wire.head = 0
  /\ \E s \in Statuses : wire' = [wire EXCEPT !.head = s]
  /\ UNCHANGED <<phase, stop, twice, stats>>

AnswerBody ==
  /\ phase = "busy" /\ wire.head # 0 /\ wire.ended = "open"
  /\ \/ wire.received < MaxFrames /\ wire' = [wire EXCEPT !.received = @ + 1]
     \/ wire' = [wire EXCEPT !.ended = "whole", !.last = "fine"]
     \/ wire' = [wire EXCEPT !.ended = "cut", !.last = "error"]
  /\ UNCHANGED <<phase, stop, twice, stats>>

\* The second word need not be the first.
AskAgain ==
  /\ phase = "busy" /\ wire.ended # "open" /\ twice
  /\ \E word \in {"fine", "error"} : wire' = [wire EXCEPT !.last = word]
  /\ UNCHANGED <<phase, stop, twice, stats>>

ReturnAnswer ==
  /\ phase = "busy" /\ wire.ended # "open"
  /\ stats' = StatsOf(wire)
  /\ phase' = IF stats'.fatal THEN "over" ELSE "idle"
  /\ UNCHANGED <<stop, twice, wire>>

\* A request without an answer, or one that cannot be built.
ReturnFailure ==
  /\ phase = "idle" \/ (phase = "busy" /\ wire.head = 0)
  /\ phase' = "idle"
  /\ stats' = Failure
  /\ UNCHANGED <<stop, twice, wire>>

\* The request is dropped by its timeout, or the client cannot go on.
Leave ==
  /\ phase # "over"
  /\ phase' = "over"
  /\ stats' = NoStats
  /\ UNCHANGED <<stop, twice, wire>>

Next ==
  \/ Start \/ AnswerHead \/ AnswerBody \/ AskAgain
  \/ ReturnAnswer \/ ReturnFailure \/ Leave

Spec == Init /\ [][Next]_vars
=============================================================================
