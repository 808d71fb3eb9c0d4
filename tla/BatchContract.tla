--------------------------- MODULE BatchContract ---------------------------
(***************************************************************************)
(* What the batches of a session promise to whoever reads the metrics,     *)
(* without tasks, channels or flags: batches run one after the other; a    *)
(* batch that returns Ok reports exactly the answers it got, and gets none *)
(* afterwards; a batch that returns Err reports nothing.                   *)
(***************************************************************************)
EXTENDS Naturals

CONSTANTS Batches, RequestStats

VARIABLES
  phase,     \* phase[b]: "pending", "open", "ok" or "err"
  answered,  \* answered[b][k]: answers of kind k the batch got in time
  reported   \* reported[b][k]: what the metrics of the batch say of them

vars == <<phase, answered, reported>>

Init ==
  /\ phase = [b \in Batches |-> "pending"]
  /\ answered = [b \in Batches |-> [k \in RequestStats |-> 0]]
  /\ reported = [b \in Batches |-> [k \in RequestStats |-> 0]]

Open(b) ==
  /\ phase[b] = "pending"
  /\ \A other \in Batches \ {b} :
       phase[other] \in IF other < b THEN {"ok", "err"} ELSE {"pending"}
  /\ phase' = [phase EXCEPT ![b] = "open"]
  /\ UNCHANGED <<answered, reported>>

\* A mutation: an answer may come in after the batch has returned.
AnswerAnyTime(b, k) ==
  /\ phase[b] # "pending"
  /\ answered' = [answered EXCEPT ![b][k] = @ + 1]
  /\ UNCHANGED <<phase, reported>>

\* The requests of a batch that failed are not called back.
Answer(b, k) ==
  /\ phase[b] \in {"open", "err"}
  /\ answered' = [answered EXCEPT ![b][k] = @ + 1]
  /\ UNCHANGED <<phase, reported>>

Return(b) ==
  /\ phase[b] = "open"
  /\ phase' = [phase EXCEPT ![b] = "ok"]
  /\ reported' = [reported EXCEPT ![b] = answered[b]]
  /\ UNCHANGED answered

Fail(b) ==
  /\ phase[b] = "open"
  /\ phase' = [phase EXCEPT ![b] = "err"]
  /\ UNCHANGED <<answered, reported>>

Next ==
  \E b \in Batches :
    \/ Open(b) \/ Return(b) \/ Fail(b)
    \/ \E k \in RequestStats : Answer(b, k)

Spec == Init /\ [][Next]_vars
=============================================================================
