----------------------------- MODULE MCPacedRun -----------------------------
(***************************************************************************)
(* PacedRun at the rates of the unit tests of the limiter and at some that *)
(* are neither whole nor a tenth, on both sides of one request per second. *)
(* The course is explored of those whose interval is a multiple of half a  *)
(* second, which has refills of one and of three tokens and intervals that *)
(* divide the durations and that do not.                                   *)
(***************************************************************************)
EXTENDS PacedRun

Whole(n) == [num |-> n, den |-> 1]

MCRates == {Whole(n) : n \in {0, 1, 2, 3, 5, 6, 100, 150, 1000, 2000}}
             \cup {[num |-> n, den |-> 100] :
                     n \in {10, 33, 50, 101, 104, 105, 125, 149, 150, 233}}

MCClientCounts == {1, 3, 64}
=============================================================================
