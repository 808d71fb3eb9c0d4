---------------------------- MODULE MCPerfGauge ----------------------------
(***************************************************************************)
(* PerfGauge on a grid of half requests per second, with one kind of       *)
(* answers: the kinds differ in the client tasks only.                     *)
(***************************************************************************)
EXTENDS PerfGauge

MCRates == {0, 2, 4}
MCSteps == {0, 3}
MCIterations == {0, 1}
MCRequestStats == {"normal"}
=============================================================================
