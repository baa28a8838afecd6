--------------------------- MODULE MCOrchestrator ---------------------------
(* Two agents and a timeout of four seconds (a check every two).           *)
EXTENDS Orchestrator, TLC
=============================================================================
