--------------------------- MODULE MCOrchestrator ---------------------------
(* The finite instance of Orchestrator that TLC checks.                    *)
EXTENDS Orchestrator

CONSTANTS t1, t2, t3
=============================================================================
