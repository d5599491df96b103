--------------------------- MODULE MCOrchestrator ---------------------------
(***************************************************************************)
(* Instance of Orchestrator for TLC: two of the four agents.               *)
(***************************************************************************)
EXTENDS Orchestrator

AgentNames == <<"security", "quality">>
AgentSet == {"security", "quality"}
AllSeverities == {"CRITICAL", "LOW"}
\* Far below the threshold, below it by less than one boost, at it and above it.
AllConfidences == {60, 79, 80, 90}
=============================================================================
