-------------------------- MODULE MCMatchingPipeline ---------------------------
(***************************************************************************)
(* Model checking MatchingPipeline: one run, with a primary and a fallback *)
(* model behind each client.                                               *)
(***************************************************************************)
EXTENDS MatchingPipeline

MCCallers == {"main", "worker"}
MCClients == {"evaluation", "experience"}
===============================================================================
