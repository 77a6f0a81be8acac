------------------------- MODULE MCLocalArtifactLogger -------------------------
(***************************************************************************)
(* Model checking LocalArtifactLogger: a few calls in one directory that   *)
(* already holds the artifact of an earlier run.                           *)
(***************************************************************************)
EXTENDS LocalArtifactLogger

MCPastNumbers == {1}
===============================================================================
