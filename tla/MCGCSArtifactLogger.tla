-------------------------- MODULE MCGCSArtifactLogger --------------------------
(***************************************************************************)
(* Model checking GCSArtifactLogger: a few logging calls racing for the    *)
(* counter of a fresh bucket, or of one with one earlier run.              *)
(***************************************************************************)
EXTENDS GCSArtifactLogger

MCInitialValues == {0, 1}
===============================================================================
