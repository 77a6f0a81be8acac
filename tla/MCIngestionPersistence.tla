------------------------ MODULE MCIngestionPersistence -------------------------
(***************************************************************************)
(* Model checking IngestionPersistence: a few runs of every kind on one    *)
(* CV, and listings matched against the pinned CV while it is rebuilt.     *)
(***************************************************************************)
EXTENDS IngestionPersistence, TLC

RunSymmetry == Permutations(Runs)
===============================================================================
