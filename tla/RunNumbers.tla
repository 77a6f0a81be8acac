------------------------------ MODULE RunNumbers ------------------------------
(***************************************************************************)
(* What every artifact backend owes its readers, whatever stores the       *)
(* bytes: run numbers are handed out in increasing order, a number is      *)
(* handed to at most one logging call, and a call publishes its artifact   *)
(* under the number it was handed.  A number may be burned (the call that  *)
(* took it failed), never handed out twice.                                *)
(*                                                                         *)
(* This is the sequence that scripts/compare_runs.py and                   *)
(* RunArtifact.run_number rely on; GCSArtifactLogger is shown to           *)
(* implement it.                                                           *)
(***************************************************************************)
EXTENDS Naturals

CONSTANTS
  Calls,          (* calls of log_run and log_ingestion_run, one per run *)
  InitialValues   (* the run numbers the log may already have reached *)

VARIABLES
  issued,         (* the highest number handed out so far *)
  number,         (* the number each call was handed, 0 before that *)
  published       (* the calls whose artifact is stored *)

vars == <<issued, number, published>>

Init ==
  /\ issued \in InitialValues
  /\ number = [c \in Calls |-> 0]
  /\ published = {}

\* A call is handed the next number.
Claim(c) ==
  /\ number[c] = 0
  /\ issued' = issued + 1
  /\ number' = [number EXCEPT ![c] = issued + 1]
  /\ UNCHANGED published

\* A number is lost: whoever took it will never use it.
Burn ==
  /\ issued' = issued + 1
  /\ UNCHANGED <<number, published>>

\* A call stores its artifact under the number it was handed.
Publish(c) ==
  /\ number[c] # 0
  /\ c \notin published
  /\ published' = published \cup {c}
  /\ UNCHANGED <<issued, number>>

Next ==
  \/ \E c \in Calls : Claim(c) \/ Publish(c)
  \/ Burn

Spec == Init /\ [][Next]_vars
===============================================================================
