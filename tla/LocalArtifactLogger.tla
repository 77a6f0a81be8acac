-------------------------- MODULE LocalArtifactLogger --------------------------
(***************************************************************************)
(* src/src/utils/artifact_logger.py: artifact logging to a directory.      *)
(*                                                                         *)
(* A call scans the directory for the highest number used by an artifact   *)
(* or a reservation, creates the next number's reservation file with       *)
(* O_CREAT|O_EXCL (moving to the next number while the file exists),       *)
(* builds the artifact, writes it to a temporary file, renames that into   *)
(* place and removes its reservation.  Calls of several processes or       *)
(* threads interleave between two file-system operations; each operation   *)
(* can fail, and the process can die at any point.                         *)
(***************************************************************************)
EXTENDS Naturals, FiniteSetsExt

CONSTANTS
  Calls,        (* calls of log_run and log_ingestion_run, one per run *)
  PastRun,      (* stands for the runs logged before the behaviour *)
  PastNumbers   (* the numbers of their artifacts *)

ASSUME PastRunAssumption == PastRun \notin Calls
ASSUME PastNumbersAssumption ==
  /\ PastNumbers \subseteq Nat \ {0}
  /\ PastNumbers # {} => \E m \in PastNumbers : \A n \in PastNumbers : n <= m

VARIABLES
  artifacts,    (* the run-*.json files of the directory *)
  reservations, (* the numbers whose .run-*.reserve file exists *)
  temporaries,  (* the calls whose .tmp file exists *)
  pc,           (* where each call is *)
  candidate,    (* the call's run-number candidate, its number once reserved *)
  returned,     (* the calls that have left the try block with a path *)
  endedBefore   (* history: the calls that had ended with an artifact when *)
                (* the call began *)

directory == <<artifacts, reservations, temporaries>>
vars == <<artifacts, reservations, temporaries, pc, candidate, returned, endedBefore>>

-------------------------------------------------------------------------------

Running == {"scan", "open", "build", "write", "replace", "release"}
Ended   == {"logged", "failed", "unreleased", "crashed"}

\* Between the creation of the reservation file and its removal.
Holding(c) == pc[c] \in {"build", "write", "replace", "release"}

Artifact == [number : Nat, run : Calls \cup {PastRun}]

TypeOK ==
  /\ artifacts \in SUBSET Artifact
  /\ reservations \in SUBSET Nat
  /\ temporaries \in SUBSET Calls
  /\ pc \in [Calls -> {"idle"} \cup Running \cup Ended]
  /\ candidate \in [Calls -> Nat]
  /\ returned \in SUBSET Calls
  /\ endedBefore \in [Calls -> SUBSET Calls]

Init ==
  /\ artifacts = {[number |-> n, run |-> PastRun] : n \in PastNumbers}
  /\ reservations = {}
  /\ temporaries = {}
  /\ pc = [c \in Calls |-> "idle"]
  /\ candidate = [c \in Calls |-> 0]
  /\ returned = {}
  /\ endedBefore = [c \in Calls |-> {}]

Goto(c, from, to) ==
  /\ pc[c] = from
  /\ pc' = [pc EXCEPT ![c] = to]

-------------------------------------------------------------------------------
(* Reserving a number *)

\* A run reaches log_run or log_ingestion_run.
Begin(c) ==
  /\ Goto(c, "idle", "scan")
  /\ endedBefore' = [endedBefore EXCEPT ![c] = {d \in returned : pc[d] \in Ended}]
  /\ UNCHANGED <<directory, candidate, returned>>

\* Mutant: the scan does not look at the artifacts.
ReservedNumbers == reservations

UsedNumbers == {a.number : a \in artifacts} \cup reservations

\* Artifacts and reservations count, temporary files do not.
Scan(c) ==
  /\ Goto(c, "scan", "open")
  /\ candidate' = [candidate EXCEPT ![c] = Max(UsedNumbers \cup {0}) + 1]
  /\ UNCHANGED <<directory, returned, endedBefore>>

\* Mutant: the reservation is opened without O_EXCL.
OpenShared(c) ==
  /\ Goto(c, "open", "build")
  /\ reservations' = reservations \cup {candidate[c]}
  /\ UNCHANGED <<artifacts, temporaries, candidate, returned, endedBefore>>

\* os.open with O_CREAT|O_EXCL.
Open(c) ==
  /\ candidate[c] \notin reservations
  /\ Goto(c, "open", "build")
  /\ reservations' = reservations \cup {candidate[c]}
  /\ UNCHANGED <<artifacts, temporaries, candidate, returned, endedBefore>>

\* Mutant: the same number is tried again.
OpenExistsAgain(c) ==
  /\ pc[c] = "open"
  /\ candidate[c] \in reservations
  /\ UNCHANGED vars

\* FileExistsError: try the next number, without another scan.
OpenExists(c) ==
  /\ pc[c] = "open"
  /\ candidate[c] \in reservations
  /\ candidate' = [candidate EXCEPT ![c] = @ + 1]
  /\ UNCHANGED <<directory, pc, returned, endedBefore>>

\* The directory cannot be read, or the reservation cannot be created.
ReserveRaises(c) ==
  /\ pc[c] \in {"scan", "open"}
  /\ pc' = [pc EXCEPT ![c] = "failed"]
  /\ UNCHANGED <<directory, candidate, returned, endedBefore>>

-------------------------------------------------------------------------------
(* Building and writing the artifact *)

Build(c) ==
  /\ Goto(c, "build", "write")
  /\ UNCHANGED <<directory, candidate, returned, endedBefore>>

\* build(run_number) raises, or the temporary file cannot be created.
BuildRaises(c) ==
  /\ pc[c] \in {"build", "write"}
  /\ pc' = [pc EXCEPT ![c] = "release"]
  /\ UNCHANGED <<directory, candidate, returned, endedBefore>>

WriteTemporary(c) ==
  /\ Goto(c, "write", "replace")
  /\ temporaries' = temporaries \cup {c}
  /\ UNCHANGED <<artifacts, reservations, candidate, returned, endedBefore>>

\* A write to the temporary file raises while temporary_path is still None:
\* the handler does not know the file and leaves it.
WriteRaises(c) ==
  /\ Goto(c, "write", "release")
  /\ temporaries' = temporaries \cup {c}
  /\ UNCHANGED <<artifacts, reservations, candidate, returned, endedBefore>>

\* The artifact's name: the number and the run's trace id.
ArtifactName(c) == [number |-> candidate[c], run |-> c]

\* os.replace: the artifact appears whole.
Replace(c) ==
  /\ Goto(c, "replace", "release")
  /\ artifacts' = artifacts \cup {ArtifactName(c)}
  /\ temporaries' = temporaries \ {c}
  /\ returned' = returned \cup {c}
  /\ UNCHANGED <<reservations, candidate, endedBefore>>

\* Mutant: the exception of os.replace passes the finally clause by.
ReplaceRaisesPastFinally(c) ==
  /\ Goto(c, "replace", "raised")
  /\ temporaries' = temporaries \ {c}
  /\ UNCHANGED <<artifacts, reservations, candidate, returned, endedBefore>>

\* os.replace raises: the temporary file is removed.
ReplaceRaises(c) ==
  /\ Goto(c, "replace", "release")
  /\ temporaries' = temporaries \ {c}
  /\ UNCHANGED <<artifacts, reservations, candidate, returned, endedBefore>>

\* Mutant: the reservation is removed after a success only.
ReleaseAfterSuccess(c) ==
  /\ Goto(c, "release", IF c \in returned THEN "logged" ELSE "failed")
  /\ reservations' = IF c \in returned THEN reservations \ {candidate[c]} ELSE reservations
  /\ UNCHANGED <<artifacts, temporaries, candidate, returned, endedBefore>>

\* finally: the reservation is removed whatever happened.
Release(c) ==
  /\ Goto(c, "release", IF c \in returned THEN "logged" ELSE "failed")
  /\ reservations' = reservations \ {candidate[c]}
  /\ UNCHANGED <<artifacts, temporaries, candidate, returned, endedBefore>>

\* unlink raises something else than FileNotFoundError: the call fails, even
\* if its artifact is in place, and the reservation stays.
ReleaseRaises(c) ==
  /\ Goto(c, "release", "unreleased")
  /\ UNCHANGED <<directory, candidate, returned, endedBefore>>

\* The process dies: no handler runs, every file stays as it is.
Crash(c) ==
  /\ pc[c] \in Running
  /\ pc' = [pc EXCEPT ![c] = "crashed"]
  /\ UNCHANGED <<directory, candidate, returned, endedBefore>>

\* What a call does when every operation succeeds.
Step(c) ==
  \/ Scan(c) \/ Open(c) \/ OpenExists(c) \/ Build(c)
  \/ WriteTemporary(c) \/ Replace(c) \/ Release(c)

Fault(c) ==
  \/ ReserveRaises(c) \/ BuildRaises(c) \/ WriteRaises(c)
  \/ ReplaceRaises(c) \/ ReleaseRaises(c)
  \/ Crash(c)

AllEnded ==
  /\ \A c \in Calls : pc[c] \in Ended
  /\ UNCHANGED vars

Next ==
  \/ \E c \in Calls : Begin(c) \/ Step(c) \/ Fault(c)
  \/ AllEnded

Spec == Init /\ [][Next]_vars

\* A call that has begun is scheduled again and again by its process.
FairSpec == Spec /\ \A c \in Calls : WF_vars(Step(c))

-------------------------------------------------------------------------------
(* Properties *)

\* O_CREAT|O_EXCL at work: two calls that hold a reservation hold different
\* numbers, and the file of a live holder is not removed by anybody else.
ExclusiveReservations ==
  \A c \in Calls : Holding(c) =>
    /\ candidate[c] \in reservations
    /\ \A d \in Calls \ {c} : Holding(d) => candidate[d] # candidate[c]

\* No two artifacts carry the same run number
\* (src/tests/test_artifact_logger.py:138 asserts it of concurrent runs).
UniqueRunNumbers ==
  \A a, b \in artifacts : a.number = b.number => a = b

\* What holds even when calls overlap: a run gets a larger number than every
\* run that had ended when it began, those of earlier processes included.
\* Runs that do not overlap never share a number.
LaterRunsLargerNumbers ==
  \A c \in returned :
    /\ \A d \in endedBefore[c] : candidate[d] < candidate[c]
    /\ \A n \in PastNumbers : n < candidate[c]

\* A number is skipped for good only because a holder died or could not
\* remove its file; failed calls give theirs back.
LeftoversAreExplained ==
  \A n \in reservations : \E c \in Calls :
    candidate[c] = n /\ (Holding(c) \/ pc[c] \in {"unreleased", "crashed"})

\* Every call that begins ends: the search for a free number stops.
EveryCallEnds ==
  \A c \in Calls : pc[c] = "scan" ~> pc[c] \in Ended
===============================================================================
