--------------------------- MODULE GCSArtifactLogger ---------------------------
(***************************************************************************)
(* src/src/utils/gcs_artifact_logger.py: artifact logging to a bucket.     *)
(*                                                                         *)
(* Every logging call reserves a run number with a compare-and-swap on one *)
(* counter object (reload for its generation, download for its value,      *)
(* conditional upload of value + 1), builds the artifact and uploads it    *)
(* under a name that carries the number and the run's trace id.  Calls of  *)
(* any number of service instances interleave between two bucket           *)
(* operations; a bucket operation can fail, can be applied while its       *)
(* response is lost, and the instance can be recycled at any point.        *)
(***************************************************************************)
EXTENDS Naturals, FiniteSets

CONSTANTS
  Calls,               (* calls of log_run and log_ingestion_run, one per run *)
  PastRun,             (* stands for the runs logged before the behaviour *)
  MaxReserveAttempts,  (* MAX_RESERVE_ATTEMPTS *)
  InitialValues        (* values the counter may start from; 0: no counter *)

ASSUME PastRunAssumption == PastRun \notin Calls
ASSUME MaxReserveAttemptsAssumption == MaxReserveAttempts \in Nat \ {0}
ASSUME InitialValuesAssumption == InitialValues \subseteq Nat

VARIABLES
  counter,         (* the counter object: value, generation (0: absent) and *)
                   (* whether its bytes parse as an integer *)
  artifacts,       (* the artifact objects of the bucket *)
  pc,              (* where each call is *)
  attempt,         (* refused swaps of the call so far *)
  readValue,       (* value the call last read *)
  readGeneration,  (* generation the call last read *)
  runNumber,       (* the call's reserved number, 0 before *)
  lastRunNumber,   (* the number the call reported, 0 before *)
  loggedBefore,    (* history: the calls that had returned when the call began *)
  generationBefore (* history: the counter's generation when the call began *)

bucket == <<counter, artifacts>>
readState == <<readValue, readGeneration>>
history == <<loggedBefore, generationBefore>>
vars == <<counter, artifacts, pc, attempt, readValue, readGeneration,
          runNumber, lastRunNumber, loggedBefore, generationBefore>>

-------------------------------------------------------------------------------

\* Points between two bucket operations of a call, and its four ends but crash.
Running == {"reload", "download", "swap", "build", "upload"}
Failed  == {"contended", "corrupt", "raised", "unwritten"}
Ended   == {"logged", "crashed"} \cup Failed

Artifact == [number : Nat, run : Calls \cup {PastRun}]
Counter  == [value : Nat, generation : Nat, integer : BOOLEAN]

TypeOK ==
  /\ counter \in Counter
  /\ artifacts \in SUBSET Artifact
  /\ pc \in [Calls -> {"idle"} \cup Running \cup Ended]
  /\ attempt \in [Calls -> 0 .. MaxReserveAttempts]
  /\ readValue \in [Calls -> Nat]
  /\ readGeneration \in [Calls -> Nat]
  /\ runNumber \in [Calls -> Nat]
  /\ lastRunNumber \in [Calls -> Nat]
  /\ loggedBefore \in [Calls -> SUBSET Calls]
  /\ generationBefore \in [Calls -> Nat]

\* The bucket holds the artifacts of earlier runs, and a counter written by
\* them (or by hand, when its bytes are not an integer) unless it is fresh.
Init ==
  /\ \E v \in InitialValues :
       /\ counter \in [value : {v}, generation : {IF v = 0 THEN 0 ELSE 1},
                       integer : IF v = 0 THEN {TRUE} ELSE BOOLEAN]
       /\ artifacts = {[number |-> n, run |-> PastRun] : n \in 1 .. v}
  /\ pc = [c \in Calls |-> "idle"]
  /\ attempt = [c \in Calls |-> 0]
  /\ readValue = [c \in Calls |-> 0]
  /\ readGeneration = [c \in Calls |-> 0]
  /\ runNumber = [c \in Calls |-> 0]
  /\ lastRunNumber = [c \in Calls |-> 0]
  /\ loggedBefore = [c \in Calls |-> {}]
  /\ generationBefore = [c \in Calls |-> 0]

Goto(c, from, to) ==
  /\ pc[c] = from
  /\ pc' = [pc EXCEPT ![c] = to]

-------------------------------------------------------------------------------
(* Reserving a number *)

\* A run reaches log_run or log_ingestion_run.
Begin(c) ==
  /\ Goto(c, "idle", "reload")
  /\ loggedBefore' = [loggedBefore EXCEPT ![c] = {d \in Calls : pc[d] = "logged"}]
  /\ generationBefore' = [generationBefore EXCEPT ![c] = counter.generation]
  /\ UNCHANGED <<bucket, attempt, readState, runNumber, lastRunNumber>>

\* counter.reload() finds the object and learns its generation.
Reload(c) ==
  /\ counter.generation # 0
  /\ Goto(c, "reload", "download")
  /\ readGeneration' = [readGeneration EXCEPT ![c] = counter.generation]
  /\ UNCHANGED <<bucket, attempt, readValue, runNumber, lastRunNumber, history>>

\* counter.reload() raises NotFound: the first ever run reads (0, 0).
ReloadNotFound(c) ==
  /\ counter.generation = 0
  /\ Goto(c, "reload", "swap")
  /\ readValue' = [readValue EXCEPT ![c] = 0]
  /\ readGeneration' = [readGeneration EXCEPT ![c] = 0]
  /\ UNCHANGED <<bucket, attempt, runNumber, lastRunNumber, history>>

\* Mutant: bytes that are not an integer are counted from all the same.
DownloadAnything(c) ==
  /\ Goto(c, "download", "swap")
  /\ readValue' = [readValue EXCEPT ![c] = counter.value]
  /\ UNCHANGED <<bucket, attempt, readGeneration, runNumber, lastRunNumber, history>>

\* The download is a second request: it returns what the object holds now,
\* which may be newer than the generation the reload returned.
Download(c) ==
  /\ counter.integer
  /\ Goto(c, "download", "swap")
  /\ readValue' = [readValue EXCEPT ![c] = counter.value]
  /\ UNCHANGED <<bucket, attempt, readGeneration, runNumber, lastRunNumber, history>>

\* The bytes do not parse: ArtifactUploadError, the counter is left alone.
DownloadCorrupt(c) ==
  /\ ~counter.integer
  /\ Goto(c, "download", "corrupt")
  /\ UNCHANGED <<bucket, attempt, readState, runNumber, lastRunNumber, history>>

\* Mutant: the counter is written without if_generation_match.
Unconditional(c) == c \in Calls

\* The conditional upload's precondition: the object is still the version read.
GenerationMatches(c) == counter.generation = readGeneration[c]

\* Mutant: the value read is written back, without the increment.
StoreCurrent(c) ==
  counter' = [value |-> readValue[c],
              generation |-> counter.generation + 1,
              integer |-> TRUE]

\* The bucket's effect of an accepted conditional upload of value + 1.
StoreCandidate(c) ==
  counter' = [value |-> readValue[c] + 1,
              generation |-> counter.generation + 1,
              integer |-> TRUE]

\* The swap is accepted and acknowledged: the number is the caller's.
Swap(c) ==
  /\ GenerationMatches(c)
  /\ Goto(c, "swap", "build")
  /\ StoreCandidate(c)
  /\ runNumber' = [runNumber EXCEPT ![c] = readValue[c] + 1]
  /\ UNCHANGED <<artifacts, attempt, readState, lastRunNumber, history>>

\* Mutant: the bound on the attempts is off by one.
RetryOnceMore(c) ==
  /\ Goto(c, "swap", IF attempt[c] < MaxReserveAttempts THEN "reload" ELSE "contended")
  /\ attempt' = [attempt EXCEPT ![c] = @ + 1]

\* Mutant: the counter is read once, before the loop.
RetryWithoutReading(c) ==
  /\ Goto(c, "swap", IF attempt[c] + 1 < MaxReserveAttempts THEN "swap" ELSE "contended")
  /\ attempt' = [attempt EXCEPT ![c] = @ + 1]

\* Mutant: the same, in a loop without a bound.
RetryForever(c) ==
  /\ Goto(c, "swap", "swap")
  /\ UNCHANGED attempt

\* PreconditionFailed: sleep, then re-read unless this was the last attempt.
Retry(c) ==
  /\ Goto(c, "swap", IF attempt[c] + 1 < MaxReserveAttempts
                     THEN "reload" ELSE "contended")
  /\ attempt' = [attempt EXCEPT ![c] = @ + 1]

SwapRefused(c) ==
  /\ ~GenerationMatches(c)
  /\ Retry(c)
  /\ UNCHANGED <<bucket, readState, runNumber, lastRunNumber, history>>

\* The write is applied and its response lost.  The client library repeats a
\* conditional upload, so the call meets its own write as a 412.
SwapResponseLost(c) ==
  /\ GenerationMatches(c)
  /\ Retry(c)
  /\ StoreCandidate(c)
  /\ UNCHANGED <<artifacts, readState, runNumber, lastRunNumber, history>>

\* The same, and the library gives up: the error is not PreconditionFailed
\* and leaves _log as it is.
SwapRaisedAfterWrite(c) ==
  /\ GenerationMatches(c)
  /\ Goto(c, "swap", "raised")
  /\ StoreCandidate(c)
  /\ UNCHANGED <<artifacts, attempt, readState, runNumber, lastRunNumber, history>>

\* Any other exception of a counter request or of build(run_number), with no
\* effect on the bucket: reload and swap denied or unavailable, a download
\* whose generation was overwritten meanwhile, an artifact that fails its
\* schema.
Raise(c) ==
  /\ pc[c] \in {"reload", "download", "swap", "build"}
  /\ pc' = [pc EXCEPT ![c] = "raised"]
  /\ UNCHANGED <<bucket, attempt, readState, runNumber, lastRunNumber, history>>

-------------------------------------------------------------------------------
(* Building and uploading the artifact *)

\* Mutant: last_run_number is set as soon as the number is known.
BuildAndReport(c) ==
  /\ Goto(c, "build", "upload")
  /\ lastRunNumber' = [lastRunNumber EXCEPT ![c] = runNumber[c]]
  /\ UNCHANGED <<bucket, attempt, readState, runNumber, history>>

Build(c) ==
  /\ Goto(c, "build", "upload")
  /\ UNCHANGED <<bucket, attempt, readState, runNumber, lastRunNumber, history>>

\* The object's name: the number and the run's trace id.
ArtifactName(c) == [number |-> runNumber[c], run |-> c]

\* if_generation_match=0: only if no object has that name.
StoreArtifact(c) ==
  /\ ArtifactName(c) \notin artifacts
  /\ artifacts' = artifacts \cup {ArtifactName(c)}

Upload(c) ==
  /\ Goto(c, "upload", "logged")
  /\ StoreArtifact(c)
  /\ lastRunNumber' = [lastRunNumber EXCEPT ![c] = runNumber[c]]
  /\ UNCHANGED <<counter, attempt, readState, runNumber, history>>

\* Stored, but the response is lost: ArtifactUploadError all the same.
UploadResponseLost(c) ==
  /\ Goto(c, "upload", "unwritten")
  /\ StoreArtifact(c)
  /\ UNCHANGED <<counter, attempt, readState, runNumber, lastRunNumber, history>>

\* Not stored: ArtifactUploadError.
UploadFails(c) ==
  /\ Goto(c, "upload", "unwritten")
  /\ UNCHANGED <<bucket, attempt, readState, runNumber, lastRunNumber, history>>

\* The instance is recycled, or the process killed, between two operations.
Crash(c) ==
  /\ pc[c] \in Running
  /\ pc' = [pc EXCEPT ![c] = "crashed"]
  /\ UNCHANGED <<bucket, attempt, readState, runNumber, lastRunNumber, history>>

\* What a call does when every request is answered.
Step(c) ==
  \/ Reload(c) \/ ReloadNotFound(c)
  \/ Download(c) \/ DownloadCorrupt(c)
  \/ Swap(c) \/ SwapRefused(c)
  \/ Build(c) \/ Upload(c)

\* What can go wrong with it.
Fault(c) ==
  \/ SwapResponseLost(c) \/ SwapRaisedAfterWrite(c) \/ Raise(c)
  \/ UploadResponseLost(c) \/ UploadFails(c)
  \/ Crash(c)

\* Nothing is left to do once every call has ended.
AllEnded ==
  /\ \A c \in Calls : pc[c] \in Ended
  /\ UNCHANGED vars

Next ==
  \/ \E c \in Calls : Begin(c) \/ Step(c) \/ Fault(c)
  \/ AllEnded

Spec == Init /\ [][Next]_vars

\* A call that has begun runs on in its own request handler: no lock, no
\* queue, so it takes its next step whatever the other calls do.  No fault
\* ever has to happen.
FairSpec == Spec /\ \A c \in Calls : WF_vars(Step(c))

-------------------------------------------------------------------------------
(* Properties *)

\* No two artifacts carry the same run number, those of earlier runs
\* included, and no two calls hold the same reserved number: the counter's
\* swap is what makes RunArtifact.run_number name one run.
UniqueRunNumbers ==
  /\ \A a, b \in artifacts : a.number = b.number => a = b
  /\ \A c, d \in Calls : runNumber[c] = runNumber[d] /\ runNumber[c] # 0 => c = d

\* Numbers follow real time across instances: a run that begins after another
\* one was reported gets a larger number, whatever was in flight between.
LaterRunsLargerNumbers ==
  \A c \in Calls : runNumber[c] # 0 =>
    \A d \in loggedBefore[c] : runNumber[d] < runNumber[c]

\* A number the logger reports (last_run_number, which the API answers with)
\* names an artifact that is in the bucket.
ReportedIsStored ==
  \A c \in Calls : lastRunNumber[c] # 0 =>
    [number |-> lastRunNumber[c], run |-> c] \in artifacts

\* "Heavily contended" is never said of an idle counter: every attempt the
\* call lost was lost to a write accepted since the call began.
ContentionIsReal ==
  \A c \in Calls : pc[c] = "contended" =>
    counter.generation >= generationBefore[c] + MaxReserveAttempts

\* A counter that is not an integer is neither reset nor counted from: nobody
\* writes it, and nobody gets a number while it is there.
CorruptCounterKept ==
  [][~counter.integer => counter' = counter /\ runNumber' = runNumber]_vars

\* Every call that begins returns, raises or dies with its instance: losing
\* the race MaxReserveAttempts times ends the call too.
EveryCallEnds ==
  \A c \in Calls : pc[c] = "reload" ~> pc[c] \in Ended

\* The counter implements the abstract sequence of run numbers.
Abstract == INSTANCE RunNumbers WITH
  issued <- counter.value,
  number <- runNumber,
  published <- {c \in Calls : ArtifactName(c) \in artifacts}

RunNumbersSpec == Abstract!Spec
===============================================================================
