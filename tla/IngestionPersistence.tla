-------------------------- MODULE IngestionPersistence -------------------------
(***************************************************************************)
(* src/src/services/ingestion_persistence.py and cv_store.py, with the     *)
(* runs that use them: src/src/harness/runner.py (the command line) and    *)
(* src/src/api/routes.py (the web API).                                    *)
(*                                                                         *)
(* An ingestion saves its redacted CV in the store, under the CV's id, and *)
(* then logs an ingestion artifact.  A matching run logs a run artifact    *)
(* that points at the ingestion it used: its own (extraction), the stored  *)
(* one (matching on the command line) or the one pinned at build time      *)
(* (/api/match).  Runs of several processes interleave between two file or *)
(* bucket operations, each can fail, and each process can die.             *)
(***************************************************************************)
EXTENDS Naturals, Sequences

CONSTANTS
  Runs,             (* runs of the command line and requests of the API; a *)
                    (* run stands for its trace_id too *)
  CVs,              (* cv_ids *)
  PastIngestion,    (* the ingestion the committed serving CV came from *)
  Nobody,           (* no ingestion *)
  BucketConfigured  (* whether ARTIFACTS_BUCKET names a bucket *)

Kind == [entry : {"cli", "api"}, pipeline : {"ingestion", "extraction", "matching"}]

ASSUME PastIngestionAssumption == PastIngestion \notin Runs
ASSUME NobodyAssumption == Nobody \notin Runs \cup {PastIngestion}
ASSUME BucketConfiguredAssumption == BucketConfigured \in BOOLEAN

VARIABLES
  store,         (* redacted_cvs: the ingestion that wrote each CV's file *)
  serving,       (* serving/redacted_cv.json: the ingestion it came from *)
  cached,        (* load_serving_cv's cache in the API process *)
  ingestionLog,  (* the ingestion artifacts of each backend *)
  runLog,        (* the run artifacts of each backend *)
  kind,          (* the entry point and pipeline of each run *)
  cv,            (* the CV a run ingests or asks for *)
  pc,            (* where each run is *)
  source,        (* the ingestion whose redacted CV the run matches *)
  saves,         (* history: the ingestions in the order they saved *)
  savedBefore,   (* history: how many had saved when the run began *)
  served         (* history: what this API process has matched against *)

logs == <<ingestionLog, runLog>>
input == <<kind, cv>>
vars == <<store, serving, cached, ingestionLog, runLog, kind, cv, pc, source,
          saves, savedBefore, served>>

-------------------------------------------------------------------------------

Backends == {"local", "bucket"}

Running == {"redact", "save", "log", "load", "match", "logrun"}
Ended   == {"done", "failed", "crashed"}

Ingestion == Runs \cup {PastIngestion}

RunArtifact == [run : Runs, redactedCVTraceId : Ingestion]

TypeOK ==
  /\ store \in [CVs -> Runs \cup {Nobody}]
  /\ serving \in Ingestion
  /\ cached \in Ingestion \cup {Nobody}
  /\ ingestionLog \in [Backends -> SUBSET Ingestion]
  /\ runLog \in [Backends -> SUBSET RunArtifact]
  /\ kind \in [Runs -> Kind]
  /\ cv \in [Runs -> CVs]
  /\ pc \in [Runs -> {"idle"} \cup Running \cup Ended]
  /\ source \in [Runs -> Ingestion \cup {Nobody}]
  /\ saves \in Seq(Runs)
  /\ savedBefore \in [Runs -> Nat]
  /\ served \in SUBSET Ingestion

\* A fresh checkout: no CV is stored, and the serving CV is committed.  The
\* machine it was ingested on logged that to its own directory.
Init ==
  /\ store = [i \in CVs |-> Nobody]
  /\ serving = PastIngestion
  /\ cached = Nobody
  /\ ingestionLog = [b \in Backends |-> IF b = "local" THEN {PastIngestion} ELSE {}]
  /\ runLog = [b \in Backends |-> {}]
  /\ kind \in [Runs -> Kind]
  /\ cv \in [Runs -> CVs]
  /\ pc = [r \in Runs |-> "idle"]
  /\ source = [r \in Runs |-> Nobody]
  /\ saves = <<>>
  /\ savedBefore = [r \in Runs |-> 0]
  /\ served = {}

Goto(r, from, to) ==
  /\ pc[r] = from
  /\ pc' = [pc EXCEPT ![r] = to]

\* The environment's choice: what build_artifact_logger returns.
EnvironmentBackend == IF BucketConfigured THEN "bucket" ELSE "local"

\* Where a run's own artifact goes: the command line builds an ArtifactLogger
\* itself, the API asks build_artifact_logger.
RunBackend(r) == IF kind[r].entry = "cli" THEN "local" ELSE EnvironmentBackend

\* A handler's body blocks the API's event loop until it returns.
EventLoopFree(r) ==
  kind[r].entry = "api" =>
    \A q \in Runs : kind[q].entry = "api" => pc[q] \notin Running

-------------------------------------------------------------------------------
(* Ingesting *)

\* The task is read, or the request's uploads are.
Begin(r) ==
  /\ EventLoopFree(r)
  /\ Goto(r, "idle", IF kind[r].pipeline = "matching" THEN "load" ELSE "redact")
  /\ savedBefore' = [savedBefore EXCEPT ![r] = Len(saves)]
  /\ UNCHANGED <<store, serving, cached, logs, input, source, saves, served>>

\* IngestionPipeline.run: the redacted CV carries the run's trace id.
Redact(r) ==
  /\ Goto(r, "redact", "save")
  /\ source' = [source EXCEPT ![r] = r]
  /\ UNCHANGED <<store, serving, cached, logs, input, saves, savedBefore, served>>

\* Mutant: an error of the store is swallowed.
SaveOrSkip(r) ==
  /\ Goto(r, "save", "log")
  /\ UNCHANGED <<store, saves, serving, cached, logs, input, source, savedBefore, served>>

\* Mutant: a CV that is stored already is not written again.
SaveOnce(r) ==
  /\ Goto(r, "save", "log")
  /\ store' = [store EXCEPT ![cv[r]] = IF @ = Nobody THEN r ELSE @]
  /\ saves' = Append(saves, r)
  /\ UNCHANGED <<serving, cached, logs, input, source, savedBefore, served>>

\* CVIngestionStore.save: the CV's file is replaced whole, whoever wrote it.
Save(r) ==
  /\ Goto(r, "save", "log")
  /\ store' = [store EXCEPT ![cv[r]] = r]
  /\ saves' = Append(saves, r)
  /\ UNCHANGED <<serving, cached, logs, input, source, savedBefore, served>>

AfterIngestion(r) == IF kind[r].pipeline = "extraction" THEN "match" ELSE "done"

LogIngestionArtifact(r) ==
  ingestionLog' = [ingestionLog EXCEPT ![EnvironmentBackend] = @ \cup {r}]

\* Mutant: an error of the artifact logger is swallowed.
LogIngestionOrSkip(r) ==
  /\ Goto(r, "log", AfterIngestion(r))
  /\ UNCHANGED <<store, serving, cached, logs, input, source, saves, savedBefore, served>>

\* log_ingestion_run, always through build_artifact_logger.
LogIngestion(r) ==
  /\ Goto(r, "log", AfterIngestion(r))
  /\ LogIngestionArtifact(r)
  /\ UNCHANGED <<store, serving, cached, runLog, input, source, saves, savedBefore, served>>

\* It raises although the artifact is stored (a lost response, a reservation
\* that cannot be removed).
LogIngestionRaisesAfterWrite(r) ==
  /\ Goto(r, "log", "failed")
  /\ LogIngestionArtifact(r)
  /\ UNCHANGED <<store, serving, cached, runLog, input, source, saves, savedBefore, served>>

-------------------------------------------------------------------------------
(* Matching *)

\* Mutant: a cv_id that nobody ingested is not refused.
LoadAnything(r) ==
  /\ kind[r].entry = "cli"
  /\ Goto(r, "load", "match")
  /\ source' = [source EXCEPT ![r] = store[cv[r]]]
  /\ UNCHANGED <<store, serving, cached, logs, input, saves, savedBefore, served>>

\* CVIngestionStore.load of the task's redacted_cv_id.
LoadStored(r) ==
  /\ kind[r].entry = "cli"
  /\ store[cv[r]] # Nobody
  /\ Goto(r, "load", "match")
  /\ source' = [source EXCEPT ![r] = store[cv[r]]]
  /\ UNCHANGED <<store, serving, cached, logs, input, saves, savedBefore, served>>

\* Mutant: the file is read for every request.
ServingFile == serving

\* What load_serving_cv returns: its cache, or the file at the first call.
ServingCV == IF cached # Nobody THEN cached ELSE serving

\* /api/match takes the deployment's CV and no cv_id.
LoadServing(r) ==
  /\ kind[r].entry = "api"
  /\ Goto(r, "load", "match")
  /\ cached' = ServingCV
  /\ source' = [source EXCEPT ![r] = ServingCV]
  /\ served' = served \cup {ServingCV}
  /\ UNCHANGED <<store, serving, logs, input, saves, savedBefore>>

\* The pipeline's steps on the redacted CV, and the evaluation of the result.
Match(r) ==
  /\ Goto(r, "match", "logrun")
  /\ UNCHANGED <<store, serving, cached, logs, input, source, saves, savedBefore, served>>

LogRunArtifact(r) ==
  runLog' = [runLog EXCEPT ![RunBackend(r)] =
               @ \cup {[run |-> r, redactedCVTraceId |-> source[r]]}]

LogRun(r) ==
  /\ Goto(r, "logrun", "done")
  /\ LogRunArtifact(r)
  /\ UNCHANGED <<store, serving, cached, ingestionLog, input, source, saves, savedBefore, served>>

LogRunRaisesAfterWrite(r) ==
  /\ Goto(r, "logrun", "failed")
  /\ LogRunArtifact(r)
  /\ UNCHANGED <<store, serving, cached, ingestionLog, input, source, saves, savedBefore, served>>

-------------------------------------------------------------------------------
(* What can go wrong, and what operators do *)

\* Any step raises and leaves no trace: no detector model, a full disk, an
\* unreachable bucket, no such cv_id, no serving CV, every model down.
Raise(r) ==
  /\ pc[r] \in Running
  /\ pc' = [pc EXCEPT ![r] = "failed"]
  /\ UNCHANGED <<store, serving, cached, logs, input, source, saves, savedBefore, served>>

\* A command-line run is killed.
Crash(r) ==
  /\ kind[r].entry = "cli"
  /\ pc[r] \in Running
  /\ pc' = [pc EXCEPT ![r] = "crashed"]
  /\ UNCHANGED <<store, serving, cached, logs, input, source, saves, savedBefore, served>>

\* The API process is restarted or redeployed: its requests die with it, and
\* so does its cache.
Restart ==
  /\ cached # Nobody \/ \E r \in Runs : kind[r].entry = "api" /\ pc[r] \in Running
  /\ pc' = [r \in Runs |-> IF kind[r].entry = "api" /\ pc[r] \in Running
                           THEN "crashed" ELSE pc[r]]
  /\ cached' = Nobody
  /\ served' = {}
  /\ UNCHANGED <<store, serving, logs, input, source, saves, savedBefore>>

\* scripts/build_serving_cv.py publishes a stored CV that passed its leak check.
BuildServing(i) ==
  /\ store[i] # Nobody
  /\ serving' = store[i]
  /\ UNCHANGED <<store, cached, logs, input, pc, source, saves, savedBefore, served>>

Step(r) ==
  \/ Begin(r) \/ Redact(r) \/ Save(r) \/ LogIngestion(r)
  \/ LoadStored(r) \/ LoadServing(r) \/ Match(r) \/ LogRun(r)

Fault(r) ==
  \/ LogIngestionRaisesAfterWrite(r) \/ LogRunRaisesAfterWrite(r)
  \/ Raise(r) \/ Crash(r)

AllEnded ==
  /\ \A r \in Runs : pc[r] \in Ended
  /\ UNCHANGED vars

Next ==
  \/ AllEnded
  \/ \E r \in Runs : Step(r) \/ Fault(r)
  \/ Restart
  \/ \E i \in CVs : BuildServing(i)

Spec == Init /\ [][Next]_vars

-------------------------------------------------------------------------------
(* Properties *)

Saved == {saves[i] : i \in DOMAIN saves}

\* An ingestion artifact is never logged for a redacted CV that was not
\* stored: whatever fails, the artifact is the later of the two.
LoggedIngestionsAreStored ==
  \A b \in Backends : ingestionLog[b] \ {PastIngestion} \subseteq Saved

\* src/src/harness/runner.py:129: an extraction's redacted_cv_trace_id "always
\* resolves to a real, persisted IngestionArtifact", of some backend.
ExtractionsResolve ==
  \A b \in Backends : \A a \in runLog[b] :
    kind[a.run].pipeline = "extraction" =>
      \E d \in Backends : a.redactedCVTraceId \in ingestionLog[d]

\* A matching task never uses a redaction older than the last one stored for
\* its CV when the task began: a fresher redaction replaces the old one.
MatchingUsesFreshRedaction ==
  \A r \in Runs :
    kind[r] = [entry |-> "cli", pipeline |-> "matching"] /\ source[r] # Nobody =>
      \A i, j \in DOMAIN saves :
        saves[i] = source[r] /\ j <= savedBefore[r] /\ cv[saves[j]] = cv[r] => j <= i

\* One API process matches every listing against one CV, even when the file
\* is rebuilt under it.
ServingCVIsPinned == \A a, b \in served : a = b

\* src/src/services/ingestion_persistence.py:4: redacted_cv_trace_id "resolves
\* to a real, persisted RedactedCV and a real logged IngestionArtifact".
EveryRunResolves ==
  \A b \in Backends : \A a \in runLog[b] :
    \E d \in Backends : a.redactedCVTraceId \in ingestionLog[d]
===============================================================================
