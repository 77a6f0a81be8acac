--------------------------------- MODULE WebApi ---------------------------------
(***************************************************************************)
(* src/src/api: what one process of the web API does with the requests it  *)
(* gets, from the check of the bearer token to the answer, and the         *)
(* scale-to-zero model backend (src/modal_app/inference.py) it wakes.      *)
(*                                                                         *)
(* The handlers are coroutines of one event loop, and hold it from one     *)
(* await to the next: only reading an upload from the disk lets another    *)
(* handler run, and a pipeline runs on the loop to its end.  The token is  *)
(* checked, such an upload read, and the backend pinged, in threads of a   *)
(* pool.                                                                   *)
(***************************************************************************)
EXTENDS ModelRegistry, FiniteSets

CONSTANTS
  Requests,     (* the requests that may arrive *)
  Kinds,        (* what they may be: [route, credentials, weights, files] *)
  Deployments,  (* what the process may be started with: [key, upload, serving,
                   env, invalid, unreadable] *)
  Threads       (* size of the thread pool *)

Criteria == INSTANCE Evaluation

\* What an upload may turn out to be; "missing" is a file that is not there.
Uploads == {"missing", "refused", "text", "pdf", "unreadable pdf"}

ASSUME ThreadsAssumption == Threads \in Nat \ {0}
ASSUME NullAssumption == Null \notin Requests \cup Kinds \cup Nat
ASSUME KindsAssumption ==
  \A kind \in Kinds :
    /\ kind.route \in {"warm", "match", "compare", "ingest"}
    /\ kind.files \in Seq(Uploads)
    /\ kind.files = <<>> <=> kind.route = "warm"
    /\ kind.route \in {"warm", "ingest"} => kind.weights

VARIABLES
  deployment,   (* whether a key is set, uploads are mounted and the serving
                   CV is there; the environment; which parts of the
                   configuration are invalid, and which of the default
                   criteria cannot be read *)
  request,      (* what a request is, or Null before it arrives *)
  pc,           (* where its handling is *)
  files,        (* the uploads it has not read yet *)
  status,       (* the HTTP status it was answered with, 0 if it is lost, or Null *)
  loop,         (* the request whose handler holds the event loop, or Null *)
  queue,        (* jobs that wait for a thread, in order *)
  threads,      (* jobs that have one *)
  ping,         (* where a request's ping of the backend is *)
  temporaries,  (* requests whose temporary file is on the disk *)
  backend,      (* the model's container *)
  history       (* for the properties *)

pool == <<queue, threads>>
handling == <<request, pc, files, status, loop>>
vars == <<deployment, handling, pool, ping, temporaries, backend, history>>

Init ==
  /\ deployment \in Deployments
  /\ request = [r \in Requests |-> Null]
  /\ pc = [r \in Requests |-> "none"]
  /\ files = [r \in Requests |-> <<>>]
  /\ status = [r \in Requests |-> Null]
  /\ loop = Null
  /\ queue = <<>>
  /\ threads = {}
  /\ ping = [r \in Requests |-> "none"]
  /\ temporaries = {}
  /\ backend = "down"
  /\ history = [reached |-> {}, leftBehind |-> {}, setBack |-> {}, overlong |-> {},
                crashed |-> FALSE]

\* The requests that this happened to: the model was reached, a temporary file
\* left behind, the clock set back during the run, or the CV found too long.
Note(what, r) == history' = [history EXCEPT ![what] = @ \cup {r}]

-------------------------------------------------------------------------------
(* The event loop *)

\* The handler of r may take a step: the loop is free, or is its own.
MayStep(r, at) == pc[r] = at /\ loop \in {Null, r}

\* It goes on to another place, keeping the loop.
Continue(r, to) ==
  /\ pc' = [pc EXCEPT ![r] = to]
  /\ loop' = r
  /\ UNCHANGED <<request, status>>

\* It waits there, with the loop free for others.
Await(r, to) ==
  /\ pc' = [pc EXCEPT ![r] = to]
  /\ loop' = Null
  /\ UNCHANGED <<request, status>>

Answer(r, code) ==
  /\ pc' = [pc EXCEPT ![r] = "answered"]
  /\ status' = [status EXCEPT ![r] = code]
  /\ loop' = Null
  /\ UNCHANGED request

Submit(job) == queue' = Append(queue, job) /\ UNCHANGED threads

\* The threads take jobs in the order they were submitted.
StartJob ==
  /\ queue # <<>>
  /\ Cardinality(threads) < Threads
  /\ threads' = threads \cup {Head(queue)}
  /\ queue' = Tail(queue)
  /\ UNCHANGED <<deployment, handling, ping, temporaries, backend, history>>

EndJob(job) == job \in threads /\ threads' = threads \ {job} /\ UNCHANGED queue

-------------------------------------------------------------------------------
(* Routing and authentication *)

\* The routes that take a CV are there only if ALLOW_CV_UPLOAD says so.
Mounted == {"warm", "match"} \cup (IF deployment.upload THEN {"compare", "ingest"} ELSE {})

Arrive(r, kind) ==
  /\ request[r] = Null
  /\ loop = Null
  /\ request' = [request EXCEPT ![r] = kind]
  /\ files' = [files EXCEPT ![r] = kind.files]
  /\ IF kind.route \in Mounted
     THEN /\ pc' = [pc EXCEPT ![r] = "auth"]
          /\ Submit(<<"auth", r>>)
          /\ UNCHANGED status
     ELSE /\ pc' = [pc EXCEPT ![r] = "answered"]
          /\ status' = [status EXCEPT ![r] = 404]
          /\ UNCHANGED pool
  /\ UNCHANGED <<deployment, loop, ping, temporaries, backend, history>>

\* Mutant: the warm-up needs no key.
DemandsKeyToMatch(r) == deployment.key /\ request[r].route # "warm"

\* require_api_key is a dependency of both routers.
DemandsKey(r) == deployment.key

\* The status require_api_key refuses the request with, or Null.
Refusal(r) ==
  IF ~DemandsKey(r) \/ request[r].credentials = "right" THEN Null
  ELSE IF request[r].credentials = "none" THEN 401 ELSE 403

Authenticate(r) ==
  /\ pc[r] = "auth"
  /\ EndJob(<<"auth", r>>)
  /\ pc' = [pc EXCEPT ![r] = "checked"]
  /\ UNCHANGED <<deployment, request, files, status, loop, ping, temporaries, backend, history>>

\* Not authorised, or (422) without a file the route requires.
Refuse(r) ==
  /\ MayStep(r, "checked")
  /\ \/ Refusal(r) # Null /\ Answer(r, Refusal(r))
     \/ Refusal(r) = Null /\ "missing" \in {files[r][i] : i \in DOMAIN files[r]} /\ Answer(r, 422)
  /\ UNCHANGED <<deployment, files, pool, ping, temporaries, backend, history>>

Passes(r) == Refusal(r) = Null /\ "missing" \notin {files[r][i] : i \in DOMAIN files[r]}

-------------------------------------------------------------------------------
(* /api/warm *)

\* warm_model: the background task is submitted after the answer.
Warm(r) ==
  /\ MayStep(r, "checked")
  /\ Passes(r)
  /\ request[r].route = "warm"
  /\ Answer(r, 202)
  /\ Submit(<<"ping", r>>)
  /\ ping' = [ping EXCEPT ![r] = "submitted"]
  /\ UNCHANGED <<deployment, files, temporaries, backend, history>>

\* _wake_model_backend sends its request.
SendPing(r) ==
  /\ <<"ping", r>> \in threads
  /\ ping[r] = "submitted"
  /\ Endpoint(deployment.env) # Null
  /\ ping' = [ping EXCEPT ![r] = "sent"]
  /\ Note("reached", r)
  /\ UNCHANGED <<deployment, handling, pool, temporaries, backend>>

\* There is no endpoint to reach.
SkipPing(r) ==
  /\ ping[r] = "submitted"
  /\ Endpoint(deployment.env) = Null
  /\ EndJob(<<"ping", r>>)
  /\ ping' = [ping EXCEPT ![r] = "ended"]
  /\ UNCHANGED <<deployment, handling, temporaries, backend, history>>

PingAnswered(r) ==
  /\ ping[r] = "sent"
  /\ backend = "up"
  /\ EndJob(<<"ping", r>>)
  /\ ping' = [ping EXCEPT ![r] = "ended"]
  /\ UNCHANGED <<deployment, handling, temporaries, backend, history>>

\* Mutant: urlopen without a timeout.
PingKeepsWaiting(r) == FALSE /\ UNCHANGED vars

\* An error, or WARM_TIMEOUT_SECONDS went by.
PingGivesUp(r) ==
  /\ ping[r] = "sent"
  /\ EndJob(<<"ping", r>>)
  /\ ping' = [ping EXCEPT ![r] = "ended"]
  /\ UNCHANGED <<deployment, handling, temporaries, backend, history>>

-------------------------------------------------------------------------------
(* /api/match, /api/compare and /api/ingest: the documents *)

UsesModel(r) == request[r].route \in {"match", "compare"}
TakesCV(r) == request[r].route \in {"compare", "ingest"}

\* upload.read(): at once from memory, or in a thread if the upload was
\* spooled to the disk.
ReadNext(r) ==
  \/ Continue(r, "read") /\ UNCHANGED pool
  \/ Await(r, "reading") /\ Submit(<<"read", r>>)

\* _scoring_engine comes first, with the visitor's weights or else those of
\* configs/scoring.yaml; ingesting takes none.
Begin(r) ==
  /\ MayStep(r, "checked")
  /\ Passes(r)
  /\ request[r].route # "warm"
  /\ IF UsesModel(r) /\ ("scoring" \in deployment.invalid \/ ~request[r].weights)
     THEN Answer(r, 400) /\ UNCHANGED pool
     ELSE ReadNext(r)
  /\ UNCHANGED <<deployment, files, ping, temporaries, backend, history>>

FetchUpload(r) ==
  /\ pc[r] = "reading"
  /\ EndJob(<<"read", r>>)
  /\ pc' = [pc EXCEPT ![r] = "read"]
  /\ UNCHANGED <<deployment, request, files, status, loop, ping, temporaries, backend, history>>

\* The handler goes on after a document: to the next upload, or to the run.
NextDocument(r) ==
  /\ files' = [files EXCEPT ![r] = Tail(@)]
  /\ IF Len(files[r]) > 1 THEN ReadNext(r) ELSE Continue(r, "prepare") /\ UNCHANGED pool

\* _load_document: a ValueError for an upload that is empty, too long, of
\* another type, or a text without words; a PDF goes through a file.
Read(r) ==
  /\ MayStep(r, "read")
  /\ \/ Head(files[r]) = "text" /\ NextDocument(r)
     \/ /\ \/ Head(files[r]) = "refused" /\ Answer(r, 400)
           \/ Head(files[r]) \in {"pdf", "unreadable pdf"} /\ Continue(r, "write")
        /\ UNCHANGED <<files, pool>>
  /\ UNCHANGED <<deployment, ping, temporaries, backend, history>>

\* _write_temporary_upload
Write(r) ==
  /\ MayStep(r, "write")
  /\ temporaries' = temporaries \cup {r}
  /\ Continue(r, "extract")
  /\ UNCHANGED <<deployment, files, pool, ping, backend, history>>

\* The disk is full: a file made with delete=False stays, and its name is
\* known to nobody.
WriteFails(r) ==
  /\ MayStep(r, "write")
  /\ \/ temporaries' = temporaries \cup {r} /\ Note("leftBehind", r)
     \/ UNCHANGED <<temporaries, history>>
  /\ Answer(r, 500)
  /\ UNCHANGED <<deployment, files, pool, ping, backend>>

\* Mutant: a file is removed only when its text was extracted.
WithoutExtracted(r) == IF Head(files[r]) = "pdf" THEN temporaries \ {r} ELSE temporaries

\* unlink, in the finally clause.
WithoutFile(r) == temporaries \ {r}

\* from_pdf; PDFTextExtractionError for a PDF without a text.
Extract(r) ==
  /\ MayStep(r, "extract")
  /\ IF Head(files[r]) = "pdf" THEN NextDocument(r)
     ELSE Answer(r, 400) /\ UNCHANGED <<files, pool>>
  /\ temporaries' = WithoutFile(r)
  /\ UNCHANGED <<deployment, ping, backend, history>>

\* An OSError in the finally clause hides what from_pdf raised or returned.
UnlinkFails(r) ==
  /\ MayStep(r, "extract")
  /\ Answer(r, 500)
  /\ Note("leftBehind", r)
  /\ UNCHANGED <<deployment, files, pool, ping, temporaries, backend>>

-------------------------------------------------------------------------------
(* The run and its artifact *)

\* Mutant: no serving CV is the visitor's fault.
BlamesVisitor == 400

\* ServingCVUnavailableError has a handler of its own.
NoServingCV == 503

\* With what the pipeline of the route cannot be built, or "": the clients come
\* first, then the detectors of configs/pii_policy.yaml.
BuildError(r) ==
  IF UsesModel(r) /\ RoleError(deployment.env) # "" THEN RoleError(deployment.env)
  ELSE IF TakesCV(r) /\ "detectors" \in deployment.invalid THEN "ValueError"
  ELSE IF TakesCV(r) /\ "detector name" \in deployment.invalid THEN "KeyError"
  ELSE ""

\* The serving CV is loaded before anything is built; any ValueError is a 400.
Prepare(r) ==
  /\ MayStep(r, "prepare")
  /\ IF request[r].route = "match" /\ ~deployment.serving THEN Answer(r, NoServingCV)
     ELSE IF BuildError(r) = "" THEN Continue(r, IF TakesCV(r) THEN "redact" ELSE "run")
     ELSE Answer(r, IF BuildError(r) = "ValueError" THEN 400 ELSE 500)
  /\ UNCHANGED <<deployment, files, pool, ping, temporaries, backend, history>>

Ingested == {"pii_spans", "execution_seconds", "trace"}
Matched == Ingested \cup {"scorecard", "metrics"}

\* _api_evaluation raises a ValidationError, which is a ValueError: for a
\* default that is no criterion (or no mapping), and for one whose value cannot
\* be read, unless the result lacks the attribute it is about.
RejectsDefaults(attributes) ==
  \E name \in deployment.unreadable :
    name \in Criteria!Criteria => Criteria!CriterionRequires[name] \in attributes

\* build_artifact_logger: a ValueError of the library for a malformed name.
RejectsBucket == "bucket" \in deployment.invalid

\* IngestionPipeline.run, its judgement and persist_ingestion: all of
\* /api/ingest, and what /api/compare does before it calls a model.
Redact(r) ==
  /\ MayStep(r, "redact")
  /\ IF RejectsDefaults(Ingested) \/ RejectsBucket THEN Answer(r, 400)
     ELSE IF UsesModel(r) THEN Continue(r, "run") ELSE Answer(r, 200)
  /\ UNCHANGED <<deployment, files, pool, ping, temporaries, backend, history>>

\* spaCy raises a ValueError for a text of more than a million characters.
RecogniserRefuses(r) ==
  /\ MayStep(r, "redact")
  /\ Answer(r, 400)
  /\ Note("overlong", r)
  /\ UNCHANGED <<deployment, files, pool, ping, temporaries, backend>>

\* The pipeline calls its models, on the loop.
Run(r) ==
  /\ MayStep(r, "run")
  /\ Continue(r, "running")
  /\ Note("reached", r)
  /\ UNCHANGED <<deployment, files, pool, ping, temporaries, backend>>

RunDone(r) ==
  /\ MayStep(r, "running")
  /\ Continue(r, "log")
  /\ UNCHANGED <<deployment, files, pool, ping, temporaries, backend, history>>

\* Steps are timed by the wall clock: one set back makes a duration negative,
\* which the trace refuses with a ValidationError.
ClockSetBack(r) ==
  /\ MayStep(r, "redact") \/ MayStep(r, "running")
  /\ Answer(r, 400)
  /\ Note("setBack", r)
  /\ UNCHANGED <<deployment, files, pool, ping, temporaries, backend>>

\* The models fail, or the store or the log does: no ValueErrors.
RunRaises(r) ==
  /\ MayStep(r, "redact") \/ MayStep(r, "running") \/ MayStep(r, "log")
  /\ Answer(r, 500)
  /\ UNCHANGED <<deployment, files, pool, ping, temporaries, backend, history>>

\* The result is judged and logged in the same try as everything before.
Log(r) ==
  /\ MayStep(r, "log")
  /\ Answer(r, IF RejectsDefaults(Matched) \/ RejectsBucket THEN 400 ELSE 200)
  /\ UNCHANGED <<deployment, files, pool, ping, temporaries, backend, history>>

\* The process is killed and started again: nobody answers its requests.
Crash ==
  /\ ~history.crashed
  /\ history' = [history EXCEPT !.crashed = TRUE, !.leftBehind = @ \cup temporaries]
  /\ pc' = [r \in Requests |-> IF request[r] = Null THEN "none" ELSE "answered"]
  /\ status' = [r \in Requests |-> IF request[r] # Null /\ status[r] = Null THEN 0 ELSE status[r]]
  /\ loop' = Null
  /\ queue' = <<>>
  /\ threads' = {}
  /\ ping' = [r \in Requests |-> IF ping[r] = "none" THEN "none" ELSE "ended"]
  /\ UNCHANGED <<deployment, request, files, temporaries, backend>>

-------------------------------------------------------------------------------
(* The container that serves the model *)

\* Requests that wait for the model.
InFlight ==
  {r \in Requests : ping[r] = "sent" \/ pc[r] = "running"}

BackendStarts == backend = "down" /\ InFlight # {} /\ backend' = "booting"
BackendServes == backend = "booting" /\ InFlight # {} /\ backend' = "up"

\* It is not kept booting or idling for nobody, and it may fail to boot.
BackendStops ==
  /\ backend = "booting" \/ (backend = "up" /\ InFlight = {})
  /\ backend' = "down"

BackendStep ==
  /\ BackendStarts \/ BackendServes \/ BackendStops
  /\ UNCHANGED <<deployment, handling, pool, ping, temporaries, history>>

-------------------------------------------------------------------------------

LoopStep(r) ==
  \/ Refuse(r) \/ Warm(r) \/ Begin(r)
  \/ Read(r) \/ Write(r) \/ WriteFails(r) \/ Extract(r) \/ UnlinkFails(r)
  \/ Prepare(r) \/ Redact(r) \/ RecogniserRefuses(r)
  \/ Run(r) \/ RunDone(r) \/ ClockSetBack(r) \/ RunRaises(r) \/ Log(r)

ThreadStep(r) ==
  \/ Authenticate(r) \/ FetchUpload(r)
  \/ SendPing(r) \/ SkipPing(r) \/ PingAnswered(r) \/ PingGivesUp(r)

AllAnswered ==
  /\ \A r \in Requests : pc[r] = "answered"
  /\ UNCHANGED vars

Next ==
  \/ \E r \in Requests : LoopStep(r) \/ ThreadStep(r) \/ \E kind \in Kinds : Arrive(r, kind)
  \/ StartJob
  \/ Crash
  \/ BackendStep
  \/ AllAnswered

Spec == Init /\ [][Next]_vars

\* The loop and the threads go on; what a run or a ping waits for ends with
\* the timeout of its client at the latest.  The backend promises nothing.
FairSpec ==
  /\ Spec
  /\ \A r \in Requests : WF_vars(LoopStep(r)) /\ WF_vars(ThreadStep(r))
  /\ WF_vars(StartJob)

-------------------------------------------------------------------------------
(* Properties *)

\* src/src/api/routes.py:238: no warm-up, and no request that holds the loop,
\* keeps another request from being answered: not even a backend that never
\* comes up, while every thread of the pool waits for it.
EveryRequestIsAnswered == \A r \in Requests : request[r] # Null ~> status[r] # Null

\* The uploads of a request, as far as it goes, are all documents.
GoodFiles(kind) == \A i \in DOMAIN kind.files : kind.files[i] \in {"text", "pdf"}

\* src/src/api/auth.py:3: only requests that may spend the model's budget, and
\* that were found good as far as that can be known before, ever reach the
\* backend; nothing else wakes it.
OnlyGoodRequestsReachTheModel ==
  /\ \A r \in history.reached :
       /\ deployment.key => request[r].credentials = "right"
       /\ request[r].weights /\ GoodFiles(request[r])
       /\ request[r].route = "match" => deployment.serving
       /\ request[r].route = "compare" => deployment.upload
  /\ backend # "down" => history.reached # {}

\* src/src/api/routes.py:380: a temporary upload is on the disk only while its
\* text is extracted, unless it could not be written or removed, or the process
\* was killed.
LeftoversAreExplained ==
  temporaries \subseteq history.leftBehind \cup {r \in Requests : loop = r /\ pc[r] = "extract"}

\* A visitor could not have sent anything better.
Blameless(r) == request[r].weights /\ GoodFiles(request[r])

\* What went wrong in one run and need not in the next.
Mishaps == history.setBack \cup history.overlong

\* The configuration fails every good request of r's route with a ValueError
\* before a model is called, or else after all model calls.
FailsBeforeModels(r) ==
  \/ UsesModel(r) /\ ("scoring" \in deployment.invalid \/ RoleError(deployment.env) = "ValueError")
  \/ TakesCV(r) /\ ("detectors" \in deployment.invalid \/ RejectsBucket \/ RejectsDefaults(Ingested))
FailsAfterModels(r) == UsesModel(r) /\ (RejectsBucket \/ RejectsDefaults(Matched))

\* src/src/api/routes.py:329: a good request is answered "bad request" only for
\* a clock set back, a CV too long for the recogniser, or a configuration that
\* answers no request of its route: one that fails it before any model is
\* called, or, if the model was reached, one that can only be found out then.
BlameIsExplained ==
  \A r \in Requests :
    /\ status[r] = 400 /\ Blameless(r) /\ r \notin Mishaps =>
         IF r \in history.reached THEN FailsAfterModels(r) /\ ~FailsBeforeModels(r)
         ELSE FailsBeforeModels(r)
    /\ status[r] = 200 => Blameless(r) /\ ~FailsBeforeModels(r) /\ ~FailsAfterModels(r)
===============================================================================
