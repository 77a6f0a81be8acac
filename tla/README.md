# A verification model of CV_to_Job_Guestimator

TLA+ modules for the parts of this program whose correctness depends on
interleaving, failure or arithmetic at a boundary; TLC configurations that
check them on small instances; and proofs, checked by TLAPS, of what matters
most for every instance. Paths are relative to the parent of this directory
(`src/` is the repository, so the Python package is `src/src/`).

    tlc -workers 2 -config MCGCSArtifactLogger.cfg MCGCSArtifactLogger.tla
    tlapm GCSArtifactLogger_proofs.tla
    tlapm LocalArtifactLogger_proofs.tla
    tlapm MatchingPipeline_proofs.tla
    tlapm IngestionPersistence_proofs.tla
    tlapm Assessment_proofs.tla
    tlapm DocumentLemmas.tla
    tlapm CVLifecycle_proofs.tla
    tlapm WebApi_proofs.tla

## The system

The program compares a CV with a job listing. PII is removed from the CV
(*ingestion*), the listing's requirements are extracted, matched against the
redacted CV and scored (*matching*), and the outcome is judged against
thresholds and logged as a numbered JSON artifact. *Extraction* is ingestion
followed by matching. A command-line harness (`main.py`, `harness/`) and a web
API (`api/`) run the same pipelines.

| Component | State | Operations | Talks to |
| --- | --- | --- | --- |
| Artifact loggers, `utils/artifact_logger.py` and `utils/gcs_artifact_logger.py` | a directory with artifacts, reservation files and temporary files; or a bucket with artifacts and a counter object; `last_run_number` | reserve a run number, build the artifact, store it | file system; Cloud Storage |
| Ingestion persistence and CV store, `services/ingestion_persistence.py`, `cv_store.py` | `redacted_cvs/<cv_id>.json`; the committed serving CV and its per-process cache | save, load, load the serving CV; save-then-log | the loggers; called back by the extraction pipeline through `on_ingested` |
| Completion clients, `services/llm_client.py` | the model that served the last call, its attempt count | `complete`, with retries by Instructor and fallback models | model providers |
| Matching pipeline, `services/matching_pipeline.py`, `pipeline_tracing.py` | a shared list of trace spans; a worker thread when there is a second client | three model steps and scoring | two clients, agents, the scoring engine |
| Scoring engine, `services/scoring_engine.py` | its weights | scorecard of one comparison | called by the pipeline |
| Threshold evaluation, `harness/evaluator.py` | none | resolve criteria, evaluate a result | called by harness and API |
| Task harness, `harness/runner.py`, `main.py` | none | one run of a pipeline, end to end, from a task file | everything above |
| Web API, `api/` | the process: its event loop, its thread pool, its environment, temporary uploads | authenticate, warm up, match, compare, ingest | everything above; the model's container |
| Agents and skill matching, `services/agents.py`, `schemas/requirements.py` | none | divide requirements into matched and missing, complete role dates | the clients |
| Documents, `services/document_parser.py` | a `.txt` kept next to a PDF | extract, clean, load, redact spans | file system |
| PII detection, `services/presidio_detector.py`, `pii_base.py` | none | judge the analyzer's hits one after the other | Presidio, spaCy |
| Configuration and model registry, `config/loader.py`, `model/` | YAML files, environment variables | build the clients of a role, find its endpoint | providers |
| Scripts and deployment, `scripts/`, `modal_app/` | the serving CV; a container that scales to zero | publish a stored CV; serve the model | the CV store; the API |

What makes it hard:

* *Concurrency.* Instances of the service share a bucket counter that has no
  lock; processes share a directory; a worker thread appends to the main
  thread's trace and has its own exceptions and its own end.
* *Failure.* Every request to the bucket can be refused, can be lost, and can
  be applied while its response is lost; the client library repeats
  conditional uploads; instances are recycled at any point; a full disk or a
  killed process stops a call between two file operations.
* *Ordering.* Two requests read the counter; a CV is stored before its
  artifact is logged; what a client says of its last call is read after the
  run as if it were about the run; a hit that is cut back decides which later
  hits are seen at all; recorded values are replaced one after the other in
  one text.
* *Waiting.* Handlers hold the event loop for a whole pipeline run; pings of a
  container that boots for minutes sit in the threads every token check needs.
* *Boundaries.* Missing and reversed dates, no requirements, no target in
  years, weights of zero, a criterion set to null.

What makes each part correct is in the tables below, next to the run that
checks it; `PROJECT.json` lists the hazards, line by line, with the properties
that would catch them.

## The modules

| Module | Models | Its state and actions in the code |
| --- | --- | --- |
| `RunNumbers` | what an artifact log owes its readers | abstract: numbers are claimed in increasing order, may be burned, are never handed out twice |
| `GCSArtifactLogger` | `GCSArtifactLogger`, several instances on one bucket | one action per bucket request of `_reserve_run_number`, `_read_counter` and `_log`, with its outcomes: accepted, refused, failed, applied with the response lost; plus the death of the instance |
| `LocalArtifactLogger` | `ArtifactLogger`, several calls on one directory | one action per file operation of `_reserve_run_number`, `_log` and `_write_artifact`, with its failure; `Release` is the `finally` |
| `CompletionClient` | `InstructorClient`, `FallbackInstructorClient` | one action per attempt, per fallback, per end of `complete`; the `completion:kwargs` hook counts the attempts of every call open on the same client object |
| `MatchingPipeline` (extends it) | `MatchingPipeline.run`, and the run configuration that `api/routes.py` reports | both threads step by step; the trace list in the order it is appended to; `Join` is `future.result()`, `Shutdown` the `finally` |
| `IngestionPersistence` | `persist_ingestion`, `CVIngestionStore`, `load_serving_cv`, and the order of steps in every run of harness and API | one action per save, load and log; each can raise, before or after its effect; `Restart` empties the API's cache; `BuildServing` is `scripts/build_serving_cv.py` |
| `ScoringEngine` | `RelevanceScoringEngine` | operators: weights, durations, deduplication, scores |
| `RoleDates` (extends it) | `_backfill_overall_experience_dates` | operators: titles that overlap, dates that are completed |
| `Evaluation` | `resolve_criteria`, `ThresholdEvaluator` | operators: inherited criteria, judgement |
| `Assessment` (composes the three) | `_scoring_engine` and `_api_evaluation` of the API, the same steps of the harness | engine built or refused, score calculated or not, criteria resolved, result judged |
| `Documents` | `document_parser.py` | operators on texts: cleaning, readability, the choice of an extractor, headings, whole words, redaction |
| `PIIDetection` (extends it) | `PresidioPIIDetector.detect`, the guards of `pii_base.py`, `CompositePIIDetector` | operators: one per guard, in the order of the code; `Detect` folds them over the hits |
| `SkillMatching` (extends it) | `SkillMatcherAgent.run`, the validators of `requirements.py` | operators: aliases, literal search, the merge with the model's answer, what the validators accept |
| `CVLifecycle` (composes the three) | one CV: `_load_document`, `IngestionPipeline.run`, the store, skill matching, `build_serving_cv.py` | one action per load, detection, storing, match and build; the owner edits the PDF in between |
| `ModelRegistry` | `config/loader.py`, `model/` | operators: which client a role gets in an environment, or which exception |
| `WebApi` (extends it, and takes the criteria of `Evaluation`) | `api/`, with the container of `modal_app/inference.py` | one action per piece of a handler between two awaits or side effects, per thread step, per step of the container; what each part of a wrong configuration raises, and where in the handler |
| `MC*` | | instances for TLC |
| `*_proofs` | | theorems about seven of the modules |
| `DocumentLemmas` | | what the proofs about `CVLifecycle` need of the functions of `Documents`, for every text |

`Mutant` in a comment marks an operator that is no part of the specification:
it is the operator below it with a plausible bug, kept to show that the
property it is paired with in `PROJECT.json` would notice.

### Abstractions

* *Bucket.* The contents of an object are the run it belongs to. A reload is
  atomic, a download is atomic, the two are separate requests; the download
  returns what the object holds at that moment, or raises. The random sleep
  between attempts only delays and is left out.
* *Directory.* The scan of the directory for used numbers is one step, so the
  interleavings of `glob` with file creation are not split further. Creation
  with `O_EXCL`, rename and unlink are single steps.
* *Clients.* A prompt, an answer and the reason an answer fails validation are
  left out; any attempt may succeed, fail for good, or be followed by the
  next. Instructor's own retry loop is external.
* *Clocks.* `started_at` of a span is its rank among all starts; two spans
  never start at the same instant.
* *API.* The handlers run their pipelines on the event loop, so two API runs
  never interleave; command-line runs interleave with everything.
* *Ingestion.* In `IngestionPersistence`, detection and redaction are one step
  (they have a module of their own), and so is logging an artifact: it is
  done, or it raises before its effect, or after it.
* *Texts.* A text is a sequence of symbols: words, pieces of words, and marks.
  Case is folded, lengths count symbols, and patterns are sets of phrases.
  Two pieces side by side are one word, which is all that `\w` boundaries can
  see. Decoding of bytes is left out.
* *Recognisers.* What Presidio and spaCy report is any subset of what they
  could recognise in the text, in the order the code sorts it; whether a text
  parses as a date, and as what age, is given.
* *Titles.* The title of a role is its set of words; which roles a CV states
  explicitly, and with which dates, is given.
* *Lines.* Every line of a text ends in a newline or a return. `str.splitlines`
  (`document_parser.py:49`) also ends lines at form feeds, vertical tabs,
  `\x1c` to `\x1e`, `\x85`, `\u2028` and `\u2029`, after the rules for page
  numbers and hyphens ran: in a document with one of these, cleaning a cleaned
  text can also change it where it separates a page number.
* *API process.* The pool has the size `Threads` and takes jobs in order.
  Requests arrive at any time, reads of an upload end at any time (one that was
  spooled to disk is read in a thread of the pool), and the container boots,
  fails to boot and stops as it likes, but never wakes by itself. A visitor's
  weights are good or not: `Assessment` has their arithmetic. A deployment is
  its environment and the parts of its configuration that are wrong: the
  scoring weights, the PII detectors' settings, a detector's name, the bucket,
  and the default criteria that cannot be parsed (or are no criteria). A file
  of another shape altogether raises the same exceptions in the same places.
  Parsing of the form is left to the framework.
* *Scoring.* Weights are integer percentages, dates are months and the year
  has twelve equal ones (the code divides days by 365.25), and rounding is
  half up on exact fractions (Python rounds binary floats half to even). A
  date field holds a date, an unreadable text, a range (which as a single date
  may read as anything, or not at all), or nothing. Dates have no time zones: of
  two dates of which one has one, the subtraction (`scoring_engine.py:36`) would
  raise. Answers
  of the models are well formed (`matched` at most `total`), which the
  validators of `SkillMatching` see to.

## The runs

`pass` runs explore every reachable state of their instance; a `violation` run
shows where the code does something else than a text of the repository says.

| Run | Instance | What it shows |
| --- | --- | --- |
| `gcs` | 2 calls, 3 attempts, a fresh bucket or one earlier run, a counter that is or is not an integer | run numbers are unique (`UniqueRunNumbers`) and follow real time (`LaterRunsLargerNumbers`), reported numbers exist (`ReportedIsStored`), "heavily contended" is true (`ContentionIsReal`), a corrupt counter is left alone (`CorruptCounterKept`), every call ends (`EveryCallEnds`), and all of it implements `RunNumbers` (`RunNumbersSpec`) |
| `local` | 3 calls, one earlier run | reservations exclude (`ExclusiveReservations`), runs that do not overlap get increasing numbers (`LaterRunsLargerNumbers`), a number left behind has a reason (`LeftoversAreExplained`), every call ends |
| `local_overlap` | 2 calls | *finding 1* |
| `matching` | one run, with or without a worker; a primary and a fallback, 2 attempts | the trace is complete and in order of starts (`TraceIsComplete`), no step is charged another's attempts (`AttemptsAreTrue`), the engine reported served the evaluation client's last step, and a reported fallback happened (`ReportIsTrue`), a failed run does not wait for its worker (`FailureDoesNotWait`), every run ends unless the worker hangs (`RunEnds`) |
| `matching_fallback` | the same | *finding 2* |
| `ingestion` | 3 runs of any kind on one CV, a bucket configured | no artifact for a CV that was not stored (`LoggedIngestionsAreStored`), an extraction's trace id resolves (`ExtractionsResolve`), matching never uses an outdated redaction (`MatchingUsesFreshRedaction`), one API process serves one CV (`ServingCVIsPinned`) |
| `ingestion_dangling` | 2 runs | *finding 3* |
| `assessment` | 5 kinds of weights per entry point, up to 2 roles of 6 kinds, among them a range in either field, 3 skill counts, 3 targets, a CV that states no roles or two; criteria stated, inherited, null and misspelt | scores lie between the pillars that apply (`ScoreLiesBetweenPillars`), repetitions do not count, first or last, relevant or not, with or without completed dates (`RepeatedRolesCountOnce`), no role costs points (`RolesNeverCostPoints`), completing dates costs none either, unless a field already held a range (`BackfillCostsOnlyRanges`), what a task sets or switches off stands and no default makes a run fail (`DefaultsYieldToTheTask`) |
| `assessment_zero` | the same | *finding 4* |
| `cvlifecycle` | 4 PDFs, 2 ingestions, an edit in between, up to 3 hits of 11 kinds | a value is not lost to an earlier hit (`NothingIsSwallowed`); a word of a recorded value stays after redaction only where the CV has it outside the value, where another occurrence cuts every one around it, or as the name of a kind (`LeaksAreExplained`; a value with a bracket in it may take one from a token, and explains nothing); redaction hides no skill that shares no word with a recorded value, marks at the edge of a name apart (`SkillsInPlainSightAreMet`); an accepted answer never fails the run afterwards (`SkillResultsAreValid`); another ingestion gives the same id, unless cleaning put a word together (`ReingestionKeepsTheId`); what was read once is what is read again, even if keeping its text failed or broke off (`FirstReadingWins`) |
| `cvlifecycle_leak` | the same | *finding 5* |
| `api` | 2 requests of 10 kinds, 11 deployments (4 set up in different ways, 7 with uploads of which 6 have one part of their configuration wrong), 1 thread, 1 crash | only requests that were let in and found good reach the model (`OnlyGoodRequestsReachTheModel`), a temporary upload stays only after a failed write, a failed removal or a crash (`LeftoversAreExplained`), a good request is answered 400 only for a clock set back, a CV too long for the recogniser, or a configuration that fails every request of its route, and after model calls only if nothing but those could find that out; and no such configuration ever answers 200 (`BlameIsExplained`), every request is answered (`EveryRequestIsAnswered`) |

### Bounds, and why they are enough

* Two racing calls suffice for every lost update of the bucket's counter, and
  three attempts have a retry that is neither the first nor the last; with two
  calls, lost responses let one of them meet its own writes. In a directory,
  three calls add a third reservation over a leftover. The proofs below remove
  these bounds.
* Two models are the smallest chain with a fallback, two attempts the smallest
  number for which a retry and a fallback differ. One run is the whole
  concurrency of a pipeline: runs share no client.
* Three runs on one CV allow an ingestion between the save and the log of
  another one and a match after both. CVs do not interact: a file per `cv_id`.
* Roles matter one at a time and in pairs (a repetition needs two, and the
  properties compare with one more and one fewer). The properties about a
  scorecard are stated over its neighbours, so lists of three roles are
  reached as well.
* A hidden value takes two hits, a value that is cut by a shorter one too, and
  three add one that was hidden by neither. The texts are chosen so that each
  rule of the code has a place where it decides: a name glued to the next
  line, a word that begins another one, a value that starts over on the next
  line, a name after each kind of heading, a birthday and a range of years, an
  address with a domain in it, words hyphenated with and without a blank.
  Which hits are reported, and so in which state the text is judged, is every
  subset. Two ingestions with one edit between them are the smallest history
  with a kept text that is out of date; the second one reads what the first
  one wrote, or the beginning it left when writing broke off. Two ingestions
  after a write that broke off are covered by the proofs only.
* One thread is the smallest pool, and two requests the smallest number of
  which one can hold it while the other waits; the proofs hold for any number
  of both. The kinds of requests are one for each way through the handlers,
  the deployments one for each answer of the registry and for each part of the
  configuration that a handler stumbles over in a place of its own.

Deadlock is checked everywhere; a module says explicitly (`AllEnded`, `Over`,
`Ended`) in which states it may stop.

### Fairness

* `GCSArtifactLogger`, `LocalArtifactLogger`: weak fairness of the steps of
  each call. A call runs in its own request handler or process, there is no
  lock or queue between calls, and the client library gives every bucket
  request a timeout by default. No fault is ever forced. `EveryCallEnds` needs
  no more: a call whose swap keeps being refused gives up after
  `MAX_RESERVE_ATTEMPTS`.
* `MatchingPipeline`: weak fairness of the main thread only. The worker may
  hang in a request: `FailureDoesNotWait` holds even then. `RunEnds` assumes
  the worker's fairness in the property itself, because `future.result()`
  waits without a timeout.
* `WebApi`: weak fairness of each handler on the loop, of each job that has a
  thread, and of the pool handing out its first job. The loop and the pool are
  FIFO queues of the framework; `urlopen` has a timeout
  (`WARM_TIMEOUT_SECONDS`), and the OpenAI client behind a model call and the
  storage client have one by default, so that what a handler or a thread waits
  for ends; a spooled upload is a local file, and its read ends too. Nothing is
  assumed of the container, of arrivals, or of crashes.
* `IngestionPersistence`, `Assessment` and `CVLifecycle` have safety properties
  only.

### Findings

1. `ArtifactLogger` (`utils/artifact_logger.py:124`) can give two overlapping
   runs one number: a call that scanned the directory before another one
   logged and released its reservation reserves that number again. The test
   of concurrent runs asserts distinct numbers; its window is small. What does
   hold is `LaterRunsLargerNumbers`: runs that do not overlap are numbered in
   order.
2. `fallback_used` (`services/llm_client.py:162`) describes a client's most
   recent call, not the run: a step served by a fallback followed by one served
   by the primary is reported as no fallback. (For the same reason `engine`
   names the evaluation client's last model only.)
3. `persist_ingestion` saves before it logs and does not undo: a run that
   matches the stored CV can log a `redacted_cv_trace_id` that no artifact has.
4. `calculate_scorecard` divides by zero when all the weight is on work
   experience and the listing states no years; the API accepts such weights and
   finds out after all model calls.
5. The leak check of `build_serving_cv.py` looks for values in the finished
   JSON, where a newline is an escape: a value that spans two lines is never
   found. `NATIONALITY_STATUS_REGEX` matches such values and may end in the
   middle of a word, where redaction does not replace it either.

Other differences, which hold of every run of the kind and so have no run of
their own here:

* With `ARTIFACTS_BUCKET` set, the harness logs an extraction's ingestion to
  the bucket and its run to the local directory (`harness/runner.py:166`;
  `RunBackend` and `EnvironmentBackend` in `IngestionPersistence`).
* A default `min_pii_spans` judges `/api/match`, which `src/README.md:409` says
  it skips: a `PipelineResult` always has the spans of its CV
  (`harness/evaluator.py:25`; `HasAttribute` in `Evaluation`).
* `config/loader.py:65` says an unknown model name "fails at startup"; the
  clients are built per request, so that every match answers 500 (`Prepare` in
  `WebApi`), and a warm-up is skipped.
* The text of a PDF is written next to it in place
  (`services/document_parser.py:156`): if that breaks off, later runs take the
  beginning for the CV (`KeepingFails` in `CVLifecycle`).
* A mistake in the configuration is answered as the visitor's. The evaluation
  criteria of a request are resolved inside the `try` of its handler
  (`api/routes.py:320`), whose `except ValueError` answers 400
  (`api/routes.py:329`). A misspelt or unreadable `default_evaluation` is a
  pydantic `ValidationError`, which is a `ValueError`: every good request for a
  match is answered 400, after all its model calls were paid for. An invalid
  scoring file or PII setting and an unset variable are answered 400 too, before
  them. Elsewhere the code answers 503 where the deployment is at fault, because
  "a 400 would blame the visitor for it" (`services/cv_store.py:31`). What does
  hold is `BlameIsExplained`: a configuration does this to every good request of
  a route, each in the same place, or to none.
* A log that fails leaves its `.tmp` file (`utils/artifact_logger.py:160`:
  `temporary_path` is assigned after the writes; `WriteRaises` in
  `LocalArtifactLogger`). Nothing reads it.
* An upload that could not be written stays as an empty or partial temporary
  file (`api/routes.py:387`; `WriteFails` in `WebApi`).

## The proofs

`GCSArtifactLogger_proofs` proves, for any set of calls, any number of attempts
and any starting counter, under the three assumptions the module states (no
call is the placeholder for earlier runs, at least one attempt, counters are
naturals):

| Theorem | |
| --- | --- |
| `TypeCorrect` | the type invariant; no call is refused more than `MAX_RESERVE_ATTEMPTS` times |
| `RunNumbersAreUnique` | `UniqueRunNumbers` |
| `NumbersFollowRealTime` | `LaterRunsLargerNumbers` |
| `ReportsAreStored` | `ReportedIsStored` |
| `GivingUpMeansContention` | `ContentionIsReal` |
| `CorruptCounterIsKept` | `CorruptCounterKept` |
| `ImplementsRunNumbers` | `GCSArtifactLogger` refines `RunNumbers` |

Uniqueness is not inductive: it says nothing of the calls that are about to
swap. The inductive invariant `SafetyInv` adds what makes a swap safe. A call
has never read a generation from the future (`ReadsNotAhead`); a call about to
swap whose generation is still the counter's holds the counter's value
(`FreshReads`), although value and generation come from two requests: if the
object was replaced between them, the generation is already out of date, and
generations never come back. An accepted swap therefore writes a number above
every number handed out (`NumbersBelowCounter`) or stored (`StoredNumbers`).
`AbsentCounter` covers the first run ever, `HeldSinceSwap` says who holds a
number, `CorruptStopsCalls` that nobody gets to a swap over bytes that are not
an integer.

On top of it, `OrderInv` (calls seen as logged stay logged, with their number
below the counter) gives real-time order, and `ReportInv` gives the reports
and contention: every refused attempt has cost at least one generation since
the call began (`AttemptsCostGenerations`). In the refinement the abstract
counter is the counter's value, an accepted swap is `Claim`, and a swap that
was applied while its response was lost is `Burn`: the call does not know its
number, and it is never used.

`LocalArtifactLogger_proofs` proves, for any set of calls and any earlier
artifacts whose numbers have a maximum:

| Theorem | |
| --- | --- |
| `TypeCorrect` | the type invariant |
| `ReservationsAreExclusive` | `ExclusiveReservations` |
| `LeftoversHaveReasons` | `LeftoversAreExplained` |
| `NumbersFollowRealTime` | `LaterRunsLargerNumbers` |

The types already need an invariant: the scan takes the maximum of the numbers
in use, which exists because they stay bounded (`NumbersAreBounded`;
`MaxOfBounded` derives the maximum from the well-ordering of the naturals).
`ExclusiveReservations` and `LeftoversAreExplained` are inductive as they
stand. Order is not: `OrderInv` adds that artifacts stay where they are
(`ArtifactsStay`), so that a later scan sees them, and that a call is above
everything its directory held when it began from its scan on (`AboveSeen`).
That no two artifacts share a number cannot be proved: it is false (finding 1).

`IngestionPersistence_proofs` proves, for any runs, CVs and backends:

| Theorem | |
| --- | --- |
| `TypeCorrect` | the type invariant |
| `IngestionsAreStored` | `LoggedIngestionsAreStored` |
| `ExtractionsAlwaysResolve` | `ExtractionsResolve` |
| `MatchingIsFresh` | `MatchingUsesFreshRedaction` |
| `ServingIsPinned` | `ServingCVIsPinned` |

The properties speak of what was logged or matched; the invariant says how a
run got there. From which step on a run has a source, and whose (`SourceStages`,
`KindStages`); that a run beyond its save is among the saves (`SaveStages`), once
(`SavedOnce`); that an extraction beyond its log was logged
(`ExtractionStages`); that the store holds the last save of each CV
(`StoreIsLatest`), which a matching task that began after it (`BeganBefore`)
cannot miss; and that what was served is what is cached (`ServedFromCache`).

`MatchingPipeline_proofs` proves, for any number of models and attempts:

| Theorem | |
| --- | --- |
| `TypeCorrect` | the type invariant |
| `ReportsAreTrue` | `ReportIsTrue` |
| `AttemptsAreOwn` | `AttemptsAreTrue` |
| `TracesAreComplete` | `TraceIsComplete` |

A client's `_active` is only what its last call said: the invariant ties it to
the steps, by where each thread is (`ControlInv`), which steps it has had
served and by which model, and that the two threads share no client while both
run (`ServedInv`). That fallbacks can be forgotten (finding 2) is the direction
of the equivalence that fails. The hook that counts attempts counts for every
call open on a client: `CountInv` says a call counts its own, because no other
one is open on its client. The trace is sorted once, by `started_at`: before
that, every step that is over has exactly one span, and no other has
(`LandedInv`), no two steps start at one instant and none starts before it may
(`ClockInv`), so that the sort, which needs a sorted order of the spans to
exist (`ListedInOrder`), puts them in the order in which the steps began and
the scoring last.

`Assessment_proofs` proves, for any answers of the models, any roles and dates,
any weights, tasks and defaults:

| Theorem | |
| --- | --- |
| `ScoresLieBetween` | `ScoreLiesBetweenPillars` |
| `RepetitionsCountOnce` | `RepeatedRolesCountOnce` |
| `RolesCostNothing` | `RolesNeverCostPoints` |
| `BackfillCosts` | `BackfillCostsOnlyRanges` |
| `DefaultsYield` | `DefaultsYieldToTheTask` |

The invariant only says what the outcome was calculated from (`CardInv`,
`JInv`); the work is arithmetic. A score is a rounded quotient, and rounding
keeps order (`RoundDivMonotone`); its numerator grows with the years, which are
a sum of naturals over the roles that are counted (`CountGrows`). Two
scorecards are compared by matching the counted roles of one to those of the
other, one to one (`SumInjection`): a repetition is matched to the role it
repeats, a role that is removed to the next one like it, a completed role to
the role it was, which had no years unless its start held a range
(`CompletedHadNoYears`). The final score is a mean weighed by naturals that are
not all zero, and so lies between the pillars (`FinalBetween`). Assumed is that
the inputs have the shape the validators give them (`NowAssumption`,
`AnswersAssumption`, `BlocksAssumption`, `OverridesAssumption`,
`TaskCriteriaAssumption`), nothing of their size.

`CVLifecycle_proofs` proves, for any PDFs, hits, listings and answers, and any
number of ingestions and edits:

| Theorem | |
| --- | --- |
| `TypeCorrect` | the type invariant |
| `OneVersionIsRead` | `FirstReadingWins` |
| `SkillsAreDivided` | `SkillResultsAreValid` |
| `NoHitCostsAnother` | `NothingIsSwallowed` |
| `IdIsKept` | `ReingestionKeepsTheId` |
| `RedactionCostsNoSkill` | `SkillsInPlainSightAreMet` |
| `LeaksAreAccountedFor` | `LeaksAreExplained` |

The inductive invariant `CInv` says where texts come from: the kept text was
written from a version of the PDF (`DocumentInv`), the text that is ingested
is a reading of the kept text, or the kept text itself unless writing it broke
off (`ReadOf`, `StageInv`), every stored CV was made from
one of these two (`OriginInv`) under its own id (`IdsInv`) and with the text its values leave of
the document (`SpansInv`), and what was found
is what the detector makes of hits inside that text (`HitsInv`). What is left
is about the functions on text. Each of them is a fold, and is first shown to be
a run, one value per symbol, line or hit (`SqueezeRuns`, `CleanRuns`,
`DetectRuns`); facts about it are then ordinary inductions along the run. Those
about `Documents` alone are the lemmas of `DocumentLemmas`.

* `NoHitCostsAnother`: whatever the detector accepts, it records a value whose
  normal form holds that of the range it accepts (`Backed`), and nothing it
  does later removes a value. A hit that is dropped unseen lies in such a
  range; one that was seen before has the normal form of a recorded value;
  otherwise it is judged as if it were alone (`JudgeKeeps`).
* `IdIsKept`: two ingestions of one version read the kept text, or a reading of
  it. If writing the kept text broke off, only readings of it are ever ingested,
  and those are alike. Otherwise the kept text was cleaned. A cleaned text is
  made of tidy lines (`CleanLinesAreTidy`: single blanks, no page numbers, no two
  empty lines in a row), cutting it at its newlines
  gives these lines back (`LinesOfJoined`), and cleaning leaves tidy lines alone
  (`TidyStays`). So cleaning again changes nothing (`CleanStays`), unless
  cleaning has brought the parts of a hyphenated word together, which is the
  `CutWord` of the property.
* `RedactionCostsNoSkill`: a redaction is a run of substitutions, one per value,
  the longest first (`RedactedRuns`). One substitution is followed symbol by
  symbol: each symbol of its result stands for one of the text before, in order,
  or belongs to a token, and all that is gone lay in whole values
  (`SubstitutedIsTraced`). A name that stands alone and shares no word with a
  value shares no position with one (`AloneIsApart`: where they overlapped, the
  word at the overlap would belong to both), so its symbols stay, side by side
  (`KeptTogether`), and what comes to stand beside it is what stood there or
  a bracket (`AloneStays`). It so survives every step of the run
  (`AloneInRedacted`), the literal search of the redacted text finds it, and the
  merge lists it (`NamedIsMatched`).
* `LeaksAreAccountedFor`: the traces of the single substitutions compose to one
  trace from the text to what all values leave of it (`TracedTwice`): what stands
  side by side in the result, no token between, stood so in the text, and
  whatever is lost was lost with a whole value. So no word is lost in part
  (`NoWordIsCut`). Along the run holds that of every value replaced so far no
  occurrence is left but those another occurrence cuts (`RedactedSoFar`): since
  the longest goes first, what was taken before its turn cannot have touched an
  uncut occurrence without taking all of it (`UncutGoes`). A word of a value that
  is left therefore stands in a token, or stood in the text outside the value or
  in a cut occurrence of it (`LeakIsExplained`).
* `SkillsAreDivided`: ids are distinct, so a listing of them exists and is a
  listing without repetitions (`NamesOfIds`).

Assumed is that texts are made of words, blanks and newlines
(`PDFsAssumption`, `RecognisedAssumption`, `RequirementListsAssumption`), that
decisions are about numbers (`DecisionsAssumption`), and that the word "page"
is no number (`NumbersAssumption`).

The prover cannot instantiate a theorem with an operator as its parameter, so
induction is stated over sets: a set that contains 0 and the successor of each
of its members contains every natural (`NaturalInduction`). From it follow, in
`Assessment_proofs`, sums over finite sets (`SumUnfold`, `SumInjection`), and in
`DocumentLemmas` that a set with an order can be listed in that order
(`ListedBy`) and that a fold over a sequence is a run of values, each made from
the one before (`FoldExists`, `FoldRuns`).

`WebApi_proofs` proves, for any requests, kinds of requests, deployments, models
and pool size:

| Theorem | |
| --- | --- |
| `OnlyGoodRequests` | `OnlyGoodRequestsReachTheModel` |
| `NoUnexplainedLeftovers` | `LeftoversAreExplained` |
| `BlamesAreExplained` | `BlameIsExplained` |

All three rest on one description of a handler (`HInv`, `HistoryInv`): behind
the check, a request is one `require_api_key` lets through; the uploads it
has not read are the end of those it came with, and those it has read were
good; whoever is between two steps that are not awaits holds the loop; and
whoever is past a place where a part of the configuration is read has not
failed there. On it stand who reached the model (`ReachedInv`) and who was
answered what (`BlameInv`): a handler at its model calls or its log has reached
the model, one that reached it is there or has answered, an answer of 400 has
an explanation, and an answer of 200 shows that nothing was wrong. `BlamesAreExplained` so says
of any deployment that it cannot be both, answering some good requests and
blaming others, the two mishaps of a single run apart. The assumptions are the
module's own: a pool with a thread, a placeholder that is no request, and
requests whose route, weights and files go together.

Not proved, only model-checked:

* liveness (`EveryCallEnds`, `RunEnds`, `FailureDoesNotWait`,
  `EveryRequestIsAnswered`), which is out of the prover's reach;
* the properties of the violation runs, which are false.

## Not modelled

* Prompts, their versions and the wording of answers; what a language model, a
  recogniser, a PDF library or OCR returns is a choice.
* The regular expressions that find roles in a CV (`agents.py:35-44`) and the
  requirements of a listing (`document_parser.py:181-199`): the first are given
  as blocks, the second only select what a prompt shows.
* Parsing of task files and YAML, the registries of plug-ins, the command
  line: stateless, they pass or reject a file.
* `scripts/compare_runs.py` only reads artifacts; the scripts that build
  training data, push an adapter or deploy are run by hand and share no state
  with a run.
* The fields of artifacts that only describe a run. `pii_spans` of an
  `IngestionArtifact` are the recorded values themselves and go wherever the
  artifact goes (`schemas/artifact.py:238`); no text of the repository promises
  otherwise, so no property is about it.
