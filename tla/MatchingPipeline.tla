---------------------------- MODULE MatchingPipeline ---------------------------
(***************************************************************************)
(* src/src/services/matching_pipeline.py, with the run configuration that  *)
(* src/src/api/routes.py reports of it.                                    *)
(*                                                                         *)
(* A matching run extracts the job requirements, matches them against the  *)
(* redacted CV and evaluates the overall experience, then scores.  With an *)
(* experience client of its own (the web API) the experience step runs in  *)
(* a worker thread next to the other two; without one (the harness and     *)
(* /api/compare) the steps run one after the other on one client.          *)
(***************************************************************************)
EXTENDS CompletionClient, Sequences, SequencesExt

ASSUME CallersAssumption == Callers = {"main", "worker"}
ASSUME ClientsAssumption == Clients = {"evaluation", "experience"}

VARIABLES
  concurrent,   (* whether the pipeline was given an experience client *)
  pc,           (* where each thread is *)
  step,         (* the step the thread is at *)
  startedAt,    (* when each step started: its rank among all starts, or 0 *)
  trace,        (* the run's trace spans, in the order they are appended *)
  report,       (* the run's result and configuration, once there *)
  servedBy,     (* history: the model that served each step, or 0 *)
  made          (* history: the attempts that model was sent for it *)

threadVars == <<pc, step>>
history == <<servedBy, made>>
vars == <<clientVars, concurrent, pc, step, startedAt, trace, report, servedBy, made>>

-------------------------------------------------------------------------------

LLMSteps == {"requirements", "skills", "experience"}

Span == [step : LLMSteps \cup {"scoring"}, startedAt : Nat, attempts : Nat]

NoReport == [there |-> FALSE]

TypeOK ==
  /\ ClientTypeOK
  /\ concurrent \in BOOLEAN
  /\ pc \in [Callers -> {"idle", "ready", "calling", "served", "join", "score",
                         "scored", "raised", "failed", "done"}]
  /\ step \in [Callers -> LLMSteps]
  /\ startedAt \in [LLMSteps \cup {"scoring"} -> Nat]
  /\ trace \in Seq(Span)
  /\ servedBy \in [LLMSteps -> 0 .. NumModels]
  /\ made \in [LLMSteps -> Nat]
  /\ report.there => report.engine \in Models /\ report.fallbackUsed \in BOOLEAN

Init ==
  /\ ClientInit
  /\ concurrent \in BOOLEAN
  /\ pc = [t \in Callers |-> IF t = "main" THEN "ready" ELSE "idle"]
  /\ step = [t \in Callers |-> IF t = "main" THEN "requirements" ELSE "experience"]
  /\ startedAt = [s \in LLMSteps \cup {"scoring"} |-> 0]
  /\ trace = <<>>
  /\ report = NoReport
  /\ servedBy = [s \in LLMSteps |-> 0]
  /\ made = [s \in LLMSteps |-> 0]

\* Mutant: both threads complete with one client.
SharedClient(t) == IF t \in Callers THEN "evaluation" ELSE "experience"

\* The client a thread completes with: the experience client is the worker's.
ClientOf(t) == IF t = "worker" THEN "experience" ELSE "evaluation"

Now == Cardinality({s \in DOMAIN startedAt : startedAt[s] # 0}) + 1

Goto(t, from, to) ==
  /\ pc[t] = from
  /\ pc' = [pc EXCEPT ![t] = to]

-------------------------------------------------------------------------------
(* One step of the pipeline, in either thread *)

\* experience_pool.submit, before anything else.
Submit ==
  /\ concurrent
  /\ pc["main"] = "ready" /\ step["main"] = "requirements"
  /\ Goto("worker", "idle", "ready")
  /\ UNCHANGED <<concurrent, clientVars, step, startedAt, trace, report, history>>

\* traced_step is entered and the agent calls complete().
StartStep(t) ==
  /\ concurrent => pc["worker"] # "idle"
  /\ Goto(t, "ready", "calling")
  /\ OpenCall(t, ClientOf(t))
  /\ startedAt' = [startedAt EXCEPT ![step[t]] = Now]
  /\ UNCHANGED <<concurrent, step, trace, report, history>>

AttemptStep(t) ==
  /\ pc[t] = "calling"
  /\ Attempt(t)
  /\ UNCHANGED <<concurrent, threadVars, startedAt, trace, report, history>>

FallBackStep(t) ==
  /\ pc[t] = "calling"
  /\ FallBack(t)
  /\ UNCHANGED <<concurrent, threadVars, startedAt, trace, report, history>>

ServeStep(t) ==
  /\ Goto(t, "calling", "served")
  /\ Serve(t)
  /\ servedBy' = [servedBy EXCEPT ![step[t]] = call[t].model]
  /\ made' = [made EXCEPT ![step[t]] = call[t].made]
  /\ UNCHANGED <<concurrent, step, startedAt, trace, report>>

\* The exception leaves the step: no span is appended for it.
CallRaisesStep(t) ==
  /\ Goto(t, "calling", "raised")
  /\ CallRaises(t)
  /\ UNCHANGED <<concurrent, step, startedAt, trace, report, history>>

SpanOf(s, attempts) == [step |-> s, startedAt |-> startedAt[s], attempts |-> attempts]

\* Where a thread goes when its step is over.
After(t) ==
  CASE t = "worker" -> [to |-> "done", step |-> "experience"]
    [] step[t] = "requirements" -> [to |-> "ready", step |-> "skills"]
    [] step[t] = "skills" /\ concurrent -> [to |-> "join", step |-> "skills"]
    [] step[t] = "skills" /\ ~concurrent -> [to |-> "ready", step |-> "experience"]
    [] OTHER -> [to |-> "score", step |-> step[t]]

\* The agent's answer is complete: the span takes the client's last_attempts
\* and is appended to the shared trace, from whichever thread it is.
FinishStep(t) ==
  /\ Goto(t, "served", After(t).to)
  /\ step' = [step EXCEPT ![t] = After(t).step]
  /\ trace' = Append(trace, SpanOf(step[t], lastAttempts[ClientOf(t)]))
  /\ UNCHANGED <<concurrent, clientVars, startedAt, report, history>>

\* The answer is None, or what is built from it does not validate.
StepRaises(t) ==
  /\ Goto(t, "served", "raised")
  /\ UNCHANGED <<concurrent, clientVars, step, startedAt, trace, report, history>>

-------------------------------------------------------------------------------
(* The rest of run(), in the main thread *)

WorkerEnded == pc["worker"] \in {"done", "raised"}

\* Mutant: the worker's exception is never seen.
JoinPolling ==
  /\ pc["main"] = "join"
  /\ pc' = [pc EXCEPT !["main"] = IF pc["worker"] = "done" THEN "score" ELSE "join"]
  /\ UNCHANGED <<concurrent, clientVars, step, startedAt, trace, report, history>>

\* experience_future.result() waits for the worker and re-raises its exception.
Join ==
  /\ WorkerEnded
  /\ Goto("main", "join", IF pc["worker"] = "done" THEN "score" ELSE "raised")
  /\ UNCHANGED <<concurrent, clientVars, step, startedAt, trace, report, history>>

\* Mutant: shutdown(wait=True), the pool's context manager.
ShutdownAndWait ==
  /\ pc["worker"] = "idle" \/ WorkerEnded
  /\ Goto("main", "raised", "failed")
  /\ UNCHANGED <<concurrent, clientVars, step, startedAt, trace, report, history>>

\* finally: the pool is told to shut down and nobody waits for its thread.
Shutdown ==
  /\ Goto("main", "raised", "failed")
  /\ UNCHANGED <<concurrent, clientVars, step, startedAt, trace, report, history>>

ByStart(a, b) == a.startedAt < b.startedAt

\* Mutant: the spans stay in the order they landed in.
UnsortedTrace == trace

\* trace.sort(key=started_at), which keeps the order of equal keys.
SortedTrace ==
  LET order == CHOOSE p \in Bijection(DOMAIN trace, DOMAIN trace) :
                 \A i, j \in DOMAIN trace : i < j =>
                   \/ ByStart(trace[p[i]], trace[p[j]])
                   \/ ~ByStart(trace[p[j]], trace[p[i]]) /\ p[i] < p[j]
  IN  [i \in DOMAIN trace |-> trace[order[i]]]

\* The trace is put in order and the run scored.
Score ==
  /\ Goto("main", "score", "scored")
  /\ startedAt' = [startedAt EXCEPT !["scoring"] = Now]
  /\ trace' = Append(SortedTrace, [step |-> "scoring", startedAt |-> Now, attempts |-> 0])
  /\ UNCHANGED <<concurrent, clientVars, step, report, history>>

\* calculate_scorecard or the result's validation raises.
ScoreRaises ==
  /\ Goto("main", "score", "raised")
  /\ UNCHANGED <<concurrent, clientVars, step, startedAt, trace, report, history>>

\* Whether the client's most recent call was served by a fallback.
FallbackUsed(c) == active[c] # 1

\* PipelineResult names the evaluation client's model as the engine; the
\* request's RunConfig says whether either client fell back.
Report ==
  /\ Goto("main", "scored", "done")
  /\ report' = [there |-> TRUE,
                engine |-> active["evaluation"],
                fallbackUsed |-> FallbackUsed("evaluation") \/ FallbackUsed("experience")]
  /\ UNCHANGED <<concurrent, clientVars, step, startedAt, trace, history>>

\* What the threads do when nothing raises.
ThreadStep(t) ==
  \/ StartStep(t) \/ AttemptStep(t) \/ ServeStep(t) \/ FinishStep(t)

MainStep ==
  \/ Submit \/ ThreadStep("main") \/ Join \/ Shutdown \/ Score \/ Report

Fault(t) == FallBackStep(t) \/ CallRaisesStep(t) \/ StepRaises(t)

\* The run is over and so is its worker.
Over ==
  /\ pc["main"] \in {"done", "failed"}
  /\ WorkerEnded \/ pc["worker"] = "idle"
  /\ UNCHANGED vars

Next ==
  \/ MainStep \/ ScoreRaises
  \/ ThreadStep("worker")
  \/ \E t \in Callers : Fault(t)
  \/ Over

Spec == Init /\ [][Next]_vars

\* The main thread is scheduled; nothing is assumed of the worker, which may
\* hang in a request.
FairSpec == Spec /\ WF_vars(MainStep)

-------------------------------------------------------------------------------
(* Properties *)

\* A reported trace has one span per step, in the order the steps started and
\* with scoring last, whenever the worker's span landed in it.
TraceIsComplete ==
  report.there =>
    /\ Len(trace) = 4
    /\ {trace[i].step : i \in 1 .. 4} = LLMSteps \cup {"scoring"}
    /\ \A i \in 1 .. 3 : trace[i].startedAt < trace[i + 1].startedAt
    /\ trace[4].step = "scoring"

\* Every span says how many attempts its own step took on the model that
\* served it: no step is charged another thread's attempts.
AttemptsAreTrue ==
  \A i \in DOMAIN trace : trace[i].step \in LLMSteps =>
    trace[i].attempts = made[trace[i].step]

\* The engine a run reports is the model that served the evaluation client's
\* last step, whatever the experience client was served by meanwhile; and a
\* run reported as a fallback run had a step that a fallback served.
ReportIsTrue ==
  report.there =>
    /\ report.engine = servedBy[IF concurrent THEN "skills" ELSE "experience"]
    /\ report.fallbackUsed => \E s \in LLMSteps : servedBy[s] # 1

\* src/README.md:209: the artifact records "whether a given run's evaluation
\* actually fell back".
FallbacksAreReported ==
  report.there /\ (\E s \in LLMSteps : servedBy[s] # 1) => report.fallbackUsed

\* A run that has failed ends without waiting for a worker nobody needs.
FailureDoesNotWait == pc["main"] = "raised" ~> pc["main"] = "failed"

\* If the worker is not stuck either, every run is reported or fails.
RunEnds ==
  WF_vars(ThreadStep("worker")) => <>(pc["main"] \in {"done", "failed"})
===============================================================================
