------------------------------ MODULE Assessment -------------------------------
(***************************************************************************)
(* How one run is scored and judged, from the weights it is given to its   *)
(* evaluation report: src/src/api/routes.py (_scoring_engine and           *)
(* _api_evaluation) and src/src/harness/runner.py around the operators of  *)
(* RoleDates, ScoringEngine and Evaluation.                              *)
(*                                                                         *)
(* The engine is built, and may refuse its weights, before any model is    *)
(* called; the score is calculated after all of them answered; the result  *)
(* is judged last, before anything is logged.                              *)
(***************************************************************************)
EXTENDS RoleDates, SequencesExt

INSTANCE Evaluation

CONSTANTS
  Overrides,        (* the weights requests may override, a function each *)
  TaskWeights,      (* the weights tasks may state, <<>> for none *)
  Answers,          (* what the models may extract: skills, roles, target *)
  Blocks,           (* what the CV may say of its roles explicitly *)
  PIISpanCounts,    (* how many spans the CV's redaction may have found *)
  Traces,           (* the attempts of each span of a run, or Null *)
  TaskCriteria,     (* the criteria tasks may state *)
  DefaultCriteria   (* what default_evaluation may say *)

ASSUME OverridesAssumption == \A w \in Overrides : DOMAIN w \subseteq Pillars
ASSUME TaskCriteriaAssumption == \A c \in TaskCriteria : DOMAIN c \subseteq Criteria

ASSUME NowAssumption == Now \in Int

\* What a date of a role may hold: nothing, a date or a range.
Moments == {Present, Garbled} \cup Int
DateTexts(lengths) == {text \in Seq(Moments) : Len(text) \in lengths}

Role == [title : SUBSET STRING, start : DateTexts({0, 1, 3}), end : DateTexts({0, 1, 3}),
         relevant : BOOLEAN]
Block == [title : SUBSET STRING, start : DateTexts({0, 1}), end : DateTexts({0, 1})]
SkillCounts == {skills \in [matched : Nat, total : Nat] : skills.matched <= skills.total}

ASSUME AnswersAssumption ==
  Answers \subseteq [skills : SkillCounts, roles : Seq(Role), target : {Null} \cup Nat]
ASSUME BlocksAssumption == Blocks \subseteq Seq(Block)

VARIABLES
  entry,      (* "api" or "cli" *)
  pipeline,   (* "matching", "extraction" or "ingestion" *)
  stage,      (* how far the run is *)
  weights,    (* the engine's weights *)
  answers,    (* what the models extracted *)
  blocks,     (* what the CV says of its roles explicitly *)
  result,     (* the pipeline's result: its attributes *)
  scorecard,  (* its scorecard, or Null *)
  task,       (* the criteria the task states *)
  criteria,   (* the criteria the run is judged by *)
  report      (* its evaluation report, or Null *)

vars == <<entry, pipeline, stage, weights, answers, blocks, result, scorecard, task,
          criteria, report>>

-------------------------------------------------------------------------------

Init ==
  /\ entry \in {"api", "cli"}
  /\ pipeline \in {"matching", "extraction", "ingestion"}
  /\ stage = "begun"
  /\ weights = <<>>
  /\ answers = Null
  /\ blocks = <<>>
  /\ result = Null
  /\ scorecard = Null
  /\ task = <<>>
  /\ criteria = <<>>
  /\ report = Null

Goto(from, to) == stage = from /\ stage' = to

-------------------------------------------------------------------------------
(* Weights *)

\* _scoring_engine: each weight of a request is a share of the score.
InRange(w) == \A p \in DOMAIN w : w[p] \in 0 .. 100

\* A request overrides the defaults pillar by pillar.
Overridden(w) == [p \in Pillars |-> IF p \in DOMAIN w THEN w[p] ELSE DefaultWeights[p]]

RequestedWeights ==
  IF entry = "api" THEN {Overridden(w) : w \in Overrides}
  ELSE {IF DOMAIN w = {} THEN DefaultWeights ELSE w : w \in TaskWeights}

Accepted(w) == AddUp(w) /\ (entry = "api" => InRange(w))

BuildEngine ==
  /\ pipeline # "ingestion"
  /\ Goto("begun", "engine")
  /\ \E w \in RequestedWeights : Accepted(w) /\ weights' = w
  /\ UNCHANGED <<entry, pipeline, answers, blocks, result, scorecard, task, criteria, report>>

\* A ValueError, before anything was asked of a model.
RefuseWeights ==
  /\ pipeline # "ingestion"
  /\ Goto("begun", "refused")
  /\ \E w \in RequestedWeights : ~Accepted(w) /\ weights' = w
  /\ UNCHANGED <<entry, pipeline, answers, blocks, result, scorecard, task, criteria, report>>

-------------------------------------------------------------------------------
(* Results *)

\* IngestionPipeline's result has no scorecard and no metrics.
IngestionResult(spans, trace) ==
  [pii_spans |-> spans, execution_seconds |-> 1, trace |-> trace]

\* PipelineResult takes the spans of the redacted CV, whoever ingested it.
PipelineResult(card, a, spans, trace) ==
  [scorecard |-> card.finalRelevance,
   metrics |-> MatchPercentage(a.skills),
   pii_spans |-> spans,
   execution_seconds |-> 1,
   trace |-> trace]

Ingest ==
  /\ pipeline = "ingestion"
  /\ Goto("begun", "scored")
  /\ \E spans \in PIISpanCounts : result' = IngestionResult(spans, <<Null>>)
  /\ UNCHANGED <<entry, pipeline, weights, answers, blocks, scorecard, task, criteria, report>>

\* What is scored: the roles with the dates the CV could complete.
Scored(a, b) == [a EXCEPT !.roles = Backfilled(@, b)]

Calculate ==
  /\ Goto("engine", "scored")
  /\ \E a \in Answers, b \in Blocks :
       /\ Scores(weights, Scored(a, b))
       /\ answers' = a
       /\ blocks' = b
       /\ LET card == Scorecard(weights, Scored(a, b))
          IN  /\ scorecard' = card
              /\ \E spans \in PIISpanCounts, trace \in Traces :
                   result' = PipelineResult(card, a, spans, trace)
  /\ UNCHANGED <<entry, pipeline, weights, task, criteria, report>>

CalculateRaises ==
  /\ Goto("engine", "unscored")
  /\ \E a \in Answers, b \in Blocks :
       ~Scores(weights, Scored(a, b)) /\ answers' = a /\ blocks' = b
  /\ UNCHANGED <<entry, pipeline, weights, result, scorecard, task, criteria, report>>

-------------------------------------------------------------------------------
(* Judgement *)

\* A request states no criteria.
StatedCriteria == IF entry = "api" THEN {<<>>} ELSE TaskCriteria

Resolve ==
  /\ Goto("scored", "resolved")
  /\ \E t \in StatedCriteria, d \in DefaultCriteria :
       /\ ValidCriteria(ResolveCriteria(result, t, d))
       /\ task' = t
       /\ criteria' = ResolveCriteria(result, t, d)
  /\ UNCHANGED <<entry, pipeline, weights, answers, blocks, result, scorecard, report>>

\* default_evaluation names something that is no criterion.
ResolveRaises ==
  /\ Goto("scored", "misconfigured")
  /\ \E t \in StatedCriteria, d \in DefaultCriteria :
       ~ValidCriteria(ResolveCriteria(result, t, d)) /\ task' = t
  /\ UNCHANGED <<entry, pipeline, weights, answers, blocks, result, scorecard, criteria, report>>

\* A request that is judged by nothing gets no report.
Judge ==
  /\ Goto("resolved", "judged")
  /\ ~CannotEvaluate(criteria, result)
  /\ report' = IF entry = "api" /\ DOMAIN criteria = {} THEN Null
               ELSE Evaluate(criteria, result)
  /\ UNCHANGED <<entry, pipeline, weights, answers, blocks, result, scorecard, task, criteria>>

JudgeRaises ==
  /\ Goto("resolved", "unjudged")
  /\ CannotEvaluate(criteria, result)
  /\ UNCHANGED <<entry, pipeline, weights, answers, blocks, result, scorecard, task, criteria, report>>

Ended ==
  /\ stage \in {"refused", "unscored", "misconfigured", "unjudged", "judged"}
  /\ UNCHANGED vars

Next ==
  \/ BuildEngine \/ RefuseWeights
  \/ Ingest \/ Calculate \/ CalculateRaises
  \/ Resolve \/ ResolveRaises \/ Judge \/ JudgeRaises
  \/ Ended

Spec == Init /\ [][Next]_vars

-------------------------------------------------------------------------------
(* Properties *)

\* A final score lies between the scores of the pillars that apply, whatever
\* weights the engine was given, as long as each is a share.  The API never
\* uses others; a task can.
ScoreLiesBetweenPillars ==
  scorecard # Null /\ (entry = "api" \/ InRange(weights)) =>
    LET scores == {scorecard.pillarA} \cup
                  (IF answers.target = Null THEN {} ELSE {scorecard.pillarB})
    IN  Min(scores) <= scorecard.finalRelevance /\ scorecard.finalRelevance <= Max(scores)

\* src/README.md:434: a role the model repeats, before or after the others,
\* adds no years, with or without dates of its own, and takes none away where
\* the model finds the copy not relevant: the scorecard is the one of the
\* answer without the repetition.
RepeatedRolesCountOnce ==
  scorecard # Null =>
    \A i \in DOMAIN answers.roles, relevant \in BOOLEAN :
      LET copy == [answers.roles[i] EXCEPT !.relevant = @ /\ relevant]
      IN  \A roles \in {Append(answers.roles, copy), <<copy>> \o answers.roles} :
            Scorecard(weights, Scored([answers EXCEPT !.roles = roles], blocks)) = scorecard

\* No role a candidate has costs points: without any one of them the score
\* would not be higher, even if its dates are missing, unreadable or reversed,
\* and wherever they were taken from.
RolesNeverCostPoints ==
  scorecard # Null /\ InRange(weights) =>
    \A i \in DOMAIN answers.roles :
      FinalRelevance(weights, Scored([answers EXCEPT !.roles = RemoveAt(@, i)], blocks))
        <= scorecard.finalRelevance

\* src/src/services/agents.py:85: completing dates costs no points, unless a
\* role has its whole range in the start field: with an end of its own, the
\* range is not split any more, but read as one date or not at all.
BackfillCostsOnlyRanges ==
  scorecard # Null /\ InRange(weights) =>
    \/ FinalRelevance(weights, answers) <= scorecard.finalRelevance
    \/ \E i \in DOMAIN answers.roles :
         Len(answers.roles[i].start) = 3 /\ Backfilled(answers.roles, blocks)[i] # answers.roles[i]

\* src/src/harness/evaluator.py:44: a criterion a task sets is judged as set,
\* and not judged at all if set to null, whatever the defaults say; and no
\* default makes a run fail: one that cannot be judged stated the offending
\* criterion itself.
DefaultsYieldToTheTask ==
  /\ stage = "judged" =>
       \A name \in DOMAIN task :
         IF task[name] = Null THEN name \notin DOMAIN report.checks
         ELSE name \in DOMAIN report.checks /\ report.checks[name].expected = task[name]
  /\ stage = "unjudged" =>
       \E name \in DOMAIN task : task[name] # Null /\ ~HasAttribute(result, name)

\* src/README.md:435: the final score is the "weighted sum of the applicable
\* pillar scores"; a request whose weights were accepted gets one.
AcceptedWeightsScore == entry = "api" => stage # "unscored"
===============================================================================
