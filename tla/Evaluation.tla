----------------------------- MODULE Evaluation --------------------------------
(***************************************************************************)
(* src/src/harness/evaluator.py: the criteria a result is judged by, and   *)
(* the judgement, as operators.                                            *)
(*                                                                         *)
(* Criteria are functions from the names that are set to a threshold or    *)
(* Null.  A result is a record whose fields are the attributes it has.     *)
(***************************************************************************)
EXTENDS Integers, Sequences, FiniteSetsExt

CONSTANT Null  (* no value *)

Criteria == {"min_final_relevance", "min_skills_match", "min_pii_spans",
             "max_execution_seconds", "max_attempts"}

CriterionRequires ==
  [min_final_relevance   |-> "scorecard",
   min_skills_match      |-> "metrics",
   min_pii_spans         |-> "pii_spans",
   max_execution_seconds |-> "execution_seconds",
   max_attempts          |-> "trace"]

HasAttribute(result, name) == CriterionRequires[name] \in DOMAIN result

-------------------------------------------------------------------------------
(* resolve_criteria *)

\* Mutant: a null in a task does not count as setting the criterion.
InheritsOverNull(result, task, defaults) ==
  {name \in DOMAIN defaults :
     /\ name \in DOMAIN task => task[name] = Null
     /\ defaults[name] # Null
     /\ name \in Criteria => HasAttribute(result, name)}

\* The defaults a task inherits: those it does not set itself, null or not,
\* and the result can answer.  A name that is no criterion passes.
Inherited(result, task, defaults) ==
  {name \in DOMAIN defaults \ DOMAIN task :
     /\ defaults[name] # Null
     /\ name \in Criteria => HasAttribute(result, name)}

ResolveCriteria(result, task, defaults) ==
  [name \in DOMAIN task \cup Inherited(result, task, defaults) |->
     IF name \in Inherited(result, task, defaults) THEN defaults[name] ELSE task[name]]

\* EvaluationCriteria forbids other fields.
ValidCriteria(criteria) == DOMAIN criteria \subseteq Criteria

-------------------------------------------------------------------------------
(* ThresholdEvaluator.evaluate *)

\* The most attempts of any step that called a model.
PeakAttempts(result) ==
  Max({0} \cup {result.trace[i] : i \in {j \in DOMAIN result.trace : result.trace[j] # Null}})

Actual(result, name) ==
  IF name = "max_attempts" THEN PeakAttempts(result)
  ELSE result[CriterionRequires[name]]

Judged(criteria) == {name \in DOMAIN criteria : criteria[name] # Null}

\* A criterion reaches for an attribute the result does not have.
CannotEvaluate(criteria, result) ==
  \E name \in Judged(criteria) : ~HasAttribute(result, name)

Passes(name, actual, threshold) ==
  IF name \in {"max_execution_seconds", "max_attempts"}
  THEN actual <= threshold ELSE actual >= threshold

Check(criteria, result, name) ==
  [expected |-> criteria[name],
   actual |-> Actual(result, name),
   passed |-> Passes(name, Actual(result, name), criteria[name])]

Evaluate(criteria, result) ==
  LET checks == [name \in Judged(criteria) |-> Check(criteria, result, name)]
  IN  [checks |-> checks, passed |-> \A name \in DOMAIN checks : checks[name].passed]
===============================================================================
