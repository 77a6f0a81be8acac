---------------------------- MODULE ScoringEngine ------------------------------
(***************************************************************************)
(* src/src/services/scoring_engine.py: the scorecard of one comparison,    *)
(* as operators.                                                           *)
(*                                                                         *)
(* Numbers are integers: weights in percent, pillar scores in hundredths   *)
(* of a percent, final scores in tenths of one, years in hundredths.       *)
(* Dates are months.  A date text is a sequence: <<>> when it is missing,  *)
(* <<date>>, or, when one field holds a whole range, <<start, end, date>>  *)
(* with what the lenient parser makes of that field as a single date.      *)
(***************************************************************************)
EXTENDS Integers, SequencesExt, FiniteSetsExt

CONSTANTS
  Null,     (* no value *)
  Present,  (* "Present", "Current" or "Now" in a date *)
  Garbled,  (* a date that cannot be parsed *)
  Now       (* the month in which the run happens *)

Pillars == {"skills_match", "work_experience"}

\* round(a / b), for b > 0.
RoundDiv(a, b) == (2 * a + b) \div (2 * b)

AtMost(a, b) == IF a <= b THEN a ELSE b
AtLeast(a, b) == IF a >= b THEN a ELSE b

-------------------------------------------------------------------------------
(* RelevanceScoringEngine.__init__ *)

DefaultWeights == [p \in Pillars |-> IF p = "skills_match" THEN 60 ELSE 40]

\* The weights a task or a request may state add up.  A task may state them
\* for other pillars than the engine reads.
AddUp(weights) == SumFunction(weights) = 100

-------------------------------------------------------------------------------
(* calculate_duration_in_years *)

\* A role's two dates, or fewer.  A range in the start field is split only
\* if the end field is empty; else each field is read as one date.
Dates(role) ==
  IF <<>> \in {role.start, role.end} THEN Front(role.start)
  ELSE <<Last(role.start), Last(role.end)>>

Month(date) == IF date = Present THEN Now ELSE date

\* Mutant: a role that ends before it starts takes years away.
SignedDuration(role) ==
  LET dates == Dates(role)
  IN  IF Len(dates) # 2 \/ Garbled \in {dates[1], dates[2]} THEN 0
      ELSE RoundDiv(100 * (Month(dates[2]) - Month(dates[1])), 12)

\* A missing or unreadable date gives no years, and so does a role that ends
\* before it starts.
Duration(role) ==
  LET dates == Dates(role)
  IN  IF Len(dates) # 2 \/ Garbled \in {dates[1], dates[2]} THEN 0
      ELSE AtLeast(0, RoundDiv(100 * (Month(dates[2]) - Month(dates[1])), 12))

-------------------------------------------------------------------------------
(* calculate_scorecard *)

DedupKey(role) == <<role.title, role.start, role.end>>

\* Mutant: repetitions are dropped before it is asked what is relevant.
FirstListed(roles) ==
  {i \in DOMAIN roles :
     /\ roles[i].relevant
     /\ \A j \in 1 .. i - 1 : DedupKey(roles[j]) # DedupKey(roles[i])}

\* The relevant roles, without those that repeat an earlier relevant one.
Counted(roles) ==
  {i \in DOMAIN roles :
     /\ roles[i].relevant
     /\ \A j \in 1 .. i - 1 :
          roles[j].relevant => DedupKey(roles[j]) # DedupKey(roles[i])}

CareerYears(roles) ==
  SumFunctionOnSet([i \in DOMAIN roles |-> Duration(roles[i])], Counted(roles))

\* A listing's target in years is raised to 0.1 to be divided by.
TargetYears(target) == AtLeast(target, 10)

\* SkillMatchResult.match_percentage
MatchPercentage(skills) ==
  IF skills.total = 0 THEN 0 ELSE RoundDiv(10000 * skills.matched, skills.total)

\* The career score times TargetYears, which keeps it an integer.
ScaledExperience(answers) ==
  10000 * AtMost(CareerYears(answers.roles), TargetYears(answers.target))

\* Mutant: the weights of pillars that do not apply count too.
TotalWeight(weights, answers) ==
  SumFunctionOnSet(weights, Pillars \cap DOMAIN weights)

Applicable(answers) ==
  IF answers.target = Null THEN {"skills_match"} ELSE Pillars

\* The weights of the pillars that apply.
ActiveWeight(weights, answers) == SumFunctionOnSet(weights, Applicable(answers))

\* The weighted score of the pillars that apply, by their weight.
FinalRelevance(weights, answers) ==
  LET skills == weights["skills_match"] * MatchPercentage(answers.skills)
      active == ActiveWeight(weights, answers)
  IN  IF answers.target = Null
      THEN RoundDiv(skills, 10 * active)
      ELSE LET years == TargetYears(answers.target)
           IN  RoundDiv(skills * years +
                          weights["work_experience"] * ScaledExperience(answers),
                        10 * active * years)

PillarA(answers) == RoundDiv(MatchPercentage(answers.skills), 10)

PillarB(answers) ==
  IF answers.target = Null THEN 0
  ELSE RoundDiv(ScaledExperience(answers), 10 * TargetYears(answers.target))

\* It raises: a pillar that applies has no weight (KeyError), or those that
\* apply weigh nothing (ZeroDivisionError).
CannotScore(weights, answers) ==
  \/ ~(Applicable(answers) \subseteq DOMAIN weights)
  \/ ActiveWeight(weights, answers) = 0

Scorecard(weights, answers) ==
  [finalRelevance |-> FinalRelevance(weights, answers),
   pillarA |-> PillarA(answers),
   pillarB |-> PillarB(answers),
   countedRoles |-> Cardinality(Counted(answers.roles))]

\* It returns a card, whose fields hold percentages.
Scores(weights, answers) ==
  /\ ~CannotScore(weights, answers)
  /\ FinalRelevance(weights, answers) \in 0 .. 1000
===============================================================================
