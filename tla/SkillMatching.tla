----------------------------- MODULE SkillMatching ------------------------------
(***************************************************************************)
(* src/src/services/agents.py (SkillMatcherAgent) and                      *)
(* src/src/schemas/requirements.py: how the requirements of a listing are  *)
(* divided into those a CV meets and those it misses, from what the model  *)
(* says and from what the CV says literally.                               *)
(*                                                                         *)
(* Requirements are a sequence of names, each a text; a requirement's id   *)
(* is its position.                                                        *)
(***************************************************************************)
EXTENDS Documents

\* _SKILL_NAME_ALIASES
SkillNameAliases ==
  [name \in {<<"react">>, <<"node", ".", "js">>,
             <<"java", "script", Space, "or", Space, "type", "script">>,
             <<"rest", Space, "apis">>, <<"postgres", "ql">>, <<"git">>} |->
     CASE name = <<"react">> -> {<<"react">>, <<"react", ".", "js">>, <<"react", "js">>}
       [] name = <<"node", ".", "js">> ->
            {<<"node", ".", "js">>, <<"node", "js">>, <<"node", Space, "js">>}
       [] name = <<"java", "script", Space, "or", Space, "type", "script">> ->
            {<<"java", "script">>, <<"type", "script">>}
       [] name = <<"rest", Space, "apis">> ->
            {<<"rest", Space, "api">>, <<"rest", Space, "apis">>}
       [] name = <<"postgres", "ql">> -> {<<"postgres", "ql">>, <<"postgres">>}
       [] name = <<"git">> -> {<<"git">>}]

AliasesFor(name) ==
  IF Strip(name) \in DOMAIN SkillNameAliases THEN SkillNameAliases[Strip(name)] ELSE {name}

\* No word borders on the name, whatever symbols its edges are.
StandsAlone(text, name, i) ==
  /\ MatchesAt(text, name, i)
  /\ i > 1 => ~IsWord(text[i - 1])
  /\ i + Len(name) <= Len(text) => ~IsWord(text[i + Len(name)])

\* _contains_skill_name
ContainsSkillName(text, name) ==
  \E alias \in AliasesFor(name), i \in DOMAIN text : StandsAlone(text, alias, i)

\* Mutant: names may be repeated.
AnyRequirements(requirements) == \A i \in DOMAIN requirements : requirements[i] # <<>>

\* JobRequirementsOutput: no name is empty or repeated.
ValidRequirements(requirements) ==
  /\ \A i \in DOMAIN requirements : requirements[i] # <<>>
  /\ \A i, j \in DOMAIN requirements :
       i # j => Strip(requirements[i]) # Strip(requirements[j])

\* The model's answer decides every requirement once, and nothing else.
ValidDecision(evaluations, requirements) ==
  LET ids == [i \in DOMAIN evaluations |-> evaluations[i].id]
  IN  /\ \A i, j \in DOMAIN ids : i # j => ids[i] # ids[j]
      /\ {ids[i] : i \in DOMAIN ids} = DOMAIN requirements

\* What the model says is met, and what the CV names literally.
MatchedIds(text, requirements, evaluations) ==
  {evaluations[i].id : i \in {j \in DOMAIN evaluations : evaluations[j].matched}} \cup
  {id \in DOMAIN requirements : ContainsSkillName(text, requirements[id])}

\* In the order of the list.
NamesOf(requirements, ids) ==
  LET order == CHOOSE s \in SetToSeqs(ids) : \A i, j \in DOMAIN s : i < j => s[i] < s[j]
  IN  [k \in DOMAIN order |-> requirements[order[k]]]

\* SkillMatcherAgent.run, after a valid answer.
SkillEvaluation(text, requirements, evaluations) ==
  LET matched == MatchedIds(text, requirements, evaluations)
  IN  [matched |-> NamesOf(requirements, matched),
       missing |-> NamesOf(requirements, DOMAIN requirements \ matched)]

\* SkillMatchResult accepts the evaluation.
ValidSkillMatch(requirements, skills) ==
  LET Distinct(s) == \A i, j \in DOMAIN s : i # j => s[i] # s[j]
      Names(s) == {s[i] : i \in DOMAIN s}
  IN  /\ Distinct(requirements) /\ Distinct(skills.matched) /\ Distinct(skills.missing)
      /\ Names(skills.matched) \cap Names(skills.missing) = {}
      /\ Names(skills.matched) \cup Names(skills.missing) = Names(requirements)
===============================================================================
