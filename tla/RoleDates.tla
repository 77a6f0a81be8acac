------------------------------- MODULE RoleDates --------------------------------
(***************************************************************************)
(* src/src/services/agents.py (_backfill_overall_experience_dates): the    *)
(* dates the model left out of a role are taken from the CV, as operators. *)
(*                                                                         *)
(* A title is a set of words.  What the CV says of its roles explicitly is *)
(* a sequence of blocks [title, start, end], with dates as in              *)
(* ScoringEngine; a block without a title is not found by the code.        *)
(***************************************************************************)
EXTENDS ScoringEngine

\* _normalize_title: words that every title has are not compared.
CommonWords == {"and", "full", "stack", "developer"}

TitlesOverlap(left, right) == (left \cap right) \ CommonWords # {}

\* Mutant: what the CV says is preferred to what the model says.
Overruled(role, block) == [role EXCEPT !.start = block.start, !.end = block.end]

\* A date that is there is kept.
Completed(role, block) ==
  [role EXCEPT !.start = IF @ = <<>> THEN block.start ELSE @,
               !.end = IF @ = <<>> THEN block.end ELSE @]

\* The first block whose title overlaps gives the dates.
Backfilled(roles, blocks) ==
  [i \in DOMAIN roles |->
     LET same == {k \in DOMAIN blocks : TitlesOverlap(roles[i].title, blocks[k].title)}
     IN  IF same = {} THEN roles[i] ELSE Completed(roles[i], blocks[Min(same)])]
===============================================================================
