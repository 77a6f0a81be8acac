----------------------------- MODULE MCAssessment ------------------------------
(***************************************************************************)
(* Model checking Assessment: the weights at and over the edges of their   *)
(* range, up to two roles with every kind of date, no requirement and no   *)
(* target, and criteria stated, inherited, switched off and misspelt.      *)
(***************************************************************************)
EXTENDS Assessment

MCOverrides ==
  {<<>>, [skills_match |-> 0, work_experience |-> 100], [skills_match |-> 100],
   [skills_match |-> 33, work_experience |-> 67],
   [skills_match |-> 150, work_experience |-> -50]}

MCTaskWeights ==
  {<<>>, [skills_match |-> 100], [skills_match |-> 150, work_experience |-> -50],
   [skills_match |-> 20, work_experience |-> 80]}

\* Started ten months ago and running, two years in one field (which as one
\* date read as its start, or not at all), four years and back to a range,
\* unreadable, without a start.
MCRoles ==
  {[title |-> {"web", "developer"}, start |-> <<110>>, end |-> <<Present>>, relevant |-> TRUE],
   [title |-> {"web", "developer"}, start |-> <<60, 84, 60>>, end |-> <<>>, relevant |-> TRUE],
   [title |-> {"ops"}, start |-> <<60, 84, Garbled>>, end |-> <<>>, relevant |-> FALSE],
   [title |-> {"ops"}, start |-> <<84>>, end |-> <<24, 36, 36>>, relevant |-> TRUE],
   [title |-> {"web", "developer"}, start |-> <<Garbled>>, end |-> <<84>>, relevant |-> TRUE],
   [title |-> {"web", "developer"}, start |-> <<>>, end |-> <<84>>, relevant |-> TRUE]}

\* Nothing, or two roles of which the first has a word of a title.
MCBlocks ==
  {<<>>, <<[title |-> {"web", "and", "ops"}, start |-> <<78>>, end |-> <<84>>],
           [title |-> {"full", "stack", "developer"}, start |-> <<30>>, end |-> <<60>>]>>}

MCAnswers ==
  [skills : {[matched |-> 0, total |-> 0], [matched |-> 1, total |-> 3],
             [matched |-> 3, total |-> 3]},
   roles  : {<<>>} \cup {<<r>> : r \in MCRoles} \cup {<<q, r>> : q, r \in MCRoles},
   target : {Null, 0, 300}]

MCPIISpanCounts == {0, 2}
MCTraces == {<<Null>>, <<1, 2, Null>>}

MCTaskCriteria ==
  {<<>>, [min_final_relevance |-> 500], [min_final_relevance |-> Null],
   [min_pii_spans |-> 1, max_attempts |-> Null], [max_attempts |-> 2]}

MCDefaultCriteria ==
  {<<>>, [max_execution_seconds |-> 60, max_attempts |-> 1],
   [min_final_relevance |-> 300, min_skills_match |-> 5000, min_pii_spans |-> Null],
   [min_pii_spans |-> 1], [max_attempt |-> 1]}
===============================================================================
