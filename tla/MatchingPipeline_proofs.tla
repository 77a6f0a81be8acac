------------------------ MODULE MatchingPipeline_proofs ------------------------
(***************************************************************************)
(* Proofs about MatchingPipeline, for any number of models behind each     *)
(* client and any number of attempts.                                      *)
(*                                                                         *)
(* The argument: a thread's calls go to the client that is its own, so     *)
(* what a client says of its last call is about the last step of one       *)
(* thread; and when the main thread reports, the worker has ended.         *)
(* The trace holds one span of each step that is over, true to what was    *)
(* noted of it, and the steps started at different times: so there is one  *)
(* order to sort three spans into, and the scoring comes after them.       *)
(***************************************************************************)
EXTENDS MatchingPipeline, FiniteSetTheorems, SequenceTheorems, TLAPS

USE CallersAssumption, ClientsAssumption, NumModelsAssumption, MaxAttemptsAssumption

-------------------------------------------------------------------------------
(* The steps of a call keep the types and the client *)

OwnClient == \A t \in Callers : call[t].open => call[t].client = ClientOf(t)

CInv == ClientTypeOK /\ OwnClient

\* A call begins with the first model and no attempts.
LEMMA OpenKeepsCInv ==
  ASSUME CInv, NEW t \in Callers, OpenCall(t, ClientOf(t))
  PROVE  CInv'
<1>1. ClientOf(t) \in Clients
  BY DEF ClientOf
<1>2. Begun(ClientOf(t), 1) \in Call
  BY <1>1 DEF Begun, Call, Models
<1>3. call \in [Callers -> Call] /\ call' = [call EXCEPT ![t] = Begun(ClientOf(t), 1)]
  BY DEF CInv, ClientTypeOK, OpenCall
<1>4. ClientTypeOK'
  BY <1>2, <1>3 DEF CInv, ClientTypeOK, OpenCall
<1>5. Begun(ClientOf(t), 1).client = ClientOf(t)
  BY DEF Begun
<1>6. OwnClient'
  BY <1>3, <1>5 DEF CInv, OwnClient, ClientOf
<1> QED
  BY <1>4, <1>6 DEF CInv

\* A call goes on with the next model, if there is one.
LEMMA FallBackKeepsCInv ==
  ASSUME CInv, NEW t \in Callers, FallBack(t)
  PROVE  CInv'
<1> DEFINE next == Begun(call[t].client, call[t].model + 1)
<1>1. /\ call \in [Callers -> Call] /\ call[t] \in Call
      /\ call' = [call EXCEPT ![t] = next]
      /\ call[t].open /\ call[t].model < NumModels
  BY DEF CInv, ClientTypeOK, FallBack
<1>2. next \in Call /\ next.client = call[t].client
  BY <1>1 DEF Begun, Call, Models
<1>3. ClientTypeOK'
  BY <1>1, <1>2 DEF CInv, ClientTypeOK, FallBack
<1>4. OwnClient'
  BY <1>1, <1>2 DEF CInv, OwnClient, ClientOf
<1> QED
  BY <1>3, <1>4 DEF CInv

\* An attempt counts for the calls open on its client, up to the limit.
LEMMA AttemptKeepsCInv ==
  ASSUME CInv, NEW t \in Callers, Attempt(t)
  PROVE  CInv'
<1>1. call \in [Callers -> Call]
  BY DEF CInv, ClientTypeOK
<1>2. ASSUME NEW u \in Callers
      PROVE  /\ call'[u] \in Call
             /\ call'[u].open = call[u].open
             /\ call'[u].client = call[u].client
  <2> DEFINE m == IF u = t THEN call[u].made + 1 ELSE call[u].made
             n == IF SameInstructorClient(t, u) THEN call[u].counted + 1
                                                ELSE call[u].counted
  <2>1. call[u] \in Call
    BY <1>1
  <2>2. m \in Nat /\ n \in Nat
    BY <2>1 DEF Call
  <2>3. call'[u] = [call[u] EXCEPT !.made = m, !.counted = n]
    BY DEF Attempt
  <2> HIDE DEF m, n
  <2> QED
    BY <2>1, <2>2, <2>3 DEF Call
<1>3. call' \in [Callers -> Call]
  <2>1. DOMAIN call' = Callers /\ call' = [u \in Callers |-> call'[u]]
    BY DEF Attempt
  <2> QED
    BY <1>2, <2>1
<1>4. ClientTypeOK' /\ OwnClient'
  BY <1>2, <1>3 DEF CInv, ClientTypeOK, OwnClient, Attempt, ClientOf
<1> QED
  BY <1>4 DEF CInv

\* A call that ends leaves its client with the model and the attempts it had.
LEMMA EndKeepsCInv ==
  ASSUME CInv, NEW t \in Callers, Serve(t) \/ CallRaises(t)
  PROVE  CInv'
<1>1. call \in [Callers -> Call] /\ call[t] \in Call
  BY DEF CInv, ClientTypeOK
<1>2. /\ call[t].client \in Clients
      /\ call[t].model \in Models
      /\ call[t].counted \in Nat
  BY <1>1 DEF Call
<1>3. call' = [call EXCEPT ![t].open = FALSE]
  BY DEF Serve, CallRaises
<1>4. call' \in [Callers -> Call]
  BY <1>1, <1>3 DEF Call
<1>5. active' \in [Clients -> Models] /\ lastAttempts' \in [Clients -> Nat]
  BY <1>2 DEF CInv, ClientTypeOK, Serve, CallRaises
<1>6. OwnClient'
  BY <1>1, <1>3 DEF CInv, OwnClient, ClientOf, Call
<1> QED
  BY <1>4, <1>5, <1>6 DEF CInv, ClientTypeOK

\* The types of clients and calls are kept by every step.
LEMMA CInvStep == CInv /\ [Next]_vars => CInv'
<1> SUFFICES ASSUME CInv, [Next]_vars
             PROVE  CInv'
  OBVIOUS
<1>1. ASSUME NEW t \in Callers,
             ThreadStep(t) \/ Fault(t)
      PROVE  CInv'
  <2>1. CASE UNCHANGED clientVars
    BY <2>1 DEF CInv, ClientTypeOK, OwnClient, clientVars, ClientOf
  <2> QED
    BY <1>1, <2>1, OpenKeepsCInv, FallBackKeepsCInv, AttemptKeepsCInv, EndKeepsCInv
       DEF ThreadStep, Fault, StartStep, AttemptStep, ServeStep, FinishStep,
           FallBackStep, CallRaisesStep, StepRaises
<1>2. CASE UNCHANGED clientVars
  BY <1>2 DEF CInv, ClientTypeOK, OwnClient, clientVars, ClientOf
<1> QED
  BY <1>1, <1>2
     DEF Next, MainStep, Submit, Join, Shutdown, Score, Report, ScoreRaises, Over,
         vars, clientVars

-------------------------------------------------------------------------------
(* Who does which step *)

Places == {"idle", "ready", "calling", "served", "join", "score", "scored", "raised",
           "failed", "done"}

\* The last step of the main thread.
LastStep == IF concurrent THEN "skills" ELSE "experience"

\* The worker only evaluates the experience, and only when there is one; the
\* main thread is past its last step when it joins, scores and reports, and it
\* scores beside no worker.
ControlInv ==
  /\ concurrent \in BOOLEAN
  /\ pc \in [Callers -> Places]
  /\ step \in [Callers -> LLMSteps]
  /\ step["worker"] = "experience"
  /\ pc["worker"] # "idle" => concurrent
  /\ concurrent => step["main"] # "experience"
  /\ pc["main"] \in {"join", "score", "scored", "done"} => step["main"] = LastStep
  /\ pc["main"] = "join" => concurrent
  /\ pc["main"] \in {"score", "scored", "done"} /\ concurrent => pc["worker"] = "done"

\* The two threads keep their places relative to each other.
LEMMA ControlStep == ControlInv /\ [Next]_vars => ControlInv'
<1> SUFFICES ASSUME ControlInv, [Next]_vars
             PROVE  ControlInv'
  OBVIOUS
<1> USE DEF ControlInv, Places, LLMSteps, LastStep, Goto
<1>1. CASE Submit
  BY <1>1 DEF Submit
<1>2. ASSUME NEW t \in Callers, StartStep(t) PROVE ControlInv'
  BY <1>2 DEF StartStep
<1>3. ASSUME NEW t \in Callers, AttemptStep(t) \/ FallBackStep(t) PROVE ControlInv'
  BY <1>3 DEF AttemptStep, FallBackStep, threadVars
<1>4. ASSUME NEW t \in Callers, ServeStep(t) PROVE ControlInv'
  BY <1>4 DEF ServeStep
<1>5. ASSUME NEW t \in Callers, CallRaisesStep(t) \/ StepRaises(t) PROVE ControlInv'
  BY <1>5 DEF CallRaisesStep, StepRaises
<1>6. ASSUME NEW t \in Callers, FinishStep(t) PROVE ControlInv'
  <2>1. CASE t = "worker"
    BY <1>6, <2>1 DEF FinishStep, After
  <2>2. CASE t = "main" /\ step[t] = "requirements"
    BY <1>6, <2>2 DEF FinishStep, After
  <2>3. CASE t = "main" /\ step[t] = "skills" /\ concurrent
    BY <1>6, <2>3 DEF FinishStep, After
  <2>4. CASE t = "main" /\ step[t] = "skills" /\ ~ concurrent
    BY <1>6, <2>4 DEF FinishStep, After
  <2>5. CASE t = "main" /\ step[t] = "experience"
    BY <1>6, <2>5 DEF FinishStep, After
  <2> QED
    BY <2>1, <2>2, <2>3, <2>4, <2>5
<1>7. CASE Join
  BY <1>7 DEF Join, WorkerEnded
<1>8. CASE Shutdown
  BY <1>8 DEF Shutdown
<1>9. CASE Score \/ ScoreRaises
  BY <1>9 DEF Score, ScoreRaises
<1>10. CASE Report
  BY <1>10 DEF Report
<1>11. CASE UNCHANGED vars
  BY <1>11 DEF vars
<1> QED
  BY <1>1, <1>2, <1>3, <1>4, <1>5, <1>6, <1>7, <1>8, <1>9, <1>10, <1>11
     DEF Next, MainStep, ThreadStep, Fault, Over

-------------------------------------------------------------------------------
(* What the clients say of the run *)

\* A client's active model is the one that served its thread's last step, and
\* the primary as long as it has served none.
ServedInv ==
  /\ servedBy \in [LLMSteps -> 0 .. NumModels]
  /\ pc["main"] = "served" => servedBy[step["main"]] = active["evaluation"]
  /\ pc["main"] \in {"join", "score", "scored", "done"} =>
       servedBy[LastStep] = active["evaluation"]
  /\ active["experience"] # 1 =>
       concurrent /\ servedBy["experience"] = active["experience"]

ReportInv ==
  report.there =>
    /\ pc["main"] = "done"
    /\ report.engine = active["evaluation"]
    /\ report.fallbackUsed \in BOOLEAN
    /\ report.fallbackUsed => active["evaluation"] # 1 \/ active["experience"] # 1

\* What a served step changes.
LEMMA WhatServeStepDoes ==
  ASSUME CInv, ControlInv, servedBy \in [LLMSteps -> 0 .. NumModels],
         NEW t \in Callers, ServeStep(t)
  PROVE  \E m \in Models :
           /\ active' = [active EXCEPT ![ClientOf(t)] = m]
           /\ servedBy' = [servedBy EXCEPT ![step[t]] = m]
           /\ pc[t] = "calling" /\ pc' = [pc EXCEPT ![t] = "served"]
           /\ UNCHANGED <<concurrent, step, report>>
<1>1. call[t] \in Call /\ call[t].open
  BY DEF CInv, ClientTypeOK, ServeStep, Serve
<1>2. call[t].client = ClientOf(t) /\ call[t].model \in Models
  BY <1>1 DEF CInv, OwnClient, Call
<1> QED
  BY <1>2 DEF ServeStep, Serve, Goto

\* What the steps served so far, and by which model, stays in step with the threads.
LEMMA ServedStep ==
  ASSUME CInv, ControlInv, ServedInv, [Next]_vars
  PROVE  ServedInv'
<1>0. /\ pc \in [Callers -> Places] /\ step \in [Callers -> LLMSteps]
      /\ active \in [Clients -> Models]
      /\ servedBy \in [LLMSteps -> 0 .. NumModels]
  BY DEF CInv, ClientTypeOK, ControlInv, ServedInv
<1>1. ASSUME NEW t \in Callers, ServeStep(t) PROVE ServedInv'
  <2>1. PICK m \in Models :
          /\ active' = [active EXCEPT ![ClientOf(t)] = m]
          /\ servedBy' = [servedBy EXCEPT ![step[t]] = m]
          /\ pc[t] = "calling" /\ pc' = [pc EXCEPT ![t] = "served"]
          /\ UNCHANGED <<concurrent, step, report>>
    BY <1>0, <1>1, WhatServeStepDoes
  <2>2. servedBy' \in [LLMSteps -> 0 .. NumModels]
    BY <1>0, <2>1 DEF Models
  <2>3. CASE t = "main"
    BY <1>0, <2>1, <2>2, <2>3
       DEF ServedInv, ControlInv, ClientOf, LastStep, LLMSteps
  <2>4. CASE t = "worker"
    BY <1>0, <2>1, <2>2, <2>4
       DEF ServedInv, ControlInv, ClientOf, LastStep, LLMSteps
  <2> QED
    BY <2>3, <2>4
<1>2. ASSUME UNCHANGED <<concurrent, active, servedBy>>
      PROVE  ServedInv'
  <2>1. CASE UNCHANGED <<pc, step>>
    BY <1>2, <2>1 DEF ServedInv, LastStep
  <2>2. ASSUME NEW t \in Callers, FinishStep(t) PROVE ServedInv'
    <3>1. CASE t = "worker"
      BY <1>0, <1>2, <2>2, <3>1 DEF FinishStep, After, Goto, ServedInv, LastStep, ControlInv
    <3>2. CASE t = "main"
      BY <1>0, <1>2, <2>2, <3>2
         DEF FinishStep, After, Goto, ServedInv, LastStep, ControlInv, LLMSteps
    <3> QED
      BY <3>1, <3>2
  <2>3. ASSUME NEW t \in Callers,
               StartStep(t) \/ CallRaisesStep(t) \/ StepRaises(t)
        PROVE  ServedInv'
    BY <1>0, <1>2, <2>3
       DEF StartStep, CallRaisesStep, StepRaises, Goto, ServedInv, LastStep
  <2>4. CASE Submit \/ Join \/ Shutdown \/ Score \/ ScoreRaises \/ Report
    BY <1>0, <1>2, <2>4
       DEF Submit, Join, Shutdown, Score, ScoreRaises, Report, Goto, ServedInv, LastStep
  <2>5. ASSUME NEW t \in Callers, ServeStep(t) PROVE ServedInv'
    BY <1>1, <2>5
  <2> QED
    BY <2>1, <2>2, <2>3, <2>4, <2>5
       DEF Next, MainStep, ThreadStep, Fault, Over, vars, AttemptStep, FallBackStep,
           threadVars
<1>3. \/ \E t \in Callers : ServeStep(t)
      \/ UNCHANGED <<concurrent, active, servedBy>>
  BY DEF Next, MainStep, ThreadStep, Fault, Over, Submit, StartStep, AttemptStep,
         FallBackStep, CallRaisesStep, FinishStep, StepRaises, Join, Shutdown, Score,
         ScoreRaises, Report, vars, history, clientVars, OpenCall, Attempt, FallBack,
         CallRaises
<1> QED
  BY <1>1, <1>2, <1>3

\* A report is made from what the clients say when both threads are done.
LEMMA ReportStep ==
  ASSUME CInv, ControlInv, ServedInv, ReportInv, [Next]_vars
  PROVE  ReportInv'
<1>0. pc \in [Callers -> Places] /\ active \in [Clients -> Models]
  BY DEF CInv, ClientTypeOK, ControlInv
<1>1. CASE Report
  <2>1. /\ report' = [there |-> TRUE,
                      engine |-> active["evaluation"],
                      fallbackUsed |-> FallbackUsed("evaluation") \/ FallbackUsed("experience")]
        /\ pc'["main"] = "done" /\ active' = active
    BY <1>0, <1>1 DEF Report, Goto, clientVars
  <2> QED
    BY <2>1 DEF ReportInv, FallbackUsed
<1>2. CASE report' = report /\ ~ report.there
  BY <1>2 DEF ReportInv
<1>3. CASE report' = report /\ report.there
  <2>1. pc["main"] = "done" /\ (concurrent => pc["worker"] = "done")
    BY <1>3 DEF ReportInv, ControlInv
  <2>2. pc["worker"] \in {"idle", "done"}
    BY <2>1 DEF ControlInv
  <2>3. UNCHANGED <<pc, active>>
    BY <2>1, <2>2
       DEF Next, MainStep, ThreadStep, Fault, Over, Submit, StartStep, AttemptStep,
           ServeStep, FallBackStep, CallRaisesStep, FinishStep, StepRaises, Join, Shutdown,
           Score, ScoreRaises, Report, vars, clientVars, Goto, ControlInv
  <2> QED
    BY <1>3, <2>1, <2>3 DEF ReportInv
<1> QED
  BY <1>1, <1>2, <1>3
     DEF Next, MainStep, ThreadStep, Fault, Over, Submit, StartStep, AttemptStep,
         ServeStep, FallBackStep, CallRaisesStep, FinishStep, StepRaises, Join, Shutdown,
         Score, ScoreRaises, vars

-------------------------------------------------------------------------------

RInv == CInv /\ ControlInv /\ ServedInv /\ ReportInv

\* At the start no call is open and nothing is reported.
LEMMA RInvInit == Init => RInv
<1> SUFFICES ASSUME Init
             PROVE  RInv
  OBVIOUS
<1>1. CInv
  <2> DEFINE first == CHOOSE c \in Clients : TRUE
  <2>1. first \in Clients /\ 1 \in Models
    BY DEF Models
  <2>2. call \in [Callers -> [open : {FALSE}, client : {first}, model : {1},
                              made : {0}, counted : {0}]]
    BY DEF Init, ClientInit
  <2> HIDE DEF first
  <2>3. ASSUME NEW t \in Callers PROVE call[t] \in Call /\ ~ call[t].open
    <3>1. call[t] \in [open : {FALSE}, client : {first}, model : {1}, made : {0},
                       counted : {0}]
      BY <2>2
    <3>2. call[t].open \in {FALSE}
      BY <3>1
    <3>3. ~ call[t].open
      BY <3>2, Zenon
    <3>4. {FALSE} \subseteq BOOLEAN /\ {first} \subseteq Clients
          /\ {1} \subseteq Models /\ {0} \subseteq Nat
      BY <2>1
    <3>5. call[t] \in Call
      BY <3>1, <3>4, Zenon DEF Call
    <3> QED
      BY <3>3, <3>5
  <2>4. call \in [Callers -> Call]
    BY <2>2, <2>3
  <2>5. ClientTypeOK
    BY <2>4 DEF Init, ClientInit, ClientTypeOK, Models
  <2> QED
    BY <2>3, <2>5 DEF CInv, OwnClient
<1>2. ControlInv
  BY DEF Init, ControlInv, Places, LLMSteps, LastStep
<1>3. ServedInv
  BY DEF Init, ClientInit, ServedInv, LLMSteps
<1>4. ReportInv
  BY DEF Init, ReportInv, NoReport
<1> QED
  BY <1>1, <1>2, <1>3, <1>4 DEF RInv

\* Calls, places, served steps and the report are as described, always.
LEMMA RInvAlways == Spec => []RInv
<1>1. RInv /\ [Next]_vars => RInv'
  BY CInvStep, ControlStep, ServedStep, ReportStep DEF RInv
<1> QED
  BY <1>1, RInvInit, PTL DEF Spec

\* The engine a run reports is the model that served the evaluation client's
\* last step, and a run reported as a fallback run had a step that a fallback
\* served, with any number of models and whatever the worker does meanwhile.
THEOREM ReportsAreTrue == Spec => []ReportIsTrue
<1>1. RInv => ReportIsTrue
  <2> SUFFICES ASSUME RInv, report.there
               PROVE  /\ report.engine = servedBy[LastStep]
                      /\ report.fallbackUsed => \E s \in LLMSteps : servedBy[s] # 1
    BY DEF ReportIsTrue, LastStep
  <2>1. /\ report.engine = active["evaluation"]
        /\ servedBy[LastStep] = active["evaluation"]
        /\ report.fallbackUsed => active["evaluation"] # 1 \/ active["experience"] # 1
        /\ active["experience"] # 1 => servedBy["experience"] = active["experience"]
    BY DEF RInv, ReportInv, ServedInv
  <2>2. LastStep \in LLMSteps /\ "experience" \in LLMSteps
    BY DEF LastStep, LLMSteps
  <2> QED
    BY <2>1, <2>2
<1> QED
  BY <1>1, RInvAlways, PTL

-------------------------------------------------------------------------------
(* When the steps started *)

Timed == LLMSteps \cup {"scoring"}

Started == {s \in Timed : startedAt[s] # 0}

\* No two steps started at once, and none that is still to come has started.
ClockInv ==
  /\ startedAt \in [Timed -> Nat]
  /\ \A s \in Timed : startedAt[s] <= Cardinality(Started)
  /\ \A r, s \in Started : startedAt[r] = startedAt[s] => r = s
  /\ \A t \in Callers : pc[t] = "ready" => startedAt[step[t]] = 0
  /\ \A t \in Callers : pc[t] \in {"calling", "served"} => startedAt[step[t]] # 0
  /\ step["main"] = "requirements" => startedAt["skills"] = 0
  /\ IF concurrent THEN pc["worker"] = "idle" => startedAt["experience"] = 0
     ELSE step["main"] # "experience" => startedAt["experience"] = 0
  /\ pc["main"] \notin {"scored", "done"} => startedAt["scoring"] = 0

\* What starts next starts later than everything that did.
LEMMA NowIsNew ==
  ASSUME ClockInv, NEW s \in Timed, startedAt[s] = 0,
         startedAt' = [startedAt EXCEPT ![s] = Now]
  PROVE  /\ Now \in Nat \ {0}
         /\ \A r \in Timed : startedAt[r] < Now
         /\ startedAt' \in [Timed -> Nat]
         /\ \A r \in Timed : startedAt'[r] <= Cardinality(Started')
         /\ \A q, r \in Started' : startedAt'[q] = startedAt'[r] => q = r
<1>1. DOMAIN startedAt = Timed /\ startedAt \in [Timed -> Nat]
  BY DEF ClockInv
<1>2. IsFiniteSet(Started)
  <2>1. IsFiniteSet({}) /\ IsFiniteSet({"requirements"})
    BY FS_EmptySet, FS_Singleton
  <2>2. IsFiniteSet({"requirements"} \cup {"skills"})
    BY <2>1, FS_AddElement
  <2>3. IsFiniteSet(({"requirements"} \cup {"skills"}) \cup {"experience"})
    BY <2>2, FS_AddElement
  <2>4. IsFiniteSet((({"requirements"} \cup {"skills"}) \cup {"experience"}) \cup {"scoring"})
    BY <2>3, FS_AddElement
  <2>5. Started \subseteq ((({"requirements"} \cup {"skills"}) \cup {"experience"}) \cup {"scoring"})
    BY DEF Started, Timed, LLMSteps
  <2> QED
    BY <2>4, <2>5, FS_Subset
<1>3. Now = Cardinality(Started) + 1 /\ Cardinality(Started) \in Nat
  BY <1>1, <1>2, FS_CardinalityType DEF Now, Started
<1>4. \A r \in Timed : startedAt[r] < Now
  BY <1>1, <1>3 DEF ClockInv
<1>5. startedAt' \in [Timed -> Nat] /\ startedAt'[s] = Now
      /\ \A r \in Timed \ {s} : startedAt'[r] = startedAt[r]
  BY <1>1, <1>3
<1>6. Started' = Started \cup {s} /\ s \notin Started
  BY <1>3, <1>5 DEF Started
<1>7. Cardinality(Started') = Now
  BY <1>2, <1>3, <1>6, FS_AddElement
<1>8. \A r \in Timed : startedAt'[r] <= Cardinality(Started')
  <2> SUFFICES ASSUME NEW r \in Timed PROVE startedAt'[r] <= Now
    BY <1>7
  <2>1. CASE r = s
    BY <1>3, <1>5, <2>1
  <2>2. CASE r # s
    BY <1>1, <1>3, <1>4, <1>5, <2>2
  <2> QED
    BY <2>1, <2>2
<1>9. \A q, r \in Started' : startedAt'[q] = startedAt'[r] => q = r
  <2> SUFFICES ASSUME NEW q \in Started', NEW r \in Started', startedAt'[q] = startedAt'[r]
               PROVE  q = r
    OBVIOUS
  <2>1. q \in Timed /\ r \in Timed
    BY DEF Started
  <2>2. CASE q = s \/ r = s
    BY <1>1, <1>3, <1>4, <1>5, <2>1, <2>2
  <2>3. CASE q # s /\ r # s
    BY <1>5, <1>6, <2>1, <2>3 DEF ClockInv
  <2> QED
    BY <2>2, <2>3
<1> QED
  BY <1>3, <1>4, <1>5, <1>8, <1>9

\* The clock of starts goes on, and a step that runs has its own start.
LEMMA ClockStep ==
  ASSUME ControlInv, ClockInv, [Next]_vars
  PROVE  ClockInv'
<1>0. /\ pc \in [Callers -> Places] /\ step \in [Callers -> LLMSteps]
      /\ startedAt \in [Timed -> Nat] /\ LLMSteps \subseteq Timed
  BY DEF ControlInv, ClockInv, Timed
<1>1. ASSUME NEW t \in Callers, StartStep(t) PROVE ClockInv'
  <2>1. /\ step[t] \in Timed /\ startedAt[step[t]] = 0
        /\ startedAt' = [startedAt EXCEPT ![step[t]] = Now]
        /\ pc[t] = "ready" /\ pc' = [pc EXCEPT ![t] = "calling"]
        /\ UNCHANGED <<step, concurrent>>
        /\ concurrent => pc["worker"] # "idle"
    BY <1>0, <1>1 DEF StartStep, Goto, ClockInv
  <2>2. /\ Now \in Nat \ {0}
        /\ startedAt' \in [Timed -> Nat]
        /\ \A r \in Timed : startedAt'[r] <= Cardinality(Started')
        /\ \A q, r \in Started' : startedAt'[q] = startedAt'[r] => q = r
    BY <2>1, NowIsNew
  <2>3. /\ startedAt'[step[t]] = Now
        /\ \A r \in Timed : r # step[t] => startedAt'[r] = startedAt[r]
    BY <1>0, <2>1
  <2>4. step[t] # "scoring" /\ "scoring" \in Timed /\ "skills" \in Timed /\ "experience" \in Timed
    BY <1>0 DEF LLMSteps, Timed
  <2>5. ASSUME NEW u \in Callers, u # t, pc[u] \in {"ready", "calling", "served"}
        PROVE  step[u] # step[t]
    BY <1>0, <2>1, <2>5 DEF ControlInv
  <2> HIDE DEF Now
  <2>6. \A u \in Callers : /\ pc'[u] = "ready" => startedAt'[step'[u]] = 0
                           /\ pc'[u] \in {"calling", "served"} => startedAt'[step'[u]] # 0
    BY <1>0, <2>1, <2>2, <2>3, <2>5 DEF ClockInv
  <2>7. step'["main"] = "requirements" => startedAt'["skills"] = 0
    BY <2>1, <2>3, <2>4 DEF ClockInv, ControlInv
  <2>8. IF concurrent' THEN pc'["worker"] = "idle" => startedAt'["experience"] = 0
        ELSE step'["main"] # "experience" => startedAt'["experience"] = 0
    BY <1>0, <2>1, <2>3, <2>4 DEF ClockInv, ControlInv
  <2>9. pc'["main"] \notin {"scored", "done"} => startedAt'["scoring"] = 0
    BY <1>0, <2>1, <2>3, <2>4 DEF ClockInv
  <2> QED
    BY <2>2, <2>6, <2>7, <2>8, <2>9 DEF ClockInv
<1>2. CASE Score
  <2>1. /\ "scoring" \in Timed /\ startedAt["scoring"] = 0
        /\ startedAt' = [startedAt EXCEPT !["scoring"] = Now]
        /\ pc["main"] = "score" /\ pc' = [pc EXCEPT !["main"] = "scored"]
        /\ UNCHANGED <<step, concurrent>>
    BY <1>0, <1>2 DEF Score, Goto, ClockInv, Timed
  <2>2. /\ startedAt' \in [Timed -> Nat]
        /\ \A r \in Timed : startedAt'[r] <= Cardinality(Started')
        /\ \A q, r \in Started' : startedAt'[q] = startedAt'[r] => q = r
    BY <2>1, NowIsNew
  <2>3. \A r \in LLMSteps : startedAt'[r] = startedAt[r]
    BY <1>0, <2>1 DEF LLMSteps
  <2> HIDE DEF Now
  <2>4. "skills" \in LLMSteps /\ "experience" \in LLMSteps /\ \A u \in Callers : step[u] \in LLMSteps
    BY <1>0 DEF LLMSteps
  <2> QED
    BY <1>0, <2>1, <2>2, <2>3, <2>4 DEF ClockInv
<1>3. ASSUME UNCHANGED startedAt PROVE ClockInv'
  <2>1. CASE Submit
    BY <1>0, <1>3, <2>1 DEF Submit, Goto, ClockInv, Started, ControlInv
  <2>2. ASSUME NEW t \in Callers, FinishStep(t) PROVE ClockInv'
    <3> USE DEF FinishStep, After, Goto, ClockInv, Started, ControlInv
    <3>1. CASE t = "worker"
      BY <1>0, <1>3, <2>2, <3>1
    <3>2. CASE t = "main"
      <4>1. CASE step[t] = "requirements"
        BY <1>0, <1>3, <2>2, <3>2, <4>1
      <4>2. CASE step[t] = "skills" /\ concurrent
        BY <1>0, <1>3, <2>2, <3>2, <4>2
      <4>3. CASE step[t] = "skills" /\ ~ concurrent
        BY <1>0, <1>3, <2>2, <3>2, <4>3
      <4>4. CASE step[t] = "experience"
        BY <1>0, <1>3, <2>2, <3>2, <4>4
      <4> QED
        BY <1>0, <4>1, <4>2, <4>3, <4>4 DEF LLMSteps
    <3> QED
      BY <3>1, <3>2
  <2>3. ASSUME NEW t \in Callers, ServeStep(t) \/ CallRaisesStep(t) \/ StepRaises(t)
        PROVE  ClockInv'
    BY <1>0, <1>3, <2>3
       DEF ServeStep, CallRaisesStep, StepRaises, Goto, ClockInv, Started, ControlInv
  <2>4. CASE Join \/ Shutdown \/ ScoreRaises \/ Report
    BY <1>0, <1>3, <2>4
       DEF Join, Shutdown, ScoreRaises, Report, Goto, ClockInv, Started, ControlInv
  <2>5. CASE UNCHANGED <<pc, step, concurrent>>
    BY <1>3, <2>5 DEF ClockInv, Started
  <2> QED
    BY <1>1, <1>2, <2>1, <2>2, <2>3, <2>4, <2>5
       DEF Next, MainStep, ThreadStep, Fault, Over, vars, AttemptStep, FallBackStep, threadVars
<1>4. \/ \E t \in Callers : StartStep(t)
      \/ Score
      \/ UNCHANGED startedAt
  BY DEF Next, MainStep, ThreadStep, Fault, Over, Submit, AttemptStep, ServeStep,
         FallBackStep, CallRaisesStep, FinishStep, StepRaises, Join, Shutdown,
         ScoreRaises, Report, vars
<1> QED
  BY <1>1, <1>2, <1>3, <1>4

-------------------------------------------------------------------------------
(* What the clients counted *)

\* A call counts its own attempts, and what a client says of its last call is
\* what was noted of its thread's step.
CountInv ==
  /\ made \in [LLMSteps -> Nat]
  /\ \A t \in Callers : call[t].open => call[t].counted = call[t].made
  /\ \A t \in Callers : pc[t] = "served" => lastAttempts[ClientOf(t)] = made[step[t]]

\* A step that runs counts its own attempts and no others.
LEMMA CountStep ==
  ASSUME CInv, ControlInv, CountInv, [Next]_vars
  PROVE  CountInv'
<1>0. /\ pc \in [Callers -> Places] /\ step \in [Callers -> LLMSteps]
      /\ call \in [Callers -> Call] /\ lastAttempts \in [Clients -> Nat]
      /\ made \in [LLMSteps -> Nat]
  BY DEF CInv, ClientTypeOK, ControlInv, CountInv
<1>1. \A t \in Callers : ClientOf(t) \in Clients
  BY DEF ClientOf
<1>2. \A t, u \in Callers : t # u => ClientOf(t) # ClientOf(u)
  BY DEF ClientOf
<1>3. ASSUME NEW t \in Callers, StartStep(t) PROVE CountInv'
  <2>1. /\ call' = [call EXCEPT ![t] = Begun(ClientOf(t), 1)]
        /\ pc' = [pc EXCEPT ![t] = "calling"]
        /\ UNCHANGED <<lastAttempts, made, step>>
    BY <1>3 DEF StartStep, Goto, OpenCall, history
  <2> QED
    BY <1>0, <2>1 DEF CountInv, Begun
<1>4. ASSUME NEW t \in Callers, AttemptStep(t) PROVE CountInv'
  <2>1. ASSUME NEW u \in Callers, call'[u].open
        PROVE  call'[u].counted = call'[u].made
    <3> DEFINE m == IF u = t THEN call[u].made + 1 ELSE call[u].made
               n == IF SameInstructorClient(t, u) THEN call[u].counted + 1
                                                  ELSE call[u].counted
    <3>1. call'[u] = [call[u] EXCEPT !.made = m, !.counted = n]
      BY <1>4 DEF AttemptStep, Attempt
    <3>2. call[u] \in Call /\ call[t].open
      BY <1>0, <1>4 DEF AttemptStep, Attempt
    <3> HIDE DEF m, n
    <3>3. call[u].open /\ call'[u].made = m /\ call'[u].counted = n
      BY <2>1, <3>1, <3>2 DEF Call
    <3>4. SameInstructorClient(t, u) <=> u = t
      BY <1>2, <3>2, <3>3 DEF SameInstructorClient, CInv, OwnClient
    <3> QED
      BY <3>3, <3>4 DEF CountInv, m, n
  <2>2. UNCHANGED <<lastAttempts, made, step, pc>>
    BY <1>4 DEF AttemptStep, Attempt, history, threadVars
  <2> QED
    BY <2>1, <2>2 DEF CountInv, ClientOf
<1>5. ASSUME NEW t \in Callers, FallBackStep(t) PROVE CountInv'
  <2>1. /\ call' = [call EXCEPT ![t] = Begun(call[t].client, call[t].model + 1)]
        /\ UNCHANGED <<lastAttempts, made, step, pc>>
    BY <1>5 DEF FallBackStep, FallBack, history, threadVars
  <2> QED
    BY <1>0, <2>1 DEF CountInv, Begun, ClientOf
<1>6. ASSUME NEW t \in Callers, ServeStep(t) PROVE CountInv'
  <2>1. /\ call[t] \in Call /\ call[t].open /\ call[t].client = ClientOf(t)
        /\ call[t].counted = call[t].made /\ call[t].made \in Nat
    BY <1>0, <1>6 DEF ServeStep, Serve, CInv, OwnClient, CountInv, Call
  <2>2. /\ call' = [call EXCEPT ![t].open = FALSE]
        /\ lastAttempts' = [lastAttempts EXCEPT ![ClientOf(t)] = call[t].made]
        /\ made' = [made EXCEPT ![step[t]] = call[t].made]
        /\ pc[t] = "calling" /\ pc' = [pc EXCEPT ![t] = "served"]
        /\ UNCHANGED step
    BY <1>6, <2>1 DEF ServeStep, Serve, Goto
  <2>3. \A u \in Callers : call'[u].open =>
          call'[u].counted = call'[u].made
    BY <1>0, <2>1, <2>2 DEF CountInv, Call
  <2>4. made' \in [LLMSteps -> Nat]
    BY <1>0, <2>1, <2>2
  <2>5. ASSUME NEW u \in Callers, pc'[u] = "served"
        PROVE  lastAttempts'[ClientOf(u)] = made'[step'[u]]
    <3>1. CASE u = t
      BY <1>0, <1>1, <2>2, <3>1
    <3>2. CASE u # t
      <4>1. pc[u] = "served"
        BY <1>0, <2>2, <2>5, <3>2
      <4>2. step[u] # step[t]
        BY <1>0, <2>2, <3>2, <4>1 DEF ControlInv
      <4>3. lastAttempts[ClientOf(u)] = made[step[u]]
        BY <4>1 DEF CountInv
      <4> QED
        BY <1>0, <1>1, <1>2, <2>2, <3>2, <4>2, <4>3
    <3> QED
      BY <3>1, <3>2
  <2> QED
    BY <2>3, <2>4, <2>5 DEF CountInv, ClientOf
<1>7. ASSUME NEW t \in Callers, CallRaisesStep(t) PROVE CountInv'
  <2>1. call[t] \in Call /\ call[t].open /\ call[t].client = ClientOf(t)
    BY <1>0, <1>7 DEF CallRaisesStep, CallRaises, CInv, OwnClient, Call
  <2>2. /\ call' = [call EXCEPT ![t].open = FALSE]
        /\ \A c \in Clients : c # ClientOf(t) => lastAttempts'[c] = lastAttempts[c]
        /\ pc[t] = "calling" /\ pc' = [pc EXCEPT ![t] = "raised"]
        /\ UNCHANGED <<step, made>>
    BY <1>0, <1>7, <2>1 DEF CallRaisesStep, CallRaises, Goto, history
  <2>3. \A u \in Callers : call'[u].open =>
          call'[u].counted = call'[u].made
    BY <1>0, <2>1, <2>2 DEF CountInv, Call
  <2>4. ASSUME NEW u \in Callers, pc'[u] = "served"
        PROVE  lastAttempts'[ClientOf(u)] = made'[step'[u]]
    <3>1. u # t /\ pc[u] = "served"
      BY <1>0, <2>2, <2>4
    <3> QED
      BY <1>0, <1>1, <1>2, <2>2, <3>1 DEF CountInv
  <2> QED
    BY <1>0, <2>2, <2>3, <2>4 DEF CountInv, ClientOf
<1>8. ASSUME UNCHANGED <<call, lastAttempts, made>>,
             \A t \in Callers : pc'[t] = "served" => pc[t] = "served" /\ step'[t] = step[t]
      PROVE  CountInv'
  BY <1>0, <1>8 DEF CountInv, ClientOf
<1>9. ASSUME NEW t \in Callers, FinishStep(t) \/ StepRaises(t) PROVE CountInv'
  BY <1>0, <1>8, <1>9
     DEF FinishStep, StepRaises, After, Goto, clientVars, history, LLMSteps
<1>10. CASE Submit \/ Join \/ Shutdown \/ Score \/ ScoreRaises \/ Report \/ UNCHANGED vars
  BY <1>0, <1>8, <1>10
     DEF Submit, Join, Shutdown, Score, ScoreRaises, Report, Goto, clientVars, history, vars
<1> QED
  BY <1>3, <1>4, <1>5, <1>6, <1>7, <1>9, <1>10
     DEF Next, MainStep, ThreadStep, Fault, Over

-------------------------------------------------------------------------------
(* What lands in the trace *)

\* A span says of its step what the clock and the client said.
TrueSpan(span) ==
  span.step \in LLMSteps =>
    /\ span.attempts = made[span.step]
    /\ span.startedAt = startedAt[span.step]
    /\ span.startedAt # 0

HasSpan(s) == \E i \in DOMAIN trace : trace[i].step = s

\* Before the scoring every step that is over has its one span.
LandedInv ==
  /\ \A i \in DOMAIN trace : trace[i].step \in LLMSteps
  /\ \A i, j \in DOMAIN trace : trace[i].step = trace[j].step => i = j
  /\ concurrent => (HasSpan("experience") <=> pc["worker"] = "done")
  /\ pc["main"] \notin {"raised", "failed"} =>
       /\ HasSpan("requirements") <=> step["main"] # "requirements"
       /\ HasSpan("skills") <=> step["main"] = "experience" \/ pc["main"] \in {"join", "score"}
       /\ ~ concurrent => (HasSpan("experience") <=> pc["main"] = "score")

\* What a report says of its trace.
Complete ==
  /\ Len(trace) = 4
  /\ {trace[i].step : i \in 1 .. 4} = LLMSteps \cup {"scoring"}
  /\ \A i \in 1 .. 3 : trace[i].startedAt < trace[i + 1].startedAt
  /\ trace[4].step = "scoring"

TraceInv ==
  /\ trace \in Seq(Span)
  /\ \A i \in DOMAIN trace : TrueSpan(trace[i])
  /\ IF pc["main"] \in {"scored", "done"} THEN Complete ELSE LandedInv

\* The step a thread is at has no span.
LEMMA NoSpanYet ==
  ASSUME ControlInv, TraceInv, NEW t \in Callers, pc[t] \in {"ready", "calling", "served"}
  PROVE  pc["main"] \notin {"scored", "done"} /\ LandedInv /\ ~ HasSpan(step[t])
<1>1. pc["main"] \notin {"scored", "done"}
  BY DEF ControlInv
<1>2. LandedInv
  BY <1>1 DEF TraceInv
<1>3. CASE t = "worker"
  BY <1>2, <1>3 DEF LandedInv, ControlInv
<1>4. CASE t = "main"
  BY <1>2, <1>4 DEF LandedInv, ControlInv, LLMSteps
<1> QED
  BY <1>1, <1>2, <1>3, <1>4

\* A step that has a span is noted and timed once and for all.
LEMMA SpansStayTrue ==
  ASSUME TraceInv, NEW s \in LLMSteps, ~ HasSpan(s), UNCHANGED trace,
         \A r \in LLMSteps : r # s => made'[r] = made[r] /\ startedAt'[r] = startedAt[r]
  PROVE  \A i \in DOMAIN trace : TrueSpan(trace[i])'
BY DEF TraceInv, TrueSpan, HasSpan

\* A step that ends appends its span, and no step has two.
LEMMA FinishKeepsTraceInv ==
  ASSUME CInv, ControlInv, ClockInv, CountInv, TraceInv, NEW t \in Callers, FinishStep(t)
  PROVE  TraceInv'
<1> DEFINE span == SpanOf(step[t], lastAttempts[ClientOf(t)])
<1>0. /\ pc \in [Callers -> Places] /\ step \in [Callers -> LLMSteps] /\ trace \in Seq(Span)
      /\ startedAt \in [Timed -> Nat] /\ made \in [LLMSteps -> Nat]
  BY DEF ControlInv, ClockInv, CountInv, TraceInv
<1>1. /\ pc[t] = "served" /\ pc' = [pc EXCEPT ![t] = After(t).to]
      /\ step' = [step EXCEPT ![t] = After(t).step]
      /\ trace' = Append(trace, span)
      /\ UNCHANGED <<concurrent, startedAt, made>>
  BY DEF FinishStep, Goto, history
<1>2. pc["main"] \notin {"scored", "done"} /\ LandedInv /\ ~ HasSpan(step[t])
  BY <1>1, NoSpanYet
<1>3. /\ lastAttempts[ClientOf(t)] = made[step[t]]
      /\ startedAt[step[t]] # 0
  BY <1>1 DEF CountInv, ClockInv
<1>4. step[t] \in LLMSteps /\ startedAt[step[t]] \in Nat /\ made[step[t]] \in Nat
  BY <1>0 DEF Timed
<1>5. /\ span.step = step[t] /\ span.startedAt = startedAt[step[t]]
      /\ span.attempts = made[step[t]]
      /\ span \in Span
  BY <1>3, <1>4 DEF SpanOf, Span
<1> HIDE DEF span
<1>6. trace' \in Seq(Span)
  BY <1>0, <1>1, <1>5
<1>7. /\ DOMAIN trace' = 1 .. Len(trace) + 1 /\ DOMAIN trace = 1 .. Len(trace) /\ Len(trace) \in Nat
      /\ \A i \in DOMAIN trace : trace'[i] = trace[i]
      /\ trace'[Len(trace) + 1] = span
  BY <1>0, <1>1, <1>5
<1>8. \A i \in DOMAIN trace' : i \in DOMAIN trace \/ i = Len(trace) + 1
  BY <1>7
<1>9. (\A i \in DOMAIN trace : TrueSpan(trace[i]))'
  <2> SUFFICES ASSUME NEW i \in DOMAIN trace'
               PROVE  TrueSpan(trace[i])'
    OBVIOUS
  <2>1. CASE i \in DOMAIN trace
    BY <1>1, <1>7, <2>1 DEF TraceInv, TrueSpan
  <2>2. CASE i = Len(trace) + 1
    BY <1>1, <1>3, <1>5, <1>7, <2>2 DEF TrueSpan
  <2> QED
    BY <1>8, <2>1, <2>2
<1>10. \A s : HasSpan(s)' <=> HasSpan(s) \/ s = step[t]
  <2> SUFFICES ASSUME NEW s
               PROVE  HasSpan(s)' <=> HasSpan(s) \/ s = step[t]
    OBVIOUS
  <2>1. HasSpan(s)' => HasSpan(s) \/ s = step[t]
    BY <1>5, <1>7, <1>8 DEF HasSpan
  <2>2. HasSpan(s) => HasSpan(s)'
    BY <1>7 DEF HasSpan
  <2>3. s = step[t] => HasSpan(s)'
    <3>1. Len(trace) + 1 \in DOMAIN trace'
      BY <1>7
    <3> QED
      BY <1>5, <1>7, <3>1 DEF HasSpan
  <2> QED
    BY <2>1, <2>2, <2>3
<1>11. \A i \in DOMAIN trace' : trace'[i].step \in LLMSteps
  BY <1>2, <1>4, <1>5, <1>7, <1>8 DEF LandedInv
<1>12. ASSUME NEW i \in DOMAIN trace', NEW j \in DOMAIN trace', trace'[i].step = trace'[j].step
       PROVE  i = j
  <2>1. CASE i \in DOMAIN trace /\ j \in DOMAIN trace
    BY <1>2, <1>7, <1>12, <2>1 DEF LandedInv
  <2>2. CASE i \in DOMAIN trace /\ j = Len(trace) + 1
    BY <1>2, <1>5, <1>7, <1>12, <2>2 DEF HasSpan
  <2>3. CASE j \in DOMAIN trace /\ i = Len(trace) + 1
    BY <1>2, <1>5, <1>7, <1>12, <2>3 DEF HasSpan
  <2> QED
    BY <1>8, <2>1, <2>2, <2>3
<1>13. /\ concurrent' => (HasSpan("experience")' <=> pc'["worker"] = "done")
       /\ pc'["main"] \notin {"raised", "failed"} =>
            /\ HasSpan("requirements")' <=> step'["main"] # "requirements"
            /\ HasSpan("skills")' <=> step'["main"] = "experience" \/ pc'["main"] \in {"join", "score"}
            /\ ~ concurrent' => (HasSpan("experience")' <=> pc'["main"] = "score")
       /\ pc'["main"] \notin {"scored", "done"}
  <2> DEFINE req == HasSpan("requirements")
             skl == HasSpan("skills")
             exp == HasSpan("experience")
  <2>1. /\ HasSpan("requirements")' <=> req \/ step[t] = "requirements"
        /\ HasSpan("skills")' <=> skl \/ step[t] = "skills"
        /\ HasSpan("experience")' <=> exp \/ step[t] = "experience"
    BY <1>10
  <2>2. /\ concurrent => (exp <=> pc["worker"] = "done")
        /\ pc["main"] \notin {"raised", "failed"} =>
             /\ req <=> step["main"] # "requirements"
             /\ skl <=> step["main"] = "experience" \/ pc["main"] \in {"join", "score"}
             /\ ~ concurrent => (exp <=> pc["main"] = "score")
    BY <1>2 DEF LandedInv
  <2> HIDE DEF req, skl, exp
  <2>3. CASE t = "worker"
    <3>1. /\ pc'["worker"] = "done" /\ pc'["main"] = pc["main"] /\ step'["main"] = step["main"]
          /\ concurrent /\ step[t] = "experience" /\ concurrent' = concurrent
      BY <1>0, <1>1, <2>3 DEF After, ControlInv
    <3> QED
      BY <1>2, <2>1, <2>2, <3>1
  <2>4. CASE t = "main"
    <3>0. pc'["worker"] = pc["worker"] /\ concurrent' = concurrent /\ pc["main"] = "served"
      BY <1>0, <1>1, <2>4
    <3>1. CASE step[t] = "requirements"
      <4>1. pc'["main"] = "ready" /\ step'["main"] = "skills"
        BY <1>0, <1>1, <2>4, <3>1 DEF After
      <4> QED
        BY <2>1, <2>2, <2>4, <3>0, <3>1, <4>1
    <3>2. CASE step[t] = "skills" /\ concurrent
      <4>1. pc'["main"] = "join" /\ step'["main"] = "skills"
        BY <1>0, <1>1, <2>4, <3>2 DEF After
      <4> QED
        BY <2>1, <2>2, <2>4, <3>0, <3>2, <4>1
    <3>3. CASE step[t] = "skills" /\ ~ concurrent
      <4>1. pc'["main"] = "ready" /\ step'["main"] = "experience"
        BY <1>0, <1>1, <2>4, <3>3 DEF After
      <4> QED
        BY <2>1, <2>2, <2>4, <3>0, <3>3, <4>1
    <3>4. CASE step[t] = "experience"
      <4>1. pc'["main"] = "score" /\ step'["main"] = "experience" /\ ~ concurrent
        BY <1>0, <1>1, <2>4, <3>4 DEF After, ControlInv
      <4> QED
        BY <2>1, <2>2, <2>4, <3>0, <3>4, <4>1
    <3> QED
      BY <1>4, <3>1, <3>2, <3>3, <3>4 DEF LLMSteps
  <2> QED
    BY <2>3, <2>4
<1>14. LandedInv'
  BY <1>11, <1>12, <1>13 DEF LandedInv
<1> QED
  BY <1>6, <1>9, <1>13, <1>14 DEF TraceInv

\* When the main thread scores there is one span of each step, in some order.
LEMMA ThreeSpans ==
  ASSUME ControlInv, TraceInv, pc["main"] = "score"
  PROVE  /\ Len(trace) = 3
         /\ {trace[i].step : i \in 1 .. 3} = LLMSteps
<1>1. LandedInv /\ trace \in Seq(Span)
  BY DEF TraceInv
<1>2. HasSpan("requirements") /\ HasSpan("skills") /\ HasSpan("experience")
  BY <1>1 DEF LandedInv, ControlInv, LastStep
<1>3. PICK a \in DOMAIN trace, b \in DOMAIN trace, c \in DOMAIN trace :
        trace[a].step = "requirements" /\ trace[b].step = "skills" /\ trace[c].step = "experience"
  BY <1>2 DEF HasSpan
<1>4. \A i \in DOMAIN trace : i \in {a, b, c}
  BY <1>1, <1>3 DEF LandedInv, LLMSteps
<1>5. a # b /\ b # c /\ a # c
  BY <1>3
<1>6. DOMAIN trace = 1 .. Len(trace) /\ Len(trace) \in Nat
  BY <1>1
<1>7. Len(trace) >= 3
  BY <1>5, <1>6
<1>8. Len(trace) <= 3
  <2> SUFFICES ASSUME Len(trace) >= 4 PROVE FALSE
    BY <1>6
  <2>1. 1 \in 1 .. Len(trace) /\ 2 \in 1 .. Len(trace) /\ 3 \in 1 .. Len(trace)
        /\ 4 \in 1 .. Len(trace)
    BY <1>6
  <2>2. 1 \in {a, b, c} /\ 2 \in {a, b, c} /\ 3 \in {a, b, c} /\ 4 \in {a, b, c}
    BY <1>4, <1>6, <2>1
  <2> QED
    BY <2>2
<1>9. Len(trace) = 3
  BY <1>6, <1>7, <1>8
<1>10. {a, b, c} = 1 .. 3
  BY <1>4, <1>6, <1>9
<1>11. {trace[i].step : i \in 1 .. 3} = {trace[a].step, trace[b].step, trace[c].step}
  BY <1>10
<1> QED
  BY <1>3, <1>9, <1>11 DEF LLMSteps

\* Three numbers that differ can be put in order.
LEMMA OrderOfThree ==
  ASSUME NEW k \in [1 .. 3 -> Nat], k[1] # k[2], k[2] # k[3], k[1] # k[3]
  PROVE  \E p \in Bijection(1 .. 3, 1 .. 3) : k[p[1]] < k[p[2]] /\ k[p[2]] < k[p[3]]
<1>1. PICK a \in 1 .. 3, b \in 1 .. 3, c \in 1 .. 3 :
        a # b /\ b # c /\ a # c /\ k[a] < k[b] /\ k[b] < k[c]
  <2>1. k[1] \in Nat /\ k[2] \in Nat /\ k[3] \in Nat /\ 1 \in 1 .. 3 /\ 2 \in 1 .. 3 /\ 3 \in 1 .. 3
    OBVIOUS
  <2>2. \/ k[1] < k[2] /\ k[2] < k[3]
        \/ k[1] < k[3] /\ k[3] < k[2]
        \/ k[2] < k[1] /\ k[1] < k[3]
        \/ k[2] < k[3] /\ k[3] < k[1]
        \/ k[3] < k[1] /\ k[1] < k[2]
        \/ k[3] < k[2] /\ k[2] < k[1]
    BY <2>1
  <2>3. 1 # 2 /\ 2 # 3 /\ 1 # 3
    OBVIOUS
  <2> QED
    BY <2>1, <2>2, <2>3, Zenon
<1> DEFINE p == [i \in 1 .. 3 |-> IF i = 1 THEN a ELSE IF i = 2 THEN b ELSE c]
<1>2. p \in [1 .. 3 -> 1 .. 3] /\ p[1] = a /\ p[2] = b /\ p[3] = c
  OBVIOUS
<1> HIDE DEF p
<1>3. \A i, j \in 1 .. 3 : p[i] = p[j] => i = j
  <2>1. \A i \in 1 .. 3 : i = 1 \/ i = 2 \/ i = 3
    OBVIOUS
  <2> QED
    BY <1>1, <1>2, <2>1
<1>4. \A n \in 1 .. 3 : \E i \in 1 .. 3 : p[i] = n
  <2>1. \A n \in 1 .. 3 : n = a \/ n = b \/ n = c
    BY <1>1
  <2>2. 1 \in 1 .. 3 /\ 2 \in 1 .. 3 /\ 3 \in 1 .. 3
    OBVIOUS
  <2> QED
    BY <1>2, <2>1, <2>2
<1>5. p \in Bijection(1 .. 3, 1 .. 3)
  BY <1>2, <1>3, <1>4 DEF Bijection, Injection, Surjection, IsInjective
<1> QED
  BY <1>1, <1>2, <1>5

\* Sorting puts the spans in the order the steps started.
LEMMA SortedSpans ==
  ASSUME ControlInv, ClockInv, TraceInv, pc["main"] = "score"
  PROVE  /\ SortedTrace \in Seq(Span) /\ Len(SortedTrace) = 3
         /\ {SortedTrace[i].step : i \in 1 .. 3} = LLMSteps
         /\ \A i \in 1 .. 3 : \E j \in DOMAIN trace : SortedTrace[i] = trace[j]
         /\ SortedTrace[1].startedAt < SortedTrace[2].startedAt
         /\ SortedTrace[2].startedAt < SortedTrace[3].startedAt
<1> DEFINE Sorts(p) == \A i, j \in DOMAIN trace : i < j =>
                         \/ ByStart(trace[p[i]], trace[p[j]])
                         \/ ~ByStart(trace[p[j]], trace[p[i]]) /\ p[i] < p[j]
           order == CHOOSE p \in Bijection(DOMAIN trace, DOMAIN trace) : Sorts(p)
           k == [i \in 1 .. 3 |-> trace[i].startedAt]
<1>1. /\ Len(trace) = 3 /\ {trace[i].step : i \in 1 .. 3} = LLMSteps
      /\ trace \in Seq(Span) /\ DOMAIN trace = 1 .. 3
  BY ThreeSpans DEF TraceInv
<1>2. ASSUME NEW i \in 1 .. 3
      PROVE  /\ trace[i] \in Span /\ trace[i].startedAt \in Nat /\ trace[i].step \in LLMSteps
             /\ trace[i].step \in Started /\ startedAt[trace[i].step] = trace[i].startedAt
  <2>1. trace[i] \in Span /\ trace[i].startedAt \in Nat
    <3>1. trace \in Seq(Span) /\ i \in 1 .. Len(trace)
      BY <1>1
    <3>2. trace[i] \in Span
      BY <3>1
    <3> QED
      BY <3>2 DEF Span
  <2>2. trace[i].step \in LLMSteps /\ TrueSpan(trace[i])
    BY <1>1 DEF TraceInv, LandedInv
  <2> QED
    BY <2>1, <2>2 DEF TrueSpan, Started, Timed
<1>3. ASSUME NEW i \in 1 .. 3, NEW j \in 1 .. 3, trace[i].startedAt = trace[j].startedAt
      PROVE  i = j
  <2>1. trace[i].step = trace[j].step
    BY <1>2, <1>3 DEF ClockInv
  <2> QED
    BY <1>1, <2>1 DEF TraceInv, LandedInv
<1>4. k \in [1 .. 3 -> Nat] /\ k[1] # k[2] /\ k[2] # k[3] /\ k[1] # k[3]
      /\ \A i \in 1 .. 3 : k[i] = trace[i].startedAt
  BY <1>2, <1>3
<1> HIDE DEF k
<1>5. \E p \in Bijection(DOMAIN trace, DOMAIN trace) : Sorts(p)
  <2>1. PICK p \in Bijection(1 .. 3, 1 .. 3) : k[p[1]] < k[p[2]] /\ k[p[2]] < k[p[3]]
    BY <1>4, OrderOfThree
  <2>2. p \in [1 .. 3 -> 1 .. 3]
    BY DEF Bijection, Injection
  <2>3. ASSUME NEW i \in 1 .. 3, NEW j \in 1 .. 3, i < j
        PROVE  ByStart(trace[p[i]], trace[p[j]])
    <3>1. k[p[i]] < k[p[j]]
      <4>1. k[p[1]] \in Nat /\ k[p[2]] \in Nat /\ k[p[3]] \in Nat
        BY <1>4, <2>2
      <4>2. (i = 1 /\ j = 2) \/ (i = 2 /\ j = 3) \/ (i = 1 /\ j = 3)
        BY <2>3
      <4> QED
        BY <2>1, <4>1, <4>2
    <3> QED
      BY <1>4, <2>2, <3>1 DEF ByStart
  <2> QED
    BY <1>1, <2>1, <2>3
<1>6. order \in Bijection(1 .. 3, 1 .. 3) /\ Sorts(order)
  BY <1>1, <1>5
<1>7. SortedTrace = [i \in 1 .. 3 |-> trace[order[i]]]
  BY <1>1 DEF SortedTrace
<1> HIDE DEF order
<1>8. /\ order \in [1 .. 3 -> 1 .. 3]
      /\ \A n \in 1 .. 3 : \E i \in 1 .. 3 : order[i] = n
      /\ \A i, j \in 1 .. 3 : order[i] = order[j] => i = j
  BY <1>6 DEF Bijection, Injection, Surjection, IsInjective
<1>9. SortedTrace \in Seq(Span) /\ Len(SortedTrace) = 3
      /\ \A i \in 1 .. 3 : SortedTrace[i] = trace[order[i]]
  BY <1>2, <1>7, <1>8
<1>10. {SortedTrace[i].step : i \in 1 .. 3} = LLMSteps
  <2>1. {SortedTrace[i].step : i \in 1 .. 3} = {trace[i].step : i \in 1 .. 3}
    BY <1>8, <1>9
  <2> QED
    BY <1>1, <2>1
<1>11. ASSUME NEW i \in 1 .. 3, NEW j \in 1 .. 3, i < j
       PROVE  SortedTrace[i].startedAt < SortedTrace[j].startedAt
  <2>1. SortedTrace[i] = trace[order[i]] /\ SortedTrace[j] = trace[order[j]]
        /\ order[i] \in 1 .. 3 /\ order[j] \in 1 .. 3 /\ order[i] # order[j]
    BY <1>8, <1>9, <1>11
  <2>2. trace[order[i]].startedAt \in Nat /\ trace[order[j]].startedAt \in Nat
        /\ trace[order[i]].startedAt # trace[order[j]].startedAt
    BY <1>2, <1>3, <2>1
  <2>3. ~ (trace[order[j]].startedAt < trace[order[i]].startedAt)
    BY <1>1, <1>6, <1>11, <2>2 DEF ByStart
  <2> QED
    BY <2>1, <2>2, <2>3
<1> QED
  BY <1>1, <1>8, <1>9, <1>10, <1>11

\* Scoring starts after every other step and appends the last span.
LEMMA ScoreKeepsTraceInv ==
  ASSUME ControlInv, ClockInv, CountInv, TraceInv, Score
  PROVE  TraceInv'
<1> DEFINE last == [step |-> "scoring", startedAt |-> Now, attempts |-> 0]
           sorted == SortedTrace
<1>1. /\ pc["main"] = "score" /\ pc'["main"] = "scored"
      /\ startedAt' = [startedAt EXCEPT !["scoring"] = Now]
      /\ trace' = Append(sorted, last)
      /\ UNCHANGED made
  BY DEF Score, Goto, ControlInv, history
<1>2. "scoring" \in Timed /\ startedAt["scoring"] = 0 /\ startedAt \in [Timed -> Nat]
      /\ "scoring" \notin LLMSteps
  BY <1>1 DEF ClockInv, Timed, LLMSteps
<1>3. Now \in Nat \ {0} /\ \A r \in Timed : startedAt[r] < Now
  BY <1>1, <1>2, NowIsNew
<1>4. last \in Span /\ last.step = "scoring" /\ last.startedAt = Now
  BY <1>3 DEF Span
<1>5. /\ sorted \in Seq(Span) /\ Len(sorted) = 3
      /\ {sorted[i].step : i \in 1 .. 3} = LLMSteps
      /\ \A i \in 1 .. 3 : \E j \in DOMAIN trace : sorted[i] = trace[j]
      /\ sorted[1].startedAt < sorted[2].startedAt
      /\ sorted[2].startedAt < sorted[3].startedAt
  BY <1>1, SortedSpans
<1> HIDE DEF last, sorted, Now
<1>6. /\ trace' \in Seq(Span) /\ Len(trace') = 4 /\ DOMAIN trace' = 1 .. 4
      /\ trace'[1] = sorted[1] /\ trace'[2] = sorted[2] /\ trace'[3] = sorted[3]
      /\ trace'[4] = last
  <2>1. sorted \in Seq(Span) /\ Len(sorted) = 3 /\ trace' = Append(sorted, last)
    BY <1>1, <1>5
  <2>2. /\ Append(sorted, last) \in Seq(Span)
        /\ Len(Append(sorted, last)) = Len(sorted) + 1
        /\ \A i \in 1 .. Len(sorted) : Append(sorted, last)[i] = sorted[i]
        /\ Append(sorted, last)[Len(sorted) + 1] = last
    <3>1. sorted \in Seq(Span) /\ last \in Span
      BY <1>4, <2>1
    <3> QED
      BY <3>1, AppendProperties
  <2>3. Len(sorted) = 3 /\ 3 + 1 = 4
    BY <2>1
  <2> QED
    BY <2>1, <2>2, <2>3
<1>7. \A i \in 1 .. 4 : i = 4 \/ (i \in 1 .. 3 /\ trace'[i] = sorted[i])
  BY <1>6
<1>8. ASSUME NEW i \in 1 .. 3
      PROVE  TrueSpan(sorted[i]) /\ sorted[i].step \in LLMSteps
  BY <1>1, <1>5 DEF TraceInv
<1>9. ASSUME NEW i \in 1 .. 4 PROVE TrueSpan(trace[i])'
  <2>1. CASE i = 4
    BY <1>2, <1>4, <1>6, <2>1 DEF TrueSpan
  <2>2. CASE i \in 1 .. 3 /\ trace'[i] = sorted[i]
    BY <1>1, <1>2, <1>8, <2>2 DEF TrueSpan
  <2> QED
    BY <1>7, <2>1, <2>2
<1>10. trace'[3].startedAt < trace'[4].startedAt
  BY <1>3, <1>4, <1>6, <1>8 DEF TrueSpan, Timed
<1>11. \A i \in 1 .. 3 : trace'[i].startedAt < trace'[i + 1].startedAt
  <2>1. \A i \in 1 .. 3 : (i = 1 /\ i + 1 = 2) \/ (i = 2 /\ i + 1 = 3) \/ (i = 3 /\ i + 1 = 4)
    OBVIOUS
  <2> QED
    BY <1>5, <1>6, <1>10, <2>1
<1>12. {trace'[i].step : i \in 1 .. 4} = LLMSteps \cup {"scoring"}
  <2>1. {sorted[1].step, sorted[2].step, sorted[3].step} = LLMSteps
    BY <1>5
  <2>2. {trace'[i].step : i \in 1 .. 4} =
          {trace'[1].step, trace'[2].step, trace'[3].step, trace'[4].step}
    OBVIOUS
  <2> QED
    BY <1>4, <1>6, <2>1, <2>2
<1>13. Complete'
  BY <1>4, <1>6, <1>11, <1>12 DEF Complete
<1> QED
  BY <1>1, <1>6, <1>9, <1>13 DEF TraceInv

\* The trace keeps one span per finished step, with its own attempts and start.
LEMMA TraceStep ==
  ASSUME CInv, ControlInv, ClockInv, CountInv, TraceInv, [Next]_vars
  PROVE  TraceInv'
<1>0. /\ pc \in [Callers -> Places] /\ step \in [Callers -> LLMSteps]
      /\ startedAt \in [Timed -> Nat] /\ made \in [LLMSteps -> Nat]
  BY DEF ControlInv, ClockInv, CountInv
<1>1. ASSUME UNCHANGED trace PROVE \A s : HasSpan(s)' <=> HasSpan(s)
  BY <1>1 DEF HasSpan
<1>2. ASSUME UNCHANGED <<trace, pc, step, concurrent>>,
             \A i \in DOMAIN trace : TrueSpan(trace[i])'
      PROVE  TraceInv'
  BY <1>1, <1>2 DEF TraceInv, Complete, LandedInv
<1>3. ASSUME NEW t \in Callers, StartStep(t) \/ ServeStep(t) PROVE TraceInv'
  <2>1. /\ pc[t] \in {"ready", "calling"} /\ pc' = [pc EXCEPT ![t] = pc'[t]]
        /\ pc'[t] \in {"calling", "served"}
        /\ UNCHANGED <<trace, step, concurrent>>
        /\ \A r \in LLMSteps : r # step[t] => made'[r] = made[r] /\ startedAt'[r] = startedAt[r]
    BY <1>0, <1>3 DEF StartStep, ServeStep, Goto, history, Timed
  <2>2. pc["main"] \notin {"scored", "done"} /\ LandedInv /\ ~ HasSpan(step[t])
    BY <2>1, NoSpanYet
  <2>3. \A i \in DOMAIN trace : TrueSpan(trace[i])'
    BY <1>0, <2>1, <2>2, SpansStayTrue
  <2>4. pc'["main"] \notin {"scored", "done"} /\ LandedInv'
    BY <1>0, <1>1, <2>1, <2>2 DEF LandedInv
  <2> QED
    BY <2>1, <2>3, <2>4 DEF TraceInv
<1>4. ASSUME UNCHANGED <<trace, step, concurrent, made, startedAt>>
      PROVE  \A i \in DOMAIN trace : TrueSpan(trace[i])'
  BY <1>4 DEF TraceInv, TrueSpan
<1>5. ASSUME NEW t \in Callers, CallRaisesStep(t) \/ StepRaises(t) PROVE TraceInv'
  <2>1. /\ pc[t] \in {"calling", "served"} /\ pc' = [pc EXCEPT ![t] = "raised"]
        /\ UNCHANGED <<trace, step, concurrent, made, startedAt>>
    BY <1>5 DEF CallRaisesStep, StepRaises, Goto, history
  <2>2. pc["main"] \notin {"scored", "done"} /\ LandedInv
    BY <2>1, NoSpanYet
  <2>3. pc'["main"] \notin {"scored", "done"} /\ LandedInv'
    BY <1>0, <1>1, <2>1, <2>2 DEF LandedInv
  <2> QED
    BY <1>4, <2>1, <2>3 DEF TraceInv
<1>6. CASE Submit
  <2>1. /\ pc["worker"] = "idle" /\ pc' = [pc EXCEPT !["worker"] = "ready"]
        /\ UNCHANGED <<trace, step, concurrent, made, startedAt>>
    BY <1>6 DEF Submit, Goto, history
  <2>2. pc'["main"] = pc["main"] /\ pc'["worker"] = "ready"
    BY <1>0, <2>1
  <2>3. LandedInv => LandedInv'
    BY <1>1, <2>1, <2>2 DEF LandedInv
  <2>4. Complete => Complete'
    BY <2>1 DEF Complete
  <2> QED
    BY <1>4, <2>1, <2>2, <2>3, <2>4 DEF TraceInv
<1>7. CASE Join \/ Shutdown \/ ScoreRaises
  <2>1. /\ pc["main"] \in {"join", "raised", "score"}
        /\ pc'["main"] \in {"raised", "failed", "score"} /\ pc'["worker"] = pc["worker"]
        /\ pc'["main"] = "score" => pc["main"] = "join"
        /\ UNCHANGED <<trace, step, concurrent, made, startedAt>>
    BY <1>0, <1>7 DEF Join, Shutdown, ScoreRaises, Goto, history
  <2>2. LandedInv'
    BY <1>1, <2>1 DEF LandedInv, TraceInv, ControlInv
  <2> QED
    BY <1>4, <2>1, <2>2 DEF TraceInv
<1>8. CASE Report
  <2>1. /\ pc["main"] = "scored" /\ pc'["main"] = "done"
        /\ UNCHANGED <<trace, step, concurrent, made, startedAt>>
    BY <1>0, <1>8 DEF Report, Goto, history
  <2>2. Complete'
    BY <2>1 DEF Complete, TraceInv
  <2> QED
    BY <1>4, <2>1, <2>2 DEF TraceInv
<1>9. ASSUME NEW t \in Callers, AttemptStep(t) \/ FallBackStep(t) PROVE TraceInv'
  BY <1>2, <1>4, <1>9 DEF AttemptStep, FallBackStep, history, threadVars
<1>10. CASE UNCHANGED vars
  BY <1>2, <1>4, <1>10 DEF vars
<1> QED
  BY <1>3, <1>5, <1>6, <1>7, <1>8, <1>9, <1>10, FinishKeepsTraceInv, ScoreKeepsTraceInv
     DEF Next, MainStep, ThreadStep, Fault, Over

-------------------------------------------------------------------------------

\* Everything that is known of a run.
PInv == RInv /\ ClockInv /\ CountInv /\ TraceInv

\* The invariant of the whole pipeline holds always.
LEMMA PInvAlways == Spec => []PInv
<1>1. Init => PInv
  <2> SUFFICES ASSUME Init
               PROVE  PInv
    OBVIOUS
  <2>1. ClockInv
    <3>1. startedAt = [s \in Timed |-> 0]
      BY DEF Init, Timed
    <3>2. \A s \in Timed : startedAt[s] = 0
      BY <3>1
    <3>3. Started = {}
      BY <3>2 DEF Started
    <3>4. Cardinality(Started) = 0
      BY <3>3, FS_EmptySet
    <3>5. /\ pc["main"] = "ready" /\ pc["worker"] = "idle"
          /\ step["main"] = "requirements" /\ step["worker"] = "experience"
      BY DEF Init
    <3>6. startedAt \in [Timed -> Nat] /\ {"requirements", "skills", "experience", "scoring"} \subseteq Timed
      BY <3>1 DEF Timed, LLMSteps
    <3> QED
      BY <3>2, <3>3, <3>4, <3>5, <3>6 DEF ClockInv
  <2>2. CountInv
    <3>1. ASSUME NEW t \in Callers PROVE ~ call[t].open /\ pc[t] # "served"
      <4>1. pc[t] # "served"
        BY DEF Init
      <4>2. call \in [Callers -> [open : {FALSE}, client : {CHOOSE c \in Clients : TRUE},
                                  model : {1}, made : {0}, counted : {0}]]
        BY DEF Init, ClientInit
      <4>3. call[t].open \in {FALSE}
        BY <4>2
      <4> QED
        BY <4>1, <4>3, Zenon
    <3>2. made \in [LLMSteps -> Nat]
      BY DEF Init
    <3> QED
      BY <3>1, <3>2 DEF CountInv
  <2>3. TraceInv
    <3>1. trace = <<>> /\ pc["main"] = "ready" /\ pc["worker"] = "idle" /\ step["main"] = "requirements"
      BY DEF Init
    <3>2. trace \in Seq(Span) /\ DOMAIN trace = {}
      BY <3>1
    <3>3. \A s : ~ HasSpan(s)
      BY <3>2 DEF HasSpan
    <3> QED
      BY <3>1, <3>2, <3>3 DEF TraceInv, LandedInv
  <2> QED
    BY <2>1, <2>2, <2>3, RInvInit DEF PInv
<1>2. PInv /\ [Next]_vars => PInv'
  <2> SUFFICES ASSUME PInv, [Next]_vars
               PROVE  PInv'
    OBVIOUS
  <2>1. CInv /\ ControlInv /\ ServedInv /\ ReportInv /\ ClockInv /\ CountInv /\ TraceInv
    BY DEF PInv, RInv
  <2>2. RInv'
    BY <2>1, CInvStep, ControlStep, ServedStep, ReportStep DEF RInv
  <2> QED
    BY <2>1, <2>2, ClockStep, CountStep, TraceStep DEF PInv
<1> QED
  BY <1>1, <1>2, PTL DEF Spec

\* Every variable keeps its type, and a report that is there names a model.
THEOREM TypeCorrect == Spec => []TypeOK
<1>1. PInv => TypeOK
  <2> SUFFICES ASSUME PInv
               PROVE  TypeOK
    OBVIOUS
  <2>1. ClientTypeOK /\ active["evaluation"] \in Models
    BY DEF PInv, RInv, CInv, ClientTypeOK
  <2>2. report.there => report.engine \in Models /\ report.fallbackUsed \in BOOLEAN
    BY <2>1 DEF PInv, RInv, ReportInv
  <2> QED
    BY <2>1, <2>2 DEF PInv, RInv, ControlInv, Places, ServedInv, ClockInv, CountInv, TraceInv, Timed, TypeOK
<1> QED
  BY <1>1, PInvAlways, PTL

\* Every span says how many attempts its own step took on the model that
\* served it, whatever the other thread's calls do meanwhile.
THEOREM AttemptsAreOwn == Spec => []AttemptsAreTrue
<1>1. PInv => AttemptsAreTrue
  BY DEF PInv, TraceInv, TrueSpan, AttemptsAreTrue
<1> QED
  BY <1>1, PInvAlways, PTL

\* A reported trace has one span per step, in the order the steps started,
\* whenever the worker's landed in it, and scoring is last.
THEOREM TracesAreComplete == Spec => []TraceIsComplete
<1>1. PInv => TraceIsComplete
  BY DEF PInv, RInv, ReportInv, TraceInv, Complete, TraceIsComplete
<1> QED
  BY <1>1, PInvAlways, PTL
===============================================================================
