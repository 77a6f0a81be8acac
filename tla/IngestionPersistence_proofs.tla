---------------------- MODULE IngestionPersistence_proofs ----------------------
(***************************************************************************)
(* Proofs about IngestionPersistence, for any runs of any kind, any CVs    *)
(* and either backend.                                                     *)
(*                                                                         *)
(* The argument: a run logs its ingestion after it saved it, and an        *)
(* extraction matches after it logged, so what an artifact refers to is    *)
(* written before the artifact.  A run saves once, so the file of a CV     *)
(* names one save, and that save is the CV's last one.                     *)
(***************************************************************************)
EXTENDS IngestionPersistence, TLAPS

USE PastIngestionAssumption, NobodyAssumption, BucketConfiguredAssumption

-------------------------------------------------------------------------------
(* Type correctness: a run that logs a run artifact has a redacted CV *)

\* What a run's place says of the redacted CV it holds.
SourceStages ==
  \A r \in Runs :
    /\ pc[r] = "idle" => source[r] = Nobody
    /\ pc[r] \in {"save", "log"} => source[r] = r
    /\ pc[r] \in {"match", "logrun"} => source[r] # Nobody

\* What a run's place says of the pipeline it runs.
KindStages ==
  \A r \in Runs :
    /\ pc[r] \in {"redact", "save", "log"} => kind[r].pipeline # "matching"
    /\ pc[r] = "load" => kind[r].pipeline = "matching"

TInv == TypeOK /\ SourceStages /\ KindStages

\* Nothing has been stored or logged at the start.
LEMMA TypeInit == Init => TInv
<1> SUFFICES ASSUME Init
             PROVE  TInv
  OBVIOUS
<1>1. TypeOK
  BY DEF Init, TypeOK, Ingestion, RunArtifact, Backends
<1>2. SourceStages /\ KindStages
  BY DEF Init, SourceStages, KindStages
<1> QED
  BY <1>1, <1>2 DEF TInv

\* What both steps that log a run artifact write.
LEMMA RunArtifactIsTyped ==
  ASSUME TInv, NEW r \in Runs, pc[r] = "logrun", LogRunArtifact(r)
  PROVE  runLog' \in [Backends -> SUBSET RunArtifact]
<1>1. source[r] \in Ingestion
  BY DEF TInv, TypeOK, SourceStages
<1>2. [run |-> r, redactedCVTraceId |-> source[r]] \in RunArtifact
  BY <1>1 DEF RunArtifact
<1>3. runLog \in [Backends -> SUBSET RunArtifact]
  BY DEF TInv, TypeOK
<1> QED
  BY <1>2, <1>3 DEF LogRunArtifact

\* What both steps that log an ingestion artifact write.
LEMMA IngestionArtifactIsTyped ==
  ASSUME TInv, NEW r \in Runs, LogIngestionArtifact(r)
  PROVE  ingestionLog' \in [Backends -> SUBSET Ingestion]
BY DEF TInv, TypeOK, LogIngestionArtifact, Ingestion

\* Every step of a run, a fault or a restart keeps the types and the sources.
LEMMA TypeStep == TInv /\ [Next]_vars => TInv'
<1> SUFFICES ASSUME TInv, [Next]_vars
             PROVE  TInv'
  OBVIOUS
<1>0. /\ pc \in [Runs -> {"idle"} \cup Running \cup Ended]
      /\ source \in [Runs -> Ingestion \cup {Nobody}]
      /\ kind \in [Runs -> Kind]
  BY DEF TInv, TypeOK
<1> USE DEF Goto, logs, input
<1>1. ASSUME NEW r \in Runs, Begin(r) PROVE TInv'
  <2>1. TypeOK'
    BY <1>1 DEF Begin, TInv, TypeOK, Running
  <2>2. SourceStages' /\ KindStages'
    BY <1>0, <1>1 DEF Begin, TInv, SourceStages, KindStages, Kind
  <2> QED
    BY <2>1, <2>2 DEF TInv
<1>2. ASSUME NEW r \in Runs, Redact(r) PROVE TInv'
  <2>1. TypeOK'
    BY <1>2 DEF Redact, TInv, TypeOK, Running, Ingestion
  <2>2. SourceStages' /\ KindStages'
    BY <1>0, <1>2 DEF Redact, TInv, SourceStages, KindStages
  <2> QED
    BY <2>1, <2>2 DEF TInv
<1>3. ASSUME NEW r \in Runs, Save(r) PROVE TInv'
  <2>1. TypeOK'
    BY <1>3 DEF Save, TInv, TypeOK, Running
  <2>2. SourceStages' /\ KindStages'
    BY <1>0, <1>3 DEF Save, TInv, SourceStages, KindStages
  <2> QED
    BY <2>1, <2>2 DEF TInv
<1>4. ASSUME NEW r \in Runs, LogIngestion(r) PROVE TInv'
  <2>1. TypeOK'
    BY <1>4, IngestionArtifactIsTyped
       DEF LogIngestion, AfterIngestion, TInv, TypeOK, Running, Ended
  <2>2. SourceStages' /\ KindStages'
    BY <1>0, <1>4
       DEF LogIngestion, AfterIngestion, TInv, SourceStages, KindStages, Ingestion
  <2> QED
    BY <2>1, <2>2 DEF TInv
<1>5. ASSUME NEW r \in Runs, LoadStored(r) PROVE TInv'
  <2>1. TypeOK'
    BY <1>5 DEF LoadStored, TInv, TypeOK, Running, Ingestion
  <2>2. SourceStages' /\ KindStages'
    BY <1>0, <1>5 DEF LoadStored, TInv, TypeOK, SourceStages, KindStages
  <2> QED
    BY <2>1, <2>2 DEF TInv
<1>6. ASSUME NEW r \in Runs, LoadServing(r) PROVE TInv'
  <2>1. ServingCV \in Ingestion
    BY DEF ServingCV, TInv, TypeOK
  <2>2. TypeOK'
    BY <1>6, <2>1 DEF LoadServing, TInv, TypeOK, Running
  <2>3. ServingCV # Nobody
    BY <2>1 DEF Ingestion
  <2>4. SourceStages' /\ KindStages'
    BY <1>0, <1>6, <2>3 DEF LoadServing, TInv, SourceStages, KindStages
  <2> QED
    BY <2>2, <2>4 DEF TInv
<1>7. ASSUME NEW r \in Runs, Match(r) PROVE TInv'
  <2>1. TypeOK'
    BY <1>7 DEF Match, TInv, TypeOK, Running
  <2>2. SourceStages' /\ KindStages'
    BY <1>0, <1>7 DEF Match, TInv, SourceStages, KindStages
  <2> QED
    BY <2>1, <2>2 DEF TInv
<1>8. ASSUME NEW r \in Runs, LogRun(r) \/ LogRunRaisesAfterWrite(r) PROVE TInv'
  <2>1. pc[r] = "logrun" /\ LogRunArtifact(r)
    BY <1>8 DEF LogRun, LogRunRaisesAfterWrite
  <2>2. TypeOK'
    BY <1>8, <2>1, RunArtifactIsTyped
       DEF LogRun, LogRunRaisesAfterWrite, TInv, TypeOK, Ended
  <2>3. SourceStages' /\ KindStages'
    BY <1>0, <1>8
       DEF LogRun, LogRunRaisesAfterWrite, TInv, SourceStages, KindStages
  <2> QED
    BY <2>2, <2>3 DEF TInv
<1>9. ASSUME NEW r \in Runs, LogIngestionRaisesAfterWrite(r) PROVE TInv'
  <2>1. TypeOK'
    BY <1>9, IngestionArtifactIsTyped
       DEF LogIngestionRaisesAfterWrite, TInv, TypeOK, Ended
  <2>2. SourceStages' /\ KindStages'
    BY <1>0, <1>9
       DEF LogIngestionRaisesAfterWrite, TInv, SourceStages, KindStages
  <2> QED
    BY <2>1, <2>2 DEF TInv
<1>10. ASSUME NEW r \in Runs, Raise(r) \/ Crash(r) PROVE TInv'
  <2>1. TypeOK'
    BY <1>10 DEF Raise, Crash, TInv, TypeOK, Ended
  <2>2. SourceStages' /\ KindStages'
    BY <1>0, <1>10 DEF Raise, Crash, TInv, SourceStages, KindStages
  <2> QED
    BY <2>1, <2>2 DEF TInv
<1>11. ASSUME Restart PROVE TInv'
  <2>1. TypeOK'
    BY <1>11 DEF Restart, TInv, TypeOK, Ended
  <2>2. SourceStages' /\ KindStages'
    BY <1>0, <1>11 DEF Restart, TInv, SourceStages, KindStages
  <2> QED
    BY <2>1, <2>2 DEF TInv
<1>12. ASSUME NEW i \in CVs, BuildServing(i) PROVE TInv'
  BY <1>12 DEF BuildServing, TInv, TypeOK, SourceStages, KindStages, Ingestion
<1>13. CASE UNCHANGED vars
  BY <1>13 DEF vars, TInv, TypeOK, SourceStages, KindStages
<1> QED
  BY <1>1, <1>2, <1>3, <1>4, <1>5, <1>6, <1>7, <1>8, <1>9, <1>10, <1>11, <1>12, <1>13
     DEF Next, Step, Fault, AllEnded

\* The types and the sources hold always.
LEMMA TInvAlways == Spec => []TInv
<1>1. Init => TInv
  BY TypeInit
<1>2. TInv /\ [Next]_vars => TInv'
  BY TypeStep
<1> QED
  BY <1>1, <1>2, PTL DEF Spec

\* Every variable keeps its type, whatever fails: the artifact a run logs
\* names a real ingestion.
THEOREM TypeCorrect == Spec => []TypeOK
<1>1. TInv => TypeOK
  BY DEF TInv
<1> QED
  BY <1>1, TInvAlways, PTL

-------------------------------------------------------------------------------
(* Nothing is logged that was not stored *)

\* A run is in the history exactly from its save on.
SaveStages ==
  \A r \in Runs :
    /\ pc[r] \in {"idle", "redact", "save"} => r \notin Saved
    /\ pc[r] = "log" => r \in Saved

\* What a save does to the history.
LEMMA SaveAppends ==
  ASSUME TypeOK, NEW r \in Runs, Save(r)
  PROVE  /\ Len(saves') = Len(saves) + 1
         /\ saves'[Len(saves) + 1] = r
         /\ \A k \in DOMAIN saves : saves'[k] = saves[k]
         /\ DOMAIN saves' = DOMAIN saves \cup {Len(saves) + 1}
         /\ Saved' = Saved \cup {r}
<1>1. saves \in Seq(Runs) /\ saves' = Append(saves, r)
  BY DEF TypeOK, Save
<1>2. /\ Len(saves) \in Nat
      /\ DOMAIN saves = 1 .. Len(saves)
      /\ DOMAIN saves' = 1 .. Len(saves')
      /\ Len(saves') = Len(saves) + 1
      /\ saves'[Len(saves) + 1] = r
      /\ \A k \in 1 .. Len(saves) : saves'[k] = saves[k]
  BY <1>1
<1>3. DOMAIN saves' = DOMAIN saves \cup {Len(saves) + 1}
  BY <1>2
<1>4. Saved' = Saved \cup {r}
  <2>1. Saved' = {saves'[k] : k \in DOMAIN saves \cup {Len(saves) + 1}}
    BY <1>3 DEF Saved
  <2>2. /\ \A x \in Saved' : x = r \/ x \in Saved
        /\ r \in Saved'
        /\ \A x \in Saved : x \in Saved'
    BY <1>2, <2>1 DEF Saved
  <2> QED
    BY <2>2
<1> QED
  BY <1>2, <1>3, <1>4

\* Every other step leaves the history and the files of the CVs alone.
LEMMA OnlySaveSaves ==
  ASSUME [Next]_vars, ~ UNCHANGED <<store, saves>>
  PROVE  \E r \in Runs : Save(r)
BY DEF Next, Step, Fault, AllEnded, Begin, Redact, LogIngestion, LoadStored,
       LoadServing, Match, LogRun, LogIngestionRaisesAfterWrite,
       LogRunRaisesAfterWrite, Raise, Crash, Restart, BuildServing, vars

\* A step that does not save moves no run to "log" or back before its save.
LEMMA OtherSteps ==
  ASSUME TInv, [Next]_vars, UNCHANGED <<store, saves>>, NEW r \in Runs
  PROVE  /\ pc'[r] \in {"idle", "redact", "save"} => pc[r] \in {"idle", "redact", "save"}
         /\ pc'[r] = "log" => pc[r] = "log"
         /\ saves' = saves /\ Saved' = Saved
<1>1. Saved' = Saved /\ saves' = saves
  BY DEF Saved
<1>2. pc \in [Runs -> {"idle"} \cup Running \cup Ended] /\ saves \in Seq(Runs)
  BY DEF TInv, TypeOK
<1>3. \A q \in Runs : ~ Save(q)
  BY <1>2 DEF Save
<1> QED
  BY <1>1, <1>2, <1>3
     DEF Next, Step, Fault, AllEnded, Begin, Redact, LogIngestion, LoadStored,
         LoadServing, Match, LogRun, LogIngestionRaisesAfterWrite, Goto, AfterIngestion,
         LogRunRaisesAfterWrite, Raise, Crash, Restart, BuildServing, vars, logs, input

\* A run gets beyond its save by saving.
LEMMA SaveStagesStep ==
  TInv /\ SaveStages /\ [Next]_vars => SaveStages'
<1> SUFFICES ASSUME TInv, SaveStages, [Next]_vars
             PROVE  SaveStages'
  OBVIOUS
<1>1. CASE UNCHANGED <<store, saves>>
  BY <1>1, OtherSteps DEF SaveStages
<1>2. ASSUME NEW r \in Runs, Save(r) PROVE SaveStages'
  <2>1. Saved' = Saved \cup {r}
    BY <1>2, SaveAppends DEF TInv
  <2>2. /\ pc[r] = "save" /\ pc'[r] = "log"
        /\ \A q \in Runs \ {r} : pc'[q] = pc[q]
    BY <1>2 DEF Save, Goto, TInv, TypeOK
  <2> QED
    BY <2>1, <2>2 DEF SaveStages
<1> QED
  BY <1>1, <1>2, OnlySaveSaves

\* Only a run that has saved adds an ingestion artifact, and it adds its own.
LEMMA LoggedStep ==
  ASSUME TInv, SaveStages, LoggedIngestionsAreStored, [Next]_vars
  PROVE  LoggedIngestionsAreStored'
<1>1. Saved \subseteq Saved'
  <2>1. CASE UNCHANGED <<store, saves>>
    BY <2>1, OtherSteps DEF Saved
  <2>2. ASSUME NEW r \in Runs, Save(r) PROVE Saved \subseteq Saved'
    BY <2>2, SaveAppends DEF TInv
  <2> QED
    BY <2>1, <2>2, OnlySaveSaves
<1>2. ASSUME NEW r \in Runs, pc[r] = "log", LogIngestionArtifact(r)
      PROVE  LoggedIngestionsAreStored'
  <2>1. r \in Saved
    BY <1>2 DEF SaveStages
  <2>2. \A b \in Backends : ingestionLog'[b] \subseteq ingestionLog[b] \cup {r}
    BY <1>2 DEF LogIngestionArtifact, TInv, TypeOK
  <2> QED
    BY <1>1, <2>1, <2>2 DEF LoggedIngestionsAreStored
<1>3. CASE UNCHANGED ingestionLog
  BY <1>1, <1>3 DEF LoggedIngestionsAreStored
<1> QED
  BY <1>2, <1>3
     DEF Next, Step, Fault, AllEnded, Begin, Redact, Save, LogIngestion, LoadStored,
         LoadServing, Match, LogRun, LogIngestionRaisesAfterWrite, Goto,
         LogRunRaisesAfterWrite, Raise, Crash, Restart, BuildServing, vars, logs

\* What is logged was saved.
LEMMA StoresAlways == Spec => [](SaveStages /\ LoggedIngestionsAreStored)
<1>1. Init => SaveStages /\ LoggedIngestionsAreStored
  BY DEF Init, SaveStages, LoggedIngestionsAreStored, Saved, Backends
<1>2. TInv /\ SaveStages /\ LoggedIngestionsAreStored /\ [Next]_vars
        => SaveStages' /\ LoggedIngestionsAreStored'
  BY SaveStagesStep, LoggedStep
<1> QED
  BY <1>1, <1>2, TInvAlways, PTL DEF Spec

\* Whatever fails between the two writes, an ingestion artifact is only ever
\* logged for a redacted CV that was stored.
THEOREM IngestionsAreStored == Spec => []LoggedIngestionsAreStored
BY StoresAlways, PTL

-------------------------------------------------------------------------------
(* An extraction's artifact names an ingestion that was logged *)

\* An extraction that matches has logged its own ingestion.
ExtractionStages ==
  \A r \in Runs :
    pc[r] \in {"match", "logrun"} /\ kind[r].pipeline = "extraction" =>
      source[r] = r /\ r \in ingestionLog[EnvironmentBackend]

\* No backend forgets an ingestion artifact, and runs never change their kind.
LEMMA LogsGrow ==
  ASSUME TInv, [Next]_vars
  PROVE  /\ \A b \in Backends : ingestionLog[b] \subseteq ingestionLog'[b]
         /\ kind' = kind
<1>1. kind' = kind
  BY DEF Next, Step, Fault, AllEnded, Begin, Redact, Save, LogIngestion, LoadStored,
         LoadServing, Match, LogRun, LogIngestionRaisesAfterWrite,
         LogRunRaisesAfterWrite, Raise, Crash, Restart, BuildServing, vars, input
<1>2. UNCHANGED ingestionLog \/ \E r \in Runs : LogIngestionArtifact(r)
  BY DEF Next, Step, Fault, AllEnded, Begin, Redact, Save, LogIngestion, LoadStored,
         LoadServing, Match, LogRun, LogIngestionRaisesAfterWrite,
         LogRunRaisesAfterWrite, Raise, Crash, Restart, BuildServing, vars, logs
<1>3. ASSUME NEW r \in Runs, LogIngestionArtifact(r), NEW b \in Backends
      PROVE  ingestionLog[b] \subseteq ingestionLog'[b]
  BY <1>3 DEF LogIngestionArtifact, TInv, TypeOK
<1> QED
  BY <1>1, <1>2, <1>3

\* An extraction gets beyond its ingestion's log by logging it.
LEMMA ExtractionStagesStep ==
  ASSUME TInv, ExtractionStages, [Next]_vars
  PROVE  ExtractionStages'
<1> SUFFICES ASSUME NEW r \in Runs, pc'[r] \in {"match", "logrun"},
                    kind'[r].pipeline = "extraction"
             PROVE  source'[r] = r /\ r \in ingestionLog'[EnvironmentBackend]
  BY DEF ExtractionStages
<1>0. EnvironmentBackend \in Backends
  BY DEF EnvironmentBackend, Backends
<1>1. kind[r].pipeline = "extraction"
  BY LogsGrow
<1>2. pc \in [Runs -> {"idle"} \cup Running \cup Ended]
  BY DEF TInv, TypeOK
<1>3. CASE pc[r] \in {"match", "logrun"}
  <2>1. source[r] = r /\ r \in ingestionLog[EnvironmentBackend]
    BY <1>1, <1>3 DEF ExtractionStages
  <2>2. source'[r] = source[r]
    BY <1>2, <1>3
       DEF Next, Step, Fault, AllEnded, Begin, Redact, Save, LogIngestion, LoadStored,
           LoadServing, Match, LogRun, LogIngestionRaisesAfterWrite, Goto, TInv, TypeOK,
           LogRunRaisesAfterWrite, Raise, Crash, Restart, BuildServing, vars, logs, input
  <2> QED
    BY <1>0, <2>1, <2>2, LogsGrow
<1>4. CASE LogIngestion(r)
  <2>1. source'[r] = r
    BY <1>4 DEF LogIngestion, Goto, TInv, SourceStages
  <2>2. r \in ingestionLog'[EnvironmentBackend]
    BY <1>0, <1>4 DEF LogIngestion, LogIngestionArtifact, TInv, TypeOK
  <2> QED
    BY <2>1, <2>2
<1>5. CASE pc[r] \notin {"match", "logrun"} /\ ~ LogIngestion(r)
  <2>1. pc[r] # "load"
    BY <1>1 DEF TInv, KindStages
  <2> QED
    BY <1>2, <1>5, <2>1
       DEF Next, Step, Fault, AllEnded, Begin, Redact, Save, LogIngestion, LoadStored,
           LoadServing, Match, LogRun, LogIngestionRaisesAfterWrite, Goto, AfterIngestion,
           LogRunRaisesAfterWrite, Raise, Crash, Restart, BuildServing, vars
<1> QED
  BY <1>3, <1>4, <1>5

\* A run artifact that is new was logged by a run at "logrun".
LEMMA NewRunArtifacts ==
  ASSUME TInv, [Next]_vars, NEW b \in Backends, NEW a \in runLog'[b], a \notin runLog[b]
  PROVE  \E r \in Runs :
           pc[r] = "logrun" /\ a = [run |-> r, redactedCVTraceId |-> source[r]]
<1>1. \/ UNCHANGED runLog
      \/ \E r \in Runs : pc[r] = "logrun" /\ LogRunArtifact(r)
  BY DEF Next, Step, Fault, AllEnded, Begin, Redact, Save, LogIngestion, LoadStored,
         LoadServing, Match, LogRun, LogIngestionRaisesAfterWrite, Goto,
         LogRunRaisesAfterWrite, Raise, Crash, Restart, BuildServing, vars, logs
<1>2. PICK r \in Runs : pc[r] = "logrun" /\ LogRunArtifact(r)
  BY <1>1
<1>3. runLog'[b] \subseteq runLog[b] \cup {[run |-> r, redactedCVTraceId |-> source[r]]}
  BY <1>2 DEF LogRunArtifact, TInv, TypeOK
<1> QED
  BY <1>2, <1>3

\* The run of an extraction is logged after its ingestion.
LEMMA ExtractionsStep ==
  ASSUME TInv, ExtractionStages, ExtractionsResolve, [Next]_vars
  PROVE  ExtractionsResolve'
<1> SUFFICES ASSUME NEW b \in Backends, NEW a \in runLog'[b],
                    kind'[a.run].pipeline = "extraction"
             PROVE  \E d \in Backends : a.redactedCVTraceId \in ingestionLog'[d]
  BY DEF ExtractionsResolve
<1>1. CASE a \in runLog[b]
  <2>1. kind[a.run].pipeline = "extraction"
    BY LogsGrow
  <2> QED
    BY <1>1, <2>1, LogsGrow DEF ExtractionsResolve
<1>2. CASE a \notin runLog[b]
  <2>1. PICK r \in Runs :
          pc[r] = "logrun" /\ a = [run |-> r, redactedCVTraceId |-> source[r]]
    BY <1>2, NewRunArtifacts
  <2>2. a.run = r /\ a.redactedCVTraceId = source[r]
    BY <2>1
  <2>3. kind[r].pipeline = "extraction"
    BY <2>2, LogsGrow
  <2>4. source[r] = r /\ r \in ingestionLog[EnvironmentBackend]
    BY <2>1, <2>3 DEF ExtractionStages
  <2>5. EnvironmentBackend \in Backends
    BY DEF EnvironmentBackend, Backends
  <2> QED
    BY <2>2, <2>4, <2>5, LogsGrow
<1> QED
  BY <1>1, <1>2

\* The artifacts of extractions resolve.
LEMMA ExtractionsAlways == Spec => [](ExtractionStages /\ ExtractionsResolve)
<1>1. Init => ExtractionStages /\ ExtractionsResolve
  BY DEF Init, ExtractionStages, ExtractionsResolve, Backends
<1>2. TInv /\ ExtractionStages /\ ExtractionsResolve /\ [Next]_vars
        => ExtractionStages' /\ ExtractionsResolve'
  BY ExtractionStagesStep, ExtractionsStep
<1> QED
  BY <1>1, <1>2, TInvAlways, PTL DEF Spec

\* The redacted_cv_trace_id of an extraction's artifact is that of an
\* ingestion artifact some backend holds, whatever fails between the writes.
THEOREM ExtractionsAlwaysResolve == Spec => []ExtractionsResolve
BY ExtractionsAlways, PTL

-------------------------------------------------------------------------------
(* A task matches the newest redaction of its CV *)

SavedOnce == \A i, j \in DOMAIN saves : saves[i] = saves[j] => i = j

\* The file of a CV is the one its last save wrote.
StoreIsLatest ==
  \A i \in CVs : store[i] # Nobody =>
    \E k \in DOMAIN saves :
      /\ saves[k] = store[i]
      /\ \A j \in DOMAIN saves : cv[saves[j]] = i => j <= k

BeganBefore == \A r \in Runs : savedBefore[r] <= Len(saves)

FreshInv == SavedOnce /\ StoreIsLatest /\ BeganBefore /\ MatchingUsesFreshRedaction

\* A run saves one time.
LEMMA SavedOnceStep ==
  ASSUME TInv, SaveStages, SavedOnce, [Next]_vars
  PROVE  SavedOnce'
<1>1. CASE UNCHANGED <<store, saves>>
  BY <1>1 DEF SavedOnce
<1>2. ASSUME NEW r \in Runs, Save(r) PROVE SavedOnce'
  <2>1. r \notin Saved
    BY <1>2 DEF Save, Goto, SaveStages
  <2>2. \A k \in DOMAIN saves : saves[k] # r
    BY <2>1 DEF Saved
  <2> QED
    BY <1>2, <2>2, SaveAppends DEF SavedOnce, TInv
<1> QED
  BY <1>1, <1>2, OnlySaveSaves

\* The store changes with the saves, and only then.
LEMMA StoreIsLatestStep ==
  ASSUME TInv, StoreIsLatest, [Next]_vars
  PROVE  StoreIsLatest'
<1>0. cv' = cv
  BY DEF Next, Step, Fault, AllEnded, Begin, Redact, Save, LogIngestion, LoadStored,
         LoadServing, Match, LogRun, LogIngestionRaisesAfterWrite,
         LogRunRaisesAfterWrite, Raise, Crash, Restart, BuildServing, vars, input
<1>1. CASE UNCHANGED <<store, saves>>
  BY <1>0, <1>1 DEF StoreIsLatest
<1>2. ASSUME NEW r \in Runs, Save(r) PROVE StoreIsLatest'
  <2> DEFINE n == Len(saves) + 1
  <2>1. /\ DOMAIN saves' = DOMAIN saves \cup {n}
        /\ saves'[n] = r
        /\ \A k \in DOMAIN saves : saves'[k] = saves[k]
    BY <1>2, SaveAppends DEF TInv
  <2>2. n \in Nat /\ \A j \in DOMAIN saves : j \in Nat /\ j < n
    BY DEF TInv, TypeOK
  <2>3. store' = [store EXCEPT ![cv[r]] = r] /\ store \in [CVs -> Runs \cup {Nobody}]
    BY <1>2 DEF Save, TInv, TypeOK
  <2> HIDE DEF n
  <2> SUFFICES ASSUME NEW i \in CVs, store'[i] # Nobody
               PROVE  \E k \in DOMAIN saves' :
                        /\ saves'[k] = store'[i]
                        /\ \A j \in DOMAIN saves' : cv[saves'[j]] = i => j <= k
    BY <1>0 DEF StoreIsLatest
  <2>4. CASE i = cv[r]
    BY <2>1, <2>2, <2>3, <2>4
  <2>5. CASE i # cv[r]
    <3>1. store'[i] = store[i]
      BY <2>3, <2>5
    <3>2. PICK k \in DOMAIN saves :
            /\ saves[k] = store[i]
            /\ \A j \in DOMAIN saves : cv[saves[j]] = i => j <= k
      BY <3>1 DEF StoreIsLatest
    <3> QED
      BY <2>1, <2>5, <3>1, <3>2
  <2> QED
    BY <2>4, <2>5
<1> QED
  BY <1>1, <1>2, OnlySaveSaves

\* The saves a run found when it began are among the saves.
LEMMA BeganBeforeStep ==
  ASSUME TInv, BeganBefore, [Next]_vars
  PROVE  BeganBefore'
<1>0. Len(saves) \in Nat /\ savedBefore \in [Runs -> Nat]
  BY DEF TInv, TypeOK
<1>1. ASSUME NEW r \in Runs, Save(r) PROVE BeganBefore'
  BY <1>0, <1>1, SaveAppends DEF Save, BeganBefore, TInv
<1>2. ASSUME NEW r \in Runs, Begin(r) PROVE BeganBefore'
  BY <1>0, <1>2 DEF Begin, BeganBefore
<1>3. CASE UNCHANGED <<saves, savedBefore>>
  BY <1>3 DEF BeganBefore
<1> QED
  BY <1>1, <1>2, <1>3
     DEF Next, Step, Fault, AllEnded, Redact, LogIngestion, LoadStored,
         LoadServing, Match, LogRun, LogIngestionRaisesAfterWrite,
         LogRunRaisesAfterWrite, Raise, Crash, Restart, BuildServing, vars

\* What a matching task of the command line holds changes when it loads, and
\* its beginning when it begins.
LEMMA TaskSteps ==
  ASSUME TInv, [Next]_vars, NEW r \in Runs,
         kind[r] = [entry |-> "cli", pipeline |-> "matching"], source'[r] # Nobody
  PROVE  \/ LoadStored(r)
         \/ source'[r] = source[r] /\ savedBefore'[r] = savedBefore[r]
<1>1. kind[r].entry = "cli" /\ kind[r].pipeline = "matching"
  OBVIOUS
<1>2. pc[r] # "redact"
  BY <1>1 DEF TInv, KindStages
<1>3. pc[r] = "idle" => source[r] = Nobody
  BY DEF TInv, SourceStages
<1>4. ~ Redact(r) /\ ~ LoadServing(r) /\ ~ Begin(r)
  BY <1>1, <1>2, <1>3 DEF Redact, LoadServing, Begin, Goto
<1>5. source \in [Runs -> Ingestion \cup {Nobody}] /\ savedBefore \in [Runs -> Nat]
  BY DEF TInv, TypeOK
<1> QED
  BY <1>4, <1>5
     DEF Next, Step, Fault, AllEnded, Begin, Redact, Save, LogIngestion, LoadStored,
         LoadServing, Match, LogRun, LogIngestionRaisesAfterWrite,
         LogRunRaisesAfterWrite, Raise, Crash, Restart, BuildServing, vars

\* A match uses what the store holds when it loads.
LEMMA FreshStep ==
  ASSUME TInv, SavedOnce, StoreIsLatest, BeganBefore, MatchingUsesFreshRedaction,
         [Next]_vars
  PROVE  MatchingUsesFreshRedaction'
<1> SUFFICES ASSUME NEW r \in Runs,
                    kind'[r] = [entry |-> "cli", pipeline |-> "matching"],
                    source'[r] # Nobody,
                    NEW i \in DOMAIN saves', NEW j \in DOMAIN saves',
                    saves'[i] = source'[r], j <= savedBefore'[r],
                    cv'[saves'[j]] = cv'[r]
             PROVE  j <= i
  BY DEF MatchingUsesFreshRedaction
<1>1. /\ kind[r] = [entry |-> "cli", pipeline |-> "matching"]
      /\ cv' = cv
  BY DEF Next, Step, Fault, AllEnded, Begin, Redact, Save, LogIngestion, LoadStored,
         LoadServing, Match, LogRun, LogIngestionRaisesAfterWrite,
         LogRunRaisesAfterWrite, Raise, Crash, Restart, BuildServing, vars, input
<1>2. /\ \A k \in DOMAIN saves : k \in Nat
      /\ DOMAIN saves = 1 .. Len(saves)
      /\ Len(saves) \in Nat
      /\ savedBefore \in [Runs -> Nat]
      /\ cv \in [Runs -> CVs]
  BY DEF TInv, TypeOK
<1>3. savedBefore[r] <= Len(saves)
  BY DEF BeganBefore
<1>4. ASSUME NEW q \in Runs, Save(q) PROVE j <= i
  <2>1. source' = source /\ savedBefore' = savedBefore
    BY <1>4 DEF Save
  <2>2. /\ DOMAIN saves' = DOMAIN saves \cup {Len(saves) + 1}
        /\ \A k \in DOMAIN saves : saves'[k] = saves[k]
    BY <1>4, SaveAppends DEF TInv
  <2>3. j \in DOMAIN saves
    BY <1>2, <1>3, <2>1, <2>2
  <2>4. CASE i \in DOMAIN saves
    BY <1>1, <2>1, <2>2, <2>3, <2>4 DEF MatchingUsesFreshRedaction
  <2>5. CASE i = Len(saves) + 1
    BY <1>2, <2>3, <2>5
  <2> QED
    BY <2>2, <2>4, <2>5
<1>5. CASE UNCHANGED <<store, saves>>
  <2>1. CASE LoadStored(r)
    <3>1. store[cv[r]] # Nobody /\ source'[r] = store[cv[r]]
      BY <2>1 DEF LoadStored, TInv, TypeOK
    <3>2. PICK k \in DOMAIN saves :
            /\ saves[k] = store[cv[r]]
            /\ \A h \in DOMAIN saves : cv[saves[h]] = cv[r] => h <= k
      BY <1>2, <3>1 DEF StoreIsLatest
    <3>3. i = k
      BY <1>5, <3>1, <3>2 DEF SavedOnce
    <3> QED
      BY <1>1, <1>5, <3>2, <3>3
  <2>2. CASE source'[r] = source[r] /\ savedBefore'[r] = savedBefore[r]
    BY <1>1, <1>5, <2>2 DEF MatchingUsesFreshRedaction
  <2> QED
    BY <1>1, <2>1, <2>2, TaskSteps
<1> QED
  BY <1>4, <1>5, OnlySaveSaves

\* Matches are fresh.
LEMMA FreshInvAlways == Spec => []FreshInv
<1>1. Init => FreshInv
  BY DEF Init, FreshInv, SavedOnce, StoreIsLatest, BeganBefore, MatchingUsesFreshRedaction
<1>2. TInv /\ SaveStages /\ FreshInv /\ [Next]_vars => FreshInv'
  BY SavedOnceStep, StoreIsLatestStep, BeganBeforeStep, FreshStep DEF FreshInv
<1> QED
  BY <1>1, <1>2, TInvAlways, StoresAlways, PTL DEF Spec

\* A matching task reads a redaction at least as new as the last one stored
\* for its CV when the task began, however many ingestions overlap it.
THEOREM MatchingIsFresh == Spec => []MatchingUsesFreshRedaction
<1>1. FreshInv => MatchingUsesFreshRedaction
  BY DEF FreshInv
<1> QED
  BY <1>1, FreshInvAlways, PTL

-------------------------------------------------------------------------------
(* The serving CV is pinned *)

\* The API matches against what it has cached.
ServedFromCache == served \subseteq {cached} \ {Nobody}

\* The API serves what it cached, and caches once.
LEMMA ServedFromCacheStep ==
  ASSUME TInv, ServedFromCache, [Next]_vars
  PROVE  ServedFromCache'
<1>1. ASSUME NEW r \in Runs, LoadServing(r) PROVE ServedFromCache'
  <2>1. ServingCV \in Ingestion /\ ServingCV # Nobody
    BY DEF ServingCV, TInv, TypeOK, Ingestion
  <2>2. served \subseteq {ServingCV}
    BY DEF ServedFromCache, ServingCV
  <2> QED
    BY <1>1, <2>1, <2>2 DEF LoadServing, ServedFromCache
<1>2. CASE Restart
  BY <1>2 DEF Restart, ServedFromCache
<1>3. CASE UNCHANGED <<cached, served>>
  BY <1>3 DEF ServedFromCache
<1> QED
  BY <1>1, <1>2, <1>3
     DEF Next, Step, Fault, AllEnded, Begin, Redact, Save, LogIngestion, LoadStored,
         Match, LogRun, LogIngestionRaisesAfterWrite,
         LogRunRaisesAfterWrite, Raise, Crash, BuildServing, vars

\* Between two restarts the API matches every listing against one CV, even
\* when build_serving_cv.py replaces the file in the meantime.
THEOREM ServingIsPinned == Spec => []ServingCVIsPinned
<1>1. Init => ServedFromCache
  BY DEF Init, ServedFromCache
<1>2. TInv /\ ServedFromCache /\ [Next]_vars => ServedFromCache'
  BY ServedFromCacheStep
<1>3. ServedFromCache => ServingCVIsPinned
  BY DEF ServedFromCache, ServingCVIsPinned
<1> QED
  BY <1>1, <1>2, <1>3, TInvAlways, PTL DEF Spec
===============================================================================
