------------------------ MODULE GCSArtifactLogger_proofs -----------------------
(***************************************************************************)
(* Proofs about GCSArtifactLogger, for any set of calls, any limit on      *)
(* attempts and any starting counter.                                      *)
(*                                                                         *)
(* The argument: a call that holds the counter's current generation also   *)
(* holds its current value (FreshReads), because a generation never comes  *)
(* back and every write makes a new one.  So the swap that the bucket      *)
(* accepts writes a number above every number ever handed out, and each    *)
(* number is handed out once.                                              *)
(***************************************************************************)
EXTENDS GCSArtifactLogger, TLAPS

USE PastRunAssumption, MaxReserveAttemptsAssumption, InitialValuesAssumption

-------------------------------------------------------------------------------
(* Type correctness *)

\* A call that can still be refused has an attempt left: what makes the
\* bound on attempt inductive.
AttemptsLeft ==
  \A c \in Calls : pc[c] \in {"idle", "reload", "download", "swap"} =>
    attempt[c] < MaxReserveAttempts

TInv == TypeOK /\ AttemptsLeft

\* A fresh bucket, or one with earlier runs, is of the right type.
LEMMA TypeInit == Init => TInv
<1> SUFFICES ASSUME Init
             PROVE  TInv
  OBVIOUS
<1>1. PICK v \in InitialValues :
        /\ counter \in [value : {v}, generation : {IF v = 0 THEN 0 ELSE 1},
                        integer : IF v = 0 THEN {TRUE} ELSE BOOLEAN]
        /\ artifacts = {[number |-> n, run |-> PastRun] : n \in 1 .. v}
  BY DEF Init
<1>2. counter \in Counter
  <2>1. {v} \subseteq Nat /\ {IF v = 0 THEN 0 ELSE 1} \subseteq Nat
    BY InitialValuesAssumption
  <2>2. (IF v = 0 THEN {TRUE} ELSE BOOLEAN) \subseteq BOOLEAN
    BY Zenon
  <2> QED
    BY <1>1, <2>1, <2>2, Zenon DEF Counter
<1>3. artifacts \in SUBSET Artifact
  BY <1>1, InitialValuesAssumption DEF Artifact
<1> QED
  BY <1>2, <1>3, MaxReserveAttemptsAssumption DEF Init, TInv, TypeOK, AttemptsLeft

\* What one call does to the variables keeps their types.
LEMMA TypeStep == TInv /\ [Next]_vars => TInv'
<1> SUFFICES ASSUME TInv, [Next]_vars
             PROVE  TInv'
  OBVIOUS
<1> USE DEF TInv, TypeOK, AttemptsLeft, Counter, Artifact, Running, Ended, Failed,
            Goto, bucket, readState, history
<1>1. ASSUME NEW c \in Calls, Begin(c) PROVE TInv'
  BY <1>1 DEF Begin
<1>2. ASSUME NEW c \in Calls, Reload(c) PROVE TInv'
  BY <1>2 DEF Reload
<1>3. ASSUME NEW c \in Calls, ReloadNotFound(c) PROVE TInv'
  BY <1>3 DEF ReloadNotFound
<1>4. ASSUME NEW c \in Calls, Download(c) PROVE TInv'
  BY <1>4 DEF Download
<1>5. ASSUME NEW c \in Calls, DownloadCorrupt(c) PROVE TInv'
  BY <1>5 DEF DownloadCorrupt
<1>6. ASSUME NEW c \in Calls, Swap(c) PROVE TInv'
  BY <1>6 DEF Swap, StoreCandidate
<1>7. ASSUME NEW c \in Calls, SwapRefused(c) PROVE TInv'
  BY <1>7 DEF SwapRefused, Retry
<1>8. ASSUME NEW c \in Calls, SwapResponseLost(c) PROVE TInv'
  BY <1>8 DEF SwapResponseLost, Retry, StoreCandidate
<1>9. ASSUME NEW c \in Calls, SwapRaisedAfterWrite(c) PROVE TInv'
  BY <1>9 DEF SwapRaisedAfterWrite, StoreCandidate
<1>10. ASSUME NEW c \in Calls, Raise(c) PROVE TInv'
  BY <1>10 DEF Raise
<1>11. ASSUME NEW c \in Calls, Build(c) PROVE TInv'
  BY <1>11 DEF Build
<1>12. ASSUME NEW c \in Calls, Upload(c) PROVE TInv'
  BY <1>12 DEF Upload, StoreArtifact, ArtifactName
<1>13. ASSUME NEW c \in Calls, UploadResponseLost(c) PROVE TInv'
  BY <1>13 DEF UploadResponseLost, StoreArtifact, ArtifactName
<1>14. ASSUME NEW c \in Calls, UploadFails(c) PROVE TInv'
  BY <1>14 DEF UploadFails
<1>15. ASSUME NEW c \in Calls, Crash(c) PROVE TInv'
  BY <1>15 DEF Crash
<1>16. CASE UNCHANGED vars
  BY <1>16 DEF vars
<1> QED
  BY <1>1, <1>2, <1>3, <1>4, <1>5, <1>6, <1>7, <1>8, <1>9, <1>10, <1>11, <1>12,
     <1>13, <1>14, <1>15, <1>16 DEF Next, Step, Fault, AllEnded

\* The state keeps its types: in particular no call is ever refused more than
\* MAX_RESERVE_ATTEMPTS times.
THEOREM TypeCorrect == Spec => []TypeOK
<1>1. TInv => TypeOK
  BY DEF TInv
<1> QED
  BY <1>1, TypeInit, TypeStep, PTL DEF Spec

-------------------------------------------------------------------------------
(* The inductive invariant *)

\* No call has read a generation the counter does not have yet.
ReadsNotAhead ==
  \A c \in Calls : readGeneration[c] <= counter.generation

\* A call about to swap that still holds the current generation holds the
\* current value: the value it downloaded can only be newer than the
\* generation it reloaded, and then the generation is out of date.
FreshReads ==
  \A c \in Calls : pc[c] = "swap" /\ readGeneration[c] = counter.generation =>
    readValue[c] = counter.value

\* An absent counter has handed out nothing.
AbsentCounter ==
  counter.generation = 0 => counter.value = 0 /\ counter.integer

\* While the counter is corrupt nobody gets past the download.
CorruptStopsCalls ==
  ~counter.integer => \A c \in Calls : pc[c] # "swap"

\* A number is held from the swap on, and not before.
HeldSinceSwap ==
  \A c \in Calls :
    /\ pc[c] \in {"idle", "reload", "download", "swap"} => runNumber[c] = 0
    /\ pc[c] \in {"build", "upload", "logged"} => runNumber[c] # 0

\* The counter covers every number handed out, and they are distinct.
NumbersBelowCounter ==
  /\ \A c \in Calls : runNumber[c] <= counter.value
  /\ \A c, d \in Calls : runNumber[c] = runNumber[d] /\ runNumber[c] # 0 => c = d

\* A stored artifact is an earlier run's, below every number handed out
\* since, or that of a call that holds its number.
StoredNumbers ==
  \A a \in artifacts :
    /\ a.number # 0
    /\ a.number <= counter.value
    /\ a.run # PastRun => runNumber[a.run] = a.number
    /\ a.run = PastRun =>
         \A c \in Calls : runNumber[c] # 0 => a.number < runNumber[c]

SafetyInv ==
  /\ ReadsNotAhead /\ FreshReads /\ AbsentCounter /\ CorruptStopsCalls
  /\ HeldSinceSwap /\ NumbersBelowCounter /\ StoredNumbers

\* No call has read or written anything yet, and the earlier runs
\* are numbered up to the counter.
LEMMA SafetyInit == Init => SafetyInv
<1> SUFFICES ASSUME Init
             PROVE  SafetyInv
  OBVIOUS
<1>1. PICK v \in InitialValues :
        /\ counter \in [value : {v}, generation : {IF v = 0 THEN 0 ELSE 1},
                        integer : IF v = 0 THEN {TRUE} ELSE BOOLEAN]
        /\ artifacts = {[number |-> n, run |-> PastRun] : n \in 1 .. v}
  BY DEF Init
<1>2. counter.value = v /\ counter.generation = (IF v = 0 THEN 0 ELSE 1)
  BY <1>1, Zenon
<1>3. counter.generation \in Nat /\ (counter.generation = 0 => v = 0)
  BY <1>2, InitialValuesAssumption
<1>9. v = 0 => counter.integer
  <2> SUFFICES ASSUME v = 0
               PROVE  counter.integer \in {TRUE}
    BY Zenon
  <2> QED
    BY <1>1, Zenon
<1>4. \A c \in Calls : pc[c] = "idle" /\ runNumber[c] = 0 /\ readGeneration[c] = 0
  BY DEF Init
<1>5. ReadsNotAhead /\ FreshReads /\ CorruptStopsCalls /\ HeldSinceSwap
  BY <1>3, <1>4, <1>9 DEF ReadsNotAhead, FreshReads, CorruptStopsCalls, HeldSinceSwap
<1>6. AbsentCounter
  BY <1>2, <1>3, <1>9 DEF AbsentCounter
<1>7. NumbersBelowCounter
  BY <1>2, <1>4, InitialValuesAssumption DEF NumbersBelowCounter
<1>8. StoredNumbers
  BY <1>1, <1>2, <1>4, InitialValuesAssumption DEF StoredNumbers
<1> QED
  BY <1>5, <1>6, <1>7, <1>8 DEF SafetyInv

\* A write of the counter by call c, whether c learns of it or not: what
\* every accepted conditional upload does to the invariant's counter part.
LEMMA AcceptedWrite ==
  ASSUME TypeOK, SafetyInv, NEW c \in Calls,
         pc[c] = "swap", GenerationMatches(c), StoreCandidate(c)
  PROVE  /\ counter.integer
         /\ counter'.value = counter.value + 1
         /\ counter'.generation = counter.generation + 1
         /\ counter'.integer
  BY DEF TypeOK, Counter, SafetyInv, FreshReads, CorruptStopsCalls,
         GenerationMatches, StoreCandidate

\* No bucket operation, answered or lost, breaks the inductive invariant.
LEMMA SafetyStep == TypeOK /\ SafetyInv /\ [Next]_vars => SafetyInv'
<1> SUFFICES ASSUME TypeOK, SafetyInv, [Next]_vars
             PROVE  SafetyInv'
  OBVIOUS
<1> USE DEF SafetyInv, ReadsNotAhead, FreshReads, AbsentCounter, CorruptStopsCalls,
            HeldSinceSwap, NumbersBelowCounter, StoredNumbers,
            TypeOK, Counter, Artifact, Running, Ended, Failed,
            Goto, bucket, readState, history
<1>1. ASSUME NEW c \in Calls, Begin(c) PROVE SafetyInv'
  BY <1>1 DEF Begin
<1>2. ASSUME NEW c \in Calls, Reload(c) PROVE SafetyInv'
  BY <1>2 DEF Reload
<1>3. ASSUME NEW c \in Calls, ReloadNotFound(c) PROVE SafetyInv'
  BY <1>3 DEF ReloadNotFound
<1>4. ASSUME NEW c \in Calls, Download(c) PROVE SafetyInv'
  BY <1>4 DEF Download
<1>5. ASSUME NEW c \in Calls, DownloadCorrupt(c) PROVE SafetyInv'
  BY <1>5 DEF DownloadCorrupt
<1>6. ASSUME NEW c \in Calls, Swap(c) PROVE SafetyInv'
  <2>1. /\ counter.integer /\ counter'.integer
        /\ counter'.value = counter.value + 1
        /\ counter'.generation = counter.generation + 1
    BY <1>6, AcceptedWrite DEF Swap
  <2>2. runNumber' = [runNumber EXCEPT ![c] = counter.value + 1]
    BY <1>6 DEF Swap, GenerationMatches
  <2>3. /\ pc[c] = "swap" /\ pc' = [pc EXCEPT ![c] = "build"]
        /\ UNCHANGED <<artifacts, readValue, readGeneration>>
    BY <1>6 DEF Swap
  <2>4. ReadsNotAhead' /\ FreshReads' /\ AbsentCounter' /\ CorruptStopsCalls'
    BY <2>1, <2>3
  <2>5. HeldSinceSwap'
    BY <2>2, <2>3
  <2>6. NumbersBelowCounter'
    BY <2>1, <2>2
  <2>7. StoredNumbers'
    <3> SUFFICES ASSUME NEW a \in artifacts
                 PROVE  /\ a.number # 0
                        /\ a.number <= counter'.value
                        /\ a.run # PastRun => runNumber'[a.run] = a.number
                        /\ a.run = PastRun =>
                             \A d \in Calls : runNumber'[d] # 0 => a.number < runNumber'[d]
      BY <2>3
    <3>1. runNumber[c] = 0
      BY <2>3
    <3>2. a.run # PastRun => a.run \in Calls /\ a.run # c
      BY <3>1
    <3> QED
      BY <2>1, <2>2, <3>2
  <2> QED
    BY <2>4, <2>5, <2>6, <2>7
<1>7. ASSUME NEW c \in Calls, SwapRefused(c) PROVE SafetyInv'
  BY <1>7 DEF SwapRefused, Retry
<1>8. ASSUME NEW c \in Calls, SwapResponseLost(c) PROVE SafetyInv'
  BY <1>8, AcceptedWrite DEF SwapResponseLost, Retry
<1>9. ASSUME NEW c \in Calls, SwapRaisedAfterWrite(c) PROVE SafetyInv'
  BY <1>9, AcceptedWrite DEF SwapRaisedAfterWrite
<1>10. ASSUME NEW c \in Calls, Raise(c) PROVE SafetyInv'
  BY <1>10 DEF Raise
<1>11. ASSUME NEW c \in Calls, Build(c) PROVE SafetyInv'
  BY <1>11 DEF Build
<1>12. ASSUME NEW c \in Calls, Upload(c) PROVE SafetyInv'
  BY <1>12 DEF Upload, StoreArtifact, ArtifactName
<1>13. ASSUME NEW c \in Calls, UploadResponseLost(c) PROVE SafetyInv'
  BY <1>13 DEF UploadResponseLost, StoreArtifact, ArtifactName
<1>14. ASSUME NEW c \in Calls, UploadFails(c) PROVE SafetyInv'
  BY <1>14 DEF UploadFails
<1>15. ASSUME NEW c \in Calls, Crash(c) PROVE SafetyInv'
  BY <1>15 DEF Crash
<1>16. CASE UNCHANGED vars
  BY <1>16 DEF vars
<1> QED
  BY <1>1, <1>2, <1>3, <1>4, <1>5, <1>6, <1>7, <1>8, <1>9, <1>10, <1>11, <1>12,
     <1>13, <1>14, <1>15, <1>16 DEF Next, Step, Fault, AllEnded

\* The compare-and-swap invariant: what a call read is never newer than the
\* counter, and every number handed out is at most the counter.
THEOREM SafetyHolds == Spec => []SafetyInv
<1> QED
  BY TypeCorrect, SafetyInit, SafetyStep, PTL DEF Spec

\* No run number is handed out twice, and none is shared by two artifacts.
THEOREM RunNumbersAreUnique == Spec => []UniqueRunNumbers
<1>1. TypeOK /\ SafetyInv => UniqueRunNumbers
  BY DEF TypeOK, Artifact, SafetyInv, NumbersBelowCounter, StoredNumbers, UniqueRunNumbers
<1> QED
  BY <1>1, TypeCorrect, SafetyHolds, PTL

-------------------------------------------------------------------------------
(* Real-time order *)

\* What the history of a call records: calls that had returned, with numbers
\* the call's own number must exceed.
LoggedBeforeStaysLogged ==
  \A c \in Calls : \A d \in loggedBefore[c] : pc[d] = "logged"

OrderInv == LoggedBeforeStaysLogged /\ LaterRunsLargerNumbers

\* No call has begun, so none has seen another one logged.
LEMMA OrderInit == Init => OrderInv
BY DEF Init, OrderInv, LoggedBeforeStaysLogged, LaterRunsLargerNumbers

\* A swap hands out a number above those of the calls logged before it.
LEMMA OrderStep == TypeOK /\ SafetyInv /\ OrderInv /\ [Next]_vars => OrderInv'
<1> SUFFICES ASSUME TypeOK, SafetyInv, OrderInv, [Next]_vars
             PROVE  OrderInv'
  OBVIOUS
<1> USE DEF OrderInv, LoggedBeforeStaysLogged, LaterRunsLargerNumbers, TypeOK, Goto,
            bucket, readState, history
<1>1. ASSUME NEW c \in Calls, Begin(c) PROVE OrderInv'
  BY <1>1 DEF Begin, SafetyInv, HeldSinceSwap
<1>2. ASSUME NEW c \in Calls, Swap(c) PROVE OrderInv'
  <2>1. runNumber' = [runNumber EXCEPT ![c] = counter.value + 1]
    BY <1>2 DEF Swap, SafetyInv, FreshReads, GenerationMatches
  <2>2. LoggedBeforeStaysLogged'
    BY <1>2 DEF Swap
  <2>3. LaterRunsLargerNumbers'
    BY <1>2, <2>1 DEF Swap, SafetyInv, NumbersBelowCounter, Counter
  <2> QED
    BY <2>2, <2>3
<1>3. ASSUME NEW c \in Calls, Step(c) \/ Fault(c), ~Swap(c) PROVE OrderInv'
  <2>1. UNCHANGED <<runNumber, loggedBefore>>
    BY <1>3 DEF Step, Fault, Reload, ReloadNotFound, Download, DownloadCorrupt,
       SwapRefused, SwapResponseLost, SwapRaisedAfterWrite, Raise, Build,
       Upload, UploadResponseLost, UploadFails, Crash
  <2>2. /\ pc[c] \in Running
        /\ \A d \in Calls : d # c => pc'[d] = pc[d]
    BY <1>3 DEF Running, Step, Fault, Reload, ReloadNotFound, Download,
       DownloadCorrupt, SwapRefused, SwapResponseLost, SwapRaisedAfterWrite,
       Raise, Build, Upload, UploadResponseLost, UploadFails, Crash, Retry
  <2> QED
    BY <2>1, <2>2 DEF Running
<1>4. CASE UNCHANGED vars
  BY <1>4 DEF vars
<1> QED
  BY <1>1, <1>2, <1>3, <1>4 DEF Next, AllEnded

\* A run that begins after another one was reported gets a larger number.
THEOREM NumbersFollowRealTime == Spec => []LaterRunsLargerNumbers
<1>1. OrderInv => LaterRunsLargerNumbers
  BY DEF OrderInv
<1> QED
  BY <1>1, TypeCorrect, SafetyHolds, OrderInit, OrderStep, PTL DEF Spec

-------------------------------------------------------------------------------
(* What a call reports, and why it gives up *)

\* Every attempt a call has lost is a generation the counter has gained since
\* the call began; a call that gave up has lost them all.
AttemptsCostGenerations ==
  \A c \in Calls :
    /\ pc[c] \in {"download", "swap"} =>
         readGeneration[c] >= generationBefore[c] + attempt[c]
    /\ counter.generation >= generationBefore[c] + attempt[c]
    /\ pc[c] = "contended" => attempt[c] >= MaxReserveAttempts
    /\ pc[c] = "idle" => attempt[c] = 0

ReportInv == AttemptsCostGenerations /\ ReportedIsStored

\* Nothing is reported and no attempt is spent before a call begins.
LEMMA ReportInit == Init => ReportInv
<1> SUFFICES ASSUME Init
             PROVE  ReportInv
  OBVIOUS
<1>1. TypeOK
  BY TypeInit DEF TInv
<1> QED
  BY <1>1 DEF Init, ReportInv, AttemptsCostGenerations, ReportedIsStored, TypeOK, Counter

\* Only a stored artifact is reported, and only a lost race spends an attempt.
LEMMA ReportStep == TypeOK /\ SafetyInv /\ ReportInv /\ [Next]_vars => ReportInv'
<1> SUFFICES ASSUME TypeOK, SafetyInv, ReportInv, [Next]_vars
             PROVE  ReportInv'
  OBVIOUS
<1> USE DEF ReportInv, AttemptsCostGenerations, ReportedIsStored, TypeOK, Counter,
            Running, Goto, bucket, readState, history
<1>1. ASSUME NEW c \in Calls, Begin(c) PROVE ReportInv'
  BY <1>1 DEF Begin
<1>2. ASSUME NEW c \in Calls, Reload(c) PROVE ReportInv'
  BY <1>2 DEF Reload
<1>3. ASSUME NEW c \in Calls, ReloadNotFound(c) PROVE ReportInv'
  BY <1>3 DEF ReloadNotFound
<1>4. ASSUME NEW c \in Calls, Download(c) \/ DownloadCorrupt(c) PROVE ReportInv'
  BY <1>4 DEF Download, DownloadCorrupt, SafetyInv, ReadsNotAhead
<1>5. ASSUME NEW c \in Calls, Swap(c) PROVE ReportInv'
  BY <1>5, AcceptedWrite DEF Swap
<1>6. ASSUME NEW c \in Calls, SwapRefused(c) PROVE ReportInv'
  BY <1>6 DEF SwapRefused, Retry, GenerationMatches, SafetyInv, ReadsNotAhead
<1>7. ASSUME NEW c \in Calls, SwapResponseLost(c) PROVE ReportInv'
  BY <1>7, AcceptedWrite DEF SwapResponseLost, Retry
<1>8. ASSUME NEW c \in Calls, SwapRaisedAfterWrite(c) PROVE ReportInv'
  BY <1>8, AcceptedWrite DEF SwapRaisedAfterWrite
<1>9. ASSUME NEW c \in Calls, Raise(c) \/ Build(c) \/ UploadFails(c) \/ Crash(c)
      PROVE  ReportInv'
  BY <1>9 DEF Raise, Build, UploadFails, Crash
<1>10. ASSUME NEW c \in Calls, Upload(c) PROVE ReportInv'
  BY <1>10 DEF Upload, StoreArtifact, ArtifactName
<1>11. ASSUME NEW c \in Calls, UploadResponseLost(c) PROVE ReportInv'
  BY <1>11 DEF UploadResponseLost, StoreArtifact, ArtifactName
<1>12. CASE UNCHANGED vars
  BY <1>12 DEF vars
<1> QED
  BY <1>1, <1>2, <1>3, <1>4, <1>5, <1>6, <1>7, <1>8, <1>9, <1>10, <1>11, <1>12
     DEF Next, Step, Fault, AllEnded

\* Attempts are paid for by writes of the counter, and reports by artifacts.
THEOREM ReportsHold == Spec => []ReportInv
<1> QED
  BY TypeCorrect, SafetyHolds, ReportInit, ReportStep, PTL DEF Spec

\* A reported number always names an artifact in the bucket.
THEOREM ReportsAreStored == Spec => []ReportedIsStored
<1>1. ReportInv => ReportedIsStored
  BY DEF ReportInv
<1> QED
  BY <1>1, ReportsHold, PTL

\* A call gives up as contended only after MAX_RESERVE_ATTEMPTS writes of the
\* counter were accepted since it began.
THEOREM GivingUpMeansContention == Spec => []ContentionIsReal
<1>1. TypeOK /\ ReportInv => ContentionIsReal
  BY DEF ReportInv, AttemptsCostGenerations, ContentionIsReal, TypeOK, Counter
<1> QED
  BY <1>1, TypeCorrect, ReportsHold, PTL

\* A corrupt counter is never written, and no number is handed out from it.
THEOREM CorruptCounterIsKept == Spec => CorruptCounterKept
<1>1. TypeOK /\ SafetyInv /\ [Next]_vars
        => [~counter.integer => counter' = counter /\ runNumber' = runNumber]_vars
  <2> SUFFICES ASSUME TypeOK, SafetyInv, Next, ~counter.integer
               PROVE  counter' = counter /\ runNumber' = runNumber
    OBVIOUS
  <2>1. \A c \in Calls : pc[c] # "swap"
    BY DEF SafetyInv, CorruptStopsCalls
  <2> QED
    BY <2>1 DEF Next, Step, Fault, AllEnded, vars, bucket, Goto, Begin, Reload,
       ReloadNotFound, Download, DownloadCorrupt, Swap, SwapRefused,
       SwapResponseLost, SwapRaisedAfterWrite, Raise, Build, Upload,
       UploadResponseLost, UploadFails, Crash, Retry
<1> QED
  BY <1>1, TypeCorrect, SafetyHolds, PTL DEF Spec, CorruptCounterKept

-------------------------------------------------------------------------------
(* The counter implements the abstract sequence of run numbers *)

\* A write of the counter that its writer does not learn of burns the number.
LEMMA LostWriteBurns ==
  ASSUME TypeOK, SafetyInv, NEW c \in Calls,
         pc[c] = "swap", GenerationMatches(c), StoreCandidate(c),
         UNCHANGED <<artifacts, runNumber>>
  PROVE  Abstract!Burn
BY AcceptedWrite DEF Abstract!Burn, ArtifactName

\* Storing an artifact under its name publishes the call's number.
LEMMA StoringPublishes ==
  ASSUME TypeOK, SafetyInv, NEW c \in Calls,
         pc[c] = "upload", StoreArtifact(c), UNCHANGED <<counter, runNumber>>
  PROVE  Abstract!Publish(c)
BY DEF Abstract!Publish, StoreArtifact, ArtifactName, SafetyInv, HeldSinceSwap, TypeOK

\* Every behaviour of the logger is one of RunNumbers: a number once handed
\* out, or burned, is never handed out again.
THEOREM ImplementsRunNumbers == Spec => RunNumbersSpec
<1>1. Init => Abstract!Init
  <2> SUFFICES ASSUME Init
               PROVE  Abstract!Init
    OBVIOUS
  <2>1. counter.value \in InitialValues
    <3>1. PICK v \in InitialValues :
            counter \in [value : {v}, generation : {IF v = 0 THEN 0 ELSE 1},
                         integer : IF v = 0 THEN {TRUE} ELSE BOOLEAN]
      BY DEF Init
    <3>2. counter.value = v
      BY <3>1, Zenon
    <3> QED
      BY <3>2
  <2>2. \A c \in Calls : ArtifactName(c) \notin artifacts
    BY DEF Init, ArtifactName
  <2> QED
    BY <2>1, <2>2 DEF Abstract!Init, Init
<1>2. TypeOK /\ SafetyInv /\ [Next]_vars => [Abstract!Next]_Abstract!vars
  <2> SUFFICES ASSUME TypeOK, SafetyInv, [Next]_vars
               PROVE  [Abstract!Next]_Abstract!vars
    OBVIOUS
  <2> USE DEF Goto, bucket
  <2>1. ASSUME NEW c \in Calls, Swap(c) PROVE Abstract!Claim(c)
    <3>1. counter'.value = counter.value + 1
      BY <2>1, AcceptedWrite DEF Swap
    <3>2. /\ runNumber' = [runNumber EXCEPT ![c] = counter.value + 1]
          /\ runNumber[c] = 0
      BY <2>1 DEF Swap, SafetyInv, FreshReads, HeldSinceSwap, GenerationMatches
    <3>3. ArtifactName(c) \notin artifacts /\ ArtifactName(c)' \notin artifacts
      BY <3>2 DEF ArtifactName, SafetyInv, StoredNumbers, TypeOK, Counter
    <3>4. \A d \in Calls : d # c => ArtifactName(d)' = ArtifactName(d)
      BY <3>2 DEF ArtifactName, TypeOK
    <3>5. artifacts' = artifacts
      BY <2>1 DEF Swap
    <3> QED
      BY <3>1, <3>2, <3>3, <3>4, <3>5 DEF Abstract!Claim
  <2>2. ASSUME NEW c \in Calls, SwapResponseLost(c) \/ SwapRaisedAfterWrite(c)
        PROVE  Abstract!Burn
    BY <2>2, LostWriteBurns DEF SwapResponseLost, SwapRaisedAfterWrite, Retry
  <2>3. ASSUME NEW c \in Calls, Upload(c) \/ UploadResponseLost(c)
        PROVE  Abstract!Publish(c)
    BY <2>3, StoringPublishes DEF Upload, UploadResponseLost
  <2>4. ASSUME NEW c \in Calls,
               \/ Begin(c) \/ Reload(c) \/ ReloadNotFound(c) \/ Download(c)
               \/ DownloadCorrupt(c) \/ SwapRefused(c) \/ Build(c) \/ Raise(c)
               \/ UploadFails(c) \/ Crash(c)
        PROVE  UNCHANGED <<counter, artifacts, runNumber>>
    BY <2>4 DEF Begin, Reload, ReloadNotFound, Download, DownloadCorrupt,
       SwapRefused, Build, Raise, UploadFails, Crash
  <2>5. UNCHANGED <<counter, artifacts, runNumber>> => UNCHANGED Abstract!vars
    BY DEF Abstract!vars, ArtifactName
  <2>6. CASE UNCHANGED vars
    BY <2>5, <2>6 DEF vars
  <2> QED
    BY <2>1, <2>2, <2>3, <2>4, <2>5, <2>6 DEF Next, Step, Fault, AllEnded, Abstract!Next
<1> QED
  BY <1>1, <1>2, TypeCorrect, SafetyHolds, PTL DEF Spec, Abstract!Spec, RunNumbersSpec
===============================================================================
