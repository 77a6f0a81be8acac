------------------------------ MODULE WebApi_proofs -----------------------------
(***************************************************************************)
(* Proofs about WebApi, for any requests, kinds of request, deployments    *)
(* and size of the thread pool.                                            *)
(*                                                                         *)
(* The argument: what the check of a request established stays true while  *)
(* it is handled, because nobody but its own handler moves it on; and a    *)
(* handler keeps the event loop while its temporary file is on the disk.   *)
(***************************************************************************)
EXTENDS WebApi, TLAPS

USE NullAssumption

-------------------------------------------------------------------------------
(* Type correctness *)

Places ==
  {"none", "auth", "checked", "reading", "read", "write", "extract", "prepare", "redact",
   "run", "running", "log", "answered"}

TypeInv ==
  /\ deployment \in Deployments
  /\ request \in [Requests -> Kinds \cup {Null}]
  /\ pc \in [Requests -> Places]
  /\ files \in [Requests -> Seq(Uploads)]
  /\ status \in [Requests -> Nat \cup {Null}]
  /\ loop \in Requests \cup {Null}
  /\ ping \in [Requests -> {"none", "submitted", "sent", "ended"}]
  /\ temporaries \subseteq Requests

\* The steps of one request's handler, by what they do to its handling.
Moves(r) ==
  \/ \E to \in Places \ {"none"} : Continue(r, to) \/ Await(r, to)
  \/ \E code \in Nat : Answer(r, code)

\* A step on the loop is of the request that holds it, or takes a free loop.
LEMMA LoopMoves ==
  ASSUME NEW r \in Requests, LoopStep(r)
  PROVE  Moves(r) /\ pc[r] # "none" /\ pc[r] # "answered" /\ loop \in {Null, r}
<1>0. /\ \A code \in Nat : Answer(r, code) => Moves(r)
      /\ \A to \in Places \ {"none"} : Continue(r, to) \/ Await(r, to) => Moves(r)
  BY DEF Moves
<1> HIDE DEF Moves
<1>1. Moves(r)
  <2>1. CASE Refuse(r)
    <3>1. Refusal(r) # Null => Refusal(r) \in Nat
      BY DEF Refusal
    <3> QED
      BY <1>0, <2>1, <3>1 DEF Refuse
  <2>2. CASE Prepare(r)
    <3>1. \/ \E code \in {NoServingCV, 400, 500} : Answer(r, code)
          \/ \E to \in {"redact", "run"} : Continue(r, to)
      BY <2>2 DEF Prepare
    <3> QED
      BY <1>0, <3>1 DEF Places, NoServingCV
  <2>3. CASE Read(r)
    <3>1. \/ Answer(r, 400)
          \/ Await(r, "reading") \/ Continue(r, "read") \/ Continue(r, "prepare")
          \/ Continue(r, "write")
      BY <2>3, Zenon DEF Read, NextDocument, ReadNext
    <3> QED
      BY <1>0, <3>1 DEF Places
  <2>4. CASE Extract(r)
    BY <1>0, <2>4 DEF Extract, NextDocument, ReadNext, Places
  <2>5. CASE Begin(r)
    BY <1>0, <2>5 DEF Begin, ReadNext, Places
  <2>6. CASE Write(r) \/ Run(r) \/ RunDone(r) \/ Redact(r)
    BY <1>0, <2>6 DEF Write, Run, RunDone, Redact, Places
  <2>7. CASE \/ Warm(r) \/ WriteFails(r) \/ UnlinkFails(r) \/ RecogniserRefuses(r)
             \/ ClockSetBack(r) \/ RunRaises(r) \/ Log(r)
    <3>1. \E code \in {200, 202, 400, 500} : Answer(r, code)
      BY <2>7 DEF Warm, WriteFails, UnlinkFails, RecogniserRefuses, ClockSetBack, RunRaises,
                  Log
    <3> QED
      BY <1>0, <3>1
  <2> QED
    BY <2>1, <2>2, <2>3, <2>4, <2>5, <2>6, <2>7 DEF LoopStep
<1>2. pc[r] # "none" /\ pc[r] # "answered" /\ loop \in {Null, r}
  BY DEF LoopStep, Refuse, Warm, Begin, Read, Write, WriteFails, Extract, Prepare, Run,
         RunDone, UnlinkFails, Redact, RecogniserRefuses, ClockSetBack, RunRaises, Log,
         MayStep
<1> QED
  BY <1>1, <1>2

\* No step changes the deployment, and a request once arrived stays what it is.
LEMMA Fixed ==
  ASSUME TypeInv, [Next]_vars
  PROVE  /\ deployment' = deployment
         /\ \A r \in Requests : request[r] # Null => request'[r] = request[r]
<1>1. request \in [Requests -> Kinds \cup {Null}]
  BY DEF TypeInv
<1>2. deployment' = deployment
  <2>1. ASSUME NEW r \in Requests, LoopStep(r) PROVE deployment' = deployment
    BY <2>1
       DEF LoopStep, Refuse, Warm, Begin, Read, Write, WriteFails, Extract, Prepare, Run,
           RunDone, UnlinkFails, Redact, RecogniserRefuses, ClockSetBack, RunRaises, Log
  <2>2. ASSUME NEW r \in Requests, ThreadStep(r) PROVE deployment' = deployment
    BY <2>2 DEF ThreadStep, Authenticate, FetchUpload, SendPing, SkipPing, PingAnswered,
                PingGivesUp
  <2>3. ASSUME NEW r \in Requests, NEW kind \in Kinds, Arrive(r, kind)
        PROVE  deployment' = deployment
    BY <2>3 DEF Arrive
  <2>4. StartJob \/ Crash \/ BackendStep \/ UNCHANGED vars => deployment' = deployment
    BY DEF StartJob, Crash, BackendStep, vars
  <2> QED
    BY <2>1, <2>2, <2>3, <2>4 DEF Next, AllAnswered
<1>3. \/ request' = request
      \/ \E r \in Requests, kind \in Kinds :
           request[r] = Null /\ request' = [request EXCEPT ![r] = kind]
  <2>1. ASSUME NEW r \in Requests, LoopStep(r) PROVE request' = request
    BY <2>1, LoopMoves DEF Moves, Answer, Await, Continue
  <2>2. ASSUME NEW r \in Requests, ThreadStep(r) PROVE request' = request
    BY <2>2 DEF ThreadStep, Authenticate, FetchUpload, SendPing, SkipPing, PingAnswered,
                PingGivesUp, handling
  <2>3. StartJob \/ Crash \/ BackendStep \/ UNCHANGED vars => request' = request
    BY DEF StartJob, Crash, BackendStep, vars, handling
  <2>4. ASSUME NEW r \in Requests, NEW kind \in Kinds, Arrive(r, kind)
        PROVE  request[r] = Null /\ request' = [request EXCEPT ![r] = kind]
    BY <2>4 DEF Arrive
  <2> QED
    BY <2>1, <2>2, <2>3, <2>4 DEF Next, AllAnswered
<1> QED
  BY <1>1, <1>2, <1>3

-------------------------------------------------------------------------------
(* What is known of a request where its handling is *)

Good == {"text", "pdf"}

\* rest is what is left of a request's uploads, and what was read was good.
IsRest(rest, all) ==
  /\ Len(rest) \in 1 .. Len(all)
  /\ \A i \in 1 .. Len(rest) : rest[i] = all[Len(all) - Len(rest) + i]
  /\ \A i \in 1 .. Len(all) - Len(rest) : all[i] \in Good

Reading(r) == IsRest(files[r], request[r].files)

HandlerInv(r) ==
  /\ pc[r] # "none" => request[r] # Null
  /\ pc[r] \notin {"none", "answered"} => request[r].route \in Mounted
  /\ pc[r] \in {"auth", "checked"} => files[r] = request[r].files
  /\ pc[r] \in Places \ {"none", "auth", "checked", "answered"} =>
       /\ Refusal(r) = Null /\ request[r].weights /\ request[r].route # "warm"
       /\ UsesModel(r) => "scoring" \notin deployment.invalid
  /\ pc[r] \in {"reading", "read", "write", "extract"} => Reading(r)
  /\ pc[r] \in {"write", "extract"} => Head(files[r]) \in {"pdf", "unreadable pdf"}
  /\ pc[r] \in {"prepare", "redact", "run", "running", "log"} => GoodFiles(request[r])
  /\ pc[r] \in {"redact", "run", "running", "log"} =>
       /\ request[r].route = "match" => deployment.serving
       /\ BuildError(r) = ""
  /\ pc[r] = "redact" => TakesCV(r)
  /\ pc[r] \in {"run", "running", "log"} =>
       /\ UsesModel(r)
       /\ TakesCV(r) => ~RejectsDefaults(Ingested) /\ ~RejectsBucket
  /\ ping[r] # "none" =>
       /\ request[r] # Null /\ Refusal(r) = Null /\ request[r].route = "warm"
       /\ pc[r] = "answered"

HInv == TypeInv /\ \A r \in Requests : HandlerInv(r)

\* What is said of a request depends on it and the deployment alone.
LEMMA SameVerdicts ==
  ASSUME NEW r, deployment' = deployment, request'[r] = request[r]
  PROVE  /\ Mounted' = Mounted /\ Refusal(r)' = Refusal(r) /\ BuildError(r)' = BuildError(r)
         /\ GoodFiles(request[r])' <=> GoodFiles(request[r])
         /\ UsesModel(r)' <=> UsesModel(r)
         /\ TakesCV(r)' <=> TakesCV(r)
         /\ RejectsBucket' <=> RejectsBucket
         /\ RejectsDefaults(Ingested)' <=> RejectsDefaults(Ingested)
         /\ RejectsDefaults(Matched)' <=> RejectsDefaults(Matched)
<1>1. Mounted' = Mounted /\ Refusal(r)' = Refusal(r)
  BY DEF Mounted, Refusal, DemandsKey
<1>2. (UsesModel(r)' <=> UsesModel(r)) /\ (TakesCV(r)' <=> TakesCV(r))
  BY DEF UsesModel, TakesCV
<1>3. GoodFiles(request[r])' <=> GoodFiles(request[r])
  BY DEF GoodFiles
<1>4. BuildError(r)' = BuildError(r)
  BY <1>2 DEF BuildError
<1>5. /\ RejectsBucket' <=> RejectsBucket
      /\ RejectsDefaults(Ingested)' <=> RejectsDefaults(Ingested)
      /\ RejectsDefaults(Matched)' <=> RejectsDefaults(Matched)
  BY DEF RejectsBucket, RejectsDefaults, Ingested, Matched
<1> QED
  BY <1>1, <1>2, <1>3, <1>4, <1>5

\* What is said of a handler depends on its own request alone.
LEMMA HandlerFrame ==
  ASSUME NEW r \in Requests, HandlerInv(r), deployment' = deployment,
         request'[r] = request[r], pc'[r] = pc[r], files'[r] = files[r],
         ping'[r] = ping[r]
  PROVE  HandlerInv(r)'
<1>1. Reading(r)' <=> Reading(r)
  BY DEF Reading
<1>2. /\ Mounted' = Mounted /\ Refusal(r)' = Refusal(r) /\ BuildError(r)' = BuildError(r)
      /\ GoodFiles(request[r])' <=> GoodFiles(request[r])
      /\ UsesModel(r)' <=> UsesModel(r)
      /\ TakesCV(r)' <=> TakesCV(r)
      /\ RejectsBucket' <=> RejectsBucket
      /\ RejectsDefaults(Ingested)' <=> RejectsDefaults(Ingested)
  BY SameVerdicts
<1>3. /\ pc'[r] \notin {"none", "answered"} => request'[r].route \in Mounted'
      /\ pc'[r] \in {"redact", "run", "running", "log"} => BuildError(r)' = ""
  BY <1>2 DEF HandlerInv
<1>4. pc'[r] \in Places \ {"none", "auth", "checked", "answered"} =>
        /\ Refusal(r)' = Null /\ request'[r].weights /\ request'[r].route # "warm"
        /\ UsesModel(r)' => "scoring" \notin deployment'.invalid
  BY <1>2 DEF HandlerInv
<1>5. pc'[r] \in {"run", "running", "log"} =>
        /\ UsesModel(r)'
        /\ TakesCV(r)' => ~RejectsDefaults(Ingested)' /\ ~RejectsBucket'
  BY <1>2 DEF HandlerInv
<1>6. ping'[r] # "none" =>
        /\ request'[r] # Null /\ Refusal(r)' = Null /\ request'[r].route = "warm"
        /\ pc'[r] = "answered"
  BY <1>2 DEF HandlerInv
<1> QED
  BY <1>1, <1>2, <1>3, <1>4, <1>5, <1>6 DEF HandlerInv

\* One more upload read and found good: the others are still the end of the list.
LEMMA RestOfTail ==
  ASSUME NEW all \in Seq(Uploads), NEW rest \in Seq(Uploads), IsRest(rest, all),
         Head(rest) \in Good
  PROVE  /\ Len(rest) > 1 => IsRest(Tail(rest), all)
         /\ ~ (Len(rest) > 1) => \A i \in 1 .. Len(all) : all[i] \in Good
<1> DEFINE n == Len(rest)
<1>1. /\ n \in 1 .. Len(all) /\ Len(all) \in Nat
      /\ \A i \in 1 .. n : rest[i] = all[Len(all) - n + i]
      /\ \A i \in 1 .. Len(all) - n : all[i] \in Good
  BY DEF IsRest
<1>2. Head(rest) = rest[1] /\ rest # <<>>
  BY <1>1
<1>3. /\ Len(Tail(rest)) = n - 1
      /\ \A i \in 1 .. n - 1 : Tail(rest)[i] = rest[i + 1]
  BY <1>2
<1> HIDE DEF n
<1>4. ASSUME NEW i \in 1 .. Len(all) - n + 1
      PROVE  all[i] \in Good
  <2>1. 1 \in 1 .. n
    BY <1>1
  <2>2. all[Len(all) - n + 1] \in Good
    BY <1>1, <1>2, <2>1
  <2>3. n \in Int /\ Len(all) \in Int
    BY <1>1
  <2>4. i = Len(all) - n + 1 \/ i \in 1 .. Len(all) - n
    BY <2>3
  <2> QED
    BY <1>1, <2>2, <2>4
<1>5. ASSUME n > 1
      PROVE  IsRest(Tail(rest), all)
  <2>1. ASSUME NEW i \in 1 .. n - 1
        PROVE  Tail(rest)[i] = all[Len(all) - (n - 1) + i]
    <3>1. /\ i + 1 \in 1 .. n
          /\ Len(all) - n + (i + 1) = Len(all) - (n - 1) + i
      BY <1>1
    <3> QED
      BY <1>1, <1>3, <3>1
  <2>2. n - 1 \in 1 .. Len(all) /\ Len(all) - (n - 1) = Len(all) - n + 1
    BY <1>1, <1>5
  <2> QED
    BY <1>3, <1>4, <2>1, <2>2 DEF IsRest
<1>6. ASSUME ~ (n > 1)
      PROVE  \A i \in 1 .. Len(all) : all[i] \in Good
  <2>1. Len(all) - n + 1 = Len(all)
    BY <1>1, <1>6
  <2> QED
    BY <1>4, <2>1
<1> QED
  BY <1>5, <1>6 DEF n

\* All uploads are good once the last one is; else the rest is read next.
LEMMA NextDocumentReads ==
  ASSUME TypeInv, NEW r \in Requests, Reading(r), request[r] \in Kinds,
         Head(files[r]) \in Good, NextDocument(r)
  PROVE  /\ request' = request
         /\ files' = [files EXCEPT ![r] = Tail(@)]
         /\ \/ \E to \in {"reading", "read"} : pc' = [pc EXCEPT ![r] = to] /\ Reading(r)'
            \/ pc' = [pc EXCEPT ![r] = "prepare"] /\ GoodFiles(request[r])
<1>1. request[r].files \in Seq(Uploads) /\ files[r] \in Seq(Uploads)
  BY KindsAssumption DEF TypeInv
<1>2. /\ Len(files[r]) > 1 => IsRest(Tail(files[r]), request[r].files)
      /\ ~ (Len(files[r]) > 1) =>
           \A i \in 1 .. Len(request[r].files) : request[r].files[i] \in Good
  BY <1>1, RestOfTail DEF Reading
<1>3. request' = request /\ files' = [files EXCEPT ![r] = Tail(@)]
  BY DEF NextDocument, ReadNext, Await, Continue
<1>4. files'[r] = Tail(files[r])
  BY <1>3 DEF TypeInv
<1>5. CASE Len(files[r]) > 1
  <2>1. \E to \in {"reading", "read"} : pc' = [pc EXCEPT ![r] = to]
    BY <1>5 DEF NextDocument, ReadNext, Await, Continue
  <2>2. Reading(r)'
    BY <1>2, <1>3, <1>4, <1>5 DEF Reading
  <2> QED
    BY <1>3, <2>1, <2>2
<1>6. CASE ~ (Len(files[r]) > 1)
  <2>1. pc' = [pc EXCEPT ![r] = "prepare"]
    BY <1>6 DEF NextDocument, Continue
  <2>2. DOMAIN request[r].files = 1 .. Len(request[r].files)
    BY <1>1
  <2>3. GoodFiles(request[r])
    BY <1>2, <1>6, <2>2 DEF GoodFiles, Good
  <2> QED
    BY <1>3, <2>1, <2>3
<1> QED
  BY <1>5, <1>6

\* A handler's step on its own request.
LEMMA HandlerLoop ==
  ASSUME HInv, NEW r \in Requests, LoopStep(r)
  PROVE  HandlerInv(r)'
<1>0. /\ HandlerInv(r) /\ TypeInv
      /\ pc \in [Requests -> Places]
      /\ request \in [Requests -> Kinds \cup {Null}]
      /\ files \in [Requests -> Seq(Uploads)]
      /\ ping \in [Requests -> {"none", "submitted", "sent", "ended"}]
  BY DEF HInv, TypeInv
<1>1. pc[r] # "none" /\ deployment' = deployment /\ request' = request
  BY LoopMoves, <1>0
     DEF LoopStep, Refuse, Warm, Begin, Read, Write, WriteFails, Extract, Prepare, Run,
         RunDone, UnlinkFails, Redact, RecogniserRefuses, ClockSetBack, RunRaises, Log,
         Moves, Answer, Await, Continue
<1>2. request[r] # Null /\ request[r] \in Kinds
  BY <1>0, <1>1 DEF HandlerInv
<1>3. /\ Mounted' = Mounted /\ Refusal(r)' = Refusal(r) /\ BuildError(r)' = BuildError(r)
      /\ request'[r] = request[r]
      /\ GoodFiles(request[r])' <=> GoodFiles(request[r])
      /\ UsesModel(r)' <=> UsesModel(r)
      /\ TakesCV(r)' <=> TakesCV(r)
      /\ RejectsBucket' <=> RejectsBucket
      /\ RejectsDefaults(Ingested)' <=> RejectsDefaults(Ingested)
  BY <1>1, SameVerdicts
<1>4. ASSUME UNCHANGED files PROVE Reading(r)' <=> Reading(r)
  BY <1>1, <1>4 DEF Reading
<1> HIDE DEF HandlerInv
<1>5. ASSUME NEW code \in Nat, Answer(r, code), UNCHANGED <<files, ping>>
      PROVE  HandlerInv(r)'
  BY <1>0, <1>1, <1>2, <1>3, <1>5 DEF HandlerInv, Answer
<1>6. CASE \/ Refuse(r) \/ WriteFails(r) \/ UnlinkFails(r) \/ RecogniserRefuses(r)
           \/ ClockSetBack(r) \/ RunRaises(r) \/ Log(r)
  <2>1. \E code \in {Refusal(r), 200, 400, 422, 500} : code # Null /\ Answer(r, code)
    BY <1>6, NullAssumption
       DEF Refuse, WriteFails, UnlinkFails, RecogniserRefuses, ClockSetBack, RunRaises, Log
  <2>2. Refusal(r) # Null => Refusal(r) \in Nat
    BY DEF Refusal
  <2>3. UNCHANGED <<files, ping>>
    BY <1>6
       DEF Refuse, WriteFails, UnlinkFails, RecogniserRefuses, ClockSetBack, RunRaises, Log
  <2>4. \E code \in Nat : Answer(r, code)
    BY <2>1, <2>2
  <2> QED
    BY <1>5, <2>3, <2>4
<1>7. CASE Warm(r)
  BY <1>0, <1>1, <1>2, <1>3, <1>7 DEF HandlerInv, Warm, Passes, Answer
<1>8. CASE Begin(r)
  <2>1. CASE Answer(r, 400)
    BY <1>5, <1>8, <2>1 DEF Begin
  <2>2. CASE ReadNext(r) /\ ~ (UsesModel(r) /\ ("scoring" \in deployment.invalid
                                                   \/ ~request[r].weights))
    <3>1. /\ pc[r] = "checked" /\ Refusal(r) = Null /\ request[r].route # "warm"
          /\ UNCHANGED <<files, ping>>
      BY <1>8 DEF Begin, MayStep, Passes
    <3>2. files[r] = request[r].files /\ request[r].route \in Mounted
      BY <1>0, <3>1 DEF HandlerInv
    <3>3. request[r].files \in Seq(Uploads) /\ request[r].files # <<>>
      BY <1>2, <3>1, KindsAssumption
    <3>4. IsRest(request[r].files, request[r].files)
      BY <3>3 DEF IsRest
    <3>5. Reading(r)'
      BY <1>4, <3>1, <3>2, <3>4 DEF Reading
    <3>6. \E to \in {"reading", "read"} : pc' = [pc EXCEPT ![r] = to]
      BY <2>2 DEF ReadNext, Await, Continue
    <3>7. /\ request[r].weights
          /\ UsesModel(r) => "scoring" \notin deployment.invalid
      BY <1>2, <2>2, <3>1, KindsAssumption DEF UsesModel
    <3>8. ping[r] = "none"
      BY <1>0, <3>1 DEF HandlerInv
    <3> QED
      BY <1>0, <1>1, <1>2, <1>3, <3>1, <3>2, <3>5, <3>6, <3>7, <3>8 DEF HandlerInv, Places
  <2> QED
    BY <1>8, <2>1, <2>2 DEF Begin
<1>9. CASE Read(r)
  <2>1. CASE Answer(r, 400) /\ UNCHANGED files
    <3>1. UNCHANGED ping
      BY <1>9 DEF Read
    <3> QED
      BY <1>5, <2>1, <3>1
  <2>2. CASE NextDocument(r) /\ Head(files[r]) = "text"
    <3>1. pc[r] = "read" /\ UNCHANGED ping
      BY <1>9 DEF Read, MayStep
    <3>2. Reading(r) /\ Head(files[r]) \in Good
      BY <1>0, <2>2, <3>1 DEF HandlerInv, Good
    <3>3. \/ \E to \in {"reading", "read"} : pc' = [pc EXCEPT ![r] = to] /\ Reading(r)'
          \/ pc' = [pc EXCEPT ![r] = "prepare"] /\ GoodFiles(request[r])
      BY <1>0, <1>2, <2>2, <3>2, NextDocumentReads
    <3> QED
      BY <1>0, <1>1, <1>2, <1>3, <3>1, <3>3 DEF HandlerInv, Places
  <2>3. CASE /\ Continue(r, "write") /\ UNCHANGED files
             /\ Head(files[r]) \in {"pdf", "unreadable pdf"}
    <3>1. pc[r] = "read" /\ UNCHANGED ping /\ pc' = [pc EXCEPT ![r] = "write"]
      BY <1>9, <2>3 DEF Read, MayStep, Continue
    <3>2. Reading(r)' /\ files'[r] = files[r]
      BY <1>0, <1>4, <2>3, <3>1 DEF HandlerInv
    <3> QED
      BY <1>0, <1>1, <1>2, <1>3, <2>3, <3>1, <3>2 DEF HandlerInv, Places
  <2> QED
    BY <1>9, <2>1, <2>2, <2>3, Zenon DEF Read
<1>10. CASE Write(r)
  <2>1. pc[r] = "write" /\ UNCHANGED <<files, ping>> /\ pc' = [pc EXCEPT ![r] = "extract"]
    BY <1>10 DEF Write, MayStep, Continue
  <2> QED
    BY <1>0, <1>1, <1>2, <1>3, <1>4, <2>1 DEF HandlerInv, Places
<1>11. CASE Extract(r)
  <2>1. pc[r] = "extract" /\ UNCHANGED ping
    BY <1>11 DEF Extract, MayStep
  <2>2. CASE Answer(r, 400) /\ UNCHANGED files
    BY <1>5, <2>1, <2>2
  <2>3. CASE NextDocument(r) /\ Head(files[r]) = "pdf"
    <3>1. Reading(r) /\ Head(files[r]) \in Good
      BY <1>0, <2>1, <2>3 DEF HandlerInv, Good
    <3>2. \/ \E to \in {"reading", "read"} : pc' = [pc EXCEPT ![r] = to] /\ Reading(r)'
          \/ pc' = [pc EXCEPT ![r] = "prepare"] /\ GoodFiles(request[r])
      BY <1>0, <1>2, <2>3, <3>1, NextDocumentReads
    <3> QED
      BY <1>0, <1>1, <1>2, <1>3, <2>1, <3>2 DEF HandlerInv, Places
  <2> QED
    BY <1>11, <2>2, <2>3, Zenon DEF Extract
<1>12. CASE Prepare(r)
  <2>1. pc[r] = "prepare" /\ UNCHANGED <<files, ping>>
    BY <1>12 DEF Prepare, MayStep
  <2>2. \/ \E code \in {NoServingCV, 400, 500} : Answer(r, code)
        \/ /\ Continue(r, IF TakesCV(r) THEN "redact" ELSE "run")
           /\ BuildError(r) = "" /\ (request[r].route = "match" => deployment.serving)
    <3>1. CASE request[r].route = "match" /\ ~deployment.serving
      BY <1>12, <3>1 DEF Prepare
    <3>2. CASE BuildError(r) = "" /\ ~ (request[r].route = "match" /\ ~deployment.serving)
      BY <1>12, <3>2 DEF Prepare
    <3>3. CASE BuildError(r) # "" /\ ~ (request[r].route = "match" /\ ~deployment.serving)
      <4>1. Answer(r, IF BuildError(r) = "ValueError" THEN 400 ELSE 500)
        BY <1>12, <3>3, Zenon DEF Prepare
      <4> QED
        BY <4>1
    <3> QED
      BY <3>1, <3>2, <3>3
  <2>3. CASE \E code \in {NoServingCV, 400, 500} : Answer(r, code)
    BY <1>5, <2>1, <2>3 DEF NoServingCV
  <2>4. CASE /\ Continue(r, IF TakesCV(r) THEN "redact" ELSE "run")
             /\ BuildError(r) = "" /\ (request[r].route = "match" => deployment.serving)
    <3>1. request[r].route # "warm"
      BY <1>0, <2>1 DEF HandlerInv, Places
    <3>2. ~TakesCV(r) => UsesModel(r)
      BY <1>2, <3>1, KindsAssumption DEF TakesCV, UsesModel
    <3>3. \/ TakesCV(r) /\ pc' = [pc EXCEPT ![r] = "redact"]
          \/ ~TakesCV(r) /\ pc' = [pc EXCEPT ![r] = "run"]
      BY <2>4 DEF Continue
    <3> QED
      BY <1>0, <1>1, <1>2, <1>3, <2>1, <2>4, <3>2, <3>3 DEF HandlerInv, Places
  <2> QED
    BY <2>2, <2>3, <2>4
<1>13. CASE Run(r) \/ RunDone(r)
  <2>1. /\ pc[r] \in {"run", "running"} /\ UNCHANGED <<files, ping>>
        /\ \E to \in {"running", "log"} : pc' = [pc EXCEPT ![r] = to]
    BY <1>13 DEF Run, RunDone, MayStep, Continue
  <2> QED
    BY <1>0, <1>1, <1>2, <1>3, <2>1 DEF HandlerInv, Places
<1>14. CASE Redact(r)
  <2>1. pc[r] = "redact" /\ UNCHANGED <<files, ping>>
    BY <1>14 DEF Redact, MayStep
  <2>2. \/ \E code \in {200, 400} : Answer(r, code)
        \/ /\ Continue(r, "run") /\ UsesModel(r)
           /\ ~RejectsDefaults(Ingested) /\ ~RejectsBucket
    BY <1>14 DEF Redact
  <2>3. CASE \E code \in {200, 400} : Answer(r, code)
    BY <1>5, <2>1, <2>3
  <2>4. CASE /\ Continue(r, "run") /\ UsesModel(r)
             /\ ~RejectsDefaults(Ingested) /\ ~RejectsBucket
    <3>1. pc' = [pc EXCEPT ![r] = "run"]
      BY <2>4 DEF Continue
    <3> QED
      BY <1>0, <1>1, <1>2, <1>3, <2>1, <2>4, <3>1 DEF HandlerInv, Places
  <2> QED
    BY <2>2, <2>3, <2>4
<1> QED
  BY <1>6, <1>7, <1>8, <1>9, <1>10, <1>11, <1>12, <1>13, <1>14, LoopMoves DEF LoopStep

\* Where a handler reads, it has documents left.
LEMMA ReadingHasFiles ==
  ASSUME HInv, NEW r \in Requests, pc[r] \in {"read", "write", "extract"}
  PROVE  files[r] # <<>> /\ Tail(files[r]) \in Seq(Uploads)
<1>1. Len(files[r]) # 0 /\ files[r] \in Seq(Uploads)
  <2>1. Len(files[r]) \in 1 .. Len(request[r].files)
    BY DEF HInv, HandlerInv, Reading, IsRest
  <2> QED
    BY <2>1 DEF HInv, TypeInv
<1> QED
  BY <1>1

\* Steps on the loop keep the types.
LEMMA TypeInvLoop ==
  ASSUME HInv, NEW r \in Requests, LoopStep(r)
  PROVE  TypeInv'
<1>0. TypeInv
  BY DEF HInv
<1>1. files' = files \/ (files' = [files EXCEPT ![r] = Tail(@)] /\ pc[r] \in {"read", "extract"})
  BY DEF LoopStep, Refuse, Warm, Begin, Read, Write, WriteFails, Extract, Prepare, Run,
         RunDone, UnlinkFails, Redact, RecogniserRefuses, ClockSetBack, RunRaises, Log,
         MayStep, NextDocument
<1>2. files' \in [Requests -> Seq(Uploads)]
  <2>1. files \in [Requests -> Seq(Uploads)]
    BY <1>0 DEF TypeInv
  <2>2. CASE files' = [files EXCEPT ![r] = Tail(@)] /\ pc[r] \in {"read", "extract"}
    <3>1. PICK rest \in Seq(Uploads) : rest = Tail(files[r])
      BY <2>2, ReadingHasFiles
    <3> QED
      BY <2>1, <2>2, <3>1
  <2> QED
    BY <1>1, <2>1, <2>2
<1>3. temporaries' \subseteq Requests
  BY <1>0 DEF TypeInv, LoopStep, Refuse, Warm, Begin, Read, Write, WriteFails, Extract,
              Prepare, Run, RunDone, UnlinkFails, Redact, RecogniserRefuses, ClockSetBack,
              RunRaises, Log, WithoutFile
<1>4. ping' = ping \/ ping' = [ping EXCEPT ![r] = "submitted"]
  BY DEF LoopStep, Refuse, Warm, Begin, Read, Write, WriteFails, Extract, Prepare, Run,
         RunDone, UnlinkFails, Redact, RecogniserRefuses, ClockSetBack, RunRaises, Log
<1>5. deployment' = deployment
  BY DEF LoopStep, Refuse, Warm, Begin, Read, Write, WriteFails, Extract, Prepare, Run,
         RunDone, UnlinkFails, Redact, RecogniserRefuses, ClockSetBack, RunRaises, Log
<1>6. /\ request' = request
      /\ \E to \in Places : pc' = [pc EXCEPT ![r] = to]
      /\ status' = status \/ \E code \in Nat : status' = [status EXCEPT ![r] = code]
      /\ loop' \in Requests \cup {Null}
  BY LoopMoves DEF Moves, Answer, Await, Continue, Places
<1>7. /\ pc' \in [Requests -> Places]
      /\ status' \in [Requests -> Nat \cup {Null}]
  <2>1. pc \in [Requests -> Places] /\ status \in [Requests -> Nat \cup {Null}]
    BY <1>0 DEF TypeInv
  <2>2. pc' \in [Requests -> Places]
    BY <1>6, <2>1
  <2>3. ASSUME NEW code \in Nat, status' = [status EXCEPT ![r] = code]
        PROVE  status' \in [Requests -> Nat \cup {Null}]
    BY <2>1, <2>3
  <2> QED
    BY <1>6, <2>1, <2>2, <2>3
<1>8. ping' \in [Requests -> {"none", "submitted", "sent", "ended"}]
  BY <1>0, <1>4 DEF TypeInv
<1> QED
  BY <1>0, <1>2, <1>3, <1>5, <1>6, <1>7, <1>8 DEF TypeInv

\* The other requests are left where they are.
LEMMA OthersStay ==
  ASSUME HInv, NEW r \in Requests, NEW q \in Requests \ {r}, LoopStep(r) \/ ThreadStep(r)
  PROVE  /\ deployment' = deployment
         /\ request'[q] = request[q] /\ pc'[q] = pc[q]
         /\ files'[q] = files[q] /\ ping'[q] = ping[q]
<1>0. TypeInv
  BY DEF HInv
<1>1. CASE LoopStep(r)
  <2>1. request'[q] = request[q] /\ pc'[q] = pc[q]
    BY <1>0, <1>1, LoopMoves DEF TypeInv, Moves, Answer, Await, Continue
  <2>2. deployment' = deployment /\ files'[q] = files[q] /\ ping'[q] = ping[q]
    BY <1>0, <1>1
       DEF TypeInv, LoopStep, Refuse, Warm, Begin, Read, Write, WriteFails, Extract,
           Prepare, Run, RunDone, UnlinkFails, Redact, RecogniserRefuses, ClockSetBack,
           RunRaises, Log, NextDocument
  <2> QED
    BY <2>1, <2>2
<1>2. CASE ThreadStep(r)
  BY <1>0, <1>2
     DEF TypeInv, ThreadStep, Authenticate, FetchUpload, SendPing, SkipPing, PingAnswered,
         PingGivesUp, handling
<1> QED
  BY <1>1, <1>2

\* Steps of the threads keep the types.
LEMMA TypeInvThread ==
  ASSUME TypeInv, NEW r \in Requests, ThreadStep(r)
  PROVE  TypeInv'
BY DEF TypeInv, Places, ThreadStep, Authenticate, FetchUpload, SendPing, SkipPing,
       PingAnswered, PingGivesUp, handling

\* A handler stays as described while a thread works for it.
LEMMA HandlerThread ==
  ASSUME HInv, NEW r \in Requests, ThreadStep(r)
  PROVE  HandlerInv(r)'
<1>0. TypeInv /\ HandlerInv(r) /\ deployment' = deployment
  BY DEF HInv, ThreadStep, Authenticate, FetchUpload, SendPing, SkipPing, PingAnswered,
         PingGivesUp
<1>1. /\ request' = request /\ files' = files
      /\ \/ pc' = pc /\ ping[r] # "none"
         \/ pc[r] = "auth" /\ pc' = [pc EXCEPT ![r] = "checked"] /\ ping' = ping
         \/ pc[r] = "reading" /\ pc' = [pc EXCEPT ![r] = "read"] /\ ping' = ping
  BY DEF ThreadStep, Authenticate, FetchUpload, SendPing, SkipPing, PingAnswered,
         PingGivesUp, handling
<1>2. /\ Mounted' = Mounted /\ Refusal(r)' = Refusal(r) /\ BuildError(r)' = BuildError(r)
      /\ GoodFiles(request[r])' <=> GoodFiles(request[r])
      /\ UsesModel(r)' <=> UsesModel(r)
      /\ TakesCV(r)' <=> TakesCV(r)
      /\ RejectsBucket' <=> RejectsBucket
      /\ RejectsDefaults(Ingested)' <=> RejectsDefaults(Ingested)
      /\ Reading(r)' <=> Reading(r)
  BY <1>0, <1>1, SameVerdicts DEF Reading
<1>3. CASE pc' = pc /\ ping[r] # "none"
  BY <1>0, <1>1, <1>2, <1>3 DEF HandlerInv
<1>4. CASE pc[r] = "auth" /\ pc' = [pc EXCEPT ![r] = "checked"] /\ ping' = ping
  <2>1. pc'[r] = "checked"
    BY <1>0, <1>4 DEF TypeInv
  <2> QED
    BY <1>0, <1>1, <1>2, <1>4, <2>1 DEF HandlerInv, Places
<1>5. CASE pc[r] = "reading" /\ pc' = [pc EXCEPT ![r] = "read"] /\ ping' = ping
  <2>1. pc'[r] = "read"
    BY <1>0, <1>5 DEF TypeInv
  <2> QED
    BY <1>0, <1>1, <1>2, <1>5, <2>1 DEF HandlerInv, Places
<1> QED
  BY <1>1, <1>3, <1>4, <1>5

\* A request that arrives begins where its route says.
LEMMA ArriveKeepsHInv ==
  ASSUME HInv, NEW r \in Requests, NEW kind \in Kinds, Arrive(r, kind)
  PROVE  HInv'
<1>0. TypeInv /\ HandlerInv(r)
  BY DEF HInv
<1>1. /\ request[r] = Null /\ request' = [request EXCEPT ![r] = kind]
      /\ files' = [files EXCEPT ![r] = kind.files]
      /\ UNCHANGED <<deployment, loop, ping, temporaries>>
  BY DEF Arrive
<1>2. \/ kind.route \in Mounted /\ pc' = [pc EXCEPT ![r] = "auth"] /\ UNCHANGED status
      \/ pc' = [pc EXCEPT ![r] = "answered"] /\ status' = [status EXCEPT ![r] = 404]
  BY DEF Arrive
<1>3. kind.files \in Seq(Uploads) /\ kind # Null
  BY KindsAssumption
<1>4. TypeInv'
  <2>1. /\ request \in [Requests -> Kinds \cup {Null}]
        /\ files \in [Requests -> Seq(Uploads)]
        /\ pc \in [Requests -> Places] /\ status \in [Requests -> Nat \cup {Null}]
    BY <1>0 DEF TypeInv
  <2>2. /\ request' \in [Requests -> Kinds \cup {Null}]
        /\ files' \in [Requests -> Seq(Uploads)]
    BY <1>1, <1>3, <2>1
  <2>3. pc' \in [Requests -> Places]
    <3>1. {"auth", "answered"} \subseteq Places
      BY DEF Places
    <3>2. \E to \in {"auth", "answered"} : pc' = [pc EXCEPT ![r] = to]
      BY <1>2
    <3> QED
      BY <2>1, <3>1, <3>2
  <2>4. status' \in [Requests -> Nat \cup {Null}]
    <3>1. CASE status' = [status EXCEPT ![r] = 404]
      BY <2>1, <3>1
    <3> QED
      BY <1>2, <2>1, <3>1
  <2> QED
    BY <1>0, <1>1, <2>2, <2>3, <2>4 DEF TypeInv
<1>5. /\ request'[r] = kind /\ files'[r] = kind.files /\ Mounted' = Mounted
      /\ ping'[r] = "none"
  BY <1>0, <1>1 DEF TypeInv, HandlerInv, Mounted
<1>6. (pc'[r] = "auth" /\ kind.route \in Mounted) \/ pc'[r] = "answered"
  BY <1>0, <1>2 DEF TypeInv
<1>7. HandlerInv(r)'
  BY <1>3, <1>5, <1>6 DEF HandlerInv, Places
<1>8. ASSUME NEW q \in Requests \ {r} PROVE HandlerInv(q)'
  <2>1. HandlerInv(q)
    BY DEF HInv
  <2>2. request'[q] = request[q] /\ pc'[q] = pc[q] /\ files'[q] = files[q]
    BY <1>0, <1>1, <1>2 DEF TypeInv
  <2> QED
    BY <1>1, <2>1, <2>2, HandlerFrame
<1> QED
  BY <1>4, <1>7, <1>8 DEF HInv

\* After a crash nobody is handled.
LEMMA CrashKeepsHInv ==
  ASSUME HInv, Crash
  PROVE  HInv'
<1>0. TypeInv
  BY DEF HInv
<1>1. TypeInv'
  BY <1>0 DEF TypeInv, Crash, Places
<1>2. ASSUME NEW r \in Requests PROVE HandlerInv(r)'
  <2>1. /\ pc'[r] = IF request[r] = Null THEN "none" ELSE "answered"
        /\ ping'[r] = IF ping[r] = "none" THEN "none" ELSE "ended"
        /\ UNCHANGED <<deployment, request, files>>
    BY DEF Crash
  <2>2. HandlerInv(r) /\ Mounted' = Mounted /\ Refusal(r)' = Refusal(r)
    BY <2>1, SameVerdicts DEF HInv
  <2> QED
    BY <2>1, <2>2 DEF HandlerInv, Places
<1> QED
  BY <1>1, <1>2 DEF HInv

\* Every handler is as described, always.
LEMMA HInvAlways == Spec => []HInv
<1>1. Init => HInv
  <2> SUFFICES ASSUME Init PROVE HInv
    OBVIOUS
  <2>1. TypeInv
    BY DEF Init, TypeInv, Places
  <2>2. \A r \in Requests : HandlerInv(r)
    BY DEF Init, HandlerInv, Places
  <2> QED
    BY <2>1, <2>2 DEF HInv
<1>2. HInv /\ [Next]_vars => HInv'
  <2> SUFFICES ASSUME HInv, [Next]_vars PROVE HInv'
    OBVIOUS
  <2>1. ASSUME NEW r \in Requests, LoopStep(r) \/ ThreadStep(r) PROVE HInv'
    <3>1. TypeInv'
      BY <2>1, TypeInvLoop, TypeInvThread DEF HInv
    <3>2. HandlerInv(r)'
      BY <2>1, HandlerLoop, HandlerThread
    <3>3. ASSUME NEW q \in Requests \ {r} PROVE HandlerInv(q)'
      BY <2>1, OthersStay, HandlerFrame DEF HInv
    <3> QED
      BY <3>1, <3>2, <3>3 DEF HInv
  <2>2. ASSUME UNCHANGED <<deployment, handling, ping, temporaries>> PROVE HInv'
    <3>1. TypeInv'
      BY <2>2 DEF HInv, TypeInv, handling
    <3>2. ASSUME NEW r \in Requests PROVE HandlerInv(r)'
      BY <2>2, HandlerFrame DEF HInv, handling
    <3> QED
      BY <3>1, <3>2 DEF HInv
  <2>3. StartJob \/ BackendStep \/ UNCHANGED vars
          => UNCHANGED <<deployment, handling, ping, temporaries>>
    BY DEF StartJob, BackendStep, vars
  <2> QED
    BY <2>1, <2>2, <2>3, ArriveKeepsHInv, CrashKeepsHInv DEF Next, AllAnswered
<1> QED
  BY <1>1, <1>2, PTL DEF Spec

-------------------------------------------------------------------------------
(* What happened so far *)

HistoryInv ==
  history \in [reached : SUBSET Requests, leftBehind : SUBSET Requests,
               setBack : SUBSET Requests, overlong : SUBSET Requests, crashed : BOOLEAN]

Notable == {"reached", "leftBehind", "setBack", "overlong"}

\* Noting something of a request changes that part of the history alone.
LEMMA NoteAdds ==
  ASSUME HistoryInv, NEW r \in Requests, NEW what \in Notable, Note(what, r)
  PROVE  /\ HistoryInv'
         /\ \A thing \in Notable :
              history'[thing] = IF what = thing THEN history[thing] \cup {r} ELSE history[thing]
<1>1. history' = [history EXCEPT ![what] = history[what] \cup {r}]
  BY DEF Note
<1>2. CASE what = "reached"
  BY <1>1, <1>2 DEF HistoryInv, Notable
<1>3. CASE what = "leftBehind"
  BY <1>1, <1>3 DEF HistoryInv, Notable
<1>4. CASE what = "setBack"
  BY <1>1, <1>4 DEF HistoryInv, Notable
<1>5. CASE what = "overlong"
  BY <1>1, <1>5 DEF HistoryInv, Notable
<1> QED
  BY <1>2, <1>3, <1>4, <1>5 DEF Notable

\* A killed process leaves its temporary file behind.
LEMMA CrashNotes ==
  ASSUME HistoryInv, TypeInv, Crash
  PROVE  /\ HistoryInv'
         /\ history'.reached = history.reached
         /\ history'.setBack = history.setBack /\ history'.overlong = history.overlong
         /\ history'.leftBehind = history.leftBehind \cup temporaries
BY DEF HistoryInv, TypeInv, Crash

\* Which steps note what.
LEMMA HistorySteps ==
  ASSUME [Next]_vars
  PROVE  \/ UNCHANGED history
         \/ Crash
         \/ \E r \in Requests :
              \/ Note("reached", r) /\ (SendPing(r) \/ Run(r))
              \/ Note("leftBehind", r) /\ (WriteFails(r) \/ UnlinkFails(r))
              \/ Note("setBack", r) /\ ClockSetBack(r)
              \/ Note("overlong", r) /\ RecogniserRefuses(r)
<1>1. ASSUME NEW r \in Requests, LoopStep(r)
      PROVE  \/ UNCHANGED history
             \/ Note("reached", r) /\ Run(r)
             \/ Note("leftBehind", r) /\ (WriteFails(r) \/ UnlinkFails(r))
             \/ Note("setBack", r) /\ ClockSetBack(r)
             \/ Note("overlong", r) /\ RecogniserRefuses(r)
  <2>1. CASE Run(r)
    BY <2>1 DEF Run
  <2>2. CASE WriteFails(r)
    BY <2>2 DEF WriteFails
  <2>3. CASE UnlinkFails(r)
    BY <2>3 DEF UnlinkFails
  <2>4. CASE ClockSetBack(r)
    BY <2>4 DEF ClockSetBack
  <2>5. CASE RecogniserRefuses(r)
    BY <2>5 DEF RecogniserRefuses
  <2> QED
    BY <1>1, <2>1, <2>2, <2>3, <2>4, <2>5
       DEF LoopStep, Refuse, Warm, Begin, Read, Write, Extract, Prepare, Redact, RunDone,
           RunRaises, Log
<1>2. ASSUME NEW r \in Requests, ThreadStep(r)
      PROVE  UNCHANGED history \/ (Note("reached", r) /\ SendPing(r))
  BY <1>2 DEF ThreadStep, Authenticate, FetchUpload, SendPing, SkipPing, PingAnswered,
              PingGivesUp
<1>3. ASSUME NEW r \in Requests, NEW kind \in Kinds, Arrive(r, kind)
      PROVE  UNCHANGED history
  BY <1>3 DEF Arrive
<1>4. StartJob \/ BackendStep \/ UNCHANGED vars => UNCHANGED history
  BY DEF StartJob, BackendStep, vars
<1> QED
  BY <1>1, <1>2, <1>3, <1>4 DEF Next, AllAnswered

\* Nothing that happened is forgotten.
LEMMA HistoryGrows ==
  ASSUME HistoryInv, TypeInv, [Next]_vars
  PROVE  /\ HistoryInv'
         /\ \A thing \in Notable : history[thing] \subseteq history'[thing]
<1>1. CASE UNCHANGED history
  BY <1>1 DEF HistoryInv
<1>2. ASSUME NEW r \in Requests, NEW what \in Notable, Note(what, r)
      PROVE  /\ HistoryInv'
             /\ \A thing \in Notable : history[thing] \subseteq history'[thing]
  BY <1>2, NoteAdds
<1>3. CASE Crash
  BY <1>3, CrashNotes DEF Notable
<1> QED
  BY <1>1, <1>2, <1>3, HistorySteps DEF Notable

-------------------------------------------------------------------------------
(* Only good requests reach the model *)

MayReach(r) ==
  /\ request[r] # Null
  /\ deployment.key => request[r].credentials = "right"
  /\ request[r].weights /\ GoodFiles(request[r])
  /\ request[r].route = "match" => deployment.serving
  /\ request[r].route = "compare" => deployment.upload

\* Whoever waits for the model has reached it, and it only runs for somebody.
ReachedInv ==
  /\ HistoryInv
  /\ \A r \in history.reached : MayReach(r)
  /\ \A r \in InFlight : r \in history.reached
  /\ backend # "down" => history.reached # {}

\* A request that is not refused has the right key, where one is demanded.
LEMMA NotRefused ==
  ASSUME NEW r \in Requests, Refusal(r) = Null, deployment.key
  PROVE  request[r].credentials = "right"
BY DEF Refusal, DemandsKey

\* A ping is for a warm-up that was let in.
LEMMA PingsMayReach ==
  ASSUME HInv, NEW r \in Requests, ping[r] # "none"
  PROVE  MayReach(r)
<1>0. TypeInv /\ HandlerInv(r)
  BY DEF HInv
<1>1. /\ request[r] # Null /\ Refusal(r) = Null /\ request[r].route = "warm"
      /\ request[r] \in Kinds
  BY <1>0 DEF HandlerInv, TypeInv
<1>2. request[r].files = <<>> /\ request[r].weights
  BY <1>1, KindsAssumption
<1>3. GoodFiles(request[r])
  BY <1>2 DEF GoodFiles
<1> QED
  BY <1>1, <1>2, <1>3, NotRefused DEF MayReach

\* A pipeline runs for a request that was let in and found good.
LEMMA RunsMayReach ==
  ASSUME HInv, NEW r \in Requests, pc[r] = "run"
  PROVE  MayReach(r)
<1>1. /\ request[r] # Null /\ Refusal(r) = Null /\ request[r].weights
      /\ GoodFiles(request[r]) /\ request[r].route \in Mounted
      /\ request[r].route = "match" => deployment.serving
  BY DEF HInv, HandlerInv, Places
<1>2. request[r].route = "compare" => deployment.upload
  BY <1>1 DEF Mounted
<1> QED
  BY <1>1, <1>2, NotRefused DEF MayReach

\* Who waits for the model waited before, or has just reached it.
LEMMA InFlightSteps ==
  ASSUME TypeInv, [Next]_vars, NEW r \in Requests, r \in InFlight', r \notin InFlight
  PROVE  Note("reached", r) /\ (SendPing(r) \/ Run(r))
<1>0. /\ pc \in [Requests -> Places] /\ request \in [Requests -> Kinds \cup {Null}]
      /\ ping \in [Requests -> {"none", "submitted", "sent", "ended"}]
  BY DEF TypeInv
<1>1. ~ (ping[r] = "sent") /\ ~ (pc[r] = "running")
  BY DEF InFlight
<1>2. ping'[r] = "sent" \/ pc'[r] = "running"
  BY DEF InFlight
<1>3. ASSUME NEW q \in Requests, LoopStep(q)
      PROVE  Note("reached", r) /\ Run(r)
  <2>1. ping' = ping \/ ping' = [ping EXCEPT ![q] = "submitted"]
    BY <1>3 DEF LoopStep, Refuse, Warm, Begin, Read, Write, WriteFails, Extract, Prepare,
                Run, RunDone, UnlinkFails, Redact, RecogniserRefuses, ClockSetBack,
                RunRaises, Log
  <2>2. pc'[r] = "running"
    BY <1>0, <1>1, <1>2, <2>1
  <2>3. q = r
    BY <1>0, <1>1, <1>3, <2>2, LoopMoves DEF Moves, Answer, Await, Continue
  <2>4. Run(r)
    <3>1. \A to : Continue(r, to) \/ Await(r, to) => to = "running"
      BY <1>0, <2>2 DEF Continue, Await
    <3>2. \A code : ~Answer(r, code)
      BY <1>0, <2>2 DEF Answer
    <3>3. ~ReadNext(r) /\ ~NextDocument(r)
      BY <3>1 DEF ReadNext, NextDocument
    <3>4. ~ (\/ Refuse(r) \/ Warm(r) \/ Begin(r) \/ Read(r) \/ Write(r) \/ WriteFails(r)
             \/ Extract(r) \/ UnlinkFails(r))
      BY <3>1, <3>2, <3>3
         DEF Refuse, Warm, Begin, Read, Write, WriteFails, Extract, UnlinkFails
    <3>5. ~ (\/ Prepare(r) \/ Redact(r) \/ RecogniserRefuses(r) \/ RunDone(r)
             \/ ClockSetBack(r) \/ RunRaises(r) \/ Log(r))
      BY <3>1, <3>2
         DEF Prepare, Redact, RecogniserRefuses, RunDone, ClockSetBack, RunRaises, Log
    <3> QED
      BY <1>3, <2>3, <3>4, <3>5 DEF LoopStep
  <2> QED
    BY <2>4 DEF Run
<1>4. ASSUME NEW q \in Requests, ThreadStep(q)
      PROVE  Note("reached", r) /\ SendPing(r)
  <2>1. pc'[r] # "running" \/ pc'[r] = pc[r]
    BY <1>0, <1>4 DEF ThreadStep, Authenticate, FetchUpload, SendPing, SkipPing,
                      PingAnswered, PingGivesUp, handling
  <2>2. ping'[r] = "sent"
    BY <1>1, <1>2, <2>1
  <2>3. q = r /\ SendPing(r)
    BY <1>0, <1>1, <1>4, <2>2
       DEF ThreadStep, Authenticate, FetchUpload, SendPing, SkipPing, PingAnswered,
           PingGivesUp
  <2> QED
    BY <2>3 DEF SendPing
<1>5. ASSUME NEW q \in Requests, NEW kind \in Kinds, Arrive(q, kind) PROVE FALSE
  <2>1. ping' = ping /\ (pc'[r] # "running" \/ (pc'[r] = pc[r] /\ q # r))
    BY <1>0, <1>5 DEF Arrive
  <2> QED
    BY <1>1, <1>2, <2>1
<1>6. ~ Crash
  BY <1>0, <1>2 DEF Crash
<1>7. ~ (StartJob \/ BackendStep \/ UNCHANGED vars)
  BY <1>1, <1>2 DEF StartJob, BackendStep, vars, handling
<1> QED
  BY <1>3, <1>4, <1>5, <1>6, <1>7 DEF Next, AllAnswered

\* A request that may reach the model may do so for good.
LEMMA MayReachStays ==
  ASSUME HInv, [Next]_vars, NEW r \in Requests, MayReach(r)
  PROVE  MayReach(r)'
<1>1. request'[r] = request[r] /\ deployment' = deployment
  BY Fixed DEF HInv, MayReach
<1> QED
  BY <1>1 DEF MayReach, GoodFiles

\* Whoever reaches the model may.
LEMMA ReachedStep ==
  ASSUME HInv, ReachedInv, [Next]_vars
  PROVE  ReachedInv'
<1>0. TypeInv /\ HistoryInv
  BY DEF HInv, ReachedInv
<1>1. HistoryInv' /\ history.reached \subseteq history'.reached
  BY <1>0, HistoryGrows DEF Notable
<1>2. ASSUME NEW r \in Requests, Note("reached", r), SendPing(r) \/ Run(r)
      PROVE  history'.reached = history.reached \cup {r} /\ MayReach(r)
  <2>1. history'.reached = history.reached \cup {r}
    BY <1>0, <1>2, NoteAdds DEF Notable
  <2>2. ping[r] # "none" \/ pc[r] = "run"
    BY <1>2 DEF SendPing, Run, MayStep
  <2> QED
    BY <2>1, <2>2, PingsMayReach, RunsMayReach
<1>3. ASSUME NEW r \in history'.reached PROVE MayReach(r)'
  <2>1. r \in Requests
    BY <1>1 DEF HistoryInv
  <2>2. CASE r \in history.reached
    BY <2>1, <2>2, MayReachStays DEF ReachedInv
  <2>3. CASE r \notin history.reached
    <3>1. ~ UNCHANGED history /\ ~ Crash
      BY <1>0, <2>3, CrashNotes
    <3>2. ASSUME NEW q \in Requests, NEW what \in Notable \ {"reached"}, Note(what, q)
          PROVE  FALSE
      BY <1>0, <2>3, <3>2, NoteAdds DEF Notable
    <3>3. PICK q \in Requests : Note("reached", q) /\ (SendPing(q) \/ Run(q))
      BY <3>1, <3>2, HistorySteps DEF Notable
    <3>4. q = r /\ MayReach(r)
      BY <1>2, <2>3, <3>3
    <3> QED
      BY <2>1, <3>4, MayReachStays
  <2> QED
    BY <2>2, <2>3
<1>4. ASSUME NEW r \in InFlight' PROVE r \in history'.reached
  <2>1. r \in Requests
    BY DEF InFlight
  <2>2. CASE r \in InFlight
    BY <1>1, <2>2 DEF ReachedInv
  <2>3. CASE r \notin InFlight
    BY <1>0, <1>2, <2>1, <2>3, InFlightSteps
  <2> QED
    BY <2>2, <2>3
<1>5. backend' # "down" => history'.reached # {}
  <2>1. CASE BackendStep
    <3>1. InFlight # {} => history.reached # {}
      BY DEF ReachedInv
    <3> QED
      BY <1>1, <2>1, <3>1
         DEF BackendStep, BackendStarts, BackendServes, BackendStops, ReachedInv
  <2>2. CASE UNCHANGED backend
    BY <1>1, <2>2 DEF ReachedInv
  <2>3. ASSUME NEW r \in Requests, LoopStep(r) PROVE UNCHANGED backend
    BY <2>3
       DEF LoopStep, Refuse, Warm, Begin, Read, Write, WriteFails, Extract, Prepare, Run,
           RunDone, UnlinkFails, Redact, RecogniserRefuses, ClockSetBack, RunRaises, Log
  <2>4. ASSUME NEW r \in Requests, ThreadStep(r) PROVE UNCHANGED backend
    BY <2>4 DEF ThreadStep, Authenticate, FetchUpload, SendPing, SkipPing, PingAnswered,
                PingGivesUp
  <2>5. ASSUME NEW r \in Requests, NEW kind \in Kinds, Arrive(r, kind)
        PROVE  UNCHANGED backend
    BY <2>5 DEF Arrive
  <2>6. StartJob \/ Crash \/ UNCHANGED vars => UNCHANGED backend
    BY DEF StartJob, Crash, vars
  <2> QED
    BY <2>1, <2>2, <2>3, <2>4, <2>5, <2>6 DEF Next, AllAnswered
<1> QED
  BY <1>1, <1>3, <1>4, <1>5 DEF ReachedInv

\* Whatever requests come in whatever order, the model is only reached, and its
\* container only runs, for requests with the right key that were found good.
THEOREM OnlyGoodRequests == Spec => []OnlyGoodRequestsReachTheModel
<1>1. Init => ReachedInv
  BY DEF Init, ReachedInv, HistoryInv, InFlight
<1>2. HInv /\ ReachedInv /\ [Next]_vars => ReachedInv'
  BY ReachedStep
<1>3. ReachedInv => OnlyGoodRequestsReachTheModel
  BY DEF ReachedInv, MayReach, OnlyGoodRequestsReachTheModel
<1> QED
  BY <1>1, <1>2, <1>3, HInvAlways, PTL DEF Spec

-------------------------------------------------------------------------------
(* Temporary files *)

\* A temporary upload is being extracted, or its write or its removal failed, or
\* there was a crash.
LEMMA LeftoversStep ==
  ASSUME HInv, HistoryInv, LeftoversAreExplained, [Next]_vars
  PROVE  LeftoversAreExplained'
<1> SUFFICES ASSUME NEW q \in temporaries', q \notin history'.leftBehind
             PROVE  q \in Requests /\ loop' = q /\ pc'[q] = "extract"
  BY DEF LeftoversAreExplained
<1>0. TypeInv /\ pc \in [Requests -> Places]
  BY DEF HInv, TypeInv
<1>1. q \notin history.leftBehind
  BY <1>0, HistoryGrows DEF Notable
<1>2. q \in temporaries => q \in Requests /\ loop = q /\ pc[q] = "extract"
  BY <1>1 DEF LeftoversAreExplained
<1>3. ASSUME NEW r \in Requests, LoopStep(r)
      PROVE  q \in Requests /\ loop' = q /\ pc'[q] = "extract"
  <2>1. CASE Write(r)
    <3>1. temporaries' = temporaries \cup {r} /\ loop' = r
          /\ pc' = [pc EXCEPT ![r] = "extract"] /\ loop \in {Null, r} /\ pc[r] = "write"
      BY <2>1 DEF Write, Continue, MayStep
    <3>2. q = r
      BY <1>2, <3>1
    <3> QED
      BY <1>0, <3>1, <3>2
  <2>2. CASE WriteFails(r)
    <3>1. temporaries' = temporaries \/ (temporaries' = temporaries \cup {r} /\ Note("leftBehind", r))
      BY <2>2 DEF WriteFails
    <3>2. Note("leftBehind", r) => r \in history'.leftBehind
      BY NoteAdds DEF Notable
    <3>3. q \in temporaries /\ loop \in {Null, r} /\ pc[r] = "write"
      BY <2>2, <3>1, <3>2 DEF WriteFails, MayStep
    <3> QED
      BY <1>2, <3>3
  <2>3. CASE Extract(r)
    <3>1. temporaries' = temporaries \ {r} /\ loop \in {Null, r}
      BY <2>3 DEF Extract, WithoutFile, MayStep
    <3> QED
      BY <1>2, <3>1
  <2>4. CASE UnlinkFails(r)
    <3>1. temporaries' = temporaries /\ Note("leftBehind", r) /\ loop \in {Null, r}
      BY <2>4 DEF UnlinkFails, MayStep
    <3>2. r \in history'.leftBehind
      BY <3>1, NoteAdds DEF Notable
    <3> QED
      BY <1>2, <3>1, <3>2
  <2>5. CASE ~ Write(r) /\ ~ WriteFails(r) /\ ~ Extract(r) /\ ~ UnlinkFails(r)
    <3>1. temporaries' = temporaries /\ pc[r] # "extract"
      BY <1>3, <2>5
         DEF LoopStep, Refuse, Warm, Begin, Read, Prepare, Run, RunDone, Redact,
             RecogniserRefuses, ClockSetBack, RunRaises, Log, MayStep
    <3>2. loop \in {Null, r}
      BY <1>3, LoopMoves
    <3> QED
      BY <1>2, <3>1, <3>2
  <2> QED
    BY <2>1, <2>2, <2>3, <2>4, <2>5
<1>4. CASE Crash
  <2>1. q \in temporaries /\ q \in history'.leftBehind
    BY <1>0, <1>4, CrashNotes DEF Crash
  <2> QED
    BY <2>1
<1>5. ASSUME NEW r \in Requests, NEW kind \in Kinds, Arrive(r, kind)
      PROVE  q \in Requests /\ loop' = q /\ pc'[q] = "extract"
  BY <1>2, <1>5 DEF Arrive
<1>6. ASSUME NEW r \in Requests, ThreadStep(r)
      PROVE  q \in Requests /\ loop' = q /\ pc'[q] = "extract"
  BY <1>0, <1>2, <1>6
     DEF ThreadStep, Authenticate, FetchUpload, SendPing, SkipPing, PingAnswered,
         PingGivesUp, handling
<1>7. CASE StartJob \/ BackendStep \/ UNCHANGED vars
  BY <1>2, <1>7 DEF StartJob, BackendStep, vars, handling
<1> QED
  BY <1>3, <1>4, <1>5, <1>6, <1>7 DEF Next, AllAnswered

\* What has happened stays so.
LEMMA HistoryAlways == Spec => []HistoryInv
<1>1. Init => HistoryInv
  BY DEF Init, HistoryInv
<1>2. HInv /\ HistoryInv /\ [Next]_vars => HistoryInv'
  BY HistoryGrows DEF HInv
<1> QED
  BY <1>1, <1>2, HInvAlways, PTL DEF Spec

\* Whatever fails while it is used, a temporary upload outlives the reading of
\* its text only if it could not be written or removed, or the process was killed.
THEOREM NoUnexplainedLeftovers == Spec => []LeftoversAreExplained
<1>1. Init => LeftoversAreExplained
  BY DEF Init, LeftoversAreExplained
<1>2. HInv /\ HistoryInv /\ LeftoversAreExplained /\ [Next]_vars => LeftoversAreExplained'
  BY LeftoversStep
<1> QED
  BY <1>1, <1>2, HInvAlways, HistoryAlways, PTL DEF Spec

-------------------------------------------------------------------------------
(* Whom a 400 blames *)

Explained(r) ==
  Blameless(r) /\ r \notin Mishaps =>
    IF r \in history.reached THEN FailsAfterModels(r) /\ ~FailsBeforeModels(r)
    ELSE FailsBeforeModels(r)

Deserved(r) == Blameless(r) /\ ~FailsBeforeModels(r) /\ ~FailsAfterModels(r)

\* Whoever reached the model is behind that point of the handler, and nobody
\* else is; an answer is the end, and of a kind that the request explains.
BlameInv ==
  \A r \in Requests :
    /\ r \in history.reached => pc[r] \in {"running", "log", "answered"}
    /\ pc[r] \in {"running", "log"} => r \in history.reached
    /\ status[r] # Null => request[r] # Null /\ pc[r] = "answered"
    /\ status[r] = 400 => Explained(r)
    /\ status[r] = 200 => Deserved(r)

\* Also what the configuration does to a request depends on the two alone.
LEMMA SameFailures ==
  ASSUME NEW r, deployment' = deployment, request'[r] = request[r]
  PROVE  /\ Blameless(r)' <=> Blameless(r)
         /\ FailsBeforeModels(r)' <=> FailsBeforeModels(r)
         /\ FailsAfterModels(r)' <=> FailsAfterModels(r)
BY SameVerdicts DEF Blameless, FailsBeforeModels, FailsAfterModels

\* What BuildError says of the configuration.
LEMMA BuildErrors ==
  ASSUME NEW r
  PROVE  /\ BuildError(r) = "ValueError" =>
              \/ UsesModel(r) /\ RoleError(deployment.env) = "ValueError"
              \/ TakesCV(r) /\ "detectors" \in deployment.invalid
         /\ BuildError(r) = "" =>
              /\ UsesModel(r) => RoleError(deployment.env) = ""
              /\ TakesCV(r) => "detectors" \notin deployment.invalid
BY DEF BuildError

\* The document a handler reads is one of the request's.
LEMMA HeadIsOneOfThem ==
  ASSUME HInv, NEW r \in Requests, Reading(r), GoodFiles(request[r]), request[r] \in Kinds
  PROVE  Head(files[r]) \in Good
<1>1. files[r] \in Seq(Uploads) /\ request[r].files \in Seq(Uploads)
  BY KindsAssumption DEF HInv, TypeInv
<1> DEFINE all == request[r].files
           rest == files[r]
<1>2. /\ Len(rest) \in 1 .. Len(all) /\ Len(all) \in Nat
      /\ \A i \in 1 .. Len(rest) : rest[i] = all[Len(all) - Len(rest) + i]
  <2>1. IsRest(rest, all)
    BY DEF Reading
  <2> HIDE DEF rest, all
  <2> QED
    BY <1>1, <2>1 DEF IsRest
<1>3. 1 \in 1 .. Len(rest) /\ Len(all) - Len(rest) + 1 \in 1 .. Len(all)
  <2>1. PICK m, n \in Nat : m = Len(rest) /\ n = Len(all)
    BY <1>1
  <2>2. m \in 1 .. n
    BY <1>2, <2>1
  <2>3. 1 \in 1 .. m /\ n - m + 1 \in 1 .. n
    BY <2>2
  <2> QED
    BY <2>1, <2>3
<1>4. rest[1] = all[Len(all) - Len(rest) + 1]
  BY <1>2, <1>3
<1>5. \A i \in 1 .. Len(all) : all[i] \in Good
  BY <1>1 DEF GoodFiles, Good
<1>6. Head(rest) = rest[1]
  BY <1>1, <1>3
<1> QED
  BY <1>3, <1>4, <1>5, <1>6

\* Where the steps of a handler end that do not begin or end a run.
LEMMA NextPlaces ==
  ASSUME TypeInv, NEW r \in Requests, LoopStep(r), ~Run(r), ~RunDone(r)
  PROVE  /\ pc'[r] \notin {"running", "log"}
         /\ pc[r] \in {"running", "log"} => pc'[r] = "answered"
<1>0. pc \in [Requests -> Places]
  BY DEF TypeInv
<1>1. /\ \A code : Answer(r, code) => pc'[r] = "answered"
      /\ \A to : Continue(r, to) \/ Await(r, to) => pc'[r] = to
  BY <1>0 DEF Answer, Continue, Await
<1>2. ReadNext(r) \/ NextDocument(r) => pc'[r] \in {"reading", "read", "prepare"}
  BY <1>1 DEF ReadNext, NextDocument
<1>3. CASE \/ Refuse(r) \/ Warm(r) \/ Begin(r) \/ Read(r) \/ Write(r) \/ WriteFails(r)
           \/ Extract(r) \/ UnlinkFails(r)
  <2>1. pc[r] \in {"checked", "read", "write", "extract"}
    BY <1>3 DEF Refuse, Warm, Begin, Read, Write, WriteFails, Extract, UnlinkFails, MayStep
  <2>2. pc'[r] \in {"answered", "reading", "read", "write", "extract", "prepare"}
    BY <1>1, <1>2, <1>3
       DEF Refuse, Warm, Begin, Read, Write, WriteFails, Extract, UnlinkFails
  <2> QED
    BY <2>1, <2>2
<1>4. CASE Prepare(r) \/ Redact(r)
  <2>1. pc[r] \in {"prepare", "redact"} /\ pc'[r] \in {"answered", "redact", "run"}
    BY <1>1, <1>4 DEF Prepare, Redact, MayStep
  <2> QED
    BY <2>1
<1>5. CASE RecogniserRefuses(r) \/ ClockSetBack(r) \/ RunRaises(r) \/ Log(r)
  BY <1>1, <1>5 DEF RecogniserRefuses, ClockSetBack, RunRaises, Log
<1> QED
  BY <1>3, <1>4, <1>5 DEF LoopStep

\* A handler that answers 400 or 200 does so as explained.
LEMMA NewVerdict ==
  ASSUME HInv, HistoryInv, BlameInv, NEW r \in Requests, LoopStep(r),
         deployment' = deployment, request'[r] = request[r], status'[r] # status[r]
  PROVE  /\ status'[r] = 400 => Explained(r)'
         /\ status'[r] = 200 => Deserved(r)'
<1>0. /\ TypeInv /\ HandlerInv(r) /\ status \in [Requests -> Nat \cup {Null}]
      /\ r \in history.reached => pc[r] \in {"running", "log", "answered"}
      /\ pc[r] \in {"running", "log"} => r \in history.reached
  BY DEF HInv, TypeInv, BlameInv
<1>1. request[r] \in Kinds
  BY <1>0, LoopMoves DEF HandlerInv, TypeInv
<1>2. /\ Blameless(r)' <=> Blameless(r)
      /\ FailsBeforeModels(r)' <=> FailsBeforeModels(r)
      /\ FailsAfterModels(r)' <=> FailsAfterModels(r)
  BY SameFailures
<1>3. ASSUME NEW code, Answer(r, code) PROVE status'[r] = code
  BY <1>0, <1>3 DEF Answer
<1>4. ASSUME NEW to, Continue(r, to) \/ Await(r, to) PROVE FALSE
  BY <1>4 DEF Continue, Await
<1>5. ~ReadNext(r) /\ ~NextDocument(r)
  BY <1>4 DEF ReadNext, NextDocument
<1>6. ASSUME ~Blameless(r) PROVE Explained(r)'
  BY <1>2, <1>6 DEF Explained
<1>7. ASSUME FailsBeforeModels(r), r \notin history.reached, UNCHANGED history
      PROVE  Explained(r)'
  BY <1>2, <1>7 DEF Explained
<1>8. CASE Refuse(r)
  <2>1. \E code \in {Refusal(r), 422} : code # Null /\ Answer(r, code)
    BY <1>8, NullAssumption DEF Refuse
  <2>2. Refusal(r) # Null => Refusal(r) \in {401, 403}
    BY DEF Refusal
  <2> QED
    BY <1>3, <2>1, <2>2
<1>9. CASE Warm(r) \/ WriteFails(r) \/ UnlinkFails(r) \/ RunRaises(r)
  BY <1>3, <1>9 DEF Warm, WriteFails, UnlinkFails, RunRaises
<1>10. CASE Begin(r)
  <2>1. /\ UsesModel(r) /\ ("scoring" \in deployment.invalid \/ ~request[r].weights)
        /\ Answer(r, 400) /\ pc[r] = "checked" /\ UNCHANGED history
    BY <1>5, <1>10 DEF Begin, MayStep
  <2>2. r \notin history.reached
    BY <1>0, <2>1
  <2>3. status'[r] = 400
    BY <1>3, <2>1
  <2>4. ~Blameless(r) \/ FailsBeforeModels(r)
    BY <2>1 DEF Blameless, FailsBeforeModels
  <2> QED
    BY <1>6, <1>7, <2>1, <2>2, <2>3, <2>4
<1>11. CASE Read(r)
  <2>1. Head(files[r]) = "refused" /\ Reading(r) /\ Answer(r, 400)
    BY <1>0, <1>4, <1>5, <1>11 DEF Read, MayStep, HandlerInv
  <2>2. ~Blameless(r)
    BY <1>1, <2>1, HeadIsOneOfThem DEF Good, Blameless
  <2>3. status'[r] = 400 /\ Explained(r)'
    BY <1>3, <1>6, <2>1, <2>2
  <2> QED
    BY <2>3
<1>12. CASE Extract(r)
  <2>1. Head(files[r]) = "unreadable pdf" /\ Reading(r) /\ Answer(r, 400)
    BY <1>0, <1>5, <1>12 DEF Extract, MayStep, HandlerInv
  <2>2. ~Blameless(r)
    BY <1>1, <2>1, HeadIsOneOfThem DEF Good, Blameless
  <2>3. status'[r] = 400 /\ Explained(r)'
    BY <1>3, <1>6, <2>1, <2>2
  <2> QED
    BY <2>3
<1>13. CASE Prepare(r)
  <2>1. \/ \E code \in {NoServingCV, 500} : Answer(r, code)
        \/ Answer(r, 400) /\ BuildError(r) = "ValueError"
    <3>1. CASE request[r].route = "match" /\ ~deployment.serving
      BY <1>13, <3>1 DEF Prepare
    <3>2. CASE ~ (request[r].route = "match" /\ ~deployment.serving)
      <4>1. Answer(r, IF BuildError(r) = "ValueError" THEN 400 ELSE 500)
        BY <1>4, <1>13, <3>2, Zenon DEF Prepare
      <4> QED
        BY <4>1
    <3> QED
      BY <3>1, <3>2
  <2>2. pc[r] = "prepare" /\ UNCHANGED history
    BY <1>13 DEF Prepare, MayStep
  <2>3. CASE \E code \in {NoServingCV, 500} : Answer(r, code)
    BY <1>3, <2>3 DEF NoServingCV
  <2>4. CASE Answer(r, 400) /\ BuildError(r) = "ValueError"
    <3>1. FailsBeforeModels(r)
      BY <2>4, BuildErrors DEF FailsBeforeModels
    <3> QED
      BY <1>0, <1>3, <1>7, <2>2, <2>4, <3>1
  <2> QED
    BY <2>1, <2>3, <2>4
<1>14. CASE Redact(r)
  <2>1. /\ pc[r] = "redact" /\ UNCHANGED history
        /\ \/ Answer(r, 400) /\ (RejectsDefaults(Ingested) \/ RejectsBucket)
           \/ Answer(r, 200) /\ ~RejectsDefaults(Ingested) /\ ~RejectsBucket /\ ~UsesModel(r)
    BY <1>4, <1>14 DEF Redact, MayStep
  <2>2. TakesCV(r) /\ BuildError(r) = "" /\ request[r].weights /\ GoodFiles(request[r])
    BY <1>0, <2>1 DEF HandlerInv, Places
  <2>3. CASE Answer(r, 400) /\ (RejectsDefaults(Ingested) \/ RejectsBucket)
    <3>1. FailsBeforeModels(r)
      BY <2>2, <2>3 DEF FailsBeforeModels
    <3> QED
      BY <1>0, <1>3, <1>7, <2>1, <2>3, <3>1
  <2>4. CASE Answer(r, 200) /\ ~RejectsDefaults(Ingested) /\ ~RejectsBucket /\ ~UsesModel(r)
    <3>1. "detectors" \notin deployment.invalid
      BY <2>2, BuildErrors
    <3>2. Deserved(r)
      BY <2>2, <2>4, <3>1 DEF Deserved, Blameless, FailsBeforeModels, FailsAfterModels
    <3> QED
      BY <1>2, <1>3, <2>4, <3>2 DEF Deserved
  <2> QED
    BY <2>1, <2>3, <2>4
<1>15. CASE RecogniserRefuses(r) \/ ClockSetBack(r)
  <2>1. Answer(r, 400) /\ \E what \in {"overlong", "setBack"} : Note(what, r)
    BY <1>15 DEF RecogniserRefuses, ClockSetBack
  <2>2. r \in Mishaps'
    BY <2>1, NoteAdds DEF Notable, Mishaps
  <2> QED
    BY <1>3, <2>1, <2>2 DEF Explained
<1>16. CASE Log(r)
  <2>1. /\ pc[r] = "log" /\ UNCHANGED history
        /\ \/ Answer(r, 400) /\ (RejectsDefaults(Matched) \/ RejectsBucket)
           \/ Answer(r, 200) /\ ~RejectsDefaults(Matched) /\ ~RejectsBucket
    BY <1>16 DEF Log, MayStep
  <2>2. /\ UsesModel(r) /\ BuildError(r) = "" /\ request[r].weights /\ GoodFiles(request[r])
        /\ TakesCV(r) => ~RejectsDefaults(Ingested) /\ ~RejectsBucket
        /\ "scoring" \notin deployment.invalid /\ r \in history'.reached
    BY <1>0, <2>1 DEF HandlerInv, Places
  <2>3. Blameless(r) /\ ~FailsBeforeModels(r)
    BY <2>2, BuildErrors DEF Blameless, FailsBeforeModels
  <2>4. CASE Answer(r, 400) /\ (RejectsDefaults(Matched) \/ RejectsBucket)
    <3>1. FailsAfterModels(r)
      BY <2>2, <2>4 DEF FailsAfterModels
    <3>2. Explained(r)'
      BY <1>2, <2>2, <2>3, <3>1 DEF Explained
    <3> QED
      BY <1>3, <2>4, <3>2
  <2>5. CASE Answer(r, 200) /\ ~RejectsDefaults(Matched) /\ ~RejectsBucket
    <3>1. Deserved(r)'
      BY <1>2, <2>3, <2>5 DEF Deserved, FailsAfterModels
    <3> QED
      BY <1>3, <2>5, <3>1
  <2> QED
    BY <2>1, <2>4, <2>5
<1>17. CASE Write(r) \/ Run(r) \/ RunDone(r)
  BY <1>4, <1>17 DEF Write, Run, RunDone
<1> QED
  BY <1>8, <1>9, <1>10, <1>11, <1>12, <1>13, <1>14, <1>15, <1>16, <1>17 DEF LoopStep

\* What may happen to a request that does not itself hold the loop.
Passive(q) ==
  /\ \/ status'[q] = status[q]
     \/ status[q] = Null /\ status'[q] \in {0, 404} /\ request'[q] # Null /\ pc'[q] = "answered"
  /\ pc'[q] \in {"running", "log"} => pc[q] = pc'[q]
  /\ pc[q] \in {"running", "log", "answered"} => pc'[q] \in {pc[q], "answered"}

LEMMA PassiveSteps ==
  ASSUME HInv, [Next]_vars, NEW q \in Requests, ~LoopStep(q),
         status[q] # Null => request[q] # Null
  PROVE  Passive(q)
<1>0. /\ TypeInv /\ pc \in [Requests -> Places] /\ HandlerInv(q)
      /\ status \in [Requests -> Nat \cup {Null}]
      /\ request \in [Requests -> Kinds \cup {Null}]
  BY DEF HInv, TypeInv
<1>1. ASSUME status'[q] = status[q], pc'[q] = pc[q] PROVE Passive(q)
  BY <1>1 DEF Passive
<1>2. ASSUME NEW r \in Requests, LoopStep(r) PROVE Passive(q)
  <2>1. r # q
    BY <1>2
  <2>2. status'[q] = status[q] /\ pc'[q] = pc[q]
    BY <1>0, <1>2, <2>1, LoopMoves DEF Moves, Answer, Await, Continue
  <2> QED
    BY <1>1, <2>2
<1>3. ASSUME NEW r \in Requests, ThreadStep(r) PROVE Passive(q)
  <2>1. /\ status' = status
        /\ \/ pc' = pc
           \/ pc[r] \in {"auth", "reading"} /\ pc' = [pc EXCEPT ![r] = "checked"]
           \/ pc[r] \in {"auth", "reading"} /\ pc' = [pc EXCEPT ![r] = "read"]
    BY <1>3 DEF ThreadStep, Authenticate, FetchUpload, SendPing, SkipPing, PingAnswered,
                PingGivesUp, handling
  <2> QED
    BY <1>0, <2>1 DEF Passive
<1>4. ASSUME NEW r \in Requests, NEW kind \in Kinds, Arrive(r, kind) PROVE Passive(q)
  <2>1. /\ request[r] = Null /\ request' = [request EXCEPT ![r] = kind] /\ kind # Null
        /\ \/ pc' = [pc EXCEPT ![r] = "auth"] /\ status' = status
           \/ pc' = [pc EXCEPT ![r] = "answered"] /\ status' = [status EXCEPT ![r] = 404]
    BY <1>4, KindsAssumption DEF Arrive
  <2>2. CASE r # q
    BY <1>0, <1>1, <2>1, <2>2
  <2>3. CASE r = q
    <3>1. status[q] = Null /\ pc[q] = "none"
      BY <1>0, <2>1, <2>3 DEF HandlerInv
    <3> QED
      BY <1>0, <2>1, <2>3, <3>1 DEF Passive
  <2> QED
    BY <2>2, <2>3
<1>5. CASE Crash
  <2>1. /\ pc'[q] = IF request[q] = Null THEN "none" ELSE "answered"
        /\ status'[q] = IF request[q] # Null /\ status[q] = Null THEN 0 ELSE status[q]
        /\ request' = request
    BY <1>5 DEF Crash
  <2>2. pc[q] # "none" => request[q] # Null
    BY <1>0 DEF HandlerInv
  <2> QED
    BY <2>1, <2>2 DEF Passive
<1>6. StartJob \/ BackendStep \/ UNCHANGED vars => status' = status /\ pc' = pc
  BY DEF StartJob, BackendStep, vars, handling
<1> QED
  BY <1>1, <1>2, <1>3, <1>4, <1>5, <1>6 DEF Next, AllAnswered

\* Who newly reached the model runs a pipeline, or warms the model up.
LEMMA NewlyReached ==
  ASSUME HInv, HistoryInv, [Next]_vars, NEW q \in Requests,
         q \in history'.reached, q \notin history.reached
  PROVE  Run(q) \/ (SendPing(q) /\ pc[q] = "answered" /\ request[q].route = "warm")
<1>0. TypeInv /\ HandlerInv(q)
  BY DEF HInv
<1>1. ~UNCHANGED history /\ ~Crash
  BY <1>0, CrashNotes
<1>2. ASSUME NEW r \in Requests, NEW what \in Notable, Note(what, r)
      PROVE  what = "reached" /\ r = q
  BY <1>2, NoteAdds DEF Notable
<1>3. Run(q) \/ SendPing(q)
  BY <1>1, <1>2, HistorySteps DEF Notable
<1>4. ASSUME SendPing(q) PROVE pc[q] = "answered" /\ request[q].route = "warm"
  BY <1>0, <1>4 DEF SendPing, HandlerInv
<1> QED
  BY <1>3, <1>4

\* An answer once explained stays so.
LEMMA VerdictStays ==
  ASSUME HInv, HistoryInv, BlameInv, [Next]_vars, NEW q \in Requests, status[q] # Null
  PROVE  /\ Explained(q) => Explained(q)'
         /\ Deserved(q) => Deserved(q)'
<1>0. TypeInv /\ HandlerInv(q) /\ request[q] # Null /\ pc[q] = "answered"
  BY DEF HInv, BlameInv
<1>1. deployment' = deployment /\ request'[q] = request[q]
  BY <1>0, Fixed
<1>2. /\ Blameless(q)' <=> Blameless(q)
      /\ FailsBeforeModels(q)' <=> FailsBeforeModels(q)
      /\ FailsAfterModels(q)' <=> FailsAfterModels(q)
  BY <1>1, SameFailures
<1>3. Deserved(q) => Deserved(q)'
  BY <1>2 DEF Deserved
<1>4. Mishaps \subseteq Mishaps' /\ history.reached \subseteq history'.reached
  BY <1>0, HistoryGrows DEF Notable, Mishaps
<1>5. ASSUME q \in history'.reached, q \notin history.reached
      PROVE  ~FailsBeforeModels(q)
  <2>1. ~Run(q)
    BY <1>0 DEF Run, MayStep
  <2>2. request[q].route = "warm"
    BY <1>5, <2>1, NewlyReached
  <2> QED
    BY <2>2 DEF FailsBeforeModels, UsesModel, TakesCV
<1>6. ASSUME Explained(q) PROVE Explained(q)'
  BY <1>2, <1>4, <1>5, <1>6 DEF Explained
<1> QED
  BY <1>3, <1>6

\* Every answer stays explained.
LEMMA BlameStep ==
  ASSUME HInv, HistoryInv, BlameInv, [Next]_vars
  PROVE  BlameInv'
<1> SUFFICES ASSUME NEW q \in Requests
             PROVE  /\ q \in history'.reached => pc'[q] \in {"running", "log", "answered"}
                    /\ pc'[q] \in {"running", "log"} => q \in history'.reached
                    /\ status'[q] # Null => request'[q] # Null /\ pc'[q] = "answered"
                    /\ status'[q] = 400 => Explained(q)'
                    /\ status'[q] = 200 => Deserved(q)'
  BY DEF BlameInv
<1>0. /\ TypeInv /\ HistoryInv /\ HandlerInv(q)
      /\ pc \in [Requests -> Places] /\ status \in [Requests -> Nat \cup {Null}]
  BY DEF HInv, TypeInv
<1>1. /\ q \in history.reached => pc[q] \in {"running", "log", "answered"}
      /\ pc[q] \in {"running", "log"} => q \in history.reached
      /\ status[q] # Null => request[q] # Null /\ pc[q] = "answered"
      /\ status[q] = 400 => Explained(q)
      /\ status[q] = 200 => Deserved(q)
  BY DEF BlameInv
<1>2. /\ deployment' = deployment
      /\ request[q] # Null => request'[q] = request[q]
      /\ history.reached \subseteq history'.reached
  BY <1>0, Fixed, HistoryGrows DEF Notable
<1>3. CASE LoopStep(q)
  <2>1. pc[q] # "answered" /\ pc[q] # "none" /\ Moves(q)
    BY <1>3, LoopMoves
  <2>2. request'[q] = request[q] /\ request[q] # Null /\ status[q] = Null
    BY <1>0, <1>1, <1>2, <2>1 DEF HandlerInv
  <2>3. status'[q] # Null => pc'[q] = "answered"
    BY <1>0, <2>1, <2>2 DEF Moves, Answer, Await, Continue
  <2>4. /\ status'[q] = 400 => Explained(q)'
        /\ status'[q] = 200 => Deserved(q)'
    BY <1>2, <1>3, <2>2, NewVerdict, NullAssumption
  <2>5. CASE Run(q)
    <3>1. pc'[q] = "running"
      BY <1>0, <2>5 DEF Run, Continue
    <3>2. q \in history'.reached
      BY <1>0, <2>5, NoteAdds DEF Run, Notable
    <3> QED
      BY <2>2, <2>3, <2>4, <3>1, <3>2
  <2>6. CASE RunDone(q)
    <3>1. pc[q] = "running" /\ pc'[q] = "log"
      BY <1>0, <2>6 DEF RunDone, Continue, MayStep
    <3> QED
      BY <1>1, <1>2, <2>2, <2>3, <2>4, <3>1
  <2>7. CASE ~Run(q) /\ ~RunDone(q)
    <3>1. /\ pc'[q] \notin {"running", "log"}
          /\ pc[q] \in {"running", "log"} => pc'[q] = "answered"
      BY <1>0, <1>3, <2>7, NextPlaces
    <3>2. q \in history'.reached => q \in history.reached
      BY <2>1, <2>7, NewlyReached
    <3> QED
      BY <1>1, <2>1, <2>2, <2>3, <2>4, <3>1, <3>2
  <2> QED
    BY <2>5, <2>6, <2>7
<1>4. CASE ~LoopStep(q)
  <2>1. Passive(q)
    BY <1>1, <1>4, PassiveSteps
  <2>2. ~Run(q)
    BY <1>4 DEF LoopStep
  <2>3. q \in history'.reached => pc[q] \in {"running", "log", "answered"}
    BY <1>1, <2>2, NewlyReached
  <2>4. /\ q \in history'.reached => pc'[q] \in {"running", "log", "answered"}
        /\ pc'[q] \in {"running", "log"} => q \in history'.reached
    BY <1>1, <1>2, <2>1, <2>3 DEF Passive
  <2>5. CASE status'[q] = status[q]
    <3>1. status[q] # Null => request'[q] # Null /\ pc'[q] = "answered"
      BY <1>1, <1>2, <2>1 DEF Passive
    <3>2. /\ status'[q] = 400 => Explained(q)'
          /\ status'[q] = 200 => Deserved(q)'
      BY <1>1, <2>5, VerdictStays, NullAssumption
    <3> QED
      BY <2>4, <2>5, <3>1, <3>2
  <2>6. CASE status[q] = Null /\ status'[q] \in {0, 404} /\ request'[q] # Null /\ pc'[q] = "answered"
    BY <2>4, <2>6
  <2> QED
    BY <2>1, <2>5, <2>6 DEF Passive
<1> QED
  BY <1>3, <1>4

\* With any configuration and any documents: a visitor whose weights and
\* documents are good is answered 400 only for a mishap of that run, or where
\* the configuration fails all such requests, before the models or after them;
\* and no configuration that does so answers any of them.
THEOREM BlamesAreExplained == Spec => []BlameIsExplained
<1>1. Init => BlameInv
  BY DEF Init, BlameInv
<1>2. HInv /\ HistoryInv /\ BlameInv /\ [Next]_vars => BlameInv'
  BY BlameStep
<1>3. BlameInv => BlameIsExplained
  BY DEF BlameInv, Explained, Deserved, BlameIsExplained
<1> QED
  BY <1>1, <1>2, <1>3, HInvAlways, HistoryAlways, PTL DEF Spec
===============================================================================
