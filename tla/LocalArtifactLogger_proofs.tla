----------------------- MODULE LocalArtifactLogger_proofs ----------------------
(***************************************************************************)
(* Proofs about LocalArtifactLogger, for any set of calls and any earlier  *)
(* artifacts.                                                              *)
(*                                                                         *)
(* The argument: the file that O_EXCL creates keeps its number to one call *)
(* until that call removes it, and the scan puts a call above everything   *)
(* its directory ever held when it began.  The number never goes down      *)
(* after the scan, which is why order survives the race that makes two     *)
(* overlapping runs share a number.                                        *)
(***************************************************************************)
EXTENDS LocalArtifactLogger, WellFoundedInduction, TLAPS

USE PastRunAssumption, PastNumbersAssumption

-------------------------------------------------------------------------------
(* The highest number in use *)

\* A set of naturals that is not empty has a least element.
LEMMA LeastNatural ==
  ASSUME NEW T \in SUBSET Nat, T # {}
  PROVE  \E m \in T : \A n \in T : m <= n
<1> DEFINE R == OpToRel(<, Nat)
<1>1. IsWellFoundedOn(R, Nat)
  BY NatLessThanWellFounded
<1>2. PICK m \in T : \A n \in T : ~ (<<n, m>> \in R)
  BY <1>1, WFMin, Zenon
<1>3. \A i, j \in Nat : <<i, j>> \in R <=> i < j
  BY DEF OpToRel
<1> HIDE DEF R
<1>4. \A n \in T : ~ (n < m)
  BY <1>2, <1>3
<1> QED
  BY <1>4

\* Max is what it is called, on a bounded set of naturals.
LEMMA MaxOfBounded ==
  ASSUME NEW S \in SUBSET Nat, S # {}, NEW b \in Nat, \A n \in S : n <= b
  PROVE  Max(S) \in S /\ \A n \in S : n <= Max(S)
<1> DEFINE Bounds == {u \in Nat : \A n \in S : n <= u}
<1>1. PICK u \in Bounds : \A v \in Bounds : u <= v
  <2>1. b \in Bounds
    OBVIOUS
  <2> QED
    BY <2>1, LeastNatural
<1>2. u \in S
  <2> SUFFICES ASSUME u \notin S
               PROVE  FALSE
    OBVIOUS
  <2>1. \A n \in S : n \in Nat /\ n <= u /\ n # u
    OBVIOUS
  <2>2. PICK s \in S : TRUE
    OBVIOUS
  <2>3. u - 1 \in Nat
    BY <2>1, <2>2
  <2>4. \A n \in S : n <= u - 1
    BY <2>1
  <2>5. u - 1 \in Bounds
    BY <2>3, <2>4
  <2>6. u <= u - 1
    BY <1>1, <2>5
  <2> QED
    BY <2>6
<1>3. \E x \in S : \A y \in S : x >= y
  BY <1>2
<1> QED
  BY <1>3 DEF Max

-------------------------------------------------------------------------------
(* Type correctness *)

\* Only so many numbers are in use: what gives the scan a maximum.
NumbersAreBounded ==
  \E b \in Nat : \A n \in UsedNumbers : n <= b

TInv == TypeOK /\ NumbersAreBounded

\* What a scan returns: a number above all those in use.
LEMMA ScanIsAbove ==
  ASSUME TInv
  PROVE  /\ Max(UsedNumbers \cup {0}) \in Nat
         /\ \A n \in UsedNumbers : n < Max(UsedNumbers \cup {0}) + 1
<1> DEFINE S == UsedNumbers \cup {0}
<1>1. UsedNumbers \subseteq Nat
  BY DEF TInv, TypeOK, UsedNumbers, Artifact
<1>2. PICK b \in Nat : \A n \in UsedNumbers : n <= b
  BY DEF TInv, NumbersAreBounded
<1>3. S \in SUBSET Nat /\ S # {} /\ \A n \in S : n <= b
  BY <1>1, <1>2
<1> HIDE DEF S
<1>4. PICK m : m = Max(S)
  OBVIOUS
<1>5. m \in S /\ \A n \in S : n <= m
  BY <1>3, <1>4, MaxOfBounded
<1>6. m \in Nat /\ \A n \in S : n < m + 1
  BY <1>3, <1>5
<1> QED
  BY <1>4, <1>6 DEF S

\* The directory holds the artifacts of earlier runs and nothing else.
LEMMA TypeInit == Init => TInv
<1> SUFFICES ASSUME Init
             PROVE  TInv
  OBVIOUS
<1>1. TypeOK
  BY DEF Init, TypeOK, Artifact
<1>2. UsedNumbers \subseteq PastNumbers
  BY DEF Init, UsedNumbers
<1>3. NumbersAreBounded
  <2>1. CASE PastNumbers = {}
    BY <1>2, <2>1 DEF NumbersAreBounded
  <2>2. CASE PastNumbers # {}
    <3>1. PICK m \in PastNumbers : \A n \in PastNumbers : n <= m
      BY <2>2, PastNumbersAssumption
    <3> QED
      BY <1>2, <3>1 DEF NumbersAreBounded
  <2> QED
    BY <2>1, <2>2
<1> QED
  BY <1>1, <1>3 DEF TInv

\* No step breaks the types.
LEMMA TypeOKStep == TInv /\ [Next]_vars => TypeOK'
<1> SUFFICES ASSUME TInv, [Next]_vars
             PROVE  TypeOK'
  OBVIOUS
<1> USE DEF TInv, TypeOK, Artifact, Running, Ended, Goto, directory
<1>1. ASSUME NEW c \in Calls, Begin(c) PROVE TypeOK'
  BY <1>1 DEF Begin
<1>2. ASSUME NEW c \in Calls, Scan(c) PROVE TypeOK'
  BY <1>2, ScanIsAbove DEF Scan
<1>3. ASSUME NEW c \in Calls, Open(c) PROVE TypeOK'
  BY <1>3 DEF Open
<1>4. ASSUME NEW c \in Calls, OpenExists(c) PROVE TypeOK'
  BY <1>4 DEF OpenExists
<1>5. ASSUME NEW c \in Calls, Build(c) PROVE TypeOK'
  BY <1>5 DEF Build
<1>6. ASSUME NEW c \in Calls, WriteTemporary(c) PROVE TypeOK'
  BY <1>6 DEF WriteTemporary
<1>7. ASSUME NEW c \in Calls, Replace(c) PROVE TypeOK'
  BY <1>7 DEF Replace, ArtifactName
<1>8. ASSUME NEW c \in Calls, Release(c) PROVE TypeOK'
  BY <1>8 DEF Release
<1>9. ASSUME NEW c \in Calls, ReserveRaises(c) PROVE TypeOK'
  BY <1>9 DEF ReserveRaises
<1>10. ASSUME NEW c \in Calls, BuildRaises(c) PROVE TypeOK'
  BY <1>10 DEF BuildRaises
<1>11. ASSUME NEW c \in Calls, WriteRaises(c) PROVE TypeOK'
  BY <1>11 DEF WriteRaises
<1>12. ASSUME NEW c \in Calls, ReplaceRaises(c) PROVE TypeOK'
  BY <1>12 DEF ReplaceRaises
<1>13. ASSUME NEW c \in Calls, ReleaseRaises(c) PROVE TypeOK'
  BY <1>13 DEF ReleaseRaises
<1>14. ASSUME NEW c \in Calls, Crash(c) PROVE TypeOK'
  BY <1>14 DEF Crash
<1>15. CASE UNCHANGED vars
  BY <1>15 DEF vars
<1> QED
  BY <1>1, <1>2, <1>3, <1>4, <1>5, <1>6, <1>7, <1>8, <1>9, <1>10, <1>11, <1>12,
     <1>13, <1>14, <1>15 DEF Next, Step, Fault, AllEnded

\* A step puts at most one more number in use, that of the call that takes it.
LEMMA NewNumbers ==
  ASSUME TInv, [Next]_vars
  PROVE  \E c \in Calls \cup {PastRun} :
           UsedNumbers' \subseteq UsedNumbers \cup (IF c \in Calls THEN {candidate[c]} ELSE {})
<1> USE DEF UsedNumbers, directory
<1>1. ASSUME UNCHANGED <<artifacts, reservations>>
      PROVE  UsedNumbers' \subseteq UsedNumbers
  BY <1>1
<1>2. ASSUME NEW c \in Calls, Open(c)
      PROVE  UsedNumbers' \subseteq UsedNumbers \cup {candidate[c]}
  BY <1>2 DEF Open
<1>3. ASSUME NEW c \in Calls, Replace(c)
      PROVE  UsedNumbers' \subseteq UsedNumbers \cup {candidate[c]}
  BY <1>3 DEF Replace, ArtifactName
<1>4. ASSUME NEW c \in Calls, Release(c)
      PROVE  UsedNumbers' \subseteq UsedNumbers \cup {candidate[c]}
  BY <1>4 DEF Release
<1>5. \/ UNCHANGED <<artifacts, reservations>>
      \/ \E c \in Calls : Open(c) \/ Replace(c) \/ Release(c)
  BY DEF Next, Step, Fault, AllEnded, vars, Begin, Scan, OpenExists, Build,
         WriteTemporary, ReserveRaises, BuildRaises, WriteRaises, ReplaceRaises,
         ReleaseRaises, Crash
<1> HIDE DEF UsedNumbers
<1> QED
  BY <1>1, <1>2, <1>3, <1>4, <1>5, PastRunAssumption

\* No step takes the bound away.
LEMMA BoundStep == TInv /\ [Next]_vars => NumbersAreBounded'
<1> SUFFICES ASSUME TInv, [Next]_vars
             PROVE  NumbersAreBounded'
  OBVIOUS
<1>1. PICK b \in Nat : \A n \in UsedNumbers : n <= b
  BY DEF TInv, NumbersAreBounded
<1>2. UsedNumbers \subseteq Nat /\ \A c \in Calls : candidate[c] \in Nat
  BY DEF TInv, TypeOK, UsedNumbers, Artifact
<1>3. PICK c \in Calls \cup {PastRun} :
        UsedNumbers' \subseteq UsedNumbers \cup (IF c \in Calls THEN {candidate[c]} ELSE {})
  BY NewNumbers
<1>4. \E d \in Nat : \A n \in UsedNumbers' : n <= d
  <2>1. CASE c \in Calls
    <3>1. b + candidate[c] \in Nat
      BY <1>2, <2>1
    <3>2. \A n \in UsedNumbers' : n <= b + candidate[c]
      BY <1>1, <1>2, <1>3, <2>1
    <3> QED
      BY <3>1, <3>2
  <2>2. CASE c \notin Calls
    BY <1>1, <1>3, <2>2
  <2> QED
    BY <2>1, <2>2
<1> QED
  BY <1>4 DEF NumbersAreBounded

\* The state keeps its types, and the numbers in use stay bounded.
THEOREM TypesHold == Spec => []TInv
<1>1. TInv /\ [Next]_vars => TInv'
  BY TypeOKStep, BoundStep DEF TInv
<1> QED
  BY <1>1, TypeInit, PTL DEF Spec

\* The state keeps its types.
THEOREM TypeCorrect == Spec => []TypeOK
<1>1. TInv => TypeOK
  BY DEF TInv
<1> QED
  BY <1>1, TypesHold, PTL

-------------------------------------------------------------------------------
(* Reservations *)

\* ExclusiveReservations is inductive as it stands: a call that opens a file
\* finds none of its number, and every holder has one.
LEMMA ExclusionStep == TypeOK /\ ExclusiveReservations /\ [Next]_vars => ExclusiveReservations'
<1> SUFFICES ASSUME TypeOK, ExclusiveReservations, [Next]_vars
             PROVE  ExclusiveReservations'
  OBVIOUS
<1> USE DEF TypeOK, ExclusiveReservations, Holding, Goto, directory, Running
<1>1. ASSUME NEW c \in Calls, Begin(c) PROVE ExclusiveReservations'
  BY <1>1 DEF Begin
<1>2. ASSUME NEW c \in Calls, Scan(c) PROVE ExclusiveReservations'
  BY <1>2 DEF Scan
<1>3. ASSUME NEW c \in Calls, Open(c) PROVE ExclusiveReservations'
  BY <1>3 DEF Open
<1>4. ASSUME NEW c \in Calls, OpenExists(c) PROVE ExclusiveReservations'
  BY <1>4 DEF OpenExists
<1>5. ASSUME NEW c \in Calls, Build(c) PROVE ExclusiveReservations'
  BY <1>5 DEF Build
<1>6. ASSUME NEW c \in Calls, WriteTemporary(c) PROVE ExclusiveReservations'
  BY <1>6 DEF WriteTemporary
<1>7. ASSUME NEW c \in Calls, Replace(c) PROVE ExclusiveReservations'
  BY <1>7 DEF Replace
<1>8. ASSUME NEW c \in Calls, Release(c) PROVE ExclusiveReservations'
  BY <1>8 DEF Release
<1>9. ASSUME NEW c \in Calls, ReserveRaises(c) PROVE ExclusiveReservations'
  BY <1>9 DEF ReserveRaises
<1>10. ASSUME NEW c \in Calls, BuildRaises(c) PROVE ExclusiveReservations'
  BY <1>10 DEF BuildRaises
<1>11. ASSUME NEW c \in Calls, WriteRaises(c) PROVE ExclusiveReservations'
  BY <1>11 DEF WriteRaises
<1>12. ASSUME NEW c \in Calls, ReplaceRaises(c) PROVE ExclusiveReservations'
  BY <1>12 DEF ReplaceRaises
<1>13. ASSUME NEW c \in Calls, ReleaseRaises(c) PROVE ExclusiveReservations'
  BY <1>13 DEF ReleaseRaises
<1>14. ASSUME NEW c \in Calls, Crash(c) PROVE ExclusiveReservations'
  BY <1>14 DEF Crash
<1>15. CASE UNCHANGED vars
  BY <1>15 DEF vars
<1> QED
  BY <1>1, <1>2, <1>3, <1>4, <1>5, <1>6, <1>7, <1>8, <1>9, <1>10, <1>11, <1>12,
     <1>13, <1>14, <1>15 DEF Next, Step, Fault, AllEnded

\* Two calls never hold one number, and no holder's file is removed by
\* another call.
THEOREM ReservationsAreExclusive == Spec => []ExclusiveReservations
<1>1. Init => ExclusiveReservations
  BY DEF Init, ExclusiveReservations, Holding
<1> QED
  BY <1>1, TypeCorrect, ExclusionStep, PTL DEF Spec

\* Whoever holds, dies with or fails to remove a reservation keeps its
\* number to say so.
LEMMA LeftoversStep == TypeOK /\ LeftoversAreExplained /\ [Next]_vars => LeftoversAreExplained'
<1> SUFFICES ASSUME TypeOK, LeftoversAreExplained, [Next]_vars
             PROVE  LeftoversAreExplained'
  OBVIOUS
<1> USE DEF TypeOK, LeftoversAreExplained, Holding, Goto, directory, Running
<1>1. ASSUME NEW c \in Calls, Begin(c) PROVE LeftoversAreExplained'
  BY <1>1 DEF Begin
<1>2. ASSUME NEW c \in Calls, Scan(c) PROVE LeftoversAreExplained'
  BY <1>2 DEF Scan
<1>3. ASSUME NEW c \in Calls, Open(c) PROVE LeftoversAreExplained'
  BY <1>3 DEF Open
<1>4. ASSUME NEW c \in Calls, OpenExists(c) PROVE LeftoversAreExplained'
  BY <1>4 DEF OpenExists
<1>5. ASSUME NEW c \in Calls, Build(c) PROVE LeftoversAreExplained'
  BY <1>5 DEF Build
<1>6. ASSUME NEW c \in Calls, WriteTemporary(c) PROVE LeftoversAreExplained'
  BY <1>6 DEF WriteTemporary
<1>7. ASSUME NEW c \in Calls, Replace(c) PROVE LeftoversAreExplained'
  BY <1>7 DEF Replace
<1>8. ASSUME NEW c \in Calls, Release(c) PROVE LeftoversAreExplained'
  BY <1>8 DEF Release
<1>9. ASSUME NEW c \in Calls, ReserveRaises(c) PROVE LeftoversAreExplained'
  BY <1>9 DEF ReserveRaises
<1>10. ASSUME NEW c \in Calls, BuildRaises(c) PROVE LeftoversAreExplained'
  BY <1>10 DEF BuildRaises
<1>11. ASSUME NEW c \in Calls, WriteRaises(c) PROVE LeftoversAreExplained'
  BY <1>11 DEF WriteRaises
<1>12. ASSUME NEW c \in Calls, ReplaceRaises(c) PROVE LeftoversAreExplained'
  BY <1>12 DEF ReplaceRaises
<1>13. ASSUME NEW c \in Calls, ReleaseRaises(c) PROVE LeftoversAreExplained'
  BY <1>13 DEF ReleaseRaises
<1>14. ASSUME NEW c \in Calls, Crash(c) PROVE LeftoversAreExplained'
  BY <1>14 DEF Crash
<1>15. CASE UNCHANGED vars
  BY <1>15 DEF vars
<1> QED
  BY <1>1, <1>2, <1>3, <1>4, <1>5, <1>6, <1>7, <1>8, <1>9, <1>10, <1>11, <1>12,
     <1>13, <1>14, <1>15 DEF Next, Step, Fault, AllEnded

\* A reservation file without a live holder is that of a call that died or
\* could not remove it.
THEOREM LeftoversHaveReasons == Spec => []LeftoversAreExplained
<1>1. Init => LeftoversAreExplained
  BY DEF Init, LeftoversAreExplained
<1> QED
  BY <1>1, TypeCorrect, LeftoversStep, PTL DEF Spec

-------------------------------------------------------------------------------
(* Order *)

\* The directory still holds what the earlier runs and the calls that
\* returned put there.
ArtifactsStay ==
  /\ \A n \in PastNumbers : [number |-> n, run |-> PastRun] \in artifacts
  /\ \A d \in returned : ArtifactName(d) \in artifacts

\* A call returns once, at its end.
ReturnedAreDone ==
  \A d \in returned : pc[d] \in {"release"} \cup Ended

\* Calls seen as ended with an artifact stay so.
EndedStay ==
  \A c \in Calls : \A d \in endedBefore[c] : d \in returned /\ pc[d] \in Ended

\* From its scan on, a call is above all that its directory held when it began.
AboveSeen ==
  \A c \in Calls : pc[c] = "open" \/ Holding(c) \/ c \in returned =>
    /\ \A d \in endedBefore[c] : candidate[d] < candidate[c]
    /\ \A n \in PastNumbers : n < candidate[c]

OrderInv == ArtifactsStay /\ ReturnedAreDone /\ EndedStay /\ AboveSeen

\* Before anybody begins, the directory holds the earlier runs' artifacts.
LEMMA OrderInit == Init => OrderInv
BY DEF Init, OrderInv, ArtifactsStay, ReturnedAreDone, EndedStay, AboveSeen, Holding

\* Only the scan has to look at the whole directory; every later step keeps
\* the number or raises it.
LEMMA OrderStep == TInv /\ OrderInv /\ [Next]_vars => OrderInv'
<1> SUFFICES ASSUME TInv, OrderInv, [Next]_vars
             PROVE  OrderInv'
  OBVIOUS
<1> TypeOK
  BY DEF TInv
<1> USE DEF TypeOK, OrderInv, ArtifactsStay, ReturnedAreDone, EndedStay, AboveSeen,
            Holding, ArtifactName, Goto, directory, Running, Ended
<1>1. ASSUME NEW c \in Calls, Begin(c) PROVE OrderInv'
  BY <1>1 DEF Begin
<1>2. ASSUME NEW c \in Calls, Scan(c) PROVE OrderInv'
  <2>1. \A n \in UsedNumbers : n < candidate'[c]
    BY <1>2, ScanIsAbove DEF Scan
  <2>2. \A n \in PastNumbers : n \in UsedNumbers
    <3>1. ASSUME NEW n \in PastNumbers PROVE [number |-> n, run |-> PastRun] \in artifacts
      OBVIOUS
    <3>2. ASSUME NEW n \in PastNumbers PROVE [number |-> n, run |-> PastRun].number = n
      OBVIOUS
    <3> QED
      BY <3>1, <3>2, Zenon DEF UsedNumbers
  <2>3. \A d \in endedBefore[c] : candidate[d] \in UsedNumbers
    <3>1. ASSUME NEW d \in endedBefore[c]
          PROVE  [number |-> candidate[d], run |-> d] \in artifacts
      OBVIOUS
    <3>2. ASSUME NEW d \in endedBefore[c]
          PROVE  [number |-> candidate[d], run |-> d].number = candidate[d]
      OBVIOUS
    <3> QED
      BY <3>1, <3>2, Zenon DEF UsedNumbers
  <2>4. \A d \in endedBefore[c] : d # c
    BY <1>2 DEF Scan
  <2> QED
    BY <1>2, <2>1, <2>2, <2>3, <2>4 DEF Scan
<1>3. ASSUME NEW c \in Calls, Open(c) PROVE OrderInv'
  BY <1>3 DEF Open
<1>4. ASSUME NEW c \in Calls, OpenExists(c) PROVE OrderInv'
  BY <1>4 DEF OpenExists
<1>5. ASSUME NEW c \in Calls, Build(c) PROVE OrderInv'
  BY <1>5 DEF Build
<1>6. ASSUME NEW c \in Calls, WriteTemporary(c) PROVE OrderInv'
  BY <1>6 DEF WriteTemporary
<1>7. ASSUME NEW c \in Calls, Replace(c) PROVE OrderInv'
  BY <1>7 DEF Replace
<1>8. ASSUME NEW c \in Calls, Release(c) PROVE OrderInv'
  BY <1>8 DEF Release
<1>9. ASSUME NEW c \in Calls, ReserveRaises(c) PROVE OrderInv'
  BY <1>9 DEF ReserveRaises
<1>10. ASSUME NEW c \in Calls, BuildRaises(c) PROVE OrderInv'
  BY <1>10 DEF BuildRaises
<1>11. ASSUME NEW c \in Calls, WriteRaises(c) PROVE OrderInv'
  BY <1>11 DEF WriteRaises
<1>12. ASSUME NEW c \in Calls, ReplaceRaises(c) PROVE OrderInv'
  BY <1>12 DEF ReplaceRaises
<1>13. ASSUME NEW c \in Calls, ReleaseRaises(c) PROVE OrderInv'
  BY <1>13 DEF ReleaseRaises
<1>14. ASSUME NEW c \in Calls, Crash(c) PROVE OrderInv'
  BY <1>14 DEF Crash
<1>15. CASE UNCHANGED vars
  BY <1>15 DEF vars
<1> QED
  BY <1>1, <1>2, <1>3, <1>4, <1>5, <1>6, <1>7, <1>8, <1>9, <1>10, <1>11, <1>12,
     <1>13, <1>14, <1>15 DEF Next, Step, Fault, AllEnded

\* A run that begins after another one ended gets a larger number, whatever
\* the runs that overlap with either do.
THEOREM NumbersFollowRealTime == Spec => []LaterRunsLargerNumbers
<1>1. TypeOK /\ OrderInv => LaterRunsLargerNumbers
  BY DEF TypeOK, OrderInv, AboveSeen, LaterRunsLargerNumbers
<1> QED
  BY <1>1, TypeCorrect, TypesHold, OrderInit, OrderStep, PTL DEF Spec
===============================================================================
