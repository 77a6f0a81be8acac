--------------------------- MODULE CVLifecycle_proofs ---------------------------
EXTENDS CVLifecycle, DocumentLemmas

(*****************************************************************************)
(* What holds of a CV's life for every document, every list of hits and      *)
(* every decision of the model.  What the functions on text do is stated in  *)
(* DocumentLemmas; here the detection of PII, the redaction and the lists of *)
(* skills are, in the same way, runs of one value per hit, finding or skill  *)
(* (DetectRuns), and a fact about the result an induction along the run.     *)
(* The inductive invariant CInv, near the end, then says where the texts of  *)
(* the agent's stages and of the store come from.                            *)
(*****************************************************************************)

-------------------------------------------------------------------------------
(* Cleaning again *)

\* Joining changes nothing in a text that has no cut word.
LEMMA DehyphenatedStays ==
  ASSUME NEW T, Space \in T, Newline \in T, NEW text \in Seq(T), ~CutWord(text)
  PROVE  Dehyphenated(text) = text
<1> DEFINE n == Len(text)
           from(k) == SubSeq(text, 1, k)
<1>1. n \in Nat /\ DOMAIN text = 1 .. n /\ \A i \in 1 .. n : text[i] \in T
  OBVIOUS
<1>2. from(0) = <<>> /\ from(n) = text /\ \A k \in 1 .. n : from(k) = Append(from(k - 1), text[k])
  OBVIOUS
<1>3. \A k \in 1 .. n : ~Joint(text, k)
  BY <1>1 DEF CutWord, Joint
<1> HIDE DEF n, from
<1>4. PICK f : DehyphenatedRun(f, T, text, n)
  BY <1>1, DehyphenatedRuns
<1> DEFINE G == {k \in 0 .. n : f[k] = from(k)}
<1>5. 0 \in G
  BY <1>1, <1>2, <1>4 DEF DehyphenatedRun
<1>6. ASSUME NEW k \in 1 .. n, k - 1 \in G PROVE k \in G
  <2>1. k \in 0 .. n /\ ~Joint(text, k) /\ (k > 1 => k - 1 \in 1 .. n)
    BY <1>1, <1>3
  <2>2. ~ (k > 1 /\ Joint(text, k - 1))
    BY <1>3, <2>1
  <2>3. f[k] = Append(f[k - 1], text[k])
    BY <1>4, <2>1, <2>2 DEF DehyphenatedRun
  <2>4. f[k - 1] = from(k - 1)
    BY <1>6
  <2> QED
    BY <1>2, <2>1, <2>3, <2>4
<1>7. 0 .. n \subseteq G
  <2> HIDE DEF G
  <2> QED
    BY <1>1, <1>5, <1>6, IntervalInduction
<1>8. n \in 0 .. n
  BY <1>1
<1> QED
  BY <1>2, <1>4, <1>7, <1>8 DEF DehyphenatedRun

\* Cleaning a cleaned text changes nothing, unless it puts a word together.
LEMMA CleanStays ==
  ASSUME NEW T, Space \in T, Newline \in T, NEW y, NEW lines, Clean(y, lines, T), ~CutWord(y)
  PROVE  Cleaned(y) = y
<1>1. lines \in Seq(Seq(T)) /\ lines # <<>> /\ Tidy(lines) /\ y = Joined(lines)
  BY DEF Clean
<1>2. y \in Seq(T)
  BY <1>1, JoinedTyped
<1>3. UnixLines(y) = y
  <2>1. Unix(y)
    BY <1>1, JoinedIsUnix
  <2> QED
    BY <1>2, <2>1, UnixStays
<1>4. Dehyphenated(y) = y
  BY <1>2, DehyphenatedStays
<1>5. Lines(y) = lines
  <2>1. \A i \in 1 .. Len(lines) : OneLine(lines[i])
    BY <1>1 DEF Tidy, Plain
  <2> QED
    BY <1>1, <2>1, LinesOfJoined
<1>6. CleanLines(lines) = lines
  BY <1>1, TidyStays
<1>7. Strip(y) = y
  <2>1. CASE lines = << <<>> >>
    <3>1. <<>> \in Seq(T) /\ Len(<<>>) = 0 /\ 1 .. 0 = {}
      OBVIOUS
    <3>2. y = <<>>
      BY <1>1, <2>1, <3>1, JoinedOfOne
    <3>3. Strip(<<>>) = <<>>
      BY <3>1, Stripped
    <3> QED
      BY <3>2, <3>3
  <2>2. CASE lines[1] # <<>> /\ lines[Len(lines)] # <<>>
    <3> DEFINE n == Len(lines)
    <3>1. 1 \in 1 .. n /\ n \in 1 .. n /\ lines[1] \in Seq(T) /\ lines[n] \in Seq(T)
      BY <1>1
    <3>2. Plain(lines[1]) /\ Plain(lines[n])
      BY <1>1, <3>1 DEF Tidy
    <3>3. Edged(lines[1]) /\ Edged(lines[n])
      BY <2>2, <3>1, <3>2, SpacedIsEdged
    <3>4. Edged(y)
      BY <1>1, <3>3, JoinedIsEdged
    <3> QED
      BY <1>2, <3>4, StripOfInk DEF Edged
  <2> QED
    BY <2>1, <2>2 DEF Clean
<1> QED
  BY <1>1, <1>3, <1>4, <1>5, <1>6, <1>7 DEF Cleaned

-------------------------------------------------------------------------------
(* PII detection *)

\* Why a hit is rejected; "" when it is kept.
Reasons ==
  {"not_name_shaped", "not_a_personal_link", "outside_header_block", "not_street_shaped",
   "not_a_parseable_date", "not_in_document", "validation_guard_rejected", ""}

\* The spans and the rejections that reading the hits in a text can record.
SpanOf(text) == [kind : PIIKind, text : {ValueAt(text, r) : r \in SUBSET Int}]
Finding(text) == [spans : Seq(SpanOf(text)), ranges : SUBSET SUBSET Int, rejections : Seq(Reasons)]

\* A hit kept is recorded under one of the kinds of PIIKind.
LEMMA KindTyped ==
  ASSUME NEW text, NEW hit, hit.entity \in DOMAIN ENTITY_TO_KIND, NEW range
  PROVE  KindOf(text, hit, range) \in PIIKind
<1> DEFINE K == {ENTITY_TO_KIND[e] : e \in DOMAIN ENTITY_TO_KIND}
<1>1. ENTITY_TO_KIND[hit.entity] \in K
  OBVIOUS
<1>2. K \subseteq PIIKind /\ "referee" \in PIIKind
  BY DEF PIIKind
<1> HIDE DEF K
<1> QED
  BY <1>1, <1>2 DEF KindOf

\* What strip() keeps of a range is positions.
LEMMA InkTyped ==
  ASSUME NEW text, NEW range
  PROVE  Ink(text, range) \in SUBSET Int
BY DEF Ink

\* What a validator keeps of a hit is positions.
LEMMA NarrowedTyped ==
  ASSUME NEW text, NEW hit, NEW range \in SUBSET Int
  PROVE  Narrowed(text, hit, range) \in SUBSET Int
<1> DEFINE breaks == {i \in range : text[i] \in NameBreaks}
           head == Ink(text, {i \in range : \A b \in breaks : i < b})
<1>1. NameRange(text, range) \in {range, head, {}}
  BY DEF NameRange
<1>2. head \in SUBSET Int
  BY InkTyped
<1> HIDE DEF head
<1>3. NameRange(text, range) \in SUBSET Int
  BY <1>1, <1>2
<1> QED
  BY <1>3 DEF Narrowed

\* A rejection has one of the reasons the detector writes.
LEMMA RejectionTyped ==
  ASSUME NEW text, NEW hit, NEW range
  PROVE  Rejection(text, hit, range) \in Reasons
BY Zenon DEF Rejection, Reasons

\* Judging one more hit keeps a finding a finding.
LEMMA JudgeTyped ==
  ASSUME NEW text, NEW done \in Finding(text), NEW hit, hit.entity \in DOMAIN ENTITY_TO_KIND
  PROVE  Judge(text, done, hit) \in Finding(text)
<1> DEFINE hitRange == Ink(text, hit.first .. hit.last)
           range == Narrowed(text, hit, hitRange)
           reason == Rejection(text, hit, range)
<1>1. hitRange \in SUBSET Int /\ range \in SUBSET Int /\ reason \in Reasons
  BY InkTyped, NarrowedTyped, RejectionTyped
<1>2. \A why \in Reasons : Rejected(done, why) \in Finding(text)
  <2> SUFFICES ASSUME NEW why \in Reasons PROVE Rejected(done, why) \in Finding(text)
    OBVIOUS
  <2>1. Append(done.rejections, why) \in Seq(Reasons)
    BY DEF Finding
  <2>2. Rejected(done, why) = [done EXCEPT !.rejections = Append(done.rejections, why)]
    BY DEF Rejected
  <2> HIDE DEF hitRange, range, reason
  <2> QED
    BY <2>1, <2>2 DEF Finding
<1>3. Accepted(text, done, hit, hitRange) \in Finding(text)
  <2> DEFINE new == Span(KindOf(text, hit, range), ValueAt(text, range))
  <2>1. KindOf(text, hit, range) \in PIIKind
    BY KindTyped
  <2>2. new \in SpanOf(text)
    BY <1>1, <2>1 DEF SpanOf, Span
  <2>3. Accepted(text, done, hit, hitRange)
        \in {done, [done EXCEPT !.spans = Append(done.spans, new),
                                   !.ranges = done.ranges \cup {range}]}
    BY DEF Accepted
  <2> HIDE DEF new, range, hitRange
  <2>4. Append(done.spans, new) \in Seq(SpanOf(text))
        /\ done.ranges \cup {range} \in SUBSET SUBSET Int
    <3>1. done.spans \in Seq(SpanOf(text)) /\ done.ranges \in SUBSET SUBSET Int
      BY DEF Finding
    <3>2. Append(done.spans, new) \in Seq(SpanOf(text))
      BY <2>2, <3>1
    <3> QED
      BY <1>1, <3>1, <3>2
  <2> QED
    BY <2>3, <2>4 DEF Finding
<1>4. Judge(text, done, hit) \in
        {done, Rejected(done, "not_name_shaped"), Rejected(done, reason),
         Accepted(text, done, hit, hitRange)}
  BY DEF Judge
<1>5. "not_name_shaped" \in Reasons
  BY DEF Reasons
<1> HIDE DEF hitRange, range, reason
<1>6. Rejected(done, "not_name_shaped") \in Finding(text) /\ Rejected(done, reason) \in Finding(text)
  BY <1>1, <1>2, <1>5
<1> QED
  BY <1>3, <1>4, <1>6

\* The finding before the first hit.
LEMMA NothingFound == ASSUME NEW text PROVE Nothing \in Finding(text)
BY DEF Nothing, Finding

\* Detect, one hit after the other.
DetectRun(f, text, reported, n) ==
  /\ f \in [0 .. n -> Finding(text)]
  /\ f[0] = Nothing /\ f[n] = Detect(text, reported)
  /\ \A k \in 1 .. n : f[k] = Judge(text, f[k - 1], reported[k])

\* PresidioPIIDetector.detect is a run over the hits reported.
LEMMA DetectRuns ==
  ASSUME NEW text, NEW n \in Nat, NEW reported, DOMAIN reported = 1 .. n,
         \A i \in 1 .. n : reported[i].entity \in DOMAIN ENTITY_TO_KIND
  PROVE  \E f : DetectRun(f, text, reported, n)
<1> DEFINE A == Finding(text)
           base == Nothing
           Step(done, next) == Judge(text, done, next)
           o == [p \in A \X (1 .. n) |-> Step(p[1], reported[p[2]])]
           Iterates(g) == g = [s \in SUBSET (1 .. n) |-> IF s = {} THEN base
                                 ELSE Step(g[s \ {Max(s)}], reported[Max(s)])]
           it == CHOOSE g : Iterates(g)
           f == [k \in 0 .. n |-> it[1 .. k]]
<1>1. base \in A
  BY NothingFound
<1>2. \A a \in A, i \in 1 .. n : Step(a, reported[i]) \in A
  BY JudgeTyped
<1>3. Detect(text, reported) = it[1 .. n]
  BY DEF Detect, Nothing, FoldLeft, MapThenFoldSet
<1> HIDE DEF A, base, Step
<1>4. o \in FoldSteps(A, n)
      /\ \A a \in A, i \in 1 .. n : o[<<a, i>>] = Step(a, reported[i])
  BY <1>2 DEF FoldSteps
<1> HIDE DEF o, it, f
<1>5. PICK g : IsFold(g, A, base, n, o)
  BY <1>1, <1>4, FoldExists
<1>6. Iterates(it)
  <2>1. \A s \in SUBSET (1 .. n) : s # {} => g[s \ {Max(s)}] \in A /\ Max(s) \in 1 .. n
    BY <1>5, FoldValues
  <2>2. Iterates(g)
    BY <1>4, <1>5, <2>1 DEF IsFold
  <2> HIDE DEF Iterates
  <2> QED
    BY <2>2 DEF it
<1>7. /\ it[{}] = base
      /\ \A s \in SUBSET (1 .. n) :
           s # {} /\ it[s \ {Max(s)}] \in A => it[s] = o[<<it[s \ {Max(s)}], Max(s)>>]
  BY <1>4, <1>6, MaxOfRange
<1> HIDE DEF Iterates
<1>8. IsRun(f, A, base, n, o)
  BY <1>1, <1>4, <1>7, FoldRuns DEF f
<1>9. f \in [0 .. n -> A] /\ f[0] = base /\ f[n] = Detect(text, reported)
  BY <1>3, <1>8 DEF f, IsRun
<1>10. ASSUME NEW k \in 1 .. n PROVE f[k] = Step(f[k - 1], reported[k])
  <2>1. k - 1 \in 0 .. n /\ f[k] = o[<<f[k - 1], k>>]
    BY <1>8 DEF IsRun
  <2> QED
    BY <1>4, <1>9, <2>1
<1> QED
  BY <1>9, <1>10 DEF A, base, Step, DetectRun

\* What the detector returns is spans and rejections of their kinds.
LEMMA DetectTyped ==
  ASSUME NEW text, NEW n \in Nat, NEW reported, DOMAIN reported = 1 .. n,
         \A i \in 1 .. n : reported[i].entity \in DOMAIN ENTITY_TO_KIND
  PROVE  Detect(text, reported) \in Finding(text)
<1>1. PICK f : DetectRun(f, text, reported, n)
  BY DetectRuns
<1>2. n \in 0 .. n
  OBVIOUS
<1> QED
  BY <1>1, <1>2 DEF DetectRun

\* The positions of a value: an interval of the text with no blank at its ends.
Whole(text, range) ==
  \E i, j \in DOMAIN text :
    i <= j /\ range = i .. j /\ ~IsWhite(text[i]) /\ ~IsWhite(text[j])

\* What was accepted in a range is recorded, and nothing else is.
Backed(text, done) ==
  /\ \A r \in done.ranges :
       Whole(text, r) /\ \E k \in DOMAIN done.spans : done.spans[k].text = ValueAt(text, r)
  /\ \A k \in DOMAIN done.spans : \E r \in done.ranges : done.spans[k].text = ValueAt(text, r)

\* A value is part of one that is recorded.
Covered(value, spans) ==
  \E k \in DOMAIN spans : Occurs(normalise(value), normalise(spans[k].text))

\* strip() of a range begins and ends with ink.
LEMMA InkWhole ==
  ASSUME NEW T, NEW text \in Seq(T), NEW range \in SUBSET (DOMAIN text), Ink(text, range) # {}
  PROVE  \E i, j \in range :
           i <= j /\ Ink(text, range) = i .. j /\ ~IsWhite(text[i]) /\ ~IsWhite(text[j])
<1> DEFINE D == DOMAIN text
<1>1. D = 1 .. Len(text) /\ Len(text) \in Nat /\ D \subseteq Nat
  OBVIOUS
<1>2. IsFiniteSet(D)
  BY <1>1, FS_Interval
<1>3. range \in SUBSET D
  OBVIOUS
<1>4. range \in SUBSET Nat /\ IsFiniteSet(range)
  <2> HIDE DEF D
  <2> QED
    BY <1>1, <1>2, <1>3, FS_Subset
<1>5. \E first, last \in range :
        /\ first <= last /\ Ink(text, range) = first .. last
        /\ ~IsWhite(text[first]) /\ ~IsWhite(text[last])
        /\ \A i \in range : ~IsWhite(text[i]) => first <= i /\ i <= last
  BY <1>4, InkRange
<1> QED
  BY <1>5

\* What a validator keeps begins and ends with ink, inside the hit.
LEMMA NarrowedWhole ==
  ASSUME NEW T, NEW text \in Seq(T), NEW range, Whole(text, range), NEW hit,
         Narrowed(text, hit, range) # {}
  PROVE  Whole(text, Narrowed(text, hit, range)) /\ Narrowed(text, hit, range) \subseteq range
<1> DEFINE breaks == {i \in range : text[i] \in NameBreaks}
           part == {i \in range : \A b \in breaks : i < b}
           head == Ink(text, part)
<1>1. Narrowed(text, hit, range) \in {range, head, {}}
  BY DEF Narrowed, NameRange
<1>2. PICK i, j \in DOMAIN text : i <= j /\ range = i .. j
  BY DEF Whole
<1>3. part \in SUBSET (DOMAIN text) /\ part \subseteq range
  <2>1. range \subseteq DOMAIN text
    BY <1>2
  <2> QED
    BY <2>1
<1> HIDE DEF part
<1>4. ASSUME head # {} PROVE Whole(text, head) /\ head \subseteq range
  <2>1. PICK a, b \in part : a <= b /\ head = a .. b /\ ~IsWhite(text[a]) /\ ~IsWhite(text[b])
    BY <1>3, <1>4, InkWhole
  <2>2. Whole(text, head)
    BY <1>3, <2>1 DEF Whole
  <2>3. a \in i .. j /\ b \in i .. j
    BY <1>2, <1>3
  <2>4. a .. b \subseteq i .. j
    BY <1>2, <2>3
  <2> HIDE DEF head
  <2> QED
    BY <1>2, <2>1, <2>2, <2>4
<1> HIDE DEF head
<1> QED
  BY <1>1, <1>4

\* The normalised value of a part occurs in the normalised value of the whole.
LEMMA WholePart ==
  ASSUME NEW T, Space \in T, Newline \in T, NEW text \in Seq(T),
         NEW range, Whole(text, range), NEW part, Whole(text, part), part \subseteq range
  PROVE  Occurs(normalise(ValueAt(text, part)), normalise(ValueAt(text, range)))
<1>1. PICK first, last \in DOMAIN text :
        /\ first <= last /\ range = first .. last
        /\ ~IsWhite(text[first]) /\ ~IsWhite(text[last])
  BY DEF Whole
<1>2. PICK i, j \in DOMAIN text :
        i <= j /\ part = i .. j /\ ~IsWhite(text[i]) /\ ~IsWhite(text[j])
  BY DEF Whole
<1>3. /\ first \in Int /\ last \in Int /\ i \in Int /\ j \in Int
      /\ 1 <= first /\ last <= Len(text)
  OBVIOUS
<1>4. first <= i /\ j <= last
  <2>1. i \in part /\ j \in part
    BY <1>2, <1>3
  <2>2. i \in range /\ j \in range
    BY <2>1
  <2> QED
    BY <1>1, <1>3, <2>2
<1>5. ValueAt(text, range) = SubSeq(text, first, last)
  BY <1>1, <1>3, Ends DEF ValueAt
<1>6. ValueAt(text, part) = SubSeq(text, i, j)
  BY <1>2, <1>3, Ends DEF ValueAt
<1>7. Occurs(normalise(SubSeq(text, i, j)), normalise(SubSeq(text, first, last)))
  BY <1>1, <1>2, <1>3, <1>4, PartOccurs
<1> QED
  BY <1>5, <1>6, <1>7

\* Every hit points into the text.
Inside(text, hit) ==
  hit.entity \in DOMAIN ENTITY_TO_KIND /\ hit.first .. hit.last \subseteq DOMAIN text

\* What is recorded of a hit that is judged alone.
LEMMA JudgedAlone ==
  ASSUME NEW text, NEW hit
  PROVE  LET hitRange == Ink(text, hit.first .. hit.last)
             range == Narrowed(text, hit, hitRange)
             spans == Judge(text, Nothing, hit).spans
         IN  \/ spans = <<>>
             \/ /\ hitRange # {} /\ range # {} /\ Rejection(text, hit, range) = ""
                /\ spans = <<Span(KindOf(text, hit, range), ValueAt(text, range))>>
<1> DEFINE hitRange == Ink(text, hit.first .. hit.last)
           range == Narrowed(text, hit, hitRange)
           reason == Rejection(text, hit, range)
           value == ValueAt(text, range)
           new == Span(KindOf(text, hit, range), value)
<1>1. Nothing.spans = <<>> /\ Nothing.ranges = {}
  BY DEF Nothing
<1>2. \A why : Rejected(Nothing, why).spans = <<>>
  BY DEF Rejected, Nothing
<1>3. Accepted(text, Nothing, hit, hitRange).spans = <<new>>
  <2>1. ~IsSeen(value, <<>>)
    BY DEF IsSeen
  <2>2. Accepted(text, Nothing, hit, hitRange) =
          [Nothing EXCEPT !.spans = Append(<<>>, new), !.ranges = Nothing.ranges \cup {range}]
    BY <1>1, <2>1 DEF Accepted
  <2> HIDE DEF new, range, hitRange, reason, value
  <2>3. Append(<<>>, new) = <<new>>
    OBVIOUS
  <2> QED
    BY <2>2, <2>3 DEF Nothing
<1>4. Judge(text, Nothing, hit) =
        IF hitRange = {} THEN Nothing
        ELSE IF range = {} THEN Rejected(Nothing, "not_name_shaped")
        ELSE IF reason # "" THEN Rejected(Nothing, reason)
        ELSE Accepted(text, Nothing, hit, hitRange)
  BY <1>1 DEF Judge
<1> HIDE DEF hitRange, range, reason, new, value
<1> QED
  BY <1>1, <1>2, <1>3, <1>4 DEF hitRange, range, reason, new, value

\* Judging one more hit keeps what is recorded, keeps ranges and values
\* together, and what the hit alone would give is part of a recorded value.
LEMMA JudgeKeeps ==
  ASSUME NEW T, Space \in T, Newline \in T, NEW text \in Seq(T),
         NEW hit, Inside(text, hit), NEW done \in Finding(text), Backed(text, done)
  PROVE  LET after == Judge(text, done, hit)
             alone == Judge(text, Nothing, hit)
         IN  /\ Backed(text, after)
             /\ \A k \in DOMAIN done.spans :
                  k \in DOMAIN after.spans /\ after.spans[k] = done.spans[k]
             /\ \A i \in DOMAIN alone.spans : Covered(alone.spans[i].text, after.spans)
<1> DEFINE hitRange == Ink(text, hit.first .. hit.last)
           range == Narrowed(text, hit, hitRange)
           reason == Rejection(text, hit, range)
           value == ValueAt(text, range)
           new == Span(KindOf(text, hit, range), value)
           after == Judge(text, done, hit)
           alone == Judge(text, Nothing, hit)
           inside == \E r \in done.ranges : hitRange \subseteq r
<1>1. hitRange # {} => Whole(text, hitRange)
  BY InkWhole DEF Whole, Inside
<1>2. hitRange # {} /\ range # {} => Whole(text, range) /\ range \subseteq hitRange
  <2> HIDE DEF hitRange
  <2> QED
    BY <1>1, NarrowedWhole
<1>3. \/ alone.spans = <<>>
      \/ hitRange # {} /\ range # {} /\ reason = "" /\ alone.spans = <<new>>
  BY JudgedAlone
<1>4. after = IF hitRange = {} \/ inside THEN done
              ELSE IF range = {} THEN Rejected(done, "not_name_shaped")
              ELSE IF reason # "" THEN Rejected(done, reason)
              ELSE Accepted(text, done, hit, hitRange)
  BY DEF Judge
<1>5. \A why : Rejected(done, why).spans = done.spans /\ Rejected(done, why).ranges = done.ranges
  BY DEF Rejected, Finding
<1>6. Accepted(text, done, hit, hitRange) =
        IF IsSeen(value, done.spans) THEN done
        ELSE [done EXCEPT !.spans = Append(done.spans, new), !.ranges = done.ranges \cup {range}]
  BY DEF Accepted
<1>7. new.text = value
  BY DEF Span
<1>8. done.spans \in Seq(SpanOf(text)) /\ done.ranges \in SUBSET SUBSET Int
  BY DEF Finding
<1> HIDE DEF hitRange, range, reason, new, after, alone, inside
<1>9. \A i \in DOMAIN alone.spans :
        hitRange # {} /\ range # {} /\ reason = "" /\ alone.spans[i].text = value
  <2> HIDE DEF value
  <2> DEFINE none == <<>>
             one == <<new>>
  <2>1. DOMAIN none = {} /\ \A i \in DOMAIN one : one[i] = new
    OBVIOUS
  <2>2. alone.spans = none \/ (hitRange # {} /\ range # {} /\ reason = "" /\ alone.spans = one)
    BY <1>3
  <2> HIDE DEF none, one
  <2> QED
    BY <1>7, <2>1, <2>2
<1>10. ASSUME NEW r \in done.ranges, NEW spans, \A k \in DOMAIN done.spans :
                k \in DOMAIN spans /\ spans[k] = done.spans[k]
       PROVE  Whole(text, r) /\ \E k \in DOMAIN spans : spans[k].text = ValueAt(text, r)
  BY <1>10 DEF Backed
<1>11. CASE hitRange = {} \/ inside
  <2>1. after = done
    BY <1>4, <1>11
  <2>2. ASSUME NEW i \in DOMAIN alone.spans PROVE Covered(value, done.spans)
    <3>1. hitRange # {} /\ range # {}
      BY <1>9
    <3>2. PICK r \in done.ranges : hitRange \subseteq r
      BY <1>11, <3>1 DEF inside
    <3>3. Whole(text, r) /\ \E k \in DOMAIN done.spans : done.spans[k].text = ValueAt(text, r)
      BY DEF Backed
    <3>4. Occurs(normalise(value), normalise(ValueAt(text, r)))
      <4>1. Whole(text, range) /\ range \subseteq r
        BY <1>2, <3>1, <3>2
      <4> QED
        BY <3>3, <4>1, WholePart
    <3> QED
      BY <3>3, <3>4 DEF Covered
  <2> HIDE DEF value
  <2> QED
    BY <1>9, <2>1, <2>2 DEF after, alone
<1>12. CASE ~(hitRange = {} \/ inside) /\ (range = {} \/ reason # "")
  <2>1. after.spans = done.spans /\ after.ranges = done.ranges
    BY <1>4, <1>5, <1>12
  <2>2. alone.spans = <<>>
    BY <1>3, <1>12
  <2>3. Backed(text, after)
    BY <2>1 DEF Backed
  <2> QED
    BY <2>1, <2>2, <2>3 DEF after, alone
<1>13. CASE ~(hitRange = {} \/ inside) /\ range # {} /\ reason = ""
  <2>1. after = Accepted(text, done, hit, hitRange)
    BY <1>4, <1>13
  <2>2. Whole(text, range) /\ Occurs(normalise(value), normalise(value))
    BY <1>2, <1>13, WholePart
  <2>3. CASE IsSeen(value, done.spans)
    <3>1. after = done
      BY <1>6, <2>1, <2>3
    <3>2. PICK k \in DOMAIN done.spans : normalise(done.spans[k].text) = normalise(value)
      BY <2>3 DEF IsSeen
    <3>3. Covered(value, done.spans)
      BY <2>2, <3>2 DEF Covered
    <3> HIDE DEF value
    <3> QED
      BY <1>9, <3>1, <3>3 DEF after, alone
  <2>4. CASE ~IsSeen(value, done.spans)
    <3> DEFINE spans == Append(done.spans, new)
    <3>1. after.spans = spans /\ after.ranges = done.ranges \cup {range}
      <4> HIDE DEF value
      <4> QED
        BY <1>6, <2>1, <2>4 DEF Finding
    <3> DEFINE n == Len(done.spans)
    <3>2. /\ \A k \in DOMAIN done.spans : k \in DOMAIN spans /\ spans[k] = done.spans[k]
          /\ n + 1 \in DOMAIN spans /\ spans[n + 1] = new
          /\ \A k \in DOMAIN spans : k \in DOMAIN done.spans \/ k = n + 1
      BY <1>8
    <3> HIDE DEF spans, n, value
    <3>3. \E k \in DOMAIN spans : spans[k].text = value
      BY <1>7, <3>2
    <3>6. \A r \in after.ranges : Whole(text, r) /\ \E k \in DOMAIN spans : spans[k].text = ValueAt(text, r)
      BY <1>10, <2>2, <3>1, <3>2, <3>3 DEF value
    <3>7. \A k \in DOMAIN spans : \E r \in after.ranges : spans[k].text = ValueAt(text, r)
      <4> SUFFICES ASSUME NEW k \in DOMAIN spans
                   PROVE  \E r \in after.ranges : spans[k].text = ValueAt(text, r)
        OBVIOUS
      <4>1. CASE k = n + 1
        BY <1>7, <3>1, <3>2, <4>1 DEF value
      <4>2. CASE k # n + 1
        <5>1. k \in DOMAIN done.spans /\ spans[k] = done.spans[k]
          BY <3>2, <4>2
        <5>2. PICK r \in done.ranges : done.spans[k].text = ValueAt(text, r)
          BY <5>1 DEF Backed
        <5> QED
          BY <3>1, <5>1, <5>2
      <4> QED
        BY <4>1, <4>2
    <3>4. Backed(text, after)
      BY <3>1, <3>6, <3>7 DEF Backed
    <3>5. Covered(value, spans)
      BY <2>2, <3>3 DEF Covered
    <3> QED
      BY <1>9, <3>1, <3>2, <3>4, <3>5 DEF after, alone
  <2> QED
    BY <2>3, <2>4
<1> QED
  BY <1>11, <1>12, <1>13

\* The detector on a single hit does what it does with that hit first.
LEMMA DetectedAlone ==
  ASSUME NEW text, NEW hit, hit.entity \in DOMAIN ENTITY_TO_KIND
  PROVE  Detect(text, <<hit>>) = Judge(text, Nothing, hit)
<1> DEFINE one == <<hit>>
<1>1. DOMAIN one = 1 .. 1 /\ 1 \in Nat /\ \A i \in 1 .. 1 : one[i] = hit
  OBVIOUS
<1> HIDE DEF one
<1>2. PICK f : DetectRun(f, text, one, 1)
  BY <1>1, DetectRuns
<1>3. 1 \in 1 .. 1 /\ 1 - 1 = 0
  OBVIOUS
<1> QED
  BY <1>1, <1>2, <1>3 DEF DetectRun, one

\* No hit costs another one its value, and values are accepted ranges of the text.
LEMMA DetectKeeps ==
  ASSUME NEW T, Space \in T, Newline \in T, NEW text \in Seq(T), NEW n \in Nat,
         NEW reported, DOMAIN reported = 1 .. n, \A i \in 1 .. n : Inside(text, reported[i])
  PROVE  /\ Backed(text, Detect(text, reported))
         /\ \A h \in 1 .. n :
              LET alone == Detect(text, <<reported[h]>>).spans
              IN  \A i \in DOMAIN alone : Covered(alone[i].text, Detect(text, reported).spans)
<1> DEFINE Alone(h) == Judge(text, Nothing, reported[h]).spans
<1>1. \A i \in 1 .. n : reported[i].entity \in DOMAIN ENTITY_TO_KIND
  BY DEF Inside
<1>2. PICK f : DetectRun(f, text, reported, n)
  BY <1>1, DetectRuns
<1> DEFINE Kept(k) ==
             /\ Backed(text, f[k])
             /\ \A h \in 1 .. k : \A i \in DOMAIN Alone(h) : Covered(Alone(h)[i].text, f[k].spans)
           G == {k \in 0 .. n : Kept(k)}
<1>3. 0 \in G
  <2>1. f[0] = Nothing
    BY <1>2 DEF DetectRun
  <2>2. Backed(text, f[0])
    BY <2>1 DEF Backed, Nothing
  <2> HIDE DEF Alone
  <2> QED
    BY <2>2
<1>4. ASSUME NEW k \in 1 .. n, k - 1 \in G PROVE k \in G
  <2>1. f[k] = Judge(text, f[k - 1], reported[k]) /\ f[k - 1] \in Finding(text)
    <3>1. k - 1 \in 0 .. n
      OBVIOUS
    <3> QED
      BY <1>2, <3>1 DEF DetectRun
  <2>2. Backed(text, f[k - 1]) /\ Inside(text, reported[k])
    BY <1>4
  <2>3. /\ Backed(text, f[k])
        /\ \A j \in DOMAIN f[k - 1].spans :
             j \in DOMAIN f[k].spans /\ f[k].spans[j] = f[k - 1].spans[j]
        /\ \A i \in DOMAIN Alone(k) : Covered(Alone(k)[i].text, f[k].spans)
    BY <2>1, <2>2, JudgeKeeps
  <2> HIDE DEF Alone
  <2>4. ASSUME NEW h \in 1 .. k, NEW i \in DOMAIN Alone(h)
        PROVE  Covered(Alone(h)[i].text, f[k].spans)
    <3>1. CASE h = k
      BY <2>3, <3>1
    <3>2. CASE h # k
      <4>1. h \in 1 .. (k - 1)
        BY <3>2
      <4>2. Covered(Alone(h)[i].text, f[k - 1].spans)
        BY <1>4, <4>1
      <4> QED
        BY <2>3, <4>2 DEF Covered
    <3> QED
      BY <3>1, <3>2
  <2> QED
    BY <2>3, <2>4
<1>5. n \in G
  <2> HIDE DEF G
  <2>1. 0 .. n \subseteq G
    BY <1>3, <1>4, IntervalInduction
  <2>2. n \in 0 .. n
    OBVIOUS
  <2> QED
    BY <2>1, <2>2
<1>6. Detect(text, reported) = f[n]
  BY <1>2 DEF DetectRun
<1>7. \A h \in 1 .. n : Detect(text, <<reported[h]>>).spans = Alone(h)
  BY <1>1, DetectedAlone
<1> HIDE DEF Alone
<1> QED
  BY <1>5, <1>6, <1>7

\* What is recorded after a list is a list.
LEMMA RecordedTyped ==
  ASSUME NEW T, NEW all \in Seq(T), NEW n \in Nat, NEW spans, DOMAIN spans = 1 .. n,
         \A i \in 1 .. n : spans[i] \in T
  PROVE  Recorded(all, spans) \in Seq(T)
<1> DEFINE A == Seq(T)
           base == all
           Step(done, next) == (IF IsSeen(next.text, done) THEN done ELSE Append(done, next))
           o == [p \in A \X (1 .. n) |-> Step(p[1], spans[p[2]])]
           Iterates(g) == g = [s \in SUBSET (1 .. n) |-> IF s = {} THEN base
                                 ELSE Step(g[s \ {Max(s)}], spans[Max(s)])]
           it == CHOOSE g : Iterates(g)
           f == [k \in 0 .. n |-> it[1 .. k]]
<1>1. base \in A
  OBVIOUS
<1>2. \A a \in A, i \in 1 .. n : Step(a, spans[i]) \in A
  OBVIOUS
<1>3. Recorded(all, spans) = it[1 .. n]
  BY DEF Recorded, FoldLeft, MapThenFoldSet
<1> HIDE DEF A, base, Step
<1>4. o \in FoldSteps(A, n)
      /\ \A a \in A, i \in 1 .. n : o[<<a, i>>] = Step(a, spans[i])
  BY <1>2 DEF FoldSteps
<1> HIDE DEF o, it, f
<1>5. PICK g : IsFold(g, A, base, n, o)
  BY <1>1, <1>4, FoldExists
<1>6. Iterates(it)
  <2>1. \A s \in SUBSET (1 .. n) : s # {} => g[s \ {Max(s)}] \in A /\ Max(s) \in 1 .. n
    BY <1>5, FoldValues
  <2>2. Iterates(g)
    BY <1>4, <1>5, <2>1 DEF IsFold
  <2> HIDE DEF Iterates
  <2> QED
    BY <2>2 DEF it
<1>7. /\ it[{}] = base
      /\ \A s \in SUBSET (1 .. n) :
           s # {} /\ it[s \ {Max(s)}] \in A => it[s] = o[<<it[s \ {Max(s)}], Max(s)>>]
  BY <1>4, <1>6, MaxOfRange
<1> HIDE DEF Iterates
<1>8. IsRun(f, A, base, n, o)
  BY <1>1, <1>4, <1>7, FoldRuns DEF f
<1>9. f \in [0 .. n -> A] /\ f[0] = base /\ f[n] = Recorded(all, spans)
  BY <1>3, <1>8 DEF f, IsRun
<1> QED
  BY <1>9 DEF A

\* What several detectors found is a list.
LEMMA CompositeTyped ==
  ASSUME NEW T, NEW n \in Nat, NEW lists, DOMAIN lists = 1 .. n,
         \A i \in 1 .. n : lists[i] \in Seq(T)
  PROVE  Composite(lists) \in Seq(T)
<1> DEFINE A == Seq(T)
           base == <<>>
           Step(done, next) == Recorded(done, next)
           o == [p \in A \X (1 .. n) |-> Step(p[1], lists[p[2]])]
           Iterates(g) == g = [s \in SUBSET (1 .. n) |-> IF s = {} THEN base
                                 ELSE Step(g[s \ {Max(s)}], lists[Max(s)])]
           it == CHOOSE g : Iterates(g)
           f == [k \in 0 .. n |-> it[1 .. k]]
<1>1. base \in A
  OBVIOUS
<1>2. \A a \in A, i \in 1 .. n : Step(a, lists[i]) \in A
  <2> TAKE a \in A, i \in 1 .. n
  <2>1. lists[i] \in Seq(T)
    OBVIOUS
  <2>2. Len(lists[i]) \in Nat /\ DOMAIN lists[i] = 1 .. Len(lists[i])
        /\ \A k \in 1 .. Len(lists[i]) : lists[i][k] \in T
    BY <2>1
  <2> QED
    BY <2>2, RecordedTyped
<1>3. Composite(lists) = it[1 .. n]
  BY DEF Composite, FoldLeft, MapThenFoldSet
<1> HIDE DEF A, base, Step
<1>4. o \in FoldSteps(A, n)
      /\ \A a \in A, i \in 1 .. n : o[<<a, i>>] = Step(a, lists[i])
  BY <1>2 DEF FoldSteps
<1> HIDE DEF o, it, f
<1>5. PICK g : IsFold(g, A, base, n, o)
  BY <1>1, <1>4, FoldExists
<1>6. Iterates(it)
  <2>1. \A s \in SUBSET (1 .. n) : s # {} => g[s \ {Max(s)}] \in A /\ Max(s) \in 1 .. n
    BY <1>5, FoldValues
  <2>2. Iterates(g)
    BY <1>4, <1>5, <2>1 DEF IsFold
  <2> HIDE DEF Iterates
  <2> QED
    BY <2>2 DEF it
<1>7. /\ it[{}] = base
      /\ \A s \in SUBSET (1 .. n) :
           s # {} /\ it[s \ {Max(s)}] \in A => it[s] = o[<<it[s \ {Max(s)}], Max(s)>>]
  BY <1>4, <1>6, MaxOfRange
<1> HIDE DEF Iterates
<1>8. IsRun(f, A, base, n, o)
  BY <1>1, <1>4, <1>7, FoldRuns DEF f
<1>9. f \in [0 .. n -> A] /\ f[0] = base /\ f[n] = Composite(lists)
  BY <1>3, <1>8 DEF f, IsRun
<1> QED
  BY <1>9 DEF A

-------------------------------------------------------------------------------
(* Words *)

\* From a to b a text has a word, and no more.
WordFrom(text, a, b) ==
  /\ a \in DOMAIN text /\ b \in DOMAIN text /\ a <= b
  /\ \A y \in a .. b : IsWord(text[y])
  /\ a = 1 \/ ~IsWord(text[a - 1])
  /\ b = Len(text) \/ ~IsWord(text[b + 1])

\* Words are those.
LEMMA WordsAre ==
  ASSUME NEW T, NEW text \in Seq(T)
  PROVE  /\ \A w \in Words(text) : \E a, b \in DOMAIN text :
              WordFrom(text, a, b) /\ w = SubSeq(text, a, b)
         /\ \A a, b \in DOMAIN text : WordFrom(text, a, b) => SubSeq(text, a, b) \in Words(text)
<1> DEFINE n == Len(text)
           Begins(i) == IsWord(text[i]) /\ (i = 1 \/ ~IsWord(text[i - 1]))
           Stops(i) == {j \in i .. n : j = n \/ ~IsWord(text[j + 1])}
<1>1. n \in Nat /\ DOMAIN text = 1 .. n
  OBVIOUS
<1>2. Words(text) = {SubSeq(text, i, Min(Stops(i))) : i \in {k \in DOMAIN text : Begins(k)}}
  BY DEF Words
<1> HIDE DEF n
<1>3. ASSUME NEW i \in 1 .. n, Begins(i) PROVE WordFrom(text, i, Min(Stops(i))) /\ Min(Stops(i)) \in 1 .. n
  <2>1. n \in Stops(i) /\ Stops(i) \in SUBSET Nat
    BY <1>1
  <2>2. PICK b \in Stops(i) : \A y \in Stops(i) : b <= y
    <3> HIDE DEF Stops
    <3> QED
      BY <2>1, LeastNatural
  <2>3. Min(Stops(i)) \in Stops(i) /\ \A y \in Stops(i) : Min(Stops(i)) <= y
    <3> HIDE DEF Stops
    <3> QED
      BY <2>2 DEF Min
  <2> DEFINE e == Min(Stops(i))
  <2> HIDE DEF e
  <2>4. e \in i .. n /\ (e = n \/ ~IsWord(text[e + 1])) /\ \A y \in i .. n : (y = n \/ ~IsWord(text[y + 1])) => e <= y
    BY <2>3 DEF e
  <2> DEFINE G == {t \in 0 .. e - i : IsWord(text[i + t])}
  <2>5. 0 \in G
    BY <1>1, <1>3, <2>4
  <2>6. ASSUME NEW t \in 1 .. e - i PROVE t \in G
    <3>1. i + (t - 1) \in i .. n /\ ~(e <= i + (t - 1)) /\ (i + (t - 1)) + 1 = i + t /\ t \in 0 .. e - i
      BY <1>1, <2>4
    <3> QED
      BY <2>4, <3>1
  <2>7. ASSUME NEW y \in i .. e PROVE IsWord(text[y])
    <3>1. y - i \in G
      <4>1. y - i = 0 \/ y - i \in 1 .. e - i
        BY <1>1, <2>4
      <4> HIDE DEF G
      <4> QED
        BY <2>5, <2>6, <4>1
    <3>2. i + (y - i) = y
      BY <1>1
    <3> QED
      BY <3>1, <3>2
  <2>8. e \in 1 .. n /\ i <= e
    BY <1>1, <2>4
  <2> QED
    BY <1>1, <1>3, <2>4, <2>7, <2>8 DEF WordFrom, e, n
<1>4. ASSUME NEW a \in 1 .. n, NEW b \in 1 .. n, WordFrom(text, a, b) PROVE Begins(a) /\ Min(Stops(a)) = b
  <2>1. Begins(a)
    BY <1>1, <1>4 DEF WordFrom
  <2>2. b \in Stops(a)
    BY <1>1, <1>4 DEF WordFrom, n
  <2>3. ASSUME NEW y \in Stops(a) PROVE b <= y
    <3> SUFFICES ASSUME y < b PROVE FALSE
      BY <1>1
    <3>1. y # n /\ y + 1 \in a .. b
      BY <1>1
    <3> QED
      BY <1>4, <3>1 DEF WordFrom
  <2>4. Min(Stops(a)) \in Stops(a) /\ Min(Stops(a)) <= b
    <3> HIDE DEF Stops
    <3> QED
      BY <2>2, <2>3 DEF Min
  <2>5. b <= Min(Stops(a)) /\ Min(Stops(a)) \in Nat
    <3>1. Stops(a) \subseteq Nat
      BY <1>1
    <3> HIDE DEF Stops
    <3> QED
      BY <2>3, <2>4, <3>1
  <2> HIDE DEF Stops
  <2> QED
    BY <2>1, <2>4, <2>5
<1> HIDE DEF Begins, Stops
<1> QED
  BY <1>1, <1>2, <1>3, <1>4

\* Where a text has a word symbol it has a word.
LEMMA WordAround ==
  ASSUME NEW T, NEW text \in Seq(T), NEW x \in 1 .. Len(text), IsWord(text[x])
  PROVE  \E a, b \in 1 .. Len(text) : WordFrom(text, a, b) /\ a <= x /\ x <= b
<1> DEFINE n == Len(text)
           A == {a \in 1 .. x : \A y \in a .. x : IsWord(text[y])}
           B == {b \in x .. n : \A y \in x .. b : IsWord(text[y])}
<1>1. n \in Nat /\ x \in Nat /\ 1 <= x /\ x <= n /\ DOMAIN text = 1 .. n
  OBVIOUS
<1> HIDE DEF n
<1>2. x \in A /\ A \in SUBSET Nat
  BY <1>1
<1>3. PICK a \in A : \A y \in A : a <= y
  <2> HIDE DEF A
  <2> QED
    BY <1>2, LeastNatural
<1>4. x \in B /\ B \in SUBSET Nat /\ IsFiniteSet(B)
  <2>1. x \in B /\ B \in SUBSET (x .. n) /\ x .. n \in SUBSET Nat
    BY <1>1
  <2> HIDE DEF B
  <2>2. IsFiniteSet(x .. n)
    BY <1>1, FS_Interval
  <2> QED
    BY <2>1, <2>2, FS_Subset
<1>5. PICK b \in B : \A y \in B : y <= b
  <2> HIDE DEF B
  <2> QED
    BY <1>1, <1>4, GreatestNatural
<1>6. a \in 1 .. n /\ b \in 1 .. n /\ a <= x /\ x <= b
  BY <1>1
<1>7. \A y \in a .. b : IsWord(text[y])
  <2> TAKE y \in a .. b
  <2>1. y \in a .. x \/ y \in x .. b
    BY <1>1, <1>6
  <2> QED
    BY <2>1
<1>8. a = 1 \/ ~IsWord(text[a - 1])
  <2> SUFFICES ASSUME a # 1, IsWord(text[a - 1]) PROVE FALSE
    OBVIOUS
  <2>1. a - 1 \in 1 .. x /\ \A y \in a - 1 .. x : y = a - 1 \/ y \in a .. x
    BY <1>1, <1>6
  <2>2. a - 1 \in A
    BY <2>1
  <2> QED
    BY <1>3, <1>6, <2>2
<1>9. b = n \/ ~IsWord(text[b + 1])
  <2> SUFFICES ASSUME b # n, IsWord(text[b + 1]) PROVE FALSE
    OBVIOUS
  <2>1. b + 1 \in x .. n /\ \A y \in x .. b + 1 : y = b + 1 \/ y \in x .. b
    BY <1>1, <1>6
  <2>2. b + 1 \in B
    BY <2>1
  <2> QED
    BY <1>5, <1>6, <2>2
<1>10. WordFrom(text, a, b)
  <2> HIDE DEF A, B
  <2>1. a \in DOMAIN text /\ b \in DOMAIN text /\ a <= b
    BY <1>1, <1>6
  <2>2. b = Len(text) \/ ~IsWord(text[b + 1])
    BY <1>9 DEF n
  <2> QED
    BY <1>7, <1>8, <2>1, <2>2, Zenon DEF WordFrom
<1> HIDE DEF A, B
<1> QED
  BY <1>6, <1>10 DEF n

\* A word that a whole value shares a position with is a word of the value.
LEMMA WordInValue ==
  ASSUME NEW T, NEW text \in Seq(T), NEW value \in Seq(T), NEW k \in 1 .. Len(text),
         WholeWordAt(text, value, k), NEW a \in 1 .. Len(text), NEW b \in 1 .. Len(text),
         WordFrom(text, a, b), NEW x \in a .. b, k <= x, x < k + Len(value)
  PROVE  k <= a /\ b < k + Len(value) /\ SubSeq(text, a, b) \in Words(value)
<1> DEFINE n == Len(text)
           m == Len(value)
<1>1. n \in Nat /\ m \in Nat /\ k \in Nat /\ 1 <= k /\ a \in Nat /\ b \in Nat /\ 1 <= a /\ b <= n /\ x \in Nat
      /\ a <= x /\ x <= b /\ m > 0 /\ DOMAIN text = 1 .. n /\ DOMAIN value = 1 .. m
  OBVIOUS
<1>2. k + m - 1 <= n /\ \A t \in 1 .. m : text[k + t - 1] = value[t]
  <2>1. MatchesAt(text, value, k)
    BY DEF WholeWordAt
  <2> QED
    BY <2>1, MatchesBySymbol
<1>3. /\ IsWord(value[1]) /\ k > 1 => ~IsWord(text[k - 1])
      /\ IsWord(value[m]) /\ k + m <= n => ~IsWord(text[k + m])
  <2>1. Head(value) = value[1] /\ Last(value) = value[m]
    BY <1>1 DEF Last
  <2> QED
    BY <2>1 DEF WholeWordAt
<1>4. value[1] = text[k] /\ value[m] = text[k + m - 1]
  <2>1. 1 \in 1 .. m /\ m \in 1 .. m /\ k + 1 - 1 = k
    BY <1>1
  <2> QED
    BY <1>2, <2>1
<1>5. /\ \A y \in a .. b : IsWord(text[y])
      /\ a = 1 \/ ~IsWord(text[a - 1])
      /\ b = n \/ ~IsWord(text[b + 1])
  BY DEF WordFrom
<1> HIDE DEF n, m
<1>6. k <= a
  <2> SUFFICES ASSUME a < k PROVE FALSE
    BY <1>1
  <2>1. k \in a .. b /\ k - 1 \in a .. b /\ k > 1
    BY <1>1 DEF m
  <2> QED
    BY <1>3, <1>4, <1>5, <2>1
<1>7. b < k + m
  <2> SUFFICES ASSUME b >= k + m PROVE FALSE
    BY <1>1
  <2>1. k + m - 1 \in a .. b /\ k + m \in a .. b /\ k + m <= n
    BY <1>1 DEF m
  <2> QED
    BY <1>3, <1>4, <1>5, <2>1
<1> DEFINE c == a - k + 1
           d == b - k + 1
<1>8. c \in 1 .. m /\ d \in 1 .. m /\ c <= d /\ \A t \in c .. d : t \in 1 .. m /\ k + t - 1 \in a .. b
  BY <1>1, <1>6, <1>7
<1>9. c = 1 \/ ~IsWord(value[c - 1])
  <2> SUFFICES ASSUME c # 1 PROVE ~IsWord(value[c - 1])
    OBVIOUS
  <2>1. c - 1 \in 1 .. m /\ k + (c - 1) - 1 = a - 1 /\ a # 1
    BY <1>1, <1>6, <1>8
  <2> QED
    BY <1>2, <1>5, <2>1
<1>10. d = m \/ ~IsWord(value[d + 1])
  <2> SUFFICES ASSUME d # m PROVE ~IsWord(value[d + 1])
    OBVIOUS
  <2>1. k + m - 1 <= n /\ d \in 1 .. m
    BY <1>2, <1>8
  <2>2. d + 1 \in 1 .. m /\ k + (d + 1) - 1 = b + 1 /\ b # n
    BY <1>1, <2>1
  <2> QED
    BY <1>2, <1>5, <2>2
<1>11. WordFrom(value, c, d)
  <2>1. \A t \in c .. d : IsWord(value[t])
    BY <1>2, <1>5, <1>8
  <2> HIDE DEF c, d
  <2> QED
    BY <1>1, <1>8, <1>9, <1>10, <2>1 DEF WordFrom, m
<1>12. SubSeq(value, c, d) = SubSeq(text, a, b)
  <2> DEFINE v == SubSeq(value, c, d)
             w == SubSeq(text, a, b)
             l == b - a + 1
  <2>1. l \in Nat /\ d - c + 1 = l
    BY <1>1
  <2>2. v \in Seq(T) /\ Len(v) = l /\ \A t \in 1 .. l : v[t] = value[c + t - 1]
    <3>1. \A t \in c .. d : value[t] \in T
      BY <1>1, <1>8
    <3> HIDE DEF c, d
    <3> QED
      BY <1>8, <2>1, <3>1, SubSeqProperties
  <2>3. w \in Seq(T) /\ Len(w) = l /\ \A t \in 1 .. l : w[t] = text[a + t - 1]
    <3>1. \A t \in a .. b : text[t] \in T
      BY <1>1
    <3> QED
      BY <1>1, <2>1, <3>1, SubSeqProperties
  <2>4. \A t \in 1 .. l : c + t - 1 \in 1 .. m /\ k + (c + t - 1) - 1 = a + t - 1
    BY <1>1, <1>8
  <2>5. \A t \in 1 .. l : v[t] = w[t]
    BY <1>2, <2>2, <2>3, <2>4
  <2> HIDE DEF v, w, l, c, d
  <2>6. v = w
    BY <2>1, <2>2, <2>3, <2>5
  <2> QED
    BY <2>6 DEF v, w
<1>13. SubSeq(value, c, d) \in Words(value)
  <2> HIDE DEF c, d
  <2> QED
    BY <1>1, <1>8, <1>11, WordsAre
<1> QED
  BY <1>6, <1>7, <1>12, <1>13 DEF m

\* A text without words has no word symbols.
LEMMA NoWords ==
  ASSUME NEW T, NEW text \in Seq(T)
  PROVE  Words(text) = {} <=> \A x \in 1 .. Len(text) : ~IsWord(text[x])
<1>1. ASSUME NEW x \in 1 .. Len(text), IsWord(text[x]) PROVE Words(text) # {}
  <2>1. PICK a, b \in 1 .. Len(text) : WordFrom(text, a, b) /\ a <= x /\ x <= b
    BY <1>1, WordAround
  <2>2. a \in DOMAIN text /\ b \in DOMAIN text
    BY <2>1 DEF WordFrom
  <2>3. SubSeq(text, a, b) \in Words(text)
    BY <2>1, <2>2, WordsAre
  <2> QED
    BY <2>3
<1>2. ASSUME Words(text) # {} PROVE \E x \in 1 .. Len(text) : IsWord(text[x])
  <2>1. PICK w : w \in Words(text)
    BY <1>2
  <2>2. PICK a, b \in DOMAIN text : WordFrom(text, a, b)
    BY <2>1, WordsAre
  <2>3. a \in a .. b /\ a \in 1 .. Len(text)
    BY <2>2 DEF WordFrom
  <2> QED
    BY <2>2, <2>3 DEF WordFrom
<1> QED
  BY <1>1, <1>2

-------------------------------------------------------------------------------
(* A name in plain sight *)

\* No word borders on the name.
Alone(text, name, i) ==
  /\ MatchesAt(text, name, i)
  /\ i > 1 => ~IsWord(text[i - 1])
  /\ i + Len(name) <= Len(text) => ~IsWord(text[i + Len(name)])

\* A name that begins and ends with a word symbol.
Worded(name) == name # <<>> /\ IsWord(Head(name)) /\ IsWord(Last(name))

\* What stands alone shares no position with a value it shares no word with.
LEMMA AloneIsApart ==
  ASSUME NEW T, NEW text \in Seq(T), NEW name \in Seq(T), Worded(name),
         NEW j \in 1 .. Len(text), Alone(text, name, j),
         NEW value \in Seq(T), Words(value) # {}, Words(value) \cap Words(name) = {},
         NEW k \in 1 .. Len(text), WholeWordAt(text, value, k)
  PROVE  k + Len(value) <= j \/ j + Len(name) <= k
<1> DEFINE n == Len(text)
           m == Len(value)
           l == Len(name)
<1> SUFFICES ASSUME k + m > j, j + l > k PROVE FALSE
  OBVIOUS
<1>1. n \in Nat /\ m \in Nat /\ l \in Nat /\ k \in Nat /\ 1 <= k /\ j \in Nat /\ 1 <= j
  OBVIOUS
<1>9. l > 0
  BY DEF Worded
<1>10. m > 0
  <2>1. \E x \in 1 .. Len(value) : IsWord(value[x])
    BY NoWords
  <2> QED
    BY <2>1
<1>2. WholeWordAt(text, name, j)
  BY DEF Alone, WholeWordAt
<1>3. j + l - 1 <= n /\ \A t \in 1 .. l : text[j + t - 1] = name[t]
  BY <1>2, MatchesBySymbol DEF WholeWordAt
<1>4. k + m - 1 <= n /\ \A t \in 1 .. m : text[k + t - 1] = value[t]
  <2>1. MatchesAt(text, value, k)
    BY DEF WholeWordAt
  <2> QED
    BY <2>1, MatchesBySymbol
<1>5. IsWord(text[j]) /\ IsWord(text[j + l - 1])
  <2>1. Head(name) = name[1] /\ Last(name) = name[l] /\ 1 \in 1 .. l /\ l \in 1 .. l /\ j + 1 - 1 = j
    BY <1>1, <1>9 DEF Last
  <2> HIDE DEF l
  <2> QED
    BY <1>3, <2>1 DEF Worded
<1> HIDE DEF n, m, l
<1>6. ASSUME NEW x \in 1 .. n, k <= x, x < k + m, j <= x, x < j + l PROVE ~IsWord(text[x])
  <2> SUFFICES ASSUME IsWord(text[x]) PROVE FALSE
    OBVIOUS
  <2>1. PICK a, b \in 1 .. n : WordFrom(text, a, b) /\ a <= x /\ x <= b
    BY WordAround DEF n
  <2>2. x \in a .. b
    BY <2>1
  <2>3. SubSeq(text, a, b) \in Words(value)
    BY <1>6, <2>1, <2>2, WordInValue DEF n, m
  <2>4. SubSeq(text, a, b) \in Words(name)
    BY <1>2, <1>6, <2>1, <2>2, WordInValue DEF n, l
  <2> QED
    BY <2>3, <2>4
<1>7. k > j /\ k + m - 1 < j + l - 1
  <2>1. k > j
    <3> SUFFICES ASSUME k <= j PROVE FALSE
      BY <1>1
    <3>1. j \in 1 .. n /\ k <= j /\ j < k + m /\ j < j + l
      BY <1>1, <1>9 DEF n, m
    <3> QED
      BY <1>5, <1>6, <3>1
  <2>2. k + m - 1 < j + l - 1
    <3> SUFFICES ASSUME k + m - 1 >= j + l - 1 PROVE FALSE
      BY <1>1
    <3>1. j + l - 1 \in 1 .. n /\ k <= j + l - 1 /\ j + l - 1 < k + m /\ j <= j + l - 1 /\ j + l - 1 < j + l
      BY <1>1, <1>3, <1>9, <1>10
    <3> QED
      BY <1>5, <1>6, <3>1
  <2> QED
    BY <2>1, <2>2
<1>8. ASSUME NEW t \in 1 .. m PROVE ~IsWord(value[t])
  <2>1. k + t - 1 \in 1 .. n /\ k <= k + t - 1 /\ k + t - 1 < k + m /\ j <= k + t - 1 /\ k + t - 1 < j + l
    BY <1>1, <1>4, <1>7
  <2>2. ~IsWord(text[k + t - 1])
    BY <1>6, <2>1
  <2> QED
    BY <1>4, <2>2
<1> QED
  BY <1>8, NoWords DEF m

\* Replacing such a value leaves what stands alone where it can be seen.
LEMMA AloneStays ==
  ASSUME NEW T, NEW raw \in Seq(T), NEW cur \in Seq(T), NEW o, NEW kinds,
         NEW value \in Seq(T), Traced(raw, 1, cur, o, {value}, kinds),
         NEW name \in Seq(T), Worded(name), NEW j \in 1 .. Len(raw), Alone(raw, name, j),
         Words(value) # {}, Words(value) \cap Words(name) = {}
  PROVE  \E p \in 1 .. Len(cur) : Alone(cur, name, p)
<1> DEFINE n == Len(raw)
           l == Len(name)
<1>1. n \in Nat /\ l \in Nat /\ j \in Nat /\ 1 <= j /\ j <= n /\ l > 0
  BY DEF Worded
<1>2. j + l - 1 <= n /\ \A t \in 1 .. l : raw[j + t - 1] = name[t]
  <2>1. MatchesAt(raw, name, j)
    BY DEF Alone
  <2> QED
    BY <2>1, MatchesBySymbol
<1>3. ASSUME NEW x \in j .. j + l - 1 PROVE ~Lost(o, x)
  <2> SUFFICES ASSUME Lost(o, x) PROVE FALSE
    OBVIOUS
  <2>1. x \in 1 .. n
    BY <1>1, <1>2
  <2>2. PICK k \in 1 .. n : WholeWordAt(raw, value, k) /\ k <= x /\ x < k + Len(value)
    BY <2>1 DEF Traced, Replaced
  <2>3. k + Len(value) <= j \/ j + l <= k
    BY <2>2, AloneIsApart
  <2>4. Len(value) \in Nat
    OBVIOUS
  <2> QED
    BY <1>1, <2>2, <2>3, <2>4
<1>4. PICK p \in 1 .. Len(cur) :
        /\ p + l - 1 <= Len(cur)
        /\ \A t \in 1 .. l : cur[p + t - 1] = raw[j + t - 1]
        /\ p > 1 => cur[p - 1] = "]" \/ (j > 1 /\ cur[p - 1] = raw[j - 1])
        /\ p + l <= Len(cur) => cur[p + l] = "[" \/ (j + l <= Len(raw) /\ cur[p + l] = raw[j + l])
  <2>1. l \in Nat /\ l > 0 /\ j + l - 1 <= Len(raw)
    BY <1>1, <1>2
  <2> HIDE DEF l
  <2>3. \A x \in j .. j + l - 1 : ~Lost(o, x)
    BY <1>3
  <2>2. \E p \in 1 .. Len(cur) : KeptAt(raw, cur, o, j, l, p)
    BY <2>1, <2>3, KeptTogether
  <2> QED
    BY <2>2 DEF KeptAt
<1>5. MatchesAt(cur, name, p)
  BY <1>2, <1>4, MatchesBySymbol
<1>6. ~IsWord("[") /\ ~IsWord("]")
  BY DEF IsWord, Marks
<1> QED
  BY <1>4, <1>5, <1>6 DEF Alone

-------------------------------------------------------------------------------
(* Redaction *)

\* Values to be replaced, and the kinds in whose tokens' names they are.
Replaceable(spans, n, T) ==
  /\ DOMAIN spans = 1 .. n
  /\ \A i \in 1 .. n : spans[i].kind \in T /\ spans[i].text \in Seq(T) /\ spans[i].text # <<>>

\* A list of all spans, the longest values first.
Longest(order, spans, n) ==
  /\ DOMAIN order = 1 .. n /\ \A i \in 1 .. n : order[i] \in 1 .. n
  /\ \A x \in 1 .. n : \E i \in 1 .. n : order[i] = x
  /\ \A i, j \in 1 .. n : i < j => Len(spans[order[i]].text) >= Len(spans[order[j]].text)

\* LongestFirst lists the spans so.
LEMMA LongestFirstIsOrder ==
  ASSUME NEW T, NEW n \in Nat, NEW spans, Replaceable(spans, n, T)
  PROVE  Longest(LongestFirst(spans), spans, n)
<1> DEFINE S == 1 .. n
           Size(i) == Len(spans[i].text)
           Before(i, j) == Size(i) > Size(j) \/ (Size(i) = Size(j) /\ i < j)
           precedes == {p \in S \X S : Before(p[1], p[2])}
           Ordered(s) == \A k, l \in DOMAIN s : k < l => Before(s[k], s[l])
           order == CHOOSE s \in SetToSeqs(DOMAIN spans) : Ordered(s)
<1>1. DOMAIN spans = S /\ \A i \in S : Size(i) \in Nat
  BY DEF Replaceable
<1>2. order = LongestFirst(spans)
  BY DEF LongestFirst
<1>3. IsFiniteSet(S) /\ Cardinality(S) = n
  BY FS_Interval
<1>4. \A i \in S : i \in Nat
  OBVIOUS
<1>5. \A i, j \in S : <<i, j>> \in precedes <=> Before(i, j)
  OBVIOUS
<1> HIDE DEF precedes, Size, S
<1>6. Orders(precedes, S)
  BY <1>1, <1>4, <1>5 DEF Orders
<1>7. \E s \in SetToSeqs(S) : Ordered(s)
  <2>1. PICK s \in SetToSeqs(S) : \A i, j \in DOMAIN s : i < j => <<s[i], s[j]>> \in precedes
    BY <1>3, <1>6, ListedBy
  <2>2. \A i \in DOMAIN s : s[i] \in S
    BY DEF SetToSeqs
  <2>3. Ordered(s)
    BY <1>5, <2>1, <2>2
  <2> QED
    BY <2>3
<1>8. order \in SetToSeqs(S) /\ Ordered(order)
  <2> HIDE DEF Ordered
  <2> QED
    BY <1>1, <1>7
<1> HIDE DEF order
<1>9. /\ DOMAIN order = 1 .. n /\ order \in Seq(S)
      /\ \A x \in S : \E i \in DOMAIN order : order[i] = x
  BY <1>3, <1>8, Listed
<1>13. \A i \in 1 .. n : order[i] \in S
  <2>1. \A i \in DOMAIN order : order[i] \in S
    BY <1>8 DEF SetToSeqs
  <2> QED
    BY <1>9, <2>1
<1>10. ASSUME NEW i \in 1 .. n, NEW j \in 1 .. n, i < j PROVE Size(order[i]) >= Size(order[j])
  <2>1. order[i] \in S /\ order[j] \in S
    BY <1>13
  <2>2. Size(order[i]) \in Nat /\ Size(order[j]) \in Nat
    BY <1>1, <2>1
  <2>3. i \in DOMAIN order /\ j \in DOMAIN order
    BY <1>9
  <2>4. Before(order[i], order[j])
    BY <1>8, <1>10, <2>3
  <2> HIDE DEF Ordered
  <2> QED
    BY <2>2, <2>4
<1>11. \A x \in 1 .. n : \E i \in 1 .. n : order[i] = x
  BY <1>9 DEF S
<1>12. Longest(order, spans, n)
  BY <1>9, <1>10, <1>11, <1>13 DEF Longest, S, Size
<1> QED
  BY <1>2, <1>12

\* Redaction of one more value.
Replacing(text, span) ==
  IF Strip(span.text) = <<>> THEN text ELSE Substituted(text, span.text, Token(span.kind))

\* Redacted, one value after the other.
RedactedRun(f, T, text, spans, n) ==
  /\ f \in [0 .. n -> Seq(T)]
  /\ f[0] = text /\ f[n] = Redacted(text, spans)
  /\ \A k \in 1 .. n : f[k] = Replacing(f[k - 1], spans[LongestFirst(spans)[k]])

\* RedactedCV.redacted is a run over the values.
LEMMA RedactedRuns ==
  ASSUME NEW T, {"[", "]"} \subseteq T, NEW text \in Seq(T), NEW n \in Nat, NEW spans,
         Replaceable(spans, n, T)
  PROVE  \E f : RedactedRun(f, T, text, spans, n)
<1> DEFINE A == Seq(T)
           base == text
           order == LongestFirst(spans)
           Step(done, next) == Replacing(done, spans[next])
           o == [p \in A \X (1 .. n) |-> Step(p[1], order[p[2]])]
           Iterates(g) == g = [s \in SUBSET (1 .. n) |-> IF s = {} THEN base
                                 ELSE Step(g[s \ {Max(s)}], order[Max(s)])]
           it == CHOOSE g : Iterates(g)
           f == [k \in 0 .. n |-> it[1 .. k]]
<1>1. base \in A
  OBVIOUS
<1>12. DOMAIN order = 1 .. n /\ \A i \in 1 .. n : order[i] \in 1 .. n
  <2> HIDE DEF order
  <2>1. Longest(order, spans, n)
    BY LongestFirstIsOrder DEF order
  <2> QED
    BY <2>1 DEF Longest
<1>2. \A a \in A, i \in 1 .. n : Step(a, order[i]) \in A
  <2> SUFFICES ASSUME NEW a \in A, NEW i \in 1 .. n PROVE Step(a, order[i]) \in A
    OBVIOUS
  <2> DEFINE span == spans[order[i]]
  <2> HIDE DEF order
  <2>1. span.kind \in T /\ span.text \in Seq(T) /\ span.text # <<>>
    BY <1>12 DEF Replaceable
  <2> HIDE DEF span
  <2>2. Substituted(a, span.text, Token(span.kind)) \in Seq(T)
    BY <2>1, SubstitutedIsTraced
  <2>3. Replacing(a, span) \in Seq(T)
    BY <2>2 DEF Replacing
  <2> QED
    BY <2>3 DEF span
<1>3. Redacted(text, spans) = it[1 .. n]
  BY <1>12 DEF Redacted, FoldLeft, MapThenFoldSet, Replacing
<1> HIDE DEF A, base, Step, order
<1>4. o \in FoldSteps(A, n)
      /\ \A a \in A, i \in 1 .. n : o[<<a, i>>] = Step(a, order[i])
  BY <1>2 DEF FoldSteps
<1> HIDE DEF o, it, f
<1>5. PICK g : IsFold(g, A, base, n, o)
  BY <1>1, <1>4, FoldExists
<1>6. Iterates(it)
  <2>1. \A s \in SUBSET (1 .. n) : s # {} => g[s \ {Max(s)}] \in A /\ Max(s) \in 1 .. n
    BY <1>5, FoldValues
  <2>2. Iterates(g)
    BY <1>4, <1>5, <2>1 DEF IsFold
  <2> HIDE DEF Iterates
  <2> QED
    BY <2>2 DEF it
<1>7. /\ it[{}] = base
      /\ \A s \in SUBSET (1 .. n) :
           s # {} /\ it[s \ {Max(s)}] \in A => it[s] = o[<<it[s \ {Max(s)}], Max(s)>>]
  BY <1>4, <1>6, MaxOfRange
<1> HIDE DEF Iterates
<1>8. IsRun(f, A, base, n, o)
  BY <1>1, <1>4, <1>7, FoldRuns DEF f
<1>9. f \in [0 .. n -> A] /\ f[0] = base /\ f[n] = Redacted(text, spans)
  BY <1>3, <1>8 DEF f, IsRun
<1>10. ASSUME NEW k \in 1 .. n PROVE f[k] = Step(f[k - 1], order[k])
  <2>1. k - 1 \in 0 .. n /\ f[k] = o[<<f[k - 1], k>>]
    BY <1>8 DEF IsRun
  <2> QED
    BY <1>4, <1>9, <2>1
<1> QED
  BY <1>9, <1>10 DEF A, base, Step, order, RedactedRun

\* A name that stands alone in a text, and shares no word with a value, stands alone
\* in the redacted text.
LEMMA AloneInRedacted ==
  ASSUME NEW T, {"[", "]"} \subseteq T, NEW text \in Seq(T), NEW n \in Nat, NEW spans,
         Replaceable(spans, n, T), NEW name \in Seq(T), Worded(name),
         NEW j \in 1 .. Len(text), Alone(text, name, j),
         \A i \in 1 .. n : Words(spans[i].text) # {} /\ Words(spans[i].text) \cap Words(name) = {}
  PROVE  \E p \in 1 .. Len(Redacted(text, spans)) : Alone(Redacted(text, spans), name, p)
<1>1. PICK f : RedactedRun(f, T, text, spans, n)
  BY RedactedRuns
<1>2. Longest(LongestFirst(spans), spans, n)
  BY LongestFirstIsOrder
<1> DEFINE Stays(cur) == \E p \in 1 .. Len(cur) : Alone(cur, name, p)
           G == {k \in 0 .. n : Stays(f[k])}
<1>3. 0 \in G
  BY <1>1 DEF RedactedRun
<1>4. ASSUME NEW k \in 1 .. n, k - 1 \in G PROVE k \in G
  <2> DEFINE cur == f[k - 1]
             i == LongestFirst(spans)[k]
             value == spans[i].text
             kind == spans[i].kind
             after == Substituted(cur, value, Token(kind))
  <2>1. k - 1 \in 0 .. n
    OBVIOUS
  <2>2. cur \in Seq(T) /\ f[k] = Replacing(cur, spans[i])
    BY <1>1, <2>1 DEF RedactedRun
  <2>3. i \in 1 .. n
    BY <1>2 DEF Longest
  <2>4. kind \in T /\ value \in Seq(T) /\ value # <<>>
        /\ Words(value) # {} /\ Words(value) \cap Words(name) = {}
    BY <2>3 DEF Replaceable
  <2>5. PICK p \in 1 .. Len(cur) : Alone(cur, name, p)
    BY <1>4
  <2>6. f[k] = cur \/ f[k] = after
    BY <2>2 DEF Replacing
  <2> HIDE DEF cur, i, value, kind, after
  <2>7. after \in Seq(T) /\ \E o : Traced(cur, 1, after, o, {value}, {kind})
    BY <2>2, <2>4, SubstitutedIsTraced DEF after
  <2>8. Stays(after)
    BY <2>2, <2>4, <2>5, <2>7, AloneStays
  <2>9. Stays(f[k])
    BY <2>5, <2>6, <2>8
  <2> QED
    BY <2>9
<1>5. n \in G
  <2> HIDE DEF G
  <2>1. 0 .. n \subseteq G
    BY <1>3, <1>4, IntervalInduction
  <2>2. n \in 0 .. n
    OBVIOUS
  <2> QED
    BY <2>1, <2>2
<1>6. f[n] = Redacted(text, spans)
  BY <1>1 DEF RedactedRun
<1> QED
  BY <1>5, <1>6

-------------------------------------------------------------------------------
(* What a redaction leaves *)

\* Where symbols come from, as numbers.
LEMMA SourcesAre ==
  ASSUME NEW T, NEW raw \in Seq(T), NEW cur \in Seq(T), NEW o, Sources(raw, 1, cur, o)
  PROVE  /\ DOMAIN o = 1 .. Len(cur)
         /\ \A p \in 1 .. Len(cur) : o[p] = 0 \/ (o[p] \in 1 .. Len(raw) /\ cur[p] = raw[o[p]])
         /\ \A p, q \in 1 .. Len(cur) : o[p] # 0 /\ o[p] = o[q] => p = q
<1> DEFINE n == Len(raw)
           L == Len(cur)
<1>1. n \in Nat /\ L \in Nat
  OBVIOUS
<1> HIDE DEF n, L
<1>2. /\ o \in [1 .. L -> {0} \cup 1 .. n]
      /\ \A p \in 1 .. L : o[p] # 0 => cur[p] = raw[o[p]]
      /\ \A p, q \in 1 .. L : p < q /\ o[p] # 0 /\ o[q] # 0 => o[p] < o[q]
  BY DEF Sources, n, L
<1>3. ASSUME NEW p \in 1 .. L PROVE o[p] = 0 \/ (o[p] \in 1 .. n /\ cur[p] = raw[o[p]])
  <2>1. o[p] \in {0} \cup 1 .. n
    BY <1>2
  <2> QED
    BY <1>2, <2>1
<1>4. ASSUME NEW p \in 1 .. L, NEW q \in 1 .. L, o[p] # 0, o[p] = o[q] PROVE p = q
  <2>1. o[p] \in 1 .. n /\ o[q] \in 1 .. n
    BY <1>3, <1>4
  <2>2. ~(p < q) /\ ~(q < p)
    BY <1>1, <1>2, <1>4, <2>1
  <2> QED
    BY <1>1, <2>2
<1> QED
  BY <1>2, <1>3, <1>4 DEF n, L

\* A part of a text without brackets, of which one symbol was in the text before, was
\* there as a whole.
LEMMA Unbroken ==
  ASSUME NEW T, NEW raw \in Seq(T), NEW cur \in Seq(T), NEW o,
         Sources(raw, 1, cur, o), Onward(raw, cur, o), Backward(1, cur, o),
         NEW a \in 1 .. Len(cur), NEW b \in 1 .. Len(cur), NEW r \in a .. b, o[r] # 0,
         \A y \in a .. b : cur[y] \notin {"[", "]"}
  PROVE  \A y \in a .. b : o[y] # 0 /\ o[y] = o[r] + (y - r)
<1> DEFINE n == Len(raw)
           L == Len(cur)
           U == {t \in 0 .. b - r : o[r + t] # 0 /\ o[r + t] = o[r] + t}
           D == {t \in 0 .. r - a : o[r - t] # 0 /\ o[r - t] = o[r] - t}
<1>1. n \in Nat /\ L \in Nat /\ a \in Nat /\ b \in Nat /\ r \in Nat /\ 1 <= a /\ a <= r /\ r <= b /\ b <= L
  OBVIOUS
<1>2. o[r] \in Nat
  BY <1>1, SourcesAre
<1> HIDE DEF n, L
<1>3. 0 \in U /\ 0 \in D
  BY <1>1, <1>2
<1>4. ASSUME NEW t \in 1 .. b - r, t - 1 \in U PROVE t \in U
  <2> DEFINE p == r + (t - 1)
  <2>1. p \in 1 .. L /\ p < L /\ p + 1 = r + t /\ r + t \in a .. b /\ t \in 0 .. b - r
    BY <1>1
  <2>2. o[p] # 0 /\ o[p] = o[r] + (t - 1)
    BY <1>4
  <2> HIDE DEF p
  <2>3. o[r + t] # 0 /\ o[r + t] = o[p] + 1
    BY <2>1, <2>2 DEF Onward, L
  <2> QED
    BY <1>2, <2>1, <2>2, <2>3
<1>5. ASSUME NEW t \in 1 .. r - a, t - 1 \in D PROVE t \in D
  <2> DEFINE p == r - (t - 1)
  <2>1. p \in 1 .. L /\ p > 1 /\ p - 1 = r - t /\ r - t \in a .. b /\ t \in 0 .. r - a
    BY <1>1
  <2>2. o[p] # 0 /\ o[p] = o[r] - (t - 1)
    BY <1>5
  <2> HIDE DEF p
  <2>3. o[r - t] # 0 /\ o[r - t] = o[p] - 1
    BY <2>1, <2>2 DEF Backward, L
  <2> QED
    BY <1>2, <2>1, <2>2, <2>3
<1>6. 0 .. b - r \subseteq U /\ 0 .. r - a \subseteq D
  <2>1. b - r \in Nat /\ r - a \in Nat
    BY <1>1
  <2> HIDE DEF U, D
  <2> QED
    BY <1>3, <1>4, <1>5, <2>1, IntervalInduction
<1> TAKE y \in a .. b
<1>7. CASE y >= r
  <2>1. y - r \in 0 .. b - r /\ r + (y - r) = y
    BY <1>1, <1>7
  <2> QED
    BY <1>6, <2>1
<1>8. CASE y < r
  <2>1. r - y \in 0 .. r - a /\ r - (r - y) = y
    BY <1>1, <1>8
  <2>2. o[y] # 0 /\ o[y] = o[r] - (r - y)
    BY <1>6, <2>1
  <2> QED
    BY <1>1, <1>2, <2>2
<1> QED
  BY <1>1, <1>7, <1>8

\* Values are texts.
AreValues(values, T) == \A value \in values : value \in Seq(T) /\ value # <<>>

\* Between what is lost and what is not, no word is cut.
LEMMA NoWordIsCut ==
  ASSUME NEW T, NEW raw \in Seq(T), NEW o, NEW values, AreValues(values, T),
         Replaced(raw, 1, o, values),
         NEW x \in 1 .. Len(raw), NEW z \in 1 .. Len(raw), z = x + 1 \/ z = x - 1,
         Lost(o, x), ~Lost(o, z)
  PROVE  ~(IsWord(raw[x]) /\ IsWord(raw[z]))
<1> DEFINE n == Len(raw)
<1>1. n \in Nat
  OBVIOUS
<1>2. PICK value \in values, k \in 1 .. n :
        /\ WholeWordAt(raw, value, k)
        /\ k <= x /\ x < k + Len(value)
        /\ \A y \in k .. k + Len(value) - 1 : Lost(o, y)
  BY DEF Replaced
<1> DEFINE m == Len(value)
<1>3. value \in Seq(T) /\ m \in Nat /\ m > 0
  BY DEF AreValues
<1>4. z \notin k .. k + m - 1
  BY <1>2
<1>5. /\ k + m - 1 <= n /\ \A t \in 1 .. m : raw[k + t - 1] = value[t]
      /\ IsWord(Head(value)) /\ k > 1 => ~IsWord(raw[k - 1])
      /\ IsWord(Last(value)) /\ k + m <= n => ~IsWord(raw[k + m])
  <2>1. MatchesAt(raw, value, k)
    BY <1>2 DEF WholeWordAt
  <2> QED
    BY <1>2, <1>3, <2>1, MatchesBySymbol DEF WholeWordAt
<1>6. Head(value) = value[1] /\ Last(value) = value[m] /\ 1 \in 1 .. m /\ m \in 1 .. m
  BY <1>3 DEF Last
<1>9. k \in 1 .. n /\ k <= x /\ x < k + m
  BY <1>2
<1> HIDE DEF m
<1>7. CASE z = x + 1
  <2>1. z = k + m /\ x = k + m - 1 /\ k + m <= n
    BY <1>1, <1>3, <1>4, <1>7, <1>9
  <2> QED
    BY <1>5, <1>6, <2>1
<1>8. CASE z = x - 1
  <2>1. x = k /\ z = k - 1 /\ k > 1 /\ k + 1 - 1 = k
    BY <1>1, <1>3, <1>4, <1>8, <1>9
  <2> QED
    BY <1>5, <1>6, <2>1
<1> QED
  BY <1>7, <1>8

\* Values without brackets.
Unbracketed(value) == \A t \in 1 .. Len(value) : value[t] \notin {"[", "]"}

\* What is found among symbols that were in the text before was found there.
LEMMA FoundBefore ==
  ASSUME NEW T, NEW raw \in Seq(T), NEW cur \in Seq(T), NEW o, NEW values, AreValues(values, T),
         NEW kinds, Traced(raw, 1, cur, o, values, kinds),
         NEW value \in Seq(T), value # <<>>, Unbracketed(value),
         NEW k \in 1 .. Len(cur), WholeWordAt(cur, value, k),
         NEW r \in k .. k + Len(value) - 1, o[r] # 0
  PROVE  /\ o[k] \in 1 .. Len(raw) /\ WholeWordAt(raw, value, o[k])
         /\ \A t \in 1 .. Len(value) : o[k + t - 1] # 0 /\ o[k + t - 1] = o[k] + t - 1
<1> DEFINE n == Len(raw)
           L == Len(cur)
           m == Len(value)
           b == k + m - 1
           j == o[k]
<1>1. n \in Nat /\ L \in Nat /\ k \in Nat /\ 1 <= k /\ k <= L /\ m \in Nat /\ m > 0
  OBVIOUS
<1>2. b <= L /\ \A t \in 1 .. m : cur[k + t - 1] = value[t]
  <2>1. MatchesAt(cur, value, k)
    BY DEF WholeWordAt
  <2> QED
    BY <2>1, MatchesBySymbol
<1>3. Sources(raw, 1, cur, o) /\ Onward(raw, cur, o) /\ Backward(1, cur, o) /\ Replaced(raw, 1, o, values)
  BY DEF Traced
<1>4. /\ DOMAIN o = 1 .. L
      /\ \A p \in 1 .. L : o[p] = 0 \/ (o[p] \in 1 .. n /\ cur[p] = raw[o[p]])
  BY <1>3, SourcesAre
<1>5. Head(value) = value[1] /\ Last(value) = value[m]
  BY <1>1 DEF Last
<1>6. /\ IsWord(value[1]) /\ k > 1 => ~IsWord(cur[k - 1])
      /\ IsWord(value[m]) /\ k + m <= L => ~IsWord(cur[k + m])
  BY <1>5 DEF WholeWordAt
<1> HIDE DEF n, L, m, b, j
<1>7. b \in 1 .. L /\ k \in k .. b /\ r \in k .. b /\ b \in k .. b
  BY <1>1, <1>2 DEF b, m
<1>8. \A y \in k .. b : cur[y] \notin {"[", "]"}
  <2> TAKE y \in k .. b
  <2>1. y - k + 1 \in 1 .. m /\ k + (y - k + 1) - 1 = y
    BY <1>1 DEF b
  <2> QED
    BY <1>2, <2>1 DEF m, Unbracketed
<1>9. \A y \in k .. b : o[y] # 0 /\ o[y] = o[r] + (y - r)
  BY <1>3, <1>7, <1>8, Unbroken DEF L
<1>10. o[r] \in Nat /\ r \in Nat
  BY <1>1, <1>4, <1>7, <1>9
<1>11. j \in 1 .. n /\ \A y \in k .. b : o[y] # 0 /\ o[y] = j + (y - k)
  <2>1. j = o[r] + (k - r) /\ j # 0
    BY <1>7, <1>9 DEF j
  <2>2. j \in 1 .. n
    BY <1>1, <1>4, <2>1 DEF j
  <2>3. ASSUME NEW y \in k .. b PROVE o[y] # 0 /\ o[y] = j + (y - k)
    BY <1>1, <1>7, <1>9, <1>10, <2>1
  <2> QED
    BY <2>2, <2>3
<1>12. \A t \in 1 .. m : /\ k + t - 1 \in k .. b /\ k + t - 1 \in 1 .. L
                        /\ o[k + t - 1] # 0 /\ o[k + t - 1] = j + t - 1
  <2> TAKE t \in 1 .. m
  <2>1. k + t - 1 \in k .. b /\ k + t - 1 \in 1 .. L /\ (k + t - 1) - k = t - 1
    BY <1>1, <1>7 DEF b
  <2>2. j + (t - 1) = j + t - 1
    BY <1>11
  <2> QED
    BY <1>11, <2>1, <2>2
<1>13. j + m - 1 <= n /\ \A t \in 1 .. m : raw[j + t - 1] = value[t]
  <2>1. m \in 1 .. m
    BY <1>1
  <2>2. o[k + m - 1] \in 1 .. n /\ o[k + m - 1] = j + m - 1
    BY <1>4, <1>12, <2>1
  <2>3. \A t \in 1 .. m : raw[j + t - 1] = value[t]
    BY <1>2, <1>4, <1>12
  <2> QED
    BY <1>1, <2>2, <2>3
<1>14. MatchesAt(raw, value, j)
  BY <1>11, <1>13, MatchesBySymbol DEF n, m
<1>15. raw[j] = value[1] /\ raw[j + m - 1] = value[m]
  <2>1. 1 \in 1 .. m /\ m \in 1 .. m /\ j + 1 - 1 = j
    BY <1>1, <1>11
  <2> QED
    BY <1>13, <2>1
<1>16. ~Lost(o, j) /\ ~Lost(o, j + m - 1)
  <2>1. 1 \in 1 .. m /\ m \in 1 .. m
    BY <1>1
  <2>2. o[k] = j /\ k \in DOMAIN o
    BY <1>1, <1>4 DEF j
  <2>3. k + m - 1 \in DOMAIN o /\ o[k + m - 1] = j + m - 1
    BY <1>4, <1>12, <2>1
  <2> QED
    BY <2>2, <2>3 DEF Lost
<1>17. ASSUME IsWord(value[1]), j > 1 PROVE ~IsWord(raw[j - 1])
  <2>1. CASE k > 1 /\ o[k - 1] # 0
    <3>1. o[k - 1] = j - 1 /\ k - 1 \in 1 .. L
      BY <1>1, <1>3, <1>7, <1>11, <2>1 DEF Backward, L, j
    <3>2. cur[k - 1] = raw[j - 1]
      BY <1>4, <2>1, <3>1
    <3> QED
      BY <1>6, <1>17, <2>1, <3>2
  <2>2. CASE ~(k > 1 /\ o[k - 1] # 0)
    <3>1. Lost(o, j - 1)
      BY <1>1, <1>3, <1>7, <1>11, <1>17, <2>2 DEF Backward, L, j
    <3>2. j - 1 \in 1 .. n /\ j = (j - 1) + 1
      BY <1>1, <1>11, <1>17
    <3> QED
      BY <1>3, <1>11, <1>15, <1>16, <1>17, <3>1, <3>2, NoWordIsCut DEF n
  <2> QED
    BY <2>1, <2>2
<1>18. ASSUME IsWord(value[m]), j + m <= n PROVE ~IsWord(raw[j + m])
  <2>3. k + m - 1 \in 1 .. L /\ o[k + m - 1] # 0 /\ o[k + m - 1] = j + m - 1 /\ (k + m - 1) + 1 = k + m
    /\ (j + m - 1) + 1 = j + m /\ j + m - 1 < n
    <3>1. m \in 1 .. m
      BY <1>1
    <3> QED
      BY <1>1, <1>11, <1>12, <1>18, <3>1
  <2>1. CASE k + m - 1 < L /\ o[k + m] # 0
    <3>5. k + m \in 1 .. L
      BY <1>1, <2>1
    <3>6. o[k + m] = o[k + m - 1] + 1
      BY <1>3, <2>1, <2>3 DEF Onward, L
    <3>1. o[k + m] = j + m /\ k + m \in 1 .. L
      BY <2>3, <3>5, <3>6
    <3>2. cur[k + m] = raw[o[k + m]]
      BY <1>4, <2>1, <3>1
    <3>3. k + m <= L
      BY <1>1, <3>1
    <3>4. cur[k + m] = raw[j + m]
      BY <3>1, <3>2
    <3> QED
      BY <1>6, <1>18, <3>3, <3>4
  <2>2. CASE ~(k + m - 1 < L /\ o[k + m] # 0)
    <3>1. Lost(o, j + m)
      BY <1>3, <2>2, <2>3 DEF Onward, L, n
    <3>2. j + m \in 1 .. n /\ j + m - 1 \in 1 .. n /\ j + m - 1 = (j + m) - 1
      BY <1>1, <1>11, <1>18
    <3> QED
      BY <1>3, <1>15, <1>16, <1>18, <3>1, <3>2, NoWordIsCut DEF n
  <2> QED
    BY <2>1, <2>2
<1>19. WholeWordAt(raw, value, j)
  BY <1>5, <1>14, <1>17, <1>18 DEF WholeWordAt, n, m
<1> QED
  BY <1>11, <1>12, <1>19 DEF j, m, n

\* Where the symbols of a text come from, over one more step.
After(o, u) == [p \in DOMAIN u |-> IF u[p] = 0 THEN 0 ELSE o[u[p]]]

\* What is traced to a text that is traced itself.
LEMMA TracedTwice ==
  ASSUME NEW T, NEW raw \in Seq(T), NEW cur \in Seq(T), NEW next \in Seq(T),
         NEW o, NEW u, NEW values, AreValues(values, T), NEW kinds, Traced(raw, 1, cur, o, values, kinds),
         NEW value \in Seq(T), value # <<>>, Unbracketed(value), NEW kind,
         Traced(cur, 1, next, u, {value}, {kind})
  PROVE  /\ Traced(raw, 1, next, After(o, u), values \cup {value}, kinds \cup {kind})
         /\ \A x \in 1 .. Len(raw) : Lost(o, x) => Lost(After(o, u), x)
         /\ \A p \in 1 .. Len(cur) : o[p] # 0 /\ Lost(u, p) => Lost(After(o, u), o[p])
<1> DEFINE n == Len(raw)
           L == Len(cur)
           M == Len(next)
           q == After(o, u)
<1>1. n \in Nat /\ L \in Nat /\ M \in Nat
  OBVIOUS
<1>2. /\ Sources(raw, 1, cur, o) /\ Onward(raw, cur, o) /\ Backward(1, cur, o)
      /\ InTokens(cur, o, kinds) /\ Replaced(raw, 1, o, values)
  BY DEF Traced
<1>3. /\ Sources(cur, 1, next, u) /\ Onward(cur, next, u) /\ Backward(1, next, u)
      /\ InTokens(next, u, {kind}) /\ Replaced(cur, 1, u, {value})
  BY DEF Traced
<1>4. /\ DOMAIN o = 1 .. L
      /\ \A p \in 1 .. L : o[p] = 0 \/ (o[p] \in 1 .. n /\ cur[p] = raw[o[p]])
      /\ \A p, r \in 1 .. L : o[p] # 0 /\ o[p] = o[r] => p = r
  BY <1>2, SourcesAre
<1>5. /\ DOMAIN u = 1 .. M
      /\ \A p \in 1 .. M : u[p] = 0 \/ (u[p] \in 1 .. L /\ next[p] = cur[u[p]])
  BY <1>3, SourcesAre
<1> HIDE DEF n, L, M
<1>6. DOMAIN q = 1 .. M /\ \A p \in 1 .. M : q[p] = IF u[p] = 0 THEN 0 ELSE o[u[p]]
  BY <1>5 DEF After
<1> HIDE DEF q
<1>7. \A p \in 1 .. M : q[p] # 0 => u[p] # 0 /\ u[p] \in 1 .. L /\ q[p] = o[u[p]] /\ next[p] = cur[u[p]]
                                    /\ q[p] \in 1 .. n /\ next[p] = raw[q[p]]
  BY <1>4, <1>5, <1>6
<1>8. ASSUME NEW x \in 1 .. n, Lost(o, x) PROVE Lost(q, x)
  <2> SUFFICES ASSUME NEW p \in 1 .. M, q[p] = x PROVE FALSE
    BY <1>6 DEF Lost
  <2>1. x # 0
    BY <1>1
  <2> QED
    BY <1>4, <1>7, <1>8, <2>1 DEF Lost
<1>9. ASSUME NEW r \in 1 .. L, o[r] # 0, Lost(u, r) PROVE Lost(q, o[r])
  <2> SUFFICES ASSUME NEW p \in 1 .. M, q[p] = o[r] PROVE FALSE
    BY <1>6 DEF Lost
  <2>1. u[p] = r
    BY <1>4, <1>7, <1>9
  <2> QED
    BY <1>5, <1>9, <2>1 DEF Lost
<1>10. ASSUME NEW x \in 1 .. n, Lost(q, x), ~Lost(o, x)
       PROVE  \E r \in 1 .. L : o[r] = x /\ Lost(u, r)
  <2>1. PICK r \in 1 .. L : o[r] = x
    BY <1>4, <1>10 DEF Lost
  <2>2. ASSUME NEW p \in 1 .. M, u[p] = r PROVE FALSE
    <3>1. r # 0
      BY <1>1
    <3>2. q[p] = x
      BY <1>6, <2>1, <2>2, <3>1
    <3> QED
      BY <1>6, <1>10, <3>2 DEF Lost
  <2> QED
    BY <1>5, <2>1, <2>2 DEF Lost
<1>11. Sources(raw, 1, next, q)
  <2>1. \A p \in 1 .. M : q[p] \in {0} \cup 1 .. n
    BY <1>7
  <2>2. q = [p \in 1 .. M |-> q[p]]
    BY <1>5 DEF q, After
  <2>3. q \in [1 .. M -> {0} \cup 1 .. n]
    BY <2>1, <2>2
  <2>4. ASSUME NEW p \in 1 .. M, NEW r \in 1 .. M, p < r, q[p] # 0, q[r] # 0 PROVE q[p] < q[r]
    <3>1. u[p] < u[r]
      BY <1>3, <1>7, <2>4 DEF Sources, M
    <3> QED
      BY <1>2, <1>7, <2>4, <3>1 DEF Sources, L
  <2> QED
    BY <1>7, <2>3, <2>4 DEF Sources, M, n
<1>12. ASSUME NEW r \in 1 .. L, Lost(u, r) PROVE cur[r] \notin {"[", "]"}
  <2>1. PICK k \in 1 .. L : WholeWordAt(cur, value, k) /\ k <= r /\ r < k + Len(value)
    BY <1>3, <1>12 DEF Replaced, L
  <2>2. MatchesAt(cur, value, k)
    BY <2>1 DEF WholeWordAt
  <2>3. \A t \in 1 .. Len(value) : cur[k + t - 1] = value[t]
    BY <2>2, MatchesBySymbol DEF L
  <2>4. r - k + 1 \in 1 .. Len(value) /\ k + (r - k + 1) - 1 = r
    <3>1. Len(value) \in Nat
      OBVIOUS
    <3> QED
      BY <1>1, <2>1, <3>1
  <2> QED
    BY <2>3, <2>4 DEF Unbracketed
<1>13. Onward(raw, next, q)
  <2> SUFFICES ASSUME NEW p \in 1 .. M, q[p] # 0
               PROVE  IF p < M /\ q[p + 1] # 0 THEN q[p + 1] = q[p] + 1
                      ELSE /\ p < M => next[p + 1] = "["
                           /\ q[p] < n => Lost(q, q[p] + 1)
    BY DEF Onward, n, M
  <2> DEFINE r == u[p]
  <2>1. r \in 1 .. L /\ r # 0 /\ o[r] # 0 /\ q[p] = o[r] /\ o[r] \in 1 .. n
    BY <1>7
  <2>2. IF r < L /\ o[r + 1] # 0 THEN o[r + 1] = o[r] + 1
        ELSE /\ r < L => cur[r + 1] = "["
             /\ o[r] < n => Lost(o, o[r] + 1)
    BY <1>2, <2>1 DEF Onward, L, n
  <2>3. IF p < M /\ u[p + 1] # 0 THEN u[p + 1] = r + 1
        ELSE /\ p < M => next[p + 1] = "["
             /\ r < L => Lost(u, r + 1)
    BY <1>3, <2>1 DEF Onward, L, M
  <2> HIDE DEF r
  <2>4. p < M => p + 1 \in 1 .. M
    BY <1>1
  <2>5. o[r] < n => o[r] + 1 \in 1 .. n
    BY <1>1, <2>1
  <2>6. CASE p < M /\ u[p + 1] # 0
    <3>1. r + 1 \in 1 .. L /\ r < L /\ q[p + 1] = o[r + 1] /\ next[p + 1] = cur[r + 1]
      <4>1. u[p + 1] \in 1 .. L
        BY <1>5, <2>4, <2>6
      <4> QED
        BY <1>1, <1>5, <1>6, <2>1, <2>3, <2>4, <2>6, <4>1
    <3>2. CASE o[r + 1] # 0
      BY <2>1, <2>2, <2>6, <3>1, <3>2
    <3>3. CASE o[r + 1] = 0
      BY <1>8, <2>1, <2>2, <2>5, <3>1, <3>3
    <3> QED
      BY <3>2, <3>3
  <2>7. CASE ~(p < M /\ u[p + 1] # 0)
    <3>1. p < M => q[p + 1] = 0
      BY <1>6, <2>4, <2>7
    <3>2. o[r] < n => Lost(q, o[r] + 1)
      <4> SUFFICES ASSUME o[r] < n PROVE Lost(q, o[r] + 1)
        OBVIOUS
      <4>1. CASE r < L /\ o[r + 1] # 0
        <5>1. r + 1 \in 1 .. L /\ Lost(u, r + 1)
          BY <1>1, <2>1, <2>3, <2>7, <4>1
        <5> QED
          BY <1>9, <2>2, <4>1, <5>1
      <4>2. CASE ~(r < L /\ o[r + 1] # 0)
        BY <1>8, <2>2, <2>5, <4>2
      <4> QED
        BY <4>1, <4>2
    <3> QED
      BY <2>1, <2>3, <2>7, <3>1, <3>2
  <2> QED
    BY <2>6, <2>7
<1>14. Backward(1, next, q)
  <2> SUFFICES ASSUME NEW p \in 1 .. M, q[p] # 0
               PROVE  IF p > 1 /\ q[p - 1] # 0 THEN q[p - 1] = q[p] - 1
                      ELSE /\ p > 1 => next[p - 1] = "]"
                           /\ q[p] > 1 => Lost(q, q[p] - 1)
    BY DEF Backward, M
  <2> DEFINE r == u[p]
  <2>1. r \in 1 .. L /\ r # 0 /\ o[r] # 0 /\ q[p] = o[r] /\ o[r] \in 1 .. n
    BY <1>7
  <2>2. IF r > 1 /\ o[r - 1] # 0 THEN o[r - 1] = o[r] - 1
        ELSE /\ r > 1 => cur[r - 1] = "]"
             /\ o[r] > 1 => Lost(o, o[r] - 1)
    BY <1>2, <2>1 DEF Backward, L
  <2>3. IF p > 1 /\ u[p - 1] # 0 THEN u[p - 1] = r - 1
        ELSE /\ p > 1 => next[p - 1] = "]"
             /\ r > 1 => Lost(u, r - 1)
    BY <1>3, <2>1 DEF Backward, M
  <2> HIDE DEF r
  <2>4. p > 1 => p - 1 \in 1 .. M
    BY <1>1
  <2>5. o[r] > 1 => o[r] - 1 \in 1 .. n
    BY <1>1, <2>1
  <2>6. CASE p > 1 /\ u[p - 1] # 0
    <3>1. r - 1 \in 1 .. L /\ r > 1 /\ q[p - 1] = o[r - 1] /\ next[p - 1] = cur[r - 1]
      <4>1. u[p - 1] \in 1 .. L
        BY <1>5, <2>4, <2>6
      <4> QED
        BY <1>1, <1>5, <1>6, <2>1, <2>3, <2>4, <2>6, <4>1
    <3>2. CASE o[r - 1] # 0
      BY <2>1, <2>2, <2>6, <3>1, <3>2
    <3>3. CASE o[r - 1] = 0
      BY <1>8, <2>1, <2>2, <2>5, <3>1, <3>3
    <3> QED
      BY <3>2, <3>3
  <2>7. CASE ~(p > 1 /\ u[p - 1] # 0)
    <3>1. p > 1 => q[p - 1] = 0
      BY <1>6, <2>4, <2>7
    <3>2. o[r] > 1 => Lost(q, o[r] - 1)
      <4> SUFFICES ASSUME o[r] > 1 PROVE Lost(q, o[r] - 1)
        OBVIOUS
      <4>1. CASE r > 1 /\ o[r - 1] # 0
        <5>1. r - 1 \in 1 .. L /\ Lost(u, r - 1)
          BY <1>1, <2>1, <2>3, <2>7, <4>1
        <5> QED
          BY <1>9, <2>2, <4>1, <5>1
      <4>2. CASE ~(r > 1 /\ o[r - 1] # 0)
        BY <1>8, <2>2, <2>5, <4>2
      <4> QED
        BY <4>1, <4>2
    <3> QED
      BY <2>1, <2>3, <2>7, <3>1, <3>2
  <2> QED
    BY <2>6, <2>7
<1>15. InTokens(next, q, kinds \cup {kind})
  <2> SUFFICES ASSUME NEW p \in 1 .. M, q[p] = 0, next[p] \notin {"[", "]"}
               PROVE  /\ next[p] \in kinds \cup {kind}
                      /\ 1 < p /\ p < M /\ next[p - 1] = "[" /\ next[p + 1] = "]"
    BY DEF InTokens, M
  <2>1. CASE u[p] = 0
    BY <1>3, <2>1 DEF InTokens, M
  <2>2. CASE u[p] # 0
    <3> DEFINE r == u[p]
    <3>1. r \in 1 .. L /\ r # 0 /\ o[r] = 0 /\ next[p] = cur[r]
      BY <1>5, <1>6, <2>2
    <3> HIDE DEF r
    <3>2. cur[r] \in kinds /\ 1 < r /\ r < L /\ cur[r - 1] = "[" /\ cur[r + 1] = "]"
      BY <1>2, <3>1 DEF InTokens, L
    <3>3. r - 1 \in 1 .. L /\ r + 1 \in 1 .. L
      BY <1>1, <3>1, <3>2
    <3>4. ~Lost(u, r - 1) /\ ~Lost(u, r + 1)
      BY <1>12, <3>2, <3>3
    <3>5. p < M /\ u[p + 1] # 0 /\ u[p + 1] = r + 1
      BY <1>3, <2>2, <3>2, <3>4 DEF Onward, L, M, r
    <3>6. p > 1 /\ u[p - 1] # 0 /\ u[p - 1] = r - 1
      BY <1>3, <2>2, <3>2, <3>4 DEF Backward, M, r
    <3>7. p + 1 \in 1 .. M /\ p - 1 \in 1 .. M
      BY <1>1, <3>5, <3>6
    <3>8. next[p + 1] = cur[r + 1] /\ next[p - 1] = cur[r - 1]
      BY <1>5, <3>5, <3>6, <3>7
    <3> QED
      BY <3>1, <3>2, <3>5, <3>6, <3>8
  <2> QED
    BY <2>1, <2>2
<1>16. Replaced(raw, 1, q, values \cup {value})
  <2> SUFFICES ASSUME NEW x \in 1 .. n, Lost(q, x)
               PROVE  \E v \in values \cup {value}, k \in 1 .. n :
                         /\ WholeWordAt(raw, v, k)
                         /\ k <= x /\ x < k + Len(v)
                         /\ \A y \in k .. k + Len(v) - 1 : Lost(q, y)
    BY DEF Replaced, n
  <2>1. CASE Lost(o, x)
    <3>1. PICK v \in values, k \in 1 .. n :
                 /\ WholeWordAt(raw, v, k)
                 /\ k <= x /\ x < k + Len(v)
                 /\ \A y \in k .. k + Len(v) - 1 : Lost(o, y)
      BY <1>2, <2>1 DEF Replaced, n
    <3>2. ASSUME NEW y \in k .. k + Len(v) - 1 PROVE Lost(q, y)
      <4>1. Len(v) \in Nat /\ v \in Seq(T)
        BY DEF AreValues
      <4>2. k + Len(v) - 1 <= n
        BY <3>1 DEF WholeWordAt, MatchesAt, n
      <4>3. y \in 1 .. n
        BY <1>1, <4>1, <4>2
      <4> QED
        BY <1>8, <3>1, <4>3
    <3> QED
      BY <3>1, <3>2
  <2>2. CASE ~Lost(o, x)
    <3>1. PICK r \in 1 .. L : o[r] = x /\ Lost(u, r)
      BY <1>10, <2>2
    <3>2. PICK k \in 1 .. L : /\ WholeWordAt(cur, value, k)
                              /\ k <= r /\ r < k + Len(value)
                              /\ \A y \in k .. k + Len(value) - 1 : Lost(u, y)
      BY <1>3, <3>1 DEF Replaced, L
    <3> DEFINE m == Len(value)
    <3>3. m \in Nat
      OBVIOUS
    <3>4. r \in k .. k + m - 1 /\ o[r] # 0
      BY <1>1, <3>1, <3>2, <3>3
    <3>5. /\ o[k] \in 1 .. n /\ WholeWordAt(raw, value, o[k])
          /\ \A t \in 1 .. m : o[k + t - 1] # 0 /\ o[k + t - 1] = o[k] + t - 1
      <4>1. k \in 1 .. Len(cur) /\ WholeWordAt(cur, value, k) /\ r \in k .. k + Len(value) - 1 /\ o[r] # 0
        BY <3>2, <3>4 DEF L
      <4> HIDE DEF m
      <4>2. /\ o[k] \in 1 .. Len(raw) /\ WholeWordAt(raw, value, o[k])
            /\ \A t \in 1 .. Len(value) : o[k + t - 1] # 0 /\ o[k + t - 1] = o[k] + t - 1
        BY <4>1, FoundBefore
      <4> QED
        BY <4>2 DEF n, m
    <3>6. k + m - 1 <= L
      BY <3>2 DEF WholeWordAt, MatchesAt, L
    <3>7. \A t \in 1 .. m : Lost(u, k + t - 1)
      BY <3>2, <3>3
    <3> HIDE DEF m
    <3> DEFINE j == o[k]
    <3>8. j \in 1 .. n
      BY <3>5
    <3>9. \A t \in 1 .. m : o[k + t - 1] # 0 /\ o[k + t - 1] = j + t - 1
      BY <3>5
    <3> HIDE DEF j
    <3>10. \A t \in 1 .. m : Lost(q, j + t - 1)
      <4> TAKE t \in 1 .. m
      <4>1. k + t - 1 \in 1 .. L
        BY <1>1, <3>3, <3>6
      <4> QED
        BY <1>9, <3>7, <3>9, <4>1
    <3>11. \A y \in j .. j + m - 1 : Lost(q, y)
      <4> TAKE y \in j .. j + m - 1
      <4>1. y - j + 1 \in 1 .. m /\ j + (y - j + 1) - 1 = y
        BY <3>3, <3>8
      <4> QED
        BY <3>10, <4>1
    <3>12. j <= x /\ x < j + m
      <4>1. r - k + 1 \in 1 .. m /\ k + (r - k + 1) - 1 = r
        BY <1>1, <3>3, <3>4
      <4>2. o[r] = j + (r - k + 1) - 1
        BY <3>9, <4>1
      <4> QED
        BY <1>1, <3>1, <3>3, <3>8, <4>1, <4>2
    <3> QED
      BY <3>5, <3>8, <3>11, <3>12 DEF j, m
  <2> QED
    BY <2>1, <2>2
<1> QED
  BY <1>8, <1>9, <1>11, <1>13, <1>14, <1>15, <1>16 DEF Traced, n, L, q

\* A value all of whose symbols are kept is found where it was.
LEMMA FoundAfter ==
  ASSUME NEW T, NEW raw \in Seq(T), NEW cur \in Seq(T), NEW o, NEW values, NEW kinds,
         Traced(raw, 1, cur, o, values, kinds), NEW value \in Seq(T), value # <<>>,
         NEW j \in 1 .. Len(raw), WholeWordAt(raw, value, j),
         \A x \in j .. j + Len(value) - 1 : ~Lost(o, x)
  PROVE  \E p \in 1 .. Len(cur) : o[p] = j /\ WholeWordAt(cur, value, p)
<1> DEFINE n == Len(raw)
           m == Len(value)
<1>1. n \in Nat /\ m \in Nat /\ m > 0 /\ j \in Nat /\ 1 <= j /\ j <= n
  OBVIOUS
<1>2. j + m - 1 <= n /\ \A t \in 1 .. m : raw[j + t - 1] = value[t]
  <2>1. MatchesAt(raw, value, j)
    BY DEF WholeWordAt
  <2> QED
    BY <2>1, MatchesBySymbol
<1>3. \E p \in 1 .. Len(cur) : KeptAt(raw, cur, o, j, m, p)
  <2>1. m \in Nat /\ m > 0 /\ j + m - 1 <= Len(raw) /\ \A x \in j .. j + m - 1 : ~Lost(o, x)
    BY <1>1, <1>2
  <2> HIDE DEF m
  <2> QED
    BY <2>1, KeptTogether
<1>4. PICK p \in 1 .. Len(cur) : KeptAt(raw, cur, o, j, m, p)
  BY <1>3
<1>5. /\ IsWord(Head(value)) /\ j > 1 => ~IsWord(raw[j - 1])
      /\ IsWord(Last(value)) /\ j + m <= n => ~IsWord(raw[j + m])
  BY DEF WholeWordAt
<1>6. ~IsWord("[") /\ ~IsWord("]")
  BY DEF IsWord, Marks
<1> HIDE DEF m
<1>7. /\ p + m - 1 <= Len(cur)
      /\ \A t \in 1 .. m : o[p + t - 1] = j + t - 1 /\ cur[p + t - 1] = raw[j + t - 1]
      /\ p > 1 => cur[p - 1] = "]" \/ (j > 1 /\ cur[p - 1] = raw[j - 1])
      /\ p + m <= Len(cur) => cur[p + m] = "[" \/ (j + m <= n /\ cur[p + m] = raw[j + m])
  BY <1>4 DEF KeptAt, n
<1>8. o[p] = j
  <2>1. 1 \in 1 .. m /\ p + 1 - 1 = p /\ j + 1 - 1 = j
    BY <1>1
  <2> QED
    BY <1>7, <2>1
<1>9. MatchesAt(cur, value, p)
  <2>1. p + Len(value) - 1 <= Len(cur) /\ \A t \in 1 .. Len(value) : cur[p + t - 1] = value[t]
    BY <1>2, <1>7 DEF m
  <2> QED
    BY <2>1, MatchesBySymbol
<1>10. WholeWordAt(cur, value, p)
  BY <1>5, <1>6, <1>7, <1>9 DEF WholeWordAt, m
<1> QED
  BY <1>8, <1>10

\* An occurrence that is not cut goes as a whole, if the values that were replaced are
\* not shorter.
LEMMA UncutGoes ==
  ASSUME NEW T, NEW raw \in Seq(T), NEW o, NEW upto, AreValues(upto, T), Replaced(raw, 1, o, upto),
         NEW values, upto \subseteq values, NEW value \in Seq(T),
         \A other \in upto : Len(other) >= Len(value),
         NEW j \in 1 .. Len(raw), WholeWordAt(raw, value, j), ~CutAt(raw, value, j, values),
         NEW x \in j .. j + Len(value) - 1, Lost(o, x)
  PROVE  \A y \in j .. j + Len(value) - 1 : Lost(o, y)
<1> DEFINE n == Len(raw)
           m == Len(value)
<1>1. n \in Nat /\ m \in Nat /\ j \in Nat /\ 1 <= j /\ x \in Nat /\ j <= x /\ x < j + m
  OBVIOUS
<1>2. x \in 1 .. Len(raw)
  <2>1. j + m - 1 <= n
    BY DEF WholeWordAt, MatchesAt
  <2> QED
    BY <1>1, <2>1
<1>3. PICK other \in upto, k \in 1 .. n :
        /\ WholeWordAt(raw, other, k)
        /\ k <= x /\ x < k + Len(other)
        /\ \A y \in k .. k + Len(other) - 1 : Lost(o, y)
  BY <1>2 DEF Replaced
<1> DEFINE l == Len(other)
<1>4. l \in Nat /\ l >= m /\ other \in values
  BY DEF AreValues
<1>5. k < j + m /\ j < k + l
  BY <1>1, <1>3, <1>4
<1>6. (j <= k /\ k + l <= j + m) \/ (k <= j /\ j + m <= k + l)
  BY <1>3, <1>4, <1>5 DEF CutAt
<1> HIDE DEF n, m, l
<1>7. k <= j /\ j + m <= k + l
  BY <1>1, <1>4, <1>6
<1> TAKE y \in j .. j + Len(value) - 1
<1>8. y \in k .. k + l - 1
  BY <1>1, <1>4, <1>7 DEF m
<1> QED
  BY <1>3, <1>8 DEF l

\* No occurrence of the value is left that none of the values cuts.
Gone(text, o, value, values) ==
  \A j \in 1 .. Len(text) :
    WholeWordAt(text, value, j) /\ ~CutAt(text, value, j, values) =>
      \A x \in j .. j + Len(value) - 1 : Lost(o, x)

\* What is traced to some values is traced to more.
LEMMA TracedToMore ==
  ASSUME NEW raw, NEW cur, NEW o, NEW values, NEW kinds, Traced(raw, 1, cur, o, values, kinds),
         NEW V, values \subseteq V, NEW K, kinds \subseteq K
  PROVE  Traced(raw, 1, cur, o, V, K)
<1>1. InTokens(cur, o, K)
  BY DEF Traced, InTokens
<1>2. Replaced(raw, 1, o, V)
  BY DEF Traced, Replaced
<1> QED
  BY <1>1, <1>2 DEF Traced

\* A text is traced to itself.
LEMMA TracedToItself ==
  ASSUME NEW T, NEW text \in Seq(T)
  PROVE  \E o : Traced(text, 1, text, o, {}, {})
<1> DEFINE n == Len(text)
           o == [p \in 1 .. n |-> p]
<1>1. n \in Nat
  OBVIOUS
<1>2. DOMAIN o = 1 .. n /\ \A p \in 1 .. n : o[p] = p
  OBVIOUS
<1>3. o \in [1 .. n -> {0} \cup 1 .. n]
  OBVIOUS
<1> HIDE DEF o, n
<1>4. Sources(text, 1, text, o)
  BY <1>2, <1>3 DEF Sources, n
<1>5. \A p \in 1 .. n : o[p] # 0 /\ (p < n => p + 1 \in 1 .. n) /\ (p > 1 => p - 1 \in 1 .. n)
  BY <1>1, <1>2
<1>6. Onward(text, text, o)
  <2> SUFFICES ASSUME NEW p \in 1 .. n
               PROVE  IF p < n /\ o[p + 1] # 0 THEN o[p + 1] = o[p] + 1
                      ELSE /\ p < n => text[p + 1] = "["
                           /\ o[p] < n => Lost(o, o[p] + 1)
    BY DEF Onward, n
  <2> QED
    BY <1>1, <1>2, <1>5
<1>7. Backward(1, text, o)
  <2> SUFFICES ASSUME NEW p \in 1 .. n
               PROVE  IF p > 1 /\ o[p - 1] # 0 THEN o[p - 1] = o[p] - 1
                      ELSE /\ p > 1 => text[p - 1] = "]"
                           /\ o[p] > 1 => Lost(o, o[p] - 1)
    BY DEF Backward, n
  <2> QED
    BY <1>1, <1>2, <1>5
<1>8. InTokens(text, o, {})
  BY <1>5 DEF InTokens, n
<1>9. Replaced(text, 1, o, {})
  <2> SUFFICES ASSUME NEW x \in 1 .. n PROVE ~Lost(o, x)
    BY DEF Replaced, n
  <2> QED
    BY <1>2 DEF Lost
<1> QED
  BY <1>4, <1>6, <1>7, <1>8, <1>9 DEF Traced

\* Replacing one more value, not longer than those before, leaves nothing of it uncut.
LEMMA GoneWithNext ==
  ASSUME NEW T, NEW raw \in Seq(T), NEW cur \in Seq(T), NEW next \in Seq(T),
         NEW o, NEW u, NEW upto, AreValues(upto, T), NEW kinds, Traced(raw, 1, cur, o, upto, kinds),
         NEW value \in Seq(T), value # <<>>, Unbracketed(value), NEW kind,
         Traced(cur, 1, next, u, {value}, {kind}), Met(cur, 1, u, value),
         NEW values, upto \subseteq values, value \in values,
         \A other \in upto : Len(other) >= Len(value)
  PROVE  Gone(raw, After(o, u), value, values)
<1> DEFINE q == After(o, u)
           m == Len(value)
<1>1. /\ Traced(raw, 1, next, q, upto \cup {value}, kinds \cup {kind})
      /\ \A x \in 1 .. Len(raw) : Lost(o, x) => Lost(q, x)
      /\ \A p \in 1 .. Len(cur) : o[p] # 0 /\ Lost(u, p) => Lost(q, o[p])
  BY TracedTwice
<1> HIDE DEF q
<1>2. Replaced(raw, 1, q, upto \cup {value})
  BY <1>1 DEF Traced
<1>3. AreValues(upto \cup {value}, T)
  BY DEF AreValues
<1>4. m \in Nat /\ m > 0
  OBVIOUS
<1>5. \A other \in upto \cup {value} : Len(other) >= Len(value)
  BY <1>4
<1>6. SUFFICES ASSUME NEW j \in 1 .. Len(raw), WholeWordAt(raw, value, j), ~CutAt(raw, value, j, values)
               PROVE  \A x \in j .. j + Len(value) - 1 : Lost(q, x)
  BY DEF Gone, q
<1>7. j + m - 1 <= Len(raw)
  BY <1>6 DEF WholeWordAt, MatchesAt
<1>8. \E x \in j .. j + Len(value) - 1 : Lost(q, x)
  <2>1. CASE \E x \in j .. j + Len(value) - 1 : Lost(o, x)
    <3>1. PICK x \in j .. j + Len(value) - 1 : Lost(o, x)
      BY <2>1
    <3>2. x \in 1 .. Len(raw)
      BY <1>4, <1>7
    <3> QED
      BY <1>1, <3>1, <3>2
  <2>2. CASE \A x \in j .. j + Len(value) - 1 : ~Lost(o, x)
    <3>1. PICK p \in 1 .. Len(cur) : o[p] = j /\ WholeWordAt(cur, value, p)
      BY <1>6, <2>2, FoundAfter
    <3>2. Lost(u, p)
      BY <3>1 DEF Met
    <3>3. j # 0 /\ j \in j .. j + Len(value) - 1
      BY <1>4
    <3> QED
      BY <1>1, <3>1, <3>2, <3>3
  <2> QED
    BY <2>1, <2>2
<1>9. PICK x \in j .. j + Len(value) - 1 : Lost(q, x)
  BY <1>8
<1>10. upto \cup {value} \subseteq values
  OBVIOUS
<1> QED
  BY <1>2, <1>3, <1>5, <1>6, <1>9, <1>10, UncutGoes

\* What is gone stays gone.
LEMMA GoneStays ==
  ASSUME NEW T, NEW raw \in Seq(T), NEW o, NEW q, NEW value \in Seq(T), NEW values,
         \A x \in 1 .. Len(raw) : Lost(o, x) => Lost(q, x), Gone(raw, o, value, values)
  PROVE  Gone(raw, q, value, values)
<1> SUFFICES ASSUME NEW j \in 1 .. Len(raw), WholeWordAt(raw, value, j), ~CutAt(raw, value, j, values),
                    NEW x \in j .. j + Len(value) - 1
             PROVE  Lost(q, x)
  BY DEF Gone
<1>1. j + Len(value) - 1 <= Len(raw) /\ Len(value) \in Nat
  BY DEF WholeWordAt, MatchesAt
<1>2. x \in 1 .. Len(raw)
  BY <1>1
<1> QED
  BY <1>2 DEF Gone

\* The first k values that are replaced.
Upto(spans, k) == {spans[LongestFirst(spans)[i]].text : i \in 1 .. k}
Values(spans) == {spans[i].text : i \in DOMAIN spans}
Kinds(spans) == {spans[i].kind : i \in DOMAIN spans}

\* The text after k of the values is traced, and nothing uncut is left of them.
RedactedSoFar(text, spans, cur, k) ==
  \E o : /\ Traced(text, 1, cur, o, Upto(spans, k), Kinds(spans))
         /\ \A i \in 1 .. k :
              LET value == spans[LongestFirst(spans)[i]].text
              IN  Strip(value) # <<>> => Gone(text, o, value, Values(spans))

\* One more value.
LEMMA RedactedFurther ==
  ASSUME NEW T, {"[", "]"} \subseteq T, NEW text \in Seq(T), NEW n \in Nat, NEW spans,
         Replaceable(spans, n, T), \A i \in 1 .. n : Unbracketed(spans[i].text),
         NEW cur \in Seq(T), NEW k \in 1 .. n, RedactedSoFar(text, spans, cur, k - 1)
  PROVE  RedactedSoFar(text, spans, Replacing(cur, spans[LongestFirst(spans)[k]]), k)
<1> DEFINE order == LongestFirst(spans)
           value == spans[order[k]].text
           kind == spans[order[k]].kind
           next == Substituted(cur, value, Token(kind))
<1>1. Longest(order, spans, n)
  BY LongestFirstIsOrder
<1> HIDE DEF order
<1>2. order[k] \in 1 .. n /\ \A i \in 1 .. n : order[i] \in 1 .. n
  BY <1>1 DEF Longest
<1>3. \A i \in 1 .. n : /\ spans[order[i]].text \in Seq(T) /\ spans[order[i]].text # <<>>
                        /\ spans[order[i]].text \in Values(spans)
                        /\ Unbracketed(spans[order[i]].text)
  BY <1>2 DEF Replaceable, Values
<1>4. value \in Seq(T) /\ value # <<>> /\ value \in Values(spans) /\ Unbracketed(value)
  BY <1>3
<1>5. kind \in T /\ kind \in Kinds(spans)
  BY <1>2 DEF Replaceable, Kinds
<1>6. k - 1 \in 0 .. n /\ \A i \in 1 .. k : i = k \/ i \in 1 .. k - 1
  OBVIOUS
<1>7. \A i \in 1 .. k - 1 : i \in 1 .. n /\ i < k
  OBVIOUS
<1>8. PICK o : /\ Traced(text, 1, cur, o, Upto(spans, k - 1), Kinds(spans))
               /\ \A i \in 1 .. k - 1 :
                    Strip(spans[order[i]].text) # <<>> => Gone(text, o, spans[order[i]].text, Values(spans))
  BY DEF RedactedSoFar, order
<1>9. Upto(spans, k - 1) = {spans[order[i]].text : i \in 1 .. k - 1}
      /\ Upto(spans, k) = {spans[order[i]].text : i \in 1 .. k}
  BY DEF Upto, order
<1>10. AreValues(Upto(spans, k - 1), T) /\ Upto(spans, k - 1) \subseteq Values(spans)
  BY <1>3, <1>7, <1>9 DEF AreValues
<1>11. \A other \in Upto(spans, k - 1) : Len(other) >= Len(value)
  <2> TAKE other \in Upto(spans, k - 1)
  <2>1. PICK i \in 1 .. k - 1 : other = spans[order[i]].text
    BY <1>9
  <2> QED
    BY <1>1, <1>7, <2>1 DEF Longest
<1>12. Upto(spans, k - 1) \cup {value} \subseteq Upto(spans, k)
  BY <1>6, <1>7, <1>9
<1> HIDE DEF value, kind
<1>13. CASE Strip(value) = <<>>
  <2>1. Replacing(cur, spans[order[k]]) = cur
    BY <1>13 DEF Replacing, value
  <2>2. Traced(text, 1, cur, o, Upto(spans, k), Kinds(spans))
    BY <1>8, <1>12, TracedToMore
  <2>3. \A i \in 1 .. k : Strip(spans[order[i]].text) # <<>> => Gone(text, o, spans[order[i]].text, Values(spans))
    BY <1>6, <1>8, <1>13 DEF value
  <2> QED
    BY <2>1, <2>2, <2>3 DEF RedactedSoFar, order
<1>14. CASE Strip(value) # <<>>
  <2>1. Replacing(cur, spans[order[k]]) = next
    BY <1>14 DEF Replacing, value, kind
  <2>2. /\ next \in Seq(T)
        /\ \E u : Traced(cur, 1, next, u, {value}, {kind}) /\ Met(cur, 1, u, value)
    BY <1>4, <1>5, SubstitutedIsTraced
  <2> HIDE DEF next
  <2>3. PICK u : Traced(cur, 1, next, u, {value}, {kind}) /\ Met(cur, 1, u, value)
    BY <2>2
  <2> DEFINE q == After(o, u)
  <2>4. /\ Traced(text, 1, next, q, Upto(spans, k - 1) \cup {value}, Kinds(spans) \cup {kind})
        /\ \A x \in 1 .. Len(text) : Lost(o, x) => Lost(q, x)
    BY <1>4, <1>8, <1>10, <2>2, <2>3, TracedTwice
  <2>5. Gone(text, q, value, Values(spans))
    BY <1>4, <1>8, <1>10, <1>11, <2>2, <2>3, GoneWithNext
  <2> HIDE DEF q
  <2>6. Traced(text, 1, next, q, Upto(spans, k), Kinds(spans))
    BY <1>5, <1>12, <2>4, TracedToMore
  <2>7. ASSUME NEW i \in 1 .. k, Strip(spans[order[i]].text) # <<>>
        PROVE  Gone(text, q, spans[order[i]].text, Values(spans))
    <3>1. CASE i = k
      BY <2>5, <3>1 DEF value
    <3>2. CASE i \in 1 .. k - 1
      BY <1>3, <1>7, <1>8, <2>4, <2>7, <3>2, GoneStays
    <3> QED
      BY <1>6, <3>1, <3>2
  <2> QED
    BY <2>1, <2>6, <2>7 DEF RedactedSoFar, order
<1> QED
  BY <1>13, <1>14

\* A redacted text is traced, and of no value is anything uncut left.
LEMMA RedactedIsTraced ==
  ASSUME NEW T, {"[", "]"} \subseteq T, NEW text \in Seq(T), NEW n \in Nat, NEW spans,
         Replaceable(spans, n, T), \A i \in 1 .. n : Unbracketed(spans[i].text)
  PROVE  /\ Redacted(text, spans) \in Seq(T)
         /\ \E o : /\ Traced(text, 1, Redacted(text, spans), o, Values(spans), Kinds(spans))
                   /\ \A i \in 1 .. n : Strip(spans[i].text) # <<>> =>
                                          Gone(text, o, spans[i].text, Values(spans))
<1>1. PICK f : RedactedRun(f, T, text, spans, n)
  BY RedactedRuns
<1>2. Longest(LongestFirst(spans), spans, n)
  BY LongestFirstIsOrder
<1>3. /\ \A k \in 0 .. n : f[k] \in Seq(T)
      /\ f[0] = text /\ f[n] = Redacted(text, spans)
      /\ \A k \in 1 .. n : f[k] = Replacing(f[k - 1], spans[LongestFirst(spans)[k]])
  BY <1>1 DEF RedactedRun
<1> DEFINE G == {k \in 0 .. n : RedactedSoFar(text, spans, f[k], k)}
<1>4. 0 \in G
  <2>1. PICK o : Traced(text, 1, text, o, {}, {})
    BY TracedToItself
  <2>2. Traced(text, 1, text, o, Upto(spans, 0), Kinds(spans))
    BY <2>1, TracedToMore
  <2>3. RedactedSoFar(text, spans, text, 0)
    BY <2>2 DEF RedactedSoFar
  <2> QED
    BY <1>3, <2>3
<1>5. ASSUME NEW k \in 1 .. n, k - 1 \in G PROVE k \in G
  <2>1. k - 1 \in 0 .. n /\ k \in 0 .. n
    OBVIOUS
  <2>2. f[k - 1] \in Seq(T) /\ RedactedSoFar(text, spans, f[k - 1], k - 1)
    BY <1>3, <1>5, <2>1
  <2>3. RedactedSoFar(text, spans, f[k], k)
    BY <1>3, <2>2, RedactedFurther
  <2> QED
    BY <2>1, <2>3
<1>6. n \in G
  <2> HIDE DEF G
  <2>1. 0 .. n \subseteq G
    BY <1>4, <1>5, IntervalInduction
  <2>2. n \in 0 .. n
    OBVIOUS
  <2> QED
    BY <2>1, <2>2
<1>7. RedactedSoFar(text, spans, Redacted(text, spans), n)
  BY <1>3, <1>6
<1>8. PICK o : /\ Traced(text, 1, Redacted(text, spans), o, Upto(spans, n), Kinds(spans))
               /\ \A i \in 1 .. n :
                    LET value == spans[LongestFirst(spans)[i]].text
                    IN  Strip(value) # <<>> => Gone(text, o, value, Values(spans))
  BY <1>7 DEF RedactedSoFar
<1>9. Upto(spans, n) \subseteq Values(spans)
  BY <1>2 DEF Longest, Upto, Values, Replaceable
<1>10. \A i \in 1 .. n : Strip(spans[i].text) # <<>> => Gone(text, o, spans[i].text, Values(spans))
  <2> TAKE i \in 1 .. n
  <2>1. PICK k \in 1 .. n : LongestFirst(spans)[k] = i
    BY <1>2 DEF Longest
  <2> QED
    BY <1>8, <2>1
<1>11. Traced(text, 1, Redacted(text, spans), o, Values(spans), Kinds(spans))
  BY <1>8, <1>9, TracedToMore
<1>12. n \in 0 .. n
  OBVIOUS
<1> QED
  BY <1>3, <1>10, <1>11, <1>12

\* A value with a word is not blank.
LEMMA WordedIsNotBlank ==
  ASSUME NEW T, NEW value \in Seq(T), Words(value) # {}
  PROVE  Strip(value) # <<>>
<1>1. PICK x \in 1 .. Len(value) : IsWord(value[x])
  BY NoWords
<1>2. ~IsWhite(value[x])
  BY <1>1 DEF IsWord, Marks, IsWhite
<1> SUFFICES ASSUME Strip(value) = <<>> PROVE FALSE
  OBVIOUS
<1>3. PICK first, last \in 1 .. Len(value) : first <= last /\ Strip(value) = SubSeq(value, first, last)
  BY <1>2, Stripped
<1>4. Len(SubSeq(value, first, last)) = last - first + 1
  <2>1. \A i \in first .. last : value[i] \in T
    OBVIOUS
  <2> QED
    BY <1>3, <2>1, SubSeqProperties
<1> QED
  BY <1>3, <1>4

\* A word left in a redacted text stood in the text before where something cuts each
\* value around it, or is the name of a kind.
LEMMA LeakIsExplained ==
  ASSUME NEW T, {"[", "]"} \subseteq T, NEW text \in Seq(T), NEW n \in Nat, NEW spans,
         Replaceable(spans, n, T), \A i \in 1 .. n : Unbracketed(spans[i].text),
         NEW value \in Values(spans), NEW word \in Words(value), word \in Words(Redacted(text, spans))
  PROVE  \/ StaysWhole(word, value, text, Values(spans))
         \/ \E i \in DOMAIN spans : word = <<spans[i].kind>>
<1> DEFINE after == Redacted(text, spans)
           L == Len(after)
           values == Values(spans)
           kinds == Kinds(spans)
<1>1. PICK o : /\ Traced(text, 1, after, o, values, kinds)
               /\ \A i \in 1 .. n : Strip(spans[i].text) # <<>> => Gone(text, o, spans[i].text, values)
  BY RedactedIsTraced
<1>2. after \in Seq(T)
  BY RedactedIsTraced
<1> HIDE DEF after
<1>3. AreValues(values, T) /\ value \in Seq(T)
  BY DEF AreValues, Values, Replaceable
<1>4. Gone(text, o, value, values)
  <2>1. PICK i \in 1 .. n : value = spans[i].text
    BY DEF Values, Replaceable
  <2>2. Strip(value) # <<>>
    BY <1>3, WordedIsNotBlank
  <2> QED
    BY <1>1, <2>1, <2>2
<1>5. PICK a, b \in DOMAIN after : WordFrom(after, a, b) /\ word = SubSeq(after, a, b)
  BY <1>2, WordsAre DEF after
<1>6. L \in Nat /\ a \in 1 .. L /\ b \in 1 .. L /\ a <= b /\ a \in a .. b
  BY <1>2, <1>5 DEF WordFrom
<1>7. /\ \A y \in a .. b : IsWord(after[y])
      /\ a = 1 \/ ~IsWord(after[a - 1])
      /\ b = L \/ ~IsWord(after[b + 1])
  BY <1>5 DEF WordFrom
<1>8. ~IsWord("[") /\ ~IsWord("]")
  BY DEF IsWord, Marks
<1>9. /\ Sources(text, 1, after, o) /\ Onward(text, after, o) /\ Backward(1, after, o)
      /\ InTokens(after, o, kinds) /\ Replaced(text, 1, o, values)
  BY <1>1 DEF Traced
<1>10. \A y \in a .. b : after[y] \notin {"[", "]"}
  BY <1>7, <1>8
<1>13. word \in Seq(T) /\ Len(word) = b - a + 1 /\ \A t \in 1 .. b - a + 1 : word[t] = after[a + t - 1]
  <2>1. \A t \in a .. b : after[t] \in T
    BY <1>2, <1>6
  <2>2. a \in Int /\ b \in Int /\ a <= b + 1
    BY <1>6
  <2> HIDE DEF L
  <2>3. /\ SubSeq(after, a, b) \in Seq(T) /\ Len(SubSeq(after, a, b)) = b - a + 1
        /\ \A t \in 1 .. b - a + 1 : SubSeq(after, a, b)[t] = after[a + t - 1]
    BY <1>6, <2>1, <2>2, SubSeqProperties
  <2> QED
    BY <1>5, <2>3
<1> HIDE DEF values, kinds
<1>11. CASE o[a] = 0
  <2>1. after[a] \in kinds /\ a < L /\ after[a + 1] = "]"
    BY <1>6, <1>9, <1>10, <1>11 DEF InTokens
  <2>2. a = b
    <3> SUFFICES ASSUME a < b PROVE FALSE
      BY <1>6
    <3>1. a + 1 \in a .. b
      BY <1>6
    <3> QED
      BY <1>10, <2>1, <3>1
  <2>3. word = <<after[a]>>
    <3>1. Len(word) = 1 /\ word[1] = after[a]
      BY <1>6, <1>13, <2>2
    <3> DEFINE s == after[a]
    <3>2. s \in T
      BY <1>2, <1>6
    <3> HIDE DEF s
    <3>3. <<s>> \in Seq(T) /\ Len(<<s>>) = 1 /\ <<s>>[1] = s
      BY <3>2
    <3> DEFINE single == <<s>>
    <3>4. single \in Seq(T) /\ Len(single) = 1 /\ single[1] = s /\ word[1] = s
      BY <3>1, <3>3 DEF s
    <3> HIDE DEF single
    <3>5. word = single
      BY <1>13, <3>1, <3>4
    <3> QED
      BY <3>5 DEF single, s
  <2>4. PICK i \in DOMAIN spans : after[a] = spans[i].kind
    BY <2>1 DEF kinds, Kinds
  <2> QED
    BY <2>3, <2>4
<1>12. CASE o[a] # 0
  <2> DEFINE m == b - a + 1
             j == o[a]
             N == Len(text)
  <2>1. m \in Nat /\ m > 0 /\ N \in Nat /\ a + m - 1 = b
    BY <1>6
  <2>2. /\ DOMAIN o = 1 .. L
        /\ \A p \in 1 .. L : o[p] = 0 \/ (o[p] \in 1 .. N /\ after[p] = text[o[p]])
    BY <1>2, <1>9, SourcesAre
  <2>3. \A y \in a .. b : o[y] # 0 /\ o[y] = j + (y - a)
    BY <1>2, <1>6, <1>9, <1>10, <1>12, Unbroken
  <2>4. word \in Seq(T) /\ Len(word) = m /\ \A t \in 1 .. m : word[t] = after[a + t - 1]
    BY <1>13
  <2> HIDE DEF L
  <2>5. j \in 1 .. N
    BY <1>6, <1>12, <2>2
  <2> HIDE DEF m, j, N
  <2>6. \A t \in 1 .. m : /\ a + t - 1 \in a .. b /\ a + t - 1 \in 1 .. L
                          /\ o[a + t - 1] # 0 /\ o[a + t - 1] = j + t - 1
    <3> TAKE t \in 1 .. m
    <3>1. a + t - 1 \in a .. b /\ a + t - 1 \in 1 .. L /\ (a + t - 1) - a = t - 1 /\ j + (t - 1) = j + t - 1
      BY <1>6, <2>1, <2>5
    <3> QED
      BY <2>3, <3>1
  <2>7. \A t \in 1 .. m : j + t - 1 \in 1 .. N /\ text[j + t - 1] = word[t]
    BY <2>2, <2>4, <2>6
  <2>8. 1 \in 1 .. m /\ m \in 1 .. m /\ a + 1 - 1 = a /\ j + 1 - 1 = j
    BY <1>6, <2>1, <2>5
  <2>9. j + m - 1 \in 1 .. N /\ j + m - 1 <= N /\ o[b] = j + m - 1 /\ o[b] # 0
    <3>1. o[a + m - 1] = j + m - 1 /\ o[a + m - 1] # 0 /\ j + m - 1 \in 1 .. N
      BY <2>6, <2>7, <2>8
    <3> QED
      BY <2>1, <3>1
  <2>10. MatchesAt(text, word, j)
    <3>1. j \in 1 .. Len(text) /\ j + Len(word) - 1 <= Len(text)
          /\ \A t \in 1 .. Len(word) : text[j + t - 1] = word[t]
      BY <2>4, <2>5, <2>7, <2>9 DEF N
    <3> QED
      BY <2>4, <3>1, MatchesBySymbol
  <2>11. IsWord(text[j]) /\ IsWord(text[j + m - 1])
    BY <1>7, <2>4, <2>6, <2>7, <2>8
  <2>12. ~Lost(o, j) /\ ~Lost(o, j + m - 1)
    BY <1>6, <2>2, <2>9 DEF Lost, j
  <2>13. ASSUME j > 1 PROVE ~IsWord(text[j - 1])
    <3>1. CASE a > 1 /\ o[a - 1] # 0
      <4>1. a - 1 \in 1 .. L
        BY <1>6, <3>1
      <4>2. o[a - 1] = j - 1
        BY <1>6, <1>9, <1>12, <3>1 DEF Backward, L, j
      <4>3. after[a - 1] = text[j - 1]
        BY <2>2, <3>1, <4>1, <4>2
      <4>4. a # 1
        BY <1>6, <3>1
      <4> QED
        BY <1>7, <4>3, <4>4
    <3>2. CASE ~(a > 1 /\ o[a - 1] # 0)
      <4>1. Lost(o, j - 1)
        BY <1>6, <1>9, <1>12, <2>13, <3>2 DEF Backward, L, j
      <4>2. j - 1 \in 1 .. Len(text) /\ j \in 1 .. Len(text) /\ j = (j - 1) + 1
        BY <2>1, <2>5, <2>13 DEF N
      <4> QED
        BY <1>3, <1>9, <2>11, <2>12, <4>1, <4>2, NoWordIsCut
    <3> QED
      BY <3>1, <3>2
  <2>14. ASSUME j + m <= N PROVE ~IsWord(text[j + m])
    <3>3. b \in 1 .. L /\ (j + m - 1) + 1 = j + m /\ j + m - 1 < N
      BY <1>6, <2>1, <2>5, <2>14
    <3>1. CASE b < L /\ o[b + 1] # 0
      <4>1. b + 1 \in 1 .. L
        BY <1>6, <3>1
      <4>2. o[b + 1] = o[b] + 1
        BY <1>9, <2>9, <3>1, <3>3 DEF Onward, L
      <4>3. after[b + 1] = text[j + m]
        BY <2>2, <2>9, <3>1, <3>3, <4>1, <4>2
      <4>4. b # L
        BY <1>6, <3>1
      <4> QED
        BY <1>7, <4>3, <4>4
    <3>2. CASE ~(b < L /\ o[b + 1] # 0)
      <4>1. Lost(o, j + m)
        BY <1>9, <2>9, <3>2, <3>3 DEF Onward, L, N
      <4>2. j + m \in 1 .. Len(text) /\ j + m - 1 \in 1 .. Len(text) /\ j + m - 1 = (j + m) - 1
        BY <2>1, <2>5, <2>9, <2>14 DEF N
      <4> QED
        BY <1>3, <1>9, <2>11, <2>12, <4>1, <4>2, NoWordIsCut
    <3> QED
      BY <3>1, <3>2
  <2>15. WholeWordAt(text, word, j)
    BY <2>4, <2>10, <2>13, <2>14 DEF WholeWordAt, N
  <2>16. ASSUME NEW k \in 1 .. Len(text), WholeWordAt(text, value, k), k <= j,
                j + Len(word) <= k + Len(value)
         PROVE  CutAt(text, value, k, values)
    <3> SUFFICES ASSUME ~CutAt(text, value, k, values) PROVE FALSE
      OBVIOUS
    <3>1. j \in k .. k + Len(value) - 1
      BY <1>3, <2>1, <2>4, <2>5, <2>16
    <3>2. Lost(o, j)
      BY <1>4, <2>16, <3>1 DEF Gone
    <3> QED
      BY <2>12, <3>2
  <2>17. StaysWhole(word, value, text, values)
    <3>1. j \in DOMAIN text /\ DOMAIN text = 1 .. Len(text)
      BY <2>5 DEF N
    <3> QED
      BY <2>15, <2>16, <3>1 DEF StaysWhole
  <2> QED
    BY <2>17 DEF values
<1> QED
  BY <1>11, <1>12

-------------------------------------------------------------------------------
(* Skill evaluation *)

\* The words and marks of the names that have aliases.
AliasSymbols ==
  {"react", ".", "js", "node", Space, "java", "script", "type", "rest", "api", "apis",
   "postgres", "ql", "git"}

\* Names of at least one symbol.
AreNames(T, names) == \A name \in names : name \in Seq(T) /\ Len(name) > 0

\* One, two or three symbols are a name.
LEMMA ShortNames ==
  ASSUME NEW T
  PROVE  \A a, b, c \in T :
           /\ <<a>> \in Seq(T) /\ Len(<<a>>) > 0
           /\ <<a, b>> \in Seq(T) /\ Len(<<a, b>>) > 0
           /\ <<a, b, c>> \in Seq(T) /\ Len(<<a, b, c>>) > 0
OBVIOUS

\* The aliases of a name are names.
LEMMA AliasesTyped ==
  ASSUME NEW T, AliasSymbols \subseteq T, NEW x \in DOMAIN Skills!SkillNameAliases
  PROVE  AreNames(T, Skills!SkillNameAliases[x])
<1> DEFINE forReact == {<<"react">>, <<"react", ".", "js">>, <<"react", "js">>}
           forNode == {<<"node", ".", "js">>, <<"node", "js">>, <<"node", Space, "js">>}
           forScript == {<<"java", "script">>, <<"type", "script">>}
           forRest == {<<"rest", Space, "api">>, <<"rest", Space, "apis">>}
           forPostgres == {<<"postgres", "ql">>, <<"postgres">>}
           forGit == {<<"git">>}
<1>1. Skills!SkillNameAliases[x] \in {forReact, forNode, forScript, forRest, forPostgres, forGit}
  <2>1. Skills!Space = Space
    BY DEF Skills!Space, Space
  <2>2. x \in {<<"react">>, <<"node", ".", "js">>,
              <<"java", "script", Space, "or", Space, "type", "script">>,
              <<"rest", Space, "apis">>, <<"postgres", "ql">>, <<"git">>}
    BY <2>1, Zenon DEF Skills!SkillNameAliases
  <2>3. Skills!SkillNameAliases[x] =
          CASE x = <<"react">> -> forReact
            [] x = <<"node", ".", "js">> -> forNode
            [] x = <<"java", "script", Space, "or", Space, "type", "script">> -> forScript
            [] x = <<"rest", Space, "apis">> -> forRest
            [] x = <<"postgres", "ql">> -> forPostgres
            [] x = <<"git">> -> forGit
    BY <2>1, Zenon DEF Skills!SkillNameAliases
  <2> HIDE DEF forReact, forNode, forScript, forRest, forPostgres, forGit
  <2> QED
    BY <2>2, <2>3, Zenon
<1>2. /\ "react" \in T /\ "." \in T /\ "js" \in T /\ "node" \in T /\ Space \in T
      /\ "java" \in T /\ "script" \in T /\ "type" \in T /\ "rest" \in T /\ "api" \in T
      /\ "apis" \in T /\ "postgres" \in T /\ "ql" \in T /\ "git" \in T
  BY DEF AliasSymbols
<1>3. AreNames(T, forReact)
  <2>1. <<"react">> \in Seq(T) /\ Len(<<"react">>) > 0
    BY <1>2, ShortNames, Zenon
  <2>2. <<"react", ".", "js">> \in Seq(T) /\ Len(<<"react", ".", "js">>) > 0
    BY <1>2, ShortNames, Zenon
  <2>3. <<"react", "js">> \in Seq(T) /\ Len(<<"react", "js">>) > 0
    BY <1>2, ShortNames, Zenon
  <2> QED
    BY <2>1, <2>2, <2>3 DEF AreNames
<1>4. AreNames(T, forNode)
  <2>1. <<"node", ".", "js">> \in Seq(T) /\ Len(<<"node", ".", "js">>) > 0
    BY <1>2, ShortNames, Zenon
  <2>2. <<"node", "js">> \in Seq(T) /\ Len(<<"node", "js">>) > 0
    BY <1>2, ShortNames, Zenon
  <2>3. <<"node", Space, "js">> \in Seq(T) /\ Len(<<"node", Space, "js">>) > 0
    BY <1>2, ShortNames, Zenon
  <2> QED
    BY <2>1, <2>2, <2>3 DEF AreNames
<1>5. AreNames(T, forScript)
  <2>1. <<"java", "script">> \in Seq(T) /\ Len(<<"java", "script">>) > 0
    BY <1>2, ShortNames, Zenon
  <2>2. <<"type", "script">> \in Seq(T) /\ Len(<<"type", "script">>) > 0
    BY <1>2, ShortNames, Zenon
  <2> QED
    BY <2>1, <2>2 DEF AreNames
<1>6. AreNames(T, forRest)
  <2>1. <<"rest", Space, "api">> \in Seq(T) /\ Len(<<"rest", Space, "api">>) > 0
    BY <1>2, ShortNames, Zenon
  <2>2. <<"rest", Space, "apis">> \in Seq(T) /\ Len(<<"rest", Space, "apis">>) > 0
    BY <1>2, ShortNames, Zenon
  <2> QED
    BY <2>1, <2>2 DEF AreNames
<1>7. AreNames(T, forPostgres) /\ AreNames(T, forGit)
  BY <1>2, ShortNames, Zenon DEF AreNames
<1> HIDE DEF forReact, forNode, forScript, forRest, forPostgres, forGit
<1> QED
  BY <1>1, <1>3, <1>4, <1>5, <1>6, <1>7

\* The names of a set of requirement ids: each once, those of the ids and no others.
LEMMA NamesOfIds ==
  ASSUME NEW requirements, NEW n \in Nat, DOMAIN requirements = 1 .. n,
         \A i, j \in 1 .. n : i # j => requirements[i] # requirements[j],
         NEW ids \in SUBSET (1 .. n)
  PROVE  LET names == Skills!NamesOf(requirements, ids)
         IN  /\ \A i, j \in DOMAIN names : i # j => names[i] # names[j]
             /\ {names[i] : i \in DOMAIN names} = {requirements[i] : i \in ids}
<1> DEFINE Ordered(s) == \A i, j \in DOMAIN s : i < j => s[i] < s[j]
           order == CHOOSE s \in SetToSeqs(ids) : Ordered(s)
<1>1. IsFiniteSet(ids) /\ ids \in SUBSET Nat
  <2> DEFINE S == 1 .. n
  <2>1. IsFiniteSet(S) /\ ids \in SUBSET S /\ S \subseteq Nat
    BY FS_Interval
  <2> HIDE DEF S
  <2> QED
    BY <2>1, FS_Subset
<1>2. order \in SetToSeqs(ids)
  <2>1. \E s \in SetToSeqs(ids) : Ordered(s)
    BY <1>1, ListedInOrder
  <2> HIDE DEF Ordered
  <2> QED
    BY <2>1
<1>3. Skills!NamesOf(requirements, ids) = [k \in DOMAIN order |-> requirements[order[k]]]
  <2>1. Skills!Cardinality(ids) = Cardinality(ids)
    BY DEF Skills!Cardinality, Cardinality
  <2>2. Skills!SetToSeqs(ids) = SetToSeqs(ids)
    BY <2>1 DEF Skills!SetToSeqs, SetToSeqs
  <2> QED
    BY <2>2 DEF Skills!NamesOf
<1> HIDE DEF order
<1>4. /\ DOMAIN order = 1 .. Cardinality(ids) /\ order \in Seq(ids)
      /\ \A i, j \in DOMAIN order : order[i] = order[j] => i = j
      /\ \A x \in ids : \E i \in DOMAIN order : order[i] = x
  BY <1>1, <1>2, Listed
<1>5. \A k \in DOMAIN order : order[k] \in ids
  BY <1>2 DEF SetToSeqs
<1> HIDE DEF Ordered
<1> DEFINE D == DOMAIN order
           names == [k \in D |-> requirements[order[k]]]
<1>6. ASSUME NEW i \in D, NEW j \in D, i # j PROVE names[i] # names[j]
  <2>1. order[i] \in 1 .. n /\ order[j] \in 1 .. n /\ order[i] # order[j]
    BY <1>4, <1>5, <1>6
  <2> QED
    BY <2>1
<1>7. {names[i] : i \in D} = {requirements[i] : i \in ids}
  <2>1. \A i \in D : names[i] = requirements[order[i]] /\ order[i] \in ids
    BY <1>5
  <2>2. \A x \in ids : \E i \in D : order[i] = x
    BY <1>4
  <2> HIDE DEF D, names
  <2>3. ASSUME NEW i \in D PROVE names[i] \in {requirements[x] : x \in ids}
    BY <2>1
  <2>4. ASSUME NEW x \in ids PROVE requirements[x] \in {names[i] : i \in D}
    BY <2>1, <2>2
  <2> QED
    BY <2>3, <2>4
<1>8. DOMAIN names = D
  OBVIOUS
<1>9. Skills!NamesOf(requirements, ids) = names
  BY <1>3
<1> HIDE DEF D, names
<1> QED
  BY <1>6, <1>7, <1>8, <1>9

\* A skill evaluation of a valid decision divides the requirements into met and missing.
LEMMA EvaluationIsValid ==
  ASSUME NEW text, NEW requirements \in Seq(Seq(STRING)),
         NEW decision \in Seq([id : Nat, matched : BOOLEAN]),
         Skills!ValidRequirements(requirements), Skills!ValidDecision(decision, requirements)
  PROVE  Skills!ValidSkillMatch(requirements, Skills!SkillEvaluation(text, requirements, decision))
<1> DEFINE n == Len(requirements)
           met == Skills!MatchedIds(text, requirements, decision)
           rest == DOMAIN requirements \ met
           Distinct(s) == \A i, j \in DOMAIN s : i # j => s[i] # s[j]
           Names(s) == {s[i] : i \in DOMAIN s}
<1>1. n \in Nat /\ DOMAIN requirements = 1 .. n
  OBVIOUS
<1>2. \A i, j \in 1 .. n : i # j => requirements[i] # requirements[j]
  BY <1>1 DEF Skills!ValidRequirements
<1>3. met \in SUBSET (1 .. n)
  <2>1. {decision[i].id : i \in DOMAIN decision} = 1 .. n
    BY <1>1 DEF Skills!ValidDecision
  <2> QED
    BY <1>1, <2>1 DEF Skills!MatchedIds
<1>4. rest \in SUBSET (1 .. n) /\ met \cap rest = {} /\ met \cup rest = 1 .. n
  <2> HIDE DEF met
  <2> QED
    BY <1>1, <1>3
<1> DEFINE matched == Skills!NamesOf(requirements, met)
           missing == Skills!NamesOf(requirements, rest)
<1>5. Skills!SkillEvaluation(text, requirements, decision) = [matched |-> matched, missing |-> missing]
  BY DEF Skills!SkillEvaluation
<1> HIDE DEF n, met, rest
<1>6. Distinct(matched) /\ Names(matched) = {requirements[i] : i \in met}
  BY <1>1, <1>2, <1>3, NamesOfIds
<1>7. Distinct(missing) /\ Names(missing) = {requirements[i] : i \in rest}
  BY <1>1, <1>2, <1>4, NamesOfIds
<1>8. Distinct(requirements) /\ Names(requirements) = {requirements[i] : i \in 1 .. n}
  BY <1>1, <1>2
<1> HIDE DEF matched, missing
<1>9. Names(matched) \cap Names(missing) = {}
  BY <1>2, <1>3, <1>4, <1>6, <1>7
<1>10. Names(matched) \cup Names(missing) = Names(requirements)
  BY <1>4, <1>6, <1>7, <1>8
<1> DEFINE skills == [matched |-> matched, missing |-> missing]
<1>11. skills.matched = matched /\ skills.missing = missing
  OBVIOUS
<1> HIDE DEF skills
<1>12. Skills!ValidSkillMatch(requirements, skills)
  <2>1. /\ Distinct(requirements) /\ Distinct(skills.matched) /\ Distinct(skills.missing)
        /\ Names(skills.matched) \cap Names(skills.missing) = {}
        /\ Names(skills.matched) \cup Names(skills.missing) = Names(requirements)
    <3> HIDE DEF Distinct, Names
    <3> QED
      BY <1>6, <1>7, <1>8, <1>9, <1>10, <1>11
  <2> QED
    BY <2>1, Zenon DEF Skills!ValidSkillMatch
<1> QED
  BY <1>5, <1>12 DEF skills

\* What is said of white space and words is said alike of a listing's names.
LEMMA SkillsReadAlike ==
  ASSUME NEW text, NEW name, NEW i
  PROVE  Skills!StandsAlone(text, name, i) <=> Alone(text, name, i)
<1>1. Skills!Marks = Marks
  BY DEF Skills!Marks, Marks, Skills!White, White, Skills!Space, Space, Skills!Newline, Newline,
         Skills!Return, Return, Skills!NoBreak, NoBreak, Skills!Hyphen, Hyphen,
         Skills!Bullet, Bullet, Skills!Slash, Slash, Skills!Weird, Weird
<1>2. \A s : Skills!IsWord(s) <=> IsWord(s)
  BY <1>1 DEF Skills!IsWord, IsWord
<1>3. Skills!MatchesAt(text, name, i) <=> MatchesAt(text, name, i)
  BY DEF Skills!MatchesAt, MatchesAt
<1> QED
  BY <1>2, <1>3 DEF Skills!StandsAlone, Alone

\* The names a requirement may have in a text are names.
LEMMA NamesTyped ==
  ASSUME NEW T, AliasSymbols \subseteq T, NEW name \in Seq(T), Len(name) > 0
  PROVE  AreNames(T, Skills!AliasesFor(name))
<1>1. CASE Skills!Strip(name) \in DOMAIN Skills!SkillNameAliases
  <2>1. AreNames(T, Skills!SkillNameAliases[Skills!Strip(name)])
    BY <1>1, AliasesTyped
  <2> QED
    BY <1>1, <2>1 DEF Skills!AliasesFor
<1>2. CASE Skills!Strip(name) \notin DOMAIN Skills!SkillNameAliases
  <2>1. Skills!AliasesFor(name) = {name}
    BY <1>2 DEF Skills!AliasesFor
  <2> QED
    BY <2>1 DEF AreNames
<1> QED
  BY <1>1, <1>2

\* T holds what the tokens and the aliases of skills are made of.
Spelling(T) == {"[", "]"} \subseteq T /\ AliasSymbols \subseteq T

\* A skill in plain sight: its names are words that share none with a value.
Unhidden(name, spans, n) ==
  /\ \A alias \in Skills!AliasesFor(name) : IsWord(Head(alias)) /\ IsWord(Last(alias))
  /\ \A i \in 1 .. n :
       /\ Words(spans[i].text) # {}
       /\ \A alias \in Skills!AliasesFor(name) : Words(spans[i].text) \cap Words(alias) = {}

\* A skill that is in plain sight in a text is so in the redacted text.
LEMMA NamedInRedacted ==
  ASSUME NEW T, Spelling(T), NEW text \in Seq(T), NEW n \in Nat, NEW spans,
         Replaceable(spans, n, T), NEW name \in Seq(T), Len(name) > 0,
         Skills!ContainsSkillName(text, name), Unhidden(name, spans, n)
  PROVE  Skills!ContainsSkillName(Redacted(text, spans), name)
<1> DEFINE after == Redacted(text, spans)
<1>1. PICK alias \in Skills!AliasesFor(name), j \in DOMAIN text : Skills!StandsAlone(text, alias, j)
  BY DEF Skills!ContainsSkillName
<1>2. alias \in Seq(T) /\ Len(alias) > 0
  BY NamesTyped DEF AreNames, Spelling
<1>3. Worded(alias)
  BY <1>1, <1>2 DEF Worded, Unhidden
<1>4. j \in 1 .. Len(text) /\ Alone(text, alias, j)
  BY <1>1, SkillsReadAlike
<1>5. \A i \in 1 .. n : Words(spans[i].text) # {} /\ Words(spans[i].text) \cap Words(alias) = {}
  BY <1>1 DEF Unhidden
<1>6. \E p \in 1 .. Len(after) : Alone(after, alias, p)
  BY <1>2, <1>3, <1>4, <1>5, AloneInRedacted DEF Spelling
<1>7. after \in Seq(T)
  <2>1. PICK f : RedactedRun(f, T, text, spans, n)
    BY RedactedRuns DEF Spelling
  <2>2. n \in 0 .. n
    OBVIOUS
  <2> QED
    BY <2>1, <2>2 DEF RedactedRun
<1> HIDE DEF after
<1>8. PICK p \in DOMAIN after : Skills!StandsAlone(after, alias, p)
  BY <1>6, <1>7, SkillsReadAlike
<1>9. Skills!ContainsSkillName(after, name)
  BY <1>8 DEF Skills!ContainsSkillName
<1> QED
  BY <1>9 DEF after

\* What is matched of a name that the text contains.
LEMMA NamedIsMatched ==
  ASSUME NEW text, NEW n \in Nat, NEW requirements, DOMAIN requirements = 1 .. n,
         NEW decision, Skills!ValidRequirements(requirements),
         Skills!ValidDecision(decision, requirements),
         NEW id \in 1 .. n, Skills!ContainsSkillName(text, requirements[id])
  PROVE  LET matched == Skills!SkillEvaluation(text, requirements, decision).matched
         IN  \E k \in DOMAIN matched : matched[k] = requirements[id]
<1> DEFINE met == Skills!MatchedIds(text, requirements, decision)
           matched == Skills!NamesOf(requirements, met)
<1>1. \A i, j \in 1 .. n : i # j => requirements[i] # requirements[j]
  BY DEF Skills!ValidRequirements
<1>2. met \subseteq 1 .. n /\ id \in met
  <2>1. {decision[i].id : i \in DOMAIN decision} = 1 .. n
    BY DEF Skills!ValidDecision
  <2> QED
    BY <2>1 DEF Skills!MatchedIds
<1>3. Skills!SkillEvaluation(text, requirements, decision).matched = matched
  BY DEF Skills!SkillEvaluation
<1> HIDE DEF met
<1>4. {matched[i] : i \in DOMAIN matched} = {requirements[i] : i \in met}
  BY <1>1, <1>2, NamesOfIds
<1> HIDE DEF matched
<1>5. requirements[id] \in {matched[i] : i \in DOMAIN matched}
  BY <1>2, <1>4
<1> QED
  BY <1>3, <1>5

-------------------------------------------------------------------------------
(* The invariant *)

\* What a document, a redacted text and the names of skills are made of.
Symbol == STRING \cup {Space, Newline, "[", "]"} \cup PIIKind \cup AliasSymbols

\* A value that is stored.
StoredSpan == [kind : PIIKind, text : {value \in Seq(Symbol) : value # <<>>}]

\* Text read by from_text is made of symbols.
LEMMA ReadTyped ==
  ASSUME NEW text \in Seq(Symbol), FromText(text) # Null
  PROVE  FromText(text) \in Seq(Symbol)
<1>1. Space \in Symbol /\ Newline \in Symbol
  BY DEF Symbol
<1>2. Cleaned(text) \in Seq(Symbol)
  BY <1>1, CleanedTyped
<1> QED
  BY <1>2 DEF FromText

\* Text read from a PDF is made of symbols, and is some text cleaned.
LEMMA ExtractedTyped ==
  ASSUME NEW p \in PDFs, FromPDF(p) # Null
  PROVE  FromPDF(p) \in Seq(Symbol) /\ \E text \in Seq(Symbol) : FromPDF(p) = Cleaned(text)
<1> DEFINE readable == {i \in DOMAIN p : p[i] # Null /\ FromText(p[i]) # Null}
<1>1. p \in Seq({Null} \cup Seq(STRING))
  BY PDFsAssumption
<1>2. readable # {} /\ FromPDF(p) = FromText(p[Min(readable)])
  BY DEF FromPDF
<1>3. Min(readable) \in readable
  <2>1. Len(p) \in Nat /\ readable \in SUBSET (1 .. Len(p))
    BY <1>1
  <2> HIDE DEF readable
  <2> QED
    BY <1>2, <2>1, MinOfRange
<1> DEFINE text == p[Min(readable)]
<1>4. text \in {Null} \cup Seq(STRING) /\ text # Null /\ FromText(text) # Null
  BY <1>1, <1>3
<1> HIDE DEF text
<1>5. text \in Seq(Symbol)
  BY <1>4 DEF Symbol
<1>6. FromText(text) \in Seq(Symbol)
  BY <1>4, <1>5, ReadTyped
<1>7. FromText(text) = Cleaned(text)
  BY <1>4 DEF FromText
<1> QED
  BY <1>2, <1>5, <1>6, <1>7 DEF text

\* A text that was read is read as it is, unless cleaning puts a word together.
LEMMA ReadAgain ==
  ASSUME NEW p \in PDFs, FromPDF(p) # Null, ~CutWord(FromPDF(p)), FromText(FromPDF(p)) # Null
  PROVE  FromText(FromPDF(p)) = FromPDF(p)
<1> DEFINE y == FromPDF(p)
<1>1. PICK text \in Seq(Symbol) : y = Cleaned(text)
  BY ExtractedTyped
<1> HIDE DEF y
<1>2. Space \in Symbol /\ Newline \in Symbol
  BY DEF Symbol
<1>3. PICK lines : Clean(y, lines, Symbol)
  BY <1>1, <1>2, CleanedIsClean
<1>4. Cleaned(y) = y
  BY <1>2, <1>3, CleanStays DEF y
<1> QED
  BY <1>4 DEF FromText, y

\* SourceDocument and the text kept next to the PDF: it was written from some version of the PDF.
DocumentInv ==
  /\ pdf \in PDFs
  /\ (cache = Null) = (cachedFrom = Null)
  /\ cache # Null => cache \in Seq(Symbol) /\ cachedFrom \in PDFs

\* A text a CV may be ingested from: the kept text as it reads, or, unless writing it broke off,
\* as it was extracted.
ReadOf(text) == text = FromText(cache) \/ (text = cache /\ cache = FromPDF(cachedFrom))

\* Where detection stands: a text is loaded, and the finding is one of that text.
StageInv ==
  /\ stage \in {"idle", "loaded", "detected"}
  /\ (cv = Null) = (stage = "idle")
  /\ stage # "idle" => cache # Null /\ ReadOf(cv)
  /\ found \in Finding(cv)
  /\ stage # "detected" => found = Nothing

\* Every entry stored has spans of the kinds the schema allows, and its text is the redacted one.
SpansInv ==
  \A e \in store :
    /\ e.raw \in Seq(Symbol) /\ e.pii_spans \in Seq(StoredSpan)
    /\ e.text = Redacted(e.raw, e.pii_spans)

\* CVStore is keyed by cv_id: no two entries under one id.
IdsInv == \A e, f \in store : e.cv_id = f.cv_id => e = f

\* Every entry stored was made from the kept text, or with it, under the id of its text.
OriginInv ==
  \A e \in store :
    /\ cache # Null /\ e.origin = cachedFrom
    /\ e.raw # Null /\ ReadOf(e.raw) /\ e.cv_id = normalise(e.raw)

\* The three of them: what is true of the entries stored.
StoreInv == SpansInv /\ IdsInv /\ OriginInv

\* The finding is what the detector makes of the hits reported, each of them inside the text.
HitsInv ==
  stage = "detected" =>
    /\ found = Detect(cv, hits)
    /\ \E n \in Nat : DOMAIN hits = 1 .. n /\ \A i \in 1 .. n : Inside(cv, hits[i])

\* The inductive invariant.
CInv ==
  /\ DocumentInv /\ StageInv /\ HitsInv /\ StoreInv
  /\ SkillResultsAreValid /\ SkillsInPlainSightAreMet

\* It holds of an agent that has read nothing.
LEMMA InitCInv == Init => CInv
BY NothingFound, PDFsAssumption
   DEF Init, CInv, DocumentInv, StageInv, HitsInv, StoreInv, SpansInv, IdsInv, OriginInv,
       SkillResultsAreValid, SkillsInPlainSightAreMet

\* The text under detection is made of symbols.
LEMMA CVTyped ==
  ASSUME CInv, cv # Null
  PROVE  cv \in Seq(Symbol)
<1>1. cache \in Seq(Symbol) /\ cv \in {cache, FromText(cache)}
  BY DEF CInv, StageInv, DocumentInv, ReadOf
<1> QED
  BY <1>1, ReadTyped

\* Loading fills the cache from the file of the moment; swapping the file leaves it alone.
LEMMA DocumentStep == CInv /\ [Next]_vars => DocumentInv'
<1> SUFFICES ASSUME CInv, [Next]_vars PROVE DocumentInv'
  OBVIOUS
<1> USE DEF CInv, DocumentInv
<1>1. CASE EditPDF
  BY <1>1 DEF EditPDF
<1>2. CASE LoadText
  BY <1>2 DEF LoadText, Begin
<1>3. CASE LoadPDF
  BY <1>3, PDFsAssumption, ExtractedTyped DEF LoadPDF, Begin
<1>10. CASE KeepingFails
  <2>1. FromPDF(pdf) \in Seq(Symbol)
    BY <1>10, ExtractedTyped DEF KeepingFails
  <2>2. \A n \in 0 .. Len(FromPDF(pdf)) : SubSeq(FromPDF(pdf), 1, n) \in Seq(Symbol)
    <3> DEFINE text == FromPDF(pdf)
               T == Symbol
    <3>1. text \in Seq(T)
      BY <2>1
    <3> HIDE DEF text, T
    <3>2. \A n \in 0 .. Len(text) : SubSeq(text, 1, n) \in Seq(T)
      BY <3>1
    <3> QED
      BY <3>2 DEF text, T
  <2> QED
    BY <1>10, <2>2, PDFsAssumption DEF KeepingFails, Begin
<1>4. CASE LoadFails
  BY <1>4 DEF LoadFails, Begin
<1>5. CASE DetectPII
  BY <1>5 DEF DetectPII, document
<1>6. CASE RedactAndStore
  BY <1>6 DEF RedactAndStore, document
<1>7. CASE Match
  BY <1>7 DEF Match, document
<1>8. CASE Publish
  BY <1>8 DEF Publish, document
<1>9. CASE UNCHANGED vars
  BY <1>9 DEF vars, document
<1> QED
  BY <1>1, <1>2, <1>3, <1>4, <1>5, <1>6, <1>7, <1>8, <1>9, <1>10 DEF Next, Ended

\* Every list of hits the detectors may report lies in the text.
LEMMA HitsInside ==
  ASSUME NEW T, NEW text \in Seq(T), NEW n \in 0 .. MaxHits,
         NEW some \in kSubset(n, PossibleHits(text)), NEW order \in SetToSeqs(some)
  PROVE  n \in Nat /\ DOMAIN order = 1 .. n /\ \A i \in 1 .. n : Inside(text, order[i])
<1>1. n \in Nat
  OBVIOUS
<1>2. some \subseteq PossibleHits(text) /\ Cardinality(some) = n
  BY DEF kSubset
<1>3. DOMAIN order = 1 .. n /\ \A i \in 1 .. n : order[i] \in some
  BY <1>2 DEF SetToSeqs
<1>4. ASSUME NEW h \in PossibleHits(text) PROVE Inside(text, h)
  <2>1. PICK r \in Recognised, i \in DOMAIN text :
          /\ MatchesAt(text, r.text, i)
          /\ h = [entity |-> r.entity, first |-> i, last |-> i + Len(r.text) - 1]
    BY DEF PossibleHits
  <2>2. r.entity \in DOMAIN ENTITY_TO_KIND /\ r.text \in Seq(STRING)
    BY RecognisedAssumption
  <2>3. Len(r.text) \in Nat /\ i \in 1 .. Len(text) /\ i + Len(r.text) - 1 <= Len(text)
    BY <2>1, <2>2 DEF MatchesAt
  <2>4. i .. (i + Len(r.text) - 1) \subseteq DOMAIN text
    BY <2>3
  <2> QED
    BY <2>1, <2>2, <2>4 DEF Inside
<1>5. \A i \in 1 .. n : Inside(text, order[i])
  BY <1>2, <1>3, <1>4
<1> QED
  BY <1>1, <1>3, <1>5

\* Detection records the finding of the hits it was given; every other step forgets or keeps both.
LEMMA HitsStep == CInv /\ [Next]_vars => HitsInv'
<1> SUFFICES ASSUME CInv, [Next]_vars, stage' = "detected" PROVE HitsInv'
  BY DEF HitsInv
<1> USE DEF HitsInv
<1>1. CASE DetectPII
  <2>5. PICK n \in 0 .. MaxHits : \E some \in kSubset(n, PossibleHits(cv)) :
          \E order \in SetToSeqs(some) : hits' = order /\ found' = Detect(cv, order)
    BY <1>1 DEF DetectPII
  <2>6. PICK some \in kSubset(n, PossibleHits(cv)) :
          \E order \in SetToSeqs(some) : hits' = order /\ found' = Detect(cv, order)
    BY <2>5
  <2>1. PICK order \in SetToSeqs(some) : hits' = order /\ found' = Detect(cv, order)
    BY <2>6
  <2>2. cv \in Seq(Symbol) /\ cv' = cv
    BY <1>1, CVTyped DEF DetectPII, CInv, StageInv
  <2>3. n \in Nat /\ DOMAIN order = 1 .. n /\ \A i \in 1 .. n : Inside(cv, order[i])
    BY <2>2, HitsInside
  <2> QED
    BY <2>1, <2>2, <2>3
<1>2. CASE UNCHANGED <<stage, cv, hits, found>>
  BY <1>2 DEF CInv
<1>3. CASE EditPDF
  BY <1>2, <1>3 DEF EditPDF, ingestion
<1>4. CASE LoadText \/ LoadPDF \/ KeepingFails \/ LoadFails
  BY <1>4 DEF LoadText, LoadPDF, KeepingFails, LoadFails, Begin
<1>5. CASE RedactAndStore
  BY <1>5 DEF RedactAndStore
<1>6. CASE Match
  BY <1>2, <1>6 DEF Match, ingestion
<1>7. CASE Publish
  BY <1>2, <1>7 DEF Publish, ingestion
<1>8. CASE UNCHANGED vars
  BY <1>2, <1>8 DEF vars, ingestion
<1> QED
  BY <1>1, <1>3, <1>4, <1>5, <1>6, <1>7, <1>8 DEF Next, Ended

\* The stages follow each other with the text they are about.
LEMMA StageStep == CInv /\ [Next]_vars => StageInv'
<1> SUFFICES ASSUME CInv, [Next]_vars PROVE StageInv'
  OBVIOUS
<1> USE DEF CInv, StageInv, ReadOf
<1>1. CASE EditPDF
  BY <1>1 DEF EditPDF, ingestion
<1>2. CASE LoadText
  BY <1>2, NothingFound DEF LoadText, Begin, PrefersText
<1>3. CASE LoadPDF
  BY <1>3, NothingFound DEF LoadPDF, Begin
<1>4. CASE KeepingFails \/ LoadFails
  BY <1>4 DEF KeepingFails, LoadFails, Begin
<1>5. CASE DetectPII
  <2>5. PICK n \in 0 .. MaxHits : \E some \in kSubset(n, PossibleHits(cv)) :
          \E order \in SetToSeqs(some) : found' = Detect(cv, order)
    BY <1>5 DEF DetectPII
  <2>6. PICK some \in kSubset(n, PossibleHits(cv)) :
          \E order \in SetToSeqs(some) : found' = Detect(cv, order)
    BY <2>5
  <2>1. PICK order \in SetToSeqs(some) : found' = Detect(cv, order)
    BY <2>6
  <2>2. cv \in Seq(Symbol)
    BY <1>5, CVTyped DEF DetectPII
  <2>3. n \in Nat /\ DOMAIN order = 1 .. n
        /\ \A i \in 1 .. n : order[i].entity \in DOMAIN ENTITY_TO_KIND
    BY <2>2, HitsInside DEF Inside
  <2>4. found' \in Finding(cv)
    BY <2>1, <2>3, DetectTyped
  <2> QED
    BY <1>5, <2>4 DEF DetectPII, document
<1>6. CASE RedactAndStore
  BY <1>6, NothingFound DEF RedactAndStore, document
<1>7. CASE Match
  BY <1>7 DEF Match, document, ingestion
<1>8. CASE Publish
  BY <1>8 DEF Publish, document, ingestion
<1>9. CASE UNCHANGED vars
  BY <1>9 DEF vars, document, ingestion
<1> QED
  BY <1>1, <1>2, <1>3, <1>4, <1>5, <1>6, <1>7, <1>8, <1>9 DEF Next, Ended

\* What the detector accepted is values of the document.
LEMMA FoundValues ==
  ASSUME CInv, stage = "detected"
  PROVE  found.spans \in Seq(StoredSpan)
<1> DEFINE spans == found.spans
<1>1. cv \in Seq(Symbol) /\ Space \in Symbol /\ Newline \in Symbol
  BY CVTyped DEF CInv, StageInv, Symbol
<1>2. PICK n \in Nat : DOMAIN hits = 1 .. n /\ \A i \in 1 .. n : Inside(cv, hits[i])
  BY DEF CInv, HitsInv
<1>3. found = Detect(cv, hits)
  BY DEF CInv, HitsInv
<1>4. Backed(cv, found)
  BY <1>1, <1>2, <1>3, DetectKeeps
<1>5. spans \in Seq(SpanOf(cv))
  BY DEF CInv, StageInv, Finding
<1>6. ASSUME NEW k \in DOMAIN spans PROVE spans[k] \in StoredSpan
  <2>1. PICK r \in found.ranges : spans[k].text = ValueAt(cv, r) /\ Whole(cv, r)
    BY <1>4, <1>6 DEF Backed
  <2>2. PICK i, j \in DOMAIN cv : i <= j /\ r = i .. j
    BY <2>1 DEF Whole
  <2>3. i \in Int /\ j \in Int /\ 1 <= i /\ j <= Len(cv)
    BY <1>1
  <2>4. ValueAt(cv, r) = SubSeq(cv, i, j)
    BY <2>2, <2>3, Ends DEF ValueAt
  <2>5. SubSeq(cv, i, j) \in Seq(Symbol) /\ Len(SubSeq(cv, i, j)) # 0
    BY <1>1, <2>2, <2>3
  <2> DEFINE value == SubSeq(cv, i, j)
  <2>6. value \in Seq(Symbol) /\ value # <<>>
    BY <2>5, LongIsNotEmpty
  <2>7. spans[k] \in SpanOf(cv)
    <3> DEFINE T == SpanOf(cv)
    <3> HIDE DEF T, spans
    <3>1. spans \in Seq(T) /\ k \in DOMAIN spans
      BY <1>5, <1>6 DEF T
    <3> QED
      BY <3>1 DEF T
  <2> HIDE DEF value, spans
  <2>8. spans[k].text = value
    BY <2>1, <2>4 DEF value
  <2>9. spans[k] = [kind |-> spans[k].kind, text |-> spans[k].text] /\ spans[k].kind \in PIIKind
    BY <2>7 DEF SpanOf
  <2> QED
    BY <2>6, <2>8, <2>9 DEF StoredSpan
<1>7. Len(spans) \in Nat /\ DOMAIN spans = 1 .. Len(spans) /\ spans = [k \in 1 .. Len(spans) |-> spans[k]]
  <2> DEFINE T == SpanOf(cv)
  <2>1. spans \in Seq(T)
    BY <1>5
  <2> HIDE DEF T, spans
  <2> QED
    BY <2>1
<1> HIDE DEF spans
<1>8. \A k \in 1 .. Len(spans) : spans[k] \in StoredSpan
  BY <1>6, <1>7
<1>9. spans \in Seq(StoredSpan)
  <2> DEFINE T == StoredSpan
  <2> HIDE DEF T
  <2>1. spans \in [1 .. Len(spans) -> T]
    BY <1>7, <1>8 DEF T
  <2> QED
    BY <1>7, <2>1 DEF T
<1> QED
  BY <1>9 DEF spans

\* CompositePIIDetector passes on the values its detectors found.
LEMMA StoredValues ==
  ASSUME CInv, stage = "detected"
  PROVE  Composite(<<found.spans>>) \in Seq(StoredSpan)
<1> DEFINE T == StoredSpan
           lists == <<found.spans>>
<1>1. found.spans \in Seq(T)
  BY FoundValues
<1>2. DOMAIN lists = 1 .. 1 /\ \A i \in 1 .. 1 : lists[i] \in Seq(T)
  <2> HIDE DEF T
  <2> QED
    BY <1>1
<1>3. Composite(lists) \in Seq(T)
  <2> HIDE DEF T, lists
  <2> QED
    BY <1>2, CompositeTyped
<1> QED
  BY <1>3

\* Storing replaces the entry under its id, by one of the reading in the cache.
LEMMA StoreStep == CInv /\ [Next]_vars => StoreInv'
<1> SUFFICES ASSUME CInv, [Next]_vars PROVE StoreInv'
  OBVIOUS
<1>1. CASE RedactAndStore
  <2> DEFINE new == RedactedCV(cv, Composite(<<found.spans>>))
  <2>1. store' = Others(new) \cup {new}
    BY <1>1 DEF RedactAndStore
  <2>2. /\ new.cv_id = normalise(cv) /\ new.raw = cv /\ new.origin = cachedFrom
        /\ new.pii_spans = Composite(<<found.spans>>)
        /\ new.text = Redacted(cv, Composite(<<found.spans>>))
    BY DEF RedactedCV, IdOf
  <2> HIDE DEF new
  <2>3. \A e \in Others(new) : e \in store /\ e.cv_id # new.cv_id
    BY DEF Others
  <2>4. SpansInv'
    <3>1. cv \in Seq(Symbol) /\ Composite(<<found.spans>>) \in Seq(StoredSpan)
      BY <1>1, CVTyped, StoredValues DEF RedactAndStore, CInv, StageInv
    <3>2. new.raw \in Seq(Symbol) /\ new.pii_spans \in Seq(StoredSpan)
          /\ new.text = Redacted(new.raw, new.pii_spans)
      BY <2>2, <3>1
    <3> QED
      BY <2>1, <2>3, <3>2 DEF SpansInv, CInv, StoreInv
  <2>5. IdsInv'
    BY <2>1, <2>3 DEF IdsInv, CInv, StoreInv
  <2>6. UNCHANGED <<cache, cachedFrom>> /\ stage # "idle"
    BY <1>1 DEF RedactAndStore, document
  <2>7. OriginInv'
    BY <2>1, <2>2, <2>3, <2>6 DEF OriginInv, ReadOf, CInv, StoreInv, StageInv
  <2> QED
    BY <2>4, <2>5, <2>7 DEF StoreInv
<1>2. CASE store' = store /\ (store = {} \/ UNCHANGED <<cache, cachedFrom>>)
  BY <1>2 DEF CInv, StoreInv, SpansInv, IdsInv, OriginInv, ReadOf
<1>3. CASE EditPDF
  BY <1>2, <1>3 DEF EditPDF
<1>4. CASE LoadText
  BY <1>2, <1>4 DEF LoadText, Begin
<1>5. CASE LoadPDF \/ KeepingFails
  <2>1. cache = Null
    BY <1>5 DEF LoadPDF, KeepingFails, PrefersText
  <2>2. store = {}
    BY <2>1 DEF CInv, StoreInv, OriginInv
  <2> QED
    BY <1>2, <1>5, <2>2 DEF LoadPDF, KeepingFails, Begin
<1>6. CASE LoadFails
  BY <1>2, <1>6 DEF LoadFails, Begin
<1>7. CASE DetectPII
  BY <1>2, <1>7 DEF DetectPII, document
<1>8. CASE Match
  BY <1>2, <1>8 DEF Match, document
<1>9. CASE Publish
  BY <1>2, <1>9 DEF Publish, document
<1>10. CASE UNCHANGED vars
  BY <1>2, <1>10 DEF vars, document
<1> QED
  BY <1>1, <1>3, <1>4, <1>5, <1>6, <1>7, <1>8, <1>9, <1>10 DEF Next, Ended

\* Skills are matched against the requirements of the call, so their results are valid.
LEMMA SkillsStep == CInv /\ [Next]_vars => SkillResultsAreValid'
<1> SUFFICES ASSUME CInv, [Next]_vars PROVE SkillResultsAreValid'
  OBVIOUS
<1>1. CASE Match
  <2>1. PICK e \in store, requirements \in RequirementLists, decision \in Decisions :
          /\ Skills!ValidRequirements(requirements)
          /\ Skills!ValidDecision(decision, requirements)
          /\ match' = [cv |-> e, requirements |-> requirements, decision |-> decision,
                       skills |-> Skills!SkillEvaluation(e.text, requirements, decision)]
    BY <1>1 DEF Match
  <2>2. requirements \in Seq(Seq(STRING)) /\ decision \in Seq([id : Nat, matched : BOOLEAN])
    BY RequirementListsAssumption, DecisionsAssumption
  <2>3. Skills!ValidSkillMatch(requirements, Skills!SkillEvaluation(e.text, requirements, decision))
    BY <2>1, <2>2, EvaluationIsValid
  <2> QED
    BY <2>1, <2>3 DEF SkillResultsAreValid
<1>2. CASE match' = Null \/ match' = match
  BY <1>2 DEF CInv, SkillResultsAreValid
<1>3. CASE EditPDF
  BY <1>2, <1>3 DEF EditPDF, Forget
<1>4. CASE LoadText \/ LoadPDF \/ KeepingFails \/ LoadFails
  BY <1>2, <1>4 DEF LoadText, LoadPDF, KeepingFails, LoadFails, Begin, Forget
<1>5. CASE DetectPII
  BY <1>2, <1>5 DEF DetectPII, output
<1>6. CASE RedactAndStore
  BY <1>2, <1>6 DEF RedactAndStore, output
<1>7. CASE Publish
  BY <1>2, <1>7 DEF Publish
<1>8. CASE UNCHANGED vars
  BY <1>2, <1>8 DEF vars, output
<1> QED
  BY <1>1, <1>3, <1>4, <1>5, <1>6, <1>7, <1>8 DEF Next, Ended

\* One requirement whose name is in plain sight in the document is met.
LEMMA SightIsMet ==
  ASSUME NEW raw \in Seq(Symbol), NEW n \in Nat, NEW spans, Replaceable(spans, n, Symbol),
         NEW m \in Nat, NEW requirements, DOMAIN requirements = 1 .. m,
         NEW decision, Skills!ValidRequirements(requirements),
         Skills!ValidDecision(decision, requirements),
         NEW id \in 1 .. m, requirements[id] \in Seq(Symbol), Len(requirements[id]) > 0,
         Skills!ContainsSkillName(raw, requirements[id]), Unhidden(requirements[id], spans, n)
  PROVE  LET matched == Skills!SkillEvaluation(Redacted(raw, spans), requirements, decision).matched
         IN  \E k \in DOMAIN matched : matched[k] = requirements[id]
<1>1. Spelling(Symbol)
  BY DEF Symbol, Spelling
<1>2. Skills!ContainsSkillName(Redacted(raw, spans), requirements[id])
  BY <1>1, NamedInRedacted
<1> QED
  BY <1>2, NamedIsMatched, SMTT(30)

\* A requirement is a name of symbols.
LEMMA RequirementsTyped ==
  ASSUME NEW requirements \in RequirementLists, Skills!ValidRequirements(requirements),
         NEW id \in DOMAIN requirements
  PROVE  requirements[id] \in Seq(Symbol) /\ Len(requirements[id]) > 0
<1> DEFINE name == requirements[id]
<1>1. name \in Seq(STRING) /\ name # <<>>
  BY RequirementListsAssumption DEF Skills!ValidRequirements
<1> HIDE DEF name
<1>2. Len(name) \in Nat /\ name = [i \in 1 .. Len(name) |-> name[i]]
  BY <1>1
<1>3. \A i \in 1 .. Len(name) : name[i] \in Symbol
  BY <1>1 DEF Symbol
<1>4. [i \in 1 .. Len(name) |-> name[i]] \in Seq(Symbol)
  BY <1>2, <1>3
<1>5. name \in Seq(Symbol) /\ Len(name) > 0
  BY <1>1, <1>2, <1>4
<1> QED
  BY <1>5 DEF name

\* Skills in plain sight are met by a match: their names stay in the redacted text.
LEMMA MatchMeetsSight == CInv /\ Match => SkillsInPlainSightAreMet'
<1> SUFFICES ASSUME CInv, Match PROVE SkillsInPlainSightAreMet'
  OBVIOUS
<1>1. PICK e \in store, requirements \in RequirementLists, decision \in Decisions :
        /\ Skills!ValidRequirements(requirements)
        /\ Skills!ValidDecision(decision, requirements)
        /\ match' = [cv |-> e, requirements |-> requirements, decision |-> decision,
                     skills |-> Skills!SkillEvaluation(e.text, requirements, decision)]
  BY DEF Match
<1> DEFINE raw == e.raw
           spans == e.pii_spans
           n == Len(spans)
           m == Len(requirements)
<1>2. m \in Nat /\ DOMAIN requirements = 1 .. m
  BY RequirementListsAssumption
<1>3. raw \in Seq(Symbol) /\ spans \in Seq(StoredSpan) /\ e.text = Redacted(raw, spans)
  BY DEF CInv, StoreInv, SpansInv
<1>4. n \in Nat /\ DOMAIN spans = 1 .. n
  BY <1>3
<1>5. \A i \in 1 .. n : spans[i] \in StoredSpan
  BY <1>3
<1>6. /\ match'.cv.raw = raw /\ match'.cv.pii_spans = spans
      /\ match'.requirements = requirements
      /\ match'.skills = Skills!SkillEvaluation(Redacted(raw, spans), requirements, decision)
  BY <1>1, <1>3
<1> HIDE DEF raw, spans, n, m
<1>7. Replaceable(spans, n, Symbol)
  <2>1. PIIKind \subseteq Symbol
    BY DEF Symbol
  <2>2. ASSUME NEW i \in 1 .. n
        PROVE  spans[i].kind \in Symbol /\ spans[i].text \in Seq(Symbol) /\ spans[i].text # <<>>
    BY <1>5, <2>1 DEF StoredSpan
  <2> QED
    BY <1>4, <2>2 DEF Replaceable
<1>8. ASSUME NEW id \in 1 .. m,
             Skills!ContainsSkillName(raw, requirements[id]), Unhidden(requirements[id], spans, n)
      PROVE  \E k \in DOMAIN match'.skills.matched : match'.skills.matched[k] = requirements[id]
  <2>1. requirements[id] \in Seq(Symbol) /\ Len(requirements[id]) > 0
    BY <1>1, <1>2, RequirementsTyped
  <2>2. LET matched == Skills!SkillEvaluation(Redacted(raw, spans), requirements, decision).matched
        IN  \E k \in DOMAIN matched : matched[k] = requirements[id]
    BY <1>1, <1>2, <1>3, <1>4, <1>7, <1>8, <2>1, SightIsMet, SMTT(30)
  <2> QED
    BY <1>6, <2>2
<1> QED
  BY <1>2, <1>4, <1>6, <1>8 DEF SkillsInPlainSightAreMet, Unhidden

\* No step leaves a match that misses a skill in plain sight.
LEMMA PlainSightStep == CInv /\ [Next]_vars => SkillsInPlainSightAreMet'
<1> SUFFICES ASSUME CInv, [Next]_vars PROVE SkillsInPlainSightAreMet'
  OBVIOUS
<1>1. CASE Match
  BY <1>1, MatchMeetsSight
<1>2. CASE match' = Null \/ match' = match
  BY <1>2 DEF CInv, SkillsInPlainSightAreMet
<1>3. CASE EditPDF
  BY <1>2, <1>3 DEF EditPDF, Forget
<1>4. CASE LoadText \/ LoadPDF \/ KeepingFails \/ LoadFails
  BY <1>2, <1>4 DEF LoadText, LoadPDF, KeepingFails, LoadFails, Begin, Forget
<1>5. CASE DetectPII
  BY <1>2, <1>5 DEF DetectPII, output
<1>6. CASE RedactAndStore
  BY <1>2, <1>6 DEF RedactAndStore, output
<1>7. CASE Publish
  BY <1>2, <1>7 DEF Publish
<1>8. CASE UNCHANGED vars
  BY <1>2, <1>8 DEF vars, output
<1> QED
  BY <1>1, <1>3, <1>4, <1>5, <1>6, <1>7, <1>8 DEF Next, Ended

\* Every reachable state of the CV's life satisfies it.
LEMMA CInvInvariant == Spec => []CInv
<1>1. CInv /\ [Next]_vars => CInv'
  BY DocumentStep, StageStep, HitsStep, StoreStep, SkillsStep, PlainSightStep DEF CInv
<1> QED
  BY <1>1, InitCInv, PTL DEF Spec

\* Every variable of the CV's life has its type, whatever the documents, the hits and the
\* decisions of the model: in particular every stored span has one of the kinds of PIISpan.
THEOREM TypeCorrect == Spec => []TypeOK
<1>1. CInv => TypeOK
  <2> SUFFICES ASSUME CInv PROVE TypeOK
    OBVIOUS
  <2>1. ASSUME NEW e \in store, NEW i \in DOMAIN e.pii_spans PROVE e.pii_spans[i].kind \in PIIKind
    <3> DEFINE T == StoredSpan
               spans == e.pii_spans
    <3>1. spans \in Seq(T)
      BY DEF CInv, StoreInv, SpansInv
    <3> HIDE DEF T, spans
    <3>2. spans[i] \in T
      BY <2>1, <3>1 DEF spans
    <3> QED
      BY <3>2 DEF T, StoredSpan, spans
  <2> QED
    BY <2>1 DEF CInv, TypeOK, DocumentInv, StageInv, StoreInv, IdsInv
<1> QED
  BY <1>1, CInvInvariant, PTL

\* Once SourceDocument has read a version of the file, everything stored comes from that reading,
\* however often the file is replaced before the next call: the cached text is never refreshed.
THEOREM OneVersionIsRead == Spec => []FirstReadingWins
<1>1. CInv => FirstReadingWins
  BY DEF CInv, StoreInv, OriginInv, FirstReadingWins
<1> QED
  BY <1>1, CInvInvariant, PTL

\* Every result of SkillMatcherAgent that passed validation puts each requirement on exactly one
\* side, met or missing, whatever the model decided and whatever stood in plain sight.
THEOREM SkillsAreDivided == Spec => []SkillResultsAreValid
<1>1. CInv => SkillResultsAreValid
  BY DEF CInv
<1> QED
  BY <1>1, CInvInvariant, PTL

\* src/src/services/document_parser.py:205: redaction never costs a candidate a skill. A name in
\* plain sight that shares no word with a recorded value stands alone in the redacted text too,
\* and is met, whatever the model decided.
THEOREM RedactionCostsNoSkill == Spec => []SkillsInPlainSightAreMet
<1>1. CInv => SkillsInPlainSightAreMet
  BY DEF CInv
<1> QED
  BY <1>1, CInvInvariant, PTL

\* src/src/services/document_parser.py:225: redaction leaves a word of a recorded value only where
\* the CV has it outside the value, where another occurrence cuts the one around it, or as the name
\* of a kind in a token; a value with a bracket in it, which could take one from a token, excepted.
THEOREM LeaksAreAccountedFor == Spec => []LeaksAreExplained
<1>1. CInv => LeaksAreExplained
  <2> SUFFICES ASSUME CInv, NEW e \in store,
                      \A other \in Values(e.pii_spans) : {"[", "]"} \cap Symbols(other) = {},
                      NEW value \in Values(e.pii_spans), NEW word \in Words(value) \cap Words(e.text)
               PROVE  \/ StaysWhole(word, value, e.raw, Values(e.pii_spans))
                      \/ \E i \in DOMAIN e.pii_spans : word = <<e.pii_spans[i].kind>>
    BY DEF LeaksAreExplained, Values
  <2> DEFINE raw == e.raw
             spans == e.pii_spans
             n == Len(spans)
  <2>1. raw \in Seq(Symbol) /\ spans \in Seq(StoredSpan) /\ e.text = Redacted(raw, spans)
    BY DEF CInv, StoreInv, SpansInv
  <2>2. n \in Nat /\ DOMAIN spans = 1 .. n
    BY <2>1
  <2>3. \A i \in 1 .. n : spans[i] \in StoredSpan
    BY <2>1
  <2> HIDE DEF raw, spans, n
  <2>4. Replaceable(spans, n, Symbol)
    <3>1. PIIKind \subseteq Symbol
      BY DEF Symbol
    <3>2. ASSUME NEW i \in 1 .. n
          PROVE  spans[i].kind \in Symbol /\ spans[i].text \in Seq(Symbol) /\ spans[i].text # <<>>
      BY <2>3, <3>1 DEF StoredSpan
    <3> QED
      BY <2>2, <3>2 DEF Replaceable
  <2>5. \A i \in 1 .. n : Unbracketed(spans[i].text)
    <3> TAKE i \in 1 .. n
    <3>1. spans[i].text \in Values(spans) /\ spans[i].text \in Seq(Symbol)
      BY <2>2, <2>4 DEF Values, Replaceable
    <3>2. {"[", "]"} \cap Symbols(spans[i].text) = {}
      BY <3>1 DEF spans
    <3> QED
      BY <3>1, <3>2 DEF Symbols, Unbracketed
  <2>6. {"[", "]"} \subseteq Symbol
    BY DEF Symbol
  <2>7. value \in Values(spans) /\ word \in Words(value) /\ word \in Words(Redacted(raw, spans))
    BY <2>1 DEF spans
  <2>8. \/ StaysWhole(word, value, raw, Values(spans))
        \/ \E i \in DOMAIN spans : word = <<spans[i].kind>>
    BY <2>1, <2>2, <2>4, <2>5, <2>6, <2>7, LeakIsExplained
  <2> QED
    BY <2>8 DEF raw, spans
<1> QED
  BY <1>1, CInvInvariant, PTL

\* A hit that PresidioPIIDetector would keep alone is still covered when other hits come before it:
\* the duplicates and overlaps it drops lie inside spans that it kept.
THEOREM NoHitCostsAnother == Spec => []NothingIsSwallowed
<1>1. CInv => NothingIsSwallowed
  <2> SUFFICES ASSUME CInv, stage = "detected" PROVE NothingIsSwallowed
    BY DEF NothingIsSwallowed
  <2>1. cv \in Seq(Symbol) /\ Space \in Symbol /\ Newline \in Symbol
    BY CVTyped DEF CInv, StageInv, Symbol
  <2>2. PICK n \in Nat : DOMAIN hits = 1 .. n /\ \A i \in 1 .. n : Inside(cv, hits[i])
    BY DEF CInv, HitsInv
  <2>3. found = Detect(cv, hits)
    BY DEF CInv, HitsInv
  <2>4. \A h \in 1 .. n :
          LET alone == Detect(cv, <<hits[h]>>).spans
          IN  \A i \in DOMAIN alone : Covered(alone[i].text, found.spans)
    BY <2>1, <2>2, <2>3, DetectKeeps
  <2> QED
    BY <2>2, <2>4 DEF NothingIsSwallowed, Covered
<1> QED
  BY <1>1, CInvInvariant, PTL

\* src/src/schemas/ingestion.py:29: what a CV is stored under is the same however
\* often its PDF or the cached text of it is ingested, unless a word was cut.
THEOREM IdIsKept == Spec => []ReingestionKeepsTheId
<1>1. CInv => ReingestionKeepsTheId
  <2> SUFFICES ASSUME CInv, NEW e \in store, NEW f \in store, e.cv_id # f.cv_id
               PROVE  CutWord(e.raw) \/ CutWord(f.raw)
    BY DEF ReingestionKeepsTheId
  <2>1. /\ e.raw # Null /\ ReadOf(e.raw) /\ e.cv_id = normalise(e.raw)
        /\ f.raw # Null /\ ReadOf(f.raw) /\ f.cv_id = normalise(f.raw)
        /\ cachedFrom \in PDFs
    BY DEF CInv, StoreInv, OriginInv, DocumentInv
  <2>2. e.raw # f.raw
    BY <2>1
  <2> DEFINE once == FromPDF(cachedFrom)
             again == FromText(once)
  <2>3. {e.raw, f.raw} = {once, again} /\ once # Null /\ again # Null /\ again # once
    BY <2>1, <2>2 DEF ReadOf
  <2>4. CutWord(once)
    BY <2>1, <2>3, ReadAgain
  <2> HIDE DEF once, again
  <2> QED
    BY <2>3, <2>4
<1> QED
  BY <1>1, CInvInvariant, PTL
===============================================================================
