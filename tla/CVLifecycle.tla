------------------------------ MODULE CVLifecycle -------------------------------
(***************************************************************************)
(* One candidate's CV from the PDF on disk to the runs that match it and   *)
(* to the file the site serves: src/src/harness/runner.py (_load_document),*)
(* src/src/services/ingestion_pipeline.py, src/src/schemas/ingestion.py,   *)
(* the skill matching of src/src/services/matching_pipeline.py and         *)
(* src/scripts/build_serving_cv.py.                                        *)
(*                                                                         *)
(* Loading a PDF leaves its text beside it as a TXT file, and the tasks    *)
(* list the TXT file first.  The owner may edit the PDF at any time        *)
(* between two ingestions.                                                 *)
(***************************************************************************)
EXTENDS PIIDetection

CONSTANTS
  PDFs,              (* what a PDF may give pypdf, pymupdf and OCR *)
  Recognised,        (* what the analyzer may recognise: [entity, text] *)
  MaxHits,           (* bound on the hits of one detection *)
  RequirementLists,  (* what the model may extract from a listing *)
  Decisions,         (* what it may answer about them *)
  MaxIngestions,     (* bound on the ingestions *)
  MaxEdits           (* bound on the edits of the PDF *)

ASSUME PDFsAssumption == Null \notin PDFs /\ PDFs \subseteq Seq({Null} \cup Seq(STRING))
ASSUME RecognisedAssumption ==
  Recognised \subseteq [entity : DOMAIN ENTITY_TO_KIND, text : Seq(STRING)]
ASSUME RequirementListsAssumption == RequirementLists \subseteq Seq(Seq(STRING))
ASSUME DecisionsAssumption == Decisions \subseteq Seq([id : Nat, matched : BOOLEAN])

Skills == INSTANCE SkillMatching

VARIABLES
  pdf,         (* the PDF as it is now *)
  edits,       (* how often it was edited *)
  cache,       (* the TXT file beside it, or Null *)
  cachedFrom,  (* the PDF that file was extracted from (history) *)
  stage,       (* of the ingestion that runs, or "idle" *)
  ingestions,  (* how many were begun *)
  cv,          (* the text of the document that is ingested, or Null *)
  hits,        (* what the analyzer reported of it, in order *)
  found,       (* what the detector made of them *)
  store,       (* the ingested CVs *)
  match,       (* what the match that just ran made of which CV, or Null *)
  serving      (* the file that was just built to be served, or Null *)

document == <<pdf, edits, cache, cachedFrom>>
ingestion == <<stage, ingestions, cv, hits, found>>
output == <<match, serving>>
vars == <<document, ingestion, store, output>>

\* Nothing reads what a match or a build returned: it is kept for one step.
Forget == match' = Null /\ serving' = Null

Nothing == [spans |-> <<>>, ranges |-> {}, rejections |-> <<>>]

Init ==
  /\ pdf \in PDFs
  /\ edits = 0
  /\ cache = Null
  /\ cachedFrom = Null
  /\ stage = "idle"
  /\ ingestions = 0
  /\ cv = Null
  /\ hits = <<>>
  /\ found = Nothing
  /\ store = {}
  /\ match = Null
  /\ serving = Null

-------------------------------------------------------------------------------
(* Loading the document *)

EditPDF ==
  /\ stage = "idle"
  /\ edits < MaxEdits
  /\ pdf' \in PDFs \ {pdf}
  /\ edits' = edits + 1
  /\ Forget
  /\ UNCHANGED <<cache, cachedFrom, ingestion, store>>

Begin ==
  /\ stage = "idle"
  /\ ingestions < MaxIngestions
  /\ ingestions' = ingestions + 1
  /\ Forget
  /\ UNCHANGED <<pdf, edits, hits, found, store>>

\* Mutant: the PDF is preferred to its text.
PrefersPDF == FALSE

\* The task's first path that exists is its document.
PrefersText == cache # Null

LoadText ==
  /\ Begin
  /\ PrefersText
  /\ cv' = FromText(cache)
  /\ cv' # Null
  /\ stage' = "loaded"
  /\ UNCHANGED <<cache, cachedFrom>>

\* from_pdf(cache_text=True)
LoadPDF ==
  /\ Begin
  /\ ~PrefersText
  /\ cv' = FromPDF(pdf)
  /\ cv' # Null
  /\ cache' = cv'
  /\ cachedFrom' = pdf
  /\ stage' = "loaded"

\* The text is kept before it is used: the run ends where that fails, or with
\* its process, and leaves no file, one with a beginning of the text, or the
\* whole text.
KeepingFails ==
  /\ Begin
  /\ ~PrefersText
  /\ \E text \in {FromPDF(pdf)} \ {Null} :
       \/ UNCHANGED <<cache, cachedFrom>>
       \/ /\ cachedFrom' = pdf
          /\ \E n \in 0 .. Len(text) : cache' = SubSeq(text, 1, n)
          /\ cache' # Null
  /\ UNCHANGED <<stage, cv>>

\* PDFTextExtractionError or ValueError: the run ends before any detection.
LoadFails ==
  /\ Begin
  /\ IF PrefersText THEN FromText(cache) = Null ELSE FromPDF(pdf) = Null
  /\ UNCHANGED <<stage, cache, cachedFrom, cv>>

-------------------------------------------------------------------------------
(* IngestionPipeline.run *)

\* Any of them may be reported, whatever the model that finds them.
PossibleHits(text) ==
  UNION {{[entity |-> r.entity, first |-> i, last |-> i + Len(r.text) - 1] :
            i \in {j \in DOMAIN text : MatchesAt(text, r.text, j)}} : r \in Recognised}

DetectPII ==
  /\ stage = "loaded"
  /\ \E n \in 0 .. MaxHits : \E some \in kSubset(n, PossibleHits(cv)) :
       \E order \in SetToSeqs(some) :
         /\ InOrder(order)
         /\ hits' = order
         /\ found' = Detect(cv, order)
  /\ stage' = "detected"
  /\ UNCHANGED <<document, ingestions, cv, store, output>>

\* Mutant: the id is that of the redacted text.
IdOfRedacted(raw, redacted) == normalise(redacted)

\* from_raw_text: the id is a digest of the text before redaction.
IdOf(raw, redacted) == normalise(raw)

\* RedactedCV.from_raw_text; raw and origin are kept for the properties.
RedactedCV(raw, spans) ==
  [cv_id |-> IdOf(raw, Redacted(raw, spans)), text |-> Redacted(raw, spans),
   pii_spans |-> spans, raw |-> raw, origin |-> cachedFrom]

\* Mutant: nothing is replaced.
Everything(new) == {old \in store : old # new}

\* The store keeps one CV of an id, the last one.
Others(new) == {old \in store : old.cv_id # new.cv_id}

RedactAndStore ==
  /\ stage = "detected"
  /\ LET new == RedactedCV(cv, Composite(<<found.spans>>))
     IN  store' = Others(new) \cup {new}
  /\ stage' = "idle"
  /\ cv' = Null
  /\ hits' = <<>>
  /\ found' = Nothing
  /\ UNCHANGED <<document, ingestions, output>>

-------------------------------------------------------------------------------
(* Matching *)

\* An answer the response models refuse is asked for again, and never used.
Match ==
  /\ stage = "idle"
  /\ output = <<Null, Null>>
  /\ \E e \in store, requirements \in RequirementLists, decision \in Decisions :
       /\ Skills!ValidRequirements(requirements)
       /\ Skills!ValidDecision(decision, requirements)
       /\ match' = [cv |-> e, requirements |-> requirements, decision |-> decision,
                    skills |-> Skills!SkillEvaluation(e.text, requirements, decision)]
  /\ UNCHANGED <<document, ingestion, store, serving>>

-------------------------------------------------------------------------------
(* scripts/build_serving_cv.py *)

Withheld == <<"[", "withheld", "]">>

\* RedactedCV.for_serving
ForServing(e) ==
  [text |-> e.text,
   pii_spans |-> [i \in DOMAIN e.pii_spans |-> Span(e.pii_spans[i].kind, Withheld)]]

\* A value is in the copy's text or among its spans.
IsIn(value, copy) ==
  \/ Occurs(value, copy.text)
  \/ \E i \in DOMAIN copy.pii_spans : Occurs(value, copy.pii_spans[i].text)

\* _find_leaks looks for a value in the finished JSON, where a newline is
\* escaped: a value with a newline in it is never found.
FindLeaks(copy, e) ==
  {i \in DOMAIN e.pii_spans :
     Newline \notin Symbols(e.pii_spans[i].text) /\ IsIn(e.pii_spans[i].text, copy)}

Publish ==
  /\ stage = "idle"
  /\ output = <<Null, Null>>
  /\ \E e \in store, force \in BOOLEAN :
       /\ FindLeaks(ForServing(e), e) = {} \/ force
       /\ serving' = [copy |-> ForServing(e), original |-> e, forced |-> force]
  /\ UNCHANGED <<document, ingestion, store, match>>

Ended ==
  /\ stage = "idle"
  /\ ingestions = MaxIngestions
  /\ UNCHANGED vars

Next ==
  \/ EditPDF \/ LoadText \/ LoadPDF \/ KeepingFails \/ LoadFails
  \/ DetectPII \/ RedactAndStore
  \/ Match \/ Publish
  \/ Ended

Spec == Init /\ [][Next]_vars

-------------------------------------------------------------------------------
(* Properties *)

TypeOK ==
  /\ stage \in {"idle", "loaded", "detected"}
  /\ (cv = Null) = (stage = "idle")
  /\ (cache = Null) = (cachedFrom = Null)
  /\ \A e \in store : \A i \in DOMAIN e.pii_spans : e.pii_spans[i].kind \in PIIKind
  /\ \A e, f \in store : e.cv_id = f.cv_id => e = f

\* presidio_detector.py:342: no hit costs another one its value.  What the
\* detector would record of a hit alone is part of a recorded value, however
\* the hits before it were cut, rejected or dropped.
NothingIsSwallowed ==
  stage = "detected" =>
    \A h \in DOMAIN hits :
      LET alone == Detect(cv, <<hits[h]>>).spans
      IN  \A i \in DOMAIN alone : \E j \in DOMAIN found.spans :
            Occurs(normalise(alone[i].text), normalise(found.spans[j].text))

\* The whole words of a text.
Words(text) ==
  LET starts == {i \in DOMAIN text : IsWord(text[i]) /\ (i = 1 \/ ~IsWord(text[i - 1]))}
      WordEnd(i) == Min({j \in i .. Len(text) : j = Len(text) \/ ~IsWord(text[j + 1])})
  IN  {SubSeq(text, i, WordEnd(i)) : i \in starts}

\* An occurrence of the value at j is cut: one of another recorded value, or of
\* the value itself, shares a part of it, and neither lies inside the other.
CutAt(text, value, j, values) ==
  \E other \in values, k \in DOMAIN text :
    /\ WholeWordAt(text, other, k)
    /\ k < j + Len(value) /\ j < k + Len(other)
    /\ ~(j <= k /\ k + Len(other) <= j + Len(value))
    /\ ~(k <= j /\ j + Len(value) <= k + Len(other))

\* The word stands somewhere in the text, and every full occurrence of the value
\* around it is cut; there may be none.
StaysWhole(word, value, text, values) ==
  \E i \in DOMAIN text :
    /\ WholeWordAt(text, word, i)
    /\ \A j \in DOMAIN text :
         WholeWordAt(text, value, j) /\ j <= i /\ i + Len(word) <= j + Len(value) =>
           CutAt(text, value, j, values)

\* document_parser.py:225: a word of a recorded value is left in the redacted
\* text only where the CV has it outside the value (or the value ends in the
\* middle of a word), where another occurrence cuts this one, or as the name of
\* a kind in a token.  Values that hold a bracket may take one from a token.
LeaksAreExplained ==
  stage = "idle" =>
    \A e \in store :
      LET values == {e.pii_spans[i].text : i \in DOMAIN e.pii_spans}
      IN  \A value \in values : \A word \in Words(value) \cap Words(e.text) :
            \/ StaysWhole(word, value, e.raw, values)
            \/ \E i \in DOMAIN e.pii_spans : word = <<e.pii_spans[i].kind>>
            \/ \E other \in values : {"[", "]"} \cap Symbols(other) # {}

\* document_parser.py:205: redaction costs no skill.  A requirement the
\* document names, and whose words are no words of a recorded value, is met,
\* whatever the model says of it.  A mark at the edge of a name (".net"), or a
\* value of nothing but marks, may stand in a value's or a name's way.
SkillsInPlainSightAreMet ==
  match # Null =>
    \A id \in DOMAIN match.requirements :
      LET name == match.requirements[id]
      IN  /\ Skills!ContainsSkillName(match.cv.raw, name)
          /\ \A alias \in Skills!AliasesFor(name) : IsWord(Head(alias)) /\ IsWord(Last(alias))
          /\ \A i \in DOMAIN match.cv.pii_spans :
               /\ Words(match.cv.pii_spans[i].text) # {}
               /\ \A alias \in Skills!AliasesFor(name) :
                    Words(match.cv.pii_spans[i].text) \cap Words(alias) = {}
          => \E k \in DOMAIN match.skills.matched : match.skills.matched[k] = name

\* A match whose answers were accepted never ends in an error of
\* SkillMatchResult after all the model calls: the requirements are divided
\* without a rest, and none is on both sides.
SkillResultsAreValid ==
  match # Null => Skills!ValidSkillMatch(match.requirements, match.skills)

\* src/src/schemas/ingestion.py:29: ingesting a CV again gives the same id,
\* whatever the detector finds this time, unless a word of it was hyphenated
\* over the end of a line and only cleaning brought the parts together.
CutWord(text) ==
  \E i \in DOMAIN text :
    /\ i > 1 /\ i + 2 <= Len(text)
    /\ IsWord(text[i - 1]) /\ text[i] = Hyphen /\ text[i + 1] = Newline
    /\ IsWord(text[i + 2])

ReingestionKeepsTheId ==
  \A e, f \in store :
    e.origin = f.origin /\ e.cv_id # f.cv_id => CutWord(e.raw) \/ CutWord(f.raw)

\* document_parser.py:156: once a PDF was read, later versions of it are not:
\* every CV in the store is one version's.
FirstReadingWins == \A e, f \in store : e.origin = f.origin

\* scripts/build_serving_cv.py:20: "every original span value is searched for
\* in the finished JSON, and a hit aborts the build".
ServingFileIsClean ==
  serving # Null /\ ~serving.forced =>
    \A i \in DOMAIN serving.original.pii_spans :
      ~IsIn(serving.original.pii_spans[i].text, serving.copy)
===============================================================================
