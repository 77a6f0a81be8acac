------------------------------ MODULE PIIDetection ------------------------------
(***************************************************************************)
(* src/src/services/presidio_detector.py and pii_base.py: which of the     *)
(* analyzer's hits in a CV are recorded as personal data, and as what.     *)
(*                                                                         *)
(* A hit is [entity, first, last]: the analyzer (Presidio and spaCy) is    *)
(* outside the repository, and what it reports is given.  A range is the   *)
(* set of positions of a value in the text.                                *)
(***************************************************************************)
EXTENDS Documents

CONSTANTS
  NameParts,   (* capitalised word symbols *)
  Years,       (* the numbers from 1900 to 2099 *)
  AgeOf,       (* the texts that parse as a date, and the age it would give *)
  LinkWindow   (* PERSONAL_LINK_CONTEXT_WINDOW *)

ENTITY_TO_KIND ==
  [PERSON |-> "person_name", NRP |-> "nationality",
   NATIONALITY_STATUS |-> "nationality", LOCATION |-> "street_address",
   DATE_TIME |-> "date_of_birth", EMAIL_ADDRESS |-> "other_identifier",
   PHONE_NUMBER |-> "other_identifier", URL |-> "other_identifier",
   MARITAL_FAMILY |-> "marital_or_family", NZ_IRD_NUMBER |-> "other_identifier",
   NZ_DRIVERS_LICENCE |-> "other_identifier", NZ_POSTCODE_LINE |-> "street_address"]

PIIKind == {ENTITY_TO_KIND[e] : e \in DOMAIN ENTITY_TO_KIND} \cup {"referee"}

PRE_VALIDATED_ENTITY_TYPES ==
  {"EMAIL_ADDRESS", "PHONE_NUMBER", "URL", "NZ_IRD_NUMBER", "NZ_DRIVERS_LICENCE"}

Symbols(value) == {value[i] : i \in DOMAIN value}

ValueAt(text, range) == SubSeq(text, Min(range), Max(range))

-------------------------------------------------------------------------------
(* Sections of a CV *)

REFEREE_HEADING == {<<w>> : w \in {"referee", "referees", "reference", "references"}}

Qualifiers == {"work", "professional", "employment", "career", "relevant", "industry"}

ContentPhrases ==
  {<<w>> : w \in {"education", "experience", "employment", "skill", "skills",
                  "project", "projects", "portfolio"}} \cup
  {<<"work", Space, "history">>, <<"employment", Space, "history">>,
   <<"technical", Space, "skills">>, <<"key", Space, "projects">>}

RefereeStart(text) ==
  SectionStart(text, {i \in LineStarts(text) : OpensWith(text, REFEREE_HEADING, i)})

\* CONTENT_SECTION_HEADING: a word may stand before the name of the section.
ContentStart(text) ==
  SectionStart(text,
               {i \in LineStarts(text) :
                  \/ OpensWith(text, ContentPhrases, i)
                  \/ /\ OpensWith(text, {<<q, Space>> : q \in Qualifiers}, i)
                     /\ OpensWith(text, ContentPhrases, i + 2)})

-------------------------------------------------------------------------------
(* Guards *)

ContactMarks ==
  {"@", "https", "http", "www", "email", "phone", "mobile", "linkedin", "github",
   "ird", "passport", "facebook", "twitter", "instagram"}

\* CONTACT_OR_ID_PATTERN
LooksLikeContact(value) == Symbols(value) \cap ContactMarks # {}

LinkWords == {"linkedin", "github", "portfolio", "website", "profile", "blog"}

\* A URL is unmistakable, or a word for a link stands shortly before it.
LooksLikePersonalLink(text, start, value) ==
  \/ LooksLikeContact(value)
  \/ \E i \in DOMAIN text : i < start /\ i >= start - LinkWindow /\ text[i] \in LinkWords

LooksLikeStreetAddress(value) == Symbols(value) \cap Numbers # {}

\* What no person's name holds.
NameBreaks == {Bullet, Newline, Slash}

\* PERSON_NAME_FRAGMENT_PATTERN: one to four capitalised words.
IsNameFragment(value) ==
  LET firsts == {i \in DOMAIN value : i = 1 \/ IsWhite(value[i - 1])}
  IN  /\ \A i \in DOMAIN value : IsWhite(value[i]) \/ value[i] \in NameParts
      /\ Cardinality({i \in firsts : ~IsWhite(value[i])}) \in 1 .. 4

\* _person_name_fragment: the name a PERSON hit is cut back to, or {}.
NameRange(text, range) ==
  LET breaks == {i \in range : text[i] \in NameBreaks}
      head == Ink(text, {i \in range : \A b \in breaks : i < b})
  IN  IF breaks = {} THEN range
      ELSE IF head # {} /\ IsNameFragment(ValueAt(text, head)) THEN head
      ELSE {}

RangeWords == {"to", "thru", "through", "until", "til", "present", "current", "now"}

\* is_date_range: a dash between blanks, a word for a range, or two years.
IsDateRange(value) ==
  \/ Occurs(<<Space, Hyphen, Space>>, value)
  \/ Symbols(value) \cap RangeWords # {}
  \/ Cardinality({i \in DOMAIN value : value[i] \in Years}) >= 2

\* is_valid_dob_span, for a text that parses as a date.
IsValidDob(value) == ~IsDateRange(value) /\ AgeOf[value] \in 0 .. 120

FORBIDDEN_REDACTION_KEYWORDS ==
  {"diploma", "degree", "university", "limited", "ltd", "certificate", "college",
   "institute"}

\* is_valid_pii_span
IsValidSpan(value, kind) ==
  /\ kind = "marital_or_family" => Symbols(value) \cap FORBIDDEN_REDACTION_KEYWORDS = {}
  /\ kind = "date_of_birth" => IsValidDob(value)
  /\ kind = "other_identifier" => LooksLikeContact(value)

-------------------------------------------------------------------------------
(* PresidioPIIDetector.detect *)

\* A name after the heading of the referees is a referee's.
KindOf(text, hit, range) ==
  IF hit.entity = "PERSON" /\ Min(range) >= RefereeStart(text) THEN "referee"
  ELSE ENTITY_TO_KIND[hit.entity]

Narrowed(text, hit, range) == IF hit.entity = "PERSON" THEN NameRange(text, range) ELSE range

\* The guard that rejects a hit, or "" if none does.
Rejection(text, hit, range) ==
  LET value == ValueAt(text, range)
      kind == KindOf(text, hit, range)
  IN  IF hit.entity = "URL" /\ ~LooksLikePersonalLink(text, Min(range), value)
        THEN "not_a_personal_link"
      ELSE IF kind = "person_name" /\ Min(range) >= ContentStart(text)
        THEN "outside_header_block"
      ELSE IF kind = "street_address" /\ ~LooksLikeStreetAddress(value)
        THEN "not_street_shaped"
      ELSE IF kind = "date_of_birth" /\ value \notin DOMAIN AgeOf
        THEN "not_a_parseable_date"
      ELSE IF ~ContainsText(text, value)
        THEN "not_in_document"
      ELSE IF hit.entity \notin PRE_VALIDATED_ENTITY_TYPES /\ ~IsValidSpan(value, kind)
        THEN "validation_guard_rejected"
      ELSE ""

Span(kind, value) == [kind |-> kind, text |-> value]

IsSeen(value, spans) == \E i \in DOMAIN spans : normalise(spans[i].text) = normalise(value)

Rejected(found, reason) == [found EXCEPT !.rejections = Append(@, reason)]

\* Mutant: the range a name was cut out of is taken for accepted as a whole.
AcceptedWhole(text, found, hit, hitRange) ==
  LET range == Narrowed(text, hit, hitRange)
      value == ValueAt(text, range)
  IN  IF IsSeen(value, found.spans) THEN found
      ELSE [found EXCEPT !.spans = Append(@, Span(KindOf(text, hit, range), value)),
                         !.ranges = @ \cup {hitRange}]

\* A value is recorded once, however often it is hit.
Accepted(text, found, hit, hitRange) ==
  LET range == Narrowed(text, hit, hitRange)
      value == ValueAt(text, range)
  IN  IF IsSeen(value, found.spans) THEN found
      ELSE [found EXCEPT !.spans = Append(@, Span(KindOf(text, hit, range), value)),
                         !.ranges = @ \cup {range}]

\* One hit: a hit inside an accepted range is dropped unseen.
Judge(text, found, hit) ==
  LET hitRange == Ink(text, hit.first .. hit.last)
      range == Narrowed(text, hit, hitRange)
      reason == Rejection(text, hit, range)
  IN  IF hitRange = {} \/ \E r \in found.ranges : hitRange \subseteq r THEN found
      ELSE IF range = {} THEN Rejected(found, "not_name_shaped")
      ELSE IF reason # "" THEN Rejected(found, reason)
      ELSE Accepted(text, found, hit, hitRange)

\* Hits are judged from the left, the longest first; the analyzer's own order
\* decides between hits of one range.
InOrder(hits) ==
  \A i, j \in DOMAIN hits :
    i < j => \/ hits[i].first < hits[j].first
             \/ hits[i].first = hits[j].first /\ hits[i].last >= hits[j].last

Detect(text, hits) ==
  FoldLeft(LAMBDA found, hit : Judge(text, found, hit),
           [spans |-> <<>>, ranges |-> {}, rejections |-> <<>>], hits)

\* The values of another list are recorded after those recorded already.
Recorded(all, spans) ==
  FoldLeft(LAMBDA done, span : IF IsSeen(span.text, done) THEN done ELSE Append(done, span),
           all, spans)

\* CompositePIIDetector.detect, over what each of its detectors found.
Composite(lists) == FoldLeft(Recorded, <<>>, lists)
===============================================================================
