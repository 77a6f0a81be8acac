------------------------------- MODULE Documents -------------------------------
(***************************************************************************)
(* src/src/services/document_parser.py: what is done to the text of a      *)
(* document, as operators.                                                 *)
(*                                                                         *)
(* A text is a sequence of symbols.  Marks are the symbols that are not    *)
(* part of a word; every other symbol is a word or a piece of one, and     *)
(* pieces next to each other are one word: <<"java", "script">>.  Case is  *)
(* folded, a piece of digits is a number, lengths are counted in symbols.  *)
(***************************************************************************)
EXTENDS Integers, SequencesExt

CONSTANTS
  Null,     (* no value *)
  Numbers   (* the word symbols that are numbers *)

ASSUME NumbersAssumption == "page" \notin Numbers

Space == " "
Newline == "\n"
Return == "\r"
NoBreak == "nbsp"
Hyphen == "-"
Bullet == "*"
Slash == "/"
Weird == "~"  (* a character ordinary prose does not use *)

White == {Space, Newline, Return, NoBreak}
Marks == White \cup {Hyphen, Bullet, Slash, Weird, "[", "]", "@", ".", ":"}

IsWhite(symbol) == symbol \in White
IsWord(symbol) == symbol \notin Marks

MatchesAt(text, value, i) ==
  i + Len(value) - 1 <= Len(text) /\ SubSeq(text, i, i + Len(value) - 1) = value

Occurs(value, text) == \E i \in DOMAIN text : MatchesAt(text, value, i)

\* The positions of a set that hold something else than white space, from the
\* first to the last: strip().
Ink(text, range) ==
  LET ink == {i \in range : ~IsWhite(text[i])}
  IN  IF ink = {} THEN {} ELSE Min(ink) .. Max(ink)

Strip(text) ==
  LET ink == Ink(text, DOMAIN text)
  IN  IF ink = {} THEN <<>> ELSE SubSeq(text, Min(ink), Max(ink))

\* Runs of white space become one space.
Squeeze(text) ==
  FoldLeft(LAMBDA done, s : IF ~IsWhite(s) THEN Append(done, s)
                            ELSE IF done # <<>> /\ Last(done) = Space THEN done
                            ELSE Append(done, Space),
           <<>>, text)

normalise(text) == Strip(Squeeze(text))

-------------------------------------------------------------------------------
(* _clean_pdf_text *)

\* One newline ends a line, whatever ended it.
UnixLines(text) ==
  LET kept == {i \in DOMAIN text :
                 ~(text[i] = Return /\ i < Len(text) /\ text[i + 1] = Newline)}
      Converted(s) == IF s = Return THEN Newline ELSE IF s = NoBreak THEN Space ELSE s
  IN  FoldLeft(LAMBDA done, i : IF i \in kept THEN Append(done, Converted(text[i])) ELSE done,
               <<>>, [i \in DOMAIN text |-> i])

\* A word hyphenated over the end of a line is put together again, if nothing
\* stands between the hyphen, the end of the line and the rest of the word.
Dehyphenated(text) ==
  LET joint(i) == /\ i > 1 /\ i + 2 <= Len(text)
                  /\ IsWord(text[i - 1]) /\ text[i] = Hyphen
                  /\ text[i + 1] = Newline /\ IsWord(text[i + 2])
  IN  FoldLeft(LAMBDA done, i : IF joint(i) \/ (i > 1 /\ joint(i - 1)) THEN done
                                ELSE Append(done, text[i]),
               <<>>, [i \in DOMAIN text |-> i])

Lines(text) ==
  FoldLeft(LAMBDA lines, s :
             IF s = Newline THEN Append(lines, <<>>)
             ELSE [lines EXCEPT ![Len(lines)] = Append(@, s)],
           << <<>> >>, text)

\* A text without its white space.
Parts(text) ==
  FoldLeft(LAMBDA done, s : IF IsWhite(s) THEN done ELSE Append(done, s), <<>>, text)

\* "3", "page 3", "3 of 7", "page 3 of 7"
IsPageNumber(text) ==
  LET parts == Parts(text)
      rest == IF parts # <<>> /\ Head(parts) = "page" THEN Tail(parts) ELSE parts
  IN  /\ Len(rest) \in {1, 3}
      /\ rest[1] \in Numbers
      /\ Len(rest) = 3 => rest[2] = "of" /\ rest[3] \in Numbers

Joined(lines) ==
  FoldLeft(LAMBDA text, line : text \o <<Newline>> \o line, Head(lines), Tail(lines))

\* An empty line does not follow another one.
WithLine(done, line) ==
  IF line = <<>> /\ done # <<>> /\ Last(done) = <<>> THEN done ELSE Append(done, line)

\* Lines without page numbers, which may go over several lines, and outer
\* blanks, at most one empty line between two others.  upto is the last line
\* that was looked at.
CleanLines(lines) ==
  LET PageEnds(i) == {j \in i .. Len(lines) : IsPageNumber(Joined(SubSeq(lines, i, j)))}
  IN  FoldLeft(LAMBDA done, i :
                 LET ends == PageEnds(i)
                 IN  IF i <= done.upto THEN done
                     ELSE IF ends # {}
                     THEN [kept |-> WithLine(done.kept, <<>>), upto |-> Max(ends)]
                     ELSE [kept |-> WithLine(done.kept, normalise(lines[i])), upto |-> i],
               [kept |-> <<>>, upto |-> 0], [i \in DOMAIN lines |-> i]).kept

Cleaned(text) == Strip(Joined(CleanLines(Lines(Dehyphenated(UnixLines(text))))))

-------------------------------------------------------------------------------
(* assess_text_quality, from_text, from_pdf *)

\* There are words, and fewer than one visible symbol in four is odd.
IsReadable(text) ==
  LET visible == {i \in DOMAIN text : ~IsWhite(text[i])}
  IN  /\ \E i \in visible : IsWord(text[i])
      /\ 4 * Cardinality({i \in visible : text[i] = Weird}) < Cardinality(visible)

\* The text of a TXT file, or Null where from_text raises ValueError.
FromText(text) ==
  LET cleaned == Cleaned(text)
  IN  IF IsReadable(cleaned) THEN cleaned ELSE Null

\* What from_pdf takes from a PDF: pypdf, pymupdf and OCR are asked in this
\* order until one gives readable text; one that raises gives Null.
FromPDF(extractors) ==
  LET readable == {i \in DOMAIN extractors :
                     extractors[i] # Null /\ FromText(extractors[i]) # Null}
  IN  IF readable = {} THEN Null ELSE FromText(extractors[Min(readable)])

\* SourceDocument.contains: white space and case do not matter.
ContainsText(text, snippet) ==
  normalise(snippet) # <<>> /\ Occurs(normalise(snippet), normalise(text))

-------------------------------------------------------------------------------
(* Headings *)

LineStarts(text) == {1} \cup {i + 1 : i \in {j \in DOMAIN text : text[j] = Newline}}

LineEnd(text, i) == Min({Len(text) + 1} \cup {j \in DOMAIN text : j >= i /\ text[j] = Newline})

\* Mutant: a value is found in the middle of words too.
AnywhereAt(text, value, i) == MatchesAt(text, value, i)

\* _whole_word_pattern: an edge that is a word symbol does not border on one.
WholeWordAt(text, value, i) ==
  /\ MatchesAt(text, value, i)
  /\ IsWord(Head(value)) /\ i > 1 => ~IsWord(text[i - 1])
  /\ IsWord(Last(value)) /\ i + Len(value) <= Len(text) => ~IsWord(text[i + Len(value)])

\* The text has one of these phrases at this position.
OpensWith(text, phrases, i) == \E p \in phrases : WholeWordAt(text, p, i)

\* The position where the line of the first of these headings ends, or a
\* position after the text.
SectionStart(text, headings) ==
  IF headings = {} THEN Len(text) + 2 ELSE LineEnd(text, Min(headings))

-------------------------------------------------------------------------------
(* CandidateCV.redacted *)

Token(kind) == <<"[", kind, "]">>

\* re.sub of every occurrence, from the left.
Substituted(text, value, token) ==
  LET from[i \in 1 .. Len(text) + 1] ==
        IF i > Len(text) THEN <<>>
        ELSE IF WholeWordAt(text, value, i) THEN token \o from[i + Len(value)]
        ELSE <<text[i]>> \o from[i + 1]
  IN  from[1]

\* Mutant: the values are replaced in the order they were found.
AsFound(spans) == [i \in DOMAIN spans |-> i]

\* The longest values first, equally long ones as they were found.
LongestFirst(spans) ==
  LET Size(i) == Len(spans[i].text)
  IN  CHOOSE order \in SetToSeqs(DOMAIN spans) :
        \A k, l \in DOMAIN order :
          k < l => \/ Size(order[k]) > Size(order[l])
                   \/ Size(order[k]) = Size(order[l]) /\ order[k] < order[l]

Redacted(text, spans) ==
  FoldLeft(LAMBDA done, i : IF Strip(spans[i].text) = <<>> THEN done
                            ELSE Substituted(done, spans[i].text, Token(spans[i].kind)),
           text, LongestFirst(spans))
===============================================================================
