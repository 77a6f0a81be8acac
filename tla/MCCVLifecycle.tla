----------------------------- MODULE MCCVLifecycle ------------------------------
(***************************************************************************)
(* Model checking CVLifecycle.                                             *)
(***************************************************************************)
EXTENDS CVLifecycle

\* A name, glued by the analyzer to the next line; a word that is another
\* one's beginning; a value that starts over on the next line and may end in
\* the middle of a word; a referee; a page number over two lines, and a line
\* end of its own.
MCPlain ==
  <<"sonny", Space, "tapara", Newline, "java", Return, Newline, "java", "script", Newline,
    "page", Newline, Space, "1", Newline,
    "nationality", ":", Newline, "kiwi", Space, "ri", "ghts", Newline,
    "referees", Newline, "jane", Space, "java">>

\* A word cut at the end of a line, before a blank; a name written twice; a
\* birthday and years that are none; a name after the heading of the skills.
MCCut ==
  <<"sonny", Newline, "tapara", Newline,
    "sonny", Space, "tapara", Newline, "12", Slash, "05", Slash, "1990", Newline,
    "1990", Space, Hyphen, Space, "1999", Newline, "skills", Newline,
    "node", Space, "js", Newline, "jane", Space, "java", Newline,
    "back", Hyphen, Space, Newline, "end">>

\* An address of mail with a domain, beside its host's own name.
MCMail == <<"jo", "@", "tapara", ".", "nz", Newline, "tapara", Space, "java", "script">>

MCUnreadable == <<Weird, Weird, "ri">>

MCPDFs ==
  {<<MCPlain, Null, Null>>, <<MCUnreadable, Null, MCCut>>, <<Null, MCMail, MCPlain>>,
   <<Null, MCUnreadable, <<Space>> >>}

MCRecognised ==
  {[entity |-> "PERSON", text |-> <<"sonny", Space, "tapara", Newline, "java">>],
   [entity |-> "PERSON", text |-> <<"sonny", Space, "tapara">>],
   [entity |-> "PERSON", text |-> <<"sonny", Newline, "tapara">>],
   [entity |-> "PERSON", text |-> <<"java">>],
   [entity |-> "PERSON", text |-> <<"jane", Space, "java">>],
   [entity |-> "NATIONALITY_STATUS", text |-> <<"nationality", ":", Newline, "kiwi", Space, "ri">>],
   [entity |-> "NRP", text |-> <<"kiwi">>],
   [entity |-> "EMAIL_ADDRESS", text |-> <<"jo", "@", "tapara", ".", "nz">>],
   [entity |-> "DATE_TIME", text |-> <<"12", Slash, "05", Slash, "1990">>],
   [entity |-> "DATE_TIME", text |-> <<"1990", Space, Hyphen, Space, "1999">>],
   [entity |-> "URL", text |-> <<"tapara", ".", "nz">>]}

MCNumbers == {"1", "05", "12", "1990", "1999"}
MCYears == {"1990", "1999"}
MCNameParts == {"sonny", "tapara", "jane", "java", "kiwi"}
MCAgeOf == <<"12", Slash, "05", Slash, "1990">> :> 36

MCRequirementLists ==
  {<< <<"java", "script">>, <<"react">> >>, << <<"node", ".", "js">> >>,
   << <<"java">>, <<"java">> >>}

MCDecisions ==
  {<<[id |-> 1, matched |-> FALSE]>>,
   <<[id |-> 2, matched |-> TRUE], [id |-> 1, matched |-> FALSE]>>,
   <<[id |-> 1, matched |-> FALSE], [id |-> 1, matched |-> TRUE]>>}
===============================================================================
