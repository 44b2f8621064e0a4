---------------------------- MODULE MCOrgNotes -----------------------------
(* Small instances of OrgNotes. *)
EXTENDS OrgNotes

MCItem(header, category, text) ==
  [header |-> header, category |-> category, text |-> text]

Line(words) == words \o <<NL>>
Heading == Line(<<Star, SP, "x">>)

\* A word of Cyrillic letters takes two bytes for each byte of CP1251, a dash takes three for
\* its one; all else is ASCII.
MCExtra ==
  [symbol \in Symbols |-> IF symbol = "slovo" THEN 0 ELSE IF symbol = "dash" THEN 1 ELSE -1]
MCTails == {<<>>, <<"x">>}

Refused == Heading \o Line(<<"SCHEDULED:", SP, "<no date>">>)

\* Files of an owner: one that begins with a blank line and has a tag, a date and a text;
\* one with a directive, blank lines and stars that are no headings; one with timestamps the
\* parser does not take, the last one at the end of the file; one with a blank at its end.
MCOwnerFiles ==
  {Line(<<>>) \o Line(<<Star, SP, "TODO", SP, "[#A]", SP, "x", TAB, Colon, "y", Colon>>)
     \o Line(<<"SCHEDULED:", SP, "<date>">>) \o Line(<<"x", TAB, "slovo">>),
   Line(<<Directive, "x">>) \o Line(<<>>) \o Heading \o Line(<<"y">>)
     \o Line(<<>>) \o Line(<<Star, Star, SP, "y">>) \o Line(<<SP, Star, SP, "y">>),
   Refused \o Refused \o Heading \o <<"SCHEDULED:", SP, "<no date>">>,
   Heading \o <<SP>>}

\* Headers, texts and categories of records: plain ones, and the ones that
\* mean something to the scanner, are empty, have no end or cannot be converted.
Tag == <<"y">>
MCItems ==
  {MCItem(<<"x", SP, "slovo">>, Tag, <<"x", NL, NL, "y">>),
   MCItem(<<>>, <<Default>>, <<"y", SP, "x", NL>>),
   MCItem(<<"y", SP, "dash">>, NULL, <<"dash">>),
   MCItem(<<"TODO", SP, "y">>, <<"x", SP, "0xE0">>,
          <<"x", NL, Star, SP, "y", NL, Directive, "x", NL, "x", NL, NL, NL, "y">>),
   MCItem(<<"x", SP, Colon, "y", Colon>>, NULL, <<"SCHEDULED:", SP, "<no date>">>),
   MCItem(<<"0x98">>, NULL, NULL)}

\* "*", and the line of a short header without its newline; of an empty one, with it
MCCuts == {1, 3}

\* What the owner of a handheld writes down every day.
PlainFiles == {Heading}
DailyItems ==
  {MCItem(<<"x">>, NULL, <<"y">>),
   MCItem(<<"x">>, NULL, <<NL, "y">>)}
=============================================================================
