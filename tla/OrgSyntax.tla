----------------------------- MODULE OrgSyntax -----------------------------
(***************************************************************************)
(* How src/orgmode/parser/ reads an org-file, and the text that            *)
(* org_notes_write() of src/orgmode/org_notes.c appends to it.             *)
(*                                                                         *)
(* A file is a sequence of symbols.  A symbol is a word, a byte or a       *)
(* construct the scanner tells apart; what it does not look into is a      *)
(* single symbol (a timestamp is one although it has blanks inside).       *)
(* Symbols next to each other are glued, as bytes are: <<"x", "*">> is the *)
(* word "x*".                                                              *)
(***************************************************************************)
EXTENDS Integers, Sequences, FiniteSets, SequencesExt

CONSTANTS
  Alnum,       \* words of ASCII letters and digits, but no TODO-keyword
  Signs,       \* words with other letters or punctuation
  Foreign,     \* words with a letter that CP1251 does not have
  Unassigned,  \* bytes CP1251 does not assign: iconv() refuses them
  Extra,       \* bytes of a symbol in UTF-8, less twice those in CP1251
  Tails,       \* bound: what may lie in memory behind a string without an end
  RawBytes,    \* bytes that are not UTF-8, as CP1251 letters are
  Dates,       \* timestamps that _insert_datetime() takes
  BadDates,    \* other texts in angle brackets that look like one
  NULL         \* the null pointer

SP  == " "
TAB == "\t"
NL  == "\n"
Star      == "*"
Colon     == ":"
Directive == "#+"
Default   == "Unfiled"
Keywords   == {"TODO", "VERIFIED", "DONE", "CANCELLED"}
Priorities == {"[#A]", "[#B]", "[#C]"}
Schedulers == {"SCHEDULED:", "DEADLINE:"}

Letters == Alnum \cup Keywords \cup {Default}
Glyphs  == Letters \cup Signs \cup Foreign \cup Dates \cup BadDates
             \cup Priorities \cup Schedulers \cup {Star, Colon, Directive}
Blanks  == {SP, TAB}
Symbols == Glyphs \cup Blanks \cup RawBytes \cup {NL}
Text    == Seq(Symbols)

\* What the scanner tells apart: blanks, bytes and newlines are in no word, and words are
\* no constructs.
Marks == Keywords \cup Priorities \cup Schedulers \cup Dates \cup BadDates
           \cup {Star, Colon, Directive}
ASSUME SymbolsDiffer ==
  /\ Glyphs \cap (Blanks \cup RawBytes \cup {NL}) = {}
  /\ RawBytes \cap (Blanks \cup {NL}) = {}
  /\ (Alnum \cup Signs \cup Foreign) \cap Marks = {}
  /\ Foreign \cap (Alnum \cup Signs) = {}
  /\ (Dates \cup BadDates) \cap (Keywords \cup Priorities \cup Schedulers
                                  \cup {Star, Colon, Directive, Default}) = {}
ASSUME UnassignedAreBytes == Unassigned \subseteq RawBytes
ASSUME ConversionOK ==
  /\ Extra \in [Symbols -> Int]
  /\ Tails \subseteq Text
  /\ <<>> \in Tails

Has(text, set) == \E i \in DOMAIN text : text[i] \in set

\* Position of the first symbol from i on that is not in the set.
Past(text, i, set) ==
  LET ends == {j \in i..Len(text) : text[j] \notin set}
  IN  IF ends = {} THEN Len(text) + 1 ELSE Min(ends)

-----------------------------------------------------------------------------
(* The scanner *)

\* Seeded fault: blanks before a star do not matter.
AtBolOrBlank(text, i) == i = 1 \/ text[i - 1] \in Blanks \cup {NL}

\* "^" of a pattern: the last symbol consumed was a newline.
AtBol(text, i) == i = 1 \/ text[i - 1] = NL
SpaceAt(text, i) == i <= Len(text) /\ text[i] = SP

IsTag(run) ==
  /\ Len(run) > 2
  /\ run[1] = Colon /\ Last(run) = Colon
  /\ \A i \in 2..(Len(run) - 1) : run[i] \in Letters

Token(kind, word, next) == [kind |-> kind, word |-> word, next |-> next]

\* The token whose first symbol is text[i]: the longest match, and of equally
\* long ones the pattern that comes first.
TokenAt(text, i) ==
  LET next == Past(text, i, Glyphs)
      run == SubSeq(text, i, next - 1)
      Is(set) == Len(run) = 1 /\ run[1] \in set /\ SpaceAt(text, next)
  IN  CASE Is({Star}) /\ AtBol(text, i) -> Token("STAR", run, next + 1)
        [] Is(Keywords)   -> Token("TODO", run, next + 1)
        [] Is(Priorities) -> Token("PRIORITY", run, next + 1)
        [] Is(Schedulers) -> Token("SCHEDULED", run, next + 1)
        [] IsTag(run)     -> Token("TAG", SubSeq(run, 2, Len(run) - 1), next)
        [] run[1] \in Dates \cup BadDates -> Token("DATE", <<run[1]>>, i + 1)
        [] OTHER -> Token("WORD", run, next)

\* A whole line that begins with "#+" and has more to it.
DirectiveAt(text, i) ==
  LET end == Past(text, i, Symbols \ {NL})
  IN  AtBol(text, i) /\ text[i] = Directive /\ end > i + 1 /\ end <= Len(text)

\* Newlines at the beginning of a line make one token together.
NewlineAt(text, i) ==
  Token("NEWLINE", <<>>, IF AtBol(text, i) THEN Past(text, i, {NL}) ELSE i + 1)

Tokens(text) ==
  LET from[i \in 1..(Len(text) + 1)] ==
        IF i > Len(text) THEN <<>>
        ELSE IF DirectiveAt(text, i)
             THEN from[Past(text, i, Symbols \ {NL}) + 1]
        ELSE IF text[i] \in Blanks \cup RawBytes THEN from[i + 1]
        ELSE LET token == IF text[i] = NL THEN NewlineAt(text, i)
                          ELSE TokenAt(text, i)
             IN  <<token>> \o from[token.next]
  IN  from[1]

-----------------------------------------------------------------------------
(* The grammar *)

\* A place of the parser is what it has read of an entry.  At these the entry
\* may be complete.
LineStarts == {"header", "dated", "text"}

Shift(place, kind) ==
  CASE kind = "STAR" /\ place \in LineStarts \cup {"start", "begun"} -> "star"
    [] kind = "TODO" /\ place = "star"                       -> "todo"
    [] kind = "PRIORITY" /\ place \in {"star", "todo"}       -> "prio"
    [] kind = "WORD" /\ place \in {"star", "todo", "prio", "headline"}
                                                             -> "headline"
    [] kind = "WORD" /\ place \in LineStarts \cup {"line"}   -> "line"
    [] kind = "TAG" /\ place = "headline"                    -> "tagged"
    [] kind = "SCHEDULED" /\ place = "header"                -> "scheduled"
    [] kind = "DATE" /\ place = "scheduled"                  -> "date"
    [] kind = "NEWLINE" /\ place = "start"                   -> "begun"
    [] kind = "NEWLINE" /\ place \in {"headline", "tagged"}  -> "header"
    [] kind = "NEWLINE" /\ place = "date"                    -> "dated"
    [] kind = "NEWLINE" /\ place \in {"line", "text"}        -> "text"
    [] OTHER                                                 -> "error"

Note(header, category, text) ==
  [header |-> header, category |-> category, text |-> text]

\* Seeded fault: the lines of a text are joined without a newline.
WithTextJoined(note, text) ==
  [note EXCEPT !.text = IF @ = NULL THEN text ELSE @ \o text]

\* _insert_text() and _append_text()
WithText(note, text) ==
  [note EXCEPT !.text = IF @ = NULL THEN text ELSE @ \o <<NL>> \o text]

\* parsedLine: the words of a line with one blank between them
WithWord(place, line, word) ==
  IF place \in {"headline", "line"} THEN line \o <<SP>> \o word ELSE word

\* One parser for the whole input: "stop" is the position up to which the
\* input was read when yyparse() gave up for a timestamp it does not take.
Fresh == [place |-> "start", line |-> <<>>, tag |-> NULL, date |-> <<>>,
          notes |-> <<>>, stop |-> 0]

WithLine(s, text) ==
  [s EXCEPT !.notes[Len(s.notes)] = WithText(@, text)]

\* Seeded fault: the tag of the last headline that had one stays.
TagRead(s) == s.tag

\* The alternatives of "headline" with a T_TAG pass it on, the others NULL.
TagOf(s) == IF s.place = "tagged" THEN s.tag ELSE NULL

\* _insert_datetime() knows five forms of a timestamp.
IsRefused(date) == Has(date, BadDates)

\* What a token does: shift it, and reduce what it completes.
Take(s, token) ==
  LET place == Shift(s.place, token.kind)
      moved == [s EXCEPT !.place = place]
  IN  CASE place \in {"headline", "line"} ->
             [moved EXCEPT !.line = WithWord(s.place, @, token.word)]
        [] place = "tagged" -> [moved EXCEPT !.tag = token.word]
        [] place = "date"   -> [moved EXCEPT !.date = token.word]
        [] place = "header" ->
             [moved EXCEPT !.notes = Append(@, Note(s.line, TagOf(s), NULL))]
        [] place = "dated" /\ IsRefused(s.date) ->
             [moved EXCEPT !.place = "start", !.stop = token.next]
        [] place = "text" -> WithLine(moved, IF s.place = "line" THEN s.line ELSE <<>>)
        [] OTHER -> moved

\* parse_orgmode_file(): yyparse() until the end of the file.  The end has been
\* seen once anything of the file is read, for a file that fits the scanner's
\* buffer, so that only a timestamp in what an earlier file left in the buffer
\* ("carry") lets it be called again.
Step(carry, s, token) ==
  IF s.place = "error" \/ s.stop > Len(carry) + 1 THEN s ELSE Take(s, token)

Parsed(carry, file) ==
  FoldLeft(LAMBDA s, token : Step(carry, s, token), Fresh, Tokens(carry \o file))

Stopped(carry, s) == s.stop > Len(carry) + 1

\* Otherwise yyerror() calls exit().
Accepted(carry, s) == Stopped(carry, s) \/ s.place \in LineStarts

\* Seeded fault: yyparse() is not called again once it has given up.
RestOfFirst(carry, file, s) ==
  IF s.stop > 0 THEN SubSeq(carry \o file, s.stop, Len(carry \o file))
  ELSE <<>>

\* What stays in the scanner's buffer.
Rest(carry, file, s) ==
  IF Stopped(carry, s) THEN SubSeq(carry \o file, s.stop, Len(carry \o file))
  ELSE <<>>

-----------------------------------------------------------------------------
(* org_notes.c *)

\* iconv_utf8_to_cp1251() has room for twice the bytes of its input: always enough.
ToCp1251(text) ==
  IF text = NULL THEN NULL ELSE IF Has(text, Foreign) THEN NULL ELSE text

\* The notes of the parsed entries; header and text become CP1251.
NotesOf(entries) ==
  [i \in DOMAIN entries |->
     Note(ToCp1251(entries[i].header), entries[i].category, ToCp1251(entries[i].text))]

\* iconv_cp1251_to_utf8() has room for twice the bytes of its input: by how much the
\* result is longer (ASCII letters need less, Cyrillic ones just that, "..." more).
Surplus(text) == FoldLeft(LAMBDA n, symbol : n + Extra[symbol], 0, text)

\* What the string it returns may be: the null pointer, where a byte is not assigned or the
\* room does not suffice; where the result just fits there is no NUL behind it, and the
\* string goes on with what lies there.
ToUtf8(text) ==
  IF text = NULL \/ Has(text, Unassigned) THEN {NULL}
  ELSE IF Surplus(text) < 0 THEN {text}
  ELSE IF Surplus(text) = 0 THEN {text \o tail : tail \in Tails}
  ELSE {NULL}

\* What org_notes_write() may make of an item: a text that is the null pointer is left out,
\* and a header that is one ends the process.
Forms(item) ==
  {Note(header, item.category, text) :
     header \in ToUtf8(item.header) \ {NULL}, text \in ToUtf8(item.text)}

\* What follows the header on its line
TagText(category) ==
  IF category = NULL THEN <<>>
  ELSE IF category # <<>> /\ SubSeq(category, 1, 1) = <<Default>> THEN <<>>
  ELSE <<TAB, TAB, Colon>> \o category \o <<Colon>>

\* What it appends of a converted item.
Written(form) ==
  <<Star, SP>> \o form.header \o TagText(form.category) \o <<NL>>
    \o (IF form.text = NULL THEN <<>> ELSE form.text \o <<NL>>)
=============================================================================
