----------------------------- MODULE OrgNotes ------------------------------
(***************************************************************************)
(* The org-file between the daemon and its owner: each cycle parses it and *)
(* appends items of the handheld to it, whatever their headers, texts and  *)
(* categories hold; the owner saves files of their own.  What one cycle    *)
(* writes the next one has to read.                                        *)
(***************************************************************************)
EXTENDS OrgSyntax

CONSTANTS
  OwnerFiles,   \* files the owner may save
  Items,        \* header, text and category of records of the handheld
  Cuts,         \* bound: symbols of an item that a failing write may leave
  MaxSaves,     \* bound: files saved by the owner
  MaxAppends,   \* bound: items appended
  MaxFailures,  \* bound: writes that fail
  MaxCycles     \* bound: cycles

Item == [header : Text, category : Text \cup {NULL}, text : Text \cup {NULL}]

\* What the caller gets of it: what has no CP1251 form is the null pointer.
Entry == [header : Text \cup {NULL}, category : Text \cup {NULL}, text : Text \cup {NULL}]

ASSUME NullIsNothing == NULL \notin Text /\ NULL \notin Seq(Entry)
ASSUME FilesAndItems ==
  /\ OwnerFiles \subseteq Text \ {<<>>}
  /\ Items \subseteq Item
  /\ Cuts \cup {MaxSaves, MaxAppends, MaxFailures, MaxCycles} \subseteq Nat

VARIABLES
  file,     \* the org-file
  buffer,   \* what the scanner of the process has read and not yet used
  daemon,   \* "idle", "cycle" (it has the file open) or "dead"
  notes,    \* the notes the running cycle has parsed
  kept,     \* items appended at the beginning of a line since the last save
  saves,    \* files saved so far
  appends,  \* items appended so far
  failures, \* writes that have failed
  cycles    \* cycles so far

vars == <<file, buffer, daemon, notes, kept, saves, appends, failures, cycles>>

Init ==
  /\ file \in OwnerFiles
  /\ buffer = <<>>
  /\ daemon = "idle"
  /\ notes = <<>>
  /\ kept = {}
  /\ saves = 0
  /\ appends = 0
  /\ failures = 0
  /\ cycles = 0

\* The owner saves a file in place of the present one, at any time.
Save ==
  /\ saves < MaxSaves
  /\ saves' = saves + 1
  /\ file' \in OwnerFiles \ {file}
  /\ kept' = {}
  /\ UNCHANGED <<buffer, daemon, notes, appends, failures, cycles>>

BeginCycle ==
  /\ daemon = "idle"
  /\ cycles < MaxCycles
  /\ cycles' = cycles + 1
  /\ UNCHANGED <<file, kept, saves, appends, failures>>

\* access() or fopen() fails: NULL is returned, and the cycle fails.
ParseRefused ==
  /\ BeginCycle
  /\ UNCHANGED <<buffer, daemon, notes>>

\* The process is gone, and its memory.
Dies ==
  /\ daemon' = "dead"
  /\ notes' = <<>>
  /\ buffer' = <<>>

\* A header that has no CP1251 form is the null pointer, which strlen() takes.
Crashes(entries) ==
  \E i \in DOMAIN entries : Has(entries[i].header, Foreign)

\* org_notes_parse() on a file that can be read.
Parse ==
  /\ BeginCycle
  /\ LET s == Parsed(buffer, file)
     IN  IF Accepted(buffer, s) /\ ~Crashes(s.notes)
         THEN /\ daemon' = "cycle"
              /\ notes' = NotesOf(s.notes)
              /\ buffer' = Rest(buffer, file, s)
         ELSE Dies

AtLineStart(text) == text = <<>> \/ Last(text) = NL

CanAppend ==
  /\ daemon = "cycle"
  /\ UNCHANGED <<saves, cycles>>

\* Of an item behind this one nothing but its star was written: what comes next
\* makes a word with that star, and a line of text of this item.
Endangered(item) ==
  \E form \in Forms(item) : IsSuffix(Written(form) \o <<Star>>, file)
Unharmed == {item \in kept : AtLineStart(file) \/ ~Endangered(item)}

\* org_notes_write() of one item, whatever the conversion leaves of it: it returns zero
\* also when it leaves out the text.
WriteAs(item, form) ==
  /\ CanAppend
  /\ appends < MaxAppends
  /\ appends' = appends + 1
  /\ file' = file \o Written(form)
  /\ kept' = Unharmed \cup (IF AtLineStart(file) THEN {item} ELSE {})
  /\ UNCHANGED <<daemon, buffer, notes, failures>>
Write(item) == \E form \in Forms(item) : WriteAs(item, form)

\* write() fails, or the process dies, before the last byte of the item: the
\* chunks written so far stay.
WriteFails(item) ==
  /\ CanAppend
  /\ failures < MaxFailures
  /\ failures' = failures + 1
  /\ \E form \in Forms(item) : \E n \in Cuts \cap 0..(Len(Written(form)) - 1) :
       file' = file \o SubSeq(Written(form), 1, n)
  /\ kept' = Unharmed
  /\ Dies \/ UNCHANGED <<daemon, notes, buffer>>
  /\ UNCHANGED appends

\* A header that could not be converted: strlen() of a null pointer.
WriteCrashes(item) ==
  /\ daemon = "cycle"
  /\ Forms(item) = {}
  /\ Dies
  /\ UNCHANGED <<file, kept, saves, appends, failures, cycles>>

\* Seeded fault: the notes outlive their cycle.
EndCycleKeepsNotes ==
  /\ daemon = "cycle"
  /\ daemon' = "idle"
  /\ UNCHANGED <<file, buffer, notes, kept, saves, appends, failures, cycles>>

\* org_notes_free() and org_notes_close()
EndCycle ==
  /\ daemon = "cycle"
  /\ daemon' = "idle"
  /\ notes' = <<>>
  /\ UNCHANGED <<file, buffer, kept, saves, appends, failures, cycles>>

\* The owner starts the daemon again.
Restart ==
  /\ daemon = "dead"
  /\ cycles < MaxCycles
  /\ daemon' = "idle"
  /\ UNCHANGED <<file, buffer, notes, kept, saves, appends, failures, cycles>>

AppendItem ==
  \E item \in Items : Write(item) \/ WriteFails(item) \/ WriteCrashes(item)

Next == Save \/ ParseRefused \/ Parse \/ AppendItem \/ EndCycle \/ Restart

Spec == Init /\ [][Next]_vars

-----------------------------------------------------------------------------
(* Properties *)

\* The type of the state.
TypeOK ==
  /\ file \in Text
  /\ buffer \in Text
  /\ daemon \in {"idle", "cycle", "dead"}
  /\ notes \in Seq(Item)
  /\ daemon # "cycle" => notes = <<>>
  /\ daemon = "dead" => buffer = <<>>
  /\ kept \subseteq Items
  /\ {saves, appends, failures, cycles} \subseteq Nat

\* A parse that returns notes
Alive == cycles' = cycles + 1 /\ daemon' = "cycle"
Sound == ~Has(file, BadDates)

\* What a process that has just started makes of a file.
Reading(text) ==
  LET s == Parsed(<<>>, text)
  IN  IF Accepted(<<>>, s) THEN NotesOf(s.notes) ELSE NULL

\* A file the parser reads to its end stays readable exactly when the item
\* written behind it can be read alone, and then reads as before with the
\* notes of that item behind (org_notes_write() and the parser fit together:
\* what SyncMemos assumes when it keeps the org-file as a sequence of notes).
AppendAddsItsOwnNotes ==
  [][\A item \in Items : \A form \in Forms(item) :
       LET before == Reading(file)
           own == Reading(Written(form))
       IN  WriteAs(item, form) /\ AtLineStart(file) /\ Sound /\ before # NULL =>
             Reading(file') = IF own = NULL THEN NULL ELSE before \o own]_vars

\* Words with single blanks between them
PlainWords == Alnum \cup Signs
PlainLines(text) ==
  LET s == <<NL>> \o text \o <<NL>>
  IN  /\ \A i \in DOMAIN s : s[i] \in PlainWords \cup {SP, NL}
      /\ s[2] # NL
      /\ \A i \in 2..(Len(s) - 1) :
           /\ s[i] = SP => {s[i - 1], s[i + 1]} \subseteq PlainWords
           /\ ~(s[i - 1] = NL /\ s[i] = NL /\ s[i + 1] = NL)

Plain(item) ==
  /\ PlainLines(item.header)
  /\ ~Has(item.header, {NL})
  /\ item.text = NULL \/ PlainLines(item.text)
  /\ item.category = NULL \/ (item.category # <<>> /\ ~Has(item.category, Symbols \ Letters))

\* The converted header and text are shorter than the room there is for them: what
\* org_notes_write() appends is the item.  (A word of Cyrillic letters alone has no room
\* for its end; a text with more "..." than ASCII letters, none for itself.)
Fits(item) ==
  Surplus(item.header) < 0 /\ (item.text = NULL \/ Surplus(item.text) < 0)

AsNote(item) ==
  [item EXCEPT !.category = IF TagText(@) = <<>> THEN NULL ELSE @]

\* A plain item that fits and was appended at the beginning of a line is among the
\* notes of every later cycle, with its header, text and category as they
\* were, until the owner saves another file or an append goes behind the lone
\* star of one that was cut short: whatever else was appended, cut short or left
\* in the buffer (else the next cycle would act on its record).
PlainItemsReadBack ==
  [][Alive /\ Sound /\ AtLineStart(buffer) =>
       \A item \in kept : Plain(item) /\ Fits(item) =>
         \E i \in DOMAIN notes' : notes'[i] = AsNote(item)]_vars

\* "* " at the beginning of a line, in a line the parser does not skip
Headings(text) ==
  {i \in 1..(Len(text) - 1) :
     (i = 1 \/ text[i - 1] = NL) /\ text[i] = Star /\ text[i + 1] = SP}

\* A parse that returns, of a file without a timestamp it refuses and with
\* nothing left from an earlier file, has a note for every heading of the file
\* ("Each first-level headline treated as separate OrgModeEntry").
EveryHeadingIsANote ==
  [][Alive /\ Sound /\ buffer = <<>> =>
       Len(notes') = Cardinality(Headings(file))]_vars

\* What a refused timestamp leaves in the scanner's buffer is gone after one
\* more parse, of a file without one: the cycle after that sees the file alone.
\* (A leftover that ends in such a timestamp, without a newline, takes the first
\* one of the file, where the parser gives up again.)
LeftoverIsUsedUp ==
  [][Alive /\ Sound /\ AtLineStart(buffer) => buffer' = <<>>]_vars

\* A parse gives all the headings of the file, or NULL and the caller goes on
\* (orgmode_parser.h).
AllOrNull ==
  [][Parse => \/ Alive /\ Len(notes') = Cardinality(Headings(file))
              \/ daemon' = "idle"]_vars
=============================================================================
