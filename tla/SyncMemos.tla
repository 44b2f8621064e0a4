----------------------------- MODULE SyncMemos -----------------------------
(***************************************************************************)
(* Memo synchronization, cycle after cycle: _sync_memos() of src/sync.c    *)
(* with what sync_this() does to the memo database before and after it.    *)
(*                                                                         *)
(* Three copies of the data live between cycles: the handheld's MemoDB,    *)
(* the org-file, and the PDB file kept from the previous cycle.  A cycle   *)
(* reads all three, works on an in-memory copy of MemoDB record by record  *)
(* and note by note, appends to the org-file as it goes, then writes       *)
(* MemoDB to the handheld and keeps it as the new previous file.           *)
(*                                                                         *)
(* A database maps record ids to records: the order of the records in the  *)
(* file is abstracted (the loop visits them in any order), the order of    *)
(* the notes is not, because the first note of a header decides.  A header *)
(* stands for its hash.  The low nibble of the attributes (the category)   *)
(* is abstracted; its four high bits are the set of flags.                 *)
(***************************************************************************)
EXTENDS Integers, Sequences, FiniteSets

CONSTANTS
  Ids,            \* record ids
  Headers,        \* memo headers, note headers
  Texts,          \* memo texts, note texts
  Readable,       \* the notes the parser of the org-file accepts
  Reread,         \* what it makes of each: runs of blanks become one, ...
  Written,        \* what org_notes_write() may make of each item: itself, the item
                  \* without its text, ...; nothing where it dies of the header
  NoRecord,       \* an id that has no record
  NoPrev,         \* no readable PDB file from the previous cycle
  FreshStatuses,  \* what record->status may hold in a record just created
  Faults,         \* which operations may fail
  DryRuns,        \* values of syncSettings->dryRun (the option of the daemon
                  \* process that runs the cycle)
  MaxEdits,       \* bound: edits by the owner of the two devices
  MaxCycles       \* bound: synchronization cycles

Flags == {"DELETED", "DIRTY", "LOCKED", "SECRET"}
Statuses == {"NO_RECORD", "ADDED", "NOT_CHANGED", "CHANGED", "DELETED"}
FaultKinds == {"append", "add", "edit", "delete", "close",
               "pdb_write", "palm_refused", "palm_silent", "save",
               "save_truncated", "crash"}

Item == [header : Headers, text : Texts]
Record == [header : Headers, text : Texts, attr : SUBSET Flags]
Db == [Ids -> Record \cup {NoRecord}]

ASSUME SentinelsAreNotData ==
  /\ NoRecord \notin Record
  /\ NoPrev \notin Db
ASSUME ParametersOK ==
  /\ Readable \subseteq Item
  /\ Reread \in [Readable -> Item]
  /\ Written \in [Item -> SUBSET Item]
  /\ FreshStatuses \subseteq Statuses
  /\ Faults \subseteq FaultKinds
  /\ DryRuns \subseteq BOOLEAN
  /\ MaxEdits \in Nat
  /\ MaxCycles \in Nat

VARIABLES
  handheld,   \* MemoDB on the handheld
  org,        \* the notes of the org-file, in file order
  prev,       \* the PDB file of the previous cycle, or NoPrev
  phase,      \* where the running cycle is
  dryRun,     \* it only simulates
  pdb,        \* the cycle's copy of MemoDB
  status,     \* record->status of that copy
  todo,       \* ids of the records the first loop has still to visit
  notes,      \* the notes as parsed at the start of the cycle
  nextNote,   \* index of the note the second loop looks at
  clean,      \* nobody edited and nothing failed since the cycle began
  settled,    \* clean cycles in a row, up to 2
  reached,    \* items that have been in the org-file, as written or as read
  edits,      \* edits so far
  cycles      \* cycles so far

data  == <<handheld, org, prev>>
local == <<dryRun, pdb, status, todo, notes, nextNote>>
aux   == <<clean, settled, reached, edits, cycles>>
vars  == <<handheld, org, prev, phase, dryRun, pdb, status, todo, notes,
           nextNote, clean, settled, reached, edits, cycles>>

-----------------------------------------------------------------------------
(* Records *)

ItemOf(record) == [header |-> record.header, text |-> record.text]
Live(record)   == record # NoRecord /\ "DELETED" \notin record.attr
Hidden(record) == "SECRET" \in record.attr \/ "LOCKED" \in record.attr

EmptyDb == [id \in Ids |-> NoRecord]
Present(db) == {id \in Ids : db[id] # NoRecord}
ItemsOf(db)   == {ItemOf(db[id]) : id \in {i \in Ids : Live(db[i])}}
DeletedOf(db) == {ItemOf(db[id]) : id \in {i \in Present(db) : ~Live(db[i])}}
NotesOf(seq) == {seq[i] : i \in DOMAIN seq}
Reading(items) == items \cup {Reread[item] : item \in items \cap Readable}

\* Seeded fault: the dirty bits are kept.
CleanedOfNothing(db) == db

\* _write_record_list() clears the dirty bit of every record it writes.
Cleaned(db) ==
  [id \in Ids |-> IF db[id] = NoRecord THEN NoRecord
                  ELSE [db[id] EXCEPT !.attr = @ \ {"DIRTY"}]]

-----------------------------------------------------------------------------
(* The two decision tables *)

\* "attributes & 0xf0" keeps the flags; "& 0x0f", which the code applies to
\* the previous record, keeps the category and none of them.
Attribute(record)     == record.attr \cap Flags
PrevAttribute(record) == record.attr \ Flags

\* Seeded fault: the dirty bit is not looked at.
StatusOfPairClean(prevAttribute, attribute) ==
  IF attribute = {"DELETED"} THEN "DELETED" ELSE "NOT_CHANGED"

\* The switches compare whole nibbles: only a record with exactly one of the
\* two bits takes a case of its own.
StatusOfPair(prevAttribute, attribute) ==
  CASE attribute = {"DELETED"}     -> "DELETED"
    [] attribute # {"DELETED"} /\ prevAttribute = {"DELETED"} -> "ADDED"
    [] attribute = {"DIRTY"} /\ prevAttribute # {"DELETED"} -> "CHANGED"
    [] OTHER                       -> "NOT_CHANGED"

\* Seeded fault: a record the previous file does not have gets no status.
RecordStatusOfMatch(id, record, prevPdb) ==
  IF prevPdb = NoPrev THEN "ADDED"
  ELSE IF Hidden(record) THEN "NO_RECORD"
  ELSE IF prevPdb[id] # NoRecord
       THEN StatusOfPair(PrevAttribute(prevPdb[id]), Attribute(record))
  ELSE "UNSET"

RecordStatus(id, record, prevPdb) ==
  IF prevPdb = NoPrev THEN "ADDED"
  ELSE IF Hidden(record) THEN "NO_RECORD"
  ELSE IF prevPdb[id] # NoRecord
       THEN StatusOfPair(PrevAttribute(prevPdb[id]), Attribute(record))
  ELSE IF "DELETED" \in Attribute(record) THEN "NO_RECORD" ELSE "ADDED"

\* Seeded fault: a new record is not copied where a note has its header.
ActionForNewHeader(recordStatus, noteExists) ==
  CASE recordStatus = "ADDED" /\ noteExists -> "DO_NOTHING"
    [] recordStatus = "ADDED" /\ ~noteExists -> "ADD_TO_DESKTOP"
    [] recordStatus = "NO_RECORD" ->
         IF noteExists THEN "ADD_TO_HANDHELD" ELSE "DO_NOTHING"
    [] recordStatus = "CHANGED" ->
         IF noteExists THEN "COPY_TO_DESKTOP" ELSE "ADD_TO_DESKTOP"
    [] recordStatus = "NOT_CHANGED" ->
         IF noteExists THEN "REPLACE_ON_HANDHELD" ELSE "ADD_TO_DESKTOP"
    [] recordStatus = "DELETED" ->
         IF noteExists THEN "DO_NOTHING" ELSE "DELETE_ON_HANDHELD"

ActionForRecord(recordStatus, noteExists) ==
  CASE recordStatus = "NO_RECORD" ->
         IF noteExists THEN "ADD_TO_HANDHELD" ELSE "DO_NOTHING"
    [] recordStatus \in {"ADDED", "CHANGED"} ->
         IF noteExists THEN "COPY_TO_DESKTOP" ELSE "ADD_TO_DESKTOP"
    [] recordStatus = "NOT_CHANGED" ->
         IF noteExists THEN "REPLACE_ON_HANDHELD" ELSE "ADD_TO_DESKTOP"
    [] recordStatus = "DELETED" ->
         IF noteExists THEN "DO_NOTHING" ELSE "DELETE_ON_HANDHELD"

NotesWith(header) == {i \in DOMAIN notes : notes[i].header = header}

\* Seeded fault: the search does not stop at the first match.
LastNote(header) ==
  notes[CHOOSE i \in NotesWith(header) :
          \A j \in NotesWith(header) : j <= i]

FirstNote(header) ==
  notes[CHOOSE i \in NotesWith(header) :
          \A j \in NotesWith(header) : i <= j]

-----------------------------------------------------------------------------
Init ==
  /\ handheld = EmptyDb
  /\ org \in {<<>>} \cup {<<note>> : note \in Item}
  /\ prev = NoPrev
  /\ phase = "idle"
  /\ dryRun = FALSE
  /\ pdb = EmptyDb
  /\ status = [id \in Ids |-> "NO_RECORD"]
  /\ todo = {}
  /\ notes = <<>>
  /\ nextNote = 1
  /\ clean = TRUE
  /\ settled = 0
  /\ reached = Reading(NotesOf(org))
  /\ edits = 0
  /\ cycles = 0

-----------------------------------------------------------------------------
(* The owner of the two devices *)

OwnerEdit ==
  /\ edits < MaxEdits
  /\ edits' = edits + 1
  /\ clean' = FALSE
  /\ settled' = 0
  /\ UNCHANGED <<prev, phase, local, cycles>>

\* In HotSync the applications of the handheld are not running.
HandheldEdit ==
  /\ OwnerEdit
  /\ phase = "idle"
  /\ UNCHANGED <<org, reached>>

\* Palm OS gives a new record a fresh id and the dirty bit.
HandheldNew(id, item) ==
  /\ HandheldEdit
  /\ handheld[id] = NoRecord
  /\ handheld' = [handheld EXCEPT ![id] =
       [header |-> item.header, text |-> item.text, attr |-> {"DIRTY"}]]

HandheldChange(id, text) ==
  /\ HandheldEdit
  /\ Live(handheld[id])
  /\ handheld' = [handheld EXCEPT ![id].text = text,
                                  ![id].attr = @ \cup {"DIRTY"}]

\* A deleted record stays, with the deleted bit, until the next HotSync.
HandheldDelete(id) ==
  /\ HandheldEdit
  /\ Live(handheld[id])
  /\ \E dirty \in {{}, {"DIRTY"}} :
       handheld' = [handheld EXCEPT ![id].attr =
                      (@ \ {"DIRTY"}) \cup {"DELETED"} \cup dirty]

HandheldPurge(id) ==
  /\ HandheldEdit
  /\ handheld[id] # NoRecord
  /\ ~Live(handheld[id])
  /\ handheld' = [handheld EXCEPT ![id] = NoRecord]

\* Marking a memo private, or public again, makes it dirty.
HandheldTogglePrivate(id) ==
  /\ HandheldEdit
  /\ Live(handheld[id])
  /\ handheld' = [handheld EXCEPT ![id].attr =
       {"DIRTY"} \cup IF "SECRET" \in @ THEN @ \ {"SECRET"}
                      ELSE @ \cup {"SECRET"}]

\* The org-file can be saved by its owner in the middle of a cycle.
OrgEdit ==
  /\ OwnerEdit
  /\ \/ \E note \in Item : org' = Append(org, note)
     \/ \E i \in DOMAIN org, text \in Texts :
          org' = [org EXCEPT ![i].text = text]
     \/ \E i \in DOMAIN org :
          org' = SubSeq(org, 1, i - 1) \o SubSeq(org, i + 1, Len(org))
  /\ reached' = reached \cup Reading(NotesOf(org'))
  /\ UNCHANGED handheld

Owner ==
  \/ \E id \in Ids :
       \/ \E item \in Item : HandheldNew(id, item)
       \/ \E text \in Texts : HandheldChange(id, text)
       \/ HandheldDelete(id)
       \/ HandheldPurge(id)
       \/ HandheldTogglePrivate(id)
  \/ OrgEdit
-----------------------------------------------------------------------------
(* One cycle *)

\* The cycle ends: its copies are dropped.
EndCycle ==
  /\ phase' = "idle"
  /\ dryRun' = FALSE
  /\ pdb' = EmptyDb
  /\ status' = [id \in Ids |-> "NO_RECORD"]
  /\ todo' = {}
  /\ notes' = <<>>
  /\ nextNote' = 1

\* ... with an error: sync_this() returns -1.
FailCycle ==
  /\ EndCycle
  /\ clean' = FALSE
  /\ settled' = 0
  /\ UNCHANGED <<reached, edits, cycles>>

\* MemoDB is read, the statuses are computed against the previous PDB file,
\* the org-file is parsed and opened for appending.  (A failure of one of
\* these returns before anything is changed.  An org-file without a note, or
\* with one the parser does not accept, ends the process: yyerror() exits.)
StartCycle ==
  /\ phase = "idle"
  /\ cycles < MaxCycles
  /\ org # <<>>
  /\ NotesOf(org) \subseteq Readable
  /\ cycles' = cycles + 1
  /\ phase' = "memos"
  /\ dryRun' \in DryRuns
  /\ pdb' = handheld
  /\ todo' = Present(handheld)
  /\ status' = [id \in Ids |->
       IF handheld[id] = NoRecord THEN "NO_RECORD"
       ELSE RecordStatus(id, handheld[id], prev)]
  /\ notes' = [i \in DOMAIN org |-> Reread[org[i]]]
  /\ nextNote' = 1
  /\ clean' = TRUE
  /\ UNCHANGED <<data, settled, reached, edits>>

\* The first loop visits a record and is to take one of the given actions.
Visit(id, actions) ==
  /\ phase = "memos"
  /\ id \in todo
  /\ ActionForRecord(status[id], NotesWith(pdb[id].header) # {}) \in actions

\* Every failed operation of the loop is logged; the loop goes on.
LogFailure(kind) ==
  /\ kind \in Faults
  /\ clean' = FALSE

DoNothing(id) ==
  /\ Visit(id, {"DO_NOTHING"})
  /\ todo' = todo \ {id}
  /\ UNCHANGED <<data, phase, dryRun, pdb, status, notes, nextNote, aux>>

\* Seeded fault: a dry run appends too.
CopyToDesktopAlways(id) ==
  /\ Visit(id, {"ADD_TO_DESKTOP", "COPY_TO_DESKTOP"})
  /\ todo' = todo \ {id}
  /\ \E note \in Written[ItemOf(pdb[id])] :
       /\ org' = Append(org, note)
       /\ reached' = reached \cup Reading({note})
  /\ UNCHANGED <<handheld, prev, phase, dryRun, pdb, status, notes, nextNote,
                 clean, settled, edits, cycles>>

\* org_notes_write() returns zero also when iconv() did not take the text and only
\* the heading was written: the loop, and this cycle, do not learn of it.  (A record
\* whose category has no name is not appended either: one more "append" that fails.)
CopyToDesktop(id) ==
  /\ Visit(id, {"ADD_TO_DESKTOP", "COPY_TO_DESKTOP"})
  /\ todo' = todo \ {id}
  /\ \/ /\ ~dryRun
        /\ \E note \in Written[ItemOf(pdb[id])] :
             /\ org' = Append(org, note)
             /\ reached' = reached \cup Reading({note})
        /\ UNCHANGED clean
     \/ /\ dryRun
        /\ UNCHANGED <<org, reached, clean>>
     \/ /\ ~dryRun
        /\ LogFailure("append")
        /\ UNCHANGED <<org, reached>>
  /\ UNCHANGED <<handheld, prev, phase, dryRun, pdb, status, notes, nextNote,
                 settled, edits, cycles>>

\* A header that iconv() does not take is the null pointer: the process dies of its
\* strlen().
HeaderRefused(id) ==
  /\ Visit(id, {"ADD_TO_DESKTOP", "COPY_TO_DESKTOP"})
  /\ ~dryRun
  /\ Written[ItemOf(pdb[id])] = {}
  /\ FailCycle
  /\ UNCHANGED data

\* pdb_memos_memo_add() appends a record without flags to the queue.  Where no
\* id of the model is free it fails.
AddMemo(note) ==
  \/ \E new \in Ids \ Present(pdb), fresh \in FreshStatuses :
       /\ pdb' = [pdb EXCEPT ![new] =
            [header |-> note.header, text |-> note.text, attr |-> {}]]
       /\ status' = [status EXCEPT ![new] = fresh]
       /\ UNCHANGED clean
  \/ /\ \/ LogFailure("add")
        \/ Present(pdb) = Ids /\ clean' = FALSE
     /\ UNCHANGED <<pdb, status>>

\* The record just added is at the end of the queue the loop is walking: the
\* loop will visit it too.
AddToHandheld(id) ==
  /\ Visit(id, {"ADD_TO_HANDHELD"})
  /\ AddMemo(FirstNote(pdb[id].header))
  /\ todo' = (todo \ {id}) \cup (Present(pdb') \ Present(pdb))
  /\ UNCHANGED <<data, phase, dryRun, notes, nextNote,
                 settled, reached, edits, cycles>>

\* pdb_memos_memo_edit(): the flags stay.
ReplaceOnHandheld(id) ==
  /\ Visit(id, {"REPLACE_ON_HANDHELD"})
  /\ todo' = todo \ {id}
  /\ \/ /\ pdb' = [pdb EXCEPT ![id].text = FirstNote(pdb[id].header).text]
        /\ UNCHANGED clean
     \/ LogFailure("edit") /\ UNCHANGED pdb
  /\ UNCHANGED <<data, phase, dryRun, status, notes, nextNote,
                 settled, reached, edits, cycles>>

\* pdb_memos_memo_delete() frees the record whose queue pointer the loop reads
\* next: the loop goes on with the next record or the process dies (Crash).
DeleteOnHandheld(id) ==
  /\ Visit(id, {"DELETE_ON_HANDHELD"})
  /\ todo' = todo \ {id}
  /\ \/ pdb' = [pdb EXCEPT ![id] = NoRecord] /\ UNCHANGED clean
     \/ LogFailure("delete") /\ UNCHANGED pdb
  /\ UNCHANGED <<data, phase, dryRun, status, notes, nextNote,
                 settled, reached, edits, cycles>>

\* The second loop adds to the handheld the notes no record has the header of.
SyncNote ==
  /\ phase = "memos"
  /\ todo = {}
  /\ nextNote <= Len(notes)
  /\ nextNote' = nextNote + 1
  /\ LET note == notes[nextNote] IN
       IF \E id \in Present(pdb) : pdb[id].header = note.header
       THEN UNCHANGED <<pdb, status, clean>>
       ELSE AddMemo(note)
  /\ UNCHANGED <<data, phase, dryRun, todo, notes,
                 settled, reached, edits, cycles>>

LoopsDone == phase = "memos" /\ todo = {} /\ nextNote > Len(notes)

\* org_notes_close(), pdb_memos_write() to the temporary PDB file.
WriteMemos ==
  /\ LoopsDone
  /\ ~dryRun
  /\ phase' = "palm_write"
  /\ pdb' = Cleaned(pdb)
  /\ UNCHANGED <<data, dryRun, status, todo, notes, nextNote, aux>>

\* A simulated cycle writes nothing and ends.
EndDryRun ==
  /\ LoopsDone
  /\ dryRun
  /\ EndCycle
  /\ UNCHANGED <<data, aux>>

\* palm_write() does not learn whether the handheld took the database
\* ("palm_silent"): _palm_write_database() only logs its failures.
PalmWrite ==
  /\ phase = "palm_write"
  /\ phase' = "save"
  /\ \/ handheld' = pdb /\ UNCHANGED clean
     \/ LogFailure("palm_silent") /\ UNCHANGED handheld
  /\ UNCHANGED <<org, prev, local, settled, reached, edits, cycles>>

\* save_as_previous_pdbs(): the temporary file becomes the previous file.
SavePrevious ==
  /\ phase = "save"
  /\ prev' = pdb
  /\ settled' = IF clean THEN IF settled < 2 THEN settled + 1 ELSE 2 ELSE 0
  /\ EndCycle
  /\ UNCHANGED <<handheld, org, clean, reached, edits, cycles>>

\* _cp() truncates the previous file before it copies: what it leaves when it is
\* cut short cannot be read, or has at least the list of the records.
PartlySaved == prev' \in {NoPrev, pdb}

\* Each step that ends the cycle with an error, at the point where it does.
CycleFails ==
  /\ FailCycle
  /\ UNCHANGED <<handheld, org>>
  /\ \/ LoopsDone /\ Faults \cap {"close", "pdb_write"} # {} /\ UNCHANGED prev
     \/ phase = "palm_write" /\ "palm_refused" \in Faults /\ UNCHANGED prev
     \/ phase = "save" /\ "save" \in Faults /\ UNCHANGED prev
     \/ phase = "save" /\ "save_truncated" \in Faults /\ PartlySaved

\* The process dies: what is in memory is lost.
Crash ==
  /\ "crash" \in Faults
  /\ phase # "idle"
  /\ FailCycle
  /\ UNCHANGED <<handheld, org>>
  /\ \/ UNCHANGED prev
     \/ phase = "save" /\ PartlySaved

Sync ==
  \/ StartCycle
  \/ \E id \in Ids :
       \/ DoNothing(id)
       \/ CopyToDesktop(id)
       \/ HeaderRefused(id)
       \/ AddToHandheld(id)
       \/ ReplaceOnHandheld(id)
       \/ DeleteOnHandheld(id)
  \/ SyncNote
  \/ WriteMemos
  \/ EndDryRun
  \/ PalmWrite
  \/ SavePrevious
  \/ CycleFails
  \/ Crash

Next == Owner \/ Sync

Spec == Init /\ [][Next]_vars
-----------------------------------------------------------------------------
(* Properties *)

\* Every variable has its type.
TypeOK ==
  /\ handheld \in Db
  /\ org \in Seq(Item)
  /\ prev \in Db \cup {NoPrev}
  /\ phase \in {"idle", "memos", "palm_write", "save"}
  /\ dryRun \in BOOLEAN
  /\ pdb \in Db
  /\ status \in [Ids -> Statuses]
  /\ todo \subseteq Ids
  /\ notes \in Seq(Item)
  /\ nextNote \in Nat \ {0}
  /\ clean \in BOOLEAN
  /\ settled \in 0..2
  /\ reached \subseteq Item
  /\ edits \in Nat
  /\ cycles \in Nat

\* The promise of the documentation (technical_description.tex:257-258): data
\* on the computer is not deleted and new data from the Palm is not lost, over
\* any number of cycles, edits on both sides and failed or crashed cycles; but for
\* what org_notes_write() leaves out of an item without saying so.
Keeper == INSTANCE NoLoss WITH
  Items <- Item,
  desktop <- NotesOf(org),
  palm <- ItemsOf(handheld),
  discarded <- DeletedOf(handheld),
  syncing <- phase # "idle"
NothingLost == Keeper!Spec

\* Why the promise holds: _compute_record_statuses() calls a record NOT_CHANGED,
\* and lets a note overwrite it, only when its text, or what org_notes_write() made
\* of it, has been in the org-file.  A record that was in the previous PDB file and
\* is neither dirty, nor hidden, nor deleted is therefore backed by the org-file ...
Plain(record) == Live(record) /\ ~Hidden(record)
InPrev(id) == prev # NoPrev /\ prev[id] # NoRecord
BackedBy(items, item) == item \in items \/ \E note \in Written[item] : note \in items
BackedByOrg ==
  \A id \in Ids :
    /\ Plain(handheld[id])
    /\ "DIRTY" \notin handheld[id].attr
    /\ InPrev(id)
    => BackedBy(reached, ItemOf(handheld[id]))

\* ... and within a cycle so is every record the first loop has done with,
DoneAreBacked ==
  phase # "idle" /\ ~dryRun =>
    \A id \in Ids \ todo :
      /\ Plain(handheld[id]) => BackedBy(reached, ItemOf(handheld[id]))
      /\ Plain(pdb[id]) => BackedBy(reached, ItemOf(pdb[id]))

\* ... because a record it has still to visit is as it came from the handheld,
\* with the status computed for it, or was added by the loop from a note,
Discarded(record) == record = NoRecord \/ (~Live(record) /\ ~Hidden(record))
TodoIsUntouched ==
  phase # "idle" =>
    \A id \in todo :
      \/ /\ handheld[id] # NoRecord
         /\ pdb[id] = handheld[id]
         /\ status[id] = RecordStatus(id, handheld[id], prev)
      \/ /\ pdb[id] # NoRecord
         /\ pdb[id].attr = {}
         /\ ItemOf(pdb[id]) \in reached
         /\ Discarded(handheld[id])

\* ... and the copy takes nothing from the handheld but deleted records, changes
\* no hidden one, and has no item of its own that is not from the org-file.
SameItem(r1, r2) == ItemOf(r1) = ItemOf(r2) /\ (Live(r1) <=> Live(r2))
CopyIsConservative ==
  phase # "idle" =>
    \A id \in Ids :
      /\ pdb[id] = NoRecord => Discarded(handheld[id])
      /\ pdb[id] # NoRecord =>
           \/ ItemOf(pdb[id]) \in reached
           \/ handheld[id] # NoRecord /\ SameItem(pdb[id], handheld[id])
      /\ handheld[id] # NoRecord /\ Hidden(handheld[id]) =>
           /\ pdb[id] # NoRecord
           /\ SameItem(pdb[id], handheld[id])
           /\ Hidden(pdb[id])

\* What the org-file and the parsed notes hold has reached the org-file; writing
\* begins only when every record has been visited, and never in a dry run.
NotesAreReached ==
  /\ Reading(NotesOf(org)) \subseteq reached
  /\ NotesOf(notes) \subseteq reached
WritingIsLast == phase \in {"palm_write", "save"} => todo = {} /\ ~dryRun
LeftoverIsEmpty == phase = "idle" => todo = {}

\* The inductive invariant: all of these together.
IInv ==
  /\ BackedByOrg
  /\ DoneAreBacked
  /\ TodoIsUntouched
  /\ CopyIsConservative
  /\ NotesAreReached
  /\ WritingIsLast
  /\ LeftoverIsEmpty

\* When two clean cycles in a row have ended, the next one changes neither side,
\* except for the headers of hidden records: the code takes such a record for
\* none and adds its note to the handheld in every cycle.
Masked(header) ==
  \E id \in Present(handheld) :
    Hidden(handheld[id]) /\ handheld[id].header = header
SettledSyncIsStable ==
  [][settled = 2 /\ edits' = edits =>
       /\ \A i \in DOMAIN org' \ DOMAIN org : Masked(org'[i].header)
       /\ \A id \in Ids : handheld'[id] # handheld[id] =>
            handheld[id] = NoRecord /\ Masked(handheld'[id].header)]_vars

\* After two clean cycles a visible memo has the text of the first note of its
\* header: the desktop wins, even over a newer text of the handheld, which is
\* then a later note of the same header.
HandheldFollowsFirstNote ==
  settled = 2 /\ phase = "idle" =>
    \A id \in Ids : Plain(handheld[id]) =>
      \E i \in DOMAIN org :
        /\ Reread[org[i]] = ItemOf(handheld[id])
        /\ \A j \in 1..(i - 1) : Reread[org[j]].header # handheld[id].header

\* "If non-zero - do not sync data, just simulate process." (sync.h:36-37): a dry
\* cycle leaves the handheld, the org-file and the previous PDB file alone.
DryRunTouchesNothing == [][dryRun /\ edits' = edits => UNCHANGED data]_vars
=============================================================================
