--------------------------- MODULE SyncMemosProofs ---------------------------
(***************************************************************************)
(* For every set of ids, headers and texts, every bound and every set of   *)
(* faults: SyncMemos is well typed; unless the org-file refuses an append, *)
(* it keeps its invariants and implements NoLoss, an item being as good    *)
(* as copied when what org_notes_write() makes of it is.  A dry run        *)
(* touches nothing.  If headers are written and read as they are, after    *)
(* two clean cycles the handheld shows the first note of each header, and  *)
(* a third one changes neither side.                                       *)
(***************************************************************************)
EXTENDS SyncMemos, SequenceTheorems, WellFoundedInduction, TLAPS

-----------------------------------------------------------------------------
(* Notes *)

\* A nonempty set of natural numbers has a least element.
LEMMA LeastElement ==
  ASSUME NEW S \in SUBSET Nat, S # {}
  PROVE  \E m \in S : \A k \in S : m <= k
<1>1. PICK x \in S : \A y \in S : ~(<<y, x>> \in OpToRel(<, Nat))
  BY NatLessThanWellFounded, WFMin
<1>2. \A y \in S : ~(y < x)
  BY <1>1 DEF OpToRel
<1>. QED
  BY <1>2

\* Where a note with the header exists, FirstNote is one of the notes and has it.
LEMMA FirstNoteIsANote ==
  ASSUME NEW header, notes \in Seq(Item), NotesWith(header) # {}
  PROVE  /\ FirstNote(header) \in Item
         /\ FirstNote(header) \in NotesOf(notes)
         /\ FirstNote(header).header = header
<1>1. NotesWith(header) \in SUBSET Nat
  BY DEF NotesWith
<1>2. \E i \in NotesWith(header) : \A j \in NotesWith(header) : i <= j
  BY <1>1, LeastElement
<1>3. PICK i \in NotesWith(header) : FirstNote(header) = notes[i]
  BY <1>2 DEF FirstNote
<1>. QED
  BY <1>3 DEF NotesWith, NotesOf

\* The notes of a sequence of items are items, and Append adds exactly one.
LEMMA NotesAreItems ==
  ASSUME NEW seq \in Seq(Item)
  PROVE  NotesOf(seq) \subseteq Item
BY DEF NotesOf

\* Appending an item adds exactly it to the notes.
LEMMA NotesOfAppend ==
  ASSUME NEW seq \in Seq(Item), NEW note \in Item
  PROVE  /\ Append(seq, note) \in Seq(Item)
         /\ NotesOf(Append(seq, note)) = NotesOf(seq) \cup {note}
<1>1. /\ Append(seq, note) \in Seq(Item)
      /\ DOMAIN Append(seq, note) = 1..(Len(seq) + 1)
      /\ \A i \in 1..Len(seq) : Append(seq, note)[i] = seq[i]
      /\ Append(seq, note)[Len(seq) + 1] = note
  BY AppendProperties
<1>2. DOMAIN seq = 1..Len(seq) /\ Len(seq) \in Nat
  OBVIOUS
<1>. QED
  BY <1>1, <1>2 DEF NotesOf

\* What the parser reads of items is items; reading distributes over union.
LEMMA ReadingIsItems ==
  ASSUME NEW items \in SUBSET Item, NEW more \in SUBSET Item
  PROVE  /\ items \subseteq Reading(items)
         /\ Reading(items) \subseteq Item
         /\ Reading(items \cup more) = Reading(items) \cup Reading(more)
BY ParametersOK DEF Reading

\* The notes parsed from a readable org-file.
LEMMA ParsedNotes ==
  ASSUME NEW seq \in Seq(Item), NotesOf(seq) \subseteq Readable
  PROVE  /\ [i \in DOMAIN seq |-> Reread[seq[i]]] \in Seq(Item)
         /\ NotesOf([i \in DOMAIN seq |-> Reread[seq[i]]])
              \subseteq Reading(NotesOf(seq))
<1> DEFINE parsed == [i \in DOMAIN seq |-> Reread[seq[i]]]
<1>1. Len(seq) \in Nat /\ DOMAIN seq = 1..Len(seq)
  BY LenProperties
<1>2. \A i \in DOMAIN seq : seq[i] \in Readable /\ Reread[seq[i]] \in Item
  BY ParametersOK DEF NotesOf
<1>3. parsed \in Seq(Item)
  <2>1. parsed \in [1..Len(seq) -> Item]
    BY <1>1, <1>2
  <2> HIDE DEF parsed
  <2>. QED
    BY <1>1, <2>1, SeqDef
<1>4. NotesOf(parsed) \subseteq Reading(NotesOf(seq))
  BY <1>2 DEF NotesOf, Reading
<1>. QED
  BY <1>3, <1>4

\* What has been copied as it is is backed; what is backed stays so as more reaches
\* the org-file.
LEMMA Backed ==
  ASSUME NEW items, NEW more, items \subseteq more, NEW item
  PROVE  /\ item \in items => BackedBy(items, item)
         /\ BackedBy(items, item) => BackedBy(more, item)
BY DEF BackedBy

\* What org_notes_write() makes of an item is an item.
LEMMA WrittenIsItem ==
  ASSUME NEW item \in Item, NEW note \in Written[item]
  PROVE  note \in Item
BY ParametersOK

\* Every edit of the org-file leaves a sequence of items.
LEMMA OrgEditTypeOK ==
  ASSUME TypeOK, OrgEdit
  PROVE  org' \in Seq(Item) /\ reached' \subseteq Item
<1>1. org' \in Seq(Item)
  <2>1. CASE \E note \in Item : org' = Append(org, note)
    BY <2>1 DEF TypeOK
  <2>2. CASE \E i \in DOMAIN org, text \in Texts :
               org' = [org EXCEPT ![i].text = text]
    <3>1. PICK i \in DOMAIN org, text \in Texts :
                 org' = [org EXCEPT ![i].text = text]
      BY <2>2
    <3>2. i \in 1..Len(org) /\ org[i] \in Item
      BY <3>1, LenProperties, ElementOfSeq DEF TypeOK
    <3>3. [org[i] EXCEPT !.text = text] \in Item
      BY <3>2 DEF Item
    <3>4. org' = [org EXCEPT ![i] = [org[i] EXCEPT !.text = text]]
      BY <3>1
    <3>. QED
      BY <3>2, <3>3, <3>4, ExceptSeq DEF TypeOK
  <2>3. CASE \E i \in DOMAIN org :
               org' = SubSeq(org, 1, i - 1) \o SubSeq(org, i + 1, Len(org))
    <3>1. PICK i \in DOMAIN org :
               org' = SubSeq(org, 1, i - 1) \o SubSeq(org, i + 1, Len(org))
      BY <2>3
    <3>2. SubSeq(org, 1, i - 1) \in Seq(Item)
      BY <3>1, SubSeqProperties DEF TypeOK
    <3>3. SubSeq(org, i + 1, Len(org)) \in Seq(Item)
      BY <3>1, SubSeqProperties DEF TypeOK
    <3>. QED
      BY <3>1, <3>2, <3>3, ConcatProperties
  <2>. QED
    BY <2>1, <2>2, <2>3 DEF OrgEdit
<1>2. reached' = reached \cup Reading(NotesOf(org'))
  BY DEF OrgEdit
<1>. QED
  BY <1>1, <1>2, NotesAreItems, ReadingIsItems DEF TypeOK

-----------------------------------------------------------------------------
(* Types *)

\* Editing a record, adding one and removing one leave a database.
LEMMA DbUpdates ==
  ASSUME NEW db \in Db, NEW id \in Ids
  PROVE  /\ [db EXCEPT ![id] = NoRecord] \in Db
         /\ \A record \in Record : [db EXCEPT ![id] = record] \in Db
         /\ db[id] # NoRecord => db[id] \in Record
BY DEF Db

\* Changing the text or the flags of a record leaves a record.
LEMMA RecordUpdates ==
  ASSUME NEW record \in Record, NEW text \in Texts, NEW attr \in SUBSET Flags
  PROVE  /\ [record EXCEPT !.text = text] \in Record
         /\ [record EXCEPT !.attr = attr] \in Record
         /\ [record EXCEPT !.text = text, !.attr = attr] \in Record
         /\ ItemOf(record) \in Item
BY DEF Record, ItemOf, Item

\* The database without records is one.
LEMMA EmptyDbIsDb == EmptyDb \in Db
BY DEF EmptyDb, Db

\* Clearing the dirty bits leaves a database.
LEMMA CleanedIsDb ==
  ASSUME NEW db \in Db
  PROVE  Cleaned(db) \in Db
<1> SUFFICES ASSUME NEW id \in Ids, db[id] # NoRecord
             PROVE  [db[id] EXCEPT !.attr = @ \ {"DIRTY"}] \in Record
  BY DEF Cleaned, Db
<1>1. db[id] \in Record
  BY DEF Db
<1>. QED
  BY <1>1 DEF Record

\* _compute_record_statuses() gives every record a status of its enumeration.
LEMMA RecordStatusType ==
  ASSUME NEW id, NEW record, NEW prevPdb
  PROVE  RecordStatus(id, record, prevPdb) \in Statuses
BY DEF RecordStatus, StatusOfPair, Statuses

\* The end of a cycle, and what AddMemo does to the copy.
LEMMA EndCycleTypeOK ==
  ASSUME EndCycle
  PROVE  /\ phase' = "idle" /\ dryRun' \in BOOLEAN /\ pdb' \in Db
         /\ status' \in [Ids -> Statuses] /\ todo' = {}
         /\ notes' \in Seq(Item) /\ nextNote' \in Nat \ {0}
<1>1. notes' \in Seq(Item)
  BY EmptySeq DEF EndCycle
<1>2. dryRun' \in BOOLEAN
  BY DEF EndCycle
<1>3. status' \in [Ids -> Statuses]
  BY DEF EndCycle, Statuses
<1>. QED
  BY <1>1, <1>2, <1>3, EmptyDbIsDb DEF EndCycle

\* pdb_memos_memo_add() leaves a database with a status for every id.
LEMMA AddMemoTypeOK ==
  ASSUME TypeOK, NEW note \in Item, AddMemo(note)
  PROVE  pdb' \in Db /\ status' \in [Ids -> Statuses] /\ clean' \in BOOLEAN
<1>1. CASE \E new \in Ids \ Present(pdb), fresh \in FreshStatuses :
             /\ pdb' = [pdb EXCEPT ![new] =
                  [header |-> note.header, text |-> note.text, attr |-> {}]]
             /\ status' = [status EXCEPT ![new] = fresh]
             /\ UNCHANGED clean
  <2>1. [header |-> note.header, text |-> note.text, attr |-> {}] \in Record
    BY DEF Item, Record
  <2>2. FreshStatuses \subseteq Statuses
    BY ParametersOK
  <2>3. pdb \in Db /\ status \in [Ids -> Statuses] /\ clean \in BOOLEAN
    BY DEF TypeOK
  <2>4. clean' \in BOOLEAN
    BY <1>1, <2>3
  <2>5. pdb' \in Db
    <3> DEFINE added == [header |-> note.header, text |-> note.text, attr |-> {}]
    <3>1. PICK new \in Ids : pdb' = [pdb EXCEPT ![new] = added]
      BY <1>1
    <3>2. added \in Record
      BY <2>1
    <3> HIDE DEF added
    <3>. QED
      BY <2>3, <3>1, <3>2, DbUpdates
  <2>6. status' \in [Ids -> Statuses]
    BY <1>1, <2>2, <2>3
  <2>. QED
    BY <2>4, <2>5, <2>6
<1>2. CASE /\ \/ LogFailure("add")
              \/ Present(pdb) = Ids /\ clean' = FALSE
           /\ UNCHANGED <<pdb, status>>
  BY <1>2 DEF TypeOK, LogFailure
<1>. QED
  BY <1>1, <1>2 DEF AddMemo

\* The owner's edits.
LEMMA OwnerTypeOK ==
  ASSUME TypeOK, Owner
  PROVE  TypeOK'
<1>1. OwnerEdit => /\ edits' \in Nat /\ clean' \in BOOLEAN /\ settled' \in 0..2
                   /\ UNCHANGED <<prev, phase, local, cycles>>
  <2>1. edits \in Nat
    BY DEF TypeOK
  <2>2. OwnerEdit => clean' \in BOOLEAN
    BY DEF OwnerEdit
  <2>. QED
    BY <2>1, <2>2 DEF OwnerEdit
<1>2. ASSUME HandheldEdit, handheld' \in Db
      PROVE  TypeOK'
  BY <1>1, <1>2 DEF HandheldEdit, TypeOK, local
<1>3. ASSUME NEW id \in Ids, NEW item \in Item, HandheldNew(id, item)
      PROVE  TypeOK'
  <2>1. [header |-> item.header, text |-> item.text, attr |-> {"DIRTY"}]
          \in Record
    BY DEF Item, Record, Flags
  <2>. QED
    BY <1>2, <1>3, <2>1, DbUpdates DEF HandheldNew, TypeOK
<1>4. ASSUME NEW id \in Ids, Live(handheld[id]), HandheldEdit,
             NEW text \in Texts, NEW attr \in SUBSET Flags,
             \/ handheld' = [handheld EXCEPT ![id].text = text,
                                             ![id].attr = attr]
             \/ handheld' = [handheld EXCEPT ![id].attr = attr]
      PROVE  TypeOK'
  <2>1. handheld[id] \in Record /\ handheld \in Db
    BY <1>4 DEF Live, TypeOK, Db
  <2>2. /\ [handheld[id] EXCEPT !.text = text, !.attr = attr] \in Record
        /\ [handheld[id] EXCEPT !.attr = attr] \in Record
    BY <2>1, RecordUpdates
  <2>3. handheld' \in Db
    BY <1>4, <2>1, <2>2 DEF Db
  <2>. QED
    BY <1>2, <1>4, <2>3
<1>5. ASSUME NEW id \in Ids, NEW text \in Texts, HandheldChange(id, text)
      PROVE  TypeOK'
  <2>1. handheld[id].attr \cup {"DIRTY"} \in SUBSET Flags
    BY <1>5 DEF HandheldChange, Live, TypeOK, Db, Record, Flags
  <2>2. handheld' = [handheld EXCEPT ![id].text = text,
                                     ![id].attr = handheld[id].attr \cup {"DIRTY"}]
    BY <1>5 DEF HandheldChange, TypeOK, Db
  <2>. QED
    BY <1>4, <1>5, <2>1, <2>2 DEF HandheldChange
<1>6. ASSUME NEW id \in Ids, HandheldDelete(id)
      PROVE  TypeOK'
  <2>1. PICK dirty \in {{}, {"DIRTY"}} :
          handheld' = [handheld EXCEPT ![id].attr =
                         (@ \ {"DIRTY"}) \cup {"DELETED"} \cup dirty]
    BY <1>6 DEF HandheldDelete
  <2>2. (handheld[id].attr \ {"DIRTY"}) \cup {"DELETED"} \cup dirty
          \in SUBSET Flags
    BY <1>6 DEF HandheldDelete, Live, TypeOK, Db, Record, Flags
  <2>3. handheld[id].text \in Texts
    BY <1>6 DEF HandheldDelete, Live, TypeOK, Db, Record
  <2>. QED
    BY <1>4, <1>6, <2>1, <2>2, <2>3 DEF HandheldDelete
<1>7. ASSUME NEW id \in Ids, HandheldPurge(id)
      PROVE  TypeOK'
  BY <1>2, <1>7, DbUpdates DEF HandheldPurge, TypeOK
<1>8. ASSUME NEW id \in Ids, HandheldTogglePrivate(id)
      PROVE  TypeOK'
  <2> DEFINE old == handheld[id].attr
             new == {"DIRTY"} \cup IF "SECRET" \in old THEN old \ {"SECRET"}
                                   ELSE old \cup {"SECRET"}
  <2>1. new \in SUBSET Flags
    BY <1>8 DEF HandheldTogglePrivate, Live, TypeOK, Db, Record, Flags
  <2>2. handheld' = [handheld EXCEPT ![id].attr = new]
    BY <1>8 DEF HandheldTogglePrivate
  <2>3. handheld[id].text \in Texts
    BY <1>8 DEF HandheldTogglePrivate, Live, TypeOK, Db, Record
  <2> HIDE DEF new
  <2>. QED
    BY <1>4, <1>8, <2>1, <2>2, <2>3 DEF HandheldTogglePrivate
<1>9. ASSUME OrgEdit
      PROVE  TypeOK'
  BY <1>1, <1>9, OrgEditTypeOK DEF OrgEdit, TypeOK, local
<1>. QED
  BY <1>3, <1>5, <1>6, <1>7, <1>8, <1>9 DEF Owner

\* A record is added or replaced only where a note has its header.
LEMMA VisitFindsANote ==
  ASSUME TypeOK, NEW id \in Ids, NEW actions, Visit(id, actions),
         actions \in {{"ADD_TO_HANDHELD"}, {"REPLACE_ON_HANDHELD"}}
  PROVE  /\ FirstNote(pdb[id].header) \in Item
         /\ FirstNote(pdb[id].header) \in NotesOf(notes)
         /\ FirstNote(pdb[id].header).header = pdb[id].header
<1>1. notes \in Seq(Item) /\ status[id] \in Statuses
  BY DEF TypeOK
<1>2. NotesWith(pdb[id].header) # {}
  BY <1>1 DEF Visit, ActionForRecord, Statuses
<1>. QED
  BY <1>1, <1>2, FirstNoteIsANote

\* The record a step of the first loop visits is a record of the copy.
TodoIsPresent == todo \subseteq Present(pdb)

\* Every step of a cycle keeps the types.
LEMMA SyncTypeOK ==
  ASSUME TypeOK, TodoIsPresent, Sync
  PROVE  TypeOK'
<1> USE DEF TypeOK
<1>1. CASE StartCycle
  <2>1. status' \in [Ids -> Statuses]
    BY <1>1, RecordStatusType DEF StartCycle, Statuses
  <2>2. dryRun' \in BOOLEAN
    BY <1>1, ParametersOK DEF StartCycle
  <2>3. notes' \in Seq(Item)
    BY <1>1, ParsedNotes DEF StartCycle
  <2>. QED
    BY <1>1, <2>1, <2>2, <2>3 DEF StartCycle, data, Present
<1>2. ASSUME NEW id \in Ids, DoNothing(id)
      PROVE  TypeOK'
  BY <1>2 DEF DoNothing, data, aux
<1>3. ASSUME NEW id \in Ids, CopyToDesktop(id)
      PROVE  TypeOK'
  <2>1. ItemOf(pdb[id]) \in Item
    <3>1. pdb[id] \in Record
      BY <1>3 DEF CopyToDesktop, Visit, TodoIsPresent, Present, Db
    <3>. QED
      BY <3>1 DEF Record, ItemOf, Item
  <2>2. org' \in Seq(Item) /\ reached' \subseteq Item /\ clean' \in BOOLEAN
    <3>2. reached' \subseteq Item /\ org' \in Seq(Item)
      <4>1. ASSUME NEW note \in Written[ItemOf(pdb[id])],
                   org' = Append(org, note), reached' = reached \cup Reading({note})
            PROVE  reached' \subseteq Item /\ org' \in Seq(Item)
        <5>1. note \in Item
          BY <2>1, WrittenIsItem
        <5>2. Reading({note}) \subseteq Item
          BY <5>1, ReadingIsItems
        <5>. QED
          BY <4>1, <5>1, <5>2, NotesOfAppend
      <4>2. CASE UNCHANGED <<org, reached>>
        BY <4>2
      <4>. QED
        BY <1>3, <4>1, <4>2 DEF CopyToDesktop
    <3>4. clean' \in BOOLEAN
      BY <1>3, Zenon DEF CopyToDesktop, LogFailure
    <3>. QED
      BY <3>2, <3>4
  <2>. QED
    BY <1>3, <2>2 DEF CopyToDesktop
<1>4. ASSUME NEW id \in Ids, AddToHandheld(id)
      PROVE  TypeOK'
  <2>1. FirstNote(pdb[id].header) \in Item
    BY <1>4, VisitFindsANote DEF AddToHandheld
  <2>2. pdb' \in Db /\ status' \in [Ids -> Statuses] /\ clean' \in BOOLEAN
    BY <1>4, <2>1, AddMemoTypeOK DEF AddToHandheld
  <2>3. todo' \subseteq Ids
    BY <1>4 DEF AddToHandheld, Present
  <2>. QED
    BY <1>4, <2>2, <2>3 DEF AddToHandheld, data
<1>5. ASSUME NEW id \in Ids, ReplaceOnHandheld(id)
      PROVE  TypeOK'
  <2>1. FirstNote(pdb[id].header) \in Item
    BY <1>5, VisitFindsANote DEF ReplaceOnHandheld
  <2>2. FirstNote(pdb[id].header).text \in Texts
    BY <2>1 DEF Item
  <2>3. pdb[id] \in Record
    BY <1>5, DbUpdates DEF ReplaceOnHandheld, Visit, TodoIsPresent, Present
  <2>4. [pdb EXCEPT ![id].text = FirstNote(pdb[id].header).text] \in Db
    <3>1. [pdb[id] EXCEPT !.text = FirstNote(pdb[id].header).text] \in Record
      BY <2>2, <2>3 DEF Record
    <3>. QED
      BY <3>1 DEF Db
  <2>. QED
    BY <1>5, <2>4 DEF ReplaceOnHandheld, LogFailure, data
<1>6. ASSUME NEW id \in Ids, DeleteOnHandheld(id)
      PROVE  TypeOK'
  BY <1>6, DbUpdates DEF DeleteOnHandheld, LogFailure, data
<1>7. CASE SyncNote
  <2>1. notes[nextNote] \in Item
    BY <1>7 DEF SyncNote
  <2>2. pdb' \in Db /\ status' \in [Ids -> Statuses] /\ clean' \in BOOLEAN
    BY <1>7, <2>1, AddMemoTypeOK DEF SyncNote
  <2>. QED
    BY <1>7, <2>2 DEF SyncNote, data
<1>8. CASE WriteMemos
  BY <1>8, CleanedIsDb DEF WriteMemos, data, aux
<1>9. CASE EndDryRun
  BY <1>9, EndCycleTypeOK DEF EndDryRun, data, aux
<1>10. CASE PalmWrite
  BY <1>10 DEF PalmWrite, LogFailure, local
<1>11. CASE SavePrevious
  BY <1>11, EndCycleTypeOK DEF SavePrevious
<1>12. CASE CycleFails
  <2>1. /\ EndCycle /\ clean' = FALSE /\ settled' = 0
        /\ UNCHANGED <<handheld, org, reached, edits, cycles>>
        /\ prev' = prev \/ prev' = NoPrev \/ prev' = pdb
    BY <1>12 DEF CycleFails, FailCycle, PartlySaved
  <2>2. clean' \in BOOLEAN
    BY <2>1
  <2>. QED
    BY <2>1, <2>2, EndCycleTypeOK
<1>13. CASE Crash
  <2>1. /\ EndCycle /\ clean' = FALSE /\ settled' = 0
        /\ UNCHANGED <<handheld, org, reached, edits, cycles>>
        /\ prev' = prev \/ prev' = NoPrev \/ prev' = pdb
    BY <1>13 DEF Crash, FailCycle, PartlySaved
  <2>2. clean' \in BOOLEAN
    BY <2>1
  <2>. QED
    BY <2>1, <2>2, EndCycleTypeOK
<1>14. ASSUME NEW id \in Ids, HeaderRefused(id)
       PROVE  TypeOK'
  <2>1. /\ EndCycle /\ clean' = FALSE /\ settled' = 0
        /\ UNCHANGED <<handheld, org, prev, reached, edits, cycles>>
    BY <1>14 DEF HeaderRefused, FailCycle, data
  <2>2. clean' \in BOOLEAN
    BY <2>1
  <2>. QED
    BY <2>1, <2>2, EndCycleTypeOK
<1>. QED
  BY <1>1, <1>2, <1>3, <1>4, <1>5, <1>6, <1>7, <1>8, <1>9, <1>10, <1>11,
     <1>12, <1>13, <1>14 DEF Sync

\* Every step keeps it: a step adds records of the copy to todo, and takes a
\* record out of todo before, or when, it takes it out of the copy.
LEMMA TodoStep ==
  ASSUME TypeOK, TodoIsPresent, [Next]_vars
  PROVE  TodoIsPresent'
<1> USE DEF TodoIsPresent, Present
<1>1. CASE Owner
  BY <1>1 DEF Owner, HandheldNew, HandheldChange, HandheldDelete, HandheldPurge,
              HandheldTogglePrivate, HandheldEdit, OrgEdit, OwnerEdit, local
<1>2. CASE StartCycle
  BY <1>2 DEF StartCycle
<1>3. ASSUME NEW id \in Ids, DoNothing(id) \/ CopyToDesktop(id)
      PROVE  TodoIsPresent'
  BY <1>3 DEF DoNothing, CopyToDesktop
<1>4. ASSUME NEW id \in Ids, AddToHandheld(id)
      PROVE  TodoIsPresent'
  <2>1. Present(pdb) \subseteq Present(pdb')
    <3>1. CASE UNCHANGED pdb
      BY <3>1
    <3>2. CASE \E new \in Ids \ Present(pdb) : \E r : pdb' = [pdb EXCEPT ![new] = r]
      BY <3>2
    <3>. QED
      BY <1>4, <3>1, <3>2 DEF AddToHandheld, AddMemo
  <2>. QED
    BY <1>4, <2>1 DEF AddToHandheld
<1>5. ASSUME NEW id \in Ids, ReplaceOnHandheld(id)
      PROVE  TodoIsPresent'
  BY <1>5 DEF ReplaceOnHandheld, LogFailure, TypeOK, Db
<1>6. ASSUME NEW id \in Ids, DeleteOnHandheld(id)
      PROVE  TodoIsPresent'
  BY <1>6 DEF DeleteOnHandheld, LogFailure, TypeOK, Db
<1>7. CASE SyncNote \/ WriteMemos
  BY <1>7 DEF SyncNote, WriteMemos, LoopsDone
<1>8. CASE EndDryRun \/ SavePrevious \/ CycleFails \/ Crash
  BY <1>8 DEF EndDryRun, SavePrevious, CycleFails, Crash, FailCycle, EndCycle
<1>9. CASE PalmWrite
  BY <1>9 DEF PalmWrite, local
<1>10. CASE UNCHANGED vars
  BY <1>10 DEF vars
<1>11. ASSUME NEW id \in Ids, HeaderRefused(id)
       PROVE  TodoIsPresent'
  BY <1>11 DEF HeaderRefused, FailCycle, EndCycle
<1>. QED
  BY <1>1, <1>2, <1>3, <1>4, <1>5, <1>6, <1>7, <1>8, <1>9, <1>10, <1>11
     DEF Next, Sync

\* Nothing has happened yet.
LEMMA InitTypeOK ==
  ASSUME Init
  PROVE  TypeOK /\ TodoIsPresent
<1>1. org \in Seq(Item) /\ notes \in Seq(Item)
  <2>1. <<>> \in Seq(Item)
    BY EmptySeq
  <2>2. ASSUME NEW note \in Item
        PROVE  <<note>> \in Seq(Item)
    <3>1. <<note>> \in [1..1 -> Item]
      OBVIOUS
    <3>. QED
      BY <3>1, SeqDef
  <2>. QED
    BY <2>1, <2>2 DEF Init
<1>2. reached \subseteq Item
  BY <1>1, NotesAreItems, ReadingIsItems DEF Init
<1>3. status \in [Ids -> Statuses]
  BY DEF Init, Statuses
<1>4. dryRun \in BOOLEAN /\ clean \in BOOLEAN
  BY DEF Init
<1>. QED
  BY <1>1, <1>2, <1>3, <1>4, EmptyDbIsDb DEF Init, TypeOK, TodoIsPresent

\* Every variable has its type in every state, whatever the faults.
THEOREM TypeCorrect == Spec => []TypeOK
<1>1. TypeOK /\ TodoIsPresent /\ [Next]_vars => (TypeOK /\ TodoIsPresent)'
  <2> SUFFICES ASSUME TypeOK, TodoIsPresent, [Next]_vars
               PROVE  TypeOK'
    BY TodoStep
  <2>1. CASE UNCHANGED vars
    BY <2>1 DEF vars, TypeOK
  <2>. QED
    BY <2>1, OwnerTypeOK, SyncTypeOK DEF Next
<1>. QED
  BY InitTypeOK, <1>1, PTL DEF Spec

-----------------------------------------------------------------------------
(* Statuses *)

\* The status of a visible, undeleted record: only a record of the previous
\* database without the dirty bit is NOT_CHANGED.
LEMMA PlainStatus ==
  ASSUME NEW id \in Ids, NEW record \in Record, NEW prevPdb, Plain(record)
  PROVE  \/ RecordStatus(id, record, prevPdb) \in {"ADDED", "CHANGED"}
         \/ /\ RecordStatus(id, record, prevPdb) = "NOT_CHANGED"
            /\ "DIRTY" \notin record.attr
            /\ prevPdb # NoPrev
            /\ prevPdb[id] # NoRecord
<1>1. record.attr \in {{}, {"DIRTY"}}
  BY DEF Plain, Live, Hidden, Record, Flags
<1>2. /\ Attribute(record) = record.attr
      /\ "DELETED" \notin PrevAttribute(prevPdb[id])
  BY <1>1 DEF Attribute, PrevAttribute, Flags
<1>. QED
  BY <1>1, <1>2 DEF RecordStatus, StatusOfPair, Plain, Live, Hidden

\* A hidden record is never replaced nor deleted.
LEMMA HiddenStatus ==
  ASSUME NEW id \in Ids, NEW record \in Record, NEW prevPdb, Hidden(record)
  PROVE  RecordStatus(id, record, prevPdb) \in {"ADDED", "NO_RECORD"}
BY DEF RecordStatus

\* Only a record with the deleted bit is deleted.
LEMMA DeletedStatus ==
  ASSUME NEW id \in Ids, NEW record \in Record, NEW prevPdb,
         RecordStatus(id, record, prevPdb) = "DELETED"
  PROVE  ~Live(record) /\ ~Hidden(record)
<1>1. Attribute(record) = {"DELETED"}
  BY DEF RecordStatus, StatusOfPair
<1>. QED
  BY <1>1 DEF Attribute, Live, Hidden, Flags

\* Clearing the dirty bit changes neither the item of a record nor whether it is
\* live or hidden.
LEMMA CleanedKeeps ==
  ASSUME NEW db \in Db, NEW id \in Ids
  PROVE  /\ Cleaned(db)[id] = NoRecord <=> db[id] = NoRecord
         /\ db[id] # NoRecord => /\ SameItem(Cleaned(db)[id], db[id])
                                 /\ Hidden(Cleaned(db)[id]) <=> Hidden(db[id])
<1>1. CASE db[id] = NoRecord
  BY <1>1 DEF Cleaned
<1>2. CASE db[id] # NoRecord
  <2>1. db[id] \in Record
    BY <1>2 DEF Db
  <2>2. /\ Cleaned(db)[id] = [db[id] EXCEPT !.attr = @ \ {"DIRTY"}]
        /\ Cleaned(db)[id] \in Record
    BY <1>2, <2>1 DEF Cleaned, Record
  <2>3. Cleaned(db)[id] # NoRecord
    BY <2>2, SentinelsAreNotData
  <2>4. /\ Cleaned(db)[id].header = db[id].header
        /\ Cleaned(db)[id].text = db[id].text
        /\ Cleaned(db)[id].attr = db[id].attr \ {"DIRTY"}
    BY <2>1, <2>2 DEF Record
  <2>. QED
    BY <1>2, <2>3, <2>4 DEF SameItem, ItemOf, Live, Hidden
<1>. QED
  BY <1>1, <1>2

-----------------------------------------------------------------------------
(* The inductive invariant *)

\* Typed: the part of the invariant that needs no assumption on the faults.
Typed == TypeOK /\ TodoIsPresent

\* What AddMemo does to the copy: at most one new id, free before, gets the note.
LEMMA AddMemoAddsTheNote ==
  ASSUME TypeOK, NEW note \in Item, AddMemo(note)
  PROVE  \/ UNCHANGED pdb
         \/ \E new \in Ids :
              /\ pdb[new] = NoRecord
              /\ Present(pdb') = Present(pdb) \cup {new}
              /\ \A id \in Ids \ {new} : pdb'[id] = pdb[id]
              /\ \A id \in Ids \ {new} : status'[id] = status[id]
              /\ pdb'[new] # NoRecord
              /\ pdb'[new].attr = {}
              /\ ItemOf(pdb'[new]) = note
<1> SUFFICES ASSUME NEW new \in Ids \ Present(pdb), NEW fresh \in FreshStatuses,
                    pdb' = [pdb EXCEPT ![new] =
                      [header |-> note.header, text |-> note.text, attr |-> {}]],
                    status' = [status EXCEPT ![new] = fresh]
             PROVE  /\ pdb[new] = NoRecord
                    /\ Present(pdb') = Present(pdb) \cup {new}
                    /\ \A id \in Ids \ {new} : pdb'[id] = pdb[id]
                    /\ \A id \in Ids \ {new} : status'[id] = status[id]
                    /\ pdb'[new] # NoRecord
                    /\ pdb'[new].attr = {}
                    /\ ItemOf(pdb'[new]) = note
  BY DEF AddMemo
<1> DEFINE added == [header |-> note.header, text |-> note.text, attr |-> {}]
<1>1. added \in Record
  BY DEF Item, Record
<1>2. added # NoRecord
  BY <1>1, SentinelsAreNotData
<1>3. ItemOf(added) = note
  BY DEF ItemOf, Item
<1>4. pdb' = [pdb EXCEPT ![new] = added] /\ added.attr = {}
  OBVIOUS
<1> HIDE DEF added
<1>. QED
  BY <1>2, <1>3, <1>4 DEF TypeOK, Db, Present

\* The invariant holds before the first cycle.
LEMMA InitIInv ==
  ASSUME Init
  PROVE  IInv
<1>1. handheld = EmptyDb /\ phase = "idle" /\ todo = {} /\ notes = <<>>
      /\ reached = Reading(NotesOf(org))
  BY DEF Init
<1>. QED
  BY <1>1 DEF IInv, BackedByOrg, DoneAreBacked, TodoIsUntouched, NotesOf, EmptyDb,
     CopyIsConservative, NotesAreReached, WritingIsLast, LeftoverIsEmpty, Plain, Live

\* The owner's edits: a handheld edit leaves the record dirty or not plain, an
\* edit of the org-file only adds to what has been there.
LEMMA OwnerIInv ==
  ASSUME Typed, IInv, Owner
  PROVE  IInv'
<1>1. CASE OrgEdit
  <2>1. /\ UNCHANGED <<handheld, prev, phase, local>>
        /\ reached \subseteq reached' /\ Reading(NotesOf(org')) \subseteq reached'
    BY <1>1 DEF OrgEdit, OwnerEdit
  <2>2. BackedByOrg'
    BY <2>1, Backed DEF IInv, BackedByOrg, InPrev
  <2>3. DoneAreBacked'
    BY <2>1, Backed DEF IInv, DoneAreBacked, local
  <2>. QED
    BY <2>1, <2>2, <2>3 DEF IInv, TodoIsUntouched, local,
       CopyIsConservative, NotesAreReached, WritingIsLast, LeftoverIsEmpty
<1>2. ASSUME NEW id \in Ids, HandheldEdit,
             \A other \in Ids \ {id} : handheld'[other] = handheld[other],
             Plain(handheld'[id]) => "DIRTY" \in handheld'[id].attr
      PROVE  IInv'
  <2>1. UNCHANGED <<org, prev, phase, local, reached>> /\ phase = "idle"
    BY <1>2 DEF HandheldEdit, OwnerEdit
  <2>. QED
    BY <1>2, <2>1 DEF IInv, BackedByOrg, DoneAreBacked, TodoIsUntouched, local,
       CopyIsConservative, NotesAreReached, WritingIsLast, LeftoverIsEmpty, InPrev
<1>3. ASSUME NEW id \in Ids, NEW item \in Item, HandheldNew(id, item)
      PROVE  IInv'
  BY <1>2, <1>3 DEF HandheldNew, Typed, TypeOK, Db
<1>4. ASSUME NEW id \in Ids, NEW text \in Texts, HandheldChange(id, text)
      PROVE  IInv'
  <2>1. handheld[id] \in Record
    BY <1>4 DEF HandheldChange, Live, Typed, TypeOK, Db
  <2>2. "DIRTY" \in handheld'[id].attr
    BY <1>4, <2>1 DEF HandheldChange, Typed, TypeOK, Db, Record
  <2>. QED
    BY <1>2, <1>4, <2>2 DEF HandheldChange, Typed, TypeOK, Db
<1>5. ASSUME NEW id \in Ids, HandheldDelete(id)
      PROVE  IInv'
  <2>1. handheld[id] \in Record
    BY <1>5 DEF HandheldDelete, Live, Typed, TypeOK, Db
  <2>2. "DELETED" \in handheld'[id].attr
    BY <1>5, <2>1 DEF HandheldDelete, Typed, TypeOK, Db, Record
  <2>. QED
    BY <1>2, <1>5, <2>2 DEF HandheldDelete, Typed, TypeOK, Db, Plain, Live
<1>6. ASSUME NEW id \in Ids, HandheldPurge(id)
      PROVE  IInv'
  BY <1>2, <1>6 DEF HandheldPurge, Typed, TypeOK, Db, Plain, Live
<1>7. ASSUME NEW id \in Ids, HandheldTogglePrivate(id)
      PROVE  IInv'
  <2>1. handheld[id] \in Record
    BY <1>7 DEF HandheldTogglePrivate, Live, Typed, TypeOK, Db
  <2>2. "DIRTY" \in handheld'[id].attr
    BY <1>7, <2>1 DEF HandheldTogglePrivate, Typed, TypeOK, Db, Record
  <2>. QED
    BY <1>2, <1>7, <2>2 DEF HandheldTogglePrivate, Typed, TypeOK, Db
<1>. QED
  BY <1>1, <1>3, <1>4, <1>5, <1>6, <1>7 DEF Owner

\* Visiting a record that is neither copied nor replaced: it is not plain, so
\* nothing has to be backed; a deleted one is discarded.
LEMMA VisitedIsBacked ==
  ASSUME Typed, IInv, NEW id \in Ids, NEW actions, Visit(id, actions),
         actions \in {{"DO_NOTHING"}, {"ADD_TO_HANDHELD"},
                      {"REPLACE_ON_HANDHELD"}, {"DELETE_ON_HANDHELD"}}
  PROVE  /\ Plain(handheld[id]) => BackedBy(reached, ItemOf(handheld[id]))
         /\ Plain(pdb[id]) => BackedBy(reached, ItemOf(pdb[id]))
         /\ actions = {"DELETE_ON_HANDHELD"} => Discarded(handheld[id])
         /\ actions = {"REPLACE_ON_HANDHELD"} =>
              ~(handheld[id] # NoRecord /\ Hidden(handheld[id]))
<1>1. phase # "idle" /\ id \in todo
  BY DEF Visit
<1>2. CASE /\ handheld[id] # NoRecord
           /\ pdb[id] = handheld[id]
           /\ status[id] = RecordStatus(id, handheld[id], prev)
  <2>1. handheld[id] \in Record
    BY <1>2 DEF Typed, TypeOK, Db
  <2>2. Plain(handheld[id]) => BackedBy(reached, ItemOf(handheld[id]))
    <3> SUFFICES ASSUME Plain(handheld[id])
                 PROVE  BackedBy(reached, ItemOf(handheld[id]))
      OBVIOUS
    <3>1. status[id] \notin {"ADDED", "CHANGED"}
      BY DEF Visit, ActionForRecord
    <3>2. InPrev(id) /\ "DIRTY" \notin handheld[id].attr
      BY <1>2, <2>1, <3>1, PlainStatus DEF InPrev
    <3>. QED
      BY <3>2 DEF IInv, BackedByOrg
  <2>3. ASSUME actions = {"DELETE_ON_HANDHELD"}
        PROVE  Discarded(handheld[id])
    <3>1. status[id] = "DELETED"
      BY <2>3 DEF Visit, ActionForRecord, Typed, TypeOK, Statuses
    <3>. QED
      BY <1>2, <2>1, <3>1, DeletedStatus DEF Discarded
  <2>4. ASSUME actions = {"REPLACE_ON_HANDHELD"}, Hidden(handheld[id])
        PROVE  FALSE
    <3>1. status[id] = "NOT_CHANGED"
      BY <2>4 DEF Visit, ActionForRecord, Typed, TypeOK, Statuses
    <3>. QED
      BY <1>2, <2>1, <2>4, <3>1, HiddenStatus
  <2>. QED
    BY <1>2, <2>2, <2>3, <2>4
<1>3. CASE /\ pdb[id] # NoRecord
           /\ pdb[id].attr = {}
           /\ ItemOf(pdb[id]) \in reached
           /\ Discarded(handheld[id])
  BY <1>3, Backed DEF Discarded, Plain, Live
<1>. QED
  BY <1>1, <1>2, <1>3 DEF IInv, TodoIsUntouched

\* The invariant is kept by a step that leaves the handheld, the previous file
\* and what has been in the org-file alone, and changes the copy by AddMemo.
LEMMA AddMemoIInv ==
  ASSUME Typed, IInv, NEW note \in Item, note \in reached, AddMemo(note),
         NEW id \in Ids \cup {"none"},
         todo' \in {todo \ {id}, (todo \ {id}) \cup (Present(pdb') \ Present(pdb))},
         id \in Ids /\ ~dryRun =>
           /\ Plain(handheld[id]) => BackedBy(reached, ItemOf(handheld[id]))
           /\ Plain(pdb[id]) => BackedBy(reached, ItemOf(pdb[id])),
         phase = "memos",
         UNCHANGED <<data, reached, phase, dryRun, notes>>
  PROVE  IInv'
<1>1. UNCHANGED <<handheld, org, prev, reached, phase, dryRun, notes>>
  BY DEF data
<1>2. CASE UNCHANGED pdb
  <2>1. todo' = todo \ {id}
    BY <1>2
  <2>2. UNCHANGED status \/ \E new \in Ids \ Present(pdb) : pdb' # pdb
    <3>1. ASSUME NEW new \in Ids \ Present(pdb), NEW fresh \in FreshStatuses,
                 pdb' = [pdb EXCEPT ![new] =
                   [header |-> note.header, text |-> note.text, attr |-> {}]]
          PROVE  pdb' # pdb
      <4>1. [header |-> note.header, text |-> note.text, attr |-> {}] \in Record
        BY DEF Item, Record
      <4>. QED
        BY <3>1, <4>1, SentinelsAreNotData DEF Typed, TypeOK, Db, Present
    <3>. QED
      BY <3>1 DEF AddMemo
  <2>3. UNCHANGED status
    BY <1>2, <2>2
  <2>4. DoneAreBacked'
    BY <1>1, <1>2, <2>1 DEF IInv, DoneAreBacked
  <2>5. TodoIsUntouched'
    BY <1>1, <1>2, <2>1, <2>3 DEF IInv, TodoIsUntouched
  <2>. QED
    BY <1>1, <1>2, <2>4, <2>5 DEF IInv, BackedByOrg, InPrev,
       CopyIsConservative, NotesAreReached, WritingIsLast, LeftoverIsEmpty
<1>3. CASE \E new \in Ids :
              /\ pdb[new] = NoRecord
              /\ Present(pdb') = Present(pdb) \cup {new}
              /\ \A i \in Ids \ {new} : pdb'[i] = pdb[i]
              /\ \A i \in Ids \ {new} : status'[i] = status[i]
              /\ pdb'[new] # NoRecord
              /\ pdb'[new].attr = {}
              /\ ItemOf(pdb'[new]) = note
  <2>1. PICK new \in Ids :
              /\ pdb[new] = NoRecord
              /\ Present(pdb') = Present(pdb) \cup {new}
              /\ \A i \in Ids \ {new} : pdb'[i] = pdb[i]
              /\ \A i \in Ids \ {new} : status'[i] = status[i]
              /\ pdb'[new] # NoRecord
              /\ pdb'[new].attr = {}
              /\ ItemOf(pdb'[new]) = note
    BY <1>3
  <2>2. Discarded(handheld[new])
    BY <2>1 DEF IInv, CopyIsConservative
  <2>3. new \notin todo
    BY <2>1 DEF Typed, TodoIsPresent, Present
  <2>4. todo' \subseteq (todo \ {id}) \cup {new}
    BY <2>1
  <2>5. ~Plain(handheld[new])
    BY <2>2 DEF Discarded, Plain, Live
  <2>6. DoneAreBacked'
    <3> SUFFICES ASSUME ~dryRun, NEW i \in Ids, i \notin todo'
                 PROVE  /\ Plain(handheld[i]) => BackedBy(reached, ItemOf(handheld[i]))
                        /\ Plain(pdb'[i]) => BackedBy(reached, ItemOf(pdb'[i]))
      BY <1>1 DEF DoneAreBacked
    <3>1. CASE i = new
      BY <2>1, <2>5, <3>1, Backed
    <3>2. CASE i # new
      <4>1. pdb'[i] = pdb[i] /\ (i \notin todo \/ i = id)
        BY <2>1, <3>2
      <4>. QED
        BY <4>1 DEF IInv, DoneAreBacked
    <3>. QED
      BY <3>1, <3>2
  <2>7. TodoIsUntouched'
    <3> SUFFICES ASSUME NEW i \in todo'
                 PROVE  \/ /\ handheld[i] # NoRecord
                           /\ pdb'[i] = handheld[i]
                           /\ status'[i] = RecordStatus(i, handheld[i], prev)
                        \/ /\ pdb'[i] # NoRecord
                           /\ pdb'[i].attr = {}
                           /\ ItemOf(pdb'[i]) \in reached
                           /\ Discarded(handheld[i])
      BY <1>1 DEF TodoIsUntouched
    <3>1. CASE i = new
      BY <2>1, <2>2, <3>1
    <3>2. CASE i # new
      <4>1. i \in todo /\ i \in Ids
        BY <2>4, <3>2 DEF Typed, TypeOK
      <4>2. pdb'[i] = pdb[i] /\ status'[i] = status[i]
        BY <2>1, <3>2, <4>1
      <4>. QED
        BY <4>1, <4>2 DEF IInv, TodoIsUntouched
    <3>. QED
      BY <3>1, <3>2
  <2>8. CopyIsConservative'
    <3> SUFFICES ASSUME NEW i \in Ids
                 PROVE  /\ pdb'[i] = NoRecord => Discarded(handheld[i])
                        /\ pdb'[i] # NoRecord =>
                             \/ ItemOf(pdb'[i]) \in reached
                             \/ /\ handheld[i] # NoRecord
                                /\ SameItem(pdb'[i], handheld[i])
                        /\ handheld[i] # NoRecord /\ Hidden(handheld[i]) =>
                             /\ pdb'[i] # NoRecord
                             /\ SameItem(pdb'[i], handheld[i])
                             /\ Hidden(pdb'[i])
      BY <1>1 DEF CopyIsConservative
    <3>1. CASE i = new
      BY <2>1, <2>2, <3>1 DEF Discarded
    <3>2. CASE i # new
      BY <2>1, <3>2 DEF IInv, CopyIsConservative
    <3>. QED
      BY <3>1, <3>2
  <2>. QED
    BY <1>1, <2>6, <2>7, <2>8 DEF IInv, BackedByOrg, InPrev, NotesAreReached,
       WritingIsLast, LeftoverIsEmpty
<1>. QED
  BY <1>2, <1>3, AddMemoAddsTheNote DEF Typed

\* The end of a cycle leaves what a finished cycle must: every undirtied record
\* of the new previous file is one the loops have done with.
LEMMA EndIInv ==
  ASSUME Typed, IInv, EndCycle, UNCHANGED <<handheld, org, reached>>,
         \/ prev' = prev \/ prev' = NoPrev
         \/ phase = "save" /\ prev' = pdb
  PROVE  IInv'
<1>1. phase' = "idle" /\ todo' = {} /\ NotesOf(notes') = {}
  BY DEF EndCycle, NotesOf
<1>2. BackedByOrg'
  <2>1. CASE prev' = prev \/ prev' = NoPrev
    BY <2>1 DEF IInv, BackedByOrg, InPrev
  <2>2. CASE phase = "save" /\ prev' = pdb
    <3>1. todo = {} /\ ~dryRun
      BY <2>2 DEF IInv, WritingIsLast
    <3>. QED
      BY <2>2, <3>1 DEF IInv, DoneAreBacked, BackedByOrg
  <2>. QED
    BY <2>1, <2>2
<1>. QED
  BY <1>1, <1>2 DEF IInv, DoneAreBacked, TodoIsUntouched, CopyIsConservative,
     NotesAreReached, WritingIsLast, LeftoverIsEmpty

\* A step that visits one record, takes it off the list and leaves the others
\* alone keeps the invariant if it does right by that record.
LEMMA OneRecordIInv ==
  ASSUME Typed, IInv, NEW id \in todo, phase = "memos",
         todo' = todo \ {id},
         UNCHANGED <<handheld, prev, phase, dryRun, status, notes>>,
         reached \subseteq reached', Reading(NotesOf(org')) \subseteq reached',
         pdb' \in Db,
         \A other \in Ids \ {id} : pdb'[other] = pdb[other],
         ~dryRun => /\ Plain(handheld[id]) => BackedBy(reached', ItemOf(handheld[id]))
                    /\ Plain(pdb'[id]) => BackedBy(reached', ItemOf(pdb'[id])),
         \/ pdb'[id] = pdb[id]
         \/ /\ pdb'[id] # NoRecord => ItemOf(pdb'[id]) \in reached
            /\ pdb'[id] = NoRecord => Discarded(handheld[id])
            /\ ~(handheld[id] # NoRecord /\ Hidden(handheld[id]))
  PROVE  IInv'
<1>1. id \in Ids
  BY DEF Typed, TypeOK
<1>2. BackedByOrg'
  BY Backed DEF IInv, BackedByOrg, InPrev
<1>3. DoneAreBacked'
  <2> SUFFICES ASSUME ~dryRun, NEW i \in Ids, i \notin todo \ {id}
               PROVE  /\ Plain(handheld[i]) => BackedBy(reached', ItemOf(handheld[i]))
                      /\ Plain(pdb'[i]) => BackedBy(reached', ItemOf(pdb'[i]))
    BY DEF DoneAreBacked
  <2>1. CASE i = id
    BY <2>1
  <2>2. CASE i # id
    BY <2>2, Backed DEF IInv, DoneAreBacked
  <2>. QED
    BY <2>1, <2>2
<1>4. TodoIsUntouched'
  <2> SUFFICES ASSUME NEW i \in todo \ {id}
               PROVE  \/ /\ handheld[i] # NoRecord
                         /\ pdb'[i] = handheld[i]
                         /\ status[i] = RecordStatus(i, handheld[i], prev)
                      \/ /\ pdb'[i] # NoRecord
                         /\ pdb'[i].attr = {}
                         /\ ItemOf(pdb'[i]) \in reached'
                         /\ Discarded(handheld[i])
    BY DEF TodoIsUntouched
  <2>1. pdb'[i] = pdb[i]
    BY DEF Typed, TypeOK
  <2>. QED
    BY <2>1 DEF IInv, TodoIsUntouched
<1>5. CopyIsConservative'
  <2> SUFFICES ASSUME NEW i \in Ids
               PROVE  /\ pdb'[i] = NoRecord => Discarded(handheld[i])
                      /\ pdb'[i] # NoRecord =>
                           \/ ItemOf(pdb'[i]) \in reached'
                           \/ /\ handheld[i] # NoRecord
                              /\ SameItem(pdb'[i], handheld[i])
                      /\ handheld[i] # NoRecord /\ Hidden(handheld[i]) =>
                           /\ pdb'[i] # NoRecord
                           /\ SameItem(pdb'[i], handheld[i])
                           /\ Hidden(pdb'[i])
    BY DEF CopyIsConservative
  <2>1. CASE pdb'[i] = pdb[i]
    BY <2>1 DEF IInv, CopyIsConservative
  <2>2. CASE pdb'[i] # pdb[i]
    BY <2>2
  <2>. QED
    BY <2>1, <2>2
<1>6. (NotesAreReached /\ WritingIsLast /\ LeftoverIsEmpty)'
  BY DEF IInv, NotesAreReached, WritingIsLast, LeftoverIsEmpty
<1>. QED
  BY <1>2, <1>3, <1>4, <1>5, <1>6 DEF IInv

\* Every step of a cycle keeps the invariant, if appending never fails.
LEMMA SyncIInv ==
  ASSUME Typed, IInv, Sync, "append" \notin Faults
  PROVE  IInv'
<1>0. /\ TypeOK /\ TypeOK' /\ TodoIsPresent
      /\ NotesOf(notes) \subseteq reached
      /\ Reading(NotesOf(org)) \subseteq reached
  BY SyncTypeOK DEF Typed, IInv, NotesAreReached
<1>1. CASE StartCycle
  <2>1. /\ UNCHANGED <<handheld, org, prev, reached>>
        /\ phase' = "memos" /\ pdb' = handheld
        /\ todo' = Present(handheld)
    BY <1>1 DEF StartCycle, data
  <2>0. NotesOf(notes') \subseteq reached
    <3>1. NotesOf(notes') \subseteq Reading(NotesOf(org))
      BY <1>0, <1>1, ParsedNotes DEF StartCycle, TypeOK
    <3>. QED
      BY <1>0, <3>1
  <2>2. ASSUME NEW id \in Present(handheld)
        PROVE  status'[id] = RecordStatus(id, handheld[id], prev)
    BY <1>1, <2>2 DEF StartCycle, Present
  <2>3. TodoIsUntouched'
    BY <2>1, <2>2 DEF TodoIsUntouched, Present
  <2>4. DoneAreBacked'
    BY <2>1 DEF DoneAreBacked, Present, Plain, Live
  <2>5. CopyIsConservative'
    BY <2>1 DEF CopyIsConservative, Discarded, SameItem
  <2>. QED
    BY <1>0, <2>0, <2>1, <2>3, <2>4, <2>5 DEF IInv, BackedByOrg, InPrev,
       NotesAreReached, WritingIsLast, LeftoverIsEmpty
<1>2. ASSUME NEW id \in Ids, DoNothing(id)
      PROVE  IInv'
  <2>1. /\ id \in todo /\ phase = "memos" /\ todo' = todo \ {id}
        /\ UNCHANGED <<handheld, org, prev, phase, dryRun, pdb, status, notes,
                       reached>>
    BY <1>2 DEF DoNothing, Visit, data, aux
  <2>2. /\ Plain(handheld[id]) => BackedBy(reached, ItemOf(handheld[id]))
        /\ Plain(pdb[id]) => BackedBy(reached, ItemOf(pdb[id]))
    BY <1>2, VisitedIsBacked DEF DoNothing
  <2>. QED
    BY <1>0, <2>1, <2>2, OneRecordIInv DEF TypeOK
<1>3. ASSUME NEW id \in Ids, CopyToDesktop(id)
      PROVE  IInv'
  <2>1. /\ id \in todo /\ phase = "memos" /\ todo' = todo \ {id}
        /\ UNCHANGED <<handheld, prev, phase, dryRun, pdb, status, notes>>
    BY <1>3 DEF CopyToDesktop, Visit
  <2>2. pdb[id] \in Record
    BY <1>0, <2>1, DbUpdates DEF TypeOK, TodoIsPresent, Present
  <2>3. /\ reached \subseteq reached' /\ Reading(NotesOf(org')) \subseteq reached'
        /\ ~dryRun => BackedBy(reached', ItemOf(pdb[id]))
    <3>1. ItemOf(pdb[id]) \in Item /\ org \in Seq(Item)
      BY <1>0, <2>2 DEF TypeOK, Record, ItemOf, Item
    <3>2. ASSUME NEW note \in Written[ItemOf(pdb[id])],
                 org' = Append(org, note), reached' = reached \cup Reading({note})
          PROVE  /\ reached \subseteq reached' /\ Reading(NotesOf(org')) \subseteq reached'
                 /\ BackedBy(reached', ItemOf(pdb[id]))
      <4>1. note \in Item
        BY <3>1, WrittenIsItem
      <4>2. NotesOf(org') = NotesOf(org) \cup {note}
        BY <3>1, <3>2, <4>1, NotesOfAppend
      <4>3. /\ Reading(NotesOf(org) \cup {note}) =
                 Reading(NotesOf(org)) \cup Reading({note})
            /\ note \in Reading({note})
        <5>1. NotesOf(org) \in SUBSET Item /\ {note} \in SUBSET Item
          BY <3>1, <4>1, NotesAreItems
        <5>. QED
          BY <5>1, ReadingIsItems
      <4>. QED
        BY <1>0, <3>2, <4>2, <4>3 DEF BackedBy
    <3>3. CASE dryRun /\ UNCHANGED <<org, reached>>
      BY <1>0, <3>3
    <3>. QED
      BY <1>3, <3>2, <3>3 DEF CopyToDesktop, LogFailure
  <2>4. Plain(handheld[id]) /\ ~dryRun => BackedBy(reached', ItemOf(handheld[id]))
    <3>1. \/ pdb[id] = handheld[id]
          \/ Discarded(handheld[id])
      BY <2>1 DEF IInv, TodoIsUntouched
    <3>. QED
      BY <2>3, <3>1 DEF Discarded, Plain, Live
  <2>. QED
    BY <1>0, <2>1, <2>3, <2>4, OneRecordIInv DEF TypeOK
<1>4. ASSUME NEW id \in Ids, AddToHandheld(id)
      PROVE  IInv'
  <2>1. /\ id \in todo /\ phase = "memos"
        /\ AddMemo(FirstNote(pdb[id].header))
        /\ todo' = (todo \ {id}) \cup (Present(pdb') \ Present(pdb))
        /\ UNCHANGED <<data, reached, phase, dryRun, notes>>
    BY <1>4 DEF AddToHandheld, Visit
  <2>2. /\ FirstNote(pdb[id].header) \in Item
        /\ FirstNote(pdb[id].header) \in reached
    BY <1>0, <1>4, VisitFindsANote DEF AddToHandheld
  <2>3. /\ Plain(handheld[id]) => BackedBy(reached, ItemOf(handheld[id]))
        /\ Plain(pdb[id]) => BackedBy(reached, ItemOf(pdb[id]))
    BY <1>4, VisitedIsBacked DEF AddToHandheld
  <2>. QED
    BY <2>1, <2>2, <2>3, AddMemoIInv
<1>5. ASSUME NEW id \in Ids, ReplaceOnHandheld(id)
      PROVE  IInv'
  <2>1. /\ id \in todo /\ phase = "memos" /\ todo' = todo \ {id}
        /\ UNCHANGED <<handheld, org, prev, phase, dryRun, status, notes, reached>>
    BY <1>5 DEF ReplaceOnHandheld, Visit, data
  <2>2. /\ Plain(handheld[id]) => BackedBy(reached, ItemOf(handheld[id]))
        /\ Plain(pdb[id]) => BackedBy(reached, ItemOf(pdb[id]))
        /\ ~(handheld[id] # NoRecord /\ Hidden(handheld[id]))
    BY <1>5, VisitedIsBacked DEF ReplaceOnHandheld
  <2>3. CASE UNCHANGED pdb
    BY <1>0, <2>1, <2>2, <2>3, OneRecordIInv DEF TypeOK
  <2>4. CASE pdb' = [pdb EXCEPT ![id].text = FirstNote(pdb[id].header).text]
    <3> DEFINE note == FirstNote(pdb[id].header)
    <3>1. /\ note \in Item /\ note \in reached
          /\ note.header = pdb[id].header
      BY <1>0, <1>5, VisitFindsANote DEF ReplaceOnHandheld
    <3>2. pdb[id] \in Record
      BY <1>0, <2>1, DbUpdates DEF TypeOK, TodoIsPresent, Present
    <3>3. /\ \A other \in Ids \ {id} : pdb'[other] = pdb[other]
          /\ pdb'[id] = [pdb[id] EXCEPT !.text = note.text]
      BY <1>0, <2>4 DEF TypeOK, Db
    <3>4. ItemOf(pdb'[id]) = note /\ BackedBy(reached', ItemOf(pdb'[id]))
      <4>1. ItemOf(pdb'[id]) = note
        BY <3>1, <3>2, <3>3 DEF Record, ItemOf, Item
      <4>. QED
        BY <2>1, <3>1, <4>1, Backed
    <3>5. pdb'[id] # NoRecord
      <4>1. pdb'[id] \in Record
        <5>1. note.text \in Texts
          BY <3>1 DEF Item
        <5>. HIDE DEF note
        <5>. QED
          BY <3>2, <3>3, <5>1 DEF Record
      <4>. QED
        BY <4>1, SentinelsAreNotData
    <3> HIDE DEF note
    <3>. QED
      BY <1>0, <2>1, <2>2, <3>1, <3>3, <3>4, <3>5, OneRecordIInv DEF TypeOK
  <2>. QED
    BY <1>5, <2>3, <2>4 DEF ReplaceOnHandheld
<1>6. ASSUME NEW id \in Ids, DeleteOnHandheld(id)
      PROVE  IInv'
  <2>1. /\ id \in todo /\ phase = "memos" /\ todo' = todo \ {id}
        /\ UNCHANGED <<handheld, org, prev, phase, dryRun, status, notes, reached>>
    BY <1>6 DEF DeleteOnHandheld, Visit, data
  <2>2. /\ Plain(handheld[id]) => BackedBy(reached, ItemOf(handheld[id]))
        /\ Plain(pdb[id]) => BackedBy(reached, ItemOf(pdb[id]))
        /\ Discarded(handheld[id])
    BY <1>6, VisitedIsBacked DEF DeleteOnHandheld
  <2>3. CASE UNCHANGED pdb
    BY <1>0, <2>1, <2>2, <2>3, OneRecordIInv DEF TypeOK
  <2>4. CASE pdb' = [pdb EXCEPT ![id] = NoRecord]
    <3>1. /\ \A other \in Ids \ {id} : pdb'[other] = pdb[other]
          /\ pdb'[id] = NoRecord
      BY <1>0, <2>4 DEF TypeOK, Db
    <3>2. ~Plain(pdb'[id]) /\ ~(handheld[id] # NoRecord /\ Hidden(handheld[id]))
      BY <2>2, <3>1 DEF Plain, Live, Discarded
    <3>. QED
      BY <1>0, <2>1, <2>2, <3>1, <3>2, OneRecordIInv DEF TypeOK
  <2>. QED
    BY <1>6, <2>3, <2>4 DEF DeleteOnHandheld
<1>7. CASE SyncNote
  <2>1. /\ phase = "memos" /\ todo = {} /\ todo' = todo
        /\ UNCHANGED <<data, reached, phase, dryRun, notes>>
    BY <1>7 DEF SyncNote
  <2>2. notes[nextNote] \in Item /\ notes[nextNote] \in reached
    <3>1. nextNote \in 1..Len(notes) /\ notes \in Seq(Item)
      BY <1>0, <1>7, LenProperties DEF SyncNote, TypeOK
    <3>2. notes[nextNote] \in Item /\ nextNote \in DOMAIN notes
      BY <3>1, ElementOfSeq, LenProperties
    <3>. QED
      BY <1>0, <3>2 DEF NotesOf
  <2>3. CASE UNCHANGED <<pdb, status, clean>>
    BY <1>0, <2>1, <2>3 DEF data, IInv, BackedByOrg, InPrev, DoneAreBacked,
       TodoIsUntouched, CopyIsConservative, NotesAreReached, WritingIsLast,
       LeftoverIsEmpty
  <2>4. CASE AddMemo(notes[nextNote])
    <3>1. todo' = todo \ {"none"} /\ "none" \in Ids \cup {"none"}
      BY <2>1
    <3>2. ASSUME "none" \in Ids, ~dryRun
          PROVE  /\ Plain(handheld["none"]) => BackedBy(reached, ItemOf(handheld["none"]))
                 /\ Plain(pdb["none"]) => BackedBy(reached, ItemOf(pdb["none"]))
      BY <2>1, <3>2 DEF IInv, DoneAreBacked
    <3>. QED
      BY <2>1, <2>2, <2>4, <3>1, <3>2, AddMemoIInv
  <2>. QED
    BY <1>7, <2>3, <2>4 DEF SyncNote
<1>8. CASE WriteMemos
  <2>1. /\ UNCHANGED <<handheld, org, prev, reached, dryRun, todo, notes>>
        /\ phase = "memos" /\ phase' = "palm_write" /\ todo = {} /\ ~dryRun
        /\ pdb' = Cleaned(pdb)
    BY <1>8 DEF WriteMemos, LoopsDone, data, aux
  <2>2. \A id \in Ids :
          /\ pdb'[id] = NoRecord <=> pdb[id] = NoRecord
          /\ pdb[id] # NoRecord => /\ SameItem(pdb'[id], pdb[id])
                                   /\ Hidden(pdb'[id]) <=> Hidden(pdb[id])
    BY <1>0, <2>1, CleanedKeeps DEF TypeOK
  <2>3. \A id \in Ids : Plain(pdb'[id]) =>
          Plain(pdb[id]) /\ ItemOf(pdb'[id]) = ItemOf(pdb[id])
    BY <2>2 DEF Plain, Live, SameItem
  <2>4. DoneAreBacked'
    BY <2>1, <2>3 DEF IInv, DoneAreBacked
  <2>5. CopyIsConservative'
    BY <2>1, <2>2 DEF IInv, CopyIsConservative, SameItem
  <2>. QED
    BY <1>0, <2>1, <2>4, <2>5 DEF IInv, BackedByOrg, InPrev, TodoIsUntouched,
       NotesAreReached, WritingIsLast, LeftoverIsEmpty
<1>9. CASE EndDryRun
  BY <1>9, EndIInv DEF EndDryRun, data, aux
<1>10. CASE PalmWrite
  <2>1. /\ UNCHANGED <<org, prev, reached, dryRun, todo, notes, pdb, status>>
        /\ phase = "palm_write" /\ phase' = "save" /\ todo = {} /\ ~dryRun
        /\ handheld' = pdb \/ handheld' = handheld
    BY <1>10 DEF PalmWrite, LogFailure, local, IInv, WritingIsLast
  <2>2. BackedByOrg' /\ DoneAreBacked'
    BY <2>1 DEF IInv, BackedByOrg, InPrev, DoneAreBacked
  <2>3. CopyIsConservative'
    BY <2>1 DEF IInv, CopyIsConservative, Discarded, SameItem
  <2>. QED
    BY <1>0, <2>1, <2>2, <2>3 DEF IInv, TodoIsUntouched, NotesAreReached,
       WritingIsLast, LeftoverIsEmpty
<1>11. CASE SavePrevious
  BY <1>11, EndIInv DEF SavePrevious
<1>12. CASE CycleFails
  BY <1>12, EndIInv DEF CycleFails, FailCycle, PartlySaved
<1>13. CASE Crash
  BY <1>13, EndIInv DEF Crash, FailCycle, PartlySaved
<1>14. ASSUME NEW id \in Ids, HeaderRefused(id)
       PROVE  IInv'
  BY <1>14, EndIInv DEF HeaderRefused, FailCycle, data
<1>. QED
  BY <1>1, <1>2, <1>3, <1>4, <1>5, <1>6, <1>7, <1>8, <1>9, <1>10, <1>11,
     <1>12, <1>13, <1>14 DEF Sync

\* The invariant with its types, kept by every step and by stuttering.
LEMMA InvariantStep ==
  ASSUME Typed, IInv, [Next]_vars, "append" \notin Faults
  PROVE  Typed' /\ IInv'
<1>1. Typed'
  <2>1. TypeOK /\ TodoIsPresent
    BY DEF Typed
  <2>2. TypeOK'
    <3>1. CASE UNCHANGED vars
      BY <2>1, <3>1 DEF vars, TypeOK
    <3>2. CASE Owner \/ Sync
      BY <2>1, <3>2, OwnerTypeOK, SyncTypeOK
    <3>. QED
      BY <3>1, <3>2 DEF Next
  <2>3. TodoIsPresent'
    BY <2>1, TodoStep
  <2>. QED
    BY <2>2, <2>3 DEF Typed
<1>2. CASE UNCHANGED vars
  BY <1>1, <1>2 DEF vars, IInv, BackedByOrg, InPrev, DoneAreBacked,
     TodoIsUntouched, CopyIsConservative, NotesAreReached, WritingIsLast,
     LeftoverIsEmpty
<1>. QED
  BY <1>1, <1>2, OwnerIInv, SyncIInv DEF Next

\* Why nothing is lost: unless the org-file refuses an append, IInv holds in every
\* state, whatever else fails or dies and however often.
THEOREM InvariantHolds == "append" \notin Faults => (Spec => []IInv)
<1> SUFFICES ASSUME "append" \notin Faults
             PROVE  Spec => []IInv
  OBVIOUS
<1>1. Init => Typed /\ IInv
  BY InitTypeOK, InitIInv DEF Typed
<1>2. Typed /\ IInv /\ [Next]_vars => (Typed /\ IInv)'
  BY InvariantStep
<1>. QED
  BY <1>1, <1>2, PTL DEF Spec

\* A record that is not new, not dirty, visible and undeleted has been copied, with
\* all that org_notes_write() makes of it.
THEOREM RecordsAreBacked == "append" \notin Faults => (Spec => []BackedByOrg)
<1>1. IInv => BackedByOrg
  BY DEF IInv
<1>. QED
  BY <1>1, InvariantHolds, PTL

\* Where org_notes_write() leaves out nothing, such a record has itself been in the
\* org-file.  A text that iconv() refuses is what the condition excludes.
WritesWhole == \A item \in Item : Written[item] \subseteq {item}
ReachedOrg ==
  \A id \in Ids :
    Plain(handheld[id]) /\ "DIRTY" \notin handheld[id].attr /\ InPrev(id)
      => ItemOf(handheld[id]) \in reached
THEOREM WholeRecordsReachedOrg ==
  "append" \notin Faults /\ WritesWhole => (Spec => []ReachedOrg)
<1> SUFFICES ASSUME "append" \notin Faults, WritesWhole
             PROVE  Spec => []ReachedOrg
  OBVIOUS
<1>1. TypeOK /\ BackedByOrg => ReachedOrg
  <2> SUFFICES ASSUME TypeOK, BackedByOrg, NEW id \in Ids, Plain(handheld[id]),
                      "DIRTY" \notin handheld[id].attr, InPrev(id)
               PROVE  ItemOf(handheld[id]) \in reached
    BY DEF ReachedOrg
  <2>1. handheld[id] \in Record
    BY DEF Plain, Live, TypeOK, Db
  <2>2. ItemOf(handheld[id]) \in Item
    BY <2>1 DEF Record, ItemOf, Item
  <2>3. BackedBy(reached, ItemOf(handheld[id]))
    BY DEF BackedByOrg
  <2>. QED
    BY <2>2, <2>3 DEF BackedBy, WritesWhole
<1>. QED
  BY <1>1, TypeCorrect, RecordsAreBacked, PTL

-----------------------------------------------------------------------------
(* SyncMemos implements NoLoss *)

\* The items of a typed database are items.
LEMMA ItemsAreItems ==
  ASSUME NEW db \in Db
  PROVE  ItemsOf(db) \subseteq Item /\ DeletedOf(db) \subseteq Item
<1>1. ASSUME NEW id \in Ids, db[id] # NoRecord
      PROVE  ItemOf(db[id]) \in Item
  BY <1>1 DEF Db, Record, ItemOf, Item
<1>. QED
  BY <1>1 DEF ItemsOf, DeletedOf, Live, Present

\* The initial states of SyncMemos are initial states of NoLoss.
LEMMA InitKeeps ==
  ASSUME Init
  PROVE  Keeper!Init
<1>1. TypeOK
  BY InitTypeOK
<1>2. /\ NotesOf(org) \subseteq Item
      /\ ItemsOf(handheld) \subseteq Item
      /\ DeletedOf(handheld) \subseteq Item
  BY <1>1, NotesAreItems, ItemsAreItems DEF TypeOK
<1>3. (phase # "idle") = FALSE
  BY DEF Init
<1>. QED
  BY <1>2, <1>3 DEF Init, Keeper!Init, Reading, Keeper!Reading

\* What the first loop appends is an item of the handheld or was in the org-file.
LEMMA CopyToDesktopKeeps ==
  ASSUME Typed, IInv, NEW id \in Ids, CopyToDesktop(id), "append" \notin Faults
  PROVE  Keeper!CopyToDesktop \/ UNCHANGED Keeper!vars
<1>1. /\ UNCHANGED <<handheld, phase, edits>> /\ phase = "memos" /\ id \in todo
      /\ \/ \E note \in Written[ItemOf(pdb[id])] :
              /\ org' = Append(org, note)
              /\ reached' = reached \cup Reading({note})
         \/ UNCHANGED <<org, reached>>
  BY DEF CopyToDesktop, Visit, LogFailure
<1>2. CASE UNCHANGED <<org, reached>>
  BY <1>1, <1>2 DEF Keeper!vars
<1>3. ASSUME NEW note \in Written[ItemOf(pdb[id])],
             org' = Append(org, note), reached' = reached \cup Reading({note})
      PROVE  Keeper!CopyToDesktop
  <2>1. /\ NotesOf(org) \subseteq Item
        /\ note \in Item
        /\ NotesOf(org') = NotesOf(org) \cup {note}
    <3>1. pdb[id] \in Record
      BY <1>1, DbUpdates DEF Typed, TypeOK, TodoIsPresent, Present
    <3>2. ItemOf(pdb[id]) \in Item
      BY <3>1 DEF Record, ItemOf, Item
    <3>3. note \in Item
      BY <3>2, WrittenIsItem
    <3>. QED
      BY <1>3, <3>3, NotesAreItems, NotesOfAppend DEF Typed, TypeOK
  <2>2. ItemOf(pdb[id]) \in ItemsOf(handheld) \cup DeletedOf(handheld) \cup reached
    <3>1. \/ handheld[id] # NoRecord /\ pdb[id] = handheld[id]
          \/ ItemOf(pdb[id]) \in reached
      BY <1>1 DEF IInv, TodoIsUntouched
    <3>. QED
      BY <3>1 DEF ItemsOf, DeletedOf, Present
  <2>3. /\ Reading(NotesOf(org)) \subseteq reached
        /\ Reading(NotesOf(org')) =
             Reading(NotesOf(org)) \cup Reading({note})
    BY <2>1, ReadingIsItems DEF IInv, NotesAreReached
  <2>4. /\ reached' = reached \cup Reading(NotesOf(org'))
        /\ NotesOf(org') \in SUBSET (NotesOf(org) \cup
             UNION {Written[item] : item \in ItemsOf(handheld)
                                       \cup DeletedOf(handheld) \cup reached})
        /\ NotesOf(org) \subseteq NotesOf(org')
    <3>1. note \in UNION {Written[item] : item \in ItemsOf(handheld)
                                       \cup DeletedOf(handheld) \cup reached}
      BY <2>2
    <3>. QED
      BY <1>3, <2>1, <2>3, <3>1
  <2>5. /\ ItemsOf(handheld)' = ItemsOf(handheld)
        /\ DeletedOf(handheld)' = DeletedOf(handheld)
        /\ phase # "idle"
        /\ (phase # "idle")' = (phase # "idle")
        /\ edits' = edits
    BY <1>1
  <2>. QED
    BY <2>4, <2>5 DEF Keeper!CopyToDesktop, Reading, Keeper!Reading
<1>. QED
  BY <1>1, <1>2, <1>3

\* Writing the copy to the handheld gives up only what has been in the org-file:
\* hidden records stay, the others are backed once every record is visited.
LEMMA PalmWriteKeeps ==
  ASSUME Typed, IInv, PalmWrite
  PROVE  Keeper!RewritePalm \/ UNCHANGED Keeper!vars
<1>1. /\ UNCHANGED <<org, reached, edits>>
      /\ phase = "palm_write" /\ phase' = "save" /\ todo = {} /\ ~dryRun
      /\ handheld' = pdb \/ handheld' = handheld
  BY DEF PalmWrite, LogFailure, IInv, WritingIsLast
<1>2. /\ (phase # "idle")' = (phase # "idle") /\ phase # "idle"
      /\ NotesOf(org)' = NotesOf(org)
  BY <1>1
<1>3. CASE handheld' = handheld
  BY <1>1, <1>2, <1>3 DEF Keeper!vars
<1>4. CASE handheld' = pdb
  <2>1. \A id \in Ids : pdb[id] # NoRecord =>
          \/ ItemOf(pdb[id]) \in reached
          \/ handheld[id] # NoRecord /\ SameItem(pdb[id], handheld[id])
    BY <1>1 DEF IInv, CopyIsConservative
  <2>2. ItemsOf(pdb) \subseteq ItemsOf(handheld) \cup reached
    BY <2>1 DEF ItemsOf, SameItem, Live
  <2>3. DeletedOf(pdb) \subseteq DeletedOf(handheld) \cup reached
    BY <2>1 DEF DeletedOf, SameItem, Live, Present
  <2>4. \A item \in ItemsOf(handheld) \ ItemsOf(pdb) : Keeper!BackedBy(reached, item)
    <3> SUFFICES ASSUME NEW id \in Ids, Live(handheld[id]),
                        ItemOf(handheld[id]) \notin ItemsOf(pdb)
                 PROVE  BackedBy(reached, ItemOf(handheld[id]))
      BY DEF ItemsOf, BackedBy, Keeper!BackedBy
    <3>1. ~Hidden(handheld[id])
      <4> SUFFICES ASSUME Hidden(handheld[id]) PROVE FALSE
        OBVIOUS
      <4>1. pdb[id] # NoRecord /\ SameItem(pdb[id], handheld[id])
        BY <1>1 DEF Live, IInv, CopyIsConservative
      <4>. QED
        BY <4>1 DEF SameItem, ItemsOf
    <3>. QED
      BY <1>1, <3>1 DEF IInv, DoneAreBacked, Plain
  <2>. QED
    BY <1>1, <1>2, <1>4, <2>2, <2>3, <2>4 DEF Keeper!RewritePalm
<1>. QED
  BY <1>1, <1>3, <1>4

\* The edits of the two owners.
LEMMA OwnerKeeps ==
  ASSUME Typed, Owner
  PROVE  Keeper!OwnerEditsPalm \/ Keeper!OwnerEditsDesktop
<1>1. TypeOK'
  BY OwnerTypeOK DEF Typed
<1>2. CASE OrgEdit
  <2>1. /\ UNCHANGED <<handheld, phase>> /\ edits' = edits + 1
        /\ reached' = reached \cup Reading(NotesOf(org'))
    BY <1>2 DEF OrgEdit, OwnerEdit
  <2>2. NotesOf(org') \subseteq Item
    BY <1>1, NotesAreItems DEF TypeOK
  <2>. QED
    BY <2>1, <2>2 DEF Keeper!OwnerEditsDesktop, Reading, Keeper!Reading
<1>3. CASE HandheldEdit
  <2>1. /\ UNCHANGED <<org, reached, phase>> /\ edits' = edits + 1
        /\ phase = "idle"
    BY <1>3 DEF HandheldEdit, OwnerEdit
  <2>2. ItemsOf(handheld') \subseteq Item /\ DeletedOf(handheld') \subseteq Item
    BY <1>1, ItemsAreItems DEF TypeOK
  <2>. QED
    BY <2>1, <2>2 DEF Keeper!OwnerEditsPalm
<1>4. OrgEdit \/ HandheldEdit
  BY DEF Owner, HandheldNew, HandheldChange, HandheldDelete, HandheldPurge,
         HandheldTogglePrivate
<1>. QED
  BY <1>2, <1>3, <1>4

\* Every step of SyncMemos is a step of NoLoss or leaves its variables alone.
LEMMA StepKeeps ==
  ASSUME Typed, IInv, [Next]_vars, "append" \notin Faults
  PROVE  [Keeper!Next]_(Keeper!vars)
<1>1. CASE Owner
  BY <1>1, OwnerKeeps DEF Keeper!Next
<1>2. CASE StartCycle
  <2>1. /\ UNCHANGED <<handheld, org, reached, edits>>
        /\ phase = "idle" /\ phase' = "memos"
    BY <1>2 DEF StartCycle, data
  <2>2. Keeper!Begin
    BY <2>1 DEF Keeper!Begin
  <2>. QED
    BY <2>2 DEF Keeper!Next
<1>3. ASSUME NEW id \in Ids, CopyToDesktop(id)
      PROVE  [Keeper!Next]_(Keeper!vars)
  BY <1>3, CopyToDesktopKeeps DEF Keeper!Next
<1>4. CASE PalmWrite
  BY <1>4, PalmWriteKeeps DEF Keeper!Next
<1>5. ASSUME UNCHANGED <<handheld, org, reached, edits>>,
             phase # "idle", phase' # "idle"
      PROVE  UNCHANGED Keeper!vars
  BY <1>5 DEF Keeper!vars
<1>6. ASSUME NEW id \in Ids,
             DoNothing(id) \/ AddToHandheld(id) \/ ReplaceOnHandheld(id)
               \/ DeleteOnHandheld(id)
      PROVE  UNCHANGED Keeper!vars
  BY <1>5, <1>6 DEF DoNothing, AddToHandheld, ReplaceOnHandheld,
     DeleteOnHandheld, Visit, data, aux
<1>7. CASE SyncNote \/ WriteMemos
  BY <1>5, <1>7 DEF SyncNote, WriteMemos, LoopsDone, data, aux
<1>8. CASE EndDryRun \/ SavePrevious \/ CycleFails \/ Crash
  <2>1. /\ UNCHANGED <<handheld, org, reached, edits>>
        /\ phase # "idle" /\ phase' = "idle"
    BY <1>8 DEF EndDryRun, SavePrevious, CycleFails, Crash, LoopsDone,
                FailCycle, EndCycle, data, aux
  <2>2. Keeper!End
    BY <2>1 DEF Keeper!End
  <2>. QED
    BY <2>2 DEF Keeper!Next
<1>9. CASE UNCHANGED vars
  BY <1>9 DEF vars, Keeper!vars
<1>10. ASSUME NEW id \in Ids, HeaderRefused(id)
       PROVE  Keeper!Next
  <2>1. /\ UNCHANGED <<handheld, org, reached, edits>>
        /\ phase # "idle" /\ phase' = "idle"
    BY <1>10 DEF HeaderRefused, Visit, FailCycle, EndCycle, data
  <2>2. Keeper!End
    BY <2>1 DEF Keeper!End
  <2>. QED
    BY <2>2 DEF Keeper!Next
<1>. QED
  BY <1>1, <1>2, <1>3, <1>4, <1>6, <1>7, <1>8, <1>9, <1>10 DEF Next, Sync

\* Unless the org-file refuses an append, memo synchronization implements NoLoss:
\* no item leaves the handheld before it, or what org_notes_write() makes of it, has
\* been in the org-file, and nothing is deleted on the computer, over any number of
\* cycles, edits, faults and crashes.
THEOREM SyncLosesNothing == "append" \notin Faults => (Spec => NothingLost)
<1> SUFFICES ASSUME "append" \notin Faults
             PROVE  Spec => NothingLost
  OBVIOUS
<1>1. Init => Typed /\ IInv /\ Keeper!Init
  BY InitTypeOK, InitIInv, InitKeeps DEF Typed
<1>2. Typed /\ IInv /\ [Next]_vars =>
        Typed' /\ IInv' /\ [Keeper!Next]_(Keeper!vars)
  BY InvariantStep, StepKeeps
<1>. QED
  BY <1>1, <1>2, PTL DEF Spec, NothingLost, Keeper!Spec

-----------------------------------------------------------------------------
(* The stages of a cycle, and dry runs *)

\* A dry run never gets to writing, writing begins when both loops are done, and
\* the second loop when the first one is.
Stages ==
  /\ dryRun => phase = "memos"
  /\ phase \in {"palm_write", "save"} => todo = {} /\ nextNote > Len(notes)
  /\ nextNote > 1 => todo = {}

\* Every step keeps the order of the stages.
LEMMA StagesStep ==
  ASSUME Typed, Stages, [Next]_vars
  PROVE  Stages'
<1> USE DEF Stages
<1>1. CASE Owner
  <2>1. UNCHANGED <<phase, local>>
    BY <1>1 DEF Owner, HandheldNew, HandheldChange, HandheldDelete,
       HandheldPurge, HandheldTogglePrivate, HandheldEdit, OrgEdit, OwnerEdit
  <2>. QED
    BY <2>1 DEF local
<1>2. CASE StartCycle
  BY <1>2 DEF StartCycle
<1>3. ASSUME NEW id \in Ids,
             DoNothing(id) \/ CopyToDesktop(id) \/ AddToHandheld(id)
               \/ ReplaceOnHandheld(id) \/ DeleteOnHandheld(id)
      PROVE  Stages'
  <2>1. /\ phase = "memos" /\ phase' = phase /\ id \in todo
        /\ nextNote' = nextNote
    BY <1>3 DEF DoNothing, CopyToDesktop, AddToHandheld, ReplaceOnHandheld,
       DeleteOnHandheld, Visit
  <2>2. nextNote = 1
    BY <2>1 DEF Typed, TypeOK
  <2>. QED
    BY <2>1, <2>2
<1>4. CASE SyncNote
  BY <1>4 DEF SyncNote
<1>5. CASE WriteMemos
  BY <1>5 DEF WriteMemos, LoopsDone
<1>6. CASE EndDryRun \/ SavePrevious \/ CycleFails \/ Crash
  BY <1>6 DEF EndDryRun, SavePrevious, CycleFails, Crash, FailCycle, EndCycle
<1>7. CASE PalmWrite
  BY <1>7 DEF PalmWrite, local
<1>8. CASE UNCHANGED vars
  BY <1>8 DEF vars
<1>9. ASSUME NEW id \in Ids, HeaderRefused(id)
      PROVE  Stages'
  BY <1>9 DEF HeaderRefused, FailCycle, EndCycle
<1>. QED
  BY <1>1, <1>2, <1>3, <1>4, <1>5, <1>6, <1>7, <1>8, <1>9 DEF Next, Sync

\* Types are kept by every step, whatever the faults.
LEMMA TypedStep ==
  ASSUME Typed, [Next]_vars
  PROVE  Typed'
<1>1. TypeOK /\ TodoIsPresent
  BY DEF Typed
<1>2. TypeOK'
  <2>1. CASE UNCHANGED vars
    BY <1>1, <2>1 DEF vars, TypeOK
  <2>2. CASE Owner \/ Sync
    BY <1>1, <2>2, OwnerTypeOK, SyncTypeOK
  <2>. QED
    BY <2>1, <2>2 DEF Next
<1>. QED
  BY <1>1, <1>2, TodoStep DEF Typed

\* A step of a dry run that is not an edit of the owner leaves the data alone.
LEMMA DryRunStep ==
  ASSUME Typed, Stages, [Next]_vars, dryRun, edits' = edits
  PROVE  UNCHANGED data
<1>1. phase = "memos"
  BY DEF Stages
<1>2. ~Owner
  <2>1. Owner => edits' = edits + 1
    BY DEF Owner, HandheldNew, HandheldChange, HandheldDelete, HandheldPurge,
       HandheldTogglePrivate, HandheldEdit, OrgEdit, OwnerEdit
  <2>2. edits \in Nat
    BY DEF Typed, TypeOK
  <2>3. edits # edits + 1
    BY <2>2
  <2>. QED
    BY <2>1, <2>3
<1>3. ASSUME NEW id \in Ids, CopyToDesktop(id)
      PROVE  UNCHANGED data
  BY <1>3 DEF CopyToDesktop, data
<1>4. ASSUME NEW id \in Ids,
             DoNothing(id) \/ AddToHandheld(id) \/ ReplaceOnHandheld(id)
               \/ DeleteOnHandheld(id)
      PROVE  UNCHANGED data
  BY <1>4 DEF DoNothing, AddToHandheld, ReplaceOnHandheld, DeleteOnHandheld
<1>5. CASE SyncNote \/ EndDryRun \/ StartCycle
  BY <1>5 DEF SyncNote, EndDryRun, StartCycle
<1>6. CASE CycleFails \/ Crash \/ \E id \in Ids : HeaderRefused(id)
  BY <1>1, <1>6 DEF CycleFails, Crash, HeaderRefused, FailCycle, data
<1>7. ~(WriteMemos \/ PalmWrite \/ SavePrevious)
  BY <1>1 DEF WriteMemos, PalmWrite, SavePrevious
<1>8. CASE UNCHANGED vars
  BY <1>8 DEF vars, data
<1>. QED
  BY <1>2, <1>3, <1>4, <1>5, <1>6, <1>7, <1>8 DEF Next, Sync

\* "If non-zero - do not sync data, just simulate process": no step of a dry run
\* changes the handheld, the org-file or the previous file, whatever fails.
THEOREM DryRunsSimulate == Spec => DryRunTouchesNothing
<1>1. Init => Typed /\ Stages
  <2>1. Init => Stages
    BY DEF Init, Stages
  <2>. QED
    BY <2>1, InitTypeOK DEF Typed
<1>2. Typed /\ Stages /\ [Next]_vars => (Typed /\ Stages)'
  BY TypedStep, StagesStep
<1>3. Typed /\ Stages /\ [Next]_vars =>
        [dryRun /\ edits' = edits => UNCHANGED data]_vars
  BY DryRunStep
<1>. QED
  BY <1>1, <1>2, <1>3, PTL DEF Spec, DryRunTouchesNothing

-----------------------------------------------------------------------------
(* The invariant of settled cycles *)

\* Every note is written with the header of its record, and the parser reads it with
\* the header it was written with.  A header that reads back as another one never
\* settles: its record finds no note and is appended again in every cycle.
HeadersReadBack ==
  /\ \A item \in Item : \A note \in Written[item] : note.header = item.header
  /\ \A item \in Readable : Reread[item].header = item.header

\* Nobody has edited the org-file since the cycle began, or nothing at all since
\* the cycles that settled.
Intact == clean \/ settled > 0

\* The notes of the org-file the running cycle knows of; between cycles, all.
Parsed == 1..(IF phase = "idle" THEN Len(org) ELSE Len(notes))
HasNote(header) == \E i \in Parsed : org[i].header = header
IsFirstNote(item) ==
  \E i \in Parsed :
    /\ \A j \in 1..i : org[j] \in Readable
    /\ Reread[org[i]] = item
    /\ \A j \in 1..(i - 1) : org[j].header # item.header

\* What was parsed is a prefix of the org-file, and all of it in a dry run.
ParsedIsOrg ==
  phase # "idle" /\ Intact =>
    /\ Len(notes) <= Len(org)
    /\ dryRun => Len(notes) = Len(org)
    /\ \A i \in DOMAIN notes : org[i] \in Readable /\ notes[i] = Reread[org[i]]

\* What one clean cycle leaves: the previous file is the handheld, where nothing
\* is dirty; every visible memo has a note, every note has a record ...
SettledOnce ==
  settled > 0 /\ phase # "save" =>
    /\ prev = handheld
    /\ \A id \in Present(handheld) :
         /\ "DIRTY" \notin handheld[id].attr
         /\ Plain(handheld[id]) => HasNote(handheld[id].header)
    /\ \A i \in Parsed : \E id \in Present(handheld) :
         handheld[id].header = org[i].header

\* ... and the second: deleted records have notes too, and every visible memo is
\* the first note of its header.
SettledTwice ==
  settled = 2 /\ phase # "save" =>
    \A id \in Present(handheld) :
      /\ ~Hidden(handheld[id]) => HasNote(handheld[id].header)
      /\ Plain(handheld[id]) => IsFirstNote(ItemOf(handheld[id]))

\* A record still to visit is as it came from the handheld, or was added from the
\* first note of its header.
TodoIsKnown ==
  phase = "memos" /\ Intact =>
    \A id \in todo :
      \/ /\ pdb[id] = handheld[id]
         /\ status[id] = RecordStatus(id, handheld[id], prev)
      \/ /\ pdb[id].attr = {}
         /\ IsFirstNote(ItemOf(pdb[id]))

\* What a clean cycle has done with is what it is to leave.
InStep(id) ==
  /\ Plain(pdb[id]) => \E i \in DOMAIN org : org[i].header = pdb[id].header
  /\ settled > 0 /\ ~Hidden(pdb[id]) => HasNote(pdb[id].header)
  /\ settled > 0 /\ Plain(pdb[id]) => IsFirstNote(ItemOf(pdb[id]))
DoneIsInStep ==
  phase # "idle" /\ ~dryRun /\ clean =>
    \A id \in Present(pdb) \ todo : InStep(id)

\* The notes the cycle has appended have a visited record, the notes the second
\* loop has looked at have one.
NotesHaveRecords ==
  phase # "idle" /\ ~dryRun /\ clean =>
    /\ \A i \in DOMAIN org \ Parsed : \E id \in Present(pdb) \ todo :
         pdb[id].header = org[i].header
    /\ \A i \in DOMAIN notes : i < nextNote =>
         \E id \in Present(pdb) : pdb[id].header = notes[i].header

\* A cycle that follows two clean ones changes no record of the handheld and adds
\* records only for the headers of hidden ones.
CopyIsStable ==
  settled = 2 /\ phase \in {"memos", "palm_write"} =>
    \A id \in Ids :
      /\ handheld[id] # NoRecord =>
           /\ pdb[id] = handheld[id]
           /\ id \in todo => status[id] = RecordStatus(id, handheld[id], prev)
      /\ handheld[id] = NoRecord /\ pdb[id] # NoRecord => Masked(pdb[id].header)

\* Nothing of what is written is dirty; after a clean write it is the handheld.
WrittenIsClean ==
  phase \in {"palm_write", "save"} =>
    /\ \A id \in Present(pdb) : "DIRTY" \notin pdb[id].attr
    /\ phase = "save" /\ clean => handheld = pdb

\* The inductive invariant.
SettledInv ==
  /\ Typed
  /\ Stages
  /\ ParsedIsOrg
  /\ SettledOnce
  /\ SettledTwice
  /\ TodoIsKnown
  /\ DoneIsInStep
  /\ NotesHaveRecords
  /\ CopyIsStable
  /\ WrittenIsClean

-----------------------------------------------------------------------------
(* Notes and their headers *)

\* The parsed notes are notes of the org-file, under the headers written there.
LEMMA ParsedNoteOfOrg ==
  ASSUME SettledInv, HeadersReadBack, phase # "idle", Intact
  PROVE  /\ Parsed = DOMAIN notes
         /\ Parsed \subseteq DOMAIN org
         /\ \A i \in Parsed : /\ org[i] \in Readable
                              /\ notes[i] = Reread[org[i]]
                              /\ notes[i].header = org[i].header
<1>1. notes \in Seq(Item) /\ org \in Seq(Item)
  BY DEF SettledInv, Typed, TypeOK
<1>2. /\ DOMAIN notes = 1..Len(notes) /\ Len(notes) \in Nat
      /\ DOMAIN org = 1..Len(org) /\ Len(org) \in Nat
  BY <1>1, LenProperties
<1>3. Parsed = DOMAIN notes
  BY <1>2 DEF Parsed
<1>4. /\ Len(notes) <= Len(org)
      /\ \A i \in DOMAIN notes : org[i] \in Readable /\ notes[i] = Reread[org[i]]
  BY DEF SettledInv, ParsedIsOrg
<1>5. Parsed \subseteq DOMAIN org
  BY <1>2, <1>3, <1>4
<1>. QED
  BY <1>3, <1>4, <1>5 DEF HeadersReadBack

\* The search of the loops finds a note exactly where the org-file has one, and
\* what it finds is the first note of the header.
LEMMA FoundIsFirst ==
  ASSUME SettledInv, HeadersReadBack, phase # "idle", Intact, NEW header
  PROVE  /\ NotesWith(header) # {} <=> HasNote(header)
         /\ NotesWith(header) # {} => /\ IsFirstNote(FirstNote(header))
                                      /\ FirstNote(header).header = header
<1>0. /\ Parsed = DOMAIN notes
      /\ Parsed \subseteq DOMAIN org
      /\ \A i \in Parsed : /\ org[i] \in Readable
                           /\ notes[i] = Reread[org[i]]
                           /\ notes[i].header = org[i].header
  BY ParsedNoteOfOrg
<1>1. NotesWith(header) = {i \in Parsed : org[i].header = header}
  BY <1>0 DEF NotesWith
<1>2. ASSUME NotesWith(header) # {}
      PROVE  IsFirstNote(FirstNote(header)) /\ FirstNote(header).header = header
  <2>0. DOMAIN notes = 1..Len(notes) /\ Len(notes) \in Nat
    BY LenProperties DEF SettledInv, Typed, TypeOK
  <2>1. NotesWith(header) \in SUBSET Nat
    BY <2>0 DEF NotesWith
  <2>2. \E i \in NotesWith(header) : \A j \in NotesWith(header) : i <= j
    BY <1>2, <2>1, LeastElement
  <2>3. PICK i \in NotesWith(header) : /\ FirstNote(header) = notes[i]
                                       /\ \A j \in NotesWith(header) : i <= j
    BY <2>2 DEF FirstNote
  <2>4. i \in Parsed /\ i \in Nat /\ org[i].header = header
    BY <1>1, <2>1, <2>3
  <2>5. \A j \in 1..i : j \in Parsed
    BY <1>0, <2>0, <2>4
  <2>6. \A j \in 1..(i - 1) : j \in Parsed /\ ~(i <= j)
    BY <2>4, <2>5
  <2>7. \A j \in 1..(i - 1) : org[j].header # header
    BY <1>1, <2>3, <2>6
  <2>8. FirstNote(header).header = header /\ Reread[org[i]] = FirstNote(header)
    BY <1>0, <2>3, <2>4
  <2>. QED
    BY <1>0, <2>4, <2>5, <2>7, <2>8 DEF IsFirstNote
<1>. QED
  BY <1>1, <1>2 DEF HasNote

\* A first note is a note of its header, and a header has only one.
LEMMA FirstNoteHasHeader ==
  ASSUME HeadersReadBack, NEW item, IsFirstNote(item)
  PROVE  HasNote(item.header)
<1>1. PICK i \in Parsed : /\ \A j \in 1..i : org[j] \in Readable
                          /\ Reread[org[i]] = item
  BY DEF IsFirstNote
<1>2. i \in 1..i
  BY DEF Parsed
<1>. QED
  BY <1>1, <1>2 DEF HasNote, HeadersReadBack

LEMMA FirstNoteIsUnique ==
  ASSUME HeadersReadBack, NEW item, NEW other, item.header = other.header,
         IsFirstNote(item), IsFirstNote(other)
  PROVE  item = other
<1>1. PICK i \in Parsed : /\ \A j \in 1..i : org[j] \in Readable
                          /\ Reread[org[i]] = item
                          /\ \A j \in 1..(i - 1) : org[j].header # item.header
  BY DEF IsFirstNote
<1>2. PICK k \in Parsed : /\ \A j \in 1..k : org[j] \in Readable
                          /\ Reread[org[k]] = other
                          /\ \A j \in 1..(k - 1) : org[j].header # other.header
  BY DEF IsFirstNote
<1>3. /\ i \in Nat \ {0} /\ k \in Nat \ {0}
      /\ i \in 1..i /\ k \in 1..k
  BY DEF Parsed
<1>4. org[i].header = item.header /\ org[k].header = item.header
  BY <1>1, <1>2, <1>3 DEF HeadersReadBack
<1>5. i = k
  <2>1. ~(k \in 1..(i - 1)) /\ ~(i \in 1..(k - 1))
    BY <1>1, <1>2, <1>4
  <2>. QED
    BY <1>3, <2>1
<1>. QED
  BY <1>1, <1>2, <1>5

\* Appending to the org-file in a cycle takes nothing from what was parsed.
LEMMA AppendKeepsNotes ==
  ASSUME SettledInv, HeadersReadBack, phase # "idle", phase' # "idle", Intact,
         notes' = notes,
         org' = org \/ \E note \in Item : org' = Append(org, note)
  PROVE  /\ Parsed' = Parsed
         /\ \A i \in DOMAIN org : i \in DOMAIN org' /\ org'[i] = org[i]
         /\ Parsed \subseteq DOMAIN org
         /\ Len(org) <= Len(org')
         /\ \A header : HasNote(header) => HasNote(header)'
         /\ \A item : IsFirstNote(item) => IsFirstNote(item)'
<1>1. Parsed' = Parsed
  BY DEF Parsed
<1>2. org \in Seq(Item) /\ DOMAIN org = 1..Len(org) /\ Len(org) \in Nat
  BY LenProperties DEF SettledInv, Typed, TypeOK
<1>3. /\ \A i \in DOMAIN org : i \in DOMAIN org' /\ org'[i] = org[i]
      /\ Len(org) <= Len(org')
  <2>1. CASE org' = org
    BY <1>2, <2>1
  <2>2. ASSUME NEW note \in Item, org' = Append(org, note)
        PROVE  /\ \A i \in DOMAIN org : i \in DOMAIN org' /\ org'[i] = org[i]
               /\ Len(org) <= Len(org')
    <3> DEFINE longer == Append(org, note)
    <3>1. /\ Len(longer) = Len(org) + 1
          /\ DOMAIN longer = 1..(Len(org) + 1)
          /\ \A i \in 1..Len(org) : longer[i] = org[i]
      BY <1>2, AppendProperties
    <3>2. org' = longer
      BY <2>2
    <3> HIDE DEF longer
    <3>. QED
      BY <1>2, <3>1, <3>2
  <2>. QED
    BY <2>1, <2>2
<1>4. Parsed \subseteq DOMAIN org
  BY ParsedNoteOfOrg
<1>5. \A i \in Parsed : org'[i] = org[i]
  BY <1>3, <1>4
<1>6. \A header : HasNote(header) => HasNote(header)'
  BY <1>1, <1>5 DEF HasNote
<1>7. ASSUME NEW item, IsFirstNote(item)
      PROVE  IsFirstNote(item)'
  <2>1. PICK i \in Parsed :
          /\ \A j \in 1..i : org[j] \in Readable
          /\ Reread[org[i]] = item
          /\ \A j \in 1..(i - 1) : org[j].header # item.header
    BY <1>7 DEF IsFirstNote
  <2>2. \A j \in 1..i : j \in Parsed
    <3>1. i \in 1..Len(org) /\ Parsed = DOMAIN notes
      BY <1>2, <1>4, ParsedNoteOfOrg
    <3>2. DOMAIN notes = 1..Len(notes) /\ Len(notes) \in Nat
      BY LenProperties DEF SettledInv, Typed, TypeOK
    <3>. QED
      BY <3>1, <3>2
  <2>3. \A j \in 1..i : org'[j] = org[j]
    BY <1>5, <2>2
  <2>4. i \in 1..i /\ \A j \in 1..(i - 1) : j \in 1..i
    BY DEF Parsed
  <2>. QED
    BY <1>1, <2>1, <2>3, <2>4 DEF IsFirstNote
<1>. QED
  BY <1>1, <1>3, <1>4, <1>6, <1>7

-----------------------------------------------------------------------------
(* What the first loop does with a record *)

\* After a clean cycle a record is compared with itself: a visible one is not
\* changed, a deleted one is deleted, a hidden one is none.
LEMMA SettledStatus ==
  ASSUME NEW id \in Ids, NEW db \in Db, db[id] # NoRecord,
         "DIRTY" \notin db[id].attr
  PROVE  /\ Plain(db[id]) => RecordStatus(id, db[id], db) = "NOT_CHANGED"
         /\ Hidden(db[id]) => RecordStatus(id, db[id], db) = "NO_RECORD"
         /\ ~Plain(db[id]) /\ ~Hidden(db[id]) =>
              RecordStatus(id, db[id], db) = "DELETED"
<1>1. db # NoPrev
  BY SentinelsAreNotData
<1>2. db[id] \in Record
  BY DEF Db
<1>3. ~Hidden(db[id]) => db[id].attr \in {{}, {"DELETED"}}
  BY <1>2 DEF Hidden, Record, Flags
<1>4. /\ Attribute(db[id]) = db[id].attr
      /\ PrevAttribute(db[id]) = {}
  BY <1>2 DEF Attribute, PrevAttribute, Record
<1>5. Hidden(db[id]) => RecordStatus(id, db[id], db) = "NO_RECORD"
  BY <1>1 DEF RecordStatus
<1>6. ~Hidden(db[id]) =>
        RecordStatus(id, db[id], db) = StatusOfPair({}, db[id].attr)
  BY <1>1, <1>4 DEF RecordStatus
<1>7. StatusOfPair({}, {}) = "NOT_CHANGED"
      /\ StatusOfPair({}, {"DELETED"}) = "DELETED"
  <2>1. /\ {} # {"DELETED"}
        /\ {} # {"DIRTY"}
    OBVIOUS
  <2>. QED
    BY <2>1 DEF StatusOfPair
<1>8. Plain(db[id]) => ~Hidden(db[id]) /\ db[id].attr = {}
  BY <1>3 DEF Plain, Live
<1>9. ~Plain(db[id]) /\ ~Hidden(db[id]) => db[id].attr = {"DELETED"}
  BY <1>3 DEF Plain, Live
<1>. QED
  BY <1>5, <1>6, <1>7, <1>8, <1>9

\* The record the first loop visits.
LEMMA VisitedRecord ==
  ASSUME SettledInv, NEW id \in Ids, NEW actions, Visit(id, actions)
  PROVE  /\ phase = "memos" /\ id \in todo /\ pdb[id] # NoRecord
         /\ pdb[id] \in Record /\ ItemOf(pdb[id]) \in Item
         /\ ItemOf(pdb[id]).header = pdb[id].header
         /\ status[id] \in Statuses
         /\ nextNote = 1
<1>1. phase = "memos" /\ id \in todo
  BY DEF Visit
<1>2. pdb[id] # NoRecord
  BY <1>1 DEF SettledInv, Typed, TodoIsPresent, Present
<1>3. pdb[id] \in Record /\ status[id] \in Statuses
  BY <1>2, DbUpdates DEF SettledInv, Typed, TypeOK
<1>4. nextNote = 1
  BY <1>1 DEF SettledInv, Stages, Typed, TypeOK
<1>. QED
  BY <1>1, <1>2, <1>3, <1>4 DEF Record, ItemOf, Item

\* A record added from a first note is in step.
LEMMA AddedIsInStep ==
  ASSUME SettledInv, HeadersReadBack, phase # "idle", Intact,
         NEW id \in Ids, pdb[id] \in Record, IsFirstNote(ItemOf(pdb[id]))
  PROVE  InStep(id)
<1>1. ItemOf(pdb[id]).header = pdb[id].header
  BY DEF ItemOf
<1>2. HasNote(pdb[id].header)
  BY <1>1, FirstNoteHasHeader
<1>3. Parsed \subseteq DOMAIN org
  BY ParsedNoteOfOrg
<1>. QED
  BY <1>2, <1>3 DEF InStep, HasNote

\* A record the loop leaves as it is: no visible record of the handheld, and after
\* a clean cycle no deleted one without a note.
LEMMA LeftIsInStep ==
  ASSUME SettledInv, HeadersReadBack, clean, NEW id \in Ids, NEW actions,
         actions \in {{"DO_NOTHING"}, {"ADD_TO_HANDHELD"}}, Visit(id, actions)
  PROVE  InStep(id)
<1>1. /\ phase = "memos" /\ id \in todo /\ pdb[id] # NoRecord
      /\ pdb[id] \in Record /\ status[id] \in Statuses
  BY VisitedRecord
<1>2. Intact
  BY DEF Intact
<1>3. CASE IsFirstNote(ItemOf(pdb[id]))
  BY <1>1, <1>2, <1>3, AddedIsInStep
<1>4. CASE /\ pdb[id] = handheld[id]
           /\ status[id] = RecordStatus(id, handheld[id], prev)
  <2>1. NotesWith(pdb[id].header) # {} <=> HasNote(pdb[id].header)
    BY <1>1, <1>2, FoundIsFirst
  <2>2. status[id] \notin {"ADDED", "CHANGED", "NOT_CHANGED"}
    BY <1>1 DEF Visit, ActionForRecord
  <2>3. ~Plain(pdb[id])
    BY <1>1, <1>4, <2>2, PlainStatus
  <2>4. ASSUME settled > 0, ~Hidden(pdb[id])
        PROVE  HasNote(pdb[id].header)
    <3>1. prev = handheld /\ "DIRTY" \notin handheld[id].attr
      BY <1>1, <1>4, <2>4 DEF SettledInv, SettledOnce, Present
    <3>2. status[id] = "DELETED"
      BY <1>1, <1>4, <2>3, <2>4, <3>1, SettledStatus
         DEF SettledInv, Typed, TypeOK
    <3>. QED
      BY <2>1, <3>2 DEF Visit, ActionForRecord
  <2>. QED
    BY <2>3, <2>4 DEF InStep
<1>. QED
  BY <1>1, <1>2, <1>3, <1>4 DEF SettledInv, TodoIsKnown

\* After a clean cycle only records added from a note are copied to the desktop.
LEMMA CopiedIsInStep ==
  ASSUME SettledInv, HeadersReadBack, settled > 0, NEW id \in Ids,
         Visit(id, {"ADD_TO_DESKTOP", "COPY_TO_DESKTOP"})
  PROVE  /\ ~Hidden(pdb[id]) => HasNote(pdb[id].header)
         /\ Plain(pdb[id]) => IsFirstNote(ItemOf(pdb[id]))
<1>1. /\ phase = "memos" /\ id \in todo /\ pdb[id] # NoRecord
      /\ pdb[id] \in Record /\ status[id] \in Statuses
  BY VisitedRecord
<1>2. Intact
  BY DEF Intact
<1>3. CASE IsFirstNote(ItemOf(pdb[id]))
  <2>1. InStep(id)
    BY <1>1, <1>2, <1>3, AddedIsInStep
  <2>. QED
    BY <2>1 DEF InStep
<1>4. CASE /\ pdb[id] = handheld[id]
           /\ status[id] = RecordStatus(id, handheld[id], prev)
  <2>1. NotesWith(pdb[id].header) # {} <=> HasNote(pdb[id].header)
    BY <1>1, <1>2, FoundIsFirst
  <2>2. /\ prev = handheld /\ "DIRTY" \notin handheld[id].attr
        /\ Plain(handheld[id]) => HasNote(handheld[id].header)
    BY <1>1, <1>4 DEF SettledInv, SettledOnce, Present
  <2>3. handheld \in Db
    BY DEF SettledInv, Typed, TypeOK
  <2>4. ~Plain(pdb[id])
    <3> SUFFICES ASSUME Plain(pdb[id]) PROVE FALSE
      OBVIOUS
    <3>1. status[id] = "NOT_CHANGED"
      BY <1>1, <1>4, <2>2, <2>3, SettledStatus
    <3>. QED
      BY <1>4, <2>1, <2>2, <3>1 DEF Visit, ActionForRecord
  <2>5. Hidden(pdb[id])
    <3> SUFFICES ASSUME ~Hidden(pdb[id]) PROVE FALSE
      OBVIOUS
    <3>1. status[id] = "DELETED"
      BY <1>1, <1>4, <2>2, <2>3, <2>4, SettledStatus
    <3>. QED
      BY <3>1 DEF Visit, ActionForRecord
  <2>. QED
    BY <2>4, <2>5
<1>. QED
  BY <1>1, <1>2, <1>3, <1>4 DEF SettledInv, TodoIsKnown

\* After two clean cycles the loop copies, and adds a note for, only records with
\* the header of a hidden one, replaces a record by itself and deletes none.
LEMMA VisitIsStable ==
  ASSUME SettledInv, HeadersReadBack, settled = 2, NEW id \in Ids, NEW actions,
         Visit(id, actions)
  PROVE  /\ actions \in {{"ADD_TO_HANDHELD"}, {"ADD_TO_DESKTOP", "COPY_TO_DESKTOP"}}
              => Masked(pdb[id].header)
         /\ actions = {"REPLACE_ON_HANDHELD"} /\ handheld[id] # NoRecord =>
              FirstNote(pdb[id].header) = ItemOf(pdb[id])
         /\ actions = {"DELETE_ON_HANDHELD"} => handheld[id] = NoRecord
<1>1. /\ phase = "memos" /\ id \in todo /\ pdb[id] # NoRecord
      /\ pdb[id] \in Record /\ status[id] \in Statuses
      /\ ItemOf(pdb[id]).header = pdb[id].header
  BY VisitedRecord
<1>2. Intact
  BY DEF Intact
<1>3. CASE handheld[id] = NoRecord
  <2>1. Masked(pdb[id].header)
    BY <1>1, <1>3 DEF SettledInv, CopyIsStable
  <2>. QED
    BY <1>3, <2>1
<1>4. CASE handheld[id] # NoRecord
  <2>1. /\ pdb[id] = handheld[id]
        /\ status[id] = RecordStatus(id, handheld[id], prev)
    BY <1>1, <1>4 DEF SettledInv, CopyIsStable
  <2>2. /\ prev = handheld /\ "DIRTY" \notin handheld[id].attr
        /\ handheld \in Db
    BY <1>1, <1>4 DEF SettledInv, SettledOnce, Present, Typed, TypeOK
  <2>3. /\ ~Hidden(handheld[id]) => HasNote(handheld[id].header)
        /\ Plain(handheld[id]) => IsFirstNote(ItemOf(handheld[id]))
    BY <1>1, <1>4 DEF SettledInv, SettledTwice, Present
  <2>4. /\ NotesWith(pdb[id].header) # {} <=> HasNote(pdb[id].header)
        /\ NotesWith(pdb[id].header) # {} =>
             /\ IsFirstNote(FirstNote(pdb[id].header))
             /\ FirstNote(pdb[id].header).header = pdb[id].header
    BY <1>1, <1>2, FoundIsFirst
  <2>5. CASE Hidden(handheld[id])
    <3>1. status[id] = "NO_RECORD"
      BY <1>4, <2>1, <2>2, <2>5, SettledStatus
    <3>2. actions \notin {{"REPLACE_ON_HANDHELD"}, {"DELETE_ON_HANDHELD"}}
      BY <3>1 DEF Visit, ActionForRecord
    <3>3. Masked(pdb[id].header)
      BY <1>4, <2>1, <2>5 DEF Masked, Present
    <3>. QED
      BY <3>2, <3>3
  <2>6. CASE Plain(handheld[id])
    <3>1. status[id] = "NOT_CHANGED"
      BY <1>4, <2>1, <2>2, <2>6, SettledStatus
    <3>2. NotesWith(pdb[id].header) # {}
      BY <2>1, <2>3, <2>4, <2>6 DEF Plain
    <3>3. "REPLACE_ON_HANDHELD" \in actions
      BY <3>1, <3>2 DEF Visit, ActionForRecord
    <3>4. FirstNote(pdb[id].header) = ItemOf(pdb[id])
      BY <1>1, <2>1, <2>3, <2>4, <2>6, <3>2, FirstNoteIsUnique
    <3>. QED
      BY <3>3, <3>4
  <2>7. CASE ~Hidden(handheld[id]) /\ ~Plain(handheld[id])
    <3>1. status[id] = "DELETED"
      BY <1>4, <2>1, <2>2, <2>7, SettledStatus
    <3>2. "DO_NOTHING" \in actions
      BY <2>1, <2>3, <2>4, <2>7, <3>1 DEF Visit, ActionForRecord
    <3>. QED
      BY <3>2
  <2>. QED
    BY <2>5, <2>6, <2>7
<1>. QED
  BY <1>3, <1>4

-----------------------------------------------------------------------------
(* The steps of the loops *)

\* A step appends a note with the header of a record of the copy.
AppendsNoteOf(id) ==
  \E note \in Item : note.header = pdb[id].header /\ org' = Append(org, note)

\* A step of the first loop visits one record and may add new ones.  It keeps the
\* invariant if it leaves that record in step and stable, and if the records it
\* adds are first notes.
LEMMA OneVisit ==
  ASSUME SettledInv, HeadersReadBack, (Typed /\ Stages)',
         NEW id \in todo, phase = "memos", NEW New \in SUBSET Ids,
         todo' = (todo \ {id}) \cup New,
         UNCHANGED <<handheld, prev, phase, dryRun, notes, nextNote, settled>>,
         clean' => clean,
         \A other \in Ids \ ({id} \cup New) :
           pdb'[other] = pdb[other] /\ status'[other] = status[other],
         id \notin New,
         \A new \in New : /\ pdb[new] = NoRecord
                          /\ pdb'[new].attr = {}
                          /\ Intact => IsFirstNote(ItemOf(pdb'[new]))
                          /\ settled = 2 => Masked(pdb'[new].header),
         \/ org' = org
         \/ /\ ~dryRun
            /\ AppendsNoteOf(id)
            /\ pdb'[id] = pdb[id],
         ~dryRun /\ clean' => (pdb'[id] # NoRecord => InStep(id)'),
         settled = 2 =>
           /\ handheld[id] # NoRecord => pdb'[id] = handheld[id]
           /\ handheld[id] = NoRecord /\ pdb'[id] # NoRecord =>
                Masked(pdb'[id].header)
  PROVE  SettledInv'
<1>0. /\ Intact' => Intact
      /\ id \in Ids /\ pdb[id] # NoRecord /\ pdb[id] \in Record
      /\ ItemOf(pdb[id]) \in Item
      /\ ItemOf(pdb[id]).header = pdb[id].header
  <2>1. pdb[id] # NoRecord /\ id \in Ids
    BY DEF SettledInv, Typed, TypeOK, TodoIsPresent, Present
  <2>2. pdb[id] \in Record
    BY <2>1, DbUpdates DEF SettledInv, Typed, TypeOK
  <2>. QED
    BY <2>1, <2>2 DEF Intact, Record, Item, ItemOf
<1>1. ASSUME Intact
      PROVE  /\ Parsed' = Parsed
             /\ \A i \in DOMAIN org : i \in DOMAIN org' /\ org'[i] = org[i]
             /\ Parsed \subseteq DOMAIN org
             /\ Len(org) <= Len(org')
             /\ \A header : HasNote(header) => HasNote(header)'
             /\ \A item : IsFirstNote(item) => IsFirstNote(item)'
  <2>1. org' = org \/ \E note \in Item : org' = Append(org, note)
    BY DEF AppendsNoteOf
  <2>2. phase # "idle" /\ phase' # "idle" /\ notes' = notes
    OBVIOUS
  <2>. QED
    BY <1>1, <2>1, <2>2, AppendKeepsNotes
<1>2. ParsedIsOrg'
  <2> SUFFICES ASSUME Intact'
               PROVE  /\ Len(notes) <= Len(org')
                      /\ dryRun => Len(notes) = Len(org')
                      /\ \A i \in DOMAIN notes :
                           org'[i] \in Readable /\ notes[i] = Reread[org'[i]]
    BY DEF ParsedIsOrg
  <2>1. /\ Len(notes) <= Len(org)
        /\ dryRun => Len(notes) = Len(org)
        /\ \A i \in DOMAIN notes : org[i] \in Readable /\ notes[i] = Reread[org[i]]
    BY <1>0 DEF SettledInv, ParsedIsOrg
  <2>2. Len(notes) \in Nat /\ Len(org) \in Nat /\ Len(org') \in Nat
    BY LenProperties DEF SettledInv, Typed, TypeOK
  <2>3. Parsed = DOMAIN notes
    BY <1>0, ParsedNoteOfOrg
  <2>4. \A i \in DOMAIN notes : org'[i] = org[i]
    BY <1>0, <1>1, <2>3
  <2>5. Len(notes) <= Len(org')
    BY <1>0, <1>1, <2>1, <2>2
  <2>6. dryRun => Len(notes) = Len(org')
    BY <2>1
  <2>. QED
    BY <2>1, <2>4, <2>5, <2>6
<1>3. SettledOnce' /\ SettledTwice'
  <2>1. ASSUME settled > 0
        PROVE  SettledOnce'
    <3>1. Intact
      BY <2>1 DEF Intact
    <3>2. /\ prev = handheld
          /\ \A i \in Present(handheld) :
               /\ "DIRTY" \notin handheld[i].attr
               /\ Plain(handheld[i]) => HasNote(handheld[i].header)
          /\ \A i \in Parsed : \E j \in Present(handheld) :
               handheld[j].header = org[i].header
      BY <2>1 DEF SettledInv, SettledOnce
    <3>3. \A i \in Parsed : org'[i] = org[i]
      BY <1>1, <3>1
    <3>. QED
      BY <1>1, <3>1, <3>2, <3>3 DEF SettledOnce, Present
  <2>2. ASSUME settled = 2
        PROVE  SettledTwice'
    <3>1. Intact
      BY <2>2 DEF Intact
    <3>. QED
      BY <1>1, <2>2, <3>1 DEF SettledInv, SettledTwice, Present
  <2>. QED
    BY <2>1, <2>2 DEF SettledOnce, SettledTwice
<1>4. TodoIsKnown'
  <2> SUFFICES ASSUME Intact', NEW i \in todo'
               PROVE  \/ /\ pdb'[i] = handheld[i]
                         /\ status'[i] = RecordStatus(i, handheld[i], prev)
                      \/ pdb'[i].attr = {} /\ IsFirstNote(ItemOf(pdb[i]))'
    BY DEF TodoIsKnown
  <2>1. CASE i \in New
    BY <1>0, <1>1, <2>1
  <2>2. CASE i \notin New
    <3>1. i \in todo /\ i # id /\ i \in Ids
      BY <2>2 DEF SettledInv, Typed, TypeOK
    <3>2. pdb'[i] = pdb[i] /\ status'[i] = status[i]
      BY <2>2, <3>1
    <3>3. \/ /\ pdb[i] = handheld[i]
             /\ status[i] = RecordStatus(i, handheld[i], prev)
          \/ pdb[i].attr = {} /\ IsFirstNote(ItemOf(pdb[i]))
      BY <1>0, <3>1 DEF SettledInv, TodoIsKnown
    <3>. QED
      BY <1>0, <1>1, <3>2, <3>3
  <2>. QED
    BY <2>1, <2>2
<1>5. DoneIsInStep'
  <2> SUFFICES ASSUME ~dryRun, clean', NEW i \in Ids, pdb'[i] # NoRecord,
                      i \notin todo'
               PROVE  InStep(i)'
    BY DEF DoneIsInStep, Present
  <2>1. CASE i = id
    BY <2>1
  <2>2. CASE i # id
    <3>1. i \notin todo /\ pdb'[i] = pdb[i]
      BY <2>2
    <3>2. InStep(i)
      BY <3>1 DEF SettledInv, DoneIsInStep, Present
    <3>3. Intact
      BY DEF Intact
    <3>. QED
      BY <1>1, <3>1, <3>2, <3>3 DEF InStep
  <2>. QED
    BY <2>1, <2>2
<1>6. NotesHaveRecords'
  <2> SUFFICES ASSUME ~dryRun, clean'
               PROVE  /\ \A i \in DOMAIN org' \ Parsed' :
                           \E j \in Present(pdb') \ todo' :
                             pdb'[j].header = org'[i].header
                      /\ \A i \in DOMAIN notes : ~(i < nextNote)
    BY DEF NotesHaveRecords, Present
  <2>1. Intact
    BY DEF Intact
  <2>2. \A i \in DOMAIN notes : ~(i < nextNote)
    <3>1. nextNote = 1 /\ DOMAIN notes = 1..Len(notes)
      BY LenProperties DEF SettledInv, Stages, Typed, TypeOK
    <3>. QED
      BY <3>1
  <2>3. ASSUME NEW i \in DOMAIN org, i \notin Parsed
        PROVE  \E j \in Present(pdb') \ todo' : pdb'[j].header = org'[i].header
    <3>1. PICK j \in Present(pdb) \ todo : pdb[j].header = org[i].header
      BY <2>3 DEF SettledInv, NotesHaveRecords
    <3>2. j \in Ids /\ pdb[j] # NoRecord /\ j # id /\ j \notin New
      BY <3>1 DEF Present
    <3>3. pdb'[j] = pdb[j] /\ j \notin todo'
      BY <3>1, <3>2
    <3>4. org'[i] = org[i]
      BY <1>1, <2>1
    <3>. QED
      BY <3>1, <3>2, <3>3, <3>4 DEF Present
  <2>4. ASSUME org' # org
        PROVE  /\ DOMAIN org' = DOMAIN org \cup {Len(org) + 1}
               /\ org'[Len(org) + 1].header = pdb'[id].header
               /\ id \in Present(pdb') \ todo'
    <3>0. PICK note \in Item : note.header = pdb[id].header /\ org' = Append(org, note)
      BY <2>4 DEF AppendsNoteOf
    <3>1. org' = Append(org, note) /\ pdb'[id] = pdb[id]
      BY <2>4, <3>0
    <3>2. org \in Seq(Item)
      BY DEF SettledInv, Typed, TypeOK
    <3>3. DOMAIN org = 1..Len(org) /\ Len(org) \in Nat
      BY <3>2, LenProperties
    <3>4. /\ DOMAIN Append(org, note) = 1..(Len(org) + 1)
          /\ Append(org, note)[Len(org) + 1] = note
      BY <3>2, AppendProperties
    <3>5. 1..(Len(org) + 1) = 1..Len(org) \cup {Len(org) + 1}
      BY <3>3
    <3>6. id \in Present(pdb') \ todo'
      BY <1>0, <3>1 DEF Present
    <3>. QED
      BY <1>0, <3>0, <3>1, <3>3, <3>4, <3>5, <3>6
  <2>5. \A i \in DOMAIN org' \ Parsed' :
          \E j \in Present(pdb') \ todo' : pdb'[j].header = org'[i].header
    BY <1>1, <2>1, <2>3, <2>4
  <2>. QED
    BY <2>2, <2>5
<1>7. CopyIsStable'
  <2> SUFFICES ASSUME settled = 2, NEW i \in Ids
               PROVE  /\ handheld[i] # NoRecord =>
                           /\ pdb'[i] = handheld[i]
                           /\ i \in todo' =>
                                status'[i] = RecordStatus(i, handheld[i], prev)
                      /\ handheld[i] = NoRecord /\ pdb'[i] # NoRecord =>
                           Masked(pdb'[i].header)
    <3>1. \A header : Masked(header) => Masked(header)'
      BY DEF Masked, Present
    <3>. QED
      BY <3>1 DEF CopyIsStable
  <2>0. /\ handheld[i] # NoRecord =>
             /\ pdb[i] = handheld[i]
             /\ i \in todo => status[i] = RecordStatus(i, handheld[i], prev)
        /\ handheld[i] = NoRecord /\ pdb[i] # NoRecord => Masked(pdb[i].header)
    BY DEF SettledInv, CopyIsStable
  <2>1. CASE i = id
    <3>1. i \notin todo'
      BY <2>1
    <3>. QED
      BY <2>1, <3>1
  <2>2. CASE i \in New
    <3>1. pdb[i] = NoRecord /\ Masked(pdb'[i].header)
      BY <2>2
    <3>. QED
      BY <2>0, <3>1
  <2>3. CASE i # id /\ i \notin New
    <3>1. pdb'[i] = pdb[i] /\ status'[i] = status[i] /\ (i \in todo' <=> i \in todo)
      BY <2>3
    <3>. QED
      BY <2>0, <3>1
  <2>. QED
    BY <2>1, <2>2, <2>3
<1>8. WrittenIsClean'
  BY DEF WrittenIsClean
<1>. QED
  BY <1>2, <1>3, <1>4, <1>5, <1>6, <1>7, <1>8 DEF SettledInv

\* pdb_memos_memo_add() fails, or adds a record without flags under a free id.
LEMMA AddMemoEffect ==
  ASSUME SettledInv, NEW note \in Item, AddMemo(note)
  PROVE  \/ UNCHANGED <<pdb, status>> /\ clean' = FALSE
         \/ /\ UNCHANGED clean
            /\ \E new \in Ids :
                 /\ pdb[new] = NoRecord
                 /\ Present(pdb') \ Present(pdb) = {new}
                 /\ \A other \in Ids \ {new} :
                      pdb'[other] = pdb[other] /\ status'[other] = status[other]
                 /\ pdb'[new] # NoRecord
                 /\ pdb'[new].attr = {}
                 /\ ItemOf(pdb'[new]) = note
<1>1. CASE UNCHANGED <<pdb, status>> /\ clean' = FALSE
  BY <1>1
<1>2. CASE \E new \in Ids \ Present(pdb), fresh \in FreshStatuses :
             /\ pdb' = [pdb EXCEPT ![new] =
                  [header |-> note.header, text |-> note.text, attr |-> {}]]
             /\ status' = [status EXCEPT ![new] = fresh]
             /\ UNCHANGED clean
  <2> DEFINE added == [header |-> note.header, text |-> note.text, attr |-> {}]
  <2>1. PICK new \in Ids \ Present(pdb), fresh \in FreshStatuses :
             /\ pdb' = [pdb EXCEPT ![new] = added]
             /\ status' = [status EXCEPT ![new] = fresh]
             /\ UNCHANGED clean
    BY <1>2
  <2>2. added \in Record
    BY DEF Item, Record
  <2>3. added # NoRecord /\ ItemOf(added) = note /\ added.attr = {}
    BY <2>2, SentinelsAreNotData DEF ItemOf, Item
  <2>4. pdb \in Db /\ status \in [Ids -> Statuses]
    BY DEF SettledInv, Typed, TypeOK
  <2> HIDE DEF added
  <2>5. /\ pdb[new] = NoRecord
        /\ pdb'[new] = added
        /\ \A other \in Ids \ {new} :
             pdb'[other] = pdb[other] /\ status'[other] = status[other]
    BY <2>1, <2>4 DEF Db, Present
  <2>6. Present(pdb') \ Present(pdb) = {new}
    BY <2>3, <2>5 DEF Present
  <2>. QED
    BY <2>1, <2>3, <2>5, <2>6
<1>. QED
  BY <1>1, <1>2 DEF AddMemo, LogFailure

\* Every step of the first loop keeps the invariant.
LEMMA DoNothingSettles ==
  ASSUME SettledInv, HeadersReadBack, (Typed /\ Stages)',
         NEW id \in Ids, DoNothing(id)
  PROVE  SettledInv'
<1>1. /\ Visit(id, {"DO_NOTHING"})
      /\ todo' = todo \ {id}
      /\ UNCHANGED <<handheld, org, prev, phase, dryRun, pdb, status, notes,
                     nextNote, clean, settled>>
  BY DEF DoNothing, data, aux
<1>2. phase = "memos" /\ id \in todo
  BY <1>1, VisitedRecord
<1>3. clean => InStep(id)
  BY <1>1, LeftIsInStep
<1>4. InStep(id)' <=> InStep(id)
  BY <1>1 DEF InStep, HasNote, IsFirstNote, Parsed
<1>5. settled = 2 => /\ handheld[id] # NoRecord => pdb[id] = handheld[id]
                     /\ handheld[id] = NoRecord /\ pdb[id] # NoRecord =>
                          Masked(pdb[id].header)
  BY <1>2 DEF SettledInv, CopyIsStable
<1>6. todo' = (todo \ {id}) \cup {} /\ {} \in SUBSET Ids
  BY <1>1
<1>. QED
  BY <1>1, <1>2, <1>3, <1>4, <1>5, <1>6, OneVisit

\* Copying a record to the desktop: its header has a note then.
LEMMA CopyToDesktopSettles ==
  ASSUME SettledInv, HeadersReadBack, (Typed /\ Stages)',
         NEW id \in Ids, CopyToDesktop(id)
  PROVE  SettledInv'
<1>1. /\ Visit(id, {"ADD_TO_DESKTOP", "COPY_TO_DESKTOP"})
      /\ todo' = todo \ {id}
      /\ UNCHANGED <<handheld, prev, phase, dryRun, pdb, status, notes,
                     nextNote, settled>>
      /\ clean' => clean
      /\ org' = org \/ (~dryRun /\ AppendsNoteOf(id))
      /\ ~dryRun /\ clean' => AppendsNoteOf(id)
  <2>0. ASSUME NEW note \in Written[ItemOf(pdb[id])], org' = Append(org, note)
        PROVE  AppendsNoteOf(id)
    <3>1. ItemOf(pdb[id]) \in Item /\ ItemOf(pdb[id]).header = pdb[id].header
      BY VisitedRecord DEF CopyToDesktop
    <3>. QED
      BY <2>0, <3>1, WrittenIsItem DEF AppendsNoteOf, HeadersReadBack
  <2>1. /\ Visit(id, {"ADD_TO_DESKTOP", "COPY_TO_DESKTOP"})
        /\ todo' = todo \ {id}
        /\ UNCHANGED <<handheld, prev, phase, dryRun, pdb, status, notes,
                       nextNote, settled>>
    BY DEF CopyToDesktop
  <2>2. \/ ~dryRun /\ AppendsNoteOf(id) /\ clean' = clean
        \/ dryRun /\ org' = org /\ clean' = clean
        \/ org' = org /\ clean' = FALSE
    BY <2>0, Zenon DEF CopyToDesktop, LogFailure
  <2>3. clean' => clean
    BY <2>2, Zenon
  <2>4. org' = org \/ (~dryRun /\ AppendsNoteOf(id))
    BY <2>2, Zenon
  <2>5. ~dryRun /\ clean' => AppendsNoteOf(id)
    BY <2>2, Zenon
  <2>. QED
    BY <2>1, <2>3, <2>4, <2>5
<1>2. /\ phase = "memos" /\ id \in todo
      /\ ItemOf(pdb[id]) \in Item /\ ItemOf(pdb[id]).header = pdb[id].header
  BY <1>1, VisitedRecord
<1>3. ASSUME ~dryRun, clean'
      PROVE  InStep(id)'
  <2>0. PICK note \in Item : note.header = pdb[id].header /\ org' = Append(org, note)
    BY <1>1, <1>3 DEF AppendsNoteOf
  <2>1. org' = Append(org, note) /\ clean
    BY <1>1, <1>3, <2>0
  <2>2. Len(org) + 1 \in DOMAIN org' /\ org'[Len(org) + 1].header = pdb'[id].header
    <3>1. org \in Seq(Item)
      BY DEF SettledInv, Typed, TypeOK
    <3>2. /\ DOMAIN Append(org, note) = 1..(Len(org) + 1)
          /\ Append(org, note)[Len(org) + 1] = note
          /\ Len(org) \in Nat
      BY <3>1, AppendProperties, LenProperties
    <3>3. Len(org) + 1 \in 1..(Len(org) + 1)
      BY <3>2
    <3>. QED
      BY <1>1, <2>0, <2>1, <3>2, <3>3
  <2>3. ASSUME settled > 0
        PROVE  /\ ~Hidden(pdb[id]) => HasNote(pdb[id].header)'
               /\ Plain(pdb[id]) => IsFirstNote(ItemOf(pdb[id]))'
    <3>1. /\ ~Hidden(pdb[id]) => HasNote(pdb[id].header)
          /\ Plain(pdb[id]) => IsFirstNote(ItemOf(pdb[id]))
      BY <1>1, <2>3, CopiedIsInStep
    <3>2. /\ \A header : HasNote(header) => HasNote(header)'
          /\ \A item : IsFirstNote(item) => IsFirstNote(item)'
      <4>1. org' = org \/ \E appended \in Item : org' = Append(org, appended)
        BY <2>1
      <4>2. Intact /\ phase # "idle" /\ phase' # "idle" /\ notes' = notes
        BY <1>1, <1>2, <2>1 DEF Intact
      <4>. QED
        BY <4>1, <4>2, AppendKeepsNotes
    <3>. QED
      BY <1>1, <3>1, <3>2
  <2>. QED
    BY <1>1, <2>2, <2>3 DEF InStep
<1>4. settled = 2 => /\ handheld[id] # NoRecord => pdb[id] = handheld[id]
                     /\ handheld[id] = NoRecord /\ pdb[id] # NoRecord =>
                          Masked(pdb[id].header)
  BY <1>2 DEF SettledInv, CopyIsStable
<1>5. todo' = (todo \ {id}) \cup {} /\ {} \in SUBSET Ids
  BY <1>1
<1>. QED
  BY <1>1, <1>2, <1>3, <1>4, <1>5, OneVisit

\* Adding the note of a record's header: the new record is a first note.
LEMMA AddToHandheldSettles ==
  ASSUME SettledInv, HeadersReadBack, (Typed /\ Stages)',
         NEW id \in Ids, AddToHandheld(id)
  PROVE  SettledInv'
<1> DEFINE note == FirstNote(pdb[id].header)
<1>1. /\ Visit(id, {"ADD_TO_HANDHELD"})
      /\ AddMemo(note)
      /\ todo' = (todo \ {id}) \cup (Present(pdb') \ Present(pdb))
      /\ UNCHANGED <<handheld, org, prev, phase, dryRun, notes, nextNote, settled>>
  BY DEF AddToHandheld, data
<1>2. /\ phase = "memos" /\ id \in todo /\ pdb[id] # NoRecord
      /\ pdb[id] \in Record /\ status[id] \in Statuses
  BY <1>1, VisitedRecord
<1>3. note \in Item /\ note.header = pdb[id].header
  BY <1>1, VisitFindsANote DEF SettledInv, Typed
<1>4. Intact => IsFirstNote(note)
  <2>1. NotesWith(pdb[id].header) # {}
    BY <1>1, <1>2 DEF Visit, ActionForRecord, Statuses
  <2>. QED
    BY <1>2, <2>1, FoundIsFirst
<1>5. settled = 2 => Masked(pdb[id].header)
  BY <1>1, VisitIsStable
<1>6. clean => InStep(id)
  BY <1>1, LeftIsInStep
<1>7. settled = 2 => /\ handheld[id] # NoRecord => pdb[id] = handheld[id]
                     /\ handheld[id] = NoRecord /\ pdb[id] # NoRecord =>
                          Masked(pdb[id].header)
  BY <1>2 DEF SettledInv, CopyIsStable
<1> HIDE DEF note
<1>8. ASSUME pdb'[id] = pdb[id]
      PROVE  InStep(id)' <=> InStep(id)
  BY <1>1, <1>8 DEF InStep, HasNote, IsFirstNote, Parsed
<1>9. CASE UNCHANGED <<pdb, status>> /\ clean' = FALSE
  <2>1. todo' = (todo \ {id}) \cup {} /\ {} \in SUBSET Ids
    BY <1>1, <1>9
  <2>. QED
    BY <1>1, <1>2, <1>7, <1>9, <2>1, OneVisit
<1>10. ASSUME UNCHANGED clean,
              NEW new \in Ids,
              pdb[new] = NoRecord,
              Present(pdb') \ Present(pdb) = {new},
              \A other \in Ids \ {new} :
                pdb'[other] = pdb[other] /\ status'[other] = status[other],
              pdb'[new] # NoRecord,
              pdb'[new].attr = {},
              ItemOf(pdb'[new]) = note
       PROVE  SettledInv'
  <2>1. todo' = (todo \ {id}) \cup {new} /\ {new} \in SUBSET Ids /\ id \notin {new}
    BY <1>1, <1>2, <1>10
  <2>2. pdb'[id] = pdb[id]
    BY <1>2, <1>10
  <2>3. pdb'[new].header = pdb[id].header
    BY <1>3, <1>10 DEF ItemOf
  <2>4. \A n \in {new} : /\ pdb[n] = NoRecord
                         /\ pdb'[n].attr = {}
                         /\ Intact => IsFirstNote(ItemOf(pdb'[n]))
                         /\ settled = 2 => Masked(pdb'[n].header)
    BY <1>4, <1>5, <1>10, <2>3
  <2>5. \A other \in Ids \ ({id} \cup {new}) :
          pdb'[other] = pdb[other] /\ status'[other] = status[other]
    BY <1>10
  <2>6. InStep(id)' <=> InStep(id)
    BY <1>8, <2>2
  <2>7. ~dryRun /\ clean' => (pdb'[id] # NoRecord => InStep(id)')
    BY <1>6, <1>10, <2>6
  <2>8. settled = 2 => /\ handheld[id] # NoRecord => pdb'[id] = handheld[id]
                       /\ handheld[id] = NoRecord /\ pdb'[id] # NoRecord =>
                            Masked(pdb'[id].header)
    BY <1>7, <2>2
  <2>9. clean' => clean
    BY <1>10
  <2>. QED
    BY <1>1, <1>2, <2>1, <2>4, <2>5, <2>7, <2>8, <2>9, OneVisit
<1>. QED
  BY <1>1, <1>3, <1>9, <1>10, AddMemoEffect

\* Replacing a record: it is the first note then.
LEMMA ReplaceOnHandheldSettles ==
  ASSUME SettledInv, HeadersReadBack, (Typed /\ Stages)',
         NEW id \in Ids, ReplaceOnHandheld(id)
  PROVE  SettledInv'
<1> DEFINE note == FirstNote(pdb[id].header)
<1>1. /\ Visit(id, {"REPLACE_ON_HANDHELD"})
      /\ todo' = todo \ {id}
      /\ UNCHANGED <<handheld, org, prev, phase, dryRun, status, notes, nextNote,
                     settled>>
      /\ \/ pdb' = [pdb EXCEPT ![id].text = note.text] /\ UNCHANGED clean
         \/ clean' = FALSE /\ UNCHANGED pdb
  BY DEF ReplaceOnHandheld, LogFailure, data
<1>2. /\ phase = "memos" /\ id \in todo /\ pdb[id] # NoRecord
      /\ pdb[id] \in Record /\ status[id] \in Statuses
  BY <1>1, VisitedRecord
<1>3. note \in Item /\ note.header = pdb[id].header
  BY <1>1, VisitFindsANote DEF SettledInv, Typed
<1>4. Intact => HasNote(pdb[id].header) /\ IsFirstNote(note)
  <2>1. NotesWith(pdb[id].header) # {}
    BY <1>1, <1>2 DEF Visit, ActionForRecord, Statuses
  <2>. QED
    BY <1>2, <2>1, FoundIsFirst
<1>5. settled = 2 => /\ handheld[id] # NoRecord =>
                          pdb[id] = handheld[id] /\ note = ItemOf(pdb[id])
                     /\ handheld[id] = NoRecord => Masked(pdb[id].header)
  BY <1>1, <1>2, VisitIsStable DEF SettledInv, CopyIsStable
<1>6. todo' = (todo \ {id}) \cup {} /\ {} \in SUBSET Ids
  BY <1>1
<1> HIDE DEF note
<1>7. CASE clean' = FALSE /\ UNCHANGED pdb
  BY <1>1, <1>2, <1>5, <1>6, <1>7, OneVisit
<1>8. CASE pdb' = [pdb EXCEPT ![id].text = note.text] /\ UNCHANGED clean
  <2>1. /\ \A other \in Ids \ {id} : pdb'[other] = pdb[other]
        /\ pdb'[id] = [pdb[id] EXCEPT !.text = note.text]
    BY <1>8 DEF SettledInv, Typed, TypeOK, Db
  <2>2. /\ pdb'[id].header = pdb[id].header
        /\ ItemOf(pdb'[id]) = note
        /\ note = ItemOf(pdb[id]) => pdb'[id] = pdb[id]
    BY <1>2, <1>3, <2>1 DEF Record, Item, ItemOf
  <2>3. ASSUME clean
        PROVE  InStep(id)'
    <3>1. HasNote(pdb[id].header) /\ IsFirstNote(note)
      BY <1>4, <2>3 DEF Intact
    <3>2. Parsed \subseteq DOMAIN org
      BY <1>2, <2>3, ParsedNoteOfOrg DEF Intact
    <3>3. Parsed' = Parsed
      BY <1>1 DEF Parsed
    <3>4. (HasNote(pdb[id].header) /\ IsFirstNote(ItemOf(pdb[id])))'
      BY <1>1, <2>2, <3>1, <3>3 DEF HasNote, IsFirstNote
    <3>5. \E i \in DOMAIN org' : org'[i].header = pdb'[id].header
      BY <1>1, <2>2, <3>1, <3>2 DEF HasNote
    <3>. QED
      BY <3>4, <3>5 DEF InStep
  <2>4. settled = 2 => /\ handheld[id] # NoRecord => pdb'[id] = handheld[id]
                       /\ handheld[id] = NoRecord /\ pdb'[id] # NoRecord =>
                            Masked(pdb'[id].header)
    BY <1>5, <2>2
  <2>5. \A other \in Ids \ ({id} \cup {}) :
          pdb'[other] = pdb[other] /\ status'[other] = status[other]
    BY <1>1, <2>1
  <2>6. ~dryRun /\ clean' => (pdb'[id] # NoRecord => InStep(id)')
    BY <1>8, <2>3
  <2>7. (clean' => clean) /\ id \notin {} /\ org' = org
    BY <1>1, <1>8
  <2>. QED
    BY <1>1, <1>2, <1>6, <2>4, <2>5, <2>6, <2>7, OneVisit
<1>. QED
  BY <1>1, <1>7, <1>8

\* Deleting a record: after two clean cycles, none of the handheld.
LEMMA DeleteOnHandheldSettles ==
  ASSUME SettledInv, HeadersReadBack, (Typed /\ Stages)',
         NEW id \in Ids, DeleteOnHandheld(id)
  PROVE  SettledInv'
<1>1. /\ Visit(id, {"DELETE_ON_HANDHELD"})
      /\ todo' = todo \ {id}
      /\ UNCHANGED <<handheld, org, prev, phase, dryRun, status, notes, nextNote,
                     settled>>
      /\ \/ pdb' = [pdb EXCEPT ![id] = NoRecord] /\ UNCHANGED clean
         \/ clean' = FALSE /\ UNCHANGED pdb
  BY DEF DeleteOnHandheld, LogFailure, data
<1>2. /\ phase = "memos" /\ id \in todo
  BY <1>1, VisitedRecord
<1>3. settled = 2 => handheld[id] = NoRecord /\ Masked(pdb[id].header)
  <2>1. settled = 2 => handheld[id] = NoRecord
    BY <1>1, VisitIsStable
  <2>. QED
    BY <1>1, <1>2, <2>1, VisitedRecord DEF SettledInv, CopyIsStable
<1>4. todo' = (todo \ {id}) \cup {} /\ {} \in SUBSET Ids
  BY <1>1
<1>5. CASE clean' = FALSE /\ UNCHANGED pdb
  BY <1>1, <1>2, <1>3, <1>4, <1>5, OneVisit
<1>6. CASE pdb' = [pdb EXCEPT ![id] = NoRecord] /\ UNCHANGED clean
  <2>1. /\ \A other \in Ids \ {id} : pdb'[other] = pdb[other]
        /\ pdb'[id] = NoRecord
    BY <1>6 DEF SettledInv, Typed, TypeOK, Db
  <2>2. \A other \in Ids \ ({id} \cup {}) :
          pdb'[other] = pdb[other] /\ status'[other] = status[other]
    BY <1>1, <2>1
  <2>3. ~dryRun /\ clean' => (pdb'[id] # NoRecord => InStep(id)')
    BY <2>1
  <2>4. (clean' => clean) /\ id \notin {} /\ org' = org
    BY <1>1, <1>6
  <2>5. settled = 2 => /\ handheld[id] # NoRecord => pdb'[id] = handheld[id]
                       /\ handheld[id] = NoRecord /\ pdb'[id] # NoRecord =>
                            Masked(pdb'[id].header)
    BY <1>3, <2>1
  <2>. QED
    BY <1>1, <1>2, <1>4, <2>2, <2>3, <2>4, <2>5, OneVisit
<1>. QED
  BY <1>1, <1>5, <1>6

\* The second loop adds a note only where no record has its header, so it is the
\* first of its header; after two clean cycles it adds none.
LEMMA SyncNoteSettles ==
  ASSUME SettledInv, HeadersReadBack, (Typed /\ Stages)', SyncNote
  PROVE  SettledInv'
<1> DEFINE note == notes[nextNote]
           known == \E id \in Present(pdb) : pdb[id].header = note.header
<1>1. /\ phase = "memos" /\ todo = {} /\ nextNote <= Len(notes)
      /\ nextNote' = nextNote + 1
      /\ UNCHANGED <<handheld, org, prev, phase, dryRun, todo, notes, settled>>
      /\ IF known THEN UNCHANGED <<pdb, status, clean>> ELSE AddMemo(note)
  BY DEF SyncNote, data
<1>2. /\ nextNote \in DOMAIN notes /\ nextNote \in Nat \ {0} /\ note \in Item
      /\ DOMAIN notes = 1..Len(notes)
  <2>1. notes \in Seq(Item) /\ nextNote \in Nat \ {0}
    BY DEF SettledInv, Typed, TypeOK
  <2>2. DOMAIN notes = 1..Len(notes) /\ Len(notes) \in Nat
    BY <2>1, LenProperties
  <2>3. nextNote \in 1..Len(notes)
    BY <1>1, <2>1, <2>2
  <2>. QED
    BY <2>1, <2>2, <2>3, ElementOfSeq
<1>3. Parsed' = Parsed
  BY <1>1 DEF Parsed
<1> HIDE DEF note, known
<1>4. \/ /\ UNCHANGED <<pdb, status>>
         /\ clean' => clean /\ known
      \/ /\ UNCHANGED clean /\ ~known
         /\ \E new \in Ids :
              /\ pdb[new] = NoRecord
              /\ Present(pdb') \ Present(pdb) = {new}
              /\ \A other \in Ids \ {new} :
                   pdb'[other] = pdb[other] /\ status'[other] = status[other]
              /\ pdb'[new] # NoRecord
              /\ pdb'[new].attr = {}
              /\ ItemOf(pdb'[new]) = note
  <2>1. CASE known
    BY <1>1, <2>1
  <2>2. CASE ~known
    BY <1>1, <1>2, <2>2, AddMemoEffect
  <2>. QED
    BY <2>1, <2>2
<1>5. clean' => clean
  BY <1>4, Zenon
<1>6. Intact' => Intact
  BY <1>1, <1>5 DEF Intact
<1>7. ParsedIsOrg'
  BY <1>1, <1>6 DEF SettledInv, ParsedIsOrg
<1>8. SettledOnce' /\ SettledTwice'
  <2>1. SettledOnce'
    BY <1>1, <1>3 DEF SettledInv, SettledOnce, HasNote, Present
  <2>2. SettledTwice'
    BY <1>1, <1>3 DEF SettledInv, SettledTwice, HasNote, IsFirstNote, Present
  <2>. QED
    BY <2>1, <2>2
<1>9. TodoIsKnown' /\ WrittenIsClean'
  BY <1>1 DEF TodoIsKnown, WrittenIsClean
<1>10. ASSUME ~dryRun, clean
       PROVE  /\ \A i \in DOMAIN org \ Parsed : \E id \in Present(pdb) :
                   pdb[id].header = org[i].header
              /\ \A i \in DOMAIN notes : i < nextNote =>
                   \E id \in Present(pdb) : pdb[id].header = notes[i].header
              /\ \A id \in Present(pdb) : InStep(id)
  BY <1>1, <1>10 DEF SettledInv, NotesHaveRecords, DoneIsInStep
<1>11. CASE UNCHANGED <<pdb, status>> /\ (clean' => known)
  <2>1. DoneIsInStep'
    <3> SUFFICES ASSUME ~dryRun, clean', NEW id \in Present(pdb)
                 PROVE  InStep(id)'
      BY <1>1, <1>11 DEF DoneIsInStep, Present
    <3>1. InStep(id)
      BY <1>5, <1>10
    <3>. QED
      BY <1>1, <1>3, <1>11, <3>1 DEF InStep, HasNote, IsFirstNote
  <2>2. NotesHaveRecords'
    <3> SUFFICES ASSUME ~dryRun, clean'
                 PROVE  /\ \A i \in DOMAIN org \ Parsed : \E id \in Present(pdb) :
                             pdb[id].header = org[i].header
                        /\ \A i \in DOMAIN notes : i < nextNote + 1 =>
                             \E id \in Present(pdb) : pdb[id].header = notes[i].header
      BY <1>1, <1>3, <1>11 DEF NotesHaveRecords, Present
    <3>1. \E id \in Present(pdb) : pdb[id].header = notes[nextNote].header
      BY <1>11 DEF known, note
    <3>2. \A i \in DOMAIN notes : i < nextNote + 1 => i < nextNote \/ i = nextNote
      BY <1>2
    <3>. QED
      BY <1>5, <1>10, <3>1, <3>2
  <2>3. CopyIsStable'
    BY <1>1, <1>11 DEF SettledInv, CopyIsStable, Masked, Present
  <2>. QED
    BY <1>7, <1>8, <1>9, <2>1, <2>2, <2>3 DEF SettledInv
<1>12. ASSUME UNCHANGED clean, ~known,
              NEW new \in Ids,
              pdb[new] = NoRecord,
              \A other \in Ids \ {new} :
                pdb'[other] = pdb[other] /\ status'[other] = status[other],
              pdb'[new] # NoRecord,
              pdb'[new].attr = {},
              ItemOf(pdb'[new]) = note
       PROVE  SettledInv'
  <2>0. /\ pdb'[new].header = note.header
        /\ \A id \in Present(pdb) : id \in Present(pdb') /\ pdb'[id] = pdb[id]
        /\ new \in Present(pdb')
        /\ \A id \in Present(pdb') : id = new \/ id \in Present(pdb)
    BY <1>12 DEF Present, ItemOf
  <2>1. ASSUME Intact
        PROVE  /\ nextNote \in Parsed
               /\ org[nextNote].header = note.header
               /\ Reread[org[nextNote]] = note
               /\ Parsed \subseteq DOMAIN org
    BY <1>1, <1>2, <2>1, ParsedNoteOfOrg DEF note
  <2>2. ASSUME ~dryRun, clean
        PROVE  IsFirstNote(note)
    <3>0. Intact
      BY <2>2 DEF Intact
    <3>1. /\ Parsed = DOMAIN notes
          /\ \A i \in Parsed : /\ org[i] \in Readable
                               /\ notes[i].header = org[i].header
      BY <1>1, <3>0, ParsedNoteOfOrg
    <3>2. \A j \in 1..nextNote : j \in Parsed
      <4>1. nextNote \in 1..Len(notes) /\ Len(notes) \in Nat
        BY <1>2, LenProperties DEF SettledInv, Typed, TypeOK
      <4>. QED
        BY <1>2, <3>1, <4>1
    <3>3. \A j \in 1..(nextNote - 1) : j \in 1..nextNote /\ j < nextNote
      BY <1>2
    <3>4. \A j \in 1..(nextNote - 1) : org[j].header # note.header
      <4> SUFFICES ASSUME NEW j \in 1..(nextNote - 1),
                          org[j].header = note.header
                   PROVE  FALSE
        OBVIOUS
      <4>1. j \in DOMAIN notes /\ j < nextNote /\ notes[j].header = note.header
        BY <3>1, <3>2, <3>3
      <4>2. \E id \in Present(pdb) : pdb[id].header = notes[j].header
        BY <1>10, <2>2, <4>1
      <4>. QED
        BY <1>12, <4>1, <4>2 DEF known
    <3>. QED
      BY <2>1, <3>0, <3>1, <3>2, <3>4 DEF IsFirstNote
  <2>3. DoneIsInStep'
    <3> SUFFICES ASSUME ~dryRun, clean, NEW id \in Present(pdb')
                 PROVE  InStep(id)'
      BY <1>1, <1>12 DEF DoneIsInStep
    <3>0. Intact
      BY DEF Intact
    <3>1. CASE id = new
      <4>1. HasNote(note.header) /\ IsFirstNote(note)
        BY <2>1, <2>2, <3>0 DEF HasNote
      <4>2. \E i \in DOMAIN org : org[i].header = note.header
        BY <2>1, <3>0
      <4>3. (HasNote(pdb[new].header) /\ IsFirstNote(ItemOf(pdb[new])))'
        BY <1>1, <1>3, <1>12, <2>0, <4>1 DEF HasNote, IsFirstNote
      <4>. QED
        BY <1>1, <2>0, <3>1, <4>2, <4>3 DEF InStep
    <3>2. CASE id # new
      <4>1. InStep(id) /\ pdb'[id] = pdb[id]
        BY <1>10, <2>0, <3>2
      <4>. QED
        BY <1>1, <1>3, <4>1 DEF InStep, HasNote, IsFirstNote
    <3>. QED
      BY <3>1, <3>2
  <2>4. NotesHaveRecords'
    <3> SUFFICES ASSUME ~dryRun, clean
                 PROVE  /\ \A i \in DOMAIN org \ Parsed : \E id \in Present(pdb') :
                             pdb'[id].header = org[i].header
                        /\ \A i \in DOMAIN notes : i < nextNote + 1 =>
                             \E id \in Present(pdb') : pdb'[id].header = notes[i].header
      BY <1>1, <1>3, <1>12 DEF NotesHaveRecords
    <3>1. \A i \in DOMAIN notes : i < nextNote + 1 => i < nextNote \/ i = nextNote
      BY <1>2
    <3>2. pdb'[new].header = notes[nextNote].header
      BY <2>0 DEF note
    <3>3. \A i \in DOMAIN org \ Parsed : \E id \in Present(pdb') :
                             pdb'[id].header = org[i].header
      BY <1>10, <2>0
    <3>4. \A i \in DOMAIN notes : i < nextNote =>
                             \E id \in Present(pdb') : pdb'[id].header = notes[i].header
      BY <1>10, <2>0
    <3>. QED
      BY <2>0, <3>1, <3>2, <3>3, <3>4
  <2>5. ASSUME settled = 2
        PROVE  FALSE
    <3>1. nextNote \in Parsed /\ org[nextNote].header = note.header
      BY <2>1, <2>5 DEF Intact
    <3>2. PICK id \in Present(handheld) : handheld[id].header = note.header
      BY <1>1, <2>5, <3>1 DEF SettledInv, SettledOnce
    <3>3. id \in Present(pdb) /\ pdb[id].header = note.header
      BY <1>1, <2>5, <3>2 DEF SettledInv, CopyIsStable, Present
    <3>. QED
      BY <1>12, <3>3 DEF known
  <2>6. CopyIsStable'
    BY <1>1, <2>5 DEF CopyIsStable
  <2>. QED
    BY <1>7, <1>8, <1>9, <2>3, <2>4, <2>6 DEF SettledInv
<1>13. \/ UNCHANGED <<pdb, status>> /\ (clean' => known)
       \/ /\ UNCHANGED clean /\ ~known
          /\ \E new \in Ids :
               /\ pdb[new] = NoRecord
               /\ \A other \in Ids \ {new} :
                    pdb'[other] = pdb[other] /\ status'[other] = status[other]
               /\ pdb'[new] # NoRecord
               /\ pdb'[new].attr = {}
               /\ ItemOf(pdb'[new]) = note
  BY <1>4, Zenon
<1>. QED
  BY <1>11, <1>12, <1>13

-----------------------------------------------------------------------------
(* The other steps of a cycle *)

\* Intervals from 1 are equal when their ends are.
LEMMA IntervalsAreEqual ==
  ASSUME NEW m \in Nat, NEW n \in Nat, 1..m = 1..n
  PROVE  m = n
<1>1. m <= n
  <2>1. m = 0 \/ m \in 1..n
    OBVIOUS
  <2>. QED
    BY <2>1
<1>2. n <= m
  <2>1. n = 0 \/ n \in 1..m
    OBVIOUS
  <2>. QED
    BY <2>1
<1>. QED
  BY <1>1, <1>2

\* A cycle starts with all the notes and all the records of the handheld.
LEMMA StartSettles ==
  ASSUME SettledInv, HeadersReadBack, (Typed /\ Stages)', StartCycle
  PROVE  SettledInv'
<1>1. /\ phase = "idle" /\ phase' = "memos" /\ NotesOf(org) \subseteq Readable
      /\ UNCHANGED <<handheld, org, prev, settled>>
      /\ pdb' = handheld /\ todo' = Present(handheld)
      /\ \A id \in Present(handheld) :
           status'[id] = RecordStatus(id, handheld[id], prev)
      /\ notes' = [i \in DOMAIN org |-> Reread[org[i]]] /\ nextNote' = 1
  BY DEF StartCycle, data, Present
<1>2. /\ DOMAIN notes' = DOMAIN org /\ DOMAIN org = 1..Len(org)
      /\ Len(org) \in Nat /\ Len(notes') = Len(org)
      /\ \A i \in DOMAIN org : org[i] \in Readable /\ notes'[i] = Reread[org[i]]
  <2>1. org \in Seq(Item) /\ notes' \in Seq(Item)
    BY DEF SettledInv, Typed, TypeOK
  <2>2. /\ DOMAIN org = 1..Len(org) /\ Len(org) \in Nat
        /\ DOMAIN notes' = 1..Len(notes') /\ Len(notes') \in Nat
    BY <2>1, LenProperties
  <2>3. DOMAIN notes' = DOMAIN org
        /\ \A i \in DOMAIN org : notes'[i] = Reread[org[i]]
    BY <1>1
  <2>4. Len(notes') = Len(org)
    BY <2>2, <2>3, IntervalsAreEqual
  <2>. QED
    BY <1>1, <2>2, <2>3, <2>4 DEF NotesOf
<1>3. Parsed' = Parsed /\ Parsed = DOMAIN org
  BY <1>1, <1>2 DEF Parsed
<1>4. ParsedIsOrg'
  BY <1>1, <1>2 DEF ParsedIsOrg
<1>5. SettledOnce'
  BY <1>1, <1>3 DEF SettledInv, SettledOnce, HasNote, Present
<1>6. SettledTwice'
  BY <1>1, <1>3 DEF SettledInv, SettledTwice, HasNote, IsFirstNote, Present
<1>7. TodoIsKnown'
  BY <1>1 DEF TodoIsKnown
<1>8. DoneIsInStep'
  BY <1>1 DEF DoneIsInStep
<1>9. NotesHaveRecords'
  <2>1. \A i \in DOMAIN notes' : ~(i < 1)
    BY <1>2
  <2>. QED
    BY <1>1, <1>3, <2>1 DEF NotesHaveRecords
<1>10. CopyIsStable'
  BY <1>1 DEF CopyIsStable, Present
<1>11. WrittenIsClean'
  BY <1>1 DEF WrittenIsClean
<1>. QED
  BY <1>4, <1>5, <1>6, <1>7, <1>8, <1>9, <1>10, <1>11 DEF SettledInv

\* Clearing the dirty bits leaves a database without them, the same records under
\* the same headers, and a record that had none as it is.
LEMMA CleanedIsClean ==
  ASSUME NEW db \in Db
  PROVE  /\ Present(Cleaned(db)) = Present(db)
         /\ \A id \in Present(db) :
              /\ "DIRTY" \notin Cleaned(db)[id].attr
              /\ Cleaned(db)[id].header = db[id].header
              /\ ItemOf(Cleaned(db)[id]) = ItemOf(db[id])
              /\ Plain(Cleaned(db)[id]) <=> Plain(db[id])
              /\ Hidden(Cleaned(db)[id]) <=> Hidden(db[id])
              /\ "DIRTY" \notin db[id].attr => Cleaned(db)[id] = db[id]
<1>1. Present(Cleaned(db)) = Present(db)
  BY CleanedKeeps DEF Present
<1>2. ASSUME NEW id \in Ids, db[id] # NoRecord
      PROVE  /\ "DIRTY" \notin Cleaned(db)[id].attr
             /\ Cleaned(db)[id].header = db[id].header
             /\ ItemOf(Cleaned(db)[id]) = ItemOf(db[id])
             /\ Plain(Cleaned(db)[id]) <=> Plain(db[id])
             /\ Hidden(Cleaned(db)[id]) <=> Hidden(db[id])
             /\ "DIRTY" \notin db[id].attr => Cleaned(db)[id] = db[id]
  <2>1. db[id] \in Record
    BY <1>2 DEF Db
  <2>2. Cleaned(db)[id] = [db[id] EXCEPT !.attr = @ \ {"DIRTY"}]
    BY <1>2 DEF Cleaned
  <2>3. /\ Cleaned(db)[id] \in Record
        /\ Cleaned(db)[id].header = db[id].header
        /\ Cleaned(db)[id].text = db[id].text
        /\ Cleaned(db)[id].attr = db[id].attr \ {"DIRTY"}
    BY <2>1, <2>2 DEF Record
  <2>4. Cleaned(db)[id] # NoRecord
    BY <2>3, SentinelsAreNotData
  <2>5. "DIRTY" \notin db[id].attr => Cleaned(db)[id] = db[id]
    <3> SUFFICES ASSUME "DIRTY" \notin db[id].attr
                 PROVE  Cleaned(db)[id] = db[id]
      OBVIOUS
    <3>1. db[id].attr \ {"DIRTY"} = db[id].attr
      OBVIOUS
    <3>. QED
      BY <2>1, <2>2, <3>1 DEF Record
  <2>. QED
    BY <1>2, <2>3, <2>4, <2>5 DEF ItemOf, Plain, Live, Hidden
<1>. QED
  BY <1>1, <1>2 DEF Present

\* The temporary file is the copy without the dirty bits.
LEMMA WriteSettles ==
  ASSUME SettledInv, HeadersReadBack, (Typed /\ Stages)', WriteMemos
  PROVE  SettledInv'
<1>1. /\ phase = "memos" /\ phase' = "palm_write" /\ todo = {} /\ ~dryRun
      /\ UNCHANGED <<handheld, org, prev, dryRun, todo, status, notes, nextNote,
                     clean, settled>>
      /\ pdb' = Cleaned(pdb)
  BY DEF WriteMemos, LoopsDone, data, aux
<1>2. /\ Present(pdb') = Present(pdb)
      /\ \A id \in Present(pdb) :
           /\ "DIRTY" \notin pdb'[id].attr
           /\ pdb'[id].header = pdb[id].header
           /\ ItemOf(pdb'[id]) = ItemOf(pdb[id])
           /\ Plain(pdb'[id]) <=> Plain(pdb[id])
           /\ Hidden(pdb'[id]) <=> Hidden(pdb[id])
           /\ "DIRTY" \notin pdb[id].attr => pdb'[id] = pdb[id]
  BY <1>1, CleanedIsClean DEF SettledInv, Typed, TypeOK
<1>3. Parsed' = Parsed /\ (Intact' <=> Intact)
  BY <1>1 DEF Parsed, Intact
<1>4. ParsedIsOrg'
  BY <1>1, <1>3 DEF SettledInv, ParsedIsOrg
<1>5. SettledOnce'
  BY <1>1, <1>3 DEF SettledInv, SettledOnce, HasNote, Present
<1>6. SettledTwice'
  BY <1>1, <1>3 DEF SettledInv, SettledTwice, HasNote, IsFirstNote, Present
<1>7. TodoIsKnown'
  BY <1>1 DEF TodoIsKnown
<1>8. DoneIsInStep'
  <2> SUFFICES ASSUME clean, NEW id \in Present(pdb)
               PROVE  InStep(id)'
    BY <1>1, <1>2 DEF DoneIsInStep
  <2>1. InStep(id)
    BY <1>1 DEF SettledInv, DoneIsInStep
  <2>. QED
    BY <1>1, <1>2, <1>3, <2>1 DEF InStep, HasNote, IsFirstNote
<1>9. NotesHaveRecords'
  <2> SUFFICES ASSUME clean
               PROVE  /\ \A i \in DOMAIN org \ Parsed : \E id \in Present(pdb) :
                           pdb'[id].header = org[i].header
                      /\ \A i \in DOMAIN notes : i < nextNote =>
                           \E id \in Present(pdb) : pdb'[id].header = notes[i].header
    BY <1>1, <1>2, <1>3 DEF NotesHaveRecords
  <2>. QED
    BY <1>1, <1>2 DEF SettledInv, NotesHaveRecords
<1>10. CopyIsStable'
  <2> SUFFICES ASSUME settled = 2, NEW id \in Ids
               PROVE  /\ handheld[id] # NoRecord => pdb'[id] = handheld[id]
                      /\ handheld[id] = NoRecord /\ pdb'[id] # NoRecord =>
                           Masked(pdb'[id].header)
    BY <1>1 DEF CopyIsStable, Masked, Present
  <2>1. /\ handheld[id] # NoRecord => pdb[id] = handheld[id]
        /\ handheld[id] = NoRecord /\ pdb[id] # NoRecord => Masked(pdb[id].header)
    BY <1>1 DEF SettledInv, CopyIsStable
  <2>2. handheld[id] # NoRecord => "DIRTY" \notin handheld[id].attr
    BY <1>1 DEF SettledInv, SettledOnce, Present
  <2>3. pdb'[id] # NoRecord <=> pdb[id] # NoRecord
    BY <1>2 DEF Present
  <2>. QED
    BY <1>2, <2>1, <2>2, <2>3 DEF Present
<1>11. WrittenIsClean'
  BY <1>1, <1>2 DEF WrittenIsClean
<1>. QED
  BY <1>4, <1>5, <1>6, <1>7, <1>8, <1>9, <1>10, <1>11 DEF SettledInv

\* A dry run leaves what it found.
LEMMA EndDryRunSettles ==
  ASSUME SettledInv, HeadersReadBack, (Typed /\ Stages)', EndDryRun
  PROVE  SettledInv'
<1>1. /\ phase = "memos" /\ phase' = "idle" /\ dryRun
      /\ UNCHANGED <<handheld, org, prev, clean, settled>>
  BY DEF EndDryRun, LoopsDone, EndCycle, data, aux
<1>2. Intact => Parsed' = Parsed
  BY <1>1 DEF SettledInv, ParsedIsOrg, Parsed
<1>3. SettledOnce'
  BY <1>1, <1>2 DEF SettledInv, SettledOnce, HasNote, Present, Intact
<1>4. SettledTwice'
  BY <1>1, <1>2 DEF SettledInv, SettledTwice, HasNote, IsFirstNote, Present, Intact
<1>. QED
  BY <1>1, <1>3, <1>4 DEF SettledInv, ParsedIsOrg, TodoIsKnown, DoneIsInStep,
     NotesHaveRecords, CopyIsStable, WrittenIsClean

\* Writing to the handheld, whether it takes the database or not.
LEMMA PalmWriteSettles ==
  ASSUME SettledInv, HeadersReadBack, (Typed /\ Stages)', PalmWrite
  PROVE  SettledInv'
<1>1. /\ phase = "palm_write" /\ phase' = "save"
      /\ UNCHANGED <<org, prev, dryRun, todo, pdb, status, notes, nextNote,
                     settled>>
      /\ \/ handheld' = pdb /\ UNCHANGED clean
         \/ handheld' = handheld /\ clean' = FALSE
  BY DEF PalmWrite, LogFailure, local
<1>2. clean' => clean
  BY <1>1
<1>3. Parsed' = Parsed /\ (Intact' => Intact)
  BY <1>1, <1>2 DEF Parsed, Intact
<1>4. ParsedIsOrg'
  BY <1>1, <1>3 DEF SettledInv, ParsedIsOrg
<1>5. DoneIsInStep'
  BY <1>1, <1>2, <1>3 DEF SettledInv, DoneIsInStep, InStep, HasNote, IsFirstNote,
     Present
<1>6. NotesHaveRecords'
  BY <1>1, <1>2, <1>3 DEF SettledInv, NotesHaveRecords, Present
<1>7. WrittenIsClean'
  BY <1>1 DEF SettledInv, WrittenIsClean, Present
<1>. QED
  BY <1>1, <1>4, <1>5, <1>6, <1>7 DEF SettledInv, SettledOnce, SettledTwice,
     TodoIsKnown, CopyIsStable

\* The end of a clean cycle: the three copies agree.
LEMMA SaveSettles ==
  ASSUME SettledInv, HeadersReadBack, (Typed /\ Stages)', SavePrevious
  PROVE  SettledInv'
<1>1. /\ phase = "save" /\ phase' = "idle"
      /\ UNCHANGED <<handheld, org, clean>>
      /\ prev' = pdb
      /\ settled' = IF clean THEN IF settled < 2 THEN settled + 1 ELSE 2 ELSE 0
  BY DEF SavePrevious, EndCycle
<1>2. /\ todo = {} /\ ~dryRun /\ nextNote > Len(notes)
      /\ settled \in 0..2 /\ nextNote \in Nat \ {0}
  BY <1>1 DEF SettledInv, Stages, Typed, TypeOK
<1>3. (settled' > 0 => clean) /\ (settled' = 2 => settled > 0)
  BY <1>1, <1>2
<1>4. ASSUME clean
      PROVE  /\ handheld = pdb
             /\ Parsed' = DOMAIN org
             /\ Parsed \subseteq DOMAIN org
             /\ \A id \in Present(pdb) : /\ "DIRTY" \notin pdb[id].attr
                                         /\ InStep(id)
             /\ \A i \in DOMAIN org : \E id \in Present(pdb) :
                  pdb[id].header = org[i].header
  <2>1. Intact
    BY <1>4 DEF Intact
  <2>2. /\ Parsed = DOMAIN notes /\ Parsed \subseteq DOMAIN org
        /\ \A i \in Parsed : notes[i].header = org[i].header
    BY <1>1, <2>1, ParsedNoteOfOrg
  <2>3. handheld = pdb /\ \A id \in Present(pdb) : "DIRTY" \notin pdb[id].attr
    BY <1>1, <1>4 DEF SettledInv, WrittenIsClean
  <2>4. \A id \in Present(pdb) : InStep(id)
    BY <1>1, <1>2, <1>4 DEF SettledInv, DoneIsInStep
  <2>5. Parsed' = DOMAIN org
    <3>1. org \in Seq(Item)
      BY DEF SettledInv, Typed, TypeOK
    <3>. QED
      BY <1>1, <3>1, LenProperties DEF Parsed
  <2>6. \A i \in DOMAIN notes : i < nextNote
    <3>1. DOMAIN notes = 1..Len(notes) /\ Len(notes) \in Nat
      BY LenProperties DEF SettledInv, Typed, TypeOK
    <3>. QED
      BY <1>2, <3>1
  <2>7. ASSUME NEW i \in DOMAIN org
        PROVE  \E id \in Present(pdb) : pdb[id].header = org[i].header
    <3>1. CASE i \in Parsed
      <4>1. \E id \in Present(pdb) : pdb[id].header = notes[i].header
        BY <1>1, <1>2, <1>4, <2>2, <2>6, <3>1 DEF SettledInv, NotesHaveRecords
      <4>. QED
        BY <2>2, <3>1, <4>1
    <3>2. CASE i \notin Parsed
      BY <1>1, <1>2, <1>4, <2>7, <3>2 DEF SettledInv, NotesHaveRecords
    <3>. QED
      BY <3>1, <3>2
  <2>. QED
    BY <2>2, <2>3, <2>4, <2>5, <2>7
<1>5. SettledOnce'
  <2> SUFFICES ASSUME clean
               PROVE  /\ prev' = handheld
                      /\ \A id \in Present(handheld) :
                           /\ "DIRTY" \notin handheld[id].attr
                           /\ Plain(handheld[id]) => HasNote(handheld[id].header)'
                      /\ \A i \in Parsed' : \E id \in Present(handheld) :
                           handheld[id].header = org[i].header
    BY <1>1, <1>3 DEF SettledOnce
  <2>1. ASSUME NEW id \in Present(handheld), Plain(handheld[id])
        PROVE  HasNote(handheld[id].header)'
    <3>1. handheld = pdb /\ Parsed' = DOMAIN org
          /\ UNCHANGED <<handheld, org>>
      BY <1>1, <1>4
    <3>2. \E i \in DOMAIN org : org[i].header = handheld[id].header
      BY <1>4, <2>1, <3>1 DEF InStep
    <3>. QED
      BY <3>1, <3>2 DEF HasNote
  <2>. QED
    BY <1>1, <1>4, <2>1
<1>6. SettledTwice'
  <2> SUFFICES ASSUME clean, settled > 0, NEW id \in Present(pdb)
               PROVE  /\ ~Hidden(pdb[id]) => HasNote(handheld[id].header)'
                      /\ Plain(pdb[id]) => IsFirstNote(ItemOf(handheld[id]))'
    BY <1>1, <1>3, <1>4 DEF SettledTwice, Present
  <2>1. /\ ~Hidden(pdb[id]) => HasNote(pdb[id].header)
        /\ Plain(pdb[id]) => IsFirstNote(ItemOf(pdb[id]))
    BY <1>4 DEF InStep
  <2>2. /\ handheld'[id] = pdb[id] /\ org' = org
        /\ Parsed \subseteq Parsed'
    BY <1>1, <1>4
  <2>. QED
    BY <2>1, <2>2 DEF HasNote, IsFirstNote
<1>. QED
  BY <1>1, <1>5, <1>6 DEF SettledInv, ParsedIsOrg, TodoIsKnown, DoneIsInStep,
     NotesHaveRecords, CopyIsStable, WrittenIsClean

\* A failed cycle, a crash and an edit of the owner start the count anew.
LEMMA UnsettledStep ==
  ASSUME SettledInv, (Typed /\ Stages)', settled' = 0, clean' = FALSE,
         phase' = "idle" \/ UNCHANGED <<phase, pdb>>
  PROVE  SettledInv'
<1>1. ~Intact'
  BY DEF Intact
<1>. QED
  BY <1>1 DEF SettledInv, ParsedIsOrg, SettledOnce, SettledTwice, TodoIsKnown,
     DoneIsInStep, NotesHaveRecords, CopyIsStable, WrittenIsClean, Present

\* Every step keeps the invariant.
LEMMA SettledStep ==
  ASSUME SettledInv, HeadersReadBack, [Next]_vars
  PROVE  SettledInv'
<1>1. (Typed /\ Stages)'
  BY TypedStep, StagesStep DEF SettledInv
<1>2. CASE Owner
  <2>1. clean' = FALSE /\ settled' = 0 /\ UNCHANGED <<phase, local>>
    BY <1>2 DEF Owner, HandheldNew, HandheldChange, HandheldDelete,
       HandheldPurge, HandheldTogglePrivate, HandheldEdit, OrgEdit, OwnerEdit
  <2>2. UNCHANGED <<phase, pdb>>
    BY <2>1 DEF local
  <2>. QED
    BY <1>1, <2>1, <2>2, UnsettledStep
<1>3. CASE CycleFails \/ Crash \/ \E id \in Ids : HeaderRefused(id)
  <2>1. clean' = FALSE /\ settled' = 0 /\ phase' = "idle"
    BY <1>3 DEF CycleFails, Crash, HeaderRefused, FailCycle, EndCycle
  <2>. QED
    BY <1>1, <2>1, UnsettledStep
<1>4. CASE UNCHANGED vars
  BY <1>1, <1>4 DEF vars, SettledInv, ParsedIsOrg, SettledOnce, SettledTwice,
     TodoIsKnown, DoneIsInStep, InStep, NotesHaveRecords, CopyIsStable,
     WrittenIsClean, Parsed, HasNote, IsFirstNote, Intact, Masked, Present
<1>5. CASE StartCycle
  BY <1>1, <1>5, StartSettles
<1>6. ASSUME NEW id \in Ids,
             DoNothing(id) \/ CopyToDesktop(id) \/ AddToHandheld(id)
               \/ ReplaceOnHandheld(id) \/ DeleteOnHandheld(id)
      PROVE  SettledInv'
  BY <1>1, <1>6, DoNothingSettles, CopyToDesktopSettles, AddToHandheldSettles,
     ReplaceOnHandheldSettles, DeleteOnHandheldSettles
<1>7. CASE SyncNote
  BY <1>1, <1>7, SyncNoteSettles
<1>8. CASE WriteMemos
  BY <1>1, <1>8, WriteSettles
<1>9. CASE EndDryRun
  BY <1>1, <1>9, EndDryRunSettles
<1>10. CASE PalmWrite
  BY <1>1, <1>10, PalmWriteSettles
<1>11. CASE SavePrevious
  BY <1>1, <1>11, SaveSettles
<1>. QED
  BY <1>2, <1>3, <1>4, <1>5, <1>6, <1>7, <1>8, <1>9, <1>10, <1>11
     DEF Next, Sync

\* After two clean cycles the only steps that change a side are these two.
LEMMA StableStep ==
  ASSUME SettledInv, HeadersReadBack, [Next]_vars, settled = 2, edits' = edits
  PROVE  /\ \A i \in DOMAIN org' \ DOMAIN org : Masked(org'[i].header)
         /\ \A id \in Ids : handheld'[id] # handheld[id] =>
              handheld[id] = NoRecord /\ Masked(handheld'[id].header)
<1>1. ~Owner
  <2>1. Owner => edits' = edits + 1
    BY DEF Owner, HandheldNew, HandheldChange, HandheldDelete, HandheldPurge,
       HandheldTogglePrivate, HandheldEdit, OrgEdit, OwnerEdit
  <2>2. edits \in Nat
    BY DEF SettledInv, Typed, TypeOK
  <2>3. edits # edits + 1
    BY <2>2
  <2>. QED
    BY <2>1, <2>3
<1>2. ASSUME NEW id \in Ids, CopyToDesktop(id)
      PROVE  /\ UNCHANGED handheld
             /\ \A i \in DOMAIN org' \ DOMAIN org : Masked(org'[i].header)
  <2>1. /\ Visit(id, {"ADD_TO_DESKTOP", "COPY_TO_DESKTOP"})
        /\ UNCHANGED handheld
        /\ \/ org' = org
           \/ \E note \in Written[ItemOf(pdb[id])] : org' = Append(org, note)
    BY <1>2 DEF CopyToDesktop, LogFailure
  <2>2. Masked(ItemOf(pdb[id]).header) /\ ItemOf(pdb[id]) \in Item
    BY <2>1, VisitIsStable, VisitedRecord
  <2>3. ASSUME NEW note \in Written[ItemOf(pdb[id])], org' = Append(org, note)
        PROVE  \A i \in DOMAIN org' \ DOMAIN org : Masked(org'[i].header)
    <3>0. Masked(note.header)
      BY <2>2 DEF HeadersReadBack
    <3>1. org \in Seq(Item) /\ note \in Item
      BY <2>2, WrittenIsItem DEF SettledInv, Typed, TypeOK
    <3>2. /\ DOMAIN Append(org, note) = 1..(Len(org) + 1)
          /\ Append(org, note)[Len(org) + 1] = note
      BY <3>1, AppendProperties
    <3>3. DOMAIN org = 1..Len(org) /\ Len(org) \in Nat
      BY <3>1, LenProperties
    <3>4. \A i \in 1..(Len(org) + 1) : i \notin 1..Len(org) => i = Len(org) + 1
      BY <3>3
    <3>. QED
      BY <2>3, <3>0, <3>2, <3>3, <3>4
  <2>. QED
    BY <2>1, <2>3
<1>3. CASE PalmWrite
  <2>1. /\ phase = "palm_write" /\ UNCHANGED org
        /\ handheld' = pdb \/ handheld' = handheld
    BY <1>3 DEF PalmWrite
  <2>2. \A id \in Ids :
          /\ handheld[id] # NoRecord => pdb[id] = handheld[id]
          /\ handheld[id] = NoRecord /\ pdb[id] # NoRecord =>
               Masked(pdb[id].header)
    BY <2>1 DEF SettledInv, CopyIsStable
  <2>. QED
    BY <2>1, <2>2
<1>4. ASSUME NEW id \in Ids,
             DoNothing(id) \/ AddToHandheld(id) \/ ReplaceOnHandheld(id)
               \/ DeleteOnHandheld(id)
      PROVE  UNCHANGED <<handheld, org>>
  BY <1>4 DEF DoNothing, AddToHandheld, ReplaceOnHandheld, DeleteOnHandheld, data
<1>5. CASE \/ StartCycle \/ SyncNote \/ WriteMemos \/ EndDryRun
           \/ SavePrevious \/ CycleFails \/ Crash
           \/ \E id \in Ids : HeaderRefused(id)
  <2>1. UNCHANGED <<handheld, org>>
    BY <1>5 DEF StartCycle, SyncNote, WriteMemos, EndDryRun, SavePrevious,
       CycleFails, Crash, HeaderRefused, data
  <2>. QED
    BY <2>1
<1>6. CASE UNCHANGED vars
  BY <1>6 DEF vars
<1>. QED
  BY <1>1, <1>2, <1>3, <1>4, <1>5, <1>6 DEF Next, Sync

\* If headers are written and read as they are, the invariant of settled cycles
\* holds in every state, whatever fails and whatever the owners edit.
THEOREM SettledInvHolds == HeadersReadBack => (Spec => []SettledInv)
<1> SUFFICES ASSUME HeadersReadBack
             PROVE  Spec => []SettledInv
  OBVIOUS
<1>1. Init => SettledInv
  <2> SUFFICES ASSUME Init
               PROVE  SettledInv
    OBVIOUS
  <2>1. Typed
    BY InitTypeOK DEF Typed
  <2>2. phase = "idle" /\ settled = 0 /\ dryRun = FALSE /\ nextNote = 1
    BY DEF Init
  <2>. QED
    BY <2>1, <2>2 DEF SettledInv, Stages, ParsedIsOrg, SettledOnce, SettledTwice,
       TodoIsKnown, DoneIsInStep, NotesHaveRecords, CopyIsStable, WrittenIsClean
<1>2. SettledInv /\ [Next]_vars => SettledInv'
  BY SettledStep
<1>. QED
  BY <1>1, <1>2, PTL DEF Spec

\* After two clean cycles in a row every visible memo of the handheld is the first
\* note of its header in the org-file.
THEOREM MemosFollowFirstNotes ==
  HeadersReadBack => (Spec => []HandheldFollowsFirstNote)
<1> SUFFICES ASSUME HeadersReadBack
             PROVE  Spec => []HandheldFollowsFirstNote
  OBVIOUS
<1>1. SettledInv => HandheldFollowsFirstNote
  <2> SUFFICES ASSUME SettledInv, settled = 2, phase = "idle",
                      NEW id \in Ids, Plain(handheld[id])
               PROVE  \E i \in DOMAIN org :
                        /\ Reread[org[i]] = ItemOf(handheld[id])
                        /\ \A j \in 1..(i - 1) :
                             Reread[org[j]].header # handheld[id].header
    BY DEF HandheldFollowsFirstNote
  <2>1. IsFirstNote(ItemOf(handheld[id]))
    BY DEF SettledInv, SettledTwice, Present, Plain, Live
  <2>2. PICK i \in Parsed :
          /\ \A j \in 1..i : org[j] \in Readable
          /\ Reread[org[i]] = ItemOf(handheld[id])
          /\ \A j \in 1..(i - 1) : org[j].header # ItemOf(handheld[id]).header
    BY <2>1 DEF IsFirstNote
  <2>3. Parsed = DOMAIN org
    BY LenProperties DEF Parsed, SettledInv, Typed, TypeOK
  <2>4. \A j \in 1..(i - 1) : j \in 1..i
    BY DEF Parsed
  <2>5. ItemOf(handheld[id]).header = handheld[id].header
    BY DEF ItemOf
  <2>. QED
    BY <2>2, <2>3, <2>4, <2>5 DEF HeadersReadBack
<1>. QED
  BY <1>1, SettledInvHolds, PTL

\* After two clean cycles in a row no step of a later one changes a record of the
\* handheld, and what it adds on either side has the header of a hidden record.
THEOREM SettledSyncsAreStable ==
  HeadersReadBack => (Spec => SettledSyncIsStable)
<1> SUFFICES ASSUME HeadersReadBack
             PROVE  Spec => SettledSyncIsStable
  OBVIOUS
<1>1. SettledInv /\ [Next]_vars =>
        [settled = 2 /\ edits' = edits =>
           /\ \A i \in DOMAIN org' \ DOMAIN org : Masked(org'[i].header)
           /\ \A id \in Ids : handheld'[id] # handheld[id] =>
                handheld[id] = NoRecord /\ Masked(handheld'[id].header)]_vars
  BY StableStep
<1>. QED
  BY <1>1, SettledInvHolds, PTL DEF Spec, SettledSyncIsStable
=============================================================================
