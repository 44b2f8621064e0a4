------------------------------ MODULE PdbMemos ------------------------------
(***************************************************************************)
(* The memos of a PDB file: src/pdb/memos.c with the functions of          *)
(* src/pdb/pdb.c it calls, on one file that is read, changed and written   *)
(* again and again.                                                        *)
(*                                                                         *)
(* The file is the list of its records, the categories and the bytes of    *)
(* the memos; a byte is a string with an index, or one of the two          *)
(* separators.  In memory each memo has its record (both queues are        *)
(* changed at the same places), which holds the offset of its bytes: every *)
(* operation has to keep all offsets right.  A string has two lengths, in  *)
(* UTF-8 as it is kept in memory and in CP1251 as it is stored.  A memo    *)
(* without a text has the empty one.                                       *)
(***************************************************************************)
EXTENDS PdbFile, SequencesExt

CONSTANTS
  Ids,         \* record ids; the first three bytes of a random number
  Strings,     \* headers and texts
  NewHeaders,  \* those that are asked for
  NewTexts,
  Utf8Len,     \* strlen() of each string
  Cp1251Len,   \* strlen() of it in CP1251
  Encodable,   \* the strings CP1251 has all characters of
  Keep,        \* NULL: leave it as it is
  Default,     \* PDB_DEFAULT_CATEGORY
  Initial,     \* the memos of the file at the beginning
  Slots0,      \* its categories
  Faults,      \* {"write"}, where writing may fail
  MaxOps       \* bound: operations

SixByteGap == 6     \* SIX_BYTE_GAP

Memo == [id : Ids, offset : Int, slot : SlotIds,
         header : Strings, text : Strings, hlen : Nat, tlen : Nat,
         asked : Names \cup {NoName}]

\* The header, '\n', the text and '\0'.
Size(hlen, tlen) == hlen + 1 + tlen + 1
DataAt(qty) == AppInfoAt(qty) + AppInfoSize + SixByteGap

\* Memos that lie one after another behind a list of records of just the right size,
\* with the lengths their strings have.
EndOf(memo) == memo.offset + Size(memo.hlen, memo.tlen)
LaidOut(queue) ==
  \A i \in DOMAIN queue :
    /\ queue[i].hlen = Cp1251Len[queue[i].header]
    /\ queue[i].tlen = Cp1251Len[queue[i].text]
    /\ queue[i].offset =
         IF i = 1 THEN DataAt(Len(queue)) ELSE EndOf(queue[i - 1])

\* Those that can be made out where they are stored.
Savable(queue) ==
  /\ LaidOut(queue)
  /\ \A i \in DOMAIN queue :
       {queue[i].header, queue[i].text} \subseteq Encodable /\ queue[i].id # 0

Separators == {"LF", "NUL", "past the end"}

ASSUME StringsOK ==
  /\ Encodable \subseteq Strings
  /\ NewHeaders \cup NewTexts \subseteq Strings
  /\ Separators \cap Strings = {}
  /\ Keep \notin Strings
  /\ Keep \notin Names
  /\ Default \in Names
  /\ Utf8Len \in [Strings -> Nat]
  /\ Cp1251Len \in [Strings -> Nat]
ASSUME IdsOK == Ids \subseteq Nat
ASSUME InitialOK ==
  /\ Initial \in Seq(Memo) /\ Savable(Initial)
  /\ Slots0 \in [SlotIds -> Slot]
ASSUME BoundsOK == MaxOps \in Nat /\ Faults \subseteq {"write"}

VARIABLES
  file,     \* list of records, offset of the application info, slots, bytes
  torn,     \* a write of it has failed since the last one that succeeded
  saved,    \* what the last successful write was to save
  open,     \* it is in memory
  memos,    \* the two queues, entry by entry
  appInfo,  \* appInfoOffset
  slots,    \* categories
  exact,    \* nothing has happened that the offsets do not follow
  ops       \* operations so far

memory == <<memos, appInfo, slots>>
disk   == <<file, torn, saved>>
vars   == <<file, torn, saved, open, memos, appInfo, slots, exact, ops>>

-----------------------------------------------------------------------------
(* Bytes *)

\* The byte at an address is that of the last memo written over it.
Byte(string, k) ==
  IF k < Cp1251Len[string] THEN <<string, k>> ELSE <<"past the end", 0>>
Separator(name) == <<name, 0>>
ByteOf(memo, at) ==
  LET k == at - memo.offset IN
    CASE k < memo.hlen                -> Byte(memo.header, k)
      [] k = memo.hlen                -> Separator("LF")
      [] k = memo.hlen + 1 + memo.tlen -> Separator("NUL")
      [] OTHER                        -> Byte(memo.text, k - memo.hlen - 1)
Span(memo) == memo.offset..(memo.offset + Size(memo.hlen, memo.tlen) - 1)
BytesWith(bytes, written) ==
  [at \in DOMAIN bytes \cup UNION {Span(written[i]) : i \in DOMAIN written} |->
     LET over == {i \in DOMAIN written : at \in Span(written[i])} IN
       IF over = {} THEN bytes[at] ELSE ByteOf(written[Max(over)], at)]

\* What the file holds when memos are written to it.
ListOf(queue) ==
  [i \in DOMAIN queue |-> [id |-> queue[i].id, offset |-> queue[i].offset,
                           slot |-> queue[i].slot]]
FileWith(queue, cats, bytes) ==
  [list |-> ListOf(queue), appInfo |-> AppInfoAt(Len(queue)), slots |-> cats,
   bytes |-> bytes]

-----------------------------------------------------------------------------
(* _memos_read_memo() *)

\* From the offset to the first '\n', from there to the first '\0'.
FirstOf(bytes, from, name) ==
  Min({at \in DOMAIN bytes : at >= from /\ bytes[at] = Separator(name)})
HeaderEnd(bytes, offset) == FirstOf(bytes, offset, "LF")
TextEnd(bytes, offset) == FirstOf(bytes, HeaderEnd(bytes, offset) + 1, "NUL")
Readable(bytes, offset) ==
  /\ \E at \in DOMAIN bytes : at >= offset /\ bytes[at] = Separator("LF")
  /\ \E at \in DOMAIN bytes : at > HeaderEnd(bytes, offset) /\ bytes[at] = Separator("NUL")

\* The string that is stored in a range of bytes, if one is.
IsStored(string, bytes, first, last) ==
  /\ last - first + 1 = Cp1251Len[string]
  /\ \A at \in first..last : at \in DOMAIN bytes /\ bytes[at] = Byte(string, at - first)
StringAt(bytes, first, last) ==
  CHOOSE string \in Encodable : IsStored(string, bytes, first, last)

\* The memo at a record, as the queues will have it.
MemoRead(record, bytes, cats) ==
  LET headerEnd == HeaderEnd(bytes, record.offset)
      textEnd   == TextEnd(bytes, record.offset)
  IN [id |-> record.id, offset |-> record.offset, slot |-> record.slot,
      header |-> StringAt(bytes, record.offset, headerEnd - 1),
      text   |-> StringAt(bytes, headerEnd + 1, textEnd - 1),
      hlen |-> headerEnd - record.offset,
      tlen |-> textEnd - headerEnd - 1,
      asked |-> cats[record.slot].name]

\* The records, and where their strings lie, can be made out.
Located(f) ==
  \A i \in DOMAIN f.list :
    f.list[i].id # 0 /\ Readable(f.bytes, f.list[i].offset)

\* iconv_cp1251_to_utf8() gives iconv twice as many bytes as the string has.
Legible(string) == Utf8Len[string] <= 2 * Cp1251Len[string]
StoredLegibly(bytes, first, last) ==
  \E string \in Encodable : Legible(string) /\ IsStored(string, bytes, first, last)

\* A record with id 0, and a string that is not converted, make memos_read() give up
\* the whole file.
FileReads(f) ==
  /\ Located(f)
  /\ \A i \in DOMAIN f.list :
       LET offset    == f.list[i].offset
           headerEnd == HeaderEnd(f.bytes, offset)
       IN /\ StoredLegibly(f.bytes, offset, headerEnd - 1)
          /\ StoredLegibly(f.bytes, headerEnd + 1, TextEnd(f.bytes, offset) - 1)
MemosRead(f) ==
  [i \in DOMAIN f.list |->
     MemoRead(f.list[i], f.bytes, CategoriesRead(f.slots))]

\* What a user of the functions sees of the memos, and that a file has just that where
\* it is looked for.
View(queue, cats) ==
  [i \in DOMAIN queue |->
     [id |-> queue[i].id, header |-> queue[i].header, text |-> queue[i].text,
      category |-> cats[queue[i].slot].name]]
Holds(f, view) ==
  /\ Located(f)
  /\ DOMAIN f.list = DOMAIN view
  /\ \A i \in DOMAIN view :
       LET record == f.list[i]
           headerEnd == HeaderEnd(f.bytes, record.offset)
           textEnd   == TextEnd(f.bytes, record.offset)
       IN /\ record.id = view[i].id
          /\ {view[i].header, view[i].text} \subseteq Encodable
          /\ CategoriesRead(f.slots)[record.slot].name = view[i].category
          /\ IsStored(view[i].header, f.bytes, record.offset, headerEnd - 1)
          /\ IsStored(view[i].text, f.bytes, headerEnd + 1, textEnd - 1)
AllLegible(view) ==
  \A i \in DOMAIN view : Legible(view[i].header) /\ Legible(view[i].text)

-----------------------------------------------------------------------------
\* A file as the handheld has it.
Init ==
  /\ file = FileWith(Initial, Slots0, BytesWith(<<>>, Initial))
  /\ torn = FALSE
  /\ saved = View(Initial, CategoriesRead(Slots0))
  /\ open = FALSE
  /\ memos = <<>>
  /\ appInfo = 0
  /\ slots = [i \in SlotIds |-> EmptySlot]
  /\ exact = TRUE
  /\ ops = 0

Operation ==
  /\ ops < MaxOps
  /\ ops' = ops + 1

\* memos_open() and memos_read(), which fails if the file does not read.  A file of
\* which it is known that it does not hold what it should is not followed any further.
Open ==
  /\ ~open
  /\ ~torn
  /\ exact
  /\ FileReads(file)
  /\ open' = TRUE
  /\ memos' = MemosRead(file)
  /\ appInfo' = file.appInfo
  /\ slots' = CategoriesRead(file.slots)
  /\ UNCHANGED <<disk, exact, ops>>

Forgotten ==
  /\ open' = FALSE
  /\ memos' = <<>>
  /\ appInfo' = 0
  /\ slots' = [i \in SlotIds |-> EmptySlot]

\* memos_close() and memos_free().
Close ==
  /\ open
  /\ Forgotten
  /\ UNCHANGED <<disk, exact, ops>>

\* pdb_record_create() and pdb_record_delete() move what is behind the list.
AppInfoWithOneMore == appInfo + ItemSize
AppInfoWithOneLess == appInfo - ItemSize

-----------------------------------------------------------------------------
(* memos_memo_add() *)

\* Seeded fault: the '\0' of the last memo is forgotten.
OffsetBeyondTight(last) == last.offset + Size(last.hlen, last.tlen) - 1 + ItemSize

\* Beyond the last memo, and a new item in the list of records.
OffsetBeyond(last) == last.offset + Size(last.hlen, last.tlen) + ItemSize

\* The category is looked up and, if there is none, added: before anything else, so
\* that it stays if the rest fails.
FoundOrAdded(name) ==
  CASE IdsOf(slots, name) # {} ->
         {[id |-> id, slots |-> slots] : id \in IdsOf(slots, name)}
    [] IdsOf(slots, name) = {} /\ Free(slots) # {} ->
         {[id |-> FirstFree(slots), slots |-> CategoryAdd(slots, name)]}
    [] OTHER -> {}

CategoryAsked(name) == IF name = Keep THEN Default ELSE name
ItemsMoved(queue, by) == [i \in DOMAIN queue |-> [queue[i] EXCEPT !.offset = @ + by]]

MemoAdd(header, text, category) ==
  /\ open
  /\ Operation
  /\ memos # <<>>
  /\ {header, text} \subseteq Encodable
  /\ \E found \in FoundOrAdded(CategoryAsked(category)),
        id \in Ids \ {memos[i].id : i \in DOMAIN memos} :
       /\ slots' = found.slots
       /\ memos' = Append(ItemsMoved(memos, ItemSize),
            [id |-> id, offset |-> OffsetBeyond(Last(memos)),
             slot |-> found.id % Slots,
             header |-> header, text |-> text,
             hlen |-> Cp1251Len[header], tlen |-> Cp1251Len[text],
             asked |-> Stored[CategoryAsked(category)]])
       /\ exact' = (exact /\ id # 0)
  /\ appInfo' = AppInfoWithOneMore
  /\ UNCHANGED <<disk, open>>

\* No slot is free, the file has no memo to come after, or a string cannot be
\* encoded; a category added by then stays.
MemoAddFails(header, text, category) ==
  /\ open
  /\ Operation
  /\ \/ /\ FoundOrAdded(CategoryAsked(category)) = {}
        /\ UNCHANGED slots
     \/ /\ memos = <<>> \/ ~({header, text} \subseteq Encodable)
        /\ \E found \in FoundOrAdded(CategoryAsked(category)) :
             slots' = found.slots
  /\ UNCHANGED <<disk, open, memos, appInfo, exact>>

-----------------------------------------------------------------------------
(* memos_memo_edit() *)

\* Seeded fault: a string that is to stay is replaced by nothing.
InsteadAlways(new, old) == new

Instead(new, old) == IF new = Keep THEN old ELSE new
Growth(new, len) == IF new = Keep THEN 0 ELSE Cp1251Len[new] - len

\* Seeded fault: only the next memo is moved.
MovedNext(k, by) ==
  [i \in DOMAIN memos |->
     IF i = k + 1 THEN [memos[i] EXCEPT !.offset = @ + by] ELSE memos[i]]

\* The memos after the one that has changed its size.
MovedAfter(k, by) ==
  [i \in DOMAIN memos |->
     IF i > k THEN [memos[i] EXCEPT !.offset = @ + by] ELSE memos[i]]

\* The lengths of the memo stay those of its old strings.  Of the record's attributes
\* only the four bits of the category are modelled: the code puts the whole id there, so
\* that one above 15 also sets flags of the record.
MemoEdit(k, header, text, category) ==
  /\ open
  /\ Operation
  /\ {header, text} \subseteq Encodable \cup {Keep}
  /\ LET by == Growth(header, memos[k].hlen) + Growth(text, memos[k].tlen) IN
       \E categoryId \in IF category = Keep THEN {memos[k].slot}
                         ELSE IdsOf(slots, category) :
         memos' = [MovedAfter(k, by) EXCEPT
           ![k].header = Instead(header, @), ![k].text = Instead(text, @),
           ![k].slot = categoryId % Slots,
           ![k].asked = IF category = Keep THEN @ ELSE category]
  /\ exact' = (exact /\ Growth(header, memos[k].hlen) = 0
                     /\ Growth(text, memos[k].tlen) = 0)
  /\ UNCHANGED <<disk, open, appInfo, slots>>

\* Length and encoding are not checked: strlen() of a NULL, where the text is to stay
\* or CP1251 cannot say the string, or a string longer than the buffer it goes to.
\* The process may die of it.
MemoEditCrashes(k, header, text, category) ==
  /\ open
  /\ Operation
  /\ \/ text = Keep
     \/ /\ category = Keep \/ IdsOf(slots, category) # {}
        /\ \/ ~({header, text} \subseteq Encodable \cup {Keep})
           \/ Utf8Len[Instead(header, memos[k].header)] > Utf8Len[memos[k].header]
           \/ Utf8Len[Instead(text, memos[k].text)] > Utf8Len[memos[k].text]
  /\ Forgotten
  /\ UNCHANGED <<disk, exact>>

\* A category the file does not have: unlike memos_memo_add() this fails.
MemoEditFails(category) ==
  /\ open
  /\ Operation
  /\ memos # <<>>
  /\ IdsOf(slots, category) = {}
  /\ UNCHANGED <<disk, open, memory, exact>>

-----------------------------------------------------------------------------
(* memos_memo_delete() *)

\* The size is that of the strings in memory, in UTF-8.
SizeInMemory(memo) == Size(Utf8Len[memo.header], Utf8Len[memo.text])

MemoDelete(k) ==
  /\ open
  /\ Operation
  /\ memos' = ItemsMoved(RemoveAt(MovedAfter(k, -SizeInMemory(memos[k])), k),
                         -ItemSize)
  /\ appInfo' = AppInfoWithOneLess
  /\ exact' = (exact /\ (k < Len(memos) =>
       SizeInMemory(memos[k]) = Size(memos[k].hlen, memos[k].tlen)))
  /\ UNCHANGED <<disk, open, slots>>

\* pdb_category_delete(): the memos of the category are not looked at.
DeleteCategory(id) ==
  /\ open
  /\ Operation
  /\ slots[id].name # NoName
  /\ slots' = CategoryDelete(slots, id)
  /\ memos' = [i \in DOMAIN memos |->
       IF memos[i].slot = id THEN [memos[i] EXCEPT !.asked = NoName] ELSE memos[i]]
  /\ UNCHANGED <<disk, open, appInfo, exact>>

-----------------------------------------------------------------------------
(* memos_write() *)

\* pdb_write() corrects the offset of the application info; the bytes between it and
\* the first memo have to be the known ones, and there has to be a memo.
GapIsThere ==
  /\ memos # <<>>
  /\ memos[1].offset - (AppInfoAt(Len(memos)) + AppInfoSize) = SixByteGap

Write ==
  /\ open
  /\ Operation
  /\ GapIsThere
  /\ file' = FileWith(memos, slots, BytesWith(file.bytes, memos))
  /\ appInfo' = AppInfoAt(Len(memos))
  /\ torn' = FALSE
  /\ saved' = View(memos, slots)
  /\ UNCHANGED <<open, memos, slots, exact>>

\* The header is on the disk already when the gap turns out not to be there.  Some of
\* the memos are when one cannot be written.
WriteFails ==
  /\ open
  /\ Operation
  /\ \E k \in 0..Len(memos) :
       /\ \/ k = 0 /\ ~GapIsThere
          \/ "write" \in Faults /\ k < Len(memos)
       /\ file' = FileWith(memos, slots, BytesWith(file.bytes, SubSeq(memos, 1, k)))
  /\ appInfo' = AppInfoAt(Len(memos))
  /\ torn' = TRUE
  /\ UNCHANGED <<saved, open, memos, slots, exact>>

Next ==
  \/ Open
  \/ Close
  \/ \E header \in NewHeaders, text \in NewTexts, category \in Names \cup {Keep} :
       \/ MemoAdd(header, text, category)
       \/ MemoAddFails(header, text, category)
  \/ \E k \in DOMAIN memos, header \in NewHeaders \cup {Keep},
        text \in NewTexts \cup {Keep}, category \in Names \cup {Keep} :
       \/ MemoEdit(k, header, text, category)
       \/ MemoEditCrashes(k, header, text, category)
  \/ \E category \in Names : MemoEditFails(category)
  \/ \E k \in DOMAIN memos : MemoDelete(k)
  \/ \E id \in SlotIds : DeleteCategory(id)
  \/ Write
  \/ WriteFails

Spec == Init /\ [][Next]_vars
-----------------------------------------------------------------------------
(* Properties *)

\* Every variable has its type.
TypeOK ==
  /\ torn \in BOOLEAN
  /\ open \in BOOLEAN
  /\ memos \in Seq(Memo)
  /\ appInfo \in Nat
  /\ slots \in [SlotIds -> Slot]
  /\ exact \in BOOLEAN
  /\ ops \in 0..MaxOps

\* The offsets in memory lay the memos out one after another, with the lengths their
\* strings have, behind a list of records of just the right size: after any
\* operations but a change of a length by memos_memo_edit() and a deletion of a memo
\* whose strings are longer in UTF-8, which the offsets do not follow.
Packed ==
  exact /\ open =>
    appInfo = AppInfoAt(Len(memos)) /\ LaidOut(memos)

\* With the same exceptions the file has, where memos_read() looks for them, just the
\* memos that were saved: each with its id, its strings and its category, whatever the
\* file held before, also where an earlier write of it was cut short.  And memos_read()
\* succeeds, where none of the strings is more than twice as long in UTF-8 as in CP1251:
\* with one that is, of few letters and much typographic punctuation, memos_memo_add()
\* and memos_write() succeed and the file is not read any more.
SavedIsReadBack ==
  exact /\ ~torn =>
    /\ Holds(file, saved)
    /\ AllLegible(saved) => FileReads(file)

\* memos.h:130: "Function will write data from Memos structure to file."  A write
\* that succeeds leaves a file with just the memos of the structure.
StructureIsWritten == ~torn => Holds(file, saved)

\* A memo stays under the category it was put in, until that category is deleted.
FiledAsAsked ==
  \A i \in DOMAIN memos :
    memos[i].asked # NoName => slots[memos[i].slot].name = memos[i].asked

\* The inductive invariant behind the properties of the layout: whether the offsets
\* are exact or not, the list of records has the size the application info goes by,
\* and the categories are such that reading them prunes nothing more.
FileTyped ==
  /\ file.list \in Seq([id : Ids, offset : Int, slot : SlotIds])
  /\ file.slots \in [SlotIds -> Slot]
  /\ DOMAIN file.bytes \subseteq Int
AppInfoFollows ==
  /\ file.appInfo = AppInfoAt(Len(file.list))
  /\ open => appInfo = AppInfoAt(Len(memos))
NothingToPrune == CategoriesRead(slots) = slots

\* As long as the offsets are exact, the memos in memory and those of the file are laid
\* out.
MemosFollow == exact /\ open => Savable(memos)
FileFollows == exact /\ ~torn => Holds(file, saved) /\ Savable(MemosRead(file))

IInv ==
  /\ TypeOK
  /\ FileTyped
  /\ AppInfoFollows
  /\ NothingToPrune
  /\ MemosFollow
  /\ FileFollows

\* Behind FiledAsAsked.
CategoriesSound == SoundCategories(slots) /\ SoundCategories(CategoriesRead(file.slots))
=============================================================================
