----------------------------- MODULE Categories -----------------------------
(***************************************************************************)
(* The standard Palm OS categories of a PDB file: the functions of         *)
(* src/pdb/pdb.c on a PDBCategories structure and what reading it from a   *)
(* file does.  A name stands for itself; Stored says what is left of it in *)
(* the fifteen characters a slot has.                                      *)
(***************************************************************************)
EXTENDS Integers, FiniteSetsExt

CONSTANTS
  Slots,      \* PDB_CATEGORIES_STD_QTY
  Names,      \* names a category may be asked for
  Stored,     \* what a slot keeps of each
  NoName      \* the empty string

ASSUME SlotsOK == Slots \in Nat \ {0}
ASSUME NoNameIsEmpty == NoName \notin Names
ASSUME TruncationOK ==
  /\ Stored \in [Names -> Names]
  /\ \A name \in Names : Stored[Stored[name]] = Stored[name]

SlotIds == 0..(Slots - 1)
Slot == [name : Names \cup {NoName}, id : Nat]
EmptySlot == [name |-> NoName, id |-> 0]
Named(slots) == {i \in SlotIds : slots[i].name # NoName}

\* pdb_category_get_id(): the slots are sorted by name and searched, so that of two
\* with the same name either may be found; none means UINT8_MAX.  The answer is what
\* the slot says its id is.
IdsOf(slots, name) == {slots[i].id : i \in {j \in SlotIds : slots[j].name = name}}

\* pdb_category_add() takes the first slot without a name.
Free(slots) == SlotIds \ Named(slots)

\* Seeded fault: the search for a free slot goes by id.
FirstWithoutId(slots) ==
  Min({i \in SlotIds : slots[i].id = 0})

FirstFree(slots) == Min(Free(slots))

CategoryAdd(slots, name) ==
  [slots EXCEPT ![FirstFree(slots)] =
    [name |-> Stored[name], id |-> FirstFree(slots)]]

CategoryDelete(slots, id) == [slots EXCEPT ![id] = EmptySlot]

\* _read_categories() clears, from the last slot down, those with a name and an id
\* that is not their index, and stops at the first that is not such a one.
Garbage(slots, i) == slots[i].id # i /\ slots[i].name # NoName
CategoriesRead(slots) ==
  [i \in SlotIds |->
     IF \A j \in i..(Slots - 1) : Garbage(slots, j) THEN EmptySlot ELSE slots[i]]

\* Where an id of a category is that of its slot, and its name one that a slot can
\* keep, a category that is looked up is found in the slot of its id.
SoundCategories(cats) ==
  \A i \in SlotIds : cats[i].name # NoName =>
    cats[i].id = i /\ Stored[cats[i].name] = cats[i].name
=============================================================================
