---------------------------- MODULE PdbTasksProofs ----------------------------
(***************************************************************************)
(* Theorems about PdbTasks, for any tasks, strings, categories and faults  *)
(* and any number of operations: each task keeps the record it was given.  *)
(***************************************************************************)
EXTENDS PdbTasks, PdbFileProofs

-----------------------------------------------------------------------------
(* Records and sizes *)

LEMMA SizesAreNumbers ==
  ASSUME NEW task \in Task
  PROVE  /\ TodoSize(task) \in Nat
         /\ PtodRoom(task) \in Nat
         /\ PtodSize(task) \in Nat
<1>1. StringsSize(task) \in Nat
  BY TaskConstantsOK DEF Task, StringsSize
<1>2. DueSize(task) \in Nat /\ AlarmSize(task) \in Nat
  BY DEF DueSize, AlarmSize
<1>3. RoomForRepeat(task) \in Nat /\ RepeatSize(task) \in Nat
  BY <1>2 DEF RoomForRepeat, RepeatSize
<1>. QED
  BY <1>1, <1>2, <1>3 DEF TodoSize, PtodRoom, PtodSize

\* A record that is moved is the same record.
LEMMA MovedRecord ==
  ASSUME NEW record \in Record, NEW by \in Int
  PROVE  /\ [record EXCEPT !.offset = @ + by] \in Record
         /\ [record EXCEPT !.offset = @ + by].id = record.id
BY DEF Record

LEMMA MovedBehindType ==
  ASSUME NEW list \in Seq(Record), NEW k \in Int, NEW by \in Int
  PROVE  /\ MovedBehind(list, k, by) \in Seq(Record)
         /\ Len(MovedBehind(list, k, by)) = Len(list)
         /\ \A j \in 1..Len(list) : MovedBehind(list, k, by)[j].id = list[j].id
<1> DEFINE moved == MovedBehind(list, k, by)
<1>1. \A j \in 1..Len(list) : list[j] \in Record
  OBVIOUS
<1>2. moved = [j \in 1..Len(list) |->
                 IF j > k THEN [list[j] EXCEPT !.offset = @ + by] ELSE list[j]]
  BY DEF MovedBehind
<1>3. \A j \in 1..Len(list) : moved[j] \in Record /\ moved[j].id = list[j].id
  BY <1>1, <1>2, MovedRecord
<1>4. moved \in [1..Len(list) -> Record]
  BY <1>2, <1>3
<1>5. moved \in Seq(Record) /\ Len(moved) = Len(list)
  BY <1>4, Len(list) \in Nat
<1>. QED
  BY <1>3, <1>5

\* Where an element of a list is after one was removed.
Shifted(i, k) == IF i < k THEN i ELSE i + 1

LEMMA WithoutType ==
  ASSUME NEW list \in Seq(Record), NEW k \in 1..Len(list), NEW size \in Int
  PROVE  /\ Without(list, k, size) \in Seq(Record)
         /\ Len(Without(list, k, size)) = Len(list) - 1
         /\ \A i \in 1..(Len(list) - 1) :
              Without(list, k, size)[i].id = list[Shifted(i, k)].id
<1> DEFINE a == MovedBehind(list, k, -size)
           b == RemoveAt(a, k)
           c == MovedBehind(b, 0, -ItemSize)
<1>0. -size \in Int /\ -ItemSize \in Int /\ 0 \in Int /\ k \in Int
  BY DEF ItemSize
<1>1. /\ a \in Seq(Record) /\ Len(a) = Len(list)
      /\ \A j \in 1..Len(list) : a[j].id = list[j].id
  BY <1>0, MovedBehindType
<1> HIDE DEF a
<1>2. /\ b \in Seq(Record) /\ Len(b) = Len(a) - 1
      /\ \A i \in 1..(Len(a) - 1) : b[i] = IF i < k THEN a[i] ELSE a[i + 1]
  BY <1>1, RemoveAtType
<1> HIDE DEF b
<1>3. /\ c \in Seq(Record) /\ Len(c) = Len(b)
      /\ \A j \in 1..Len(b) : c[j].id = b[j].id
  BY <1>0, <1>2, MovedBehindType
<1> HIDE DEF c
<1>4. \A i \in 1..(Len(list) - 1) : c[i].id = list[Shifted(i, k)].id
  <2> TAKE i \in 1..(Len(list) - 1)
  <2>1. c[i].id = b[i].id /\ b[i] = a[Shifted(i, k)]
    BY <1>1, <1>2, <1>3 DEF Shifted
  <2>2. Shifted(i, k) \in 1..Len(list)
    BY DEF Shifted
  <2>. QED
    BY <1>1, <2>1, <2>2
<1>5. Without(list, k, size) = c
  BY DEF Without, a, b, c
<1>. QED
  BY <1>1, <1>2, <1>3, <1>4, <1>5

LEMMA WithType ==
  ASSUME NEW list \in Seq(Record), list # <<>>, NEW size \in Int,
         NEW id \in Ids, NEW slot \in SlotIds
  PROVE  /\ With(list, size, id, slot) \in Seq(Record)
         /\ Len(With(list, size, id, slot)) = Len(list) + 1
         /\ \A i \in 1..Len(list) : With(list, size, id, slot)[i].id = list[i].id
         /\ With(list, size, id, slot)[Len(list) + 1].id = id
<1> DEFINE a == MovedBehind(list, 0, ItemSize)
           new == [id |-> id, offset |-> Last(list).offset + size + ItemSize, slot |-> slot]
<1>0. ItemSize \in Int /\ 0 \in Int
  BY DEF ItemSize
<1>1. /\ a \in Seq(Record) /\ Len(a) = Len(list)
      /\ \A j \in 1..Len(list) : a[j].id = list[j].id
  BY <1>0, MovedBehindType
<1>2. new \in Record
  <2>1. Len(list) \in 1..Len(list)
    OBVIOUS
  <2>2. Last(list) \in Record
    BY <2>1 DEF Last
  <2>. QED
    BY <1>0, <2>2 DEF Record
<1>3. new.id = id
  OBVIOUS
<1>4. With(list, size, id, slot) = Append(a, new)
  BY DEF With
<1> HIDE DEF a, new
<1>5. /\ Append(a, new) \in Seq(Record) /\ Len(Append(a, new)) = Len(a) + 1
      /\ \A i \in 1..Len(a) : Append(a, new)[i] = a[i]
      /\ Append(a, new)[Len(a) + 1] = new
  BY <1>1, <1>2, AppendProperties
<1>. QED
  BY <1>1, <1>3, <1>4, <1>5

-----------------------------------------------------------------------------
(* Categories *)

LEMMA CategoryInType ==
  ASSUME NEW cats \in [SlotIds -> Slot], NEW name \in Names,
         NEW found \in CategoryIn(cats, name)
  PROVE  found.id \in Nat /\ found.slots \in [SlotIds -> Slot]
<1>1. CASE IdsOf(cats, name) # {}
  <2>1. found \in {[id |-> id, slots |-> cats] : id \in IdsOf(cats, name)}
    BY <1>1 DEF CategoryIn
  <2>. QED
    BY <2>1, IdsAreNumbers
<1>2. CASE IdsOf(cats, name) = {} /\ Free(cats) # {}
  <2>1. found = [id |-> FirstFree(cats), slots |-> CategoryAdd(cats, name)]
    BY <1>2 DEF CategoryIn
  <2>. QED
    BY <1>2, <2>1, FirstFreeIsFree, CategoryAddIsTyped, SlotNumbers
<1>3. CASE IdsOf(cats, name) = {} /\ Free(cats) = {}
  BY <1>3 DEF CategoryIn
<1>. QED
  BY <1>1, <1>2, <1>3

LEMMA CategoryAskedIsName ==
  ASSUME NEW name \in Names \cup {None}
  PROVE  CategoryAsked(name) \in Names
BY TaskConstantsOK DEF CategoryAsked

LEMMA NoSlotsType == NoSlots \in [{"todo", "ptod"} -> [SlotIds -> Slot]]
BY EmptySlotIsSlot DEF NoSlots

-----------------------------------------------------------------------------
(* What leaves the files or the links alone *)

\* The part of the invariant that is about the tasks and their records.
Linked ==
  /\ Len(todo) = Len(queue)
  /\ IdsDiffer(ptod)
  /\ LinksLead
  /\ LinksDiffer
  /\ EachTaskHasItsRecord

LEMMA DiskStays ==
  ASSUME IInv, UNCHANGED disk
  PROVE  /\ files' \in Files
         /\ written' \in {"never", "torn", "loose", "sound"}
         /\ IdsDiffer(files'.ptod.list)
BY DEF IInv, TypeOK, disk

LEMMA OperationCounts ==
  ASSUME TypeOK, Operation
  PROVE  ops' \in 0..MaxOps
BY TaskBoundsOK DEF TypeOK, Operation

LEMMA LinksStay ==
  ASSUME IInv,
         Len(queue') = Len(queue), queue' \in Seq(Task),
         \A i \in 1..Len(queue) : queue'[i].link = queue[i].link,
         Len(ptod') = Len(ptod), ptod' \in Seq(Record),
         \A j \in 1..Len(ptod) : ptod'[j].id = ptod[j].id,
         Len(todo') = Len(todo), exact' => exact
  PROVE  Linked'
<1>0. queue \in Seq(Task) /\ ptod \in Seq(Record)
  BY DEF IInv, TypeOK
<1>1. DOMAIN queue' = DOMAIN queue /\ DOMAIN queue = 1..Len(queue)
  BY <1>0
<1>2. DOMAIN ptod' = DOMAIN ptod /\ DOMAIN ptod = 1..Len(ptod)
  BY <1>0
<1>3. IdsDiffer(ptod')
  BY <1>2 DEF IInv, IdsDiffer
<1>4. LinksLead'
  BY <1>1, <1>2 DEF IInv, LinksLead
<1>5. LinksDiffer'
  BY <1>1 DEF IInv, LinksDiffer
<1>6. EachTaskHasItsRecord'
  <2> SUFFICES ASSUME exact' PROVE Len(todo') = Len(queue') /\ OneToOne(queue', ptod')
    BY DEF EachTaskHasItsRecord
  <2>1. OneToOne(queue, ptod) /\ Len(todo) = Len(queue)
    BY DEF IInv, EachTaskHasItsRecord
  <2>2. \A i \in DOMAIN queue' : \E j \in DOMAIN ptod' : queue'[i].link = ptod'[j].id
    BY <1>1, <1>2, <2>1 DEF OneToOne
  <2>3. \A i, j \in DOMAIN queue' : queue'[i].link = queue'[j].link => i = j
    BY <1>1, <2>1 DEF OneToOne
  <2>4. \A j \in DOMAIN ptod' : \E i \in DOMAIN queue' : queue'[i].link = ptod'[j].id
    BY <1>1, <1>2, <2>1 DEF OneToOne
  <2>5. Len(todo') = Len(queue')
    BY <2>1
  <2>. QED
    BY <2>2, <2>3, <2>4, <2>5 DEF OneToOne
<1>7. Len(todo') = Len(queue')
  BY DEF IInv
<1>. QED
  BY <1>3, <1>4, <1>5, <1>6, <1>7 DEF Linked

LEMMA ForgottenIsLinked ==
  ASSUME Forgotten
  PROVE  Linked' /\ open' = FALSE /\ exact' = TRUE
         /\ queue' \in Seq(Task) /\ todo' \in Seq(Record) /\ ptod' \in Seq(Record)
         /\ slots' \in [{"todo", "ptod"} -> [SlotIds -> Slot]]
<1>1. /\ open' = FALSE /\ queue' = <<>> /\ todo' = <<>> /\ ptod' = <<>>
      /\ slots' = NoSlots /\ exact' = TRUE
  BY DEF Forgotten
<1>2. DOMAIN queue' = {} /\ DOMAIN ptod' = {} /\ Len(queue') = 0 /\ Len(todo') = 0
  BY <1>1
<1>3. Linked'
  BY <1>2 DEF Linked, IdsDiffer, LinksLead, LinksDiffer, EachTaskHasItsRecord, OneToOne
<1>. QED
  BY <1>1, <1>3, NoSlotsType

-----------------------------------------------------------------------------
(* tasks_read() *)

LEMMA EntryType ==
  ASSUME NEW stored, NEW file \in File(stored), Whole(file), NEW i \in DOMAIN file.list
  PROVE  Entry(file, file.list[i]) \in stored
<1>1. EntriesAt(file, file.list[i]) # {}
  BY DEF Whole
<1>2. Entry(file, file.list[i]) \in EntriesAt(file, file.list[i])
  BY <1>1, Zenon DEF Entry
<1>. QED
  BY <1>2 DEF EntriesAt, File

LEMMA LatestType ==
  ASSUME NEW n \in Nat, NEW places \in SUBSET (1..n), NEW S, NEW values, NEW none \in S,
         \A j \in places : values[j] \in S
  PROVE  Latest(places, values, none) \in S
BY MaxOfRange DEF Latest

LEMMA FilesAreTyped ==
  ASSUME IInv
  PROVE  /\ files.todo \in File(InTodo) /\ files.ptod \in File(InPtod)
         /\ files.todo.list \in Seq(Record) /\ files.ptod.list \in Seq(Record)
         /\ files.todo.slots \in [SlotIds -> Slot] /\ files.ptod.slots \in [SlotIds -> Slot]
         /\ files.todo.entries \subseteq InTodo /\ files.ptod.entries \subseteq InPtod
         /\ DOMAIN files.todo.list = 1..Len(files.todo.list)
         /\ DOMAIN files.ptod.list = 1..Len(files.ptod.list)
         /\ Len(files.todo.list) \in Nat /\ Len(files.ptod.list) \in Nat
<1>1. files.todo \in File(InTodo) /\ files.ptod \in File(InPtod)
  BY DEF IInv, TypeOK, Files
<1>2. files.todo.list \in Seq(Record) /\ files.ptod.list \in Seq(Record)
  BY <1>1 DEF File
<1>3. files.todo.slots \in [SlotIds -> Slot] /\ files.ptod.slots \in [SlotIds -> Slot]
  BY <1>1 DEF File
<1>4. files.todo.entries \subseteq InTodo /\ files.ptod.entries \subseteq InPtod
  BY <1>1 DEF File
<1>. QED
  BY <1>1, <1>2, <1>3, <1>4

LEMMA TaskReadType ==
  ASSUME IInv, Readable, NEW pick, NEW i \in 1..Len(files.todo.list)
  PROVE  TaskRead(pick, i) \in Task
<1> DEFINE list == files.ptod.list
           entry == [j \in DOMAIN list |-> Entry(files.ptod, list[j])]
           mine == RecordsOf(pick, i)
           own == Entry(files.todo, files.todo.list[i])
<1>1. own \in InTodo
  BY FilesAreTyped, EntryType DEF Readable
<1>2. mine \in SUBSET (1..Len(list)) /\ Len(list) \in Nat
  BY FilesAreTyped DEF RecordsOf
<1>3. \A j \in mine : entry[j] \in InPtod
  <2> TAKE j \in mine
  <2>1. j \in DOMAIN list
    BY DEF RecordsOf
  <2>2. Entry(files.ptod, list[j]) \in InPtod
    BY <2>1, FilesAreTyped, EntryType DEF Readable
  <2>. QED
    BY <2>1, <2>2
<1>4. CategoriesRead(files.todo.slots)[files.todo.list[i].slot].name \in Names \cup {NoName}
  <2>1. files.todo.list[i] \in Record
    BY FilesAreTyped
  <2>2. files.todo.list[i].slot \in SlotIds
    BY <2>1 DEF Record
  <2>3. CategoriesRead(files.todo.slots)[files.todo.list[i].slot] \in Slot
    BY <2>2, FilesAreTyped, CategoriesReadType
  <2>. QED
    BY <2>3 DEF Slot
<1> HIDE DEF entry, mine, own
<1>5. Latest(mine, [j \in mine |-> entry[j].priority], PRIORITY_1) \in Priorities
  BY <1>2, <1>3, LatestType, TaskConstantsOK DEF InPtod
<1>6. Latest({j \in mine : entry[j].due # 0}, [j \in mine |-> entry[j].due], 0) \in Nat
  BY <1>2, <1>3, LatestType DEF InPtod
<1>7. Latest({j \in mine : entry[j].alarm # None}, [j \in mine |-> entry[j].alarm], None)
        \in Alarms \cup {None}
  BY <1>2, <1>3, LatestType DEF InPtod
<1>8. Latest({j \in mine : entry[j].repeat # None}, [j \in mine |-> entry[j].repeat], None)
        \in Repeats \cup {None}
  BY <1>2, <1>3, LatestType DEF InPtod
<1>9. Latest(mine, [j \in mine |-> list[j].id], None) \in Ids \cup {None}
  <2>0. \A j \in mine : list[j] \in Record
    BY <1>2, FilesAreTyped
  <2>1. \A j \in mine : list[j].id \in Ids
    BY <2>0 DEF Record
  <2>. QED
    BY <1>2, <2>1, LatestType
<1>10. own.header \in Strings /\ own.text \in Strings
  BY <1>1 DEF InTodo
<1>11. TaskRead(pick, i) =
        [header |-> own.header,
         text   |-> own.text,
         asked  |-> CategoriesRead(files.todo.slots)[files.todo.list[i].slot].name,
         priority |-> Latest(mine, [j \in mine |-> entry[j].priority], PRIORITY_1),
         due    |-> Latest({j \in mine : entry[j].due # 0}, [j \in mine |-> entry[j].due], 0),
         alarm  |-> Latest({j \in mine : entry[j].alarm # None},
                           [j \in mine |-> entry[j].alarm], None),
         repeat |-> Latest({j \in mine : entry[j].repeat # None},
                           [j \in mine |-> entry[j].repeat], None),
         link   |-> Latest(mine, [j \in mine |-> list[j].id], None),
         fresh  |-> FALSE]
  BY DEF TaskRead, Header, own, mine, entry
<1>. QED
  BY <1>4, <1>5, <1>6, <1>7, <1>8, <1>9, <1>10, <1>11 DEF Task

\* The link of a task that has one is to the last of the records that came to it.
LEMMA LinkRead ==
  ASSUME IInv, NEW pick, NEW i, TaskRead(pick, i).link # None
  PROVE  \E j \in RecordsOf(pick, i) :
           /\ j \in DOMAIN files.ptod.list
           /\ TaskRead(pick, i).link = files.ptod.list[j].id
<1> DEFINE list == files.ptod.list
           mine == RecordsOf(pick, i)
<1>1. TaskRead(pick, i).link = Latest(mine, [j \in mine |-> list[j].id], None)
  BY DEF TaskRead
<1>2. mine \in SUBSET (1..Len(list)) /\ Len(list) \in Nat /\ DOMAIN list = 1..Len(list)
  BY FilesAreTyped DEF RecordsOf
<1> HIDE DEF mine
<1>3. mine # {}
  BY <1>1 DEF Latest
<1>4. Max(mine) \in mine
  BY <1>2, <1>3, MaxOfRange
<1>5. TaskRead(pick, i).link = list[Max(mine)].id
  BY <1>1, <1>3, <1>4 DEF Latest
<1>. QED
  BY <1>2, <1>4, <1>5 DEF mine

LEMMA OpenHolds ==
  ASSUME IInv, Open
  PROVE  IInv'
<1> DEFINE n == Len(files.todo.list)
<1>1. PICK pick \in Picks : queue' = QueueRead(pick)
  BY DEF Open
<1>2. /\ Readable /\ open' = TRUE /\ todo' = files.todo.list /\ ptod' = files.ptod.list
      /\ slots' = SlotsRead /\ outcome' = "ok" /\ UNCHANGED disk /\ ops' = ops
      /\ exact' = (OneToOne(queue', ptod') /\ written \in {"never", "sound"})
  BY DEF Open
<1>3. n \in Nat /\ DOMAIN files.todo.list = 1..n
  BY FilesAreTyped
<1>4. queue' = [i \in 1..n |-> TaskRead(pick, i)]
  BY <1>1, <1>3 DEF QueueRead
<1>5. queue' \in Seq(Task) /\ Len(queue') = n /\ DOMAIN queue' = 1..n
  <2>1. \A i \in 1..n : TaskRead(pick, i) \in Task
    BY <1>2, TaskReadType
  <2>2. queue' \in [1..n -> Task]
    BY <1>4, <2>1
  <2>. QED
    BY <1>3, <2>2
<1>6. \A i \in DOMAIN queue' : queue'[i] = TaskRead(pick, i)
  BY <1>4, <1>5
<1>7. IdsDiffer(ptod') /\ IdsDiffer(files'.ptod.list)
  BY <1>2, DiskStays DEF IInv
<1>8. LinksLead'
  BY <1>2, <1>6, LinkRead DEF LinksLead
<1>9. LinksDiffer'
  <2> SUFFICES ASSUME NEW i \in DOMAIN queue', NEW k \in DOMAIN queue',
                      queue'[i].link # None, queue'[i].link = queue'[k].link
               PROVE  i = k
    BY DEF LinksDiffer
  <2>1. PICK a \in RecordsOf(pick, i) :
          a \in DOMAIN files.ptod.list /\ queue'[i].link = files.ptod.list[a].id
    BY <1>6, LinkRead
  <2>2. PICK b \in RecordsOf(pick, k) :
          b \in DOMAIN files.ptod.list /\ queue'[k].link = files.ptod.list[b].id
    BY <1>6, LinkRead
  <2>3. a = b
    BY <2>1, <2>2 DEF IInv, IdsDiffer
  <2>. QED
    BY <2>1, <2>2, <2>3 DEF RecordsOf
<1>10. EachTaskHasItsRecord' /\ Len(todo') = Len(queue')
  BY <1>2, <1>5 DEF EachTaskHasItsRecord
<1>11. TypeOK'
  <2>1. slots' \in [{"todo", "ptod"} -> [SlotIds -> Slot]]
    <3>1. /\ CategoriesRead(files.todo.slots) \in [SlotIds -> Slot]
          /\ CategoriesRead(files.ptod.slots) \in [SlotIds -> Slot]
      BY FilesAreTyped, CategoriesReadType
    <3>. QED
      BY <1>2, <3>1 DEF SlotsRead
  <2>2. exact' \in BOOLEAN
    BY <1>2
  <2>3. todo' \in Seq(Record) /\ ptod' \in Seq(Record)
    BY <1>2, FilesAreTyped
  <2>. QED
    BY <1>2, <1>5, <2>1, <2>2, <2>3, DiskStays DEF IInv, TypeOK
<1>. QED
  BY <1>7, <1>8, <1>9, <1>10, <1>11 DEF IInv

\* What happens without an open pair of files, or ends it.
LEMMA OpenFailsHolds ==
  ASSUME IInv, OpenFails
  PROVE  IInv'
<1>1. UNCHANGED <<files, written, queue, todo, ptod, slots, open, exact, ops>>
  BY DEF OpenFails, disk, memory
<1>2. outcome' \in {"ok", "failed", "dead"}
  BY DEF OpenFails
<1>. QED
  BY <1>1, <1>2 DEF IInv, TypeOK, LinksLead, LinksDiffer, EachTaskHasItsRecord, IdsDiffer

LEMMA ForgottenHolds ==
  ASSUME IInv, Forgotten,
         files' \in Files, written' \in {"never", "torn", "loose", "sound"},
         IdsDiffer(files'.ptod.list),
         outcome' \in {"ok", "failed", "dead"}, ops' \in 0..MaxOps
  PROVE  IInv'
BY ForgottenIsLinked DEF Linked, IInv, TypeOK

LEMMA CloseHolds ==
  ASSUME IInv, Close
  PROVE  IInv'
<1>1. outcome' \in {"ok", "failed", "dead"} /\ ops' = ops /\ Forgotten /\ UNCHANGED disk
  BY DEF Close
<1>. QED
  BY <1>1, DiskStays, ForgottenHolds DEF IInv, TypeOK

LEMMA DiesHolds ==
  ASSUME IInv, Dies, UNCHANGED disk
  PROVE  IInv'
BY DiskStays, ForgottenHolds, OperationCounts DEF Dies, IInv

-----------------------------------------------------------------------------
(* Adding *)

LEMMA TaskAddHolds ==
  ASSUME IInv, NEW category \in Names \cup {None}, NEW header \in NewHeaders,
         NEW text \in NewTexts, NEW priority \in Priorities,
         TaskAdd(header, text, category, priority)
  PROVE  IInv'
<1> DEFINE name == CategoryAsked(category)
           n == Len(queue)
           m == Len(ptod)
<1>1. PICK inTodo \in CategoryIn(slots.todo, name), inPtod \in CategoryIn(slots.ptod, name),
           id \in FreshIds :
        /\ slots' = [todo |-> inTodo.slots, ptod |-> inPtod.slots]
        /\ todo' = With(todo, TodoSize(Last(queue)), id, inTodo.id % Slots)
        /\ ptod' = With(ptod, PtodRoom(Last(queue)), id, inPtod.id % Slots)
        /\ queue' = Append(queue,
             [header |-> header, text |-> text, priority |-> priority, due |-> 0,
              alarm |-> None, repeat |-> None,
              asked |-> Stored[name], link |-> id, fresh |-> TRUE])
  BY DEF TaskAdd
<1>2. /\ UNCHANGED disk /\ open' = open /\ exact' = exact /\ outcome' = "ok" /\ Operation
      /\ LastIsLast
  BY DEF TaskAdd, Call
<1>3. /\ queue \in Seq(Task) /\ todo \in Seq(Record) /\ ptod \in Seq(Record)
      /\ slots.todo \in [SlotIds -> Slot] /\ slots.ptod \in [SlotIds -> Slot]
      /\ Len(todo) = n
  BY DEF IInv, TypeOK
<1>4. name \in Names
  BY CategoryAskedIsName
<1>5. /\ inTodo.id \in Nat /\ inTodo.slots \in [SlotIds -> Slot]
      /\ inPtod.id \in Nat /\ inPtod.slots \in [SlotIds -> Slot]
  BY <1>3, <1>4, CategoryInType
<1>6. inTodo.id % Slots \in SlotIds /\ inPtod.id % Slots \in SlotIds
  BY <1>5, SlotNumbers
<1>7. id \in Ids /\ \A j \in 1..m : ptod[j].id # id
  BY <1>3 DEF FreshIds
<1>8. queue # <<>> /\ ptod # <<>> /\ todo # <<>>
  <2>1. queue # <<>> /\ ptod # <<>>
    BY <1>2 DEF LastIsLast
  <2>2. Len(todo) # 0
    BY <1>3, <2>1
  <2>. QED
    BY <2>1, <2>2
<1>9. TodoSize(Last(queue)) \in Int /\ PtodRoom(Last(queue)) \in Int
  <2>1. Last(queue) \in Task
    BY <1>3, <1>8 DEF Last
  <2>. QED
    BY <2>1, SizesAreNumbers
<1> DEFINE slotTodo == inTodo.id % Slots
           slotPtod == inPtod.id % Slots
           sizeTodo == TodoSize(Last(queue))
           sizePtod == PtodRoom(Last(queue))
<1>a. /\ todo' = With(todo, sizeTodo, id, slotTodo)
      /\ ptod' = With(ptod, sizePtod, id, slotPtod)
      /\ slotTodo \in SlotIds /\ slotPtod \in SlotIds
      /\ sizeTodo \in Int /\ sizePtod \in Int
  BY <1>1, <1>6, <1>9
<1> HIDE DEF slotTodo, slotPtod, sizeTodo, sizePtod
<1>10. todo' \in Seq(Record) /\ Len(todo') = n + 1
  <2>1. /\ With(todo, sizeTodo, id, slotTodo) \in Seq(Record)
        /\ Len(With(todo, sizeTodo, id, slotTodo)) = Len(todo) + 1
    <3>1. todo \in Seq(Record) /\ todo # <<>> /\ id \in Ids
      BY <1>3, <1>7, <1>8
    <3>2. sizeTodo \in Int /\ slotTodo \in SlotIds
      BY <1>a
    <3>. QED
      BY <3>1, <3>2, WithType, Zenon
  <2>. QED
    BY <1>3, <1>a, <2>1
<1>11. /\ ptod' \in Seq(Record) /\ Len(ptod') = m + 1
       /\ \A j \in 1..m : ptod'[j].id = ptod[j].id
       /\ ptod'[m + 1].id = id
  <2>1. /\ With(ptod, sizePtod, id, slotPtod) \in Seq(Record)
        /\ Len(With(ptod, sizePtod, id, slotPtod)) = Len(ptod) + 1
        /\ \A j \in 1..Len(ptod) : With(ptod, sizePtod, id, slotPtod)[j].id = ptod[j].id
        /\ With(ptod, sizePtod, id, slotPtod)[Len(ptod) + 1].id = id
    <3>1. ptod \in Seq(Record) /\ ptod # <<>> /\ id \in Ids
      BY <1>3, <1>7, <1>8
    <3>2. sizePtod \in Int /\ slotPtod \in SlotIds
      BY <1>a
    <3>. QED
      BY <3>1, <3>2, WithType, Zenon
  <2>. QED
    BY <1>a, <2>1
<1> DEFINE new == [header |-> header, text |-> text, priority |-> priority, due |-> 0,
                   alarm |-> None, repeat |-> None,
                   asked |-> Stored[name], link |-> id, fresh |-> TRUE]
<1>12. new \in Task /\ new.link = id
  <2>1. header \in Strings /\ text \in Strings
    BY TaskConstantsOK
  <2>2. Stored[name] \in Names
    BY <1>4, TruncationOK
  <2>. QED
    BY <1>7, <2>1, <2>2 DEF Task
<1>13. queue' = Append(queue, new)
  BY <1>1
<1> HIDE DEF new, name
<1>14. /\ queue' \in Seq(Task) /\ Len(queue') = n + 1
       /\ \A i \in 1..n : queue'[i] = queue[i]
       /\ queue'[n + 1] = new
  BY <1>3, <1>12, <1>13, AppendProperties
<1>15. /\ n \in Nat /\ m \in Nat
       /\ DOMAIN queue = 1..n /\ DOMAIN ptod = 1..m
       /\ DOMAIN queue' = 1..(n + 1) /\ DOMAIN ptod' = 1..(m + 1)
  BY <1>3, <1>11, <1>14
<1>16. \A i \in 1..n : queue'[i].link = queue[i].link
  BY <1>14
<1>17. queue'[n + 1].link = id /\ id # None
  BY <1>7, <1>12, <1>14, TaskConstantsOK
<1>18. \A i \in 1..(n + 1) : i \in 1..n \/ i = n + 1
  BY <1>15
<1>19. \A j \in 1..(m + 1) : j \in 1..m \/ j = m + 1
  BY <1>15
<1>20. \A i \in 1..n : queue[i].link # id
  <2> SUFFICES ASSUME NEW i \in 1..n, queue[i].link = id PROVE FALSE
    OBVIOUS
  <2>1. \E j \in 1..m : ptod[j].id = id
    BY <1>15, <1>17 DEF IInv, LinksLead
  <2>. QED
    BY <1>7, <2>1
<1>21. m + 1 \in 1..(m + 1) /\ n + 1 \in 1..(n + 1) /\ 1..m \subseteq 1..(m + 1)
       /\ 1..n \subseteq 1..(n + 1)
  BY <1>15
<1> HIDE DEF n, m
<1>22. IdsDiffer(ptod')
  BY <1>7, <1>11, <1>15, <1>19 DEF IInv, IdsDiffer
<1>23. LinksLead'
  <2> SUFFICES ASSUME NEW i \in 1..(n + 1), queue'[i].link # None
               PROVE  \E j \in 1..(m + 1) : ptod'[j].id = queue'[i].link
    BY <1>15 DEF LinksLead
  <2>1. CASE i \in 1..n
    <3>1. \E j \in 1..m : ptod[j].id = queue[i].link
      BY <1>15, <1>16, <2>1 DEF IInv, LinksLead
    <3>. QED
      BY <1>11, <1>16, <1>21, <2>1, <3>1
  <2>2. CASE i = n + 1
    BY <1>11, <1>17, <1>21, <2>2
  <2>. QED
    BY <1>18, <2>1, <2>2
<1>24. LinksDiffer'
  <2> SUFFICES ASSUME NEW i \in 1..(n + 1), NEW k \in 1..(n + 1),
                      queue'[i].link # None, queue'[i].link = queue'[k].link
               PROVE  i = k
    BY <1>15 DEF LinksDiffer
  <2>1. CASE i \in 1..n /\ k \in 1..n
    BY <1>15, <1>16, <2>1 DEF IInv, LinksDiffer
  <2>2. CASE i = n + 1 \/ k = n + 1
    BY <1>16, <1>17, <1>18, <1>20, <2>2
  <2>. QED
    BY <1>18, <2>1, <2>2
<1>25. EachTaskHasItsRecord'
  <2> SUFFICES ASSUME exact' PROVE Len(todo') = Len(queue') /\ OneToOne(queue', ptod')
    BY DEF EachTaskHasItsRecord
  <2>1. OneToOne(queue, ptod)
    BY <1>2 DEF IInv, EachTaskHasItsRecord
  <2>2. \A i \in DOMAIN queue' : queue'[i].link # None
    <3>1. \A i \in 1..n : queue[i].link # None
      <4>1. \A j \in 1..m : ptod[j].id # None
        <5>1. \A j \in 1..m : ptod[j] \in Record
          BY <1>3, <1>15
        <5>2. \A j \in 1..m : ptod[j].id \in Ids
          BY <5>1 DEF Record
        <5>. QED
          BY <5>2, TaskConstantsOK
      <4>. QED
        BY <1>15, <2>1, <4>1 DEF OneToOne
    <3>. QED
      BY <1>15, <1>16, <1>17, <1>18, <3>1
  <2>3. \A i \in DOMAIN queue' : \E j \in DOMAIN ptod' : queue'[i].link = ptod'[j].id
    BY <1>23, <2>2 DEF LinksLead
  <2>4. \A i, k \in DOMAIN queue' : queue'[i].link = queue'[k].link => i = k
    BY <1>24, <2>2 DEF LinksDiffer
  <2>5. \A j \in DOMAIN ptod' : \E i \in DOMAIN queue' : queue'[i].link = ptod'[j].id
    <3>1. \A j \in 1..m : \E i \in 1..n : queue[i].link = ptod[j].id
      BY <1>15, <2>1 DEF OneToOne
    <3>. QED
      BY <1>11, <1>15, <1>16, <1>17, <1>19, <1>21, <3>1
  <2>. QED
    BY <1>10, <1>14, <2>3, <2>4, <2>5 DEF OneToOne
<1>26. TypeOK'
  <2>1. slots' \in [{"todo", "ptod"} -> [SlotIds -> Slot]]
    BY <1>1, <1>5
  <2>2. ops' \in 0..MaxOps
    BY <1>2, OperationCounts DEF IInv
  <2>. QED
    BY <1>2, <1>10, <1>11, <1>14, <2>1, <2>2, DiskStays DEF IInv, TypeOK
<1>. QED
  BY <1>2, <1>10, <1>14, <1>22, <1>23, <1>24, <1>25, <1>26, DiskStays DEF IInv

LEMMA TaskAddFailsHolds ==
  ASSUME IInv, NEW category \in Names \cup {None}, TaskAddFails(category)
  PROVE  IInv'
<1> DEFINE inTodo == CategoryIn(slots.todo, CategoryAsked(category))
           inPtod == CategoryIn(slots.ptod, CategoryAsked(category))
<1>1. /\ outcome' = "failed" /\ Operation /\ UNCHANGED <<open, queue, todo, ptod, exact>>
      /\ UNCHANGED disk
      /\ \/ UNCHANGED slots
         \/ \E t \in inTodo : slots' = [slots EXCEPT !.todo = t.slots]
         \/ \E t \in inTodo, p \in inPtod : slots' = [todo |-> t.slots, ptod |-> p.slots]
  BY DEF TaskAddFails, Call
<1>2. slots \in [{"todo", "ptod"} -> [SlotIds -> Slot]]
  BY DEF IInv, TypeOK
<1>3. /\ \A t \in inTodo : t.slots \in [SlotIds -> Slot]
      /\ \A p \in inPtod : p.slots \in [SlotIds -> Slot]
  BY <1>2, CategoryAskedIsName, CategoryInType
<1> HIDE DEF inTodo, inPtod
<1>4. slots' \in [{"todo", "ptod"} -> [SlotIds -> Slot]]
  BY <1>1, <1>2, <1>3
<1>5. ops' \in 0..MaxOps
  BY <1>1, OperationCounts DEF IInv
<1>6. TypeOK'
  BY <1>1, <1>4, <1>5, DiskStays DEF IInv, TypeOK
<1>. QED
  BY <1>1, <1>6, DiskStays DEF IInv, LinksLead, LinksDiffer, EachTaskHasItsRecord

-----------------------------------------------------------------------------
(* Due dates, alarms and repetitions *)

LEMMA RecordIsThere ==
  ASSUME IInv, NEW k \in DOMAIN queue, queue[k].link # None
  PROVE  RecordOf(k) \in 1..Len(ptod) /\ ptod[RecordOf(k)].id = queue[k].link
<1>1. \E j \in DOMAIN ptod : ptod[j].id = queue[k].link
  BY DEF IInv, LinksLead
<1>2. RecordOf(k) \in DOMAIN ptod /\ ptod[RecordOf(k)].id = queue[k].link
  BY <1>1, Zenon DEF RecordOf
<1>3. ptod \in Seq(Record)
  BY DEF IInv, TypeOK
<1>. QED
  BY <1>2, <1>3

\* Records are moved, and nothing but a task's own data is changed.
LEMMA SetHolds ==
  ASSUME IInv, NEW k \in DOMAIN queue, NEW by \in Int, Resize(k, by),
         NEW task \in Task, task.link = queue[k].link,
         queue' = [queue EXCEPT ![k] = task],
         exact' \in BOOLEAN, exact' => exact,
         Call("ok"), UNCHANGED <<disk, open, todo, slots>>
  PROVE  IInv'
<1>1. queue \in Seq(Task) /\ ptod \in Seq(Record) /\ DOMAIN queue = 1..Len(queue)
  BY DEF IInv, TypeOK
<1>2. /\ ptod' \in Seq(Record) /\ Len(ptod') = Len(ptod)
      /\ \A j \in 1..Len(ptod) : ptod'[j].id = ptod[j].id
  <2>1. CASE by = 0
    BY <1>1, <2>1 DEF Resize
  <2>2. CASE by # 0
    <3>1. queue[k].link # None /\ ptod' = MovedBehind(ptod, RecordOf(k), by)
      BY <2>2 DEF Resize
    <3>2. RecordOf(k) \in Int
      BY <3>1, RecordIsThere
    <3>. QED
      BY <1>1, <3>1, <3>2, MovedBehindType
  <2>. QED
    BY <2>1, <2>2
<1>3. queue' \in Seq(Task) /\ Len(queue') = Len(queue)
  BY <1>1
<1>4. \A i \in 1..Len(queue) : queue'[i].link = queue[i].link
  <2> TAKE i \in 1..Len(queue)
  <2>1. queue'[i] = IF i = k THEN task ELSE queue[i]
    BY <1>1
  <2>. QED
    BY <2>1
<1>5. Linked'
  BY <1>2, <1>3, <1>4, LinksStay
<1>6. Operation /\ outcome' = "ok"
  BY DEF Call
<1>7. ops' \in 0..MaxOps
  BY <1>6, OperationCounts DEF IInv
<1>8. TypeOK'
  BY <1>2, <1>3, <1>6, <1>7, DiskStays DEF IInv, TypeOK
<1>. QED
  BY <1>5, <1>8, DiskStays DEF IInv, Linked

LEMMA TaskSetDueHolds ==
  ASSUME IInv, NEW k \in DOMAIN queue, NEW year \in NewYears \cup {0}, TaskSetDue(k, year)
  PROVE  IInv'
<1> DEFINE task == [queue[k] EXCEPT !.due = year]
<1>1. queue[k] \in Task /\ year \in Nat
  BY TaskConstantsOK DEF IInv, TypeOK
<1>2. task \in Task /\ task.link = queue[k].link
  BY <1>1 DEF Task
<1>3. DueMoves(queue[k], year) \in Int
  BY DEF DueMoves
<1>4. queue' = [queue EXCEPT ![k] = task]
  BY DEF TaskSetDue
<1>5. exact' \in BOOLEAN /\ (exact' => exact)
  BY DEF TaskSetDue
<1>6. /\ Call("ok") /\ Resize(k, DueMoves(queue[k], year))
      /\ UNCHANGED <<disk, open, todo, slots>>
  BY DEF TaskSetDue
<1> HIDE DEF task
<1>. QED
  BY <1>2, <1>3, <1>4, <1>5, <1>6, SetHolds

LEMMA TaskSetAlarmHolds ==
  ASSUME IInv, NEW k \in DOMAIN queue, NEW alarm \in Alarms \cup {None},
         TaskSetAlarm(k, alarm)
  PROVE  IInv'
<1> DEFINE task == [queue[k] EXCEPT !.alarm = alarm]
<1>1. queue[k] \in Task /\ exact \in BOOLEAN
  BY DEF IInv, TypeOK
<1>2. task \in Task /\ task.link = queue[k].link
  BY <1>1 DEF Task
<1>3. AlarmMoves(queue[k], alarm) \in Int
  BY DEF AlarmMoves
<1>4. queue' = [queue EXCEPT ![k] = task]
  BY DEF TaskSetAlarm
<1>5. exact' = exact
  BY DEF TaskSetAlarm
<1>6. /\ Call("ok") /\ Resize(k, AlarmMoves(queue[k], alarm))
      /\ UNCHANGED <<disk, open, todo, slots>>
  BY DEF TaskSetAlarm
<1> HIDE DEF task
<1>. QED
  BY <1>1, <1>2, <1>3, <1>4, <1>5, <1>6, SetHolds

LEMMA TaskSetRepeatHolds ==
  ASSUME IInv, NEW k \in DOMAIN queue, NEW repeat \in NewRepeats \cup {None},
         TaskSetRepeat(k, repeat)
  PROVE  IInv'
<1> DEFINE task == [queue[k] EXCEPT !.repeat = repeat]
<1>1. queue[k] \in Task /\ exact \in BOOLEAN /\ repeat \in Repeats \cup {None}
  BY TaskConstantsOK DEF IInv, TypeOK
<1>2. task \in Task /\ task.link = queue[k].link
  BY <1>1 DEF Task
<1>3. RepeatMoves(queue[k], repeat) \in Int
  BY DEF RepeatMoves
<1>4. queue' = [queue EXCEPT ![k] = task]
  BY DEF TaskSetRepeat
<1>5. exact' = exact
  BY DEF TaskSetRepeat
<1>6. /\ Call("ok") /\ Resize(k, RepeatMoves(queue[k], repeat))
      /\ UNCHANGED <<disk, open, todo, slots>>
  BY DEF TaskSetRepeat
<1> HIDE DEF task
<1>. QED
  BY <1>1, <1>2, <1>3, <1>4, <1>5, <1>6, SetHolds

LEMMA TaskSetDiesHolds ==
  ASSUME IInv, NEW k, TaskSetDies(k) \/ TaskDeleteDies(k)
  PROVE  IInv'
BY DiesHolds DEF TaskSetDies, ResizeDies, TaskDeleteDies

-----------------------------------------------------------------------------
(* Deleting *)

LEMMA TaskEditFailsHolds ==
  ASSUME IInv, TaskEditFails
  PROVE  IInv'
<1>1. UNCHANGED <<queue, todo, ptod, slots, open, exact>> /\ UNCHANGED disk
  BY DEF TaskEditFails, memory
<1>2. outcome' = "failed" /\ Operation
  BY DEF TaskEditFails, Call
<1>3. ops' \in 0..MaxOps
  BY <1>2, OperationCounts DEF IInv
<1>4. TypeOK'
  BY <1>1, <1>2, <1>3, DiskStays DEF IInv, TypeOK
<1>. QED
  BY <1>1, <1>4, DiskStays DEF IInv, LinksLead, LinksDiffer, EachTaskHasItsRecord, IdsDiffer

LEMMA ShiftedIs ==
  ASSUME NEW n \in Nat, NEW k \in 1..n
  PROVE  /\ \A i \in 1..(n - 1) : Shifted(i, k) \in 1..n /\ Shifted(i, k) # k
         /\ \A i, j \in 1..(n - 1) : Shifted(i, k) = Shifted(j, k) => i = j
         /\ \A x \in 1..n : x # k => \E i \in 1..(n - 1) : Shifted(i, k) = x
<1>1. \A i \in 1..(n - 1) : Shifted(i, k) \in 1..n /\ Shifted(i, k) # k
  BY DEF Shifted
<1>2. \A i, j \in 1..(n - 1) : Shifted(i, k) = Shifted(j, k) => i = j
  BY DEF Shifted
<1>3. ASSUME NEW x \in 1..n, x # k PROVE \E i \in 1..(n - 1) : Shifted(i, k) = x
  <2>1. CASE x < k
    <3>1. x \in 1..(n - 1) /\ Shifted(x, k) = x
      BY <2>1 DEF Shifted
    <3>. QED
      BY <3>1
  <2>2. CASE x > k
    <3>1. x - 1 \in 1..(n - 1) /\ Shifted(x - 1, k) = x
      BY <2>2 DEF Shifted
    <3>. QED
      BY <3>1
  <2>. QED
    BY <1>3, <2>1, <2>2
<1>. QED
  BY <1>1, <1>2, <1>3

LEMMA TaskDeleteHolds ==
  ASSUME IInv, NEW k \in DOMAIN queue, TaskDelete(k)
  PROVE  IInv'
<1> DEFINE n == Len(queue)
           m == Len(ptod)
           r == RecordOf(k)
           to(i) == Shifted(i, k)
           at(j) == Shifted(j, r)
<1>1. /\ queue[k].link # None
      /\ queue' = RemoveAt(queue, k)
      /\ todo' = Without(todo, k, TodoSize(queue[k]))
      /\ ptod' = Without(ptod, r, PtodRoom(queue[k]))
      /\ Call("ok") /\ UNCHANGED <<disk, open, slots, exact>>
  BY DEF TaskDelete
<1>2. /\ queue \in Seq(Task) /\ todo \in Seq(Record) /\ ptod \in Seq(Record)
      /\ Len(todo) = n
  BY DEF IInv, TypeOK
<1>3. n \in Nat /\ m \in Nat /\ DOMAIN queue = 1..n /\ DOMAIN ptod = 1..m /\ k \in 1..n
  BY <1>2
<1>4. TodoSize(queue[k]) \in Int /\ PtodRoom(queue[k]) \in Int
  <2>1. queue[k] \in Task
    BY <1>2
  <2>. QED
    BY <2>1, SizesAreNumbers
<1>5. r \in 1..m /\ ptod[r].id = queue[k].link
  BY <1>1, RecordIsThere
<1>6. /\ queue' \in Seq(Task) /\ Len(queue') = n - 1
      /\ \A i \in 1..(n - 1) : queue'[i] = queue[to(i)]
  <2>1. /\ queue' \in Seq(Task) /\ Len(queue') = n - 1
        /\ \A i \in 1..(n - 1) : queue'[i] = IF i < k THEN queue[i] ELSE queue[i + 1]
    BY <1>1, <1>2, <1>3, RemoveAtType
  <2>. QED
    BY <2>1 DEF Shifted
<1>7. todo' \in Seq(Record) /\ Len(todo') = n - 1
  <2>1. k \in 1..Len(todo)
    BY <1>2, <1>3
  <2>2. todo' \in Seq(Record) /\ Len(todo') = Len(todo) - 1
    BY <1>1, <1>2, <1>4, <2>1, WithoutType
  <2>. QED
    BY <1>2, <2>2
<1>8. /\ ptod' \in Seq(Record) /\ Len(ptod') = m - 1
      /\ \A j \in 1..(m - 1) : ptod'[j].id = ptod[at(j)].id
  <2> HIDE DEF r
  <2>. QED
    BY <1>1, <1>2, <1>4, <1>5, WithoutType
<1>9. /\ \A i \in 1..(n - 1) : to(i) \in 1..n /\ to(i) # k
      /\ \A i, j \in 1..(n - 1) : to(i) = to(j) => i = j
      /\ \A x \in 1..n : x # k => \E i \in 1..(n - 1) : to(i) = x
  BY <1>3, ShiftedIs
<1>10. /\ \A j \in 1..(m - 1) : at(j) \in 1..m /\ at(j) # r
       /\ \A i, j \in 1..(m - 1) : at(i) = at(j) => i = j
       /\ \A x \in 1..m : x # r => \E j \in 1..(m - 1) : at(j) = x
  <2> HIDE DEF r
  <2>. QED
    BY <1>3, <1>5, ShiftedIs
<1>11. DOMAIN queue' = 1..(n - 1) /\ DOMAIN ptod' = 1..(m - 1)
  BY <1>3, <1>6, <1>8
<1> HIDE DEF n, m, r, to, at
<1>12. IdsDiffer(ptod')
  <2> SUFFICES ASSUME NEW i \in 1..(m - 1), NEW j \in 1..(m - 1), ptod'[i].id = ptod'[j].id
               PROVE  i = j
    BY <1>11 DEF IdsDiffer
  <2>1. ptod[at(i)].id = ptod[at(j)].id
    BY <1>8
  <2>2. at(i) = at(j)
    BY <1>3, <1>10, <2>1 DEF IInv, IdsDiffer
  <2>. QED
    BY <1>10, <2>2
<1>13. LinksDiffer'
  <2> SUFFICES ASSUME NEW i \in 1..(n - 1), NEW j \in 1..(n - 1),
                      queue'[i].link # None, queue'[i].link = queue'[j].link
               PROVE  i = j
    BY <1>11 DEF LinksDiffer
  <2>1. queue[to(i)].link # None /\ queue[to(i)].link = queue[to(j)].link
    BY <1>6
  <2>2. to(i) = to(j)
    BY <1>3, <1>9, <2>1 DEF IInv, LinksDiffer
  <2>. QED
    BY <1>9, <2>2
\* No other task is linked to the record that goes.
<1>14. LinksLead'
  <2> SUFFICES ASSUME NEW i \in 1..(n - 1), queue'[i].link # None
               PROVE  \E j \in 1..(m - 1) : ptod'[j].id = queue'[i].link
    BY <1>11 DEF LinksLead
  <2>1. queue'[i].link = queue[to(i)].link /\ to(i) \in 1..n /\ to(i) # k
    BY <1>6, <1>9
  <2>2. PICK x \in 1..m : ptod[x].id = queue[to(i)].link
    BY <1>3, <2>1 DEF IInv, LinksLead
  <2>3. x # r
    <3> SUFFICES ASSUME x = r PROVE FALSE
      OBVIOUS
    <3>1. queue[k].link = queue[to(i)].link
      BY <1>5, <2>2
    <3>. QED
      BY <1>1, <1>3, <2>1, <3>1 DEF IInv, LinksDiffer
  <2>4. PICK j \in 1..(m - 1) : at(j) = x
    BY <1>10, <2>3
  <2>. QED
    BY <1>8, <2>1, <2>2, <2>4
<1>15. EachTaskHasItsRecord'
  <2> SUFFICES ASSUME exact' PROVE Len(todo') = Len(queue') /\ OneToOne(queue', ptod')
    BY DEF EachTaskHasItsRecord
  <2>1. OneToOne(queue, ptod)
    BY <1>1 DEF IInv, EachTaskHasItsRecord
  <2>2. \A i \in 1..(n - 1) : queue'[i].link # None
    <3> TAKE i \in 1..(n - 1)
    <3>1. to(i) \in 1..n /\ queue'[i] = queue[to(i)]
      BY <1>6, <1>9
    <3>2. PICK j \in 1..m : queue[to(i)].link = ptod[j].id
      BY <1>3, <2>1, <3>1 DEF OneToOne
    <3>3. ptod[j] \in Record
      BY <1>2, <1>3
    <3>4. ptod[j].id \in Ids
      BY <3>3 DEF Record
    <3>. QED
      BY <3>1, <3>2, <3>4, TaskConstantsOK
  <2>3. \A i \in DOMAIN queue' : \E j \in DOMAIN ptod' : queue'[i].link = ptod'[j].id
    BY <1>11, <1>14, <2>2 DEF LinksLead
  <2>4. \A i, j \in DOMAIN queue' : queue'[i].link = queue'[j].link => i = j
    BY <1>11, <1>13, <2>2 DEF LinksDiffer
  <2>5. ASSUME NEW j \in 1..(m - 1)
        PROVE  \E i \in 1..(n - 1) : queue'[i].link = ptod'[j].id
    <3>1. at(j) \in 1..m /\ at(j) # r /\ ptod'[j].id = ptod[at(j)].id
      BY <1>8, <1>10
    <3>2. PICK x \in 1..n : queue[x].link = ptod[at(j)].id
      BY <1>3, <2>1, <3>1 DEF OneToOne
    <3>3. x # k
      <4> SUFFICES ASSUME x = k PROVE FALSE
        OBVIOUS
      <4>1. ptod[at(j)].id = ptod[r].id
        BY <1>5, <3>2
      <4>. QED
        BY <1>3, <1>5, <3>1, <4>1 DEF IInv, IdsDiffer
    <3>4. PICK i \in 1..(n - 1) : to(i) = x
      BY <1>9, <3>3
    <3>. QED
      BY <1>6, <3>1, <3>2, <3>4
  <2>. QED
    BY <1>6, <1>7, <1>11, <2>3, <2>4, <2>5 DEF OneToOne
<1>16. outcome' = "ok" /\ Operation
  BY <1>1 DEF Call
<1>17. ops' \in 0..MaxOps
  BY <1>16, OperationCounts DEF IInv
<1>18. TypeOK'
  BY <1>1, <1>6, <1>7, <1>8, <1>16, <1>17, DiskStays DEF IInv, TypeOK
<1>. QED
  BY <1>1, <1>6, <1>7, <1>12, <1>13, <1>14, <1>15, <1>18, DiskStays DEF IInv

-----------------------------------------------------------------------------
(* tasks_write() *)

LEMMA StoredIsNumber ==
  ASSUME NEW year \in Nat
  PROVE  YearStored(year) \in Nat
<1>1. year - 1904 \in Int /\ 2^7 \in Nat \ {0}
  OBVIOUS
<1>2. (year - 1904) % 2^7 \in Nat
  BY <1>1
<1>. QED
  BY <1>2 DEF YearStored

LEMMA EntriesWritten ==
  ASSUME NEW task \in Task, NEW at \in Int
  PROVE  TodoEntry(task, at) \in InTodo /\ PtodEntry(task, at) \in InPtod
<1>1. YearStored(task.due) \in Nat
  BY StoredIsNumber DEF Task
<1>2. RepeatStored(task.repeat) \in Repeats \cup {None}
  <2>1. CASE task.repeat = None
    BY <2>1 DEF RepeatStored
  <2>2. CASE task.repeat # None
    <3>1. task.repeat \in Repeats
      BY <2>2 DEF Task
    <3>2. YearStored(task.repeat.until) \in Nat
      BY <3>1, StoredIsNumber DEF Repeats
    <3>. QED
      BY <2>2, <3>1, <3>2 DEF RepeatStored, Repeats
  <2>. QED
    BY <2>1, <2>2
<1>3. TodoSize(task) \in Int /\ PtodSize(task) \in Int
  BY SizesAreNumbers
<1>4. /\ task.header \in Strings /\ task.text \in Strings /\ task.priority \in Priorities
      /\ task.alarm \in Alarms \cup {None}
  BY DEF Task
<1>. QED
  BY <1>1, <1>2, <1>3, <1>4 DEF TodoEntry, PtodEntry, InTodo, InPtod

LEMMA EntriesWithType ==
  ASSUME NEW stored, NEW old \in SUBSET stored, NEW qty, NEW new,
         \A i \in DOMAIN new : new[i] \in stored
  PROVE  EntriesWith(old, qty, new) \in SUBSET stored
BY DEF EntriesWith

\* However far a write comes, what it leaves is two files with the records of memory or
\* those they had.
LEMMA FilesAfterType ==
  ASSUME IInv, NEW step \in 0..Steps, Feasible(step)
  PROVE  FilesAfter(step) \in Files /\ IdsDiffer(FilesAfter(step).ptod.list)
<1> DEFINE n == Len(queue)
           x == step \div 2
           y == (step - 1) \div 2
           todoEntries == [i \in 1..x |-> TodoEntry(queue[i], todo[i].offset)]
           ptodEntries == [i \in 1..y |-> PtodEntry(queue[i], ptod[RecordOf(i)].offset)]
           todoFile == [list |-> todo, slots |-> slots.todo,
                        entries |-> EntriesWith(files.todo.entries, Len(todo), todoEntries)]
           ptodFile == [list |-> ptod, slots |-> slots.ptod,
                        entries |-> EntriesWith(files.ptod.entries, Len(ptod), ptodEntries)]
<1>1. /\ queue \in Seq(Task) /\ todo \in Seq(Record) /\ ptod \in Seq(Record)
      /\ slots.todo \in [SlotIds -> Slot] /\ slots.ptod \in [SlotIds -> Slot]
      /\ Len(todo) = n /\ n \in Nat
  BY DEF IInv, TypeOK
<1>2. x \in Int /\ y \in Int /\ step \in Int /\ step <= 2 * n + 1
      /\ 2 * x <= step /\ 2 * y <= step - 1
  <2>1. step \in Int /\ step <= 2 * n + 1
    BY <1>1 DEF Steps
  <2> HIDE DEF n
  <2>. QED
    BY <2>1
<1>3. \A i \in 1..x : todoEntries[i] \in InTodo
  <2> TAKE i \in 1..x
  <2>1. i \in 1..n
    BY <1>1, <1>2
  <2>2. queue[i] \in Task /\ todo[i] \in Record
    BY <1>1, <2>1
  <2>3. todo[i].offset \in Int
    BY <2>2 DEF Record
  <2>. QED
    BY <2>2, <2>3, EntriesWritten
<1>4. \A i \in 1..y : ptodEntries[i] \in InPtod
  <2> TAKE i \in 1..y
  <2>1. i \in 1..n /\ 2 * i + 1 <= step
    BY <1>1, <1>2
  <2>2. i \in DOMAIN queue /\ queue[i] \in Task
    BY <1>1, <2>1
  <2>3. queue[i].link # None
    BY <2>1, <2>2 DEF Feasible
  <2>4. ptod[RecordOf(i)] \in Record
    BY <1>1, <2>2, <2>3, RecordIsThere
  <2>5. ptod[RecordOf(i)].offset \in Int
    BY <2>4 DEF Record
  <2>. QED
    BY <2>2, <2>5, EntriesWritten
<1>5. DOMAIN todoEntries = 1..x /\ DOMAIN ptodEntries = 1..y
  OBVIOUS
<1>6. /\ files.todo.entries \in SUBSET InTodo /\ files.ptod.entries \in SUBSET InPtod
      /\ files.ptod \in File(InPtod)
  BY FilesAreTyped
<1>7. FilesAfter(step) = [todo |-> todoFile,
                          ptod |-> IF step = 0 THEN files.ptod ELSE ptodFile]
  BY DEF FilesAfter
<1> HIDE DEF todoEntries, ptodEntries, x, y
<1>8. /\ EntriesWith(files.todo.entries, Len(todo), todoEntries) \in SUBSET InTodo
      /\ EntriesWith(files.ptod.entries, Len(ptod), ptodEntries) \in SUBSET InPtod
  BY <1>3, <1>4, <1>5, <1>6, EntriesWithType
<1>9. todoFile \in File(InTodo) /\ ptodFile \in File(InPtod)
  BY <1>1, <1>8 DEF File
<1>10. todoFile.list = todo /\ ptodFile.list = ptod
  OBVIOUS
<1>11. IdsDiffer(ptod) /\ IdsDiffer(files.ptod.list)
  BY DEF IInv
<1> HIDE DEF todoFile, ptodFile
<1>12. FilesAfter(step) \in Files
  BY <1>6, <1>7, <1>9 DEF Files
<1>13. FilesAfter(step).ptod.list = IF step = 0 THEN files.ptod.list ELSE ptod
  BY <1>7, <1>10
<1>. QED
  BY <1>11, <1>12, <1>13

LEMMA WriteHolds ==
  ASSUME IInv, Write
  PROVE  IInv'
<1>1. /\ Operation /\ outcome' = "ok" /\ files' = FilesAfter(Steps)
      /\ UNCHANGED <<open, queue, todo, ptod, slots, exact>>
  BY DEF Write, Call, memory
<1>2. written' \in {"sound", "loose"}
  BY DEF Write
<1>3. Steps \in 0..Steps /\ Feasible(Steps)
  <2>1. Len(queue) \in Nat
    BY DEF IInv, TypeOK
  <2>2. Steps \in 0..Steps
    BY <2>1 DEF Steps
  <2>3. Feasible(Steps)
    BY DEF Write, Feasible
  <2>. QED
    BY <2>2, <2>3
<1>4. files' \in Files /\ IdsDiffer(files'.ptod.list)
  BY <1>1, <1>3, FilesAfterType
<1>5. ops' \in 0..MaxOps
  BY <1>1, OperationCounts DEF IInv
<1>6. TypeOK'
  BY <1>1, <1>2, <1>4, <1>5 DEF IInv, TypeOK
<1>. QED
  BY <1>1, <1>4, <1>6 DEF IInv, LinksLead, LinksDiffer, EachTaskHasItsRecord, IdsDiffer

LEMMA CutType ==
  ASSUME IInv, NEW step \in 0..Steps, Cut(step)
  PROVE  files' \in Files /\ IdsDiffer(files'.ptod.list) /\ written' = "torn"
BY FilesAfterType DEF Cut

LEMMA WriteFailsHolds ==
  ASSUME IInv, WriteFails
  PROVE  IInv'
<1>0. Len(queue) \in Nat
  BY DEF IInv, TypeOK
<1>1. PICK step \in 0..(Steps - 1) : Cut(step)
  BY DEF WriteFails
<1>2. step \in 0..Steps
  BY <1>0 DEF Steps
<1>3. files' \in Files /\ IdsDiffer(files'.ptod.list) /\ written' = "torn"
  BY <1>1, <1>2, CutType
<1>4. Operation /\ outcome' = "failed" /\ UNCHANGED <<open, queue, todo, ptod, slots, exact>>
  BY DEF WriteFails, Call, memory
<1>5. ops' \in 0..MaxOps
  BY <1>4, OperationCounts DEF IInv
<1>6. TypeOK'
  BY <1>3, <1>4, <1>5 DEF IInv, TypeOK
<1>. QED
  BY <1>3, <1>4, <1>6 DEF IInv, LinksLead, LinksDiffer, EachTaskHasItsRecord, IdsDiffer

LEMMA WriteDiesHolds ==
  ASSUME IInv, WriteDies
  PROVE  IInv'
<1>0. Len(queue) \in Nat /\ DOMAIN queue = 1..Len(queue)
  BY DEF IInv, TypeOK
<1>1. PICK i \in DOMAIN queue : Cut(2 * i)
  BY DEF WriteDies
<1>2. 2 * i \in 0..Steps
  BY <1>0 DEF Steps
<1>3. files' \in Files /\ IdsDiffer(files'.ptod.list) /\ written' = "torn"
  BY <1>1, <1>2, CutType
<1>4. Operation /\ outcome' = "dead" /\ Forgotten
  BY DEF WriteDies, Dies
<1>5. ops' \in 0..MaxOps
  BY <1>4, OperationCounts DEF IInv
<1>. QED
  BY <1>3, <1>4, <1>5, ForgottenHolds

-----------------------------------------------------------------------------
(* The theorems *)

LEMMA InitHolds == Init => IInv
<1> SUFFICES ASSUME Init PROVE IInv
  OBVIOUS
<1>1. /\ files \in Initials /\ written = "never" /\ open = FALSE /\ queue = <<>>
      /\ todo = <<>> /\ ptod = <<>> /\ slots = NoSlots /\ exact = TRUE /\ outcome = "ok"
      /\ ops = 0
  BY DEF Init
<1>2. files \in Files /\ IdsDiffer(files.ptod.list)
  BY <1>1, InitialsOK
<1>3. TypeOK
  <2>1. queue \in Seq(Task) /\ todo \in Seq(Record) /\ ptod \in Seq(Record)
    BY <1>1
  <2>2. slots \in [{"todo", "ptod"} -> [SlotIds -> Slot]]
    BY <1>1, NoSlotsType
  <2>3. ops \in 0..MaxOps
    BY <1>1, TaskBoundsOK
  <2>4. open \in BOOLEAN /\ exact \in BOOLEAN
    BY <1>1
  <2>. QED
    BY <1>1, <1>2, <2>1, <2>2, <2>3, <2>4 DEF TypeOK
<1>4. DOMAIN queue = {} /\ DOMAIN ptod = {} /\ Len(queue) = 0 /\ Len(todo) = 0
  BY <1>1
<1>5. IdsDiffer(ptod) /\ LinksLead /\ LinksDiffer /\ EachTaskHasItsRecord
  BY <1>4 DEF IdsDiffer, LinksLead, LinksDiffer, EachTaskHasItsRecord, OneToOne
<1>. QED
  BY <1>2, <1>3, <1>4, <1>5 DEF IInv

LEMMA StutterHolds ==
  ASSUME IInv, UNCHANGED vars
  PROVE  IInv'
<1>1. UNCHANGED <<files, written, open, queue, todo, ptod, slots, exact, outcome, ops>>
  BY DEF vars
<1>. QED
  BY <1>1 DEF IInv, TypeOK, LinksLead, LinksDiffer, EachTaskHasItsRecord, IdsDiffer

\* Every step keeps the links.
LEMMA NextHolds ==
  ASSUME IInv, [Next]_vars
  PROVE  IInv'
<1>1. CASE Open
  BY <1>1, OpenHolds
<1>2. CASE OpenFails
  BY <1>2, OpenFailsHolds
<1>3. CASE Close
  BY <1>3, CloseHolds
<1>4. ASSUME NEW category \in Names \cup {None}, NEW header \in NewHeaders,
             NEW text \in NewTexts, NEW priority \in Priorities,
             TaskAdd(header, text, category, priority)
      PROVE  IInv'
  BY <1>4, TaskAddHolds
<1>5. ASSUME NEW category \in Names \cup {None}, TaskAddFails(category)
      PROVE  IInv'
  BY <1>5, TaskAddFailsHolds
<1>6. ASSUME NEW k \in DOMAIN queue, NEW year \in NewYears \cup {0}, TaskSetDue(k, year)
      PROVE  IInv'
  BY <1>6, TaskSetDueHolds
<1>7. ASSUME NEW k \in DOMAIN queue, NEW alarm \in Alarms \cup {None},
             TaskSetAlarm(k, alarm)
      PROVE  IInv'
  BY <1>7, TaskSetAlarmHolds
<1>8. ASSUME NEW k \in DOMAIN queue, NEW repeat \in NewRepeats \cup {None},
             TaskSetRepeat(k, repeat)
      PROVE  IInv'
  BY <1>8, TaskSetRepeatHolds
<1>9. ASSUME NEW k \in DOMAIN queue, TaskSetDies(k) \/ TaskDeleteDies(k)
      PROVE  IInv'
  BY <1>9, TaskSetDiesHolds
<1>10. ASSUME NEW k \in DOMAIN queue, TaskDelete(k)
       PROVE  IInv'
  BY <1>10, TaskDeleteHolds
<1>11. CASE TaskEditFails
  BY <1>11, TaskEditFailsHolds
<1>12. CASE Write
  BY <1>12, WriteHolds
<1>13. CASE WriteFails
  BY <1>13, WriteFailsHolds
<1>14. CASE WriteDies
  BY <1>14, WriteDiesHolds
<1>15. CASE UNCHANGED vars
  BY <1>15, StutterHolds
<1>. QED
  BY <1>1, <1>2, <1>3, <1>4, <1>5, <1>6, <1>7, <1>8, <1>9, <1>10, <1>11, <1>12, <1>13,
     <1>14, <1>15 DEF Next

\* Whatever is done to the tasks, a record stays with the task it was made or read for.
THEOREM InvariantHolds == Spec => []IInv
<1>1. Init => IInv
  BY InitHolds
<1>2. IInv /\ [Next]_vars => IInv'
  BY NextHolds
<1>. QED
  BY <1>1, <1>2, PTL DEF Spec

\* Every variable has its type, for any number of operations.
THEOREM TypeCorrect == Spec => []TypeOK
<1>1. IInv => TypeOK
  BY DEF IInv
<1>. QED
  BY <1>1, InvariantHolds, PTL

\* Files whose headers tell the tasks apart are followed without a task that loses its
\* record or a record that loses its task.
THEOREM EachTaskKeepsItsRecord == Spec => []EachTaskHasItsRecord
<1>1. IInv => EachTaskHasItsRecord
  BY DEF IInv
<1>. QED
  BY <1>1, InvariantHolds, PTL
=============================================================================
