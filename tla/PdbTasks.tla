------------------------------ MODULE PdbTasks ------------------------------
(***************************************************************************)
(* The tasks of a handheld: src/pdb/tasks.c with the functions of          *)
(* src/pdb/pdb.c it calls.  A task lives in two files: ToDoDB has its      *)
(* header, note and category, TasksDB-PTod has all of it and is what the   *)
(* due date, the alarm and the repetition are read from.  The files are    *)
(* joined by the header, which need not be unique.                         *)
(*                                                                         *)
(* What a file contains is the set of its entries, each the data of a task *)
(* as it was stored at an address.  Writing an entry destroys those it     *)
(* overlaps, so that a wrong offset shows as an entry that is not there.   *)
(***************************************************************************)
EXTENDS PdbFile, SequencesExt

CONSTANTS
  Ids,         \* record ids
  Strings,     \* headers and notes
  Length,      \* strlen() of each string
  NoText,      \* the note of a task without one
  NewHeaders,  \* those that are asked for
  NewTexts,
  Priorities,
  PRIORITY_1,  \* what calloc() leaves in a new task
  NewYears,    \* due years; month and day go with the year
  Alarms,
  Ranges,      \* of a repetition
  NewRepeats,  \* a range and the year it ends in, 0 if never
  None,        \* NULL
  Default,     \* PDB_DEFAULT_CATEGORY
  Gap,         \* what the handheld keeps between application info and tasks
  Initials,    \* pairs of files, as the handheld may have them
  Faults,      \* {"write"}, where writing may fail
  MaxOps       \* bound: operations

Repeats == [range : Ranges, until : Nat]
Task == [header : Strings, text : Strings, priority : Priorities,
             due : Nat, alarm : Alarms \cup {None}, repeat : Repeats \cup {None},
             asked : Names \cup {NoName}, link : Ids \cup {None}, fresh : BOOLEAN]
Record == [id : Ids, offset : Int, slot : SlotIds]

\* What is stored of a task in either file, and a file of such entries.
InTodo == [at : Int, size : Int, header : Strings, text : Strings,
           priority : Priorities, due : Nat]
InPtod == [at : Int, size : Int, header : Strings, text : Strings,
           priority : Priorities, due : Nat,
           alarm : Alarms \cup {None}, repeat : Repeats \cup {None}]
File(stored) == [list : Seq(Record), slots : [SlotIds -> Slot], entries : SUBSET stored]
Files == [todo : File(InTodo), ptod : File(InPtod)]

\* No two records of a file have an id in common.
IdsDiffer(list) == \A i, j \in DOMAIN list : list[i].id = list[j].id => i = j

ASSUME TaskConstantsOK ==
  /\ NoText \in Strings
  /\ NewHeaders \cup NewTexts \subseteq Strings
  /\ Length \in [Strings -> Nat]
  /\ PRIORITY_1 \in Priorities
  /\ NewYears \subseteq Nat
  /\ NewRepeats \subseteq Repeats
  /\ None \notin Alarms \cup Repeats \cup Ids \cup Names
  /\ Default \in Names
  /\ Gap \in Nat
ASSUME InitialsOK ==
  /\ Initials \subseteq Files
  /\ \A pair \in Initials : IdsDiffer(pair.ptod.list)
ASSUME TaskBoundsOK == MaxOps \in Nat /\ Faults \subseteq {"write"}

VARIABLES
  files,    \* the two files: list of records, categories, entries
  written,  \* "never", or how the last write went
  saved,    \* what the last one that succeeded was to save
  open,     \* the files are in memory
  queue,    \* the tasks
  todo,     \* the records of ToDoDB; task by task, as no operation parts them
  ptod,     \* the records of TasksDB-PTod; a task has a link to one of them
  slots,    \* categories of both
  exact,    \* nothing has happened that the offsets or the links do not follow
  outcome,  \* of the last call
  ops       \* operations so far

disk == <<files, written, saved>>
memory == <<queue, todo, ptod, slots>>
vars == <<files, written, saved, open, queue, todo, ptod, slots, exact,
          outcome, ops>>

-----------------------------------------------------------------------------
(* Layout *)

DueSize(task) == IF task.due = 0 THEN 0 ELSE 2
AlarmSize(task) == IF task.alarm = None THEN 0 ELSE 4

\* Seeded fault: the due date is forgotten that repeats before the repetition.
RoomForRepeatOnce(task) == IF task.repeat = None THEN 0 ELSE 8

\* The repetition with the due date before it: what all operations count ...
RoomForRepeat(task) == IF task.repeat = None THEN 0 ELSE 10
\* ... and what is written of it.
RepeatSize(task) == IF task.repeat = None THEN 0 ELSE DueSize(task) + 2 + 2 + 1 + 3
StringsSize(task) == Length[task.header] + 1 + Length[task.text] + 1

TodoSize(task) == 2 + 1 + StringsSize(task)
PtodSize(task) ==
  1 + 4 + 1 + DueSize(task) + AlarmSize(task) + RepeatSize(task) + StringsSize(task)
PtodRoom(task) ==
  1 + 4 + 1 + DueSize(task) + AlarmSize(task) + RoomForRepeat(task) + StringsSize(task)

AppInfoEnd(qty) == AppInfoAt(qty) + AppInfoSize
DataAt(qty) == AppInfoEnd(qty) + Gap

\* Seeded fault: 1904 is forgotten when the date is read.
YearUncounted(year) == IF year = 0 THEN 0 ELSE (year - 1904) % 2^7

\* A year has seven bits, counted from 1904.
YearStored(year) == IF year = 0 THEN 0 ELSE 1904 + ((year - 1904) % 2^7)
Fits(year) == YearStored(year) = year
RepeatStored(repeat) ==
  IF repeat = None THEN None ELSE [repeat EXCEPT !.until = YearStored(@)]

\* What _tasks_write_task() writes of a task, to either file.
TodoEntry(task, at) ==
  [at |-> at, size |-> TodoSize(task), header |-> task.header, text |-> task.text,
   priority |-> task.priority, due |-> YearStored(task.due)]
PtodEntry(task, at) ==
  [at |-> at, size |-> PtodSize(task), header |-> task.header, text |-> task.text,
   priority |-> task.priority, due |-> YearStored(task.due), alarm |-> task.alarm,
   repeat |-> RepeatStored(task.repeat)]

Apart(a, b) == a.at + a.size <= b.at \/ b.at + b.size <= a.at

\* What a file holds after a header and a list of records of some length, and then
\* entries one after another, have been written to it.
EntriesWith(old, qty, new) ==
  {e \in old : /\ e.at >= AppInfoEnd(qty)
               /\ \A i \in DOMAIN new : Apart(e, new[i])}
  \cup {new[i] : i \in {j \in DOMAIN new :
                          \A later \in j + 1..Len(new) : Apart(new[j], new[later])}}

\* The entry at a record, if it is whole.
EntriesAt(file, record) == {e \in file.entries : e.at = record.offset}
Entry(file, record) == CHOOSE e \in EntriesAt(file, record) : TRUE
Whole(file) ==
  \A i \in DOMAIN file.list :
    /\ file.list[i].offset >= AppInfoEnd(Len(file.list))
    /\ EntriesAt(file, file.list[i]) # {}

-----------------------------------------------------------------------------
(* tasks_read() *)

\* __parse_taskdb_data() skips the due date before a repetition, also where none was
\* written, and then finds no type of repetition it knows.
Parses(entry) == entry.repeat = None \/ entry.due # 0

Header(file, i) == Entry(file, file.list[i]).header
Headers(file) == {Header(file, i) : i \in DOMAIN file.list}

\* tasks_task_get(): of several tasks with a header it finds one, always the same.
Picks ==
  {pick \in [Headers(files.todo) -> DOMAIN files.todo.list] :
     \A header \in Headers(files.todo) : Header(files.todo, pick[header]) = header}

\* _tasks_append_task() succeeds for a record of TasksDB-PTod.
Appends(j) ==
  /\ Parses(Entry(files.ptod, files.ptod.list[j]))
  /\ Header(files.ptod, j) \in Headers(files.todo)

\* Several records may go to one task; each overwrites what it has.
RecordsOf(pick, i) ==
  {j \in DOMAIN files.ptod.list : /\ Header(files.ptod, j) \in DOMAIN pick
                                  /\ pick[Header(files.ptod, j)] = i}
Latest(places, values, none) == IF places = {} THEN none ELSE values[Max(places)]

TaskRead(pick, i) ==
  LET list  == files.ptod.list
      entry == [j \in DOMAIN list |-> Entry(files.ptod, list[j])]
      mine  == RecordsOf(pick, i)
  IN [header |-> Header(files.todo, i),
      text   |-> Entry(files.todo, files.todo.list[i]).text,
      asked  |-> CategoriesRead(files.todo.slots)[files.todo.list[i].slot].name,
      priority |-> Latest(mine, [j \in mine |-> entry[j].priority], PRIORITY_1),
      due      |-> Latest({j \in mine : entry[j].due # 0},
                          [j \in mine |-> entry[j].due], 0),
      alarm    |-> Latest({j \in mine : entry[j].alarm # None},
                          [j \in mine |-> entry[j].alarm], None),
      repeat   |-> Latest({j \in mine : entry[j].repeat # None},
                          [j \in mine |-> entry[j].repeat], None),
      link     |-> Latest(mine, [j \in mine |-> list[j].id], None),
      fresh    |-> FALSE]
QueueRead(pick) == [i \in DOMAIN files.todo.list |-> TaskRead(pick, i)]

\* Each task has a record in TasksDB-PTod of its own, and no record is left over.
OneToOne(tasks, list) ==
  /\ \A i \in DOMAIN tasks : \E j \in DOMAIN list : tasks[i].link = list[j].id
  /\ \A i, j \in DOMAIN tasks : tasks[i].link = tasks[j].link => i = j
  /\ \A j \in DOMAIN list : \E i \in DOMAIN tasks : tasks[i].link = list[j].id

\* What a user of the functions sees of the tasks.
View(tasks, list, cats) ==
  [i \in DOMAIN tasks |->
    [header |-> tasks[i].header, text |-> tasks[i].text, id |-> list[i].id,
     priority |-> tasks[i].priority, due |-> tasks[i].due, alarm |-> tasks[i].alarm,
     repeat |-> tasks[i].repeat, link |-> tasks[i].link,
     category |-> cats.todo[list[i].slot].name]]
SlotsRead == [todo |-> CategoriesRead(files.todo.slots),
              ptod |-> CategoriesRead(files.ptod.slots)]

-----------------------------------------------------------------------------
(* Files as the handheld writes them *)

\* Records that follow one another, with the room each needs, behind a list of just
\* the right length.
Stacked(list, room) ==
  \A i \in DOMAIN list :
    list[i].offset = IF i = 1 THEN DataAt(Len(list)) ELSE list[i - 1].offset + room[i - 1]
SizesIn(file) == [i \in DOMAIN file.list |-> Entry(file, file.list[i]).size]

\* Two records, one in either file, that alone have their header.
Joined(pair, i, j) ==
  /\ Header(pair.todo, i) = Header(pair.ptod, j)
  /\ \A k \in DOMAIN pair.todo.list : Header(pair.todo, k) = Header(pair.todo, i) => k = i
  /\ \A k \in DOMAIN pair.ptod.list : Header(pair.ptod, k) = Header(pair.ptod, j) => k = j

\* Both files are stacked, but where one has repetitions that do not parse, and where
\* they have the same task its note is as long.
LaidOut(pair) ==
  /\ Stacked(pair.todo.list, SizesIn(pair.todo))
  /\ (\A j \in DOMAIN pair.ptod.list : Parses(Entry(pair.ptod, pair.ptod.list[j]))) =>
       Stacked(pair.ptod.list, SizesIn(pair.ptod))
  /\ \A i \in DOMAIN pair.todo.list, j \in DOMAIN pair.ptod.list :
       Joined(pair, i, j) =>
         Length[Entry(pair.todo, pair.todo.list[i]).text]
           = Length[Entry(pair.ptod, pair.ptod.list[j]).text]

\* An entry takes what is in it.
Sized(pair) ==
  /\ \A entry \in pair.todo.entries : entry.size = TodoSize(entry)
  /\ \A entry \in pair.ptod.entries : entry.size = PtodSize(entry)

ASSUME InitialsAreLaidOut == \A pair \in Initials : LaidOut(pair) /\ Sized(pair)

\* What is left of the categories when they are read is sound, and where both files have
\* the same task it is in one category, at the same place in both.
CategoriesAgree(pair) ==
  /\ SoundCategories(CategoriesRead(pair.todo.slots))
  /\ SoundCategories(CategoriesRead(pair.ptod.slots))
FiledInOne(pair, i, j) ==
  LET slot == pair.todo.list[i].slot
      name == CategoriesRead(pair.todo.slots)[slot].name
  IN /\ pair.ptod.list[j].slot = slot
     /\ name \in Names
     /\ CategoriesRead(pair.ptod.slots)[slot].name = name
WellFiled(pair) ==
  \A i \in DOMAIN pair.todo.list, j \in DOMAIN pair.ptod.list :
    Joined(pair, i, j) => FiledInOne(pair, i, j)
FiledInitially == \A pair \in Initials : CategoriesAgree(pair) /\ WellFiled(pair)

-----------------------------------------------------------------------------
NoSlots == [db \in {"todo", "ptod"} |-> [i \in SlotIds |-> EmptySlot]]

Init ==
  /\ files \in Initials
  /\ written = "never"
  /\ saved = <<>>
  /\ open = FALSE
  /\ queue = <<>>
  /\ todo = <<>>
  /\ ptod = <<>>
  /\ slots = NoSlots
  /\ exact = TRUE
  /\ outcome = "ok"
  /\ ops = 0

Operation ==
  /\ ops < MaxOps
  /\ ops' = ops + 1

Call(result) ==
  /\ open
  /\ Operation
  /\ outcome' = result

Forgotten ==
  /\ open' = FALSE
  /\ queue' = <<>>
  /\ todo' = <<>>
  /\ ptod' = <<>>
  /\ slots' = NoSlots
  /\ exact' = TRUE

\* The process dies in a call; what is in memory is lost.
Dies ==
  /\ open
  /\ Operation
  /\ outcome' = "dead"
  /\ Forgotten

\* tasks_open() and tasks_read().  Files in which an entry is not whole are not
\* followed any further.
Readable == Whole(files.todo) /\ Whole(files.ptod)

Open ==
  /\ ~open
  /\ Readable
  /\ \A j \in DOMAIN files.ptod.list : Appends(j)
  /\ open' = TRUE
  /\ \E pick \in Picks : queue' = QueueRead(pick)
  /\ todo' = files.todo.list
  /\ ptod' = files.ptod.list
  /\ slots' = SlotsRead
  /\ exact' = (OneToOne(queue', ptod') /\ written \in {"never", "sound"})
  /\ outcome' = "ok"
  /\ UNCHANGED <<disk, ops>>

\* A record of TasksDB-PTod without a task, or one that cannot be parsed.  tasks_free()
\* then takes every task to have its record and dies of the first that has none yet.
OpenFails ==
  /\ ~open
  /\ Readable
  /\ \E j \in DOMAIN files.ptod.list, pick \in Picks :
       /\ ~Appends(j)
       /\ \A before \in 1..(j - 1) : Appends(before)
       /\ outcome' = IF \A i \in DOMAIN files.todo.list :
                          \E before \in 1..(j - 1) : pick[Header(files.ptod, before)] = i
                     THEN "failed" ELSE "dead"
  /\ UNCHANGED <<disk, open, memory, exact, ops>>

\* tasks_close() and tasks_free(), which dies of a task without a record.
Close ==
  /\ open
  /\ Forgotten
  /\ outcome' = IF \E i \in DOMAIN queue : queue[i].link = None THEN "dead" ELSE "ok"
  /\ UNCHANGED <<disk, ops>>

-----------------------------------------------------------------------------
(* Moving records *)

\* Seeded fault: a task is taken to be at the same place in both files.
SamePlace(k) == k

\* Where the record of task k is in TasksDB-PTod.
RecordOf(k) == CHOOSE j \in DOMAIN ptod : ptod[j].id = queue[k].link

\* Seeded fault: only the next record is moved.
MovedNext(list, k, by) ==
  [j \in DOMAIN list |->
     IF j = k + 1 THEN [list[j] EXCEPT !.offset = @ + by] ELSE list[j]]

MovedBehind(list, k, by) ==
  [j \in DOMAIN list |->
     IF j > k THEN [list[j] EXCEPT !.offset = @ + by] ELSE list[j]]

\* A record is gone, and with it its item of the list and its entry.
Without(list, k, size) ==
  MovedBehind(RemoveAt(MovedBehind(list, k, -size), k), 0, -ItemSize)

\* A record comes last, behind the entry of the one that was.
With(list, size, id, slot) ==
  Append(MovedBehind(list, 0, ItemSize),
         [id |-> id, offset |-> Last(list).offset + size + ItemSize, slot |-> slot])

-----------------------------------------------------------------------------
(* tasks_task_add() *)

\* The category in one of the files, found or added.
CategoryIn(cats, name) ==
  CASE IdsOf(cats, name) # {} ->
         {[id |-> id, slots |-> cats] : id \in IdsOf(cats, name)}
    [] IdsOf(cats, name) = {} /\ Free(cats) # {} ->
         {[id |-> FirstFree(cats), slots |-> CategoryAdd(cats, name)]}
    [] OTHER -> {}
CategoryAsked(name) == IF name = None THEN Default ELSE name

\* Seeded fault: the two files may have the category at different places.
SameIdOrNot(a, b) == TRUE

SameId(a, b) == a.id = b.id

\* The new task goes behind the last one, which has to be the last in both files.
LastIsLast ==
  /\ queue # <<>>
  /\ ptod # <<>>
  /\ Last(queue).link = Last(ptod).id

\* Seeded fault: an id is new that only the records of ToDoDB do not have.
FreshIdsOfTodo == Ids \ {todo[i].id : i \in DOMAIN todo}

FreshIds == Ids \ ({todo[i].id : i \in DOMAIN todo} \cup {ptod[i].id : i \in DOMAIN ptod})

TaskAdd(header, text, category, priority) ==
  /\ Call("ok")
  /\ LastIsLast
  /\ \E inTodo \in CategoryIn(slots.todo, CategoryAsked(category)),
        inPtod \in CategoryIn(slots.ptod, CategoryAsked(category)), id \in FreshIds :
       /\ SameId(inTodo, inPtod)
       /\ slots' = [todo |-> inTodo.slots, ptod |-> inPtod.slots]
       /\ todo' = With(todo, TodoSize(Last(queue)), id, inTodo.id % Slots)
       /\ ptod' = With(ptod, PtodRoom(Last(queue)), id, inPtod.id % Slots)
       /\ queue' = Append(queue,
            [header |-> header, text |-> text, priority |-> priority, due |-> 0,
             alarm |-> None, repeat |-> None,
             asked |-> Stored[CategoryAsked(category)], link |-> id, fresh |-> TRUE])
  /\ UNCHANGED <<disk, open, exact>>

\* Categories that were added until then stay: in one file, or in both.
TaskAddFails(category) ==
  LET inTodo == CategoryIn(slots.todo, CategoryAsked(category))
      inPtod == CategoryIn(slots.ptod, CategoryAsked(category))
  IN
  /\ Call("failed")
  /\ \/ inTodo = {} /\ UNCHANGED slots
     \/ /\ inPtod = {}
        /\ \E t \in inTodo : slots' = [slots EXCEPT !.todo = t.slots]
     \/ \E t \in inTodo, p \in inPtod :
          /\ ~(SameId(t, p) /\ LastIsLast)
          /\ slots' = [todo |-> t.slots, ptod |-> p.slots]
  /\ UNCHANGED <<disk, open, queue, todo, ptod, exact>>

-----------------------------------------------------------------------------
(* tasks_task_set_due(), tasks_task_set_alarm(), tasks_task_set_repeat() *)

\* The records behind the one of task k move in TasksDB-PTod; without one, a move is
\* the end of the process.
Resize(k, by) ==
  /\ by = 0 \/ queue[k].link # None
  /\ ptod' = IF by = 0 THEN ptod ELSE MovedBehind(ptod, RecordOf(k), by)
ResizeDies(k, by) == by # 0 /\ queue[k].link = None /\ Dies /\ UNCHANGED disk

\* The date itself is counted only where it repeats before a repetition.
DueMoves(task, year) ==
  CASE task.repeat = None             -> 0
    [] year = 0 /\ task.due # 0       -> -2
    [] year # 0 /\ task.due = 0       -> 2
    [] OTHER                          -> 0
DueGrowth(task, year) == PtodRoom([task EXCEPT !.due = year]) - PtodRoom(task)

TaskSetDue(k, year) ==
  /\ Call("ok")
  /\ Resize(k, DueMoves(queue[k], year))
  /\ queue' = [queue EXCEPT ![k].due = year]
  /\ exact' = (exact /\ \/ DueMoves(queue[k], year) = DueGrowth(queue[k], year)
                        \/ queue[k].link = Last(ptod).id)
  /\ UNCHANGED <<disk, open, todo, slots>>

AlarmMoves(task, alarm) ==
  CASE task.alarm = None /\ alarm # None -> 4
    [] task.alarm # None /\ alarm = None -> -4
    [] OTHER                             -> 0

\* The test for a due date asks for a day without month and year and never holds.
TaskSetAlarm(k, alarm) ==
  /\ Call("ok")
  /\ Resize(k, AlarmMoves(queue[k], alarm))
  /\ queue' = [queue EXCEPT ![k].alarm = alarm]
  /\ UNCHANGED <<disk, open, todo, slots, exact>>

RepeatMoves(task, repeat) ==
  CASE task.repeat = None /\ repeat # None -> 10
    [] task.repeat # None /\ repeat = None -> -10
    [] OTHER                               -> 0

TaskSetRepeat(k, repeat) ==
  /\ Call("ok")
  /\ Resize(k, RepeatMoves(queue[k], repeat))
  /\ queue' = [queue EXCEPT ![k].repeat = repeat]
  /\ UNCHANGED <<disk, open, todo, slots, exact>>

\* A task without a record has no repetition, and a due date moves nothing.
TaskSetDies(k) ==
  \/ \E alarm \in Alarms \cup {None} : ResizeDies(k, AlarmMoves(queue[k], alarm))
  \/ \E repeat \in NewRepeats \cup {None} : ResizeDies(k, RepeatMoves(queue[k], repeat))

-----------------------------------------------------------------------------
\* tasks_task_edit(): "if(task == NULL);" has no effect, and what follows it returns.
TaskEditFails ==
  /\ Call("failed")
  /\ queue # <<>>
  /\ UNCHANGED <<disk, open, memory, exact>>

\* tasks_task_delete().
TaskDelete(k) ==
  /\ Call("ok")
  /\ queue[k].link # None
  /\ queue' = RemoveAt(queue, k)
  /\ todo' = Without(todo, k, TodoSize(queue[k]))
  /\ ptod' = Without(ptod, RecordOf(k), PtodRoom(queue[k]))
  /\ UNCHANGED <<disk, open, slots, exact>>

\* No record to follow; or the task came from tasks_task_add() and both its records
\* have it as their data, which pdb_record_delete() frees.
TaskDeleteDies(k) ==
  /\ queue[k].link = None \/ queue[k].fresh
  /\ Dies
  /\ UNCHANGED disk

-----------------------------------------------------------------------------
(* tasks_write() *)

\* Headers and lists of both files, then task by task its two entries.  A step is one
\* of these; step 0 is the first header.
Steps == 2 * Len(queue) + 1
FilesAfter(step) ==
  LET todoEntries == [i \in 1..(step \div 2) |-> TodoEntry(queue[i], todo[i].offset)]
      ptodEntries == [i \in 1..((step - 1) \div 2) |->
                        PtodEntry(queue[i], ptod[RecordOf(i)].offset)]
  IN [todo |-> [list |-> todo, slots |-> slots.todo,
                entries |-> EntriesWith(files.todo.entries, Len(todo), todoEntries)],
      ptod |-> IF step = 0 THEN files.ptod
               ELSE [list |-> ptod, slots |-> slots.ptod,
                     entries |-> EntriesWith(files.ptod.entries, Len(ptod), ptodEntries)]]

Write ==
  /\ Call("ok")
  /\ \A i \in DOMAIN queue : queue[i].link # None
  /\ files' = FilesAfter(Steps)
  /\ written' = IF exact THEN "sound" ELSE "loose"
  /\ saved' = View(queue, todo, slots)
  /\ UNCHANGED <<open, memory, exact>>

\* The steps before the entry of a task without a record can be done.
Feasible(step) ==
  \A i \in DOMAIN queue : 2 * i + 1 <= step => queue[i].link # None
Cut(step) ==
  /\ Feasible(step)
  /\ files' = FilesAfter(step)
  /\ written' = "torn"
  /\ UNCHANGED saved

WriteFails ==
  /\ "write" \in Faults
  /\ Call("failed")
  /\ \E step \in 0..(Steps - 1) : Cut(step)
  /\ UNCHANGED <<open, memory, exact>>

WriteDies ==
  /\ \E i \in DOMAIN queue : queue[i].link = None /\ Cut(2 * i)
  /\ Dies

Next ==
  \/ Open
  \/ OpenFails
  \/ Close
  \/ \E category \in Names \cup {None} :
       \/ \E header \in NewHeaders, text \in NewTexts, priority \in Priorities :
            TaskAdd(header, text, category, priority)
       \/ TaskAddFails(category)
  \/ \E k \in DOMAIN queue :
       \/ \E year \in NewYears \cup {0} : TaskSetDue(k, year)
       \/ \E alarm \in Alarms \cup {None} : TaskSetAlarm(k, alarm)
       \/ \E repeat \in NewRepeats \cup {None} : TaskSetRepeat(k, repeat)
       \/ TaskSetDies(k)
       \/ TaskDelete(k)
       \/ TaskDeleteDies(k)
  \/ TaskEditFails
  \/ Write
  \/ WriteFails
  \/ WriteDies

Spec == Init /\ [][Next]_vars
-----------------------------------------------------------------------------
(* Properties *)

\* Every variable has its type.
TypeOK ==
  /\ files \in Files
  /\ written \in {"never", "torn", "loose", "sound"}
  /\ open \in BOOLEAN
  /\ queue \in Seq(Task)
  /\ todo \in Seq(Record)
  /\ ptod \in Seq(Record)
  /\ slots \in [{"todo", "ptod"} -> [SlotIds -> Slot]]
  /\ exact \in BOOLEAN
  /\ outcome \in {"ok", "failed", "dead"}
  /\ ops \in 0..MaxOps

\* While the headers of a pair of files tell its tasks apart, each task has its own
\* record in TasksDB-PTod and each record its task, whatever is added, changed and
\* deleted, also where a header comes to be there twice.
EachTaskHasItsRecord ==
  exact => Len(todo) = Len(queue) /\ OneToOne(queue, ptod)

\* The inductive invariant behind it: whatever the headers, a task that has a record has
\* one that is there and is no other's.
LinksLead ==
  \A i \in DOMAIN queue : queue[i].link # None =>
    \E j \in DOMAIN ptod : ptod[j].id = queue[i].link
LinksDiffer ==
  \A i, j \in DOMAIN queue :
    queue[i].link # None /\ queue[i].link = queue[j].link => i = j
IInv ==
  /\ TypeOK
  /\ Len(todo) = Len(queue)
  /\ IdsDiffer(ptod)
  /\ IdsDiffer(files.ptod.list)
  /\ LinksLead
  /\ LinksDiffer
  /\ EachTaskHasItsRecord

\* With the size each task has, the records of either file follow one another, behind
\* a list of just the right length; but for a due date that is set or cleared where
\* the offsets do not follow it.
PackedTasks ==
  exact /\ open =>
    /\ \A i \in DOMAIN todo :
         todo[i].offset = IF i = 1 THEN DataAt(Len(todo))
                          ELSE todo[i - 1].offset + TodoSize(queue[i - 1])
    /\ \A i \in DOMAIN queue :
         LET j == RecordOf(i) IN
           IF j = Len(ptod) THEN TRUE
           ELSE ptod[j + 1].offset = ptod[j].offset + PtodRoom(queue[i])
    /\ ptod # <<>> => ptod[1].offset = DataAt(Len(ptod))

\* The files hold what was to be saved.
TodoHolds ==
  /\ Whole(files.todo)
  /\ DOMAIN files.todo.list = DOMAIN saved
  /\ \A i \in DOMAIN saved :
       /\ files.todo.list[i].id = saved[i].id
       /\ files.todo.slots[files.todo.list[i].slot].name = saved[i].category
       /\ Entry(files.todo, files.todo.list[i])
            = TodoEntry(saved[i], files.todo.list[i].offset)
PtodHolds ==
  /\ Whole(files.ptod)
  /\ Len(files.ptod.list) = Len(saved)
  /\ \A i \in DOMAIN saved : \E j \in DOMAIN files.ptod.list :
       /\ files.ptod.list[j].id = saved[i].link
       /\ Entry(files.ptod, files.ptod.list[j])
            = PtodEntry(saved[i], files.ptod.list[j].offset)

\* What can be saved so that it reads back: headers that differ, a due date with each
\* repetition, years of seven bits.
HeadersDiffer == \A i, j \in DOMAIN saved : saved[i].header = saved[j].header => i = j
RepeatsAreDue == \A i \in DOMAIN saved : Parses(saved[i])
YearsFit ==
  \A i \in DOMAIN saved :
    /\ Fits(saved[i].due)
    /\ saved[i].repeat # None => Fits(saved[i].repeat.until)

\* After a write that has succeeded both files hold every task, with the same exception,
\* and reading them gives the tasks back, each with the record it had.
SavedIsReadBack ==
  written = "sound" =>
    /\ TodoHolds
    /\ PtodHolds
    /\ HeadersDiffer /\ RepeatsAreDue /\ YearsFit =>
         /\ \A j \in DOMAIN files.ptod.list : Appends(j)
         /\ \A pick \in Picks :
              View(QueueRead(pick), files.todo.list, SlotsRead) = saved

\* tasks.h:186-187: "Function will write data from Tasks structure to file descriptors
\* from TasksFD structure."  A write that succeeds leaves files with these tasks.
StructureIsWritten == written \in {"loose", "sound"} => TodoHolds /\ PtodHolds

\* Both records of a task are in the slot of the category it was put in.
FiledAlike ==
  exact /\ open =>
    \A i \in DOMAIN queue :
      LET record == ptod[RecordOf(i)] IN
        /\ record.slot = todo[i].slot
        /\ slots.todo[todo[i].slot].name = queue[i].asked
        /\ slots.ptod[record.slot].name = queue[i].asked

\* A process whose files tell the tasks apart dies only of a task that is deleted before
\* it was written and read again; and what was saved kills the next one that reads it
\* only if two headers are equal or a repetition has no due date.
GoodFilesDoNotKill ==
  [][outcome' = "dead" =>
       /\ open /\ exact => \E k \in DOMAIN queue : queue[k].fresh
       /\ ~open /\ written = "sound" => ~(HeadersDiffer /\ RepeatsAreDue)]_vars
=============================================================================
