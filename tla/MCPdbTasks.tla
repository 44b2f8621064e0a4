----------------------------- MODULE MCPdbTasks -----------------------------
(* Values of the constants of PdbTasks for TLC. *)
EXTENDS PdbTasks

CONSTANTS none, buy, call, note, alarm, days, Unfiled, Long, Short

MCStrings == {none, buy, call, note}
MCLength == [s \in MCStrings |-> CASE s = none -> 0 [] s = note -> 2 [] OTHER -> 1]
MCNames == {Unfiled, Long, Short}
MCStored == [name \in MCNames |-> IF name = Long THEN Short ELSE name]
MCRepeats == {[range |-> days, until |-> 0]}

Plain(header, id) ==
  [id |-> id, header |-> header, text |-> none, priority |-> 1, due |-> 0,
   alarm |-> None, repeat |-> None]
Scheduled(header, id) ==
  [Plain(header, id) EXCEPT !.text = note, !.due = 2024, !.alarm = alarm,
                            !.repeat = [range |-> days, until |-> 2025]]

\* The same tasks, in another order in the second file.
Matched == [todo |-> <<Scheduled(buy, 1), Plain(call, 2)>>,
            ptod |-> <<Plain(call, 1), Scheduled(buy, 2)>>]
InOrder == [todo |-> <<Scheduled(buy, 1), Plain(call, 2)>>,
            ptod |-> <<Scheduled(buy, 1), Plain(call, 2)>>]
\* Two tasks without dates.
Undated == [todo |-> <<Plain(buy, 1), Plain(call, 2)>>,
            ptod |-> <<Plain(buy, 1), Plain(call, 2)>>]
\* The owner has two tasks with one header.
Twice   == [todo |-> <<Plain(buy, 1), Scheduled(buy, 2)>>,
            ptod |-> <<Plain(buy, 1), Scheduled(buy, 2)>>]
\* A task is missing from one of the files.
Missing == [todo |-> <<Plain(buy, 1), Plain(call, 2)>>, ptod |-> <<Plain(buy, 1)>>]
Extra   == [todo |-> <<Plain(buy, 1)>>, ptod |-> <<Plain(buy, 1), Plain(call, 2)>>]

\* In one file, what a deleted category left is in the last slot; in the other there
\* is a category of that name.
MCSlots(last, middle) ==
  [i \in SlotIds |-> CASE i = 0 -> [name |-> Unfiled, id |-> 0]
                      [] i = 1 -> [name |-> middle, id |-> IF middle = NoName THEN 0 ELSE 1]
                      [] i = 2 -> [name |-> last, id |-> 0]]
MCSlots0 == [todo |-> MCSlots(Short, NoName), ptod |-> MCSlots(NoName, Short)]

\* Files as the handheld writes them: entry after entry, in its own order.
InitialFile(db, tasks) ==
  LET size(task) == IF db = "todo" THEN TodoSize(task) ELSE PtodSize(task)
      entry(task, addr) == IF db = "todo" THEN TodoEntry(task, addr) ELSE PtodEntry(task, addr)
      at[i \in DOMAIN tasks] ==
        IF i = 1 THEN DataAt(Len(tasks)) ELSE at[i - 1] + size(tasks[i - 1])
  IN [list |-> [i \in DOMAIN tasks |->
                  [id |-> tasks[i].id, offset |-> at[i], slot |-> 0]],
      slots |-> MCSlots0[db],
      entries |-> {entry(tasks[i], at[i]) : i \in DOMAIN tasks}]
InitialFiles(pair) == [todo |-> InitialFile("todo", pair.todo),
                       ptod |-> InitialFile("ptod", pair.ptod)]
MCInitials ==
  {InitialFiles(pair) : pair \in {Matched, InOrder, Twice, Missing, Extra}}
MCUndated == {InitialFiles(Undated)}

\* What the theorem about FiledAlike supposes of the files.
ASSUME MCInitialsAreFiled == FiledInitially
=============================================================================
