# palm-sync-daemon: specifications and proofs

palm-sync-daemon waits for a Palm handheld to start a HotSync, reads its databases, synchronizes
the memos of `MemoDB` with the notes of an org-mode file, writes the databases back and keeps
copies of them for the next time. This directory holds TLA+ modules that model that program,
configurations for TLC, and proofs that TLAPS checks. Paths below are those of `PROJECT.json`
without the leading `src/`; `sync.c` is `src/sync.c` of the repository.

Contents: [the system](#1-the-system) · [modules](#2-the-modules-and-the-code) ·
[runs](#3-runs) · [bounds](#4-bounds) · [fairness](#5-fairness) · [proofs](#6-what-is-proved) ·
[found while modelling](#7-where-the-code-and-its-documentation-disagree) ·
[left out](#8-what-is-not-modelled) · [plan](#9-plan)

## 1. The system

| Part | Source | State it keeps | Operations |
|---|---|---|---|
| daemon process | `src/palm-sync-daemon.c` | lock file, installed signal handlers, `_processTerminate`, registered exit handler | `main` (options, `daemon()`, loop), `_process_init`, `_process_lock`, `_process_unlock`, `_process_sig_handler` |
| synchronization cycle | `src/sync.c` `sync_this` | the device descriptor, `PalmData` (paths of temporary PDB files) | one call per HotSync: open, check previous, read, synchronize, write, save previous, free, close |
| memo synchronization | `src/sync.c` `_sync_memos` and below | `MemoDB` in memory with a status per record, the parsed notes | compute statuses, two loops, write |
| Palm connectivity | `src/palm.c` | socket of libpisock | `palm_open`, `palm_read`, `palm_write`, `palm_close`, `palm_free` |
| previous PDB files | `src/helper.c` | three files in the data directory | `check_previous_pdbs`, `save_as_previous_pdbs` |
| org-file notes | `src/orgmode/org_notes.c` | the org-file | parse into a queue, open for appending, write a note |
| org-file parser | `src/orgmode/parser/` | flex/bison parser, global queue | `parse_orgmode_file` |
| PDB files | `src/pdb/pdb.c` | header, list of records, application info | `pdb_read`, `pdb_write`, `pdb_record_create`, `pdb_record_delete` |
| PDB categories | `src/pdb/pdb.c` | 16 slots of a name and an id | look up, add, delete, prune when read |
| memos in PDB files | `src/pdb/memos.c` | queue of memos, each tied to a record | read, write, add, edit, delete, search |
| tasks in PDB files | `src/pdb/tasks.c` | queue of tasks, each tied to a record in either of two files | read and join, write, add, delete, set due date, alarm and repetition |
| encoding, hashing, chunked I/O | `src/helper.c`, `src/umash.c` | none | iconv CP1251/UTF-8, `str_hash`, `read_chunks`, `write_chunks` |
| logging | `src/log.c` | none | |

**How they interact.** The daemon's loop calls `sync_this()` and sleeps for a second. `sync_this()`
calls everything else, in one thread: nothing is shared in memory between threads. What is shared
is outside: the *handheld* (its owner edits databases between HotSyncs, presses the button, cancels
or takes it off), the *org-file* (its owner saves it at any time, also during a cycle), the
*previous PDB files* (which live across cycles and crashes), the *lock file* (between instances) and
*signals*. That makes the hard behaviours:

- **Three copies that drift apart.** Each cycle decides record by record from the flags on the
  handheld, the previous PDB file and the notes. A wrong decision overwrites the only copy of a text,
  possibly two cycles after the cause. *Correct means:* no item leaves the handheld before it has
  been in the org-file, nothing is deleted from the org-file, and when nobody edits, both sides come
  to agree and stay.
- **Many operations, each of which may fail, and most of which only log it.** One append of several,
  one database of four, one of three copies. *Correct means:* every way out of a cycle removes the
  temporary files and closes the device; nothing stale is installed; previous files match what was
  offered to the handheld.
- **A process that dies anywhere, a link that is lost anywhere.** *Correct means:* the next cycle
  starts from whatever is left and still loses nothing.
- **Waiting.** `palm_open()` waits for a handheld without a timeout, `palm_close()` for the device
  node to go away with one. *Correct means:* `sync_this()` returns and no handheld stays in HotSync.
- **Several instances, signals at any point.** *Correct means:* one works at a time; a signal ends a
  process after its cycle, never in it; the lock file is removed at the end.
- **Offsets kept by hand.** Every operation on a PDB file has to move the offsets of all the other
  records. *Correct means:* after any sequence of operations the file reads back as it was saved.
- **One task in two files**, in different orders, joined by a header that need not be unique.
  *Correct means:* each task keeps its two records, under the same category, and what one process
  saves does not end the next.

The hazards of the code, each at its line, with the properties that cover it or why none does, are
listed in `PROJECT.json`.

## 2. The modules and the code

| Module | What it is |
|---|---|
| `NoLoss` | abstract: items on a desktop and on a palm; what a synchronization may do to them |
| `SyncMemos` | memo synchronization, cycle after cycle; implements `NoLoss` |
| `SyncMemosProofs` | its theorems: nothing is lost, where cycles lead, dry runs |
| `Exchange` | abstract: fetch, merge, offer, keep, or give up; what a HotSync may do to the databases |
| `SyncSession` | `sync_this()` with `palm.c` and the previous files, HotSync after HotSync; implements `Exchange` |
| `SyncSessionProofs` | its theorems |
| `OneDaemon` | abstract: at most one process works at a time |
| `Daemon` | the instances, the lock file and signals; implements `OneDaemon` |
| `DaemonProofs` | its theorems |
| `Categories` | operators for the categories of a PDB file |
| `PdbFile` | operators for the layout of a PDB file, for `PdbMemos` and `PdbTasks` |
| `PdbMemos` | the memos of a PDB file: offsets, lengths and bytes |
| `PdbFileProofs` | lemmas about categories, lists and sets of numbers, for the proofs about both |
| `PdbMemosProofs` | theorems about `PdbMemos` |
| `PdbTasks` | the tasks in their two files |
| `PdbTasksProofs` | theorems about the tasks and their records |
| `TaskFilesProofs` | theorems about where they are in the files, and what is read from there |
| `OrgSyntax` | operators for the org-file: scanner, grammar, and the text of an appended note |
| `OrgNotes` | the org-file between the daemon and its owner, cycle after cycle |
| `OrgNotesProofs` | theorems about both |
| `MCSyncMemos`, `MCSyncSession`, `MCDaemon`, `MCPdbMemos`, `MCPdbTasks`, `MCOrgNotes` | values of the constants for TLC |

The three views of a cycle are layered. In `Daemon` a cycle is one place of the program, `sync`; that
it is left is what `CycleEnds` of `SyncSession` says, and is the fairness `Daemon` assumes. In
`SyncSession` the whole of `_sync_memos()` is one step that rewrites the temporary `MemoDB` or fails;
`SyncMemos` looks inside that step and keeps of the rest of the cycle what touches `MemoDB`. Each
module keeps the failures of the level it shows.

`SyncMemos` keeps the org-file as a sequence of notes, with `Readable` and `Reread` as constants;
`OrgNotes` has the file itself, and `AppendAddsItsOwnNotes` is what justifies that abstraction.

Definitions prefixed by the comment *Seeded fault* are variants of the definition after them with a
mistake in it. No specification uses them; each shows that a property notices the mistake.

### SyncMemos

A database maps ids to records (`header`, `text`, set of flags), `handheld` is that of the Palm,
`prev` the previous PDB file, `pdb` the copy of the running cycle and `status` its `record->status`.
`org` is the sequence of notes, `notes` what the parser made of it when the cycle began. `todo` is
what the first loop has still to visit and `nextNote` where the second one is.

- `StartCycle` is `_sync_memos()` up to the loops; `RecordStatus` is `_compute_record_statuses()`,
  with its switches over the whole nibble and its two different masks; `ActionForRecord` is
  `_compute_action_for_record()`.
- `DoNothing`, `CopyToDesktop`, `AddToHandheld`, `ReplaceOnHandheld` and `DeleteOnHandheld` are the
  cases of the first loop, `SyncNote` an iteration of the second, each with its "log and go on".
- `WriteMemos`, `PalmWrite`, `SavePrevious`, `CycleFails` and `Crash` are the rest of the cycle;
  `Cleaned` is the dirty bit that `_write_record_list()` drops.
- `Owner` is the environment: edits on both sides, on the org-file also in the middle of a cycle.

Abstractions: a header stands for its hash (a collision of hashes is not modelled); records are
visited in any order; the category nibble is left out; `LOCKED` is never set by the owner;
`Written` says what `org_notes_write()` makes of each item: itself, its heading alone where iconv refuses the
text, or nothing where it refuses the header (`HeaderRefused`: the process dies of its `strlen()`);
`record->status` of a record that has just been created is whatever `FreshStatuses` contains, because
the function that creates it is not in the repository; `Readable` and `Reread` say which notes the
parser accepts and what it makes of them. After `pdb_memos_memo_delete()` the loop reads the pointer
of a freed record: it goes on, or the process dies (`Crash`). `sync.c` calls `pdb_memos_*`, the
predecessor of `src/pdb/memos.c`; that interface is modelled from its calls and marked external.

### SyncSession

Contents of a database are a number, new with each edit and each rewriting. `step` follows
`sync_this()` from call to call, `next` counts the databases within one; `open` counts descriptors of
the device, `hotsync` is the handheld (off, ready, up, ending). `leaked` counts the cycles that ended
in `check_previous_pdbs()`: after `palm_open()` succeeded the function returns without `palm_close()`
there, which is the one known exception to three properties and is named in them.

The handheld: the owner presses the button (`PressHotSync`), the link is lost at any time (`LinkLost`),
and `palm_open()` may fail before it has a socket (`PalmSocketFails`) or after; after `pi_close()` the
device node disappears after a while (`DeviceGone`), also after `palm_close()` has given up. Each database
is fetched, installed and kept by a step of its own, and `_cp()` has two (the target is truncated, then
filled), after the second of which closing may still fail (`SaveCloseFails`: the file is whole and the
cycle given up, so that `Exchange!GiveUp` may keep one more). `pi_file_install()` is one step: half an
installed database is not modelled, nor is a failing `unlink()`. When the process dies its temporary files
stay in `/tmp` under a pid that is gone; nothing reads them any more, so `temp`, which is what the running
process has, is emptied.

`Exchange` says what all of that comes to. An exchange is `fetching`, `offering`, `keeping` or `over`;
`left` are the databases still to be offered or kept. It is offered only when there is a copy of every
database, each is offered once and then each of the three is kept once, with what was offered; one that
is given up, or only simulated, goes no further; nothing is fetched or installed while the handheld is
not linked. `Phase` and `Left` map `step` and `next` to it; opening, waiting and palm_close() without a
handheld are stutters.

### Daemon

`pc` is where each instance is, `lock` the instance whose pid is in the lock file, `handled` the
signals for which its handler is in place, `terminate` its flag, `atExit` whether its exit handler is
registered. A signal before its handler is installed kills the process; after that it sets the flag.
`RemoveStaleLock` is the user, who removes the file when the process is gone.

### Categories and PdbMemos

`file` is what is on the disk: list of records, offset of the application info, slots, and the bytes
of the memos, a byte being a string with an index or one of the separators; so a memo written over
another one, or cut short, shows. `memos` are the two queues of records and memos, which change at the
same places. Strings have two lengths, one in UTF-8 (in memory) and one in CP1251 (on the disk).

- `Open` is `memos_read()` with `pdb_read()`; `Write` and `WriteFails` are `memos_write()` with
  `pdb_write()`, the second also after the header and some memos are on the disk.
- `MemoAdd`, `MemoEdit` and `MemoDelete` with their failures are the functions of those names, with
  the loops that move the offsets: `ItemsMoved`, `MovedAfter`.
- `MemoEditCrashes` is the undefined behaviour of `memos_memo_edit()`: `strlen()` of a `NULL`, where
  the text is to stay or a string cannot be encoded, and `strcpy()` into a buffer that is too short.
  It goes well (`MemoEdit`) or the process dies; that it silently damages other data is not modelled.
- `exact` turns false when one of three things happens that the offsets do not follow: an edit that
  changes a length, a deletion of a memo whose strings are longer in UTF-8 than in CP1251 and that is
  not the last, and the id zero. `Packed` and `SavedIsReadBack` say what holds without them; the
  run `memo_edit` shows what the first does. `SavedIsReadBack` has two parts: the file has what was
  saved where it is looked for (`Holds`), whatever the strings, and `memos_read()` gets it
  (`FileReads`) if all of them are `Legible`. A memo of three dots, "…", can be added and written, and
  the file it is in is then refused.

The file begins as `Initial` lays it out: `InitialOK` says that the memos can be made out there
(`Savable`), and `MCQueue` builds such ones for TLC. The conversion on reading can fail: `FileReads` asks
that each stored string fits the buffer `iconv_cp1251_to_utf8()` has, twice the bytes of the string
(`Legible`). Where a string fills that buffer, and where `_memos_read_memo()` gives it bytes without a
terminator (`memos.c:832` and `:865`), a zero is taken to follow. Of a record's attributes the category is
modelled, as a slot; `memos_memo_edit()` puts the whole id there (`memos.c:668`), so that an id above 15
also sets flags, which is left out. Left out of these two as well: the times (which `pdb_write()` converts
in place, so that a second write of a structure is off by 66 years), the sort info (no file of the program
has one), memory errors, and `memo->category`, which `memos_memo_edit()` leaves at the old name (what is
saved is the slot). A new id is taken not to be in use.

### PdbTasks

A task has a record in `ToDoDB` (header, note, category) and one in `TasksDB-PTod` (all of it). `queue`
and `todo` change at the same places; `ptod` has an order of its own, and `link` is the id by which a
task finds its record there. A file is its list of records, its categories and its *entries*: what was
stored at an address, with the bytes it takes. Writing an entry destroys those it overlaps, so that a
wrong offset shows as an entry that is not there.

- `Open` is `tasks_open()` and `tasks_read()` with the join by header: `Picks` is what the search may
  find where a header is there twice, `TaskRead` what becomes of a task that gets two records.
  `OpenFails` is a record without a task, or one that cannot be parsed; `tasks_free()` then may follow
  a link that is not there yet.
- `TaskAdd` and `TaskAddFails` are `tasks_task_add()`: the category is looked up or added in one file
  after the other, and has to get the same slot; the new task goes behind the last one, which has to be
  the last in both files.
- `TaskSetDue`, `TaskSetAlarm` and `TaskSetRepeat` move the records behind the task by `DueMoves`,
  `AlarmMoves` and `RepeatMoves`; what the entry really grows by is the difference of `PtodRoom`.
- `TaskEditFails` is all `tasks_task_edit()` does. `TaskDelete` removes both records; a task that came
  from `tasks_task_add()` is the data of both and freed twice (`TaskDeleteDies`: it goes well or not).
- `Write` and `WriteFails` are `tasks_write()`: both headers and lists, then task by task its two
  entries. A write stops between two of these steps, not inside an entry; `WriteDies` is the task
  without a record.
- `exact` is false from the reading on if the headers do not tell the tasks apart, and after a due date
  the offsets do not follow. Files in which an entry is not whole are not opened again.
- `InitialsAreLaidOut` is what the handheld's files are like: record after record behind the list, each
  as long as what is in it, the note of a task as long in the one file as in the other. A file with a
  repetition that does not parse is left out of that; it can not be opened. `FiledInitially` says that
  what is left of the categories after reading is sound (`SoundCategories`) and that a task that is in
  both files is in one category, in the same slot of both. The first is an assumption on the constants,
  the second a hypothesis of one theorem; TLC evaluates both for the files of `MCPdbTasks`.
- The id of a new record is one that no record in memory has (`FreshIds`); the code draws 24 random bits
  for `ToDoDB` and gives the record of `TasksDB-PTod` the same, without a look at the others.

### OrgSyntax and OrgNotes

A file is a sequence of symbols: words, blanks, newlines, and what the scanner has a pattern for.
Neighbours are glued, so that a note whose writing was cut short and the next one make one word.

- `Tokens` is the scanner: the longest match, of equal ones the first pattern, `^` at the beginning of
  a line (`AtBol`), several newlines as one token there, lines that begin with `#+` skipped, bytes that
  are not UTF-8 skipped too (flex's default rule echoes them).
- `Shift` is the grammar, as a table of places, and `Take` its actions: a line is its words with
  single blanks between (`WithWord`), a text its lines (`WithText`), a category the tag (`TagOf`).
- `Parsed` is `parse_orgmode_file()` with its loop around `yyparse()`. A syntax error ends the process.
  A timestamp that `_insert_datetime()` refuses ends `yyparse()` only: it returns what it has, and the
  rest of the file stays in flex's buffer (`buffer` of `OrgNotes`), where the next cycle reads it before
  the file. Files are taken to fit that buffer (8 kB), so that the end of the file has been seen by then.
- `ToCp1251` and `ToUtf8` are the two conversions of `helper.c`, each with room for twice the bytes of
  its input. On the way to UTF-8 that may not do: `Extra` is by how many bytes a symbol is longer than
  its share of the room, `Surplus` what that makes for a text. ASCII letters leave room, Cyrillic ones
  need just theirs, "…" or "—" one more. A text with a surplus gives `NULL`; one with none has no
  terminator, and goes on with one of `Tails`, as what lies behind it in memory is read too.
- `Forms` is what `org_notes_write()` may make of an item: a text that is `NULL` is left out (it returns
  zero all the same), and of a header that is `NULL` nothing, as `strlen()` of it ends the process
  (`WriteCrashes`; the same when reading: `Crashes`). `Written` is the text of such a form, `WriteAs` the
  append of it, and `Fits` says that all of an item is shorter than the room there is.
- `Save` is the owner, at any time; `WriteFails` a write cut short, with the process going on or dead.
- `kept` is history: the items that were appended at the beginning of a line since the last `Save`, less
  those that are `Endangered` when a write goes behind them. Such an item has the lone star of a write
  that was cut short behind it, and what comes next makes a word with that star, so that it reads as one
  more line of this item.

Assumptions on the constants. `ConversionOK`: `Tails` has the case where a zero follows by chance.
`SymbolsDiffer`: a blank, a byte or a newline is in no word, a word
is no keyword, priority or timestamp, and what CP1251 lacks is no plain word; the scanner tells these
apart by their bytes. `UnassignedAreBytes`: a byte CP1251 does not assign is not valid UTF-8 by itself.
`NullIsNothing`: the null pointer is no text and no list of notes.

Keywords, priorities and timestamps are recognised and dropped, since notes do not have them. Lines are
of any length: the code copies their words into a buffer of 500 bytes and does not look.

## 3. Runs

| Run | Checks | What it shows |
|---|---|---|
| `nothing_lost` | `TypeOK`, `BackedByOrg`, `IInv`, `NothingLost`, `DryRunTouchesNothing` | with every fault but a failed append, crashes anywhere, dry runs, headers that read back differently and notes that do not parse, nothing is lost |
| `settles` | `HandheldFollowsFirstNote`, `SettledSyncIsStable` | two clean cycles lead to agreement, and it stays |
| `append_failure` | `NothingLost`, violated | a failed append loses a text in the next cycle |
| `session` | `TypeOK`, `NoTempLeft`, `DeviceClosed`, `PreviousInOrder`, `NoStaleWrite`, `Exchanges`, `LinkedSuccessSynchronizes`, `IInv`, `CycleEnds`, `HotSyncEnds` | every way through `sync_this()` cleans up, returns and keeps the files consistent |
| `silent_write` | `SuccessMeansSynchronized`, violated | success is reported though the handheld took nothing |
| `one_daemon` | `TypeOK`, `OneAtATime`, `IInv`, `NoLockLeft`, `OneDaemonOnly`, `SignalWaitsForTheCycle`, `TerminateEnds` | three instances with every fault |
| `pdb_memos` | `TypeOK`, `Packed`, `SavedIsReadBack`, `FiledAsAsked`, `IInv` | a file survives any operations, but for the exceptions named |
| `memo_edit` | `StructureIsWritten`, violated | a memo that changes its length is written wrongly |
| `tasks` | `IInv`, `EachTaskHasItsRecord`, `PackedTasks`, `SavedIsReadBack`, `FiledAlike`, `GoodFilesDoNotKill` | two files of tasks survive any operations, and the process survives the files, but for the exceptions named |
| `task_due` | `StructureIsWritten`, violated | a task that gets a due date is written over the next one |
| `org_notes` | `TypeOK`, `AppendAddsItsOwnNotes`, `PlainItemsReadBack`, `EveryHeadingIsANote`, `LeftoverIsUsedUp` | what the daemon writes and what it reads fit together, next to what owners write |
| `parser_contract` | `AllOrNull`, violated | a memo with an empty second line ends the daemon in the next cycle |

`NothingLost`, `Exchanges` and `OneDaemonOnly` are the abstract specifications, as temporal properties
under a refinement mapping: `NoLoss` with the notes of the org-file as the desktop and the items of the
undeleted records as the palm, `Exchange` with the temporary files as the copies and the place in
`sync_this()` as its phase, `OneDaemon` with the set of processes that own the lock.

`org_notes` has conditions worth knowing, two of which TLC's bounds had hidden and the proofs brought out
(section 6). An append changes no other note only if the file ends in a newline: behind blanks, or behind
a write that was cut short, the heading is a line of text. It reads back as it was written only if it
`Fits` iconv's buffer and is `Plain`: words with single blanks between them, a first line of text that is
not empty, no two empty lines together, a category of ASCII letters and digits. It stops being read so
when an append was cut short right behind its star and another write follows: the two make `** ...`, a
line of text of the item before. And a timestamp the parser refuses hides the notes behind it, in that
cycle; what it leaves in the buffer is used up by one more parse, unless it ends in such a timestamp
without a newline: then a newline at the beginning of the file completes it, and the parser gives up
again.

What `settles` says has two parts that may surprise. The desktop wins: after two clean cycles a memo
has the text of the *first* note of its header, and a newer text of the handheld is a later note of the
same header. And a hidden record counts as none, so that its note is added to the handheld again in
every cycle; `SettledSyncIsStable` excepts exactly those headers. The run has headers that read back
as they were written. With one that does not (a run of blanks, say) the note is taken for another one
and appended again in every cycle; `nothing_lost` shows that nothing is lost by that.

## 4. Bounds

`SyncMemos`: two or three records, one to three headers, two texts; a loss needs one record, one note of
its header, and a text that is in neither. Two edits or three, and three cycles: a fault in one cycle, its
effect on the previous file in the next, the loss in the third; `settles` has four, for two that settle
and one that must not change anything. `FreshStatuses` is all of them. `DryRuns` is chosen per cycle in
`nothing_lost`. Ids are interchangeable (symmetry) where the properties are safety properties. `ByIconv`
has each thing org_notes_write() may do: under one header a text is left out, under another it goes on
with what lies behind it, and the third header kills the process (in `settles`, where all are).

`SyncSession`: the four databases of the code, two calls of `sync_this()`, one edit: what a failed
cycle leaves is met by the next one. `CloseWait` is two seconds instead of five: the counter is only
compared with zero and the node may go away and come back in between either way.

`Daemon`: three processes that may be started again and again; there is no other bound.

`PdbMemos`: a file of two memos, three slots of which one holds garbage, four operations in any
order with reading in between: adding, deleting and writing again, then reading, fits. One string is
longer in UTF-8, one too long to be converted when it is read, one cannot be encoded, one category is
truncated to the name of another. `memo_edit` has no id zero, so that only wrong offsets and lengths can
violate its property, and ids for two memos to be added, of which the first is deleted.

`PdbTasks`: five pairs of files (the same tasks in the same and in another order, a header twice, a task
missing from either file), three slots, years on both sides of 2032, four operations with closing and
reading in between: two changes, a write and one more, or a write over a write that was cut short.

`OrgNotes`: four files of an owner and six items, each with several things of its own (tags, keywords, a
directive, blank lines, refused timestamps, bytes that cannot be converted, strings that just fill the
buffer or do not fit it, a text with a line that looks like a heading, no newline at the end). One file
saved, two items appended, one write cut short and three cycles: whatever one cycle appends, whole or in
part, meets every other item and is read by two more; a leftover is read by the next cycle and gone in the
third. `Cuts` are lengths at which a write may stop: the star, a short header without its newline, an
empty one with it. What the bounds leave out, longer histories and other texts, is what section 6 proves.

Runs that end in `CHECK_DEADLOCK FALSE` stop where the bounds on edits, cycles or operations do.
`one_daemon` has no bound and is checked for deadlock.

## 5. Fairness

- `SyncSession`: weak fairness of the daemon's own steps: one thread that does not stop between calls.
  `pi_accept_to()` is not forced to return before a handheld is ready (`PalmAccept` is enabled only
  then), and nobody has to press the button; `CycleEnds` holds because a cycle that
  has bound its socket has a handheld that is ready: it is accepted, or the link is lost and the node
  disappears, which ends the wait with an error.
  And weak fairness of `DeviceGone`: a handheld whose connection was closed ends its HotSync. No
  operation has to succeed or to fail.
- `Daemon`: weak fairness of each process. Leaving `sync` is the property `CycleEnds` above. Its
  exception, a handheld left connected by `check_previous_pdbs()`, is one to `TerminateEnds` too.

`TerminateEnds` is about a process that keeps running; being killed is an end as well.

## 6. What is proved

`SyncMemosProofs`, for any sets of records, headers and texts, any parser, any number of edits and
cycles, any faults and crashes:

- `TypeCorrect`: `Spec => []TypeOK`, without further assumptions.
- `InvariantHolds`, `RecordsAreBacked`, `SyncLosesNothing`: if `"append" \notin Faults`, then
  `Spec => []IInv`, `Spec => []BackedByOrg` and `Spec => NothingLost`, that is, memo synchronization
  implements `NoLoss`. The assumption is needed: `append_failure` is its counterexample. It does not
  suffice to keep every text: what reaches the org-file of an item is one of `Written`, and where iconv
  refuses the text that is the heading alone (`org_notes.c:110` and `:118`), with success reported and
  the text replaced in the next cycle. `NoLoss` has the same constant: its promise is that nothing
  leaves the handheld of which the org-file has not had all that `org_notes_write()` makes of it.
- `WholeRecordsReachedOrg`: if in addition `WritesWhole` (iconv refuses no text, and none goes on beyond its
  end), then `Spec => []ReachedOrg`: the item itself, with its text, has been in the org-file.

The argument: what may be overwritten is a record with status `NOT_CHANGED`, one that is in the
previous file and not dirty. `BackedByOrg` says that such a record, or what `org_notes_write()` made of it,
has been in the org-file. It is not
inductive: a cycle makes it true at its end for records it has visited, and installs them and keeps
them as previous file in two steps, with a crash in between. So `IInv` adds that in a running cycle
every visited record is backed, on the handheld and in the copy (`DoneAreBacked`), that an unvisited one
is as it came, with the status computed for it, or was added from a note (`TodoIsUntouched`), that the
copy drops only deleted records and makes up no items (`CopyIsConservative`), that notes have reached
the org-file (`NotesAreReached`), and that writing comes after the last visit (`WritingIsLast`,
`LeftoverIsEmpty`).

The same module, for any faults, the failing append among them:

- `DryRunsSimulate`: `Spec => DryRunTouchesNothing`. A dry run stays in the phase `memos`, where nothing but
  the copies changes unless a step asks for `~dryRun` (`Stages`).
- `SettledInvHolds`, `MemosFollowFirstNotes` and `SettledSyncsAreStable`: if `HeadersReadBack`, then
  `Spec => []SettledInv`, `Spec => []HandheldFollowsFirstNote` and `Spec => SettledSyncIsStable`.

`HeadersReadBack` says that what is written of an item keeps its header, and that a note that was appended
is read with the header it has; its text may come back as any other. The hypothesis is needed: where a
header comes back as another one, no note is found for the record, and each cycle appends one more.
`OrgNotes` shows for which items the parser satisfies it.

The argument: the property speaks of the third of three cycles, the invariant of all of them. Over the
first clean cycle, each record visited is in step with the notes as they were read: the first note with
its header has its text, or a note for it is in the org-file now (`SettledOnce`, `DoneIsInStep`,
`NotesHaveRecords`). When the second begins, this is true of the handheld as it is fetched
(`SettledTwice`); the statuses it computes are then all ones that have nothing to do, but for hidden
records, which `CopyIsStable` allows for as the property does. That what is written is clean and without
deleted records (`WrittenIsClean`) makes the previous file of the next cycle the handheld itself, so that
no record of it is new or changed. `TodoIsKnown` and `ParsedIsOrg` tie the copies a cycle works on to what
it read. TLC checked every part on small instances, with all faults, dry runs and a parser that changes
texts, before any was proved.

`DaemonProofs`, for any number of instances and any faults:

- `InvariantHolds` and `TypeCorrect`: `Spec => []IInv` and `Spec => []TypeOK`.
- `OneInstance` (`[]OneAtATime`), `NoLockIsLeft` (`[]NoLockLeft`), `CycleIsNotCut`
  (`SignalWaitsForTheCycle`) and `ImplementsOneDaemon` (`OneDaemonOnly`).

The argument: a process past `_process_lock()` is the one the file is for (`OwnerHasTheLock`), so two
of them are one; the file is removed by its owner, who has then left the code it protects, or by the
user, who looks whether the owner is gone. `ReadyToWork` says that the handlers are in place by the time
a process works, so that a signal only sets the flag.

`SyncSessionProofs`, for any faults, any number of cycles and edits:

- `InvariantHolds`, `TypeCorrect`, `NoTempIsLeft`, `DeviceIsClosed` and `PreviousStayInOrder`:
  `Spec => []...` of `IInv`, `TypeOK`, `NoTempLeft`, `DeviceClosed` and `PreviousInOrder`;
- `NothingStaleIsWritten`: the action property `NoStaleWrite`;
- `ImplementsExchange`: `Spec => Exchanges`, each action being one of `Exchange` or a stutter;
- `KeptWasOffered` and `DryRunsTouchNothing`: the action properties `KeptIsOffered` and
  `DryRunTouchesNothing`. No run checks these two, as `Exchanges` covers what they say;
- `LinkedCyclesSynchronize`: `LinkedSuccessSynchronizes`, if `"install" \notin Faults`. Where the handheld
  refuses a database, `palm_write()` does not know of it, and the property is false by design of
  `silent_write`.

The argument: `IInv` says at each call of `sync_this()` what the temporary files and the previous ones
are. Nothing is fetched outside of a cycle (`NothingFetchedYet`), what is offered and kept is all there
and not of a dry run (`OfferIsComplete`), the copies fetched are those of the handheld as it was seen,
but for the memos, and previous files are replaced in one order, the one being replaced between those of
this cycle and those of an earlier one. None of the five invariants is inductive alone: that no file is
left at the end needs that `palm_free()` meets every file there is, which depends on where each error
path joins the others.

`PdbMemosProofs`, for any memos, strings with any two lengths, categories and faults:

- `InvariantHolds`, `TypeCorrect`, `OffsetsArePacked` and `WhatIsSavedIsReadBack`: `Spec => []...` of
  `IInv`, `TypeOK`, `Packed` and `SavedIsReadBack`, the last of which speaks of reading only where the
  strings are `Legible`;
- `FiledUnderAsked`: `Spec => []FiledAsAsked`, if the ids of the categories of the first file are those of
  their slots (`SoundCategories`). Where they are not, a category is found in one slot and its memos put in
  another.

The argument: while `exact`, the memos in memory are `Savable`, laid out with the lengths their strings
have; an operation moves what is behind the place it changes by just that change, and the list of
records by an item. The file holds what was saved, and what would be read from it is `Savable` again:
bytes of different memos do not overlap (`InOrder`, by the least counterexample instead of induction),
separators are no bytes of a string, so the first newline from an offset is the end of the header
(`ReadWhereItLies`); and a file that has what it should is read if what it has is legible (`LegibleIsRead`).
What is read need not be the same string, only one with the same bytes: nothing says
that a conversion is injective. `InitialOK` assumes that the first file is `Savable`; that `MCQueue` builds
such files is evaluated by TLC.

`PdbTasksProofs`, for any tasks, strings, categories, faults and any number of operations:

- `InvariantHolds`, `TypeCorrect` and `EachTaskKeepsItsRecord`: `Spec => []...` of `IInv`, `TypeOK` and
  `EachTaskHasItsRecord`.

The argument: that each task has a record of its own and no record is left over says nothing where the
headers do not tell the tasks apart, and there operations go on too. `IInv` adds what is true of any
files: a task that has a record has one that is there (`LinksLead`) and that no other task has
(`LinksDiffer`), and no two records of `TasksDB-PTod` have an id in common (`IdsDiffer`, in memory and
in the file, which a write that stops anywhere leaves with the one list or the other). So deletion, which
removes the record its task is linked to, takes none away from another task; moving records does not
change their ids; and reading joins a record with one task only, as its header is looked up once.
`InitialsOK` assumes that the ids of the first files differ, `FreshIds` that a new one does: with an id
twice in a file a task would follow the first record that has it.

`TaskFilesProofs`, for the same and any lengths of the strings:

- `LayoutHolds`, `TasksArePacked`, `SavedTasksAreReadBack`: `Spec => []...` of `LInv`, `PackedTasks` and
  `SavedIsReadBack`; `GoodFilesKillNobody`: the action property `GoodFilesDoNotKill`;
- `TasksAreFiledAlike`: `Spec => []FiledAlike`, if `FiledInitially`. It is needed: reading takes the slots
  of both files as they are.

The argument: while `exact`, the records in memory are `Stacked`: each begins where the one before it
ends, with the room of its task, which in `TasksDB-PTod` is found through the link (`MemoryIsStacked`).
An operation moves what is behind its task by the difference of two rooms. What the files hold is
stacked too after a write that succeeded (`FilesAreLaidOut`): entries that are written one behind the
other do not overlap, so that none of them destroys another and all are there in the end. `LInv` adds
what connects the two: an entry takes what is in it (`EntriesAreSized`), what reading would remove from
the categories is gone (`SlotsWereRead`), and both files hold what the write was to save (`SavedIsThere`).
Reading joins by header instead of by id. That the join finds the same pairs where the headers differ
uses that both files have as many records as there were tasks. The first files have no links, so what is
assumed of them is said of records that alone have their header in either file (`Joined`); where reading
them leaves `exact` true, these are the records of its tasks. A process that reads dies in `tasks_free()`
alone, of a record without a task or one that does not parse, before all tasks have got their link;
`SavedIsThere` leaves for that only two equal headers and a repetition without a due
date. For `FiledAlike`, the same slot has to be the same category in either file: a category is found in
the slot of its id (`SlotsAreSound`), names in use stay (`NamesStay`), and a pair that is read was
written as a pair (`FilesAreFiled`).

`OrgNotesProofs`, for any files, items, words, cuts and any number of saves, appends, failures and cycles:

- `TypeCorrect`: `Spec => []TypeOK`;
- `HeadingsAreNotes`, `LeftoverGone`: the action properties `EveryHeadingIsANote` and `LeftoverIsUsedUp`;
- `AppendsAreExact`: the action property `AppendAddsItsOwnNotes`, on which `SyncMemos` rests;
- `KeptItemsStand` and `PlainItemsAreRead`: `Spec => []KeptStand`, an invariant, and from it the action
  property `PlainItemsReadBack`.

The argument: the scanner is a function that calls itself with a later position. That it exists
(`ScanExists`) and is the only one to satisfy its equation follows from the well-foundedness of the
numbers left to read; `Over` is the fold of the parser over its tokens, and `MoveIs` says that a token
read at a position leads from a state there to a state at the next position. An induction over a text is
then a set of states and positions that every such move keeps (`Walk`), and each property needs its own:

- The parser has as many notes as there are headings in front of its position, less the one whose
  headline it is in (`NotesAreHeadings`). A heading is never inside of a token, as the scanner stops in front of
  what begins a line (`NotJumped`).
- A refused timestamp lies in front of the position, in the leftover, and no newline has come since
  (`NeverStops`): behind it the parser is not called again.
- What is behind the beginning of a line does not change how the part in front is read (`ReadBefore`), and
  is read as it would be alone (`ReadBehind`); the states of the two readings differ in the notes that
  were there before (`Alike`).
- A plain item is followed word by word: its headline (`HeadRead`), each line of its text (`TextRead`),
  and the headline or the star behind it, which closes its note for good (`NextLeavesIt`, `NoteStays`).
  Where the parser is within an entry when the item begins, its star is a syntax error (`StarInAnEntry`),
  and the parse does not return.

`KeptStand` says where those items are: each stands in the file as one of its `Forms` (the item itself, if
it `Fits`: `FitsWhole`), at the beginning of a line, and behind it the file ends, or a headline or its
star follows. It is preserved since all that a write leaves, whole or cut, is nothing, a star, or a star
and a blank with more; the one way to break it is a write behind a lone star, which `Unharmed` takes out
of `kept`.

Looking for these invariants showed that two of the properties, which TLC had found to hold, do not hold for
longer histories: `PlainItemsReadBack` where a write goes behind a lone star, `LeftoverIsUsedUp` where the
leftover ends in a refused timestamp. They now name these cases (section 3). The cases of `Take` overlapped,
which TLC resolves by their order and the logic leaves open; they are disjoint now.

Every safety property that a passing run checks is stated by a theorem. Only model-checked is liveness
(`CycleEnds`, `HotSyncEnds`, `TerminateEnds`): under fairness, it is out of reach of the prover and stays
with TLC.

## 7. Where the code and its documentation disagree

Shown by runs: `append_failure`, `silent_write`, `memo_edit`, `task_due`, `parser_contract`;
`PROJECT.json` quotes the lines. Seen while modelling, and modelled as the code has it:

- `docs/tex/technical_description.tex:304` wants a deleted record deleted; one that is dirty as well
  matches no case of the switch at `sync.c:377` and is NOT_CHANGED.
- `docs/tex/technical_description.tex:298` and `:357` want a note whose memo is gone deleted or left
  alone, `:348` wants it added to the handheld; the second loop (`sync.c:249`) adds it.
- `palm.h:99-101` says `palm_close()` is to be called in each cycle; `sync.c:51-55` does not when
  `check_previous_pdbs()` fails.
- `palm.h:108-109`: a device that disappears in the last second of the wait is reported as a timeout
  (`palm.c:166`).
- `palm.h:116` wants `palm_free()` after `palm_close()`; `sync.c:88` calls it before.
- `orgmode_parser.h:14-15` says that all contents of the file are stored; behind a timestamp that is
  refused (`parser.y:70`, one without the day of the week, say) nothing is. `AllOrNull` fails for
  that reason as well.
- `helper.c:80` gives `iconv()` twice the bytes of the CP1251 string, as if no character took three ("…",
  "—", "№", "€"). A string with more of these than of ASCII letters gives `NULL`, as does one with the
  byte 0x98. `org_notes_write()` then writes the heading without the text and returns zero
  (`org_notes.c:110`, `:118` and `:167`), so that the next cycle replaces the text of the memo by
  nothing (`sync.c:218`); a header is given to `strlen()`, which ends the process; and `memos_read()`
  gives up a file that `memos_write()` has just written (`memos.c:845` and `:880`). A string that takes all
  the room, of Cyrillic letters only, has no terminator. The properties except these strings by name.
- An empty org-file is a syntax error (`parser.y:56`) and ends the daemon; the case "No OrgMode entries"
  of `org_notes.c:35` cannot happen.
- `palm-sync-daemon.c:398` says the lock is removed at exit; between its creation (`:325`) and the
  registration of the exit handler a failure or a signal leaves it. `NoLockLeft` speaks of processes
  that got beyond that.
- `pdb.c:737` speaks of removing garbage among the categories; the loop at `pdb.c:800` ends at the first
  slot from the end that has none, and garbage before it stays.
- `tasks.h:294` describes `tasks_task_edit()`; `if(task == NULL);` at `tasks.c:744` makes it fail
  for every task.
- `tasks.c:603` reports an alarm without a due date; the test at `:601` is for a day without a month and a
  year and never holds.
- `tasks_task_add()` needs a last task (`tasks.c:322-340`): nothing can be added to an empty file.
- `tasks.h:225-226` promises the first of several tasks with a header; the search (`tasks.c:254-257`)
  sorts and finds any of them, and reading the second file gives it the records of all.
- A repetition without a due date is written (`tasks.c:1795` writes no date) and read as if a date came
  before it (`tasks.c:1413`).

## 8. What is not modelled

- In `SyncMemos`, an item that reads back as two notes (`Reread` gives one), and stale notes from the
  scanner's buffer; both are in `OrgNotes`.
- Org-files larger than the scanner's buffer, lines longer than the parser's.
- Whether `pdb_memos_memo_edit()`, which is not in the repository, leaves the text of a memo alone when it
  is given none, as `memos_memo_edit()` does: `SyncMemos` takes it to replace the text.
- In `PdbTasks`: conversions that fail on reading (the layout does not depend on them), and buffers
  without a terminator, as in `PdbMemos`; a write that stops inside an entry, files with such entries,
  failures to read and to allocate; ids in use already; priorities the code does not know; days and
  months, which go with the year. Nothing in the repository but tests calls `tasks.c` yet.
- Of the hazards of the code, four have no property, no room in the model, and no place in `PROJECT.json`:
  a memo that the owner purged from the handheld comes back (`sync.c:249`; the code means it), the
  previous attributes are masked with `0x0f` (`sync.c:347`; modelled, and with no effect a property could
  tell from what is meant), the words of a line go into 500 bytes (`parser.y:158`), the times are
  converted in place (`pdb.c:182`).
- Hashing (UMASH is vendored), and chunked I/O. Of iconv: its failures and lengths are in `OrgNotes`,
  `SyncMemos` and `PdbMemos`, not what the strings are; `iconv_open()` does not fail.
- The searches of `memos.c`, which change nothing. (`_memos_memo_get_id()` sorts one element more than
  the array of its second pass has, at line 266.)
- Parsing of options, `daemon()`, expansion of the data directory, logging.

## 9. Plan

In the order of importance; the first thirteen are done.

1. `SyncMemos` with `NoLoss`, and its proofs.
2. `SyncSession`. 3. `Daemon` with `OneDaemon`, and its proofs.
4. `Categories`. 5. `PdbMemos`.
6. `OrgSyntax` and `OrgNotes`.
7. `PdbTasks`: the two files of the tasks.
8. Proofs of `SyncSession`. 9. Proofs of `PdbMemos`.
10. `Exchange`, and the proof that `SyncSession` implements it.
11. `PdbTasksProofs`: `EachTaskHasItsRecord`.
12. `TaskFilesProofs`: `PackedTasks`, `SavedIsReadBack`, `FiledAlike` and `GoodFilesDoNotKill`.
13. `OrgNotesProofs`: all properties of the org-file.
14. `SyncMemos` with a sequence of notes for what an item reads back as, so that `OrgNotes` gives its
    constants exactly.
