----------------------------- MODULE SyncSession -----------------------------
(***************************************************************************)
(* One HotSync after another: sync_this() of src/sync.c with the functions *)
(* of src/palm.c that talk to the handheld and those of src/helper.c that  *)
(* keep the PDB files of the previous cycle.                               *)
(*                                                                         *)
(* A database is known by its contents only, and contents by a number: a   *)
(* new one each time the owner edits a database on the handheld and each   *)
(* time _sync_memos() rewrites the temporary MemoDB (SyncMemos looks       *)
(* inside).  The databases are fetched, installed and kept one by one, so  *)
(* the link may fail, a copy may be cut short and the process may die      *)
(* between any two of them.                                                *)
(***************************************************************************)
EXTENDS Naturals, Sequences

CONSTANTS
  NoFile,     \* contents: there is no such file
  Cut,        \* contents: a file truncated and not, or not fully, written
  CloseWait,  \* PALM_CLOSE_WAIT_SEC
  Faults,     \* which operations may fail
  DryRuns,    \* values of syncSettings->dryRun
  MaxEdits,   \* bound: edits on the handheld
  MaxCycles   \* bound: calls of sync_this()

Dbs  == <<"DatebookDB", "MemoDB", "ToDoDB", "TasksDB-PTod">>
Kept == <<"DatebookDB", "MemoDB", "ToDoDB">>
Names(dbs) == {dbs[i] : i \in DOMAIN dbs}
FaultKinds == {"open", "prev_denied", "alloc", "read", "memos", "parse",
               "install", "link", "save", "crash"}

ASSUME NumbersOK ==
  /\ CloseWait \in Nat \ {0}
  /\ MaxEdits \in Nat
  /\ MaxCycles \in Nat
ASSUME SetsOK == Faults \subseteq FaultKinds /\ DryRuns \subseteq BOOLEAN
ASSUME SentinelsAreNotContents == NoFile \notin Nat /\ Cut \notin Nat
ASSUME SentinelsDiffer == NoFile # Cut

VARIABLES
  step,      \* where sync_this() is; "idle" between two calls
  next,      \* index of the next database to fetch, install or keep
  dryRun,    \* the cycle only simulates
  failed,    \* sync_this() has gone to sync_this_error
  waitLeft,  \* secondsToWait of palm_close()
  result,    \* what the last call returned
  open,      \* descriptors of the device the process holds
  hotsync,   \* the handheld: off, ready (button pressed), up, ending
  handheld,  \* contents of its databases
  temp,      \* contents of the temporary PDB files
  prev,      \* the PDB files kept, each with the cycle that last opened it
  seen,      \* contents of the databases as fetched in this cycle
  fresh,     \* the next unused contents
  leaked,    \* calls of this process that ended in check_previous_pdbs()
  edits,     \* edits so far
  cycles     \* calls so far

local   == <<dryRun, failed, waitLeft, result>>
link    == <<open, hotsync>>
history == <<seen, fresh, leaked, edits, cycles>>
vars    == <<step, next, dryRun, failed, waitLeft, result, open, hotsync,
             handheld, temp, prev, seen, fresh, leaked, edits, cycles>>

NodeExists == hotsync # "off"   \* access(device, F_OK)
NoFiles == [db \in Names(Dbs) |-> NoFile]

Init ==
  /\ step = "idle"
  /\ next = 1
  /\ dryRun = FALSE
  /\ failed = FALSE
  /\ waitLeft = 0
  /\ result = "none"
  /\ open = 0
  /\ hotsync = "off"
  /\ handheld = [db \in Names(Dbs) |-> 0]
  /\ temp = NoFiles
  /\ prev = [db \in Names(Kept) |-> [contents |-> NoFile, cycle |-> 0]]
  /\ seen = NoFiles
  /\ fresh = 1
  /\ leaked = 0
  /\ edits = 0
  /\ cycles = 0

-----------------------------------------------------------------------------
(* The handheld and its owner *)

\* The applications do not run while a HotSync does.
OwnerEdits(db) ==
  /\ edits < MaxEdits
  /\ hotsync = "off"
  /\ edits' = edits + 1
  /\ handheld' = [handheld EXCEPT ![db] = fresh]
  /\ fresh' = fresh + 1
  /\ UNCHANGED <<step, next, local, link, temp, prev, seen, leaked, cycles>>

PressHotSync ==
  /\ hotsync = "off"
  /\ hotsync' = "ready"
  /\ UNCHANGED <<step, next, local, open, handheld, temp, prev, history>>

\* The owner cancels, or the handheld leaves the cradle.
LinkLost ==
  /\ "link" \in Faults
  /\ hotsync \in {"ready", "up"}
  /\ hotsync' = "off"
  /\ UNCHANGED <<step, next, local, open, handheld, temp, prev, history>>

\* Some time after the connection is closed the device node disappears.
DeviceGone ==
  /\ hotsync = "ending"
  /\ hotsync' = "off"
  /\ UNCHANGED <<step, next, local, open, handheld, temp, prev, history>>

Handheld ==
  \/ \E db \in Names(Dbs) : OwnerEdits(db)
  \/ PressHotSync
  \/ LinkLost
  \/ DeviceGone

\* pi_close(): the handheld ends the HotSync that was running.
HotSyncAfterClose == IF hotsync = "up" THEN "ending" ELSE hotsync

-----------------------------------------------------------------------------
(* palm_open() *)

PalmSocket ==
  /\ step = "idle"
  /\ cycles < MaxCycles
  /\ cycles' = cycles + 1
  /\ step' = "bind"
  /\ next' = 1
  /\ dryRun' \in DryRuns
  /\ failed' = FALSE
  /\ result' = "none"
  /\ open' = open + 1
  /\ seen' = NoFiles
  /\ UNCHANGED <<waitLeft, hotsync, handheld, temp, prev, fresh, leaked, edits>>

\* pi_socket() fails: nothing is open yet.
PalmSocketFails ==
  /\ step = "idle"
  /\ "open" \in Faults
  /\ cycles < MaxCycles
  /\ cycles' = cycles + 1
  /\ result' = "not_connected"
  /\ UNCHANGED <<step, next, dryRun, failed, waitLeft, link, handheld, temp,
                 prev, seen, fresh, leaked, edits>>

\* pi_bind() and pi_listen(): the device node must be there.
PalmBind ==
  /\ step = "bind"
  /\ NodeExists
  /\ step' = "accept"
  /\ UNCHANGED <<next, local, link, handheld, temp, prev, history>>

\* pi_accept_to() waits without a timeout for a handheld that is ready.
PalmAccept ==
  /\ step = "accept"
  /\ hotsync = "ready"
  /\ hotsync' = "up"
  /\ step' = "greet"
  /\ UNCHANGED <<next, local, open, handheld, temp, prev, history>>

\* dlp_ReadSysInfo() and dlp_OpenConduit().
PalmGreet ==
  /\ step = "greet"
  /\ hotsync = "up"
  /\ step' = "check"
  /\ UNCHANGED <<next, local, link, handheld, temp, prev, history>>

\* The device node is gone, or one of the calls reports an error: pi_accept_to()
\* does not before a handheld is ready.
OpenError ==
  /\ step \in {"bind", "accept", "greet"}
  /\ \/ ~NodeExists
     \/ "open" \in Faults /\ (step = "accept" => hotsync = "ready")

\* Seeded fault: the error path does not close the descriptor.
PalmOpenFailsOpen ==
  /\ OpenError
  /\ step' = "idle"
  /\ result' = "not_connected"
  /\ UNCHANGED <<next, dryRun, failed, waitLeft, open, hotsync, handheld,
                 temp, prev, history>>

\* Each error path from here on closes the descriptor; the one that does not, after
\* PI_ERR_SOCK_INVALID of pi_bind(), has none that libpisock still knows.
PalmOpenFails ==
  /\ OpenError
  /\ step' = "idle"
  /\ result' = "not_connected"
  /\ open' = open - 1
  /\ hotsync' = IF step = "greet" THEN HotSyncAfterClose ELSE hotsync
  /\ UNCHANGED <<next, dryRun, failed, waitLeft, handheld, temp, prev, history>>

-----------------------------------------------------------------------------
(* check_previous_pdbs() and palm_read() *)

CheckPrevious ==
  /\ step = "check"
  /\ step' = "read"
  /\ UNCHANGED <<next, local, link, handheld, temp, prev, history>>

\* A previous file exists and may not be read or written: sync_this() returns.
CheckPreviousFails ==
  /\ step = "check"
  /\ "prev_denied" \in Faults
  /\ \E db \in Names(Kept) : prev[db].contents # NoFile
  /\ step' = "idle"
  /\ result' = "error"
  /\ leaked' = leaked + 1
  /\ UNCHANGED <<next, dryRun, failed, waitLeft, link, handheld, temp, prev,
                 seen, fresh, edits, cycles>>

\* No memory for PalmData: there is nothing to free.
PalmReadFails ==
  /\ step = "read"
  /\ next = 1
  /\ "alloc" \in Faults
  /\ step' = "close"
  /\ failed' = TRUE
  /\ UNCHANGED <<next, dryRun, waitLeft, result, link, handheld, temp, prev,
                 history>>

\* Seeded fault: the index is not reset.
AdvanceWithoutReset(dbs, after) ==
  /\ next' = next + 1
  /\ IF next < Len(dbs) THEN UNCHANGED step ELSE step' = after

\* The next of the databases, or the next step of sync_this() after the last.
Advance(dbs, after) ==
  IF next < Len(dbs) THEN next' = next + 1 /\ UNCHANGED step
                     ELSE next' = 1 /\ step' = after

\* _palm_read_database(): a database that cannot be fetched has no path.
PalmReadDatabase ==
  /\ step = "read"
  /\ Advance(Dbs, "memos")
  /\ \/ /\ hotsync = "up"
        /\ temp' = [temp EXCEPT ![Dbs[next]] = handheld[Dbs[next]]]
        /\ seen' = [seen EXCEPT ![Dbs[next]] = handheld[Dbs[next]]]
     \/ /\ hotsync # "up" \/ "read" \in Faults
        /\ UNCHANGED <<temp, seen>>
  /\ UNCHANGED <<local, link, handheld, prev, fresh, leaked, edits, cycles>>

-----------------------------------------------------------------------------
(* _sync_memos() *)

Fail(after) == step' = after /\ failed' = TRUE

\* A dry run goes straight to palm_free().
SyncMemosDry ==
  /\ step = "memos"
  /\ dryRun
  /\ temp["MemoDB"] # NoFile
  /\ step' = "free"
  /\ UNCHANGED <<next, local, link, handheld, temp, prev, history>>

SyncMemosWrites ==
  /\ step = "memos"
  /\ ~dryRun
  /\ temp["MemoDB"] # NoFile
  /\ step' = "write"
  /\ temp' = [temp EXCEPT !["MemoDB"] = fresh]
  /\ fresh' = fresh + 1
  /\ UNCHANGED <<next, local, link, handheld, prev, seen, leaked, edits, cycles>>

\* It fails without a MemoDB, before it writes the temporary file or within.
SyncMemosFails ==
  /\ step = "memos"
  /\ Fail("free")
  /\ \/ /\ temp["MemoDB"] = NoFile \/ "memos" \in Faults
        /\ UNCHANGED temp
     \/ /\ temp["MemoDB"] # NoFile /\ "memos" \in Faults /\ ~dryRun
        /\ temp' = [temp EXCEPT !["MemoDB"] = Cut]
  /\ UNCHANGED <<next, dryRun, waitLeft, result, link, handheld, prev, history>>

-----------------------------------------------------------------------------
(* palm_write() *)

\* Seeded fault: the refusal is only logged.
PalmWriteSkips ==
  /\ step = "write"
  /\ next = 1
  /\ \E db \in Names(Dbs) : temp[db] = NoFile
  /\ step' = "save"
  /\ UNCHANGED <<next, local, link, handheld, temp, prev, history>>

\* "Empty PalmData structure": a database has no file.
PalmWriteRefuses ==
  /\ step = "write"
  /\ next = 1
  /\ \E db \in Names(Dbs) : temp[db] = NoFile
  /\ Fail("free")
  /\ UNCHANGED <<next, dryRun, waitLeft, result, link, handheld, temp, prev,
                 history>>

\* _palm_write_database() returns nothing: a failure is logged.
PalmWriteDatabase ==
  /\ step = "write"
  /\ \A db \in Names(Dbs) : temp[db] # NoFile
  /\ Advance(Dbs, "save")
  /\ \/ /\ hotsync = "up"
        /\ handheld' = [handheld EXCEPT ![Dbs[next]] = temp[Dbs[next]]]
     \/ /\ hotsync # "up" \/ "install" \in Faults
        /\ UNCHANGED handheld
  /\ UNCHANGED <<local, link, temp, prev, history>>

-----------------------------------------------------------------------------
(* save_as_previous_pdbs() *)

\* _cp() opens its target with O_TRUNC ...
SaveOpens ==
  /\ step = "save"
  /\ prev[Kept[next]].cycle # cycles
  /\ prev' = [prev EXCEPT ![Kept[next]] = [contents |-> Cut, cycle |-> cycles]]
  /\ UNCHANGED <<step, next, local, link, handheld, temp, history>>

\* Seeded fault: with what was fetched, not with what was written.
SaveCopiesFetched ==
  /\ step = "save"
  /\ prev[Kept[next]].cycle = cycles
  /\ prev' = [prev EXCEPT ![Kept[next]].contents = seen[Kept[next]]]
  /\ Advance(Kept, "free")
  /\ UNCHANGED <<local, link, handheld, temp, history>>

\* ... and fills it,
SaveCopies ==
  /\ step = "save"
  /\ prev[Kept[next]].cycle = cycles
  /\ prev' = [prev EXCEPT ![Kept[next]].contents = temp[Kept[next]]]
  /\ Advance(Kept, "free")
  /\ UNCHANGED <<local, link, handheld, temp, history>>

\* Seeded fault: a file that cannot be kept is passed over.
SaveFailsGoesOn ==
  /\ step = "save"
  /\ "save" \in Faults
  /\ Advance(Kept, "free")
  /\ UNCHANGED <<local, link, handheld, temp, prev, history>>

\* ... or fails before it opened it or after,
SaveFails ==
  /\ step = "save"
  /\ "save" \in Faults
  /\ Fail("free")
  /\ UNCHANGED <<next, dryRun, waitLeft, result, link, handheld, temp, prev,
                 history>>

\* ... at the latest when it closes the files, with everything copied.
SaveCloseFails ==
  /\ step = "save"
  /\ "save" \in Faults
  /\ prev[Kept[next]].cycle = cycles
  /\ prev' = [prev EXCEPT ![Kept[next]].contents = temp[Kept[next]]]
  /\ Fail("free")
  /\ UNCHANGED <<next, dryRun, waitLeft, result, link, handheld, temp, history>>

-----------------------------------------------------------------------------
(* palm_free() and palm_close() *)

\* Seeded fault: nothing is removed as soon as one database has no file.
PalmFreeAllOrNothing ==
  /\ step = "free"
  /\ step' = "close"
  /\ temp' = IF \E db \in Names(Dbs) : temp[db] = NoFile THEN temp ELSE NoFiles
  /\ UNCHANGED <<next, local, link, handheld, prev, history>>

PalmFree ==
  /\ step = "free"
  /\ step' = "close"
  /\ temp' = NoFiles
  /\ UNCHANGED <<next, local, link, handheld, prev, history>>

PalmClose ==
  /\ step = "close"
  /\ step' = "wait"
  /\ open' = open - 1
  /\ hotsync' = HotSyncAfterClose
  /\ waitLeft' = CloseWait
  /\ UNCHANGED <<next, dryRun, failed, result, handheld, temp, prev, history>>

\* Seeded fault: the seconds are not counted.
WaitForDeviceForever ==
  /\ step = "wait"
  /\ waitLeft > 0
  /\ NodeExists
  /\ UNCHANGED vars

\* A second passes.  The node may disappear, and come back, meanwhile.
WaitForDevice ==
  /\ step = "wait"
  /\ waitLeft > 0
  /\ NodeExists
  /\ waitLeft' = waitLeft - 1
  /\ UNCHANGED <<step, next, dryRun, failed, result, link, handheld, temp, prev,
                 history>>

SyncReturns ==
  /\ step = "wait"
  /\ waitLeft = 0 \/ ~NodeExists
  /\ step' = "idle"
  /\ result' = IF failed \/ waitLeft = 0 THEN "error" ELSE "ok"
  /\ UNCHANGED <<next, dryRun, failed, waitLeft, link, handheld, temp, prev,
                 history>>

-----------------------------------------------------------------------------
(* The process ends in the middle of a cycle: the kernel closes what is open,
   the temporary files stay under the name of a pid that is gone. *)

ProcessEnds ==
  /\ step' = "idle"
  /\ result' = "none"
  /\ next' = 1
  /\ failed' = FALSE
  /\ open' = 0
  /\ hotsync' = HotSyncAfterClose
  /\ temp' = NoFiles
  /\ leaked' = 0
  /\ UNCHANGED <<dryRun, waitLeft, handheld, prev, seen, fresh, edits, cycles>>

\* The parser of the org-file gives up: yyerror() calls exit().
ParserExits ==
  /\ step = "memos"
  /\ temp["MemoDB"] # NoFile
  /\ "parse" \in Faults
  /\ ProcessEnds

Crash ==
  /\ "crash" \in Faults
  /\ step # "idle"
  /\ ProcessEnds

Sync ==
  \/ PalmSocket \/ PalmSocketFails \/ PalmBind \/ PalmAccept \/ PalmGreet
  \/ PalmOpenFails \/ CheckPrevious \/ CheckPreviousFails
  \/ PalmReadFails \/ PalmReadDatabase
  \/ SyncMemosDry \/ SyncMemosWrites \/ SyncMemosFails
  \/ PalmWriteRefuses \/ PalmWriteDatabase
  \/ SaveOpens \/ SaveCopies \/ SaveFails \/ SaveCloseFails
  \/ PalmFree \/ PalmClose \/ WaitForDevice \/ SyncReturns

Next == Handheld \/ Sync \/ ParserExits \/ Crash

Spec == Init /\ [][Next]_vars

\* The daemon keeps running, and a handheld whose connection was closed goes
\* away.  Nothing makes the owner act or an operation fail.
Fairness == WF_vars(Sync) /\ WF_vars(DeviceGone)
FairSpec == Spec /\ Fairness
-----------------------------------------------------------------------------
(* Properties *)

Steps == {"idle", "bind", "accept", "greet", "check", "read", "memos", "write",
          "save", "free", "close", "wait"}
Contents == Nat \cup {NoFile, Cut}

\* Every variable has its type.
TypeOK ==
  /\ step \in Steps
  /\ next \in DOMAIN Dbs
  /\ step = "save" => next \in DOMAIN Kept
  /\ dryRun \in BOOLEAN
  /\ failed \in BOOLEAN
  /\ waitLeft \in 0..CloseWait
  /\ result \in {"none", "ok", "error", "not_connected"}
  /\ open \in Nat
  /\ hotsync \in {"off", "ready", "up", "ending"}
  /\ handheld \in [Names(Dbs) -> Contents]
  /\ temp \in [Names(Dbs) -> Contents]
  /\ prev \in [Names(Kept) -> [contents : Contents, cycle : Nat]]
  /\ seen \in [Names(Dbs) -> Contents]
  /\ fresh \in Nat
  /\ leaked \in Nat
  /\ edits \in Nat
  /\ cycles \in Nat

\* "Remove unnecessary temporary PDB-file" (palm.h:44): once a cycle is over, no
\* file of it is left in /tmp, whichever of its operations failed.
NoTempLeft == step \in {"idle", "close", "wait"} => temp = NoFiles

\* "Device must be closed" (palm.h:39-40): between two cycles the process holds no
\* descriptor of the device, whichever path ended the last one, but for those of
\* the cycles that check_previous_pdbs() ended: sync_this() returns without a call
\* of palm_close() there (sync.c:51-55).
DeviceClosed == step = "idle" => open = leaked

\* What a cycle installs never overwrites something it has not fetched: while it
\* writes, the handheld's copy of a database that changes is the one fetched in
\* this very cycle, and the only database that changes is MemoDB.
NoStaleWrite ==
  [][step = "write" /\ edits' = edits =>
       \A db \in Names(Dbs) : handheld'[db] # handheld[db] =>
         db = "MemoDB" /\ handheld[db] = seen[db]]_vars

\* The previous files are kept in one order: where a cycle was cut short, the
\* files up to some point are its own and those after it older.  A file of Memos
\* newer than that of Datebook would mean that one was skipped.
PreviousInOrder ==
  \A i, j \in DOMAIN Kept :
    i <= j => prev[Kept[i]].cycle >= prev[Kept[j]].cycle

\* A previous file is only ever replaced after every database has been offered to
\* the handheld in the same cycle, and by the very contents that were offered.
KeptIsOffered ==
  [][\A db \in Names(Kept) : prev'[db] # prev[db] =>
       /\ step = "save"
       /\ ~dryRun
       /\ \A other \in Names(Dbs) : temp[other] # NoFile
       /\ prev'[db].contents \in {Cut, temp[db]}]_vars

\* The calls of sync_this() implement the abstract specification of an exchange: from
\* what is fetched on to what is offered and kept, whatever fails, and nowhere a step
\* of one exchange after another of the next.
Phase ==
  CASE step = "write" -> "offering"
    [] step = "save"  -> "keeping"
    [] step = "free"  -> "over"
    [] OTHER          -> "fetching"
Left ==
  CASE step = "write" -> {Dbs[i] : i \in next..Len(Dbs)}
    [] step = "save"  -> {Kept[i] : i \in next..Len(Kept)}
    [] OTHER          -> {}
Abstract == INSTANCE Exchange WITH
  Databases <- Names(Dbs), Previous <- Names(Kept), Memos <- "MemoDB",
  copies <- temp, kept <- [db \in Names(Kept) |-> prev[db].contents],
  phase <- Phase, left <- Left, linked <- hotsync = "up", simulated <- dryRun
Exchanges == Abstract!Spec

\* "If non-zero - do not sync data, just simulate process." (sync.h:36-37): in a
\* dry cycle the daemon changes neither a database nor a previous file.
DryRunTouchesNothing ==
  [][dryRun /\ edits' = edits => UNCHANGED <<handheld, prev>>]_vars

\* "0 if write successfull, otherwise -1" (palm.h:92), "Zero on success, non-zero
\* value when sync failed." (sync.h:55): where sync_this() comes to palm_close()
\* without an error of a cycle that is not simulated, the handheld has taken what
\* it was offered and the previous files agree with it.
Agreed == \A db \in Names(Kept) : prev[db].contents = handheld[db]
SuccessMeansSynchronized == [][step = "close" /\ ~failed /\ ~dryRun => Agreed]_vars

\* That is so if the connection still stands then, provided that the handheld does
\* not refuse a database over a connection that stands.
LinkedSuccessSynchronizes ==
  [][step = "close" /\ ~failed /\ ~dryRun /\ hotsync = "up" => Agreed]_vars

\* The inductive invariant behind the safety properties.  Nothing is fetched before
\* palm_read(), and what is offered or kept is complete and not simulated.
NothingFetchedYet ==
  /\ step \in {"bind", "accept", "greet", "check", "memos"} => next = 1
  /\ step \in {"idle", "bind", "accept", "greet", "check", "close", "wait"}
       \/ (step = "read" /\ next = 1) => temp = NoFiles
OfferIsComplete ==
  step = "save" \/ (step = "write" /\ next > 1) =>
    \A db \in Names(Dbs) : temp[db] # NoFile
DryStopsEarly == step \in {"write", "save"} => ~dryRun

\* A cycle holds one descriptor until palm_close().
OneDescriptor == open = leaked + (IF step \in {"idle", "wait"} THEN 0 ELSE 1)

\* No previous file is of a later cycle; those of this one are the first ones.
PreviousByCycle ==
  /\ \A db \in Names(Kept) : prev[db].cycle <= cycles
  /\ step \notin {"idle", "save", "free", "close", "wait"} =>
       \A db \in Names(Kept) : prev[db].cycle < cycles
  /\ step = "save" => \A i \in DOMAIN Kept :
       /\ i < next => prev[Kept[i]].cycle = cycles
       /\ i > next => prev[Kept[i]].cycle < cycles

\* While the connection stands, the handheld has what was fetched from it.
HandheldAsFetched ==
  hotsync = "up" =>
    /\ step \in {"read", "memos"} =>
         \A db \in Names(Dbs) : temp[db] # NoFile =>
           temp[db] = seen[db] /\ handheld[db] = seen[db]
    /\ step = "write" =>
         /\ \A db \in Names(Dbs) \ {"MemoDB"} : temp[db] # NoFile =>
              temp[db] = seen[db] /\ handheld[db] = seen[db]
         /\ next <= 2 /\ temp["MemoDB"] # NoFile => handheld["MemoDB"] = seen["MemoDB"]

IInv ==
  /\ TypeOK
  /\ NothingFetchedYet
  /\ OfferIsComplete
  /\ DryStopsEarly
  /\ OneDescriptor
  /\ PreviousByCycle
  /\ PreviousInOrder
  /\ HandheldAsFetched

\* Behind LinkedSuccessSynchronizes: what has been installed is on the handheld, what
\* has been kept is in the previous files.
LinkedProgress ==
  hotsync = "up" /\ ~failed /\ ~dryRun =>
    /\ step = "write" => \A i \in DOMAIN Dbs :
         i < next => handheld[Dbs[i]] = temp[Dbs[i]]
    /\ step = "save" =>
         /\ \A db \in Names(Dbs) : handheld[db] = temp[db]
         /\ \A i \in DOMAIN Kept : i < next => prev[Kept[i]].contents = temp[Kept[i]]
    /\ step \in {"free", "close"} => Agreed

\* Every call of sync_this() returns, unless a cycle of this process left its
\* connection open: the handheld stays in that HotSync.
CycleEnds == step # "idle" ~> step = "idle" \/ leaked > 0

\* "Without it Palm PDA stays connected to the system via HotSync!" (palm.h:100):
\* with the same exception no handheld stays in a HotSync that has been accepted.
HotSyncEnds == hotsync = "up" ~> hotsync # "up" \/ leaked > 0
=============================================================================
