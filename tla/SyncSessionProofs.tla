-------------------------- MODULE SyncSessionProofs --------------------------
(***************************************************************************)
(* Theorems about SyncSession, for any faults and any number of edits and  *)
(* cycles: what a cycle leaves behind, whatever ended it.                  *)
(***************************************************************************)
EXTENDS SyncSession, TLAPS

\* The lists of databases, spelled out for the provers.
LEMMA Databases ==
  /\ DOMAIN Dbs = 1..4 /\ Len(Dbs) = 4
  /\ DOMAIN Kept = 1..3 /\ Len(Kept) = 3
  /\ Dbs[1] = "DatebookDB" /\ Dbs[2] = "MemoDB"
  /\ Dbs[3] = "ToDoDB" /\ Dbs[4] = "TasksDB-PTod"
  /\ Kept[1] = "DatebookDB" /\ Kept[2] = "MemoDB" /\ Kept[3] = "ToDoDB"
BY DEF Dbs, Kept

LEMMA DatabaseNames ==
  /\ Names(Dbs) = {"DatebookDB", "MemoDB", "ToDoDB", "TasksDB-PTod"}
  /\ Names(Kept) = {"DatebookDB", "MemoDB", "ToDoDB"}
<1>1. \A db : db \in Names(Dbs) <=> \E i \in 1..4 : db = Dbs[i]
  BY Databases DEF Names
<1>2. \A db : db \in Names(Kept) <=> \E i \in 1..3 : db = Kept[i]
  BY Databases DEF Names
<1>3. 1..4 = {1, 2, 3, 4} /\ 1..3 = {1, 2, 3}
  OBVIOUS
<1>4. \A db : db \in Names(Dbs) <=> db = Dbs[1] \/ db = Dbs[2] \/ db = Dbs[3] \/ db = Dbs[4]
  BY <1>1, <1>3
<1>5. \A db : db \in Names(Kept) <=> db = Kept[1] \/ db = Kept[2] \/ db = Kept[3]
  BY <1>2, <1>3
<1>. QED
  BY <1>4, <1>5, Databases

LEMMA ContentsOfFiles == NoFile \in Contents /\ Cut \in Contents /\ Nat \subseteq Contents
BY DEF Contents

\* A new process of the daemon starts with no descriptor and no file.
LEMMA InitHolds == Init => IInv
<1> SUFFICES ASSUME Init PROVE IInv
  OBVIOUS
<1>1. TypeOK
  <2>1. NoFiles \in [Names(Dbs) -> Contents]
    BY ContentsOfFiles DEF NoFiles
  <2>2. handheld \in [Names(Dbs) -> Contents]
    BY ContentsOfFiles DEF Init
  <2>3. prev \in [Names(Kept) -> [contents : Contents, cycle : Nat]]
    BY ContentsOfFiles DEF Init
  <2>4. /\ step \in Steps
        /\ result \in {"none", "ok", "error", "not_connected"}
        /\ hotsync \in {"off", "ready", "up", "ending"}
        /\ step # "save"
    BY DEF Init, Steps
  <2>5. /\ next \in DOMAIN Dbs
        /\ waitLeft \in 0..CloseWait
    BY Databases, NumbersOK DEF Init
  <2>6. /\ open \in Nat /\ fresh \in Nat /\ leaked \in Nat
        /\ edits \in Nat /\ cycles \in Nat
    BY DEF Init
  <2>7. dryRun \in BOOLEAN /\ failed \in BOOLEAN
    BY DEF Init
  <2>. QED
    BY <2>1, <2>2, <2>3, <2>4, <2>5, <2>6, <2>7 DEF Init, TypeOK
<1>2. NothingFetchedYet /\ OfferIsComplete /\ DryStopsEarly /\ OneDescriptor
  BY DEF Init, NothingFetchedYet, OfferIsComplete, DryStopsEarly, OneDescriptor
<1>3. PreviousByCycle
  BY DEF Init, PreviousByCycle
<1>4. PreviousInOrder
  BY Databases, DatabaseNames DEF Init, PreviousInOrder
<1>5. HandheldAsFetched
  BY DEF Init, HandheldAsFetched
<1>. QED
  BY <1>1, <1>2, <1>3, <1>4, <1>5 DEF IInv

\* After a stuttering step nothing has changed.
LEMMA StutterHolds ==
  ASSUME IInv, UNCHANGED vars
  PROVE  IInv'
BY DEF IInv, vars, TypeOK, NothingFetchedYet, OfferIsComplete, DryStopsEarly,
       OneDescriptor, PreviousByCycle, PreviousInOrder, HandheldAsFetched

-----------------------------------------------------------------------------
(* Types *)

LEMMA TypeOfHandheld ==
  ASSUME IInv, Handheld
  PROVE  TypeOK'
<1> USE DEF IInv
<1>1. ASSUME NEW db \in Names(Dbs), OwnerEdits(db) PROVE TypeOK'
  BY <1>1, ContentsOfFiles DEF OwnerEdits, TypeOK, local, link
<1>2. CASE PressHotSync \/ LinkLost \/ DeviceGone
  BY <1>2 DEF PressHotSync, LinkLost, DeviceGone, TypeOK, local, history
<1>. QED
  BY <1>1, <1>2 DEF Handheld

LEMMA TypeOfOpening ==
  ASSUME IInv,
         PalmSocket \/ PalmSocketFails \/ PalmBind \/ PalmAccept \/ PalmGreet
           \/ PalmOpenFails \/ CheckPrevious \/ CheckPreviousFails \/ PalmReadFails
  PROVE  TypeOK'
<1> USE DEF IInv
<1>1. CASE PalmSocket
  <2>1. NoFiles \in [Names(Dbs) -> Contents]
    BY ContentsOfFiles DEF NoFiles
  <2>2. dryRun' \in BOOLEAN /\ failed' \in BOOLEAN
    BY <1>1, SetsOK DEF PalmSocket
  <2>3. /\ step' = "bind" /\ next' = 1 /\ result' = "none" /\ seen' = NoFiles
        /\ open' = open + 1 /\ cycles' = cycles + 1
        /\ UNCHANGED <<waitLeft, hotsync, handheld, temp, prev, fresh, leaked, edits>>
    BY <1>1 DEF PalmSocket
  <2>. QED
    BY <2>1, <2>2, <2>3, Databases DEF TypeOK, Steps
<1>2. CASE PalmBind \/ PalmAccept \/ PalmGreet \/ CheckPrevious
  BY <1>2 DEF PalmBind, PalmAccept, PalmGreet, CheckPrevious, TypeOK, Steps, local,
              link, history
<1>3. CASE PalmOpenFails
  <2>1. open' \in Nat
    BY <1>3 DEF PalmOpenFails, OpenError, OneDescriptor, TypeOK
  <2>2. hotsync' \in {"off", "ready", "up", "ending"}
    BY <1>3 DEF PalmOpenFails, HotSyncAfterClose, TypeOK
  <2>. QED
    <3>1. /\ step' = "idle" /\ result' = "not_connected"
          /\ UNCHANGED <<next, dryRun, failed, waitLeft, handheld, temp, prev, history>>
      BY <1>3 DEF PalmOpenFails
    <3>. QED
      BY <2>1, <2>2, <3>1 DEF TypeOK, Steps, history
<1>4. CASE CheckPreviousFails
  BY <1>4 DEF CheckPreviousFails, TypeOK, Steps, link
<1>5. CASE PalmReadFails
  BY <1>5 DEF PalmReadFails, TypeOK, Steps, link, history
<1>6. CASE PalmSocketFails
  BY <1>6 DEF PalmSocketFails, TypeOK, link
<1>. QED
  BY <1>1, <1>2, <1>3, <1>4, <1>5, <1>6

\* The index of the next database stays one of a database.
LEMMA AdvanceInBounds ==
  ASSUME TypeOK, NEW after \in Steps,
         \/ Advance(Dbs, after) /\ step # "save" /\ (after = "save" => next = 4)
         \/ Advance(Dbs, after) /\ step # "save"
         \/ Advance(Kept, after) /\ step = "save" /\ after # "save"
  PROVE  /\ step' \in Steps
         /\ next' \in DOMAIN Dbs
         /\ step' = "save" => next' \in DOMAIN Kept
BY Databases DEF Advance, TypeOK

LEMMA TypeOfTransfer ==
  ASSUME IInv,
         PalmReadDatabase \/ PalmWriteDatabase \/ SaveOpens \/ SaveCopies \/ SaveFails
           \/ SaveCloseFails
  PROVE  TypeOK'
<1> USE DEF IInv
<1>1. CASE PalmReadDatabase
  <2>1. /\ step' \in Steps
        /\ next' \in DOMAIN Dbs
        /\ step' = "save" => next' \in DOMAIN Kept
    BY <1>1, AdvanceInBounds DEF PalmReadDatabase, Steps
  <2>2. temp' \in [Names(Dbs) -> Contents] /\ seen' \in [Names(Dbs) -> Contents]
    <3>1. Dbs[next] \in Names(Dbs)
      BY DEF TypeOK, Names
    <3>. QED
      BY <1>1, <3>1 DEF PalmReadDatabase, TypeOK
  <2>. QED
    BY <1>1, <2>1, <2>2 DEF PalmReadDatabase, TypeOK, local, link
<1>2. CASE PalmWriteDatabase
  <2>1. /\ step' \in Steps
        /\ next' \in DOMAIN Dbs
        /\ step' = "save" => next' \in DOMAIN Kept
    BY <1>2, AdvanceInBounds DEF PalmWriteDatabase, Steps
  <2>2. handheld' \in [Names(Dbs) -> Contents]
    <3>1. Dbs[next] \in Names(Dbs)
      BY DEF TypeOK, Names
    <3>. QED
      BY <1>2, <3>1 DEF PalmWriteDatabase, TypeOK
  <2>. QED
    BY <1>2, <2>1, <2>2 DEF PalmWriteDatabase, TypeOK, local, link, history
<1>3. CASE SaveOpens
  <2>1. prev' \in [Names(Kept) -> [contents : Contents, cycle : Nat]]
    BY <1>3, ContentsOfFiles DEF SaveOpens, TypeOK
  <2>. QED
    BY <1>3, <2>1 DEF SaveOpens, TypeOK, local, link, history
<1>4. CASE SaveCopies
  <2>1. /\ step' \in Steps
        /\ next' \in DOMAIN Dbs
        /\ step' = "save" => next' \in DOMAIN Kept
    BY <1>4, AdvanceInBounds DEF SaveCopies, Steps
  <2>2. prev' \in [Names(Kept) -> [contents : Contents, cycle : Nat]]
    <3>1. next \in DOMAIN Kept
      BY <1>4 DEF SaveCopies, TypeOK
    <3>2. Kept[next] \in Names(Kept) /\ Kept[next] \in Names(Dbs)
      BY <3>1, Databases, DatabaseNames DEF Names
    <3>. QED
      BY <1>4, <3>2 DEF SaveCopies, TypeOK
  <2>. QED
    BY <1>4, <2>1, <2>2 DEF SaveCopies, TypeOK, local, link, history
<1>5. CASE SaveFails
  BY <1>5 DEF SaveFails, Fail, TypeOK, Steps, link, history
<1>6. CASE SaveCloseFails
  <2>1. prev' \in [Names(Kept) -> [contents : Contents, cycle : Nat]]
    <3>1. Kept[next] \in Names(Kept) /\ Kept[next] \in Names(Dbs)
      BY <1>6, Databases, DatabaseNames DEF SaveCloseFails, TypeOK, Names
    <3>. QED
      BY <1>6, <3>1 DEF SaveCloseFails, TypeOK
  <2>. QED
    BY <1>6, <2>1 DEF SaveCloseFails, Fail, TypeOK, Steps, link, history
<1>. QED
  BY <1>1, <1>2, <1>3, <1>4, <1>5, <1>6

LEMMA TypeOfMemos ==
  ASSUME IInv, SyncMemosDry \/ SyncMemosWrites \/ SyncMemosFails \/ PalmWriteRefuses
  PROVE  TypeOK'
<1> USE DEF IInv
<1>1. CASE SyncMemosDry
  BY <1>1 DEF SyncMemosDry, TypeOK, Steps, local, link, history
<1>2. CASE SyncMemosWrites
  <2>1. temp' \in [Names(Dbs) -> Contents]
    BY <1>2, ContentsOfFiles DEF SyncMemosWrites, TypeOK
  <2>. QED
    BY <1>2, <2>1 DEF SyncMemosWrites, TypeOK, Steps, local, link
<1>3. CASE SyncMemosFails
  <2>1. temp' \in [Names(Dbs) -> Contents]
    BY <1>3, ContentsOfFiles DEF SyncMemosFails, TypeOK
  <2>. QED
    BY <1>3, <2>1 DEF SyncMemosFails, Fail, TypeOK, Steps, link, history
<1>4. CASE PalmWriteRefuses
  BY <1>4 DEF PalmWriteRefuses, Fail, TypeOK, Steps, link, history
<1>. QED
  BY <1>1, <1>2, <1>3, <1>4

LEMMA TypeOfClosing ==
  ASSUME IInv, PalmFree \/ PalmClose \/ WaitForDevice \/ SyncReturns \/ ProcessEnds
  PROVE  TypeOK'
<1> USE DEF IInv
<1>0. NoFiles \in [Names(Dbs) -> Contents]
  BY ContentsOfFiles DEF NoFiles
<1>1. CASE PalmFree
  BY <1>0, <1>1 DEF PalmFree, TypeOK, Steps, local, link, history
<1>2. CASE PalmClose
  <2>1. open' \in Nat
    BY <1>2 DEF PalmClose, OneDescriptor, TypeOK
  <2>2. waitLeft' \in 0..CloseWait
    BY <1>2, NumbersOK DEF PalmClose
  <2>3. hotsync' \in {"off", "ready", "up", "ending"}
    BY <1>2 DEF PalmClose, HotSyncAfterClose, TypeOK
  <2>. QED
    BY <1>2, <2>1, <2>2, <2>3 DEF PalmClose, TypeOK, Steps, history
<1>3. CASE WaitForDevice
  <2>1. waitLeft' \in 0..CloseWait
    BY <1>3, NumbersOK DEF WaitForDevice, TypeOK
  <2>. QED
    BY <1>3, <2>1 DEF WaitForDevice, TypeOK, link, history
<1>4. CASE SyncReturns
  BY <1>4 DEF SyncReturns, TypeOK, Steps, link, history
<1>5. CASE ProcessEnds
  <2>1. hotsync' \in {"off", "ready", "up", "ending"}
    BY <1>5 DEF ProcessEnds, HotSyncAfterClose, TypeOK
  <2>. QED
    <3>1. /\ step' = "idle" /\ result' = "none" /\ next' = 1 /\ open' = 0
          /\ temp' = NoFiles /\ leaked' = 0
          /\ UNCHANGED <<dryRun, waitLeft, handheld, prev, seen, fresh, edits, cycles>>
      BY <1>5 DEF ProcessEnds
    <3>2. failed' \in BOOLEAN
      BY <1>5 DEF ProcessEnds
    <3>. QED
      BY <1>0, <2>1, <3>1, <3>2, Databases DEF TypeOK, Steps
<1>. QED
  BY <1>1, <1>2, <1>3, <1>4, <1>5

LEMMA TypeHolds ==
  ASSUME IInv, Next
  PROVE  TypeOK'
BY TypeOfHandheld, TypeOfOpening, TypeOfTransfer, TypeOfMemos, TypeOfClosing
   DEF Next, Sync, ParserExits, Crash

-----------------------------------------------------------------------------
(* What the steps of a cycle rely on *)

\* The handheld and its owner do not touch what the daemon has.
LEMMA HandheldLeaves ==
  ASSUME Handheld
  PROVE  UNCHANGED <<step, next, local, open, temp, prev, seen, leaked, cycles>>
BY DEF Handheld, OwnerEdits, PressHotSync, LinkLost, DeviceGone, link, history

LEMMA NothingFetchedHolds ==
  ASSUME IInv, Next
  PROVE  NothingFetchedYet'
<1> USE DEF IInv
<1>1. CASE Handheld
  BY <1>1, HandheldLeaves DEF NothingFetchedYet
<1>2. CASE \/ PalmSocket \/ PalmSocketFails \/ PalmBind \/ PalmAccept \/ PalmGreet
          \/ PalmOpenFails
  BY <1>2 DEF PalmSocket, PalmSocketFails, link, PalmBind, PalmAccept, PalmGreet,
              PalmOpenFails, OpenError,
              NothingFetchedYet
<1>3. CASE CheckPrevious \/ CheckPreviousFails \/ PalmReadFails
  BY <1>3 DEF CheckPrevious, CheckPreviousFails, PalmReadFails, NothingFetchedYet
<1>4. CASE PalmReadDatabase
  BY <1>4, Databases DEF PalmReadDatabase, Advance, NothingFetchedYet, TypeOK
<1>5. CASE SyncMemosDry \/ SyncMemosWrites \/ SyncMemosFails \/ PalmWriteRefuses
  BY <1>5 DEF SyncMemosDry, SyncMemosWrites, SyncMemosFails, PalmWriteRefuses, Fail,
              NothingFetchedYet
<1>6. CASE PalmWriteDatabase \/ SaveOpens \/ SaveCopies \/ SaveFails \/ SaveCloseFails
  BY <1>6 DEF PalmWriteDatabase, SaveOpens, SaveCopies, SaveFails, SaveCloseFails,
              Fail, Advance,
              NothingFetchedYet
<1>7. CASE PalmFree \/ PalmClose \/ WaitForDevice \/ SyncReturns
  BY <1>7 DEF PalmFree, PalmClose, WaitForDevice, SyncReturns, NothingFetchedYet
<1>8. CASE ProcessEnds
  BY <1>8 DEF ProcessEnds, NothingFetchedYet
<1>. QED
  BY <1>1, <1>2, <1>3, <1>4, <1>5, <1>6, <1>7, <1>8
     DEF Next, Sync, ParserExits, Crash

LEMMA OfferHolds ==
  ASSUME IInv, Next
  PROVE  OfferIsComplete'
<1> USE DEF IInv
<1>1. CASE Handheld
  BY <1>1, HandheldLeaves DEF OfferIsComplete
<1>2. CASE \/ PalmSocket \/ PalmSocketFails \/ PalmBind \/ PalmAccept \/ PalmGreet
          \/ PalmOpenFails
  BY <1>2 DEF PalmSocket, PalmSocketFails, link, PalmBind, PalmAccept, PalmGreet,
              PalmOpenFails,
              OfferIsComplete
<1>3. CASE CheckPrevious \/ CheckPreviousFails \/ PalmReadFails
  BY <1>3 DEF CheckPrevious, CheckPreviousFails, PalmReadFails, OfferIsComplete
<1>4. CASE PalmReadDatabase
  BY <1>4 DEF PalmReadDatabase, Advance, OfferIsComplete
<1>5. CASE SyncMemosWrites
  <2>1. next = 1
    BY <1>5 DEF SyncMemosWrites, NothingFetchedYet
  <2>. QED
    BY <1>5, <2>1 DEF SyncMemosWrites, OfferIsComplete
<1>6. CASE SyncMemosDry \/ SyncMemosFails \/ PalmWriteRefuses
  BY <1>6 DEF SyncMemosDry, SyncMemosFails, PalmWriteRefuses, Fail, OfferIsComplete
<1>7. CASE PalmWriteDatabase
  BY <1>7 DEF PalmWriteDatabase, OfferIsComplete
<1>8. CASE SaveOpens \/ SaveCopies \/ SaveFails \/ SaveCloseFails
  BY <1>8 DEF SaveOpens, SaveCopies, SaveFails, SaveCloseFails, Fail, Advance,
              OfferIsComplete
<1>9. CASE PalmFree \/ PalmClose \/ WaitForDevice \/ SyncReturns \/ ProcessEnds
  BY <1>9 DEF PalmFree, PalmClose, WaitForDevice, SyncReturns, ProcessEnds,
              OfferIsComplete
<1>. QED
  BY <1>1, <1>2, <1>3, <1>4, <1>5, <1>6, <1>7, <1>8, <1>9
     DEF Next, Sync, ParserExits, Crash

LEMMA DryHolds ==
  ASSUME IInv, Next
  PROVE  DryStopsEarly'
<1> USE DEF IInv
<1>1. CASE Handheld
  BY <1>1, HandheldLeaves DEF DryStopsEarly, local
<1>2. CASE \/ PalmSocket \/ PalmSocketFails \/ PalmBind \/ PalmAccept \/ PalmGreet
          \/ PalmOpenFails
  BY <1>2 DEF PalmSocket, PalmSocketFails, link, PalmBind, PalmAccept, PalmGreet,
              PalmOpenFails, DryStopsEarly
<1>3. CASE CheckPrevious \/ CheckPreviousFails \/ PalmReadFails \/ PalmReadDatabase
  BY <1>3 DEF CheckPrevious, CheckPreviousFails, PalmReadFails, PalmReadDatabase,
              Advance, DryStopsEarly
<1>4. CASE SyncMemosDry \/ SyncMemosWrites \/ SyncMemosFails \/ PalmWriteRefuses
  BY <1>4 DEF SyncMemosDry, SyncMemosWrites, SyncMemosFails, PalmWriteRefuses, Fail,
              DryStopsEarly, local
<1>5. CASE PalmWriteDatabase \/ SaveOpens \/ SaveCopies \/ SaveFails \/ SaveCloseFails
  BY <1>5 DEF PalmWriteDatabase, SaveOpens, SaveCopies, SaveFails, SaveCloseFails,
              Fail, Advance,
              DryStopsEarly, local
<1>6. CASE PalmFree \/ PalmClose \/ WaitForDevice \/ SyncReturns \/ ProcessEnds
  BY <1>6 DEF PalmFree, PalmClose, WaitForDevice, SyncReturns, ProcessEnds,
              DryStopsEarly
<1>. QED
  BY <1>1, <1>2, <1>3, <1>4, <1>5, <1>6 DEF Next, Sync, ParserExits, Crash

LEMMA DescriptorHolds ==
  ASSUME IInv, Next
  PROVE  OneDescriptor'
<1> USE DEF IInv
<1>1. CASE Handheld
  BY <1>1, HandheldLeaves DEF OneDescriptor
<1>2. CASE PalmSocket \/ PalmSocketFails \/ PalmBind \/ PalmAccept \/ PalmGreet
  BY <1>2 DEF PalmSocket, PalmSocketFails, PalmBind, PalmAccept, PalmGreet,
              OneDescriptor, TypeOK, link,
              history
<1>3. CASE PalmOpenFails
  BY <1>3 DEF PalmOpenFails, OpenError, OneDescriptor, TypeOK, history
<1>4. CASE CheckPrevious \/ CheckPreviousFails \/ PalmReadFails \/ PalmReadDatabase
  BY <1>4 DEF CheckPrevious, CheckPreviousFails, PalmReadFails, PalmReadDatabase,
              Advance, OneDescriptor, TypeOK, link, history
<1>5. CASE SyncMemosDry \/ SyncMemosWrites \/ SyncMemosFails \/ PalmWriteRefuses
  BY <1>5 DEF SyncMemosDry, SyncMemosWrites, SyncMemosFails, PalmWriteRefuses, Fail,
              OneDescriptor, link, history
<1>6. CASE PalmWriteDatabase \/ SaveOpens \/ SaveCopies \/ SaveFails \/ SaveCloseFails
  BY <1>6 DEF PalmWriteDatabase, SaveOpens, SaveCopies, SaveFails, SaveCloseFails,
              Fail, Advance,
              OneDescriptor, link, history
<1>7. CASE PalmFree \/ PalmClose \/ WaitForDevice \/ SyncReturns
  BY <1>7 DEF PalmFree, PalmClose, WaitForDevice, SyncReturns, OneDescriptor, TypeOK,
              link, history
<1>8. CASE ProcessEnds
  BY <1>8 DEF ProcessEnds, OneDescriptor
<1>. QED
  BY <1>1, <1>2, <1>3, <1>4, <1>5, <1>6, <1>7, <1>8
     DEF Next, Sync, ParserExits, Crash

-----------------------------------------------------------------------------
(* The previous files *)

\* No database is kept twice, and each that is kept is one that is fetched, at the
\* same place.
LEMMA KeptDiffer ==
  /\ \A i, j \in DOMAIN Kept : Kept[i] = Kept[j] => i = j
  /\ \A i \in DOMAIN Kept : Kept[i] \in Names(Kept) /\ Kept[i] \in Names(Dbs)
  /\ \A i \in DOMAIN Kept : i \in DOMAIN Dbs /\ Kept[i] = Dbs[i]
  /\ \A db \in Names(Kept) : \E i \in DOMAIN Kept : db = Kept[i]
  /\ \A i, j \in DOMAIN Dbs : Dbs[i] = Dbs[j] => i = j
  /\ \A i \in DOMAIN Dbs : Dbs[i] \in Names(Dbs)
  /\ \A db \in Names(Dbs) : \E i \in DOMAIN Dbs : db = Dbs[i]
<1>1. \A i \in DOMAIN Dbs : i = 1 \/ i = 2 \/ i = 3 \/ i = 4
  BY Databases
<1>2. \A i \in DOMAIN Kept : i = 1 \/ i = 2 \/ i = 3
  BY Databases
<1>3. \A i, j \in DOMAIN Kept : Kept[i] = Kept[j] => i = j
  BY <1>2, Databases
<1>4. \A i, j \in DOMAIN Dbs : Dbs[i] = Dbs[j] => i = j
  BY <1>1, Databases
<1>5. \A i \in DOMAIN Kept : i \in DOMAIN Dbs /\ Kept[i] = Dbs[i]
  BY <1>2, Databases
<1>. QED
  BY <1>3, <1>4, <1>5 DEF Names

LEMMA PreviousHolds ==
  ASSUME IInv, Next
  PROVE  PreviousByCycle' /\ PreviousInOrder'
<1> USE DEF IInv
<1>1. CASE Handheld
  BY <1>1, HandheldLeaves DEF PreviousByCycle, PreviousInOrder
<1>2. CASE PalmSocket
  BY <1>2 DEF PalmSocket, PreviousByCycle, PreviousInOrder, TypeOK
<1>10. CASE PalmSocketFails
  BY <1>10 DEF PalmSocketFails, PreviousByCycle, PreviousInOrder, TypeOK
<1>3. CASE PalmBind \/ PalmAccept \/ PalmGreet \/ PalmOpenFails
  BY <1>3 DEF PalmBind, PalmAccept, PalmGreet, PalmOpenFails, history,
              PreviousByCycle, PreviousInOrder
<1>4. CASE CheckPrevious \/ CheckPreviousFails \/ PalmReadFails \/ PalmReadDatabase
  BY <1>4 DEF CheckPrevious, CheckPreviousFails, PalmReadFails, PalmReadDatabase,
              Advance, history, PreviousByCycle, PreviousInOrder
<1>5. CASE SyncMemosDry \/ SyncMemosWrites \/ SyncMemosFails \/ PalmWriteRefuses
  BY <1>5 DEF SyncMemosDry, SyncMemosWrites, SyncMemosFails, PalmWriteRefuses, Fail,
              history, PreviousByCycle, PreviousInOrder
<1>6. CASE PalmWriteDatabase
  BY <1>6, KeptDiffer, Databases
     DEF PalmWriteDatabase, Advance, history, PreviousByCycle, PreviousInOrder
<1>7. CASE SaveOpens
  <2>1. next \in DOMAIN Kept /\ Kept[next] \in Names(Kept)
    BY <1>7, KeptDiffer DEF SaveOpens, TypeOK
  <2>2. /\ prev'[Kept[next]].cycle = cycles
        /\ \A db \in Names(Kept) : db # Kept[next] => prev'[db] = prev[db]
        /\ step' = "save" /\ step = "save" /\ next' = next /\ cycles' = cycles
    BY <1>7, <2>1 DEF SaveOpens, TypeOK, history
  <2>3. \A i \in DOMAIN Kept : i # next => prev'[Kept[i]] = prev[Kept[i]]
    BY <2>1, <2>2, KeptDiffer
  <2>4. PreviousByCycle'
    BY <2>1, <2>2, <2>3, KeptDiffer, Databases DEF PreviousByCycle, TypeOK
  <2>5. PreviousInOrder'
    BY <2>1, <2>2, <2>3, <2>4, KeptDiffer, Databases DEF PreviousByCycle,
                                                         PreviousInOrder, TypeOK
  <2>. QED
    BY <2>4, <2>5
<1>8. CASE SaveCopies \/ SaveCloseFails
  <2>1. next \in DOMAIN Kept /\ Kept[next] \in Names(Kept)
    BY <1>8, KeptDiffer DEF SaveCopies, SaveCloseFails, TypeOK
  <2>2. \A db \in Names(Kept) : prev'[db].cycle = prev[db].cycle
    <3>1. prev' = [prev EXCEPT ![Kept[next]].contents = temp[Kept[next]]]
      BY <1>8 DEF SaveCopies, SaveCloseFails
    <3>. QED
      BY <2>1, <3>1 DEF TypeOK
  <2>3. /\ cycles' = cycles /\ step = "save" /\ prev[Kept[next]].cycle = cycles
        /\ step' = "free" \/ (step' = "save" /\ next' = next + 1)
    BY <1>8 DEF SaveCopies, SaveCloseFails, Fail, Advance, history
  <2>4. PreviousByCycle'
    BY <2>1, <2>2, <2>3, KeptDiffer, Databases DEF PreviousByCycle, TypeOK
  <2>5. PreviousInOrder'
    BY <2>2, KeptDiffer DEF PreviousInOrder
  <2>. QED
    BY <2>4, <2>5
<1>9. CASE SaveFails \/ PalmFree \/ PalmClose \/ WaitForDevice \/ SyncReturns
           \/ ProcessEnds
  BY <1>9 DEF SaveFails, Fail, PalmFree, PalmClose, WaitForDevice, SyncReturns,
              ProcessEnds, history, PreviousByCycle, PreviousInOrder
<1>. QED
  BY <1>1, <1>2, <1>3, <1>4, <1>5, <1>6, <1>7, <1>8, <1>9, <1>10
     DEF Next, Sync, ParserExits, Crash

-----------------------------------------------------------------------------
(* The databases on the handheld *)

LEMMA HandheldHolds ==
  ASSUME IInv, Next
  PROVE  HandheldAsFetched'
<1> USE DEF IInv
<1>1. CASE Handheld
  BY <1>1 DEF Handheld, OwnerEdits, PressHotSync, LinkLost, DeviceGone, link,
              HandheldAsFetched
<1>2. CASE \/ PalmSocket \/ PalmSocketFails \/ PalmBind \/ PalmAccept \/ PalmGreet
          \/ PalmOpenFails
           \/ CheckPreviousFails \/ PalmReadFails
  BY <1>2 DEF PalmSocket, PalmSocketFails, link, PalmBind, PalmAccept, PalmGreet,
              PalmOpenFails,
              CheckPreviousFails, PalmReadFails, HandheldAsFetched
<1>3. CASE CheckPrevious
  BY <1>3 DEF CheckPrevious, NothingFetchedYet, NoFiles, HandheldAsFetched
<1>4. CASE PalmReadDatabase
  <2>1. step = "read" /\ step' \in {"read", "memos"}
        /\ UNCHANGED <<hotsync, handheld>>
    BY <1>4 DEF PalmReadDatabase, Advance, link
  <2>2. CASE UNCHANGED <<temp, seen>>
    BY <2>1, <2>2 DEF HandheldAsFetched
  <2>3. CASE /\ temp' = [temp EXCEPT ![Dbs[next]] = handheld[Dbs[next]]]
             /\ seen' = [seen EXCEPT ![Dbs[next]] = handheld[Dbs[next]]]
    BY <2>1, <2>3 DEF HandheldAsFetched, TypeOK
  <2>. QED
    BY <1>4, <2>2, <2>3 DEF PalmReadDatabase
<1>5. CASE SyncMemosWrites
  <2>1. /\ step = "memos" /\ temp["MemoDB"] # NoFile
        /\ temp' = [temp EXCEPT !["MemoDB"] = fresh]
        /\ step' = "write"
        /\ UNCHANGED <<hotsync, handheld, seen>>
    BY <1>5 DEF SyncMemosWrites, link
  <2>2. "MemoDB" \in Names(Dbs)
    BY DatabaseNames
  <2>3. \A db \in Names(Dbs) \ {"MemoDB"} : temp'[db] = temp[db]
    BY <2>1 DEF TypeOK
  <2>. QED
    BY <2>1, <2>2, <2>3 DEF HandheldAsFetched
<1>6. CASE SyncMemosDry \/ SyncMemosFails \/ PalmWriteRefuses
  BY <1>6 DEF SyncMemosDry, SyncMemosFails, PalmWriteRefuses, Fail, HandheldAsFetched
<1>7. CASE PalmWriteDatabase
  <2>0. SUFFICES ASSUME hotsync' = "up", step' = "write"
                 PROVE  HandheldAsFetched'
    BY <1>7 DEF PalmWriteDatabase, Advance, HandheldAsFetched
  <2>1. /\ step = "write" /\ hotsync = "up" /\ next' = next + 1
        /\ \A db \in Names(Dbs) : temp[db] # NoFile
        /\ UNCHANGED <<temp, seen>>
        /\ \/ handheld' = [handheld EXCEPT ![Dbs[next]] = temp[Dbs[next]]]
           \/ handheld' = handheld
    BY <1>7, <2>0 DEF PalmWriteDatabase, Advance, link, history
  <2>2. \A db \in Names(Dbs) \ {"MemoDB"} :
          handheld'[db] = handheld[db] \/ handheld'[db] = temp[db]
    BY <2>1 DEF TypeOK
  <2>3. next' <= 2 => handheld'["MemoDB"] = handheld["MemoDB"]
    <3>1. next' <= 2 => Dbs[next] = "DatebookDB"
      BY <2>1, Databases DEF TypeOK
    <3>2. "MemoDB" \in Names(Dbs) /\ "DatebookDB" # "MemoDB"
      BY DatabaseNames
    <3>. QED
      BY <2>1, <3>1, <3>2 DEF TypeOK
  <2>4. next' <= 2 => next <= 2
    BY <2>1, Databases DEF TypeOK
  <2>. QED
    BY <2>0, <2>1, <2>2, <2>3, <2>4 DEF HandheldAsFetched
<1>8. CASE SaveOpens \/ SaveCopies \/ SaveFails \/ SaveCloseFails
  BY <1>8 DEF SaveOpens, SaveCopies, SaveFails, SaveCloseFails, Fail, Advance,
              HandheldAsFetched
<1>9. CASE PalmFree \/ PalmClose \/ WaitForDevice \/ SyncReturns \/ ProcessEnds
  BY <1>9 DEF PalmFree, PalmClose, WaitForDevice, SyncReturns, ProcessEnds,
              HandheldAsFetched
<1>. QED
  BY <1>1, <1>2, <1>3, <1>4, <1>5, <1>6, <1>7, <1>8, <1>9
     DEF Next, Sync, ParserExits, Crash

-----------------------------------------------------------------------------
\* The inductive invariant holds in every state: any faults, edits and cycles.
THEOREM InvariantHolds == Spec => []IInv
<1>1. Init => IInv
  BY InitHolds
<1>2. IInv /\ [Next]_vars => IInv'
  <2> SUFFICES ASSUME IInv, [Next]_vars PROVE IInv'
    OBVIOUS
  <2>1. CASE Next
    BY <2>1, TypeHolds, NothingFetchedHolds, OfferHolds, DryHolds, DescriptorHolds,
       PreviousHolds, HandheldHolds DEF IInv
  <2>2. CASE UNCHANGED vars
    BY <2>2, StutterHolds
  <2>. QED
    BY <2>1, <2>2
<1>. QED
  BY <1>1, <1>2, PTL DEF Spec

\* Every variable of sync_this() and of the handheld has its type in every state.
THEOREM TypeCorrect == Spec => []TypeOK
<1>1. IInv => TypeOK
  BY DEF IInv
<1>. QED
  BY <1>1, InvariantHolds, PTL

\* Once a cycle is over no temporary file of it is left (palm.h:44).
THEOREM NoTempIsLeft == Spec => []NoTempLeft
<1>1. IInv => NoTempLeft
  BY DEF IInv, NothingFetchedYet, NoTempLeft
<1>. QED
  BY <1>1, InvariantHolds, PTL

\* Between two cycles the process holds no descriptor of the device (palm.h:39-40),
\* but for those of the cycles that check_previous_pdbs() ended.
THEOREM DeviceIsClosed == Spec => []DeviceClosed
<1>1. IInv => DeviceClosed
  BY DEF IInv, TypeOK, OneDescriptor, DeviceClosed
<1>. QED
  BY <1>1, InvariantHolds, PTL

\* No previous file is of a later cycle than one that is kept before it.
THEOREM PreviousStayInOrder == Spec => []PreviousInOrder
<1>1. IInv => PreviousInOrder
  BY DEF IInv
<1>. QED
  BY <1>1, InvariantHolds, PTL

-----------------------------------------------------------------------------
\* What a step of the cycle may change, whatever was done before.

\* A step leaves the previous files alone unless it is one of
\* save_as_previous_pdbs(), and the databases unless it is one of palm_write() or of
\* the owner.
LEMMA PrevLeftAlone ==
  ASSUME Next PROVE UNCHANGED prev \/ SaveOpens \/ SaveCopies \/ SaveCloseFails
BY DEF Next, Handheld, OwnerEdits, PressHotSync, LinkLost, DeviceGone, Sync,
       PalmSocket, PalmSocketFails, PalmBind, PalmAccept, PalmGreet, PalmOpenFails, CheckPrevious,
       CheckPreviousFails, PalmReadFails, PalmReadDatabase, SyncMemosDry,
       SyncMemosWrites, SyncMemosFails, PalmWriteRefuses, PalmWriteDatabase, SaveFails,
       PalmFree, PalmClose, WaitForDevice, SyncReturns, ParserExits, Crash, ProcessEnds,
       OpenError

LEMMA DatabasesLeftAlone ==
  ASSUME Next, edits' = edits, TypeOK PROVE UNCHANGED handheld \/ PalmWriteDatabase
<1>1. \A db \in Names(Dbs) : ~OwnerEdits(db)
  BY DEF OwnerEdits, TypeOK
<1>. QED
  BY <1>1 DEF Next, Handheld, PressHotSync, LinkLost, DeviceGone, Sync,
       PalmSocket, PalmSocketFails, PalmBind, PalmAccept, PalmGreet, PalmOpenFails, CheckPrevious,
       CheckPreviousFails, PalmReadFails, PalmReadDatabase, SyncMemosDry,
       SyncMemosWrites, SyncMemosFails, PalmWriteRefuses, SaveOpens, SaveCopies,
       SaveFails, SaveCloseFails, PalmFree, PalmClose, WaitForDevice, SyncReturns,
       ParserExits, Crash, ProcessEnds, OpenError

\* A previous file is only replaced by a cycle that fetched, merged and offered
\* every database: no error path and no simulated cycle comes to _cp().
THEOREM KeptWasOffered == Spec => KeptIsOffered
<1> DEFINE Step ==
      \A db \in Names(Kept) : prev'[db] # prev[db] =>
        /\ step = "save"
        /\ ~dryRun
        /\ \A other \in Names(Dbs) : temp[other] # NoFile
        /\ prev'[db].contents \in {Cut, temp[db]}
<1>1. IInv /\ [Next]_vars => [Step]_vars
  <2> SUFFICES ASSUME IInv, Next PROVE Step
    BY DEF vars
  <2>1. CASE UNCHANGED prev
    BY <2>1
  <2>2. CASE SaveOpens \/ SaveCopies \/ SaveCloseFails
    <3>1. step = "save" /\ ~dryRun /\ \A other \in Names(Dbs) : temp[other] # NoFile
      BY <2>2 DEF SaveOpens, SaveCopies, SaveCloseFails, IInv, DryStopsEarly,
                  OfferIsComplete
    <3>2. \/ prev' = [prev EXCEPT ![Kept[next]] = [contents |-> Cut, cycle |-> cycles]]
          \/ prev' = [prev EXCEPT ![Kept[next]].contents = temp[Kept[next]]]
      BY <2>2 DEF SaveOpens, SaveCopies, SaveCloseFails
    <3>3. prev \in [Names(Kept) -> [contents : Contents, cycle : Nat]]
      BY DEF IInv, TypeOK
    <3>4. ASSUME NEW db \in Names(Kept), prev'[db] # prev[db]
          PROVE  prev'[db].contents \in {Cut, temp[db]}
      <4>1. CASE prev' = [prev EXCEPT ![Kept[next]] =
                                          [contents |-> Cut, cycle |-> cycles]]
        BY <3>3, <3>4, <4>1
      <4>2. CASE prev' = [prev EXCEPT ![Kept[next]].contents = temp[Kept[next]]]
        BY <3>3, <3>4, <4>2
      <4>. QED
        BY <3>2, <4>1, <4>2
    <3>. QED
      BY <3>1, <3>4
  <2>. QED
    BY <2>1, <2>2, PrevLeftAlone
<1>. QED
  BY <1>1, InvariantHolds, PTL DEF Spec, KeptIsOffered

\* A simulated cycle (sync.h:36-37) replaces no database and no previous file.
THEOREM DryRunsTouchNothing == Spec => DryRunTouchesNothing
<1>1. IInv /\ [Next]_vars =>
        [dryRun /\ edits' = edits => UNCHANGED <<handheld, prev>>]_vars
  <2> SUFFICES ASSUME IInv, Next, dryRun, edits' = edits
               PROVE  UNCHANGED <<handheld, prev>>
    BY DEF vars
  <2>1. ~(SaveOpens \/ SaveCopies \/ SaveCloseFails \/ PalmWriteDatabase)
    BY DEF SaveOpens, SaveCopies, SaveCloseFails, PalmWriteDatabase, IInv, DryStopsEarly
  <2>. QED
    BY <2>1, PrevLeftAlone, DatabasesLeftAlone DEF IInv
<1>. QED
  BY <1>1, InvariantHolds, PTL DEF Spec, DryRunTouchesNothing

\* What palm_write() replaces is the memos, and only as they were when palm_read()
\* fetched them: no edit of the owner is written over.
THEOREM NothingStaleIsWritten == Spec => NoStaleWrite
<1> DEFINE Step ==
      step = "write" /\ edits' = edits =>
        \A db \in Names(Dbs) : handheld'[db] # handheld[db] =>
          db = "MemoDB" /\ handheld[db] = seen[db]
<1>1. IInv /\ [Next]_vars => [Step]_vars
  <2> SUFFICES ASSUME IInv, Next, step = "write", edits' = edits,
                      NEW db \in Names(Dbs), handheld'[db] # handheld[db]
               PROVE  db = "MemoDB" /\ handheld[db] = seen[db]
    BY DEF vars
  <2>1. PalmWriteDatabase
    BY DatabasesLeftAlone DEF IInv
  <2>2. /\ hotsync = "up"
        /\ handheld' = [handheld EXCEPT ![Dbs[next]] = temp[Dbs[next]]]
        /\ \A other \in Names(Dbs) : temp[other] # NoFile
    BY <2>1 DEF PalmWriteDatabase
  <2>3. db = Dbs[next] /\ handheld'[db] = temp[db]
    BY <2>2 DEF IInv, TypeOK
  <2>4. db = "MemoDB"
    <3>1. db # "MemoDB" => temp[db] = seen[db] /\ handheld[db] = seen[db]
      BY <2>2 DEF IInv, HandheldAsFetched
    <3>. QED
      BY <2>3, <3>1
  <2>5. next <= 2
    <3>1. next \in 1..4 /\ Dbs[next] = "MemoDB"
      BY <2>3, <2>4, Databases DEF IInv, TypeOK
    <3>2. next # 3 /\ next # 4
      BY <3>1, Databases
    <3>. QED
      BY <3>1, <3>2
  <2>. QED
    BY <2>2, <2>4, <2>5 DEF IInv, HandheldAsFetched
<1>. QED
  BY <1>1, InvariantHolds, PTL DEF Spec, NoStaleWrite

-----------------------------------------------------------------------------
\* The handheld that takes whatever it is offered over a connection that stands.

LEMMA LinkedProgressHolds ==
  ASSUME IInv, LinkedProgress, Next, "install" \notin Faults
  PROVE  LinkedProgress'
<1> SUFFICES ASSUME hotsync' = "up", ~failed', ~dryRun'
             PROVE  LinkedProgress'
  BY DEF LinkedProgress
<1> USE DEF IInv
<1>1. CASE Handheld
  BY <1>1 DEF Handheld, OwnerEdits, PressHotSync, LinkLost, DeviceGone, link
<1>2. CASE \/ PalmSocket \/ PalmSocketFails \/ PalmBind \/ PalmAccept \/ PalmGreet
          \/ PalmOpenFails
  BY <1>2 DEF PalmSocket, PalmSocketFails, link, PalmBind, PalmAccept, PalmGreet,
              PalmOpenFails, LinkedProgress
<1>3. CASE CheckPrevious \/ CheckPreviousFails \/ PalmReadFails \/ PalmReadDatabase
  BY <1>3 DEF CheckPrevious, CheckPreviousFails, PalmReadFails, PalmReadDatabase,
              Advance, LinkedProgress
<1>4. CASE SyncMemosDry \/ SyncMemosFails \/ PalmWriteRefuses \/ SaveFails \/ SaveCloseFails
  BY <1>4 DEF SyncMemosDry, SyncMemosFails, PalmWriteRefuses, SaveFails, SaveCloseFails,
              Fail, local
<1>5. CASE SyncMemosWrites
  BY <1>5, Databases DEF SyncMemosWrites, NothingFetchedYet, LinkedProgress
<1>6. CASE PalmWriteDatabase
  <2>1. /\ step = "write" /\ hotsync = "up" /\ ~failed /\ ~dryRun
        /\ handheld' = [handheld EXCEPT ![Dbs[next]] = temp[Dbs[next]]]
        /\ UNCHANGED <<temp, prev>>
        /\ \/ step' = "write" /\ next < 4 /\ next' = next + 1
           \/ step' = "save" /\ next' = 1 /\ next >= 4
    BY <1>6, Databases DEF PalmWriteDatabase, Advance, local, link, TypeOK
  <2>2. \A i \in DOMAIN Dbs : i < next => handheld[Dbs[i]] = temp[Dbs[i]]
    BY <2>1 DEF LinkedProgress
  <2>3. next \in 1..4 /\ handheld \in [Names(Dbs) -> Contents]
    BY Databases DEF TypeOK
  <2>4. \A i \in DOMAIN Dbs : i <= next => handheld'[Dbs[i]] = temp'[Dbs[i]]
    BY <2>1, <2>2, <2>3, KeptDiffer, Databases
  <2>5. CASE step' = "write" /\ next' = next + 1
    BY <2>3, <2>4, <2>5, Databases DEF LinkedProgress
  <2>6. CASE step' = "save" /\ next' = 1 /\ next >= 4
    <3>1. \A db \in Names(Dbs) : handheld'[db] = temp'[db]
      BY <2>3, <2>4, <2>6, KeptDiffer, Databases
    <3>. QED
      BY <2>6, <3>1, Databases DEF LinkedProgress
  <2>. QED
    BY <2>1, <2>5, <2>6
<1>7. CASE SaveOpens
  <2>1. /\ step = "save" /\ step' = "save" /\ next' = next
        /\ hotsync = "up" /\ ~failed /\ ~dryRun
        /\ prev' = [prev EXCEPT ![Kept[next]] = [contents |-> Cut, cycle |-> cycles]]
        /\ UNCHANGED <<handheld, temp>>
    BY <1>7 DEF SaveOpens, local, link
  <2>2. \A i \in DOMAIN Kept : i < next => prev[Kept[i]].contents = temp[Kept[i]]
    BY <2>1 DEF LinkedProgress
  <2>3. next \in DOMAIN Kept /\ prev \in [Names(Kept) -> [contents : Contents, cycle : Nat]]
    BY <2>1 DEF TypeOK
  <2>4. \A i \in DOMAIN Kept : i < next => prev'[Kept[i]] = prev[Kept[i]]
    BY <2>1, <2>3, KeptDiffer, Databases
  <2>. QED
    BY <2>1, <2>2, <2>4 DEF LinkedProgress
<1>8. CASE SaveCopies
  <2>1. /\ step = "save" /\ hotsync = "up" /\ ~failed /\ ~dryRun
        /\ prev' = [prev EXCEPT ![Kept[next]].contents = temp[Kept[next]]]
        /\ UNCHANGED <<handheld, temp>>
        /\ \/ step' = "save" /\ next < 3 /\ next' = next + 1
           \/ step' = "free" /\ next >= 3
    BY <1>8, Databases DEF SaveCopies, Advance, local, link, TypeOK
  <2>2. /\ \A db \in Names(Dbs) : handheld[db] = temp[db]
        /\ \A i \in DOMAIN Kept : i < next => prev[Kept[i]].contents = temp[Kept[i]]
    BY <2>1 DEF LinkedProgress
  <2>3. next \in 1..3 /\ prev \in [Names(Kept) -> [contents : Contents, cycle : Nat]]
    BY <2>1, Databases DEF TypeOK
  <2>4. \A i \in DOMAIN Kept : i <= next => prev'[Kept[i]].contents = temp'[Kept[i]]
    <3>1. Kept[next] \in Names(Kept) /\ prev'[Kept[next]].contents = temp[Kept[next]]
      BY <2>1, <2>3, KeptDiffer, Databases
    <3>2. \A i \in DOMAIN Kept : i < next => prev'[Kept[i]] = prev[Kept[i]]
      BY <2>1, <2>3, KeptDiffer, Databases
    <3>. QED
      BY <2>1, <2>2, <2>3, <3>1, <3>2, Databases
  <2>5. CASE step' = "save" /\ next' = next + 1
    BY <2>1, <2>2, <2>3, <2>4, <2>5, Databases DEF LinkedProgress
  <2>6. CASE step' = "free" /\ next >= 3
    <3>1. \A i \in DOMAIN Kept : prev'[Kept[i]].contents = handheld'[Kept[i]]
      BY <2>1, <2>2, <2>3, <2>4, <2>6, KeptDiffer, Databases
    <3>2. Agreed'
      BY <3>1, KeptDiffer DEF Agreed
    <3>. QED
      BY <2>6, <3>2 DEF LinkedProgress
  <2>. QED
    BY <2>1, <2>5, <2>6
<1>9. CASE PalmFree \/ PalmClose \/ WaitForDevice \/ SyncReturns \/ ProcessEnds
  BY <1>9 DEF PalmFree, PalmClose, WaitForDevice, SyncReturns, ProcessEnds, local, link,
              LinkedProgress, Agreed
<1>. QED
  BY <1>1, <1>2, <1>3, <1>4, <1>5, <1>6, <1>7, <1>8, <1>9
     DEF Next, Sync, ParserExits, Crash

\* A cycle that comes to palm_close() without an error, not simulated and over a
\* connection that still stands, leaves the handheld and the previous files with the
\* same contents, if the handheld refuses no database over such a connection.
THEOREM LinkedCyclesSynchronize ==
  ASSUME "install" \notin Faults
  PROVE  Spec => LinkedSuccessSynchronizes
<1>1. Init => IInv /\ LinkedProgress
  BY InitHolds DEF Init, LinkedProgress
<1>2. IInv /\ LinkedProgress /\ [Next]_vars => LinkedProgress'
  <2> SUFFICES ASSUME IInv, LinkedProgress, [Next]_vars PROVE LinkedProgress'
    OBVIOUS
  <2>1. CASE Next
    BY <2>1, LinkedProgressHolds
  <2>2. CASE UNCHANGED vars
    BY <2>2 DEF vars, local, link, history, LinkedProgress, Agreed
  <2>. QED
    BY <2>1, <2>2
<1>3. LinkedProgress =>
        (step = "close" /\ ~failed /\ ~dryRun /\ hotsync = "up" => Agreed)
  BY DEF LinkedProgress
<1>4. Spec => []LinkedProgress
  BY <1>1, <1>2, InvariantHolds, PTL DEF Spec
<1>. QED
  BY <1>3, <1>4, PTL DEF LinkedSuccessSynchronizes
-----------------------------------------------------------------------------
\* The calls of sync_this() implement the abstract specification of an exchange.

\* Databases still to be offered, and to be kept, when the next one is taken.
LEMMA LeftWhileWriting ==
  ASSUME IInv, step = "write"
  PROVE  /\ Dbs[next] \in Left
         /\ next < 4 => Left # {Dbs[next]}
                        /\ {Dbs[i] : i \in (next + 1)..4} = Left \ {Dbs[next]}
         /\ next >= 4 => Left = {Dbs[next]}
<1>1. next \in 1..4 /\ Left = {Dbs[i] : i \in next..4}
  BY Databases DEF IInv, TypeOK, Left
<1>2. CASE next = 1
  BY <1>1, <1>2, Databases
<1>3. CASE next = 2
  BY <1>1, <1>3, Databases
<1>4. CASE next = 3
  BY <1>1, <1>4, Databases
<1>5. CASE next = 4
  BY <1>1, <1>5, Databases
<1>6. next = 1 \/ next = 2 \/ next = 3 \/ next = 4
  BY <1>1
<1>. QED
  BY <1>2, <1>3, <1>4, <1>5, <1>6

LEMMA LeftWhileSaving ==
  ASSUME IInv, step = "save"
  PROVE  /\ Kept[next] \in Left
         /\ next < 3 => Left # {Kept[next]}
                        /\ {Kept[i] : i \in (next + 1)..3} = Left \ {Kept[next]}
         /\ next >= 3 => Left = {Kept[next]}
<1>1. next \in 1..3 /\ Left = {Kept[i] : i \in next..3}
  BY Databases DEF IInv, TypeOK, Left
<1>2. CASE next = 1
  BY <1>1, <1>2, Databases
<1>3. CASE next = 2
  BY <1>1, <1>3, Databases
<1>4. CASE next = 3
  BY <1>1, <1>4, Databases
<1>. QED
  BY <1>1, <1>2, <1>3, <1>4

\* Steps that only lead to palm_read(), or away from palm_close(), are not seen.
LEMMA OpeningIsStutter ==
  ASSUME IInv,
         \/ PressHotSync \/ DeviceGone \/ PalmSocketFails \/ PalmBind \/ PalmGreet \/ CheckPrevious
         \/ CheckPreviousFails \/ PalmReadFails \/ WaitForDevice \/ SyncReturns
  PROVE  UNCHANGED Abstract!vars
<1>1. UNCHANGED <<handheld, temp, prev, dryRun>>
  BY DEF PressHotSync, DeviceGone, PalmSocketFails, PalmBind, PalmGreet, CheckPrevious,
         CheckPreviousFails,
         PalmReadFails, WaitForDevice, SyncReturns, local, link, history
<1>2. (hotsync' = "up") = (hotsync = "up")
  BY DEF PressHotSync, DeviceGone, PalmSocketFails, PalmBind, PalmGreet, CheckPrevious,
         CheckPreviousFails,
         PalmReadFails, WaitForDevice, SyncReturns, local, link, history
<1>3. UNCHANGED <<Phase, Left>>
  BY DEF PressHotSync, DeviceGone, PalmSocketFails, PalmBind, PalmGreet, CheckPrevious,
         CheckPreviousFails,
         PalmReadFails, WaitForDevice, SyncReturns, Phase, Left
<1>. QED
  BY <1>1, <1>2, <1>3 DEF Abstract!vars

\* The connection that is closed, or lost.
LEMMA ClosingDisconnects ==
  ASSUME IInv, LinkLost \/ PalmOpenFails \/ PalmClose
  PROVE  Abstract!Disconnect \/ UNCHANGED Abstract!vars
<1>1. UNCHANGED <<handheld, temp, prev, dryRun>>
  BY DEF LinkLost, PalmOpenFails, PalmClose, local, history
<1>2. hotsync' = "up" => hotsync = "up"
  BY DEF LinkLost, PalmOpenFails, PalmClose, HotSyncAfterClose
<1>3. UNCHANGED <<Phase, Left>>
  BY DEF LinkLost, PalmOpenFails, OpenError, PalmClose, Phase, Left
<1>4. CASE hotsync = "up" /\ hotsync' # "up"
  BY <1>1, <1>3, <1>4 DEF Abstract!Disconnect
<1>5. CASE (hotsync' = "up") = (hotsync = "up")
  BY <1>1, <1>3, <1>5 DEF Abstract!vars
<1>. QED
  BY <1>2, <1>4, <1>5

LEMMA OpeningBegins ==
  ASSUME IInv
  PROVE  /\ PalmSocket => Abstract!Begin
         /\ PalmAccept => Abstract!Connect
<1>0. step \in {"idle", "accept"} => temp = Abstract!None
  BY DEF IInv, NothingFetchedYet, NoFiles, Abstract!None
<1>1. ASSUME PalmSocket PROVE Abstract!Begin
  <2>1. dryRun' \in BOOLEAN
    BY <1>1, SetsOK DEF PalmSocket
  <2>2. Phase = "fetching" /\ Phase' = "fetching" /\ UNCHANGED Left
    BY <1>1 DEF PalmSocket, Phase, Left
  <2>. QED
    BY <1>0, <1>1, <2>1, <2>2 DEF PalmSocket, Abstract!Begin
<1>2. ASSUME PalmAccept PROVE Abstract!Connect
  <2>1. Phase = "fetching" /\ Phase' = "fetching" /\ UNCHANGED Left
    BY <1>2 DEF PalmAccept, Phase, Left
  <2>2. hotsync = "ready" /\ hotsync' = "up"
    BY <1>2 DEF PalmAccept
  <2>. QED
    BY <1>0, <1>2, <2>1, <2>2 DEF PalmAccept, local, Abstract!Connect
<1>. QED
  BY <1>1, <1>2

LEMMA OwnerEditsAbstractly ==
  ASSUME IInv, NEW db \in Names(Dbs), OwnerEdits(db)
  PROVE  Abstract!Edit(db)
<1>1. handheld' = [handheld EXCEPT ![db] = handheld'[db]]
  BY DEF OwnerEdits, IInv, TypeOK
<1>2. UNCHANGED <<temp, prev, Phase, Left, hotsync, dryRun>> /\ hotsync # "up"
  BY DEF OwnerEdits, Phase, Left, local, link
<1>. QED
  BY <1>1, <1>2 DEF Abstract!Edit

LEMMA ReadFetches ==
  ASSUME IInv, PalmReadDatabase
  PROVE  Abstract!Fetch(Dbs[next]) \/ UNCHANGED Abstract!vars
<1>1. Phase = "fetching" /\ UNCHANGED <<Phase, Left>>
  BY DEF PalmReadDatabase, Advance, Phase, Left
<1>2. UNCHANGED <<handheld, prev, hotsync, dryRun>>
  BY DEF PalmReadDatabase, local, link
<1>3. CASE UNCHANGED temp
  BY <1>1, <1>2, <1>3 DEF Abstract!vars
<1>4. CASE hotsync = "up" /\ temp' = [temp EXCEPT ![Dbs[next]] = handheld[Dbs[next]]]
  BY <1>1, <1>2, <1>4 DEF Abstract!Fetch
<1>. QED
  BY <1>3, <1>4 DEF PalmReadDatabase

LEMMA MemosAreMerged ==
  ASSUME IInv, SyncMemosWrites
  PROVE  Abstract!Merge
<1>1. Phase = "fetching" /\ Phase' = "offering"
  BY DEF SyncMemosWrites, Phase
<1>2. Left' = Names(Dbs)
  <2>1. next' = 1 /\ step' = "write"
    BY DEF SyncMemosWrites, IInv, NothingFetchedYet
  <2>. QED
    BY <2>1, Databases DEF Left, Names
<1>3. temp' = [temp EXCEPT !["MemoDB"] = temp'["MemoDB"]]
  BY DatabaseNames DEF SyncMemosWrites, IInv, TypeOK
<1>4. ~dryRun /\ temp["MemoDB"] # NoFile /\ UNCHANGED <<handheld, prev, hotsync, dryRun>>
  BY DEF SyncMemosWrites, local, link
<1>. QED
  BY <1>1, <1>2, <1>3, <1>4 DEF Abstract!Merge

LEMMA FailureGivesUp ==
  ASSUME IInv, SyncMemosDry \/ SyncMemosFails \/ PalmWriteRefuses \/ SaveFails \/ SaveCloseFails
  PROVE  Abstract!GiveUp
<1> DEFINE kept == [db \in Names(Kept) |-> prev[db].contents]
<1>1. Phase # "over" /\ Phase' = "over" /\ Left' = {}
  BY DEF SyncMemosDry, SyncMemosFails, PalmWriteRefuses, SaveFails, SaveCloseFails, Fail,
         Phase, Left
<1>2. UNCHANGED <<handheld, hotsync, dryRun>>
  BY DEF SyncMemosDry, SyncMemosFails, PalmWriteRefuses, SaveFails, SaveCloseFails, Fail,
         local, link
<1>3. temp' \in {temp, [temp EXCEPT !["MemoDB"] = Cut]}
  BY DEF SyncMemosDry, SyncMemosFails, PalmWriteRefuses, SaveFails, SaveCloseFails
<1>4. \/ UNCHANGED kept
      \/ Phase = "keeping" /\ \E db \in Left : kept' = [kept EXCEPT ![db] = temp[db]]
  <2>1. CASE UNCHANGED prev
    BY <2>1
  <2>2. CASE SaveCloseFails
    <3>1. step = "save" /\ Phase = "keeping" /\ Kept[next] \in Left
      BY <2>2, LeftWhileSaving DEF SaveCloseFails, Phase
    <3>2. prev' = [prev EXCEPT ![Kept[next]].contents = temp[Kept[next]]]
      BY <2>2 DEF SaveCloseFails
    <3>3. prev \in [Names(Kept) -> [contents : Contents, cycle : Nat]]
      BY DEF IInv, TypeOK
    <3>4. kept' = [kept EXCEPT ![Kept[next]] = temp[Kept[next]]]
      BY <3>2, <3>3
    <3>. QED
      BY <3>1, <3>4
  <2>. QED
    BY <2>1, <2>2 DEF SyncMemosDry, SyncMemosFails, PalmWriteRefuses, SaveFails, link
<1>. QED
  BY <1>1, <1>2, <1>3, <1>4 DEF Abstract!GiveUp

LEMMA WriteOffers ==
  ASSUME IInv, PalmWriteDatabase
  PROVE  Abstract!Offer(Dbs[next])
<1>1. step = "write" /\ Phase = "offering" /\ Abstract!Complete
  BY DEF PalmWriteDatabase, Phase, Abstract!Complete
<1>2. \/ hotsync = "up" /\ handheld' = [handheld EXCEPT ![Dbs[next]] = temp[Dbs[next]]]
      \/ UNCHANGED handheld
  BY DEF PalmWriteDatabase
<1>3. UNCHANGED <<temp, prev, hotsync, dryRun>>
  BY DEF PalmWriteDatabase, local, link
<1>4. IF Left = {Dbs[next]} THEN Phase' = "keeping" /\ Left' = Names(Kept)
                            ELSE Phase' = Phase /\ Left' = Left \ {Dbs[next]}
  <2>1. CASE next < 4
    <3>1. step' = "write" /\ next' = next + 1
      BY <1>1, <2>1, Databases DEF PalmWriteDatabase, Advance
    <3>2. Left' = {Dbs[i] : i \in (next + 1)..4} /\ Phase' = Phase
      BY <1>1, <3>1, Databases DEF Left, Phase
    <3>. QED
      BY <1>1, <2>1, <3>2, LeftWhileWriting
  <2>2. CASE ~(next < 4)
    <3>1. step' = "save" /\ next' = 1
      BY <2>2, Databases DEF PalmWriteDatabase, Advance
    <3>2. Left' = Names(Kept) /\ Phase' = "keeping"
      BY <3>1, Databases DEF Left, Phase, Names
    <3>3. Left = {Dbs[next]}
      <4>1. next >= 4
        BY <2>2, Databases DEF IInv, TypeOK
      <4>. QED
        BY <1>1, <4>1, LeftWhileWriting
    <3>. QED
      BY <3>2, <3>3
  <2>. QED
    BY <2>1, <2>2
<1>5. Dbs[next] \in Left
  BY <1>1, LeftWhileWriting
<1>. QED
  BY <1>1, <1>2, <1>3, <1>4, <1>5 DEF Abstract!Offer

LEMMA SaveKeeps ==
  ASSUME IInv, NEW db \in Names(Kept), db = Kept[next]
  PROVE  /\ SaveOpens => Abstract!Replace(db)
         /\ SaveCopies => Abstract!Keep(db)
<1> DEFINE kept == [other \in Names(Kept) |-> prev[other].contents]
<1>0. prev \in [Names(Kept) -> [contents : Contents, cycle : Nat]]
  BY DEF IInv, TypeOK
<1>1. ASSUME SaveOpens PROVE Abstract!Replace(db)
  <2>1. step = "save" /\ Phase = "keeping" /\ UNCHANGED <<Phase, Left>>
    BY <1>1 DEF SaveOpens, Phase, Left
  <2>2. prev' = [prev EXCEPT ![Kept[next]] = [contents |-> Cut, cycle |-> cycles]]
    BY <1>1 DEF SaveOpens
  <2>3. kept' = [kept EXCEPT ![db] = Cut]
    BY <1>0, <2>2
  <2>4. UNCHANGED <<handheld, temp, hotsync, dryRun>>
    BY <1>1 DEF SaveOpens, local, link
  <2>. QED
    BY <2>1, <2>3, <2>4, LeftWhileSaving DEF Abstract!Replace
<1>2. ASSUME SaveCopies PROVE Abstract!Keep(db)
  <2>1. step = "save" /\ Phase = "keeping"
    BY <1>2 DEF SaveCopies, Phase
  <2>2. prev' = [prev EXCEPT ![Kept[next]].contents = temp[Kept[next]]]
    BY <1>2 DEF SaveCopies
  <2>3. kept' = [kept EXCEPT ![db] = temp[db]]
    BY <1>0, <2>2
  <2>4. UNCHANGED <<handheld, temp, hotsync, dryRun>>
    BY <1>2 DEF SaveCopies, local, link
  <2>5. /\ Left' = Left \ {db}
        /\ Phase' = IF Left = {db} THEN "over" ELSE Phase
    <3>1. CASE next < 3
      <4>1. step' = "save" /\ next' = next + 1
        BY <1>2, <2>1, <3>1, Databases DEF SaveCopies, Advance
      <4>2. Left' = {Kept[i] : i \in (next + 1)..3} /\ Phase' = Phase
        BY <2>1, <4>1, Databases DEF Left, Phase
      <4>. QED
        BY <2>1, <3>1, <4>2, LeftWhileSaving
    <3>2. CASE ~(next < 3)
      <4>1. step' = "free"
        BY <1>2, <3>2, Databases DEF SaveCopies, Advance
      <4>2. Left' = {} /\ Phase' = "over"
        BY <4>1 DEF Left, Phase
      <4>3. Left = {Kept[next]}
        <5>1. next >= 3
          BY <3>2, Databases DEF IInv, TypeOK
        <5>. QED
          BY <2>1, <5>1, LeftWhileSaving
      <4>. QED
        BY <4>2, <4>3
    <3>. QED
      BY <3>1, <3>2
  <2>. QED
    BY <2>1, <2>3, <2>4, <2>5, LeftWhileSaving DEF Abstract!Keep
<1>. QED
  BY <1>1, <1>2

LEMMA FreeDiscards ==
  ASSUME IInv, PalmFree \/ ProcessEnds
  PROVE  Abstract!Discard
<1>1. temp' = Abstract!None
  BY DEF PalmFree, ProcessEnds, NoFiles, Abstract!None
<1>2. Phase' = "fetching" /\ Left' = {}
  BY DEF PalmFree, ProcessEnds, Phase, Left
<1>3. (hotsync' = "up") \in {hotsync = "up", FALSE}
  BY DEF PalmFree, ProcessEnds, HotSyncAfterClose, link
<1>4. UNCHANGED <<handheld, prev, dryRun>>
  BY DEF PalmFree, ProcessEnds, local
<1>. QED
  BY <1>1, <1>2, <1>3, <1>4 DEF Abstract!Discard

\* Whatever fails and whenever the handheld goes: every step of sync_this() is one of
\* an exchange, or is not seen, so that nothing is kept that was not offered, nothing
\* offered that was not merged, and nothing installed over a connection that is gone.
THEOREM ImplementsExchange == Spec => Exchanges
<1>1. Init => Abstract!Init
  <2> SUFFICES ASSUME Init PROVE Abstract!Init
    OBVIOUS
  <2>1. temp = Abstract!None
    BY DEF Init, NoFiles, Abstract!None
  <2>2. [db \in Names(Kept) |-> prev[db].contents] = [db \in Names(Kept) |-> NoFile]
    BY DEF Init
  <2>3. Phase = "fetching" /\ Left = {}
    BY DEF Init, Phase, Left
  <2>4. (hotsync = "up") = FALSE /\ dryRun = FALSE
    BY DEF Init
  <2>. QED
    BY <2>1, <2>2, <2>3, <2>4 DEF Abstract!Init
<1>2. IInv /\ [Next]_vars => [Abstract!Next]_(Abstract!vars)
  <2> SUFFICES ASSUME IInv, [Next]_vars
               PROVE  Abstract!Next \/ UNCHANGED Abstract!vars
    OBVIOUS
  <2>1. CASE UNCHANGED vars
    BY <2>1 DEF vars, Phase, Left, Abstract!vars
  <2>2. CASE Handheld
    BY <2>2, OwnerEditsAbstractly, OpeningIsStutter, ClosingDisconnects
       DEF Handheld, Abstract!Next
  <2>3. CASE PalmReadDatabase \/ PalmWriteDatabase
    <3>1. Dbs[next] \in Names(Dbs)
      BY DEF IInv, TypeOK, Names
    <3>. QED
      BY <2>3, <3>1, ReadFetches, WriteOffers DEF Abstract!Next
  <2>4. CASE SaveOpens \/ SaveCopies
    <3>1. PICK db \in Names(Kept) : db = Kept[next]
      BY <2>4 DEF SaveOpens, SaveCopies, IInv, TypeOK, Names
    <3>2. Abstract!Replace(db) \/ Abstract!Keep(db)
      BY <2>4, <3>1, SaveKeeps
    <3>. QED
      BY <3>2 DEF Abstract!Next
  <2>5. CASE PalmSocket \/ PalmAccept \/ SyncMemosWrites
    BY <2>5, OpeningBegins, MemosAreMerged DEF Abstract!Next
  <2>6. CASE SyncMemosDry \/ SyncMemosFails \/ PalmWriteRefuses \/ SaveFails \/ SaveCloseFails
    BY <2>6, FailureGivesUp DEF Abstract!Next
  <2>7. CASE PalmFree \/ ProcessEnds
    BY <2>7, FreeDiscards DEF Abstract!Next
  <2>8. CASE PalmOpenFails \/ PalmClose
    BY <2>8, ClosingDisconnects DEF Abstract!Next
  <2>9. CASE \/ PalmSocketFails \/ PalmBind \/ PalmGreet \/ CheckPrevious \/ CheckPreviousFails
             \/ PalmReadFails \/ WaitForDevice \/ SyncReturns
    BY <2>9, OpeningIsStutter
  <2>. QED
    BY <2>1, <2>2, <2>3, <2>4, <2>5, <2>6, <2>7, <2>8, <2>9
       DEF Next, Sync, ParserExits, Crash
<1>. QED
  BY <1>1, <1>2, InvariantHolds, PTL DEF Spec, Exchanges, Abstract!Spec
=============================================================================
