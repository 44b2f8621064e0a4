------------------------------ MODULE Exchange ------------------------------
(***************************************************************************)
(* What a HotSync does with the databases, with no trace of how: copies of *)
(* them are fetched, the memos among them are merged, every one is offered *)
(* to the handheld, and only then those that are to be there the next time *)
(* are kept, each of them once.  An exchange may be given up anywhere, and *)
(* then is over: nothing of it is offered or kept later.  Once the link is *)
(* lost nothing is fetched or installed any more, so that what the owner   *)
(* edits then is not written over.                                         *)
(***************************************************************************)
CONSTANTS
  Databases,  \* those that are fetched and offered
  Previous,   \* those of them that are kept
  Memos,      \* the one of them that is merged
  NoFile,     \* there is no copy
  Cut         \* a copy that is not, or not fully, written

VARIABLES
  handheld,   \* contents of the databases
  copies,     \* what has been fetched of them
  kept,       \* what has been kept of earlier exchanges
  phase,      \* fetching, offering, keeping, over
  left,       \* databases still to be offered, or to be kept
  linked,     \* the handheld is in the HotSync
  simulated   \* the exchange is only to be simulated

vars == <<handheld, copies, kept, phase, left, linked, simulated>>

None == [db \in Databases |-> NoFile]
Complete == \A db \in Databases : copies[db] # NoFile

Init ==
  /\ copies = None
  /\ kept = [db \in Previous |-> NoFile]
  /\ phase = "fetching"
  /\ left = {}
  /\ linked = FALSE
  /\ simulated = FALSE

\* The owner has the handheld while it is not in a HotSync.
Edit(db) ==
  /\ ~linked
  /\ handheld' = [handheld EXCEPT ![db] = handheld'[db]]
  /\ UNCHANGED <<copies, kept, phase, left, linked, simulated>>

\* A handheld comes to an exchange that has nothing yet, and may go any time.
Connect ==
  /\ phase = "fetching" /\ copies = None
  /\ ~linked /\ linked' = TRUE
  /\ UNCHANGED <<handheld, copies, kept, phase, left, simulated>>

Disconnect ==
  /\ linked /\ linked' = FALSE
  /\ UNCHANGED <<handheld, copies, kept, phase, left, simulated>>

Begin ==
  /\ phase = "fetching" /\ copies = None
  /\ simulated' \in BOOLEAN
  /\ UNCHANGED <<handheld, copies, kept, phase, left, linked>>

Fetch(db) ==
  /\ phase = "fetching" /\ linked
  /\ copies' = [copies EXCEPT ![db] = handheld[db]]
  /\ UNCHANGED <<handheld, kept, phase, left, linked, simulated>>

\* Nothing that is simulated comes to be offered.
Merge ==
  /\ phase = "fetching" /\ ~simulated /\ copies[Memos] # NoFile
  /\ copies' = [copies EXCEPT ![Memos] = copies'[Memos]]
  /\ phase' = "offering" /\ left' = Databases
  /\ UNCHANGED <<handheld, kept, linked, simulated>>

\* Each database is offered once, if there is a copy of all; it is installed or not.
Offer(db) ==
  /\ phase = "offering" /\ db \in left /\ Complete
  /\ \/ linked /\ handheld' = [handheld EXCEPT ![db] = copies[db]]
     \/ UNCHANGED handheld
  /\ IF left = {db} THEN phase' = "keeping" /\ left' = Previous
                    ELSE phase' = phase /\ left' = left \ {db}
  /\ UNCHANGED <<copies, kept, linked, simulated>>

\* Each that is to be kept replaces the one before, which is gone by then.
Replace(db) ==
  /\ phase = "keeping" /\ db \in left
  /\ kept' = [kept EXCEPT ![db] = Cut]
  /\ UNCHANGED <<handheld, copies, phase, left, linked, simulated>>

Keep(db) ==
  /\ phase = "keeping" /\ db \in left
  /\ kept' = [kept EXCEPT ![db] = copies[db]]
  /\ left' = left \ {db}
  /\ phase' = IF left = {db} THEN "over" ELSE phase
  /\ UNCHANGED <<handheld, copies, linked, simulated>>

\* From where it is, with a copy of the memos that may be half written, or with one
\* that was to be kept and is.
GiveUp ==
  /\ phase # "over"
  /\ copies' \in {copies, [copies EXCEPT ![Memos] = Cut]}
  /\ \/ UNCHANGED kept
     \/ phase = "keeping" /\ \E db \in left : kept' = [kept EXCEPT ![db] = copies[db]]
  /\ phase' = "over" /\ left' = {}
  /\ UNCHANGED <<handheld, linked, simulated>>

\* The copies are removed, or left behind by a process that is gone.
Discard ==
  /\ copies' = None /\ phase' = "fetching" /\ left' = {}
  /\ linked' \in {linked, FALSE}
  /\ UNCHANGED <<handheld, kept, simulated>>

Next ==
  \/ \E db \in Databases : Edit(db) \/ Fetch(db) \/ Offer(db)
  \/ \E db \in Previous : Replace(db) \/ Keep(db)
  \/ Connect \/ Disconnect \/ Begin \/ Merge \/ GiveUp \/ Discard

Spec == Init /\ [][Next]_vars
=============================================================================
