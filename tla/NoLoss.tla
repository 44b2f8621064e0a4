------------------------------- MODULE NoLoss -------------------------------
(***************************************************************************)
(* What memo synchronization promises its user, with no trace of how:      *)
(*                                                                         *)
(*   "It should neither delete data on the computer, nor lose new data     *)
(*    coming from Palm."   (docs/tex/technical_description.tex:257-258)    *)
(*                                                                         *)
(* An item is a header with its text.  The desktop holds the items of the  *)
(* org-file, the handheld those of its memos.  Between synchronizations    *)
(* both owners do what they like.  A synchronization may add to the        *)
(* desktop and may rewrite the handheld, but an item leaves the handheld   *)
(* only if it has been in the org-file before, as it is or as far as it    *)
(* could be written there: "Written" is what copying makes of an item.     *)
(* Where that is the item itself, nothing of it is lost; a text which the  *)
(* code page conversion refuses is not covered by the promise.             *)
(***************************************************************************)
EXTENDS Naturals

CONSTANTS
  Items,      \* every header/text pair
  Readable,   \* those the parser of the org-file accepts
  Reread,     \* what it makes of each
  Written     \* what may come to the desktop of each that is copied there

VARIABLES
  desktop,    \* items of the org-file
  palm,       \* items of the handheld's memos
  discarded,  \* items of the memos its owner deleted and it still stores
  reached,    \* items that have been in the org-file, as written or as read
  syncing,    \* a synchronization is running
  edits       \* how many edits the two owners have made

vars == <<desktop, palm, discarded, reached, syncing, edits>>

Reading(items) == items \cup {Reread[item] : item \in items \cap Readable}

Init ==
  /\ desktop \in SUBSET Items
  /\ palm \in SUBSET Items
  /\ discarded \in SUBSET Items
  /\ reached = Reading(desktop)
  /\ syncing = FALSE
  /\ edits = 0

\* The handheld is in its owner's hands only while it is not in HotSync.
OwnerEditsPalm ==
  /\ ~syncing
  /\ edits' = edits + 1
  /\ palm' \in SUBSET Items
  /\ discarded' \in SUBSET Items
  /\ UNCHANGED <<desktop, reached, syncing>>

\* The org-file is a file: its owner may save it at any time.
OwnerEditsDesktop ==
  /\ edits' = edits + 1
  /\ desktop' \in SUBSET Items
  /\ reached' = reached \cup Reading(desktop')
  /\ UNCHANGED <<palm, discarded, syncing>>

Begin ==
  /\ ~syncing
  /\ syncing' = TRUE
  /\ UNCHANGED <<desktop, palm, discarded, reached, edits>>

\* Nothing is deleted on the computer; what is added is made of an item that is on
\* the handheld or was in the org-file before.
CopyToDesktop ==
  /\ syncing
  /\ desktop' \in SUBSET (desktop \cup
                    UNION {Written[item] : item \in palm \cup discarded \cup reached})
  /\ desktop \subseteq desktop'
  /\ reached' = reached \cup Reading(desktop')
  /\ UNCHANGED <<palm, discarded, syncing, edits>>

\* The handheld gives up only what has reached the org-file, or of which the
\* org-file got all that copying makes of it.
BackedBy(items, item) == item \in items \/ \E note \in Written[item] : note \in items
RewritePalm ==
  /\ syncing
  /\ palm' \in SUBSET (palm \cup reached)
  /\ discarded' \in SUBSET (discarded \cup reached)
  /\ \A item \in palm \ palm' : BackedBy(reached, item)
  /\ UNCHANGED <<desktop, reached, syncing, edits>>

End ==
  /\ syncing
  /\ syncing' = FALSE
  /\ UNCHANGED <<desktop, palm, discarded, reached, edits>>

Next ==
  \/ OwnerEditsPalm
  \/ OwnerEditsDesktop
  \/ Begin
  \/ CopyToDesktop
  \/ RewritePalm
  \/ End

Spec == Init /\ [][Next]_vars
=============================================================================
