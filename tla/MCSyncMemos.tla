----------------------------- MODULE MCSyncMemos -----------------------------
(* Values of the constants of SyncMemos for TLC. *)
EXTENDS SyncMemos, TLC

CONSTANTS i1, i2, i3, h1, h2, h3, t1, t2

MCIds2 == {i1, i2}
MCIds3 == {i1, i2, i3}
MCHeaders1 == {h1}
MCHeaders2 == {h1, h2}
MCHeaders3 == {h1, h2, h3}
MCTexts2 == {t1, t2}

\* The parser reads every note as it was written.
AllReadable == Item
AsWritten == [item \in Item |-> item]

\* The header h2 is h1 with a run of blanks; under it, the text t2 does not parse
\* (a line that begins with "TODO ", for one).
AllButOne == Item \ {[header |-> h2, text |-> t2]}
BlanksInHeader == [item \in AllButOne |-> [item EXCEPT !.header = IF @ = h2 THEN h1 ELSE @]]

\* org_notes_write() writes every item as it is.
Whole == [item \in Item |-> {item}]

\* Under h1 the text t2 cannot be converted: only the heading of such a memo is written,
\* t1 being no text.  Under h2 the converted text t1 has no end, and t2 is what it is with
\* what lies behind it.  The header h3 cannot be converted.
Refused(item) == item.header = h1 /\ item.text = t2
Endless(item) == item.header = h2 /\ item.text = t1
ByIconv ==
  [item \in Item |->
     IF item.header = h3 THEN {}
     ELSE IF Refused(item) THEN {[item EXCEPT !.text = t1]}
     ELSE IF Endless(item) THEN {item, [item EXCEPT !.text = t2]}
     ELSE {item}]

AppendFails == {"append"}
\* Every fault but the one that loses data.
FaultsButAppend == FaultKinds \ {"append"}
OneFresh == {"NOT_CHANGED"}
AllFresh == Statuses

\* Ids are interchangeable: the model never compares or orders them.
IdSymmetry == Permutations(Ids)
=============================================================================
