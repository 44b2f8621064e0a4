----------------------------- MODULE MCPdbMemos -----------------------------
(***************************************************************************)
(* Values of the constants of PdbMemos for TLC: a letter of one byte, one  *)
(* of two bytes in UTF-8, the three dots, which are one byte in CP1251 and *)
(* three in UTF-8, and a character CP1251 does not have.                   *)
(***************************************************************************)
EXTENDS PdbMemos

CONSTANTS empty, one, cyr, dots, emoji, Unfiled, Long, Short

MCStrings == {empty, one, cyr, dots, emoji}
MCUtf8Len ==
  [s \in MCStrings |->
     CASE s = empty -> 0 [] s = one -> 1 [] s = dots -> 3 [] OTHER -> 2]
MCCp1251Len ==
  [s \in MCStrings |-> CASE s = empty -> 0 [] s \in {one, cyr, dots} -> 1 [] OTHER -> 2]
MCNewHeaders == {one, emoji}
MCNewTexts == {empty, one, dots}
MCEncodable == MCStrings \ {emoji}

MCNames == {Unfiled, Long, Short}
MCStored == [name \in MCNames |-> IF name = Long THEN Short ELSE name]
\* Memos as the handheld's file has them, with the ids 1, 2, ...
MCQueue(contents) ==
  LET memo(i, at) ==
        [id |-> i, offset |-> at, slot |-> 0,
         header |-> contents[i].header, text |-> contents[i].text,
         hlen |-> MCCp1251Len[contents[i].header],
         tlen |-> MCCp1251Len[contents[i].text], asked |-> Unfiled]
      offsetOf[i \in DOMAIN contents] ==
        IF i = 1 THEN DataAt(Len(contents)) ELSE EndOf(memo(i - 1, offsetOf[i - 1]))
  IN [i \in DOMAIN contents |-> memo(i, offsetOf[i])]

\* Two memos, the first longer in memory than in the file.
MCInitial ==
  MCQueue(<<[header |-> one, text |-> cyr], [header |-> one, text |-> empty]>>)
\* The same with letters of one byte only.
MCLatin ==
  MCQueue(<<[header |-> one, text |-> one], [header |-> one, text |-> empty]>>)

\* What a deleted category left is in the last slot.
MCSlots0 ==
  [i \in SlotIds |-> CASE i = 0 -> [name |-> Unfiled, id |-> 0]
                      [] i = 2 -> [name |-> Short, id |-> 0]
                      [] OTHER -> EmptySlot]
=============================================================================
