SPECIFICATION Spec
CONSTANTS
  Alnum = {"x", "y"}
  Signs = {"slovo", "dash"}
  Foreign = {"snow"}
  Unassigned = {"0x98"}
  RawBytes = {"0xE0", "0x98"}
  Dates = {"<date>"}
  BadDates = {"<no date>"}
  Extra <- MCExtra
  Tails <- MCTails
  NULL = NULL
  OwnerFiles <- MCOwnerFiles
  Items <- MCItems
  Cuts <- MCCuts
  MaxSaves = 1
  MaxAppends = 2
  MaxFailures = 1
  MaxCycles = 3
INVARIANT TypeOK
PROPERTIES
  AppendAddsItsOwnNotes
  PlainItemsReadBack
  EveryHeadingIsANote
  LeftoverIsUsedUp
CHECK_DEADLOCK FALSE
