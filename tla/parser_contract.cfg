SPECIFICATION Spec
CONSTANTS
  Alnum = {"x", "y"}
  Signs = {"slovo", "dash"}
  Foreign = {"snow"}
  Unassigned = {"0x98"}
  RawBytes = {"0xE0", "0x98"}
  Dates = {"<date>"}
  BadDates = {"<no date>"}
  Extra <- MCExtra
  Tails <- MCTails
  NULL = NULL
  OwnerFiles <- PlainFiles
  Items <- DailyItems
  Cuts = {}
  MaxSaves = 1
  MaxAppends = 2
  MaxFailures = 0
  MaxCycles = 3
PROPERTY AllOrNull
CHECK_DEADLOCK FALSE
