\* Two files that are read, changed and written, with four operations.
SPECIFICATION Spec
CONSTANTS
  none = none
  buy = buy
  call = call
  note = note
  alarm = alarm
  days = days
  Unfiled = Unfiled
  Long = Long
  Short = Short
  Slots = 3
  Names <- MCNames
  Stored <- MCStored
  NoName = NoName
  Ids = {1, 2, 3, 4}
  Strings <- MCStrings
  Length <- MCLength
  NoText = none
  NewHeaders = {buy, note}
  NewTexts = {none}
  Priorities = {1}
  PRIORITY_1 = 1
  NewYears = {2024, 2032}
  Alarms = {alarm}
  Ranges = {days}
  NewRepeats <- MCRepeats
  None = None
  Default = Unfiled
  Gap = 6
  Initials <- MCInitials
  Faults = {"write"}
  MaxOps = 4
INVARIANTS
  IInv
  EachTaskHasItsRecord
  PackedTasks
  SavedIsReadBack
  FiledAlike
PROPERTY GoodFilesDoNotKill
\* The bound on operations stops the model.
CHECK_DEADLOCK FALSE
