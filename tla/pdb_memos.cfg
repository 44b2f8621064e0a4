\* A file of two memos that is read, changed and written, with four operations.
SPECIFICATION Spec
CONSTANTS
  empty = empty
  one = one
  cyr = cyr
  dots = dots
  emoji = emoji
  Unfiled = Unfiled
  Long = Long
  Short = Short
  Slots = 3
  Names <- MCNames
  Stored <- MCStored
  NoName = NoName
  Ids = {0, 1, 2, 3}
  Strings <- MCStrings
  NewHeaders <- MCNewHeaders
  NewTexts <- MCNewTexts
  Utf8Len <- MCUtf8Len
  Cp1251Len <- MCCp1251Len
  Encodable <- MCEncodable
  Keep = Keep
  Default = Unfiled
  Initial <- MCInitial
  Slots0 <- MCSlots0
  Faults = {"write"}
  MaxOps = 4
INVARIANTS
  TypeOK
  Packed
  SavedIsReadBack
  FiledAsAsked
  IInv
\* The bound on operations stops the model.
CHECK_DEADLOCK FALSE
