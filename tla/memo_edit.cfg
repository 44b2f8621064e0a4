\* A memo changes its length.
SPECIFICATION Spec
CONSTANTS
  empty = empty
  one = one
  cyr = cyr
  dots = dots
  emoji = emoji
  Unfiled = Unfiled
  Long = Long
  Short = Short
  Slots = 3
  Names <- MCNames
  Stored <- MCStored
  NoName = NoName
  Ids = {1, 2, 3, 4}
  Strings <- MCStrings
  NewHeaders <- MCNewHeaders
  NewTexts <- MCNewTexts
  Utf8Len <- MCUtf8Len
  Cp1251Len <- MCCp1251Len
  Encodable <- MCEncodable
  Keep = Keep
  Default = Unfiled
  Initial <- MCLatin
  Slots0 <- MCSlots0
  Faults = {}
  MaxOps = 4
INVARIANT StructureIsWritten
\* The bound on operations stops the model.
CHECK_DEADLOCK FALSE
