\* A note that cannot be appended to the org-file.
SPECIFICATION Spec
CONSTANTS
  i1 = i1
  i2 = i2
  i3 = i3
  h1 = h1
  h2 = h2
  h3 = h3
  t1 = t1
  t2 = t2
  NoRecord = NoRecord
  NoPrev = NoPrev
  Ids <- MCIds2
  Headers <- MCHeaders1
  Texts <- MCTexts2
  Readable <- AllReadable
  Reread <- AsWritten
  Written <- Whole
  FreshStatuses <- OneFresh
  Faults <- AppendFails
  DryRuns = {FALSE}
  MaxEdits = 3
  MaxCycles = 3
PROPERTIES
  NothingLost
\* The bounds on edits and cycles stop the model.
CHECK_DEADLOCK FALSE
