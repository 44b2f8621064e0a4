\* Failed appends only, three records, three headers, one of which kills the process,
\* four cycles: where the cycles lead.
SPECIFICATION Spec
CONSTANTS
  i1 = i1
  i2 = i2
  i3 = i3
  h1 = h1
  h2 = h2
  h3 = h3
  t1 = t1
  t2 = t2
  NoRecord = NoRecord
  NoPrev = NoPrev
  Ids <- MCIds3
  Headers <- MCHeaders3
  Texts <- MCTexts2
  Readable <- AllReadable
  Reread <- AsWritten
  Written <- ByIconv
  FreshStatuses <- AllFresh
  Faults <- AppendFails
  DryRuns = {FALSE}
  MaxEdits = 2
  MaxCycles = 4
INVARIANTS
  HandheldFollowsFirstNote
PROPERTIES
  SettledSyncIsStable
\* The bounds on edits and cycles stop the model.
CHECK_DEADLOCK FALSE
