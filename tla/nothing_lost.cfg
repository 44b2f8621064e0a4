\* Every fault but a failed append, dry cycles, a header that reads back as another one,
\* a note that does not parse, over three cycles.
SPECIFICATION Spec
CONSTANTS
  i1 = i1
  i2 = i2
  i3 = i3
  h1 = h1
  h2 = h2
  h3 = h3
  t1 = t1
  t2 = t2
  NoRecord = NoRecord
  NoPrev = NoPrev
  Ids <- MCIds2
  Headers <- MCHeaders2
  Texts <- MCTexts2
  Readable <- AllButOne
  Reread <- BlanksInHeader
  Written <- ByIconv
  FreshStatuses <- AllFresh
  Faults <- FaultsButAppend
  DryRuns = {TRUE, FALSE}
  MaxEdits = 2
  MaxCycles = 3
SYMMETRY IdSymmetry
INVARIANTS
  TypeOK
  BackedByOrg
  IInv
PROPERTIES
  NothingLost
  DryRunTouchesNothing
\* The bounds on edits and cycles stop the model.
CHECK_DEADLOCK FALSE
