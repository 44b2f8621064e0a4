\* Two cycles with nearly every fault.
SPECIFICATION FairSpec
CONSTANTS
  NoFile = NoFile
  Cut = Cut
  CloseWait = 2
  Faults <- MCFaults
  DryRuns = {TRUE, FALSE}
  MaxEdits = 1
  MaxCycles = 2
INVARIANTS
  TypeOK
  NoTempLeft
  DeviceClosed
  PreviousInOrder
  IInv
PROPERTIES
  NoStaleWrite
  Exchanges
  LinkedSuccessSynchronizes
  CycleEnds
  HotSyncEnds
\* The bounds on edits and cycles stop the model.
CHECK_DEADLOCK FALSE
