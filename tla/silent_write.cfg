\* The handheld refuses a database.
SPECIFICATION Spec
CONSTANTS
  NoFile = NoFile
  Cut = Cut
  CloseWait = 2
  Faults <- Refused
  DryRuns = {FALSE}
  MaxEdits = 0
  MaxCycles = 1
PROPERTIES
  SuccessMeansSynchronized
\* The bounds on edits and cycles stop the model.
CHECK_DEADLOCK FALSE
