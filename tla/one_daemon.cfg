\* Three instances, with every fault.
SPECIFICATION FairSpec
CONSTANTS
  p1 = p1
  p2 = p2
  p3 = p3
  Procs <- MCProcs
  NoLock = NoLock
  Faults <- FaultKinds
INVARIANTS
  TypeOK
  OneAtATime
  IInv
  NoLockLeft
PROPERTIES
  OneDaemonOnly
  SignalWaitsForTheCycle
  TerminateEnds
