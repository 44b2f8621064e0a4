---------------------------- MODULE DaemonProofs ----------------------------
(***************************************************************************)
(* Theorems about Daemon, for any set of processes and any faults: the     *)
(* lock file lets one instance work at a time.                             *)
(***************************************************************************)
EXTENDS Daemon, TLAPS

\* Nobody owns the lock file before the first start.
LEMMA InitHolds == Init => IInv
<1> SUFFICES ASSUME Init PROVE IInv
  OBVIOUS
<1>1. TypeOK
  BY DEF Init, TypeOK, Places
<1>2. OwnerHasTheLock /\ ReadyToWork /\ NotRegisteredYet /\ NoLockLeft
  BY DEF Init, OwnerHasTheLock, ReadyToWork, NotRegisteredYet, NoLockLeft, Owns
<1>. QED
  BY <1>1, <1>2 DEF IInv

\* A process that is about to lock takes the file only if nobody has it, and
\* nobody works then.
LEMMA NobodyOwnsWithoutLock ==
  ASSUME IInv, lock = NoLock, NEW p \in Procs
  PROVE  ~Owns(p)
BY NoLockIsNoProcess DEF IInv, OwnerHasTheLock

\* Each step a process makes by itself keeps the invariant.
LEMMA StepHolds ==
  ASSUME IInv, NEW p \in Procs, Step(p)
  PROVE  IInv'
<1> USE DEF IInv
<1>1. TypeOK'
  <2>1. CASE Lock(p) \/ LockRefused(p) \/ WritePid(p) \/ WritePidFails(p)
    BY <2>1 DEF Lock, LockRefused, WritePid, WritePidFails, Goto, TypeOK, Places
  <2>2. CASE InstallHandler(p)
    BY <2>2 DEF InstallHandler, NextSignal, TypeOK, Signals
  <2>3. CASE RegisterAtExit(p) \/ SetupFails(p) \/ Configure(p) \/ ConfigureFails(p)
    BY <2>3 DEF RegisterAtExit, SetupFails, Configure, ConfigureFails, Goto,
                TypeOK, Places
  <2>4. CASE Loop(p) \/ SyncThis(p) \/ ParserExits(p) \/ Sleep(p) \/ Exit(p)
    BY <2>4 DEF Loop, SyncThis, ParserExits, Sleep, Exit, Goto, TypeOK, Places
  <2>. QED
    BY <2>1, <2>2, <2>3, <2>4 DEF Step
<1>2. OwnerHasTheLock'
  <2>1. CASE Lock(p)
    BY <2>1, NobodyOwnsWithoutLock DEF Lock, Goto, OwnerHasTheLock, Owns, TypeOK
  <2>2. CASE LockRefused(p) \/ SetupFails(p)
    BY <2>2 DEF LockRefused, SetupFails, Goto, OwnerHasTheLock, Owns, TypeOK
  <2>3. CASE WritePidFails(p) \/ Exit(p)
    BY <2>3 DEF WritePidFails, Exit, Goto, OwnerHasTheLock, Owns, TypeOK
  <2>4. CASE WritePid(p) \/ RegisterAtExit(p) \/ Configure(p) \/ ConfigureFails(p)
    BY <2>4 DEF WritePid, RegisterAtExit, Configure, ConfigureFails, Goto,
                OwnerHasTheLock, Owns, TypeOK
  <2>5. CASE InstallHandler(p)
    BY <2>5 DEF InstallHandler, OwnerHasTheLock, Owns
  <2>6. CASE Loop(p) \/ SyncThis(p) \/ ParserExits(p) \/ Sleep(p)
    BY <2>6 DEF Loop, SyncThis, ParserExits, Sleep, Goto, OwnerHasTheLock, Owns,
                TypeOK
  <2>. QED
    BY <2>1, <2>2, <2>3, <2>4, <2>5, <2>6 DEF Step
<1>3. ReadyToWork'
  <2>1. CASE Lock(p) \/ LockRefused(p) \/ WritePid(p) \/ WritePidFails(p)
    BY <2>1 DEF Lock, LockRefused, WritePid, WritePidFails, Goto, ReadyToWork,
                TypeOK
  <2>2. CASE InstallHandler(p)
    BY <2>2 DEF InstallHandler, ReadyToWork, TypeOK
  <2>3. CASE RegisterAtExit(p) \/ SetupFails(p)
    BY <2>3 DEF RegisterAtExit, SetupFails, Goto, ReadyToWork, TypeOK
  <2>4. CASE Configure(p) \/ ConfigureFails(p) \/ Exit(p)
    BY <2>4 DEF Configure, ConfigureFails, Exit, Goto, ReadyToWork, TypeOK
  <2>5. CASE Loop(p) \/ SyncThis(p) \/ ParserExits(p) \/ Sleep(p)
    BY <2>5 DEF Loop, SyncThis, ParserExits, Sleep, Goto, ReadyToWork, TypeOK
  <2>. QED
    BY <2>1, <2>2, <2>3, <2>4, <2>5 DEF Step
<1>4. NotRegisteredYet' /\ NoLockLeft'
  <2> USE DEF NotRegisteredYet, NoLockLeft
  <2>1. CASE Lock(p) \/ LockRefused(p) \/ WritePid(p) \/ WritePidFails(p)
    BY <2>1, NoLockIsNoProcess
    DEF Lock, LockRefused, WritePid, WritePidFails, Goto, TypeOK
  <2>2. CASE InstallHandler(p)
    BY <2>2 DEF InstallHandler, TypeOK
  <2>3. CASE RegisterAtExit(p) \/ SetupFails(p)
    BY <2>3 DEF RegisterAtExit, SetupFails, Goto, TypeOK
  <2>4. CASE Configure(p) \/ ConfigureFails(p)
    BY <2>4 DEF Configure, ConfigureFails, Goto, TypeOK
  <2>5. CASE Loop(p) \/ SyncThis(p) \/ ParserExits(p) \/ Sleep(p)
    BY <2>5 DEF Loop, SyncThis, ParserExits, Sleep, Goto, TypeOK
  <2>6. CASE Exit(p)
    BY <2>6, NoLockIsNoProcess DEF Exit, Goto, ReadyToWork, TypeOK
  <2>. QED
    BY <2>1, <2>2, <2>3, <2>4, <2>5, <2>6 DEF Step
<1>. QED
  BY <1>1, <1>2, <1>3, <1>4

\* So does what happens to it from outside.
LEMMA OutsideHolds ==
  ASSUME IInv, NEW p \in Procs, Outside(p)
  PROVE  IInv'
<1> USE DEF IInv, NotRegisteredYet, NoLockLeft
<1>1. CASE Start(p)
  BY <1>1 DEF Start, Alive, TypeOK, Places, OwnerHasTheLock, ReadyToWork, Owns
<1>2. ASSUME NEW signal \in Signals, Signal(p, signal)
      PROVE  IInv'
  BY <1>2 DEF Signal, TypeOK, OwnerHasTheLock, ReadyToWork, Owns
<1>3. CASE Dies(p)
  BY <1>3 DEF Dies, TypeOK, Places, OwnerHasTheLock, ReadyToWork, Owns
<1>. QED
  BY <1>1, <1>2, <1>3 DEF Outside, EarlySignal, Kill

\* So does the removal of a file left behind.
LEMMA RemoveHolds ==
  ASSUME IInv, RemoveStaleLock
  PROVE  IInv'
BY NoLockIsNoProcess
DEF IInv, RemoveStaleLock, TypeOK, OwnerHasTheLock, ReadyToWork,
    NotRegisteredYet, NoLockLeft, Owns

\* Every step keeps the invariant.
LEMMA NextHolds == IInv /\ [Next]_vars => IInv'
<1> SUFFICES ASSUME IInv, [Next]_vars PROVE IInv'
  OBVIOUS
<1>1. CASE UNCHANGED vars
  BY <1>1 DEF vars, IInv, TypeOK, OwnerHasTheLock, ReadyToWork,
              NotRegisteredYet, NoLockLeft, Owns
<1>. QED
  BY <1>1, StepHolds, OutsideHolds, RemoveHolds DEF Next

\* A process beyond _process_lock() is the one the lock file is for, and one in the
\* main loop has its handlers installed, in every state.
THEOREM InvariantHolds == Spec => []IInv
BY InitHolds, NextHolds, PTL DEF Spec

\* Lock file, places and handlers have their types, whatever instances do to each other.
THEOREM TypeCorrect == Spec => []TypeOK
<1>1. IInv => TypeOK
  BY DEF IInv
<1>. QED
  BY <1>1, InvariantHolds, PTL

\* Two instances never work at once.
THEOREM OneInstance == Spec => []OneAtATime
<1>1. IInv => OneAtATime
  BY DEF IInv, OwnerHasTheLock, OneAtATime
<1>. QED
  BY <1>1, InvariantHolds, PTL

\* A process that got as far as its exit handler and was not killed leaves no lock
\* file behind.
THEOREM NoLockIsLeft == Spec => []NoLockLeft
<1>1. IInv => NoLockLeft
  BY DEF IInv
<1>. QED
  BY <1>1, InvariantHolds, PTL

\* A signal that arrives during a cycle leaves the process in it.
THEOREM CycleIsNotCut == Spec => SignalWaitsForTheCycle
<1>1. ASSUME IInv, [Next]_vars, NEW q \in Procs,
             pc[q] = "sync", terminate'[q] # terminate[q]
      PROVE  pc'[q] = "sync"
  <2>1. ASSUME NEW p \in Procs, Step(p)
        PROVE  terminate' = terminate
    BY <2>1 DEF Step, Lock, LockRefused, WritePid, WritePidFails,
                InstallHandler, RegisterAtExit, SetupFails, Configure,
                ConfigureFails, Loop, SyncThis, ParserExits, Sleep, Exit
  <2>2. ASSUME NEW p \in Procs, Start(p)
        PROVE  pc'[q] = "sync"
    BY <1>1, <2>2 DEF Start, Alive, IInv, TypeOK
  <2>3. ASSUME NEW p \in Procs, NEW signal \in Signals, Signal(p, signal)
        PROVE  pc'[q] = "sync"
    BY <1>1, <2>3 DEF Signal
  <2>4. ASSUME NEW p \in Procs, Dies(p)
        PROVE  terminate' = terminate
    BY <2>4 DEF Dies
  <2>. QED
    BY <1>1, <2>1, <2>2, <2>3, <2>4
    DEF Next, Outside, EarlySignal, Kill, RemoveStaleLock, vars
<1>2. IInv /\ [Next]_vars => [SignalStays]_vars
  BY <1>1 DEF SignalStays
<1>. QED
  BY <1>2, InvariantHolds, PTL DEF Spec, SignalWaitsForTheCycle

\* The lock file implements OneDaemon: a process begins to work only when no other
\* does, and only it ends its own work.
THEOREM ImplementsOneDaemon == Spec => OneDaemonOnly
<1> DEFINE Working == {p \in Procs : Owns(p)}
<1>1. Init => Abstract!Init
  BY DEF Init, Abstract!Init, Owns
<1>2. IInv /\ [Next]_vars => [Abstract!Next]_Working
  <2> SUFFICES ASSUME IInv, [Next]_vars
               PROVE  Abstract!Next \/ UNCHANGED Working
    OBVIOUS
  <2>1. CASE UNCHANGED vars
    BY <2>1 DEF vars, Owns
  <2>2. ASSUME NEW p \in Procs, Lock(p)
        PROVE  Abstract!Next
    <3>1. Working = {} /\ Working' = {p}
      BY <2>2, NobodyOwnsWithoutLock DEF Lock, Goto, Owns, IInv, TypeOK
    <3>. QED
      BY <3>1 DEF Abstract!Next, Abstract!Enter
  <2>3. ASSUME NEW p \in Procs,
               Dies(p) \/ WritePidFails(p) \/ SetupFails(p) \/ Exit(p)
        PROVE  Abstract!Next \/ UNCHANGED Working
    <3>1. \E place \in {"dead", "killed"} : pc' = [pc EXCEPT ![p] = place]
      BY <2>3 DEF Dies, WritePidFails, SetupFails, Exit, Goto
    <3>2. Working' = Working \ {p}
      BY <3>1 DEF Owns, IInv, TypeOK
    <3>. QED
      BY <3>2 DEF Abstract!Next, Abstract!Leave
  <2>4. ASSUME NEW p \in Procs,
               \/ LockRefused(p) \/ WritePid(p) \/ InstallHandler(p)
               \/ RegisterAtExit(p) \/ Configure(p) \/ ConfigureFails(p)
               \/ Loop(p) \/ SyncThis(p) \/ ParserExits(p) \/ Sleep(p)
               \/ Start(p) \/ \E signal \in Signals : Signal(p, signal)
        PROVE  UNCHANGED Working
    BY <2>4 DEF LockRefused, WritePid, InstallHandler, RegisterAtExit,
         Configure, ConfigureFails, Loop, SyncThis, ParserExits, Sleep, Start,
         Alive, Signal, Goto, Owns, IInv, TypeOK
  <2>5. CASE RemoveStaleLock
    BY <2>5 DEF RemoveStaleLock, Owns
  <2>. QED
    BY <2>1, <2>2, <2>3, <2>4, <2>5 DEF Next, Step, Outside, EarlySignal, Kill
<1>. QED
  BY <1>1, <1>2, InvariantHolds, PTL DEF Spec, OneDaemonOnly, Abstract!Spec
=============================================================================
