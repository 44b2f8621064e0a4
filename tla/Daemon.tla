------------------------------- MODULE Daemon -------------------------------
(***************************************************************************)
(* The life of the daemon's processes, src/palm-sync-daemon.c: the lock    *)
(* file, the signal handlers, the exit handler and the main loop.          *)
(*                                                                         *)
(* Several instances may be started, one after another or at once.  They   *)
(* share the lock file only.  A signal may arrive between any two steps: a *)
(* process that has not installed its handler yet dies of it, one that has *)
(* only remembers it.  A cycle is one step here (SyncSession and SyncMemos *)
(* look inside).                                                           *)
(***************************************************************************)
CONSTANTS
  Procs,    \* instances of the daemon
  NoLock,   \* there is no lock file
  Faults    \* what may go wrong

Signals == {"SIGINT", "SIGQUIT", "SIGTERM"}
FaultKinds == {"lock", "write_pid", "setup", "config", "parse", "early_signal",
               "kill"}

ASSUME NoLockIsNoProcess == NoLock \notin Procs
ASSUME FaultsOK == Faults \subseteq FaultKinds

VARIABLES
  lock,       \* the process whose pid the lock file is for, or NoLock
  pc,         \* where each process is
  handled,    \* the signals for which it has installed the handler
  terminate,  \* its _processTerminate
  atExit      \* it has registered _process_on_exit_actions()

vars == <<lock, pc, handled, terminate, atExit>>

Goto(p, here, there) == pc[p] = here /\ pc' = [pc EXCEPT ![p] = there]

Init ==
  /\ lock = NoLock
  /\ pc = [p \in Procs |-> "dead"]
  /\ handled = [p \in Procs |-> {}]
  /\ terminate = [p \in Procs |-> FALSE]
  /\ atExit = [p \in Procs |-> FALSE]

Alive(p) == pc[p] \notin {"dead", "killed"}

\* The user starts the program; main() parses its arguments and daemonizes.
Start(p) ==
  /\ ~Alive(p)
  /\ pc' = [pc EXCEPT ![p] = "lock"]
  /\ handled' = [handled EXCEPT ![p] = {}]
  /\ terminate' = [terminate EXCEPT ![p] = FALSE]
  /\ atExit' = [atExit EXCEPT ![p] = FALSE]
  /\ UNCHANGED lock

-----------------------------------------------------------------------------
(* _process_init() *)

\* Seeded fault: the file is opened without O_EXCL.
LockShared(p) ==
  /\ Goto(p, "lock", "write_pid")
  /\ lock' = p
  /\ UNCHANGED <<handled, terminate, atExit>>

\* open() with O_CREAT and O_EXCL: of two processes one gets the file.
Lock(p) ==
  /\ Goto(p, "lock", "write_pid")
  /\ lock = NoLock
  /\ lock' = p
  /\ UNCHANGED <<handled, terminate, atExit>>

\* Seeded fault: the process that is refused removes the file as well.
LockRefusedUnlinks(p) ==
  /\ Goto(p, "lock", "dead")
  /\ lock # NoLock \/ "lock" \in Faults
  /\ lock' = NoLock
  /\ UNCHANGED <<handled, terminate, atExit>>

\* The file exists, or cannot be created: main() returns 1.
LockRefused(p) ==
  /\ Goto(p, "lock", "dead")
  /\ lock # NoLock \/ "lock" \in Faults
  /\ UNCHANGED <<lock, handled, terminate, atExit>>

WritePid(p) ==
  /\ Goto(p, "write_pid", "setup")
  /\ UNCHANGED <<lock, handled, terminate, atExit>>

WritePidFails(p) ==
  /\ Goto(p, "write_pid", "dead")
  /\ "write_pid" \in Faults
  /\ lock' = NoLock
  /\ UNCHANGED <<handled, terminate, atExit>>

\* Seeded fault: SIGQUIT is forgotten.
NextSignalSkips(p) ==
  CASE handled[p] = {}         -> "SIGINT"
    [] handled[p] = {"SIGINT"} -> "SIGTERM"
    [] handled[p] = {"SIGINT", "SIGTERM"} -> "SIGTERM"

\* sigaction() for one signal after the other, in this order.
NextSignal(p) ==
  CASE handled[p] = {}                    -> "SIGINT"
    [] handled[p] = {"SIGINT"}            -> "SIGQUIT"
    [] handled[p] = {"SIGINT", "SIGQUIT"} -> "SIGTERM"

InstallHandler(p) ==
  /\ pc[p] = "setup"
  /\ handled[p] # Signals
  /\ handled' = [handled EXCEPT ![p] = @ \cup {NextSignal(p)}]
  /\ UNCHANGED <<lock, pc, terminate, atExit>>

RegisterAtExit(p) ==
  /\ Goto(p, "setup", "config")
  /\ handled[p] = Signals
  /\ atExit' = [atExit EXCEPT ![p] = TRUE]
  /\ UNCHANGED <<lock, handled, terminate>>

\* sigaction() or atexit() fails: main() returns 1 before the exit handler is
\* registered.
SetupFails(p) ==
  /\ Goto(p, "setup", "dead")
  /\ "setup" \in Faults
  /\ UNCHANGED <<lock, handled, terminate, atExit>>

-----------------------------------------------------------------------------
(* main() *)

\* The data directory and the two org-files are found, and may be used.
Configure(p) ==
  /\ Goto(p, "config", "loop")
  /\ UNCHANGED <<lock, handled, terminate, atExit>>

\* Seeded fault: it ends without its exit handler.
ConfigureFailsAtOnce(p) ==
  /\ Goto(p, "config", "dead")
  /\ "config" \in Faults
  /\ UNCHANGED <<lock, handled, terminate, atExit>>

ConfigureFails(p) ==
  /\ Goto(p, "config", "exit")
  /\ "config" \in Faults
  /\ UNCHANGED <<lock, handled, terminate, atExit>>

\* Seeded fault: the flag is not looked at.
LoopForever(p) ==
  /\ Goto(p, "loop", "sync")
  /\ UNCHANGED <<lock, handled, terminate, atExit>>

Loop(p) ==
  /\ \/ terminate[p] /\ Goto(p, "loop", "exit")
     \/ ~terminate[p] /\ Goto(p, "loop", "sync")
  /\ UNCHANGED <<lock, handled, terminate, atExit>>

\* sync_this() returns, whatever its result; then the loop sleeps for a second.
SyncThis(p) ==
  /\ Goto(p, "sync", "sleep")
  /\ UNCHANGED <<lock, handled, terminate, atExit>>

\* The parser of the org-file calls exit().
ParserExits(p) ==
  /\ Goto(p, "sync", "exit")
  /\ "parse" \in Faults
  /\ UNCHANGED <<lock, handled, terminate, atExit>>

Sleep(p) ==
  /\ Goto(p, "sleep", "loop")
  /\ UNCHANGED <<lock, handled, terminate, atExit>>

\* exit() runs _process_on_exit_actions(), which unlinks the lock file, whoever
\* it is for.
Exit(p) ==
  /\ Goto(p, "exit", "dead")
  /\ lock' = IF atExit[p] THEN NoLock ELSE lock
  /\ UNCHANGED <<handled, terminate, atExit>>

-----------------------------------------------------------------------------
(* From outside *)

\* Seeded fault: the handler ends the process.
SignalExits(p, signal) ==
  /\ Alive(p)
  /\ pc[p] # "exit"
  /\ signal \in handled[p]
  /\ terminate' = [terminate EXCEPT ![p] = TRUE]
  /\ pc' = [pc EXCEPT ![p] = "exit"]
  /\ UNCHANGED <<lock, handled, atExit>>

\* _process_sig_handler() only sets the flag,
Signal(p, signal) ==
  /\ Alive(p)
  /\ signal \in handled[p]
  /\ terminate' = [terminate EXCEPT ![p] = TRUE]
  /\ UNCHANGED <<lock, pc, handled, atExit>>

\* but before it is installed the signal ends the process, as SIGKILL, a crash
\* and every other fatal signal always do.
Dies(p) ==
  /\ pc' = [pc EXCEPT ![p] = "killed"]
  /\ UNCHANGED <<lock, handled, terminate, atExit>>

EarlySignal(p, signal) ==
  /\ "early_signal" \in Faults
  /\ Alive(p)
  /\ signal \notin handled[p]
  /\ Dies(p)

Kill(p) ==
  /\ "kill" \in Faults
  /\ Alive(p)
  /\ Dies(p)

\* The user removes a lock file left behind, having seen that the process whose
\* pid it holds is gone or is another program.
Owns(p) == pc[p] \in {"write_pid", "setup", "config", "loop", "sync", "sleep",
                      "exit"}
RemoveStaleLock ==
  /\ lock # NoLock
  /\ ~Owns(lock)
  /\ lock' = NoLock
  /\ UNCHANGED <<pc, handled, terminate, atExit>>

\* What a process does by itself.
Step(p) ==
  \/ Lock(p) \/ LockRefused(p)
  \/ WritePid(p) \/ WritePidFails(p)
  \/ InstallHandler(p) \/ RegisterAtExit(p) \/ SetupFails(p)
  \/ Configure(p) \/ ConfigureFails(p)
  \/ Loop(p) \/ SyncThis(p) \/ ParserExits(p) \/ Sleep(p) \/ Exit(p)

Outside(p) ==
  \/ Start(p)
  \/ \E signal \in Signals : Signal(p, signal) \/ EarlySignal(p, signal)
  \/ Kill(p)

Next == (\E p \in Procs : Step(p) \/ Outside(p)) \/ RemoveStaleLock

Spec == Init /\ [][Next]_vars

\* Each process goes on; sync_this() returns (SyncSession: CycleEnds).  Nobody has
\* to start a process, send a signal or remove a file.
FairSpec == Spec /\ \A p \in Procs : WF_vars(Step(p))
-----------------------------------------------------------------------------
(* Properties *)

Places == {"dead", "killed", "lock", "write_pid", "setup", "config", "loop",
           "sync", "sleep", "exit"}

\* Every variable has its type.
TypeOK ==
  /\ lock \in Procs \cup {NoLock}
  /\ pc \in [Procs -> Places]
  /\ handled \in [Procs -> {{}, {"SIGINT"}, {"SIGINT", "SIGQUIT"}, Signals}]
  /\ terminate \in [Procs -> BOOLEAN]
  /\ atExit \in [Procs -> BOOLEAN]

\* Two instances never work on the same org-file, previous files and device, with
\* any timing of starts, failures, signals, crashes and removals of a stale file.
OneAtATime == \A p, q \in Procs : Owns(p) /\ Owns(q) => p = q

\* Why: a process beyond _process_lock() is the one the file is for.
OwnerHasTheLock == \A p \in Procs : Owns(p) => lock = p
\* The exit handler, and the handlers of all signals, are in place by then.
ReadyToWork ==
  \A p \in Procs : pc[p] \in {"config", "loop", "sync", "sleep", "exit"} =>
    atExit[p] /\ handled[p] = Signals
\* The exit handler is registered after the lock file is made, and not before.
NotRegisteredYet ==
  \A p \in Procs : pc[p] \in {"lock", "write_pid", "setup"} => ~atExit[p]

\* "This function should be called right before program exit (or termination)."
\* (palm-sync-daemon.c:398): a process that got as far as its exit handler and was
\* not killed leaves no lock file behind, so that another one can start.
NoLockLeft == \A p \in Procs : lock = p /\ pc[p] = "dead" => ~atExit[p]

IInv ==
  /\ TypeOK
  /\ OwnerHasTheLock
  /\ ReadyToWork
  /\ NotRegisteredYet
  /\ NoLockLeft

\* The processes that work implement the abstract specification.
Abstract == INSTANCE OneDaemon WITH working <- {p \in Procs : Owns(p)}
OneDaemonOnly == Abstract!Spec

\* A signal never cuts a cycle short: a process in sync_this() stays there until the
\* function returns, the parser gives up or the process is killed.
SignalStays ==
  \A p \in Procs : pc[p] = "sync" /\ terminate'[p] # terminate[p] =>
    pc'[p] = "sync"
SignalWaitsForTheCycle == [][SignalStays]_vars

\* A process that was told to terminate does, at the latest when sync_this() has
\* returned.
TerminateEnds == \A p \in Procs : terminate[p] /\ Alive(p) ~> ~Alive(p)
=============================================================================
