------------------------------ MODULE OneDaemon ------------------------------
(***************************************************************************)
(* What the lock file of the daemon promises: "prevents execution of       *)
(* another processd instance" (palm-sync-daemon.c:348-349).                *)
(***************************************************************************)
CONSTANT Procs
VARIABLE working   \* the processes that may touch the user's files

Init == working = {}

Enter(p) ==
  /\ working = {}
  /\ working' = {p}

Leave(p) ==
  /\ p \in working
  /\ working' = working \ {p}

Next == \E p \in Procs : Enter(p) \/ Leave(p)

Spec == Init /\ [][Next]_working
=============================================================================
