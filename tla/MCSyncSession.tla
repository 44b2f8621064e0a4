---------------------------- MODULE MCSyncSession ----------------------------
(* Values of the constants of SyncSession for TLC. *)
EXTENDS SyncSession

\* Every fault but a database the handheld refuses over a connection that stands,
\* which palm_write() does not learn of.
MCFaults == FaultKinds \ {"install"}
Refused == {"install"}
=============================================================================
