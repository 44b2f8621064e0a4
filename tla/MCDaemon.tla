------------------------------ MODULE MCDaemon ------------------------------
(* Values of the constants of Daemon for TLC. *)
EXTENDS Daemon

CONSTANTS p1, p2, p3

MCProcs == {p1, p2, p3}
=============================================================================
