---------------------------- MODULE MCTaskSwitch ----------------------------
(* Small instances of TaskSwitch for TLC. *)
EXTENDS TaskSwitch, TLC

CONSTANTS idle, worker, server

ThreePriorities == idle :> 0 @@ worker :> 1 @@ server :> 2

\* The idle task shares its priority with another one.
TwoPriorities == idle :> 0 @@ worker :> 0 @@ server :> 1
=============================================================================
