------------------------------ MODULE MCTimer ------------------------------
(* Timer for TLC: the sets of tasks, entries and events, the geometry of   *)
(* the wheel and the timeouts are given in the configurations.             *)
EXTENDS Timer

=============================================================================
