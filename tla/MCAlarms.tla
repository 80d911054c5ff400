------------------------------- MODULE MCAlarms -------------------------------
(* Small instances of Alarms for TLC. *)
EXTENDS Alarms, TLC

CONSTANTS j, s, y, k
=============================================================================
