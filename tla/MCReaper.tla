------------------------------- MODULE MCReaper -------------------------------
(* Small instances of Reaper for TLC. *)
EXTENDS Reaper, TLC
=============================================================================
