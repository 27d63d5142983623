------------------------------ MODULE MCWarmPool ------------------------------
(* Small instances of WarmPool for TLC. *)
EXTENDS WarmPool, TLC
=============================================================================
