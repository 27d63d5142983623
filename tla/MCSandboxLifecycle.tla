-------------------------- MODULE MCSandboxLifecycle --------------------------
(* Small instances of SandboxLifecycle for TLC. *)
EXTENDS SandboxLifecycle, TLC

\* Threads, ids and pool keys are only compared for equality.
Symmetry ==
    Permutations(Threads) \cup Permutations(Ids) \cup Permutations(PoolKeys)
=============================================================================
