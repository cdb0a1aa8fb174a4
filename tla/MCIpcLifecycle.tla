--------------------------- MODULE MCIpcLifecycle ---------------------------
(* Instances of IpcLifecycle for TLC. *)
EXTENDS IpcLifecycle, TLC

CONSTANTS r1, r2, r3      \* runs

Symmetry == Permutations(Runs)
=============================================================================
