------------------------------ MODULE MCIpcTable ------------------------------
(* Threads and allocations are interchangeable in every property checked.  *)
EXTENDS IpcTable, TLC

Symmetry == Permutations(Procs) \cup Permutations(Objs)
=============================================================================
