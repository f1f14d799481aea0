------------------------------ MODULE MCIpcQueue ------------------------------
EXTENDS IpcQueue, TLC

Symmetry == Permutations(Procs)
=============================================================================
