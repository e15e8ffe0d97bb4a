-------------------------- MODULE MCRecursiveMutex --------------------------
(* RecursiveMutex with small sets of threads, mutexes and list elements. *)
EXTENDS RecursiveMutex

CONSTANTS t1, t2, m1, m2, c1, c2, c3, c4

MCThreads == {t1, t2}
MCMutexes == {m1, m2}
MCCells == {c1, c2, c3, c4}
=============================================================================
