---------------------------- MODULE ReentrantLock ----------------------------
(***************************************************************************)
(* What src/lmap_recursive_mutex.c promises: a mutex that its holder may   *)
(* lock again, and that another thread may lock only when the holder has   *)
(* unlocked it as many times as it has locked it.                          *)
(***************************************************************************)
EXTENDS Naturals

CONSTANTS Threads, Mutexes

VARIABLE depth      \* how many times each thread holds each mutex

Init == depth = [t \in Threads |-> [m \in Mutexes |-> 0]]

Acquire(t, m) ==
  /\ \A u \in Threads \ {t} : depth[u][m] = 0
  /\ depth' = [depth EXCEPT ![t][m] = @ + 1]

Release(t, m) ==
  /\ depth[t][m] > 0
  /\ depth' = [depth EXCEPT ![t][m] = @ - 1]

Next == \E t \in Threads, m \in Mutexes : Acquire(t, m) \/ Release(t, m)

Spec == Init /\ [][Next]_depth
=============================================================================
