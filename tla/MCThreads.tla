----------------------------- MODULE MCThreads -----------------------------
(* Threads with one worker, the capture thread, as in the program. *)
EXTENDS Threads

CONSTANT capture

MCWorkers == {capture}
=============================================================================
