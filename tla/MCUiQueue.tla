----------------------------- MODULE MCUiQueue -----------------------------
(* UiQueue with two writing threads beside the interface. *)
EXTENDS UiQueue, TLC

CONSTANTS ui, cap1, cap2

MCThreads == {ui, cap1, cap2}
MCThreads2 == {ui, cap1}
MCFlushMax == {-1, 1}

\* The writers are interchangeable.
Writers == Permutations({cap1, cap2})
=============================================================================
