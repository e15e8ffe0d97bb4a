---------------------------- MODULE MessageQueue ----------------------------
(***************************************************************************)
(* What ui_msg() and ui_msg_flush() of src/lmap_ui.c promise their callers, *)
(* free of buffers, pointers and mutexes: the messages of one thread enter *)
(* the queue in the order in which the thread wrote them, and the messages *)
(* leave it, each once, in the order in which they entered.  The program   *)
(* may give up the messages that are still queued (at exit), but never one *)
(* in the middle of the queue.                                             *)
(***************************************************************************)
EXTENDS Naturals, Sequences

CONSTANTS
  Threads,    \* the threads that write messages
  MaxMsgs     \* how many messages each may write

VARIABLES
  queue,      \* the messages written and not displayed yet, oldest first
  shown       \* the messages displayed, in order

vars == <<queue, shown>>

Msg == Threads \X (1..MaxMsgs)

\* The messages in the order in which they were written.
Written == shown \o queue

Init == queue = << >> /\ shown = << >>

\* m is the first message of its thread that has not been written yet.
IsNextOf(m) ==
  /\ m \notin {Written[k] : k \in 1..Len(Written)}
  /\ \A j \in 1..(m[2] - 1) :
       <<m[1], j>> \in {Written[k] : k \in 1..Len(Written)}

Put(m) ==
  /\ IsNextOf(m)
  /\ queue' = Append(queue, m)
  /\ UNCHANGED shown

Show ==
  /\ queue # << >>
  /\ shown' = Append(shown, Head(queue))
  /\ queue' = Tail(queue)

Next == (\E m \in Msg : Put(m)) \/ Show

Spec == Init /\ [][Next]_vars
=============================================================================
