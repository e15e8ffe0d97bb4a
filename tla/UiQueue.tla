------------------------------- MODULE UiQueue -------------------------------
(***************************************************************************)
(* The message queue between the threads of lmap: ui_msg() and             *)
(* ui_msg_flush() of src/lmap_ui.c over the SIMPLEQ macros of              *)
(* include/missing/queue.h.                                                *)
(*                                                                         *)
(* Every thread calls ui_msg(); only the user interface thread UI calls    *)
(* ui_msg_flush(), once per iteration of its screen loop.  One step of the *)
(* model is one access to the shared queue, so the reads that the code     *)
(* makes without the mutex interleave with the writes made under it.  When *)
(* the interface returns, the main program cancels the other threads       *)
(* (lmap_thread_kill_all); they run with asynchronous cancelability, so a  *)
(* thread may be stopped between any two steps, the mutex held or not.     *)
(***************************************************************************)
EXTENDS Integers, Sequences, FiniteSets

CONSTANTS
  Threads,      \* the threads that call ui_msg, the interface's one included
  UI,           \* the thread that runs ui_start and hence ui_msg_flush
  MaxMsgs,      \* bound: messages that each thread writes
  BufSize,      \* the first size of a message buffer (50 in the code)
  MsgLens,      \* the lengths that a formatted message may have
  FlushMax,     \* the arguments given to ui_msg_flush (-1: no limit)
  C99,          \* may vsnprintf return the length needed (TRUE), or -1 (FALSE)?
  NULL,         \* the null pointer
  QHead,        \* the address &messages_queue.sqh_first
  None          \* nobody (a free mutex)

\* A ui_message: the k-th that thread t allocates.
Node == Threads \X (1..MaxMsgs)

ASSUME UiAssumption ==
  /\ UI \in Threads
  /\ MaxMsgs \in Nat
  /\ BufSize \in Nat \ {0}
  /\ MsgLens \subseteq Nat
  /\ FlushMax \subseteq Int
  /\ C99 \subseteq BOOLEAN
  /\ NULL \notin Node
  /\ QHead \notin Node \cup {NULL}
  /\ None \notin Threads

VARIABLES
  phase,      \* what the process does: "run", "quit", "done" or "abort"
  cancelled,  \* the threads stopped by pthread_cancel
  pc,         \* where each thread is
  count,      \* how many messages each thread has allocated
  size,       \* ui_msg's local size, per thread
  len,        \* the length of the message each thread is formatting
  whole,      \* the nodes whose buffer holds the complete text
  mutex,      \* the owner of ui_msg_mutex
  next,       \* the sqe_next field of every node, and sqh_first at QHead
  last,       \* messages_queue.sqh_last: the cell it points to
  msg,        \* ui_msg_flush's local msg
  i,          \* ui_msg_flush's local i
  max,        \* ui_msg_flush's argument
  freed,      \* the nodes given back to the allocator
  inserted,   \* history: the nodes in the order in which they were linked
  displayed   \* the nodes passed to ui.msg, in order

fmtVars   == <<count, size, len, whole>>
queueVars == <<next, last, inserted>>
flushVars == <<msg, i, max, freed, displayed>>
procVars  == <<phase, cancelled>>
vars      == <<procVars, pc, fmtVars, mutex, queueVars, flushVars>>

\* The node that thread t is working on.
Mine(t) == <<t, count[t]>>

Alive(t) == phase \in {"run", "quit"} /\ t \notin cancelled

At(t, l) == Alive(t) /\ pc[t] = l

Goto(t, l) == pc' = [pc EXCEPT ![t] = l]

Init ==
  /\ phase = "run"
  /\ cancelled = {}
  /\ pc = [t \in Threads |-> "idle"]
  /\ count = [t \in Threads |-> 0]
  /\ size = [t \in Threads |-> BufSize]
  /\ len = [t \in Threads |-> 0]
  /\ whole = {}
  /\ mutex = None
  /\ next = [c \in Node \cup {QHead} |-> NULL]
  /\ last = QHead
  /\ msg = NULL
  /\ i = 0
  /\ max = -1
  /\ freed = {}
  /\ inserted = << >>
  /\ displayed = << >>

-----------------------------------------------------------------------------
(* ui_msg *)

\* A call of ui_msg: the message, and its buffer of BufSize bytes.
MsgAlloc(t) ==
  /\ At(t, "idle")
  /\ count[t] < MaxMsgs
  /\ \E n \in MsgLens : len' = [len EXCEPT ![t] = n]
  /\ count' = [count EXCEPT ![t] = @ + 1]
  /\ size' = [size EXCEPT ![t] = BufSize]
  /\ Goto(t, "format")
  /\ UNCHANGED <<procVars, whole, mutex, queueVars, flushVars>>

\* calloc, or the realloc of a buffer that was too small, fails: ON_ERROR.
MsgNoMemory(t) ==
  /\ At(t, "format")
  /\ size[t] = BufSize \/ len[t] >= size[t]
  /\ Goto(t, "leave")
  /\ UNCHANGED <<procVars, fmtVars, mutex, queueVars, flushVars>>

\* ERROR_MSG has run the exit handlers, the other threads going on meanwhile,
\* and ends the process.
MsgAbort(t) ==
  /\ At(t, "leave")
  /\ phase' = "abort"
  /\ UNCHANGED <<cancelled, pc, fmtVars, mutex, queueVars, flushVars>>

\* Mutant: the terminating NUL is forgotten.
MsgFitsOffByOne(t) ==
  /\ At(t, "format")
  /\ len[t] <= size[t]
  /\ whole' = IF len[t] < size[t] THEN whole \cup {Mine(t)} ELSE whole
  /\ Goto(t, "lock")
  /\ UNCHANGED <<procVars, count, size, len, mutex, queueVars, flushVars>>

\* vsnprintf stored the whole text: n > -1 && n < size.
MsgFits(t) ==
  /\ At(t, "format")
  /\ len[t] < size[t]
  /\ whole' = whole \cup {Mine(t)}
  /\ Goto(t, "lock")
  /\ UNCHANGED <<procVars, count, size, len, mutex, queueVars, flushVars>>

\* Mutant: room for the text, none for the terminating NUL.
GrownExact(sz, n, c99) == IF c99 THEN n ELSE sz * 2

\* The size for the next attempt, after vsnprintf returned n or -1.
Grown(sz, n, c99) == IF c99 THEN n + 1 ELSE sz * 2

MsgGrow(t) ==
  /\ At(t, "format")
  /\ len[t] >= size[t]
  /\ \E c99 \in C99 : size' = [size EXCEPT ![t] = Grown(@, len[t], c99)]
  /\ UNCHANGED <<procVars, pc, count, len, whole, mutex, queueVars, flushVars>>

\* Mutant: ui_msg does not take the mutex.
MsgNoLock(t) ==
  /\ At(t, "lock")
  /\ Goto(t, "clear")
  /\ UNCHANGED <<procVars, fmtVars, mutex, queueVars, flushVars>>

\* UI_MSG_LOCK in ui_msg.
MsgLock(t) ==
  /\ At(t, "lock")
  /\ mutex = None
  /\ mutex' = t
  /\ Goto(t, "clear")
  /\ UNCHANGED <<procVars, fmtVars, queueVars, flushVars>>

\* SIMPLEQ_INSERT_TAIL, its three assignments.
InsClear(t) ==
  /\ At(t, "clear")
  /\ next' = [next EXCEPT ![Mine(t)] = NULL]
  /\ Goto(t, "link")
  /\ UNCHANGED <<procVars, fmtVars, mutex, last, inserted, flushVars>>

InsLink(t) ==
  /\ At(t, "link")
  /\ next' = [next EXCEPT ![last] = Mine(t)]
  /\ inserted' = Append(inserted, Mine(t))
  /\ Goto(t, "tail")
  /\ UNCHANGED <<procVars, fmtVars, mutex, last, flushVars>>

\* Mutant: sqh_last is not moved.
InsNoTail(t) ==
  /\ At(t, "tail")
  /\ Goto(t, "unlock")
  /\ UNCHANGED <<procVars, fmtVars, mutex, queueVars, flushVars>>

InsTail(t) ==
  /\ At(t, "tail")
  /\ last' = Mine(t)
  /\ Goto(t, "unlock")
  /\ UNCHANGED <<procVars, fmtVars, mutex, next, inserted, flushVars>>

MsgUnlock(t) ==
  /\ At(t, "unlock")
  /\ mutex' = None
  /\ Goto(t, "idle")
  /\ UNCHANGED <<procVars, fmtVars, queueVars, flushVars>>

-----------------------------------------------------------------------------
(* ui_msg_flush, called by the interface only *)

\* The test for an empty queue, made without the mutex.
FlushCheck ==
  /\ At(UI, "idle")
  /\ phase = "run"
  /\ max' \in FlushMax
  /\ i' = 0
  /\ Goto(UI, IF next[QHead] = NULL THEN "idle" ELSE "flock")
  /\ UNCHANGED <<procVars, fmtVars, mutex, queueVars, msg, freed, displayed>>

\* Mutant: ui_msg_flush does not take the mutex.
FlushNoLock ==
  /\ At(UI, "flock")
  /\ Goto(UI, "loop")
  /\ UNCHANGED <<procVars, fmtVars, mutex, queueVars, flushVars>>

FlushLock ==
  /\ At(UI, "flock")
  /\ mutex = None
  /\ mutex' = UI
  /\ Goto(UI, "loop")
  /\ UNCHANGED <<procVars, fmtVars, queueVars, flushVars>>

\* while ((msg = SIMPLEQ_FIRST(&messages_queue)) != NULL)
FlushLoop ==
  /\ At(UI, "loop")
  /\ msg' = next[QHead]
  /\ Goto(UI, IF msg' = NULL THEN "funlock" ELSE "display")
  /\ UNCHANGED <<procVars, fmtVars, mutex, queueVars, i, max, freed, displayed>>

\* ui.msg(msg->message), and the text is freed.
FlushDisplay ==
  /\ At(UI, "display")
  /\ displayed' = Append(displayed, msg)
  /\ Goto(UI, "remove")
  /\ UNCHANGED <<procVars, fmtVars, mutex, queueVars, msg, i, max, freed>>

\* Mutant: sqh_last is left alone when the queue becomes empty.
FlushRemoveOnly ==
  /\ At(UI, "remove")
  /\ next' = [next EXCEPT ![QHead] = next[msg]]
  /\ Goto(UI, "free")
  /\ UNCHANGED <<procVars, fmtVars, mutex, last, inserted, flushVars>>

\* SIMPLEQ_REMOVE_HEAD: the assignment of its condition, then its branch.
FlushRemove ==
  /\ At(UI, "remove")
  /\ next' = [next EXCEPT ![QHead] = next[msg]]
  /\ Goto(UI, IF next'[QHead] = NULL THEN "reset" ELSE "free")
  /\ UNCHANGED <<procVars, fmtVars, mutex, last, inserted, flushVars>>

\* Mutant: sqh_last = sqh_first, the address operator forgotten.
FlushResetValue ==
  /\ At(UI, "reset")
  /\ last' = next[QHead]
  /\ Goto(UI, "free")
  /\ UNCHANGED <<procVars, fmtVars, mutex, next, inserted, flushVars>>

FlushReset ==
  /\ At(UI, "reset")
  /\ last' = QHead
  /\ Goto(UI, "free")
  /\ UNCHANGED <<procVars, fmtVars, mutex, next, inserted, flushVars>>

\* SAFE_FREE(msg), which also clears the pointer; if (++i == max) break
FlushFree ==
  /\ At(UI, "free")
  /\ freed' = freed \cup {msg}
  /\ msg' = NULL
  /\ i' = i + 1
  /\ Goto(UI, IF i' = max THEN "funlock" ELSE "loop")
  /\ UNCHANGED <<procVars, fmtVars, mutex, queueVars, max, displayed>>

FlushUnlock ==
  /\ At(UI, "funlock")
  /\ mutex' = None
  /\ Goto(UI, "idle")
  /\ UNCHANGED <<procVars, fmtVars, queueVars, flushVars>>

-----------------------------------------------------------------------------
(* The end of the program *)

\* ui_start returns to main.
Quit ==
  /\ At(UI, "idle")
  /\ phase = "run"
  /\ phase' = "quit"
  /\ Goto(UI, "exit")
  /\ UNCHANGED <<cancelled, fmtVars, mutex, queueVars, flushVars>>

\* lmap_thread_kill_all stops a thread wherever it is.
Cancel(t) ==
  /\ phase = "quit"
  /\ t \in Threads \ (cancelled \cup {UI})
  /\ cancelled' = cancelled \cup {t}
  /\ UNCHANGED <<phase, pc, fmtVars, mutex, queueVars, flushVars>>

\* Mutant: after the threads are gone, main tries to lock ui_msg_mutex for a
\* last flush until it succeeds.
ExitFlushing ==
  /\ At(UI, "exit")
  /\ cancelled = Threads \ {UI}
  /\ phase' = IF mutex = None THEN "done" ELSE phase
  /\ UNCHANGED <<cancelled, pc, fmtVars, mutex, queueVars, flushVars>>

\* Every thread was joined: ui_cleanup, return 0.
Exit ==
  /\ At(UI, "exit")
  /\ cancelled = Threads \ {UI}
  /\ phase' = "done"
  /\ UNCHANGED <<cancelled, pc, fmtVars, mutex, queueVars, flushVars>>

Over == phase \in {"done", "abort"} /\ UNCHANGED vars

-----------------------------------------------------------------------------
UiMsg(t) ==
  \/ MsgFits(t) \/ MsgGrow(t)
  \/ MsgLock(t) \/ InsClear(t) \/ InsLink(t) \/ InsTail(t) \/ MsgUnlock(t)
  \/ MsgAbort(t)

UiMsgFlush ==
  \/ FlushCheck \/ FlushLock \/ FlushLoop \/ FlushDisplay
  \/ FlushRemove \/ FlushReset \/ FlushFree \/ FlushUnlock

Next ==
  \/ \E t \in Threads : MsgAlloc(t) \/ MsgNoMemory(t) \/ UiMsg(t) \/ Cancel(t)
  \/ UiMsgFlush
  \/ Quit \/ Exit \/ Over

Spec == Init /\ [][Next]_vars

\* A thread inside a call of ui_msg goes on; the screen loop of the interface
\* flushes at every iteration; main cancels every thread and returns.
\* Nothing makes a thread write a message or the user leave.
Fairness ==
  /\ \A t \in Threads : WF_vars(UiMsg(t)) /\ WF_vars(Cancel(t))
  /\ WF_vars(UiMsgFlush)
  /\ WF_vars(Exit)

FairSpec == Spec /\ Fairness

-----------------------------------------------------------------------------
(* Properties *)

MsgPCs == {"format", "lock", "clear", "link", "tail", "unlock"}

FlushPCs == {"flock", "loop", "display", "remove", "reset", "free", "funlock"}

\* The type invariant of the queue and of both functions' locals.
TypeOK ==
  /\ phase \in {"run", "quit", "done", "abort"}
  /\ cancelled \subseteq Threads \ {UI}
  /\ pc \in [Threads -> {"idle", "leave", "exit"} \cup MsgPCs \cup FlushPCs]
  /\ count \in [Threads -> 0..MaxMsgs]
  /\ size \in [Threads -> Nat]
  /\ len \in [Threads -> Nat]
  /\ whole \subseteq Node
  /\ mutex \in Threads \cup {None}
  /\ next \in [Node \cup {QHead} -> Node \cup {NULL}]
  /\ last \in Node \cup {QHead}
  /\ msg \in Node \cup {NULL}
  /\ i \in Nat
  /\ max \in Int
  /\ freed \subseteq Node
  /\ inserted \in Seq(Node)
  /\ displayed \in Seq(Node)

\* The messages linked in the queue and not displayed yet.
Pending == SubSeq(inserted, Len(displayed) + 1, Len(inserted))

\* The threads between UI_MSG_LOCK and UI_MSG_UNLOCK.
Critical ==
  {t \in Threads : pc[t] \in {"clear", "link", "tail", "unlock"} \cup
                             (FlushPCs \ {"flock"})}

\* UI_MSG_LOCK keeps two threads out of the SIMPLEQ macros at the same time,
\* also after a thread was cancelled while it owned the mutex.
Exclusive == \A t \in Critical : mutex = t

\* What ui_msg_flush reaches from messages_queue was never freed: neither the
\* first node, nor the node whose sqe_next sqh_last points to, nor msg.
NoDangling == {next[QHead], last, msg} \cap freed = {}

\* A message that reaches ui.msg is complete, whatever its length and whatever
\* vsnprintf returns for a buffer that is too small.
NeverTruncated == \A k \in 1..Len(displayed) : displayed[k] \in whole

\* When no thread is inside the macros, the list from sqh_first to sqh_last is
\* exactly the messages linked and not displayed, in the order of linking.
ListIsPending ==
  (mutex = None) =>
    /\ Len(displayed) <= Len(inserted)
    /\ LET At0(k) == IF k = 0 THEN QHead ELSE Pending[k] IN
       /\ \A k \in 1..Len(Pending) : next[At0(k - 1)] = Pending[k]
       /\ next[At0(Len(Pending))] = NULL
       /\ last = At0(Len(Pending))

\* ui_msg and ui_msg_flush implement the abstract queue: nothing is lost,
\* duplicated or reordered by the threads' interleaving.
AbstractQueue == INSTANCE MessageQueue WITH queue <- Pending, shown <- displayed
ImplementsQueue == AbstractQueue!Spec

\* The loop around vsnprintf ends for every length.
FormatEnds ==
  \A t \in Threads :
    (pc[t] = "format") ~> (pc[t] # "format" \/ phase = "abort" \/ t \in cancelled)

\* "a user interface MUST use this to empty the message queue": a message that
\* is linked is displayed unless the program ends first.
EventuallyDisplayed ==
  \A m \in Node :
    (m \in {inserted[k] : k \in 1..Len(inserted)}) ~>
      (phase # "run" \/ m \in {displayed[k] : k \in 1..Len(displayed)})

\* Leaving the interface ends the program, although a thread may have been
\* cancelled while it owned ui_msg_mutex.
QuitEnds == (phase = "quit") ~> (phase \in {"done", "abort"})

-----------------------------------------------------------------------------
(* The inductive invariant.  Between its steps the macros leave the list in *)
(* states of their own: linked but sqh_last behind ("tail"), displayed but  *)
(* still first ("remove"), empty but sqh_last at the removed node ("reset") *)

\* How many nodes were taken off the list, and how many were freed.
Removed == IF pc[UI] = "remove" THEN Len(displayed) - 1 ELSE Len(displayed)
Freed == IF pc[UI] \in {"remove", "reset", "free"}
         THEN Len(displayed) - 1 ELSE Len(displayed)

\* How many of its messages each thread has linked.
Linked ==
  [t \in Threads |-> IF pc[t] \in {"format", "lock", "clear", "link", "leave"}
                     THEN count[t] - 1 ELSE count[t]]

\* The k-th cell of the list, counted from the first insertion.
Cell(k) == IF k = Removed THEN QHead ELSE inserted[k]

PcInv ==
  /\ \A t \in Threads \ {UI} : pc[t] \in {"idle", "leave"} \cup MsgPCs
  /\ \A t \in Threads : pc[t] \in MsgPCs => count[t] >= 1
  /\ pc[UI] \in {"remove", "reset", "free"} => Len(displayed) >= 1

MutexInv ==
  /\ Exclusive
  /\ mutex # None => mutex \in Critical

HistoryInv ==
  /\ Len(displayed) <= Len(inserted)
  /\ \A k \in 1..Len(displayed) : displayed[k] = inserted[k]
  /\ \A j, k \in 1..Len(inserted) : inserted[j] = inserted[k] => j = k
  /\ \A k \in 1..Len(inserted) : inserted[k][2] <= Linked[inserted[k][1]]
  /\ \A m \in Node : m[2] <= Linked[m[1]] =>
                       \E k \in 1..Len(inserted) : inserted[k] = m

TextInv ==
  /\ \A k \in 1..Len(inserted) : inserted[k] \in whole
  /\ \A t \in Threads : pc[t] \in MsgPCs \ {"format"} => Mine(t) \in whole

LocalInv ==
  /\ pc[UI] = "display" =>
       Len(displayed) < Len(inserted) /\ msg = inserted[Len(displayed) + 1]
  /\ pc[UI] \in {"remove", "reset", "free"} => msg = inserted[Len(displayed)]
  /\ pc[UI] \notin {"display", "remove", "reset", "free"} => msg = NULL
  /\ freed = {inserted[k] : k \in 1..Freed}

ChainInv ==
  /\ \A k \in Removed..(Len(inserted) - 1) : next[Cell(k)] = inserted[k + 1]
  /\ next[Cell(Len(inserted))] = NULL
  /\ \A t \in Threads : pc[t] = "link" => next[Mine(t)] = NULL
  /\ \A t \in Threads : pc[t] = "tail" =>
       /\ Len(inserted) > Removed
       /\ inserted[Len(inserted)] = Mine(t)
       /\ last = Cell(Len(inserted) - 1)
  /\ pc[UI] = "reset" =>
       Len(displayed) = Len(inserted) /\ last = inserted[Len(inserted)]
  /\ (pc[UI] # "reset" /\ \A t \in Threads : pc[t] # "tail") =>
       last = Cell(Len(inserted))

\* The invariant that the proofs show to be inductive: the list, the locals of
\* both functions and the mutex agree at every step of every thread.
QueueInv ==
  /\ TypeOK
  /\ PcInv
  /\ MutexInv
  /\ HistoryInv
  /\ TextInv
  /\ LocalInv
  /\ ChainInv
=============================================================================
