--------------------------- MODULE RecursiveMutex ---------------------------
(***************************************************************************)
(* recursive_mutex_lock() and recursive_mutex_unlock() of                  *)
(* src/lmap_recursive_mutex.c: recursive mutexes made of plain ones and a  *)
(* list of who holds what, the list being protected by a mutex of its own. *)
(*                                                                         *)
(* A step is what a thread does between two points where another thread    *)
(* can see it: taking and giving back either mutex, and a scan of the list *)
(* under recursive_mutex_list_mx.                                          *)
(***************************************************************************)
EXTENDS Integers, FiniteSets

CONSTANTS
  Threads,
  Mutexes,      \* the pthread mutexes passed to the two functions
  Cells,        \* the list elements that malloc can return
  MaxDepth,     \* bound: how often a thread locks one mutex
  MallocFails,  \* can malloc return NULL?
  None,         \* nobody (a free mutex)
  Free          \* the content of a cell that is not in the list

Elem == [mx : Mutexes, id : Threads, count : Nat]

ASSUME RmAssumption ==
  /\ MaxDepth \in Nat
  /\ MallocFails \in BOOLEAN
  /\ None \notin Threads
  /\ Free \notin Elem

VARIABLES
  pc,       \* where each thread is
  arg,      \* the mutex each thread passed to its call
  owner,    \* who owns each pthread mutex
  listmx,   \* who owns recursive_mutex_list_mx
  elem,     \* the list: the content of every cell
  result,   \* what each thread's last call returned
  held      \* what the callers know: locks that returned 0, minus unlocks

vars == <<pc, arg, owner, listmx, elem, result, held>>

Init ==
  /\ pc = [t \in Threads |-> "idle"]
  /\ arg \in [Threads -> Mutexes]
  /\ owner = [m \in Mutexes |-> None]
  /\ listmx = None
  /\ elem = [c \in Cells |-> Free]
  /\ result = [t \in Threads |-> 0]
  /\ held = [t \in Threads |-> [m \in Mutexes |-> 0]]

Goto(t, l) == pc' = [pc EXCEPT ![t] = l]

\* The list element for mutex m and thread t: mutex == current->mx and
\* pthread_equal(me, current->id).
Matches(t, m) == {c \in Cells : elem[c] # Free /\ elem[c].mx = m /\ elem[c].id = t}

-----------------------------------------------------------------------------
(* recursive_mutex_lock *)

CallLock(t, m) ==
  /\ pc[t] = "idle"
  /\ held[t][m] < MaxDepth
  /\ arg' = [arg EXCEPT ![t] = m]
  /\ Goto(t, "lock")
  /\ UNCHANGED <<owner, listmx, elem, result, held>>

LockList(t) ==
  /\ pc[t] = "lock"
  /\ listmx = None
  /\ listmx' = t
  /\ Goto(t, "lscan")
  /\ UNCHANGED <<arg, owner, elem, result, held>>

\* The caller has the mutex already: current->count++
LockAgain(t) ==
  /\ pc[t] = "lscan"
  /\ \E c \in Matches(t, arg[t]) : elem' = [elem EXCEPT ![c].count = @ + 1]
  /\ Goto(t, "lreturn")
  /\ UNCHANGED <<arg, owner, listmx, result, held>>

LockAgainReturn(t) ==
  /\ pc[t] = "lreturn"
  /\ listmx' = None
  /\ held' = [held EXCEPT ![t][arg[t]] = @ + 1]
  /\ result' = [result EXCEPT ![t] = 0]
  /\ Goto(t, "idle")
  /\ UNCHANGED <<arg, owner, elem>>

\* A new element, inserted before the mutex is taken.
LockInsert(t) ==
  /\ pc[t] = "lscan"
  /\ Matches(t, arg[t]) = {}
  /\ \E c \in Cells :
       /\ elem[c] = Free
       /\ elem' = [elem EXCEPT ![c] = [mx |-> arg[t], id |-> t, count |-> 1]]
  /\ Goto(t, "linserted")
  /\ UNCHANGED <<arg, owner, listmx, result, held>>

\* malloc returned NULL: return -1, the list's mutex still locked.
LockNoMemory(t) ==
  /\ MallocFails
  /\ pc[t] = "lscan"
  /\ Matches(t, arg[t]) = {}
  /\ result' = [result EXCEPT ![t] = -1]
  /\ Goto(t, "idle")
  /\ UNCHANGED <<arg, owner, listmx, elem, held>>

\* Mutant: the list's mutex is kept while trying whether the mutex is free.
LockKeepList(t) ==
  /\ pc[t] = "linserted"
  /\ listmx' = IF owner[arg[t]] = None THEN None ELSE t
  /\ Goto(t, IF owner[arg[t]] = None THEN "lwait" ELSE "linserted")
  /\ UNCHANGED <<arg, owner, elem, result, held>>

LockLeaveList(t) ==
  /\ pc[t] = "linserted"
  /\ listmx' = None
  /\ Goto(t, "lwait")
  /\ UNCHANGED <<arg, owner, elem, result, held>>

\* pthread_mutex_lock(mutex); return 0
LockMutex(t) ==
  /\ pc[t] = "lwait"
  /\ owner[arg[t]] = None
  /\ owner' = [owner EXCEPT ![arg[t]] = t]
  /\ held' = [held EXCEPT ![t][arg[t]] = @ + 1]
  /\ result' = [result EXCEPT ![t] = 0]
  /\ Goto(t, "idle")
  /\ UNCHANGED <<arg, listmx, elem>>

-----------------------------------------------------------------------------
(* recursive_mutex_unlock *)

CallUnlock(t, m) ==
  /\ pc[t] = "idle"
  /\ arg' = [arg EXCEPT ![t] = m]
  /\ Goto(t, "unlock")
  /\ UNCHANGED <<owner, listmx, elem, result, held>>

UnlockList(t) ==
  /\ pc[t] = "unlock"
  /\ listmx = None
  /\ listmx' = t
  /\ Goto(t, "uscan")
  /\ UNCHANGED <<arg, owner, elem, result, held>>

\* The caller no longer counts on this lock (nothing, if it had none).
GiveUp(t) == held' = [held EXCEPT ![t][arg[t]] = IF @ > 0 THEN @ - 1 ELSE 0]

\* Mutant: the mutex is kept when the count reaches 0.
UnlockLastKeeps(t) ==
  /\ pc[t] = "uscan"
  /\ \E c \in Matches(t, arg[t]) :
       /\ elem[c].count = 1
       /\ elem' = [elem EXCEPT ![c] = Free]
  /\ GiveUp(t)
  /\ Goto(t, "uleave")
  /\ UNCHANGED <<arg, owner, listmx, result>>

\* --current->count is not 0.  The loop goes on, but no other element matches
\* (UniqueElement).
UnlockOnce(t) ==
  /\ pc[t] = "uscan"
  /\ \E c \in Matches(t, arg[t]) :
       /\ elem[c].count # 1
       /\ elem' = [elem EXCEPT ![c].count = @ - 1]
  /\ GiveUp(t)
  /\ Goto(t, "uleave")
  /\ UNCHANGED <<arg, owner, listmx, result>>

\* Mutant: the mutex is released whatever the count.
UnlockAlways(t) ==
  /\ pc[t] = "uscan"
  /\ \E c \in Matches(t, arg[t]) : elem' = [elem EXCEPT ![c] = Free]
  /\ GiveUp(t)
  /\ Goto(t, "ufree")
  /\ UNCHANGED <<arg, owner, listmx, result>>

\* --current->count is 0: LIST_REMOVE, free
UnlockLast(t) ==
  /\ pc[t] = "uscan"
  /\ \E c \in Matches(t, arg[t]) :
       /\ elem[c].count = 1
       /\ elem' = [elem EXCEPT ![c] = Free]
  /\ GiveUp(t)
  /\ Goto(t, "ufree")
  /\ UNCHANGED <<arg, owner, listmx, result>>

\* Mutant: the element is looked up by the mutex alone.
UnlockUnknownFrees(t) ==
  /\ pc[t] = "uscan"
  /\ Matches(t, arg[t]) = {}
  /\ GiveUp(t)
  /\ Goto(t, "ufree")
  /\ UNCHANGED <<arg, owner, listmx, elem, result>>

\* No element matches: the loop ends and nothing is done.
UnlockUnknown(t) ==
  /\ pc[t] = "uscan"
  /\ Matches(t, arg[t]) = {}
  /\ GiveUp(t)
  /\ Goto(t, "uleave")
  /\ UNCHANGED <<arg, owner, listmx, elem, result>>

\* pthread_mutex_unlock(mutex), inside the list's critical section
UnlockMutex(t) ==
  /\ pc[t] = "ufree"
  /\ owner' = [owner EXCEPT ![arg[t]] = None]
  /\ Goto(t, "uleave")
  /\ UNCHANGED <<arg, listmx, elem, result, held>>

UnlockReturn(t) ==
  /\ pc[t] = "uleave"
  /\ listmx' = None
  /\ result' = [result EXCEPT ![t] = 0]
  /\ Goto(t, "idle")
  /\ UNCHANGED <<arg, owner, elem, held>>

-----------------------------------------------------------------------------
\* A call, once made, proceeds.
Proceed(t) ==
  \/ LockList(t) \/ LockAgain(t) \/ LockAgainReturn(t) \/ LockInsert(t)
  \/ LockNoMemory(t) \/ LockLeaveList(t) \/ LockMutex(t)
  \/ UnlockList(t) \/ UnlockOnce(t) \/ UnlockLast(t) \/ UnlockUnknown(t)
  \/ UnlockMutex(t) \/ UnlockReturn(t)

Call(t) == \E m \in Mutexes : CallLock(t, m) \/ CallUnlock(t, m)

Next == \E t \in Threads : Call(t) \/ Proceed(t)

Spec == Init /\ [][Next]_vars

\* Threads are scheduled; nothing is assumed about which waiter gets a mutex,
\* nor that a caller ever calls again.
FairSpec == Spec /\ \A t \in Threads : WF_vars(Proceed(t))

-----------------------------------------------------------------------------
(* Properties *)

\* Where a thread is inside the list's critical section.
InList == {"lscan", "lreturn", "linserted", "uscan", "ufree", "uleave"}

\* The type invariant of the list, the mutexes and the calls.
TypeOK ==
  /\ pc \in [Threads -> {"idle", "lock", "lwait", "unlock"} \cup InList]
  /\ arg \in [Threads -> Mutexes]
  /\ owner \in [Mutexes -> Threads \cup {None}]
  /\ listmx \in Threads \cup {None}
  /\ elem \in [Cells -> Elem \cup {Free}]
  /\ result \in [Threads -> {0, -1}]
  /\ held \in [Threads -> [Mutexes -> Nat]]

\* A caller whose lock returned 0, and who has not undone it, owns the mutex;
\* so no two callers ever have the same mutex.
HolderOwns ==
  \A t \in Threads, m \in Mutexes : held[t][m] > 0 => owner[m] = t

\* Between two calls a thread owns exactly what it has locked and not
\* unlocked as often: no unlock comes too early or is forgotten.
OwnerHolds ==
  \A t \in Threads, m \in Mutexes :
    pc[t] = "idle" /\ owner[m] = t => held[t][m] > 0

\* pthread_mutex_unlock is only called by the thread that owns the mutex.
UnlocksOwn ==
  \A t \in Threads : pc[t] = "ufree" => owner[arg[t]] = t

\* The list has one element for a mutex and a thread, and its count is never
\* 0: the scans of both functions stop at the element they mean.
UniqueElement ==
  \A t \in Threads, m \in Mutexes :
    \A c, d \in Matches(t, m) : c = d /\ elem[c].count > 0

\* Only one thread at a time scans or changes the list.
ListExclusive ==
  \A t, u \in Threads : pc[t] \in InList /\ pc[u] \in InList => t = u

\* How often thread t holds m: the count of its element, except that the
\* element appears before the mutex is taken and goes before it is released.
Depth(t, m) ==
  IF owner[m] # t THEN 0
  ELSE IF Matches(t, m) = {} THEN 1
  ELSE elem[CHOOSE c \in Matches(t, m) : TRUE].count

depthBar == [t \in Threads |-> [m \in Mutexes |-> Depth(t, m)]]

\* The two functions implement a reentrant lock.
Reentrant == INSTANCE ReentrantLock WITH depth <- depthBar
ImplementsReentrantLock == Reentrant!Spec

\* No thread waits for a mutex inside the list's critical section: whoever
\* enters it leaves it, however long the mutexes themselves are held.  Only a
\* lock that failed for want of memory keeps the list's mutex, and says so.
ListReleased ==
  (listmx # None) ~>
    (listmx = None \/ result[listmx] = -1)

-----------------------------------------------------------------------------
(* The inductive invariant *)

\* The thread has an element and not the mutex yet.
Waiting(t, m) == pc[t] \in {"linserted", "lwait"} /\ arg[t] = m

\* Locks that the element counts and the caller does not know of yet.
Extra(t, m) ==
  IF pc[t] \in {"lreturn", "linserted", "lwait"} /\ arg[t] = m THEN 1 ELSE 0

ListInv ==
  \A t \in Threads :
    /\ pc[t] \in InList => listmx = t
    /\ listmx = t => \/ pc[t] \in InList
                     \/ pc[t] \in {"idle", "lock", "unlock"} /\ result[t] = -1

ElemInv ==
  \A t \in Threads, m \in Mutexes :
    /\ \A c, d \in Matches(t, m) : c = d
    /\ \A c \in Matches(t, m) : elem[c].count = held[t][m] + Extra(t, m)
    /\ \A c \in Matches(t, m) : elem[c].count > 0
    /\ Matches(t, m) = {} => held[t][m] = 0 /\ Extra(t, m) = 0

OwnerInv ==
  \A t \in Threads, m \in Mutexes :
    /\ owner[m] = t => Matches(t, m) # {} \/ (pc[t] = "ufree" /\ arg[t] = m)
    /\ Matches(t, m) # {} => Waiting(t, m) \/ owner[m] = t
    /\ Waiting(t, m) => owner[m] # t /\ held[t][m] = 0
    /\ pc[t] = "ufree" /\ arg[t] = m => owner[m] = t /\ Matches(t, m) = {}

\* The invariant that the proofs show to be inductive: the elements, the
\* mutexes and the callers' view agree at every step.
RmInv == TypeOK /\ ListInv /\ ElemInv /\ OwnerInv
=============================================================================
