------------------------------- MODULE Threads -------------------------------
(***************************************************************************)
(* The thread registry of src/lmap_threads.c and the main program that     *)
(* uses it (src/lmap_main.c): main registers itself, creates and registers *)
(* the workers, registers itself again as "UI", runs the interface, and    *)
(* kills every other registered thread when the interface returns.         *)
(*                                                                         *)
(* The registry is a linked list of heap nodes.  Main changes it under     *)
(* threads_mutex; lmap_thread_getname walks it without the mutex (but      *)
(* unlocks it), and with DEBUG every debug message of every thread calls   *)
(* lmap_thread_getname.  lmap_thread_kill_all walks the list while         *)
(* lmap_thread_destroy frees the node it stands on.                        *)
(***************************************************************************)
EXTENDS Integers, FiniteSets

CONSTANTS
  Main,         \* the thread that runs main, and later the interface
  Workers,      \* the threads that main creates (the program: one, capture)
  Builds,       \* the builds: compiled with DEBUG (TRUE) or without
  CreateFails,  \* can pthread_create fail?
  NULL,         \* the null pointer
  LHead,        \* the address &thread_list_head.lh_first
  None,         \* nobody (a free mutex)
  Off           \* a worker that is not in lmap_thread_getname

Threads == {Main} \cup Workers

\* A registration is called "main", "UI", or after the worker it was made for.
\* Its node holds a thread id: a worker's own, or main's.
Node == ({Main} \X ({"main", "UI"} \cup Workers)) \cup {<<w, w>> : w \in Workers}

ASSUME ThreadsAssumption ==
  /\ Main \notin Workers /\ {"main", "UI"} \cap Workers = {}
  /\ IsFiniteSet(Workers)
  /\ Builds \subseteq BOOLEAN
  /\ CreateFails \in BOOLEAN
  /\ NULL \notin Node
  /\ LHead \notin Node \cup {NULL}
  /\ None \notin Threads
  /\ Off \notin Node \cup {NULL}

VARIABLES
  debug,    \* the build that runs
  mpc,      \* where main is
  ret,      \* where lmap_thread_register returns to
  new,      \* lmap_thread_register's newelem
  old,      \* the node it replaces, or NULL
  cur,      \* lmap_thread_kill_all's current
  tid,      \* lmap_thread_destroy's id
  next,     \* the le_next field of every node, and lh_first at LHead
  freed,    \* the nodes given back to the allocator
  mutex,    \* the owner of threads_mutex
  wpc,      \* where each worker is
  wcur,     \* lmap_thread_getname's current, in each worker
  asked,    \* the threads that pthread_cancel was called for
  failed    \* the workers whose pthread_create failed

mainVars == <<debug, mpc, ret, new, old, cur, tid>>
listVars == <<next, freed>>
workVars == <<wpc, wcur>>
vars == <<mainVars, listVars, mutex, workVars, asked, failed>>

Init ==
  /\ debug \in Builds
  /\ mpc = "start"
  /\ ret = "start"
  /\ new = NULL /\ old = NULL /\ cur = NULL /\ tid = None
  /\ next = [n \in Node \cup {LHead} |-> NULL]
  /\ freed = {}
  /\ mutex = None
  /\ wpc = [w \in Workers |-> "none"]
  /\ wcur = [w \in Workers |-> Off]
  /\ asked = {}
  /\ failed = {}

\* A debug message of main: lmap_thread_getname ends with THREADS_UNLOCK.
DebugMsg == mutex' = IF debug THEN None ELSE mutex

-----------------------------------------------------------------------------
(* The list *)

\* A set of nodes that LIST_NEXT does not leave, when f holds the le_next fields.
Closed(f, S) == \A n \in S : f[n] \in S \cup {NULL}

\* The nodes that a walk from p meets: the least such set that p is in.
From(f, p) ==
  {n \in Node : \A S \in SUBSET Node : p \in S \cup {NULL} /\ Closed(f, S) => n \in S}

Listed == From(next, next[LHead])

\* The first node of the list with thread id t, or NULL.
Find(t) ==
  IF \E n \in Listed : n[1] = t THEN CHOOSE n \in Listed : n[1] = t ELSE NULL

\* The cell that points to node n.
Before(n) == CHOOSE c \in Listed \cup {LHead} : next[c] = n

-----------------------------------------------------------------------------
(* lmap_thread_register(id, name, desc) *)

\* The call, with the new node and the place to return to.
Register(n, r) ==
  /\ new' = n
  /\ ret' = r
  /\ mpc' = "rlock"

RegLock ==
  /\ mpc = "rlock"
  /\ mutex = None
  /\ mutex' = Main
  /\ mpc' = "rlink"
  /\ UNCHANGED <<debug, ret, new, old, cur, tid, listVars, workVars, asked, failed>>

\* LIST_REPLACE of the node with the same id, or LIST_INSERT_HEAD
RegLink ==
  /\ mpc = "rlink"
  /\ old' = Find(new[1])
  /\ next' = IF old' = NULL
             THEN [next EXCEPT ![new] = next[LHead], ![LHead] = new]
             ELSE [next EXCEPT ![new] = next[old'], ![Before(old')] = new]
  /\ mpc' = "rfree"
  /\ UNCHANGED <<debug, ret, new, cur, tid, freed, mutex, workVars, asked, failed>>

\* SAFE_FREE of the replaced node, then THREADS_UNLOCK; lmap_thread_new ends
\* with a debug message.
RegReturn ==
  /\ mpc = "rfree"
  /\ freed' = freed \cup ({old} \ {NULL})
  /\ mutex' = None
  /\ mpc' = ret
  /\ UNCHANGED <<debug, ret, new, old, cur, tid, next, workVars, asked, failed>>

-----------------------------------------------------------------------------
(* main *)

\* lmap_thread_register(LMAP_SELF, "main", "")
RegisterMain ==
  /\ mpc = "start"
  /\ DebugMsg
  /\ Register(<<Main, "main">>, "create")
  /\ UNCHANGED <<debug, old, cur, tid, listVars, workVars, asked, failed>>

\* lmap_thread_new: the worker runs before it is registered.
CreateWorker(w) ==
  /\ mpc = "create"
  /\ wpc[w] = "none" /\ w \notin failed
  /\ DebugMsg
  /\ wpc' = [wpc EXCEPT ![w] = "started"]
  /\ Register(<<w, w>>, "create")
  /\ UNCHANGED <<debug, old, cur, tid, listVars, wcur, asked, failed>>

\* pthread_create returns an errno, which is positive: the test for < 0 does
\* not see it, and the uninitialised id is registered.  It is the id of no
\* thread, or it is 0, which is LMAP_SELF.
CreateWorkerFails(w) ==
  /\ CreateFails
  /\ mpc = "create"
  /\ wpc[w] = "none" /\ w \notin failed
  /\ DebugMsg
  /\ failed' = failed \cup {w}
  /\ \E t \in {w, Main} : Register(<<t, w>>, "create")
  /\ UNCHANGED <<debug, old, cur, tid, listVars, workVars, asked>>

\* lmap_thread_register(LMAP_SELF, "UI", ...), then ui_start
RegisterUI ==
  /\ mpc = "create"
  /\ \A w \in Workers : wpc[w] # "none" \/ w \in failed
  /\ DebugMsg
  /\ Register(<<Main, "UI">>, "ui")
  /\ UNCHANGED <<debug, old, cur, tid, listVars, workVars, asked, failed>>

\* ui_start returns; lmap_thread_kill_all starts its loop.
KillAll ==
  /\ mpc = "ui"
  /\ DebugMsg
  /\ cur' = next[LHead]
  /\ mpc' = "kill"
  /\ UNCHANGED <<debug, ret, new, old, tid, listVars, workVars, asked, failed>>

\* Mutant: the caller is not spared.
KillThreadSelf ==
  /\ mpc = "kill"
  /\ cur # NULL
  /\ tid' = cur[1]
  /\ DebugMsg
  /\ asked' = asked \cup {cur[1]}
  /\ mpc' = "join"
  /\ UNCHANGED <<debug, ret, new, old, cur, listVars, workVars, failed>>

\* The test current->t.id != id, and lmap_thread_destroy up to the cancel.
KillThread ==
  /\ mpc = "kill"
  /\ cur # NULL /\ cur[1] # Main
  /\ tid' = cur[1]
  /\ DebugMsg
  /\ asked' = asked \cup {cur[1]}
  /\ mpc' = "join"
  /\ UNCHANGED <<debug, ret, new, old, cur, listVars, workVars, failed>>

SkipSelf ==
  /\ mpc = "kill"
  /\ cur # NULL /\ cur[1] = Main
  /\ mpc' = "step"
  /\ UNCHANGED <<debug, ret, new, old, cur, tid, listVars, mutex, workVars, asked, failed>>

\* Mutant: the thread is cancelled and not joined.
JoinNot ==
  /\ mpc = "join"
  /\ tid \in Workers \ failed
  /\ mpc' = "dlock"
  /\ UNCHANGED <<debug, ret, new, old, cur, tid, listVars, mutex, workVars, asked, failed>>

\* pthread_join
Join ==
  /\ mpc = "join"
  /\ tid \in Workers /\ wpc[tid] = "dead"
  /\ mpc' = "dlock"
  /\ UNCHANGED <<debug, ret, new, old, cur, tid, listVars, mutex, workVars, asked, failed>>

\* pthread_cancel and pthread_join of an id that no thread has: they fail, or
\* follow the id as a pointer and the program dies.
JoinNobody ==
  /\ mpc = "join"
  /\ tid \in failed
  /\ mpc' \in {"dlock", "crash"}
  /\ UNCHANGED <<debug, ret, new, old, cur, tid, listVars, mutex, workVars, asked, failed>>

\* Mutant: lmap_thread_destroy changes the list without the mutex.
DestroyNoLock ==
  /\ mpc = "dlock"
  /\ mpc' = "dremove"
  /\ UNCHANGED <<debug, ret, new, old, cur, tid, listVars, mutex, workVars, asked, failed>>

DestroyLock ==
  /\ mpc = "dlock"
  /\ mutex = None
  /\ mutex' = Main
  /\ mpc' = "dremove"
  /\ UNCHANGED <<debug, ret, new, old, cur, tid, listVars, workVars, asked, failed>>

\* Mutant: the node is freed and stays in the list.
DestroyFreeOnly ==
  /\ mpc = "dremove"
  /\ freed' = freed \cup ({Find(tid)} \ {NULL})
  /\ mpc' = "dunlock"
  /\ UNCHANGED <<debug, ret, new, old, cur, tid, next, mutex, workVars, asked, failed>>

\* LIST_REMOVE and SAFE_FREE of the node with that id, if there is one
DestroyRemove ==
  /\ mpc = "dremove"
  /\ LET n == Find(tid) IN
     /\ next' = IF n = NULL THEN next ELSE [next EXCEPT ![Before(n)] = next[n]]
     /\ freed' = freed \cup ({n} \ {NULL})
  /\ mpc' = "dunlock"
  /\ UNCHANGED <<debug, ret, new, old, cur, tid, mutex, workVars, asked, failed>>

DestroyReturn ==
  /\ mpc = "dunlock"
  /\ mutex' = None
  /\ mpc' = "step"
  /\ UNCHANGED <<debug, ret, new, old, cur, tid, listVars, workVars, asked, failed>>

\* Mutant: the loop starts again at the head after every thread.
KillNextHead ==
  /\ mpc = "step"
  /\ cur' = next[LHead]
  /\ mpc' = "kill"
  /\ UNCHANGED <<debug, ret, new, old, tid, listVars, mutex, workVars, asked, failed>>

\* LIST_NEXT(current), although current was freed.  free leaves the last field
\* of the node alone, and nobody runs who might have got the memory from calloc
\* (FreedUnused): next[cur] is still what LIST_REMOVE left there.
KillNext ==
  /\ mpc = "step"
  /\ cur' = next[cur]
  /\ mpc' = "kill"
  /\ UNCHANGED <<debug, ret, new, old, tid, listVars, mutex, workVars, asked, failed>>

\* The loop is over: ui_cleanup, return 0
KillDone ==
  /\ mpc = "kill"
  /\ cur = NULL
  /\ mpc' = "exit"
  /\ UNCHANGED <<debug, ret, new, old, cur, tid, listVars, mutex, workVars, asked, failed>>

Over == mpc \in {"exit", "crash"} /\ UNCHANGED vars

-----------------------------------------------------------------------------
(* The workers *)

\* Where a worker goes after its debug message: the function of the thread,
\* then lmap_thread_init, then its loop.
After(l) == CASE l = "started" -> "init" [] l = "init" -> "async" [] OTHER -> l

\* A debug message: lmap_thread_getname(LMAP_SELF) starts at the head.
GetnameStart(w) ==
  /\ debug
  /\ wpc[w] \in {"started", "init", "loop"}
  /\ wcur[w] = Off
  /\ wcur' = [wcur EXCEPT ![w] = next[LHead]]
  /\ UNCHANGED <<mainVars, listVars, mutex, wpc, asked, failed>>

GetnameNext(w) ==
  /\ wpc[w] # "dead"
  /\ wcur[w] \in {n \in Node : n[1] # w}
  /\ wcur' = [wcur EXCEPT ![w] = next[@]]
  /\ UNCHANGED <<mainVars, listVars, mutex, wpc, asked, failed>>

\* Found, or not in the list: THREADS_UNLOCK in both cases.
GetnameReturn(w) ==
  /\ wpc[w] # "dead"
  /\ wcur[w] = NULL \/ wcur[w] \in {n \in Node : n[1] = w}
  /\ wcur' = [wcur EXCEPT ![w] = Off]
  /\ mutex' = None
  /\ wpc' = [wpc EXCEPT ![w] = After(@)]
  /\ UNCHANGED <<mainVars, listVars, asked, failed>>

\* Without DEBUG the messages are not compiled.
NoGetname(w) ==
  /\ ~debug
  /\ wpc[w] \in {"started", "init"}
  /\ wpc' = [wpc EXCEPT ![w] = After(@)]
  /\ UNCHANGED <<mainVars, listVars, mutex, wcur, asked, failed>>

\* pthread_setcanceltype(PTHREAD_CANCEL_ASYNCHRONOUS)
SetAsync(w) ==
  /\ wpc[w] = "async"
  /\ wpc' = [wpc EXCEPT ![w] = "loop"]
  /\ UNCHANGED <<mainVars, listVars, mutex, wcur, asked, failed>>

\* An asynchronous cancellation takes effect at once, anywhere in the loop.
Die(w) ==
  /\ wpc[w] = "loop"
  /\ w \in asked
  /\ wpc' = [wpc EXCEPT ![w] = "dead"]
  /\ UNCHANGED <<mainVars, listVars, mutex, wcur, asked, failed>>

-----------------------------------------------------------------------------
MainStep ==
  \/ RegisterMain \/ RegisterUI \/ RegLock \/ RegLink \/ RegReturn
  \/ KillThread \/ SkipSelf \/ Join \/ JoinNobody \/ DestroyLock \/ DestroyRemove
  \/ DestroyReturn \/ KillNext \/ KillDone
  \/ \E w \in Workers : CreateWorker(w) \/ CreateWorkerFails(w)

Getname(w) == GetnameNext(w) \/ GetnameReturn(w)

Start(w) == SetAsync(w) \/ NoGetname(w) \/ (wpc[w] # "loop" /\ GetnameStart(w))

Next ==
  \/ MainStep
  \/ KillAll
  \/ \E w \in Workers :
       GetnameStart(w) \/ Getname(w) \/ NoGetname(w) \/ SetAsync(w) \/ Die(w)
  \/ Over

Spec == Init /\ [][Next]_vars

\* Main and the workers are scheduled, and the system delivers a requested
\* cancellation.  The user need not leave the interface.
FairSpec ==
  /\ Spec
  /\ WF_vars(MainStep)
  /\ \A w \in Workers :
       WF_vars(Getname(w)) /\ WF_vars(Start(w)) /\ WF_vars(Die(w))

-----------------------------------------------------------------------------
(* Properties *)

\* The type invariant of the registry and of the threads.
TypeOK ==
  /\ debug \in Builds
  /\ mpc \in {"start", "create", "ui", "kill", "step", "join", "exit", "crash",
              "rlock", "rlink", "rfree", "dlock", "dremove", "dunlock"}
  /\ ret \in {"start", "create", "ui"}
  /\ {new, old, cur} \subseteq Node \cup {NULL}
  /\ tid \in Threads \cup {None}
  /\ next \in [Node \cup {LHead} -> Node \cup {NULL}]
  /\ freed \subseteq Node
  /\ mutex \in {Main, None}
  /\ wpc \in [Workers -> {"none", "started", "init", "async", "loop", "dead"}]
  /\ wcur \in [Workers -> Node \cup {NULL, Off}]
  /\ asked \subseteq Threads
  /\ failed \subseteq Workers

\* The registry never links a freed node, nor two nodes for one thread:
\* registering a thread again replaces its node.
RegistrySound ==
  /\ Listed \cap freed = {}
  /\ \A n, m \in Listed : n[1] = m[1] => n = m

\* "kill all the registerd thread but the calling one": when the loop is over
\* no worker runs, and main was not asked to cancel itself.
KillsAll ==
  /\ mpc = "exit" => \A w \in Workers : wpc[w] = "dead" \/ w \in failed
  /\ Main \notin asked

\* When lmap_thread_kill_all goes on from a node that lmap_thread_destroy has
\* freed, every other thread has ended: nobody can have been given its memory.
FreedUnused ==
  mpc = "step" /\ cur \in freed => \A w \in Workers : wpc[w] \in {"none", "dead"}

\* No other thread writes a debug message, which would unlock threads_mutex: the
\* build is without DEBUG, or no other thread runs.
Quiet == debug => \A w \in Workers : wpc[w] \in {"none", "dead"}

\* "fixed thread locking in lmap_thread": the list is changed, and its nodes are
\* freed, only under threads_mutex, and it is free when main works without it.
\* With DEBUG lmap_thread_getname in another thread unlocks it as well, and it is
\* the only one that does.
ReleaseProtected ==
  /\ mpc \in {"rlink", "rfree", "dremove", "dunlock"} /\ Quiet => mutex = Main
  /\ mpc \notin {"rlink", "rfree", "dremove", "dunlock"} => mutex = None

\* "not enough system resources to create a new thread" ends the program: no
\* thread that could not be created is in the registry.
RegisteredExist == \A n \in Listed : n[1] \notin failed

\* Leaving the interface ends the program: every join returns, also for a
\* thread cancelled before it could set its cancelability.
QuitEnds == (mpc = "kill") ~> (mpc \in {"exit", "crash"})
=============================================================================
