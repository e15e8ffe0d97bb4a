---------------------------- MODULE ThreadsProofs ----------------------------
(***************************************************************************)
(* Proofs about Threads, for any number of workers and both builds.        *)
(***************************************************************************)
EXTENDS Threads, TLAPS

\* A worker that can still do something.
Runs(w) == wpc[w] \notin {"none", "dead"}

\* No two cells of the list point to one node, no node is listed and freed, and
\* no two listed nodes have one thread id.
ListInv ==
  /\ \A c, d \in Listed \cup {LHead} : next[c] = next[d] /\ next[c] # NULL => c = d
  /\ RegistrySound

Registering == mpc \in {"rlock", "rlink"}
InRegister == mpc \in {"rlock", "rlink", "rfree"}

\* The nodes that have been allocated so far.
Used ==
  Listed \cup freed
    \cup {n \in {new} : Registering}
    \cup {n \in {old} \ {NULL} : mpc = "rfree"}

\* Main has not registered itself as "UI" yet.
Creating == mpc \in {"start", "create"} \/ (InRegister /\ ret = "create")

\* Which nodes have been used, and what lmap_thread_register works on.
NodeInv ==
  /\ mpc = "start" => Used = {}
  /\ \A w \in Workers :
       wpc[w] = "none" /\ w \notin failed => <<w, w>> \notin Used /\ <<Main, w>> \notin Used
  /\ Creating => <<Main, "UI">> \notin Used
  /\ Registering => new \in Node \ (Listed \cup freed)
  /\ InRegister => ret # "start"
  /\ mpc = "rfree" => old \notin Listed
  /\ \A w \in failed : wpc[w] = "none"

\* Every worker that runs is registered, or about to be.
RegisteredInv ==
  /\ \A w \in Workers :
       Runs(w) => <<w, w>> \in Listed \/ (Registering /\ new = <<w, w>>)
  /\ ~Creating => \A w \in Workers : wpc[w] # "none" \/ w \in failed

\* What lmap_thread_kill_all has still before it.
KillInv ==
  /\ mpc \in {"kill", "join", "dlock", "dremove"} => cur \in Listed \cup {NULL}
  /\ mpc \in {"join", "dlock", "dremove"} => cur # NULL /\ tid = cur[1] /\ tid # Main
  /\ mpc \in {"dlock", "dremove"} => ~Runs(tid)
  /\ mpc \in {"dunlock", "step"} => cur # NULL /\ next[cur] \in Listed \cup {NULL}
  /\ mpc \in {"kill", "join"} => \A w \in Workers : Runs(w) => <<w, w>> \in From(next, cur)
  /\ mpc \in {"dlock", "dremove", "dunlock", "step"} =>
       \A w \in Workers : Runs(w) => <<w, w>> \in From(next, next[cur])
  /\ mpc \in {"dunlock", "step"} => cur[1] # Main \/ cur \in Listed
  /\ mpc = "exit" => \A w \in Workers : ~Runs(w)
  /\ Main \notin asked

\* The places of main from the interface on.
KillPlaces == {"ui", "kill", "join", "dlock", "dremove", "dunlock", "step", "exit", "crash"}

\* Only the worker that main waits for has been asked to end and still runs.
AskedInv ==
  /\ asked # {} => mpc \in KillPlaces
  /\ \A w \in Workers : w \in asked /\ Runs(w) => mpc = "join" /\ tid = w

\* A thread that does not run, and without DEBUG any other than main, leaves the
\* mutex alone.
MutexInv ==
  /\ \A w \in Workers : ~debug \/ wpc[w] = "none" => wcur[w] = Off
  /\ ReleaseProtected

RegInv == TypeOK /\ ListInv /\ NodeInv /\ RegisteredInv /\ KillInv /\ AskedInv /\ MutexInv

-----------------------------------------------------------------------------
(* Walks through the heap *)

LEMMA Names ==
  /\ LHead \notin Node /\ NULL \notin Node /\ LHead # NULL /\ Off \notin Node \cup {NULL}
  /\ None \notin Threads /\ Main \notin Workers /\ Main \in Threads
  /\ \A n \in Node : n[1] \in Threads
  BY ThreadsAssumption DEF Node, Threads

Heap == [Node \cup {LHead} -> Node \cup {NULL}]

\* A walk stays in every set that it cannot leave.
LEMMA FromLeast ==
  ASSUME NEW f, NEW p, NEW X \in SUBSET Node, p \in X \cup {NULL}, Closed(f, X)
  PROVE  From(f, p) \subseteq X
  BY DEF From

\* A walk meets where it starts and everything that follows what it meets.
LEMMA FromClosed ==
  ASSUME NEW f \in Heap, NEW p \in Node \cup {NULL}
  PROVE  /\ From(f, p) \subseteq Node
         /\ p \in From(f, p) \cup {NULL}
         /\ Closed(f, From(f, p))
  <1>1. From(f, p) \subseteq Node /\ p \in From(f, p) \cup {NULL}
    BY Names DEF From
  <1>2. ASSUME NEW n \in From(f, p), f[n] # NULL PROVE f[n] \in From(f, p)
    <2>1. n \in Node /\ f[n] \in Node
      BY <1>1, <1>2 DEF Heap
    <2>2. ASSUME NEW S \in SUBSET Node, p \in S \cup {NULL}, Closed(f, S) PROVE f[n] \in S
      <3>1. n \in S
        BY <2>2 DEF From
      <3> QED BY <1>2, <2>2, <3>1 DEF Closed
    <2> QED BY <2>1, <2>2 DEF From
  <1> QED BY <1>1, <1>2 DEF Closed

\* A walk from the end meets nothing.
LEMMA FromNull == ASSUME NEW f PROVE From(f, NULL) = {}
  <1>1. {} \in SUBSET Node /\ NULL \in {} \cup {NULL} /\ Closed(f, {})
    BY DEF Closed
  <1>2. From(f, NULL) \subseteq {}
    BY <1>1, FromLeast
  <1> QED BY <1>2

\* A walk meets its start and what the walk from its successor meets.
LEMMA FromStep ==
  ASSUME NEW f \in Heap, NEW p \in Node
  PROVE  From(f, p) \subseteq {p} \cup From(f, f[p])
  <1> DEFINE X == {p} \cup From(f, f[p])
  <1>1. f[p] \in Node \cup {NULL}
    BY DEF Heap
  <1>2. From(f, f[p]) \subseteq Node /\ f[p] \in From(f, f[p]) \cup {NULL} /\ Closed(f, From(f, f[p]))
    BY <1>1, FromClosed
  <1>3. X \in SUBSET Node /\ p \in X \cup {NULL} /\ Closed(f, X)
    BY <1>2 DEF Closed
  <1> HIDE DEF X
  <1>4. From(f, p) \subseteq X
    BY <1>3, FromLeast
  <1> QED BY <1>4 DEF X

\* What a walk from inside a closed set meets is in that set.
LEMMA FromSub ==
  ASSUME NEW f \in Heap, NEW p \in Node \cup {NULL}, NEW q \in From(f, p) \cup {NULL}
  PROVE  From(f, q) \subseteq From(f, p)
  <1>1. From(f, p) \in SUBSET Node /\ Closed(f, From(f, p))
    BY FromClosed
  <1> QED BY <1>1, FromLeast

\* A change of cells that the walk does not meet does not change the walk.
LEMMA FromSame ==
  ASSUME NEW f \in Heap, NEW g \in Heap, NEW p \in Node \cup {NULL},
         \A n \in From(f, p) : g[n] = f[n]
  PROVE  From(f, p) \subseteq From(g, p)
  <1> DEFINE A == From(f, p)
             B == From(g, p)
             X == A \cap B
  <1>1. A \subseteq Node /\ p \in A \cup {NULL} /\ Closed(f, A)
    BY FromClosed
  <1>2. B \subseteq Node /\ p \in B \cup {NULL} /\ Closed(g, B)
    BY FromClosed
  <1>3. X \in SUBSET Node /\ p \in X \cup {NULL} /\ Closed(f, X)
    BY <1>1, <1>2 DEF Closed
  <1>4. A \subseteq X
    BY <1>3, FromLeast
  <1> QED BY <1>4

\* The list that starts in the cell LHead of f, and its one property that all
\* else follows from: no two of its cells point to one node.
ListOf(f) == From(f, f[LHead])

Simple(f) ==
  \A c, d \in ListOf(f) \cup {LHead} : f[c] = f[d] /\ f[c] # NULL => c = d

LEMMA ListClosed ==
  ASSUME NEW f \in Heap
  PROVE  /\ ListOf(f) \subseteq Node
         /\ \A c \in ListOf(f) \cup {LHead} : f[c] \in ListOf(f) \cup {NULL}
  <1>1. f[LHead] \in Node \cup {NULL}
    BY DEF Heap
  <1> QED BY <1>1, FromClosed DEF ListOf, Closed

\* It is contained in every closed set that it starts in.
LEMMA ListLeast ==
  ASSUME NEW f \in Heap, NEW Y \in SUBSET Node, f[LHead] \in Y \cup {NULL}, Closed(f, Y)
  PROVE  ListOf(f) \subseteq Y
  BY FromLeast DEF ListOf

\* Every node of the list has a cell that points to it.
LEMMA HasBefore ==
  ASSUME NEW f \in Heap, NEW n \in ListOf(f)
  PROVE  \E c \in ListOf(f) \cup {LHead} : f[c] = n
  <1> DEFINE X == {m \in ListOf(f) : \E c \in ListOf(f) \cup {LHead} : f[c] = m}
  <1>1. ListOf(f) \subseteq Node /\ f[LHead] \in Node \cup {NULL}
    BY ListClosed DEF Heap
  <1>2. X \in SUBSET Node /\ f[LHead] \in X \cup {NULL} /\ Closed(f, X)
    BY <1>1, ListClosed DEF Closed
  <1>3. ListOf(f) \subseteq X
    BY <1>2, FromLeast DEF ListOf
  <1> QED BY <1>3

\* The list has no cycle: no walk comes back to its start.
LEMMA NoCycle ==
  ASSUME NEW f \in Heap, Simple(f), NEW n \in ListOf(f)
  PROVE  n \notin From(f, f[n])
  <1> DEFINE F == From(f, f[n])
  <1> SUFFICES ASSUME n \in F PROVE FALSE
    OBVIOUS
  <1>1. ListOf(f) \subseteq Node /\ f[n] \in ListOf(f) \cup {NULL} /\ f[n] \in Node \cup {NULL}
    BY ListClosed DEF Heap
  <1>2. F \subseteq Node /\ f[n] \in F \cup {NULL} /\ Closed(f, F)
    BY <1>1, FromClosed
  <1>3. F \subseteq ListOf(f)
    <2>1. Closed(f, ListOf(f))
      BY ListClosed DEF Closed
    <2> QED BY <1>1, <2>1, FromLeast
  <1>4. f[n] # NULL
    BY FromNull
  \* Every node of the cycle has its predecessor in the cycle ...
  <1>5. \A m \in F : \E c \in F : f[c] = m
    <2> DEFINE G == {m \in F : \E c \in F : f[c] = m}
    <2>1. G \in SUBSET Node /\ f[n] \in G \cup {NULL} /\ Closed(f, G)
      BY <1>2, <1>4 DEF Closed
    <2>2. F \subseteq G
      BY <2>1, FromLeast
    <2> QED BY <2>2
  \* ... so that the rest of the list does not lead into it.
  <1>6. \A c \in (ListOf(f) \cup {LHead}) \ F : f[c] \notin F
    <2> SUFFICES ASSUME NEW c \in (ListOf(f) \cup {LHead}) \ F, f[c] \in F PROVE FALSE
      OBVIOUS
    <2>1. PICK d \in F : f[d] = f[c]
      BY <1>5
    <2>2. f[c] # NULL
      BY <1>2, Names
    <2> QED BY <1>3, <2>1, <2>2 DEF Simple
  <1>7. LHead \notin F
    BY <1>2, Names
  <1> DEFINE R == ListOf(f) \ F
  <1>8. R \in SUBSET Node /\ f[LHead] \in R \cup {NULL} /\ Closed(f, R)
    <2>1. \A c \in ListOf(f) \cup {LHead} : f[c] \in ListOf(f) \cup {NULL}
      BY ListClosed
    <2> QED BY <1>1, <1>6, <1>7, <2>1 DEF Closed
  <1>9. ListOf(f) \subseteq R
    BY <1>8, FromLeast DEF ListOf
  <1> QED BY <1>9

-----------------------------------------------------------------------------
(* The operations on the list *)

\* LIST_INSERT_HEAD
LEMMA InsertHead ==
  ASSUME NEW f \in Heap, Simple(f), NEW n \in Node \ ListOf(f), NEW g,
         g = [f EXCEPT ![n] = f[LHead], ![LHead] = n]
  PROVE  g \in Heap /\ Simple(g) /\ ListOf(g) = ListOf(f) \cup {n}
  <1> DEFINE L == ListOf(f)
             X == L \cup {n}
  <1>1. /\ L \subseteq Node /\ f[LHead] \in L \cup {NULL}
        /\ \A c \in L : f[c] \in L \cup {NULL}
    BY ListClosed
  <1>2. /\ g \in Heap /\ g[LHead] = n /\ g[n] = f[LHead]
        /\ \A c \in Node : c # n => g[c] = f[c]
    BY Names DEF Heap
  <1>3. ListOf(g) \subseteq X
    <2>1. X \in SUBSET Node /\ g[LHead] \in X \cup {NULL} /\ Closed(g, X)
      BY <1>1, <1>2 DEF Closed
    <2> QED BY <2>1, FromLeast DEF ListOf
  <1>4. X \subseteq ListOf(g)
    <2>1. n \in ListOf(g) /\ ListOf(g) \subseteq Node
          /\ \A c \in ListOf(g) : g[c] \in ListOf(g) \cup {NULL}
      BY <1>2, ListClosed, Names
    <2> DEFINE Y == L \cap ListOf(g)
    <2>2. Y \in SUBSET Node /\ f[LHead] \in Y \cup {NULL} /\ Closed(f, Y)
      BY <1>1, <1>2, <2>1 DEF Closed
    <2>3. L \subseteq Y
      BY <2>2, ListLeast
    <2> QED BY <2>1, <2>3
  <1>5. Simple(g)
    <2>1. ListOf(g) = X
      BY <1>3, <1>4
    <2> SUFFICES ASSUME NEW c \in X \cup {LHead}, NEW d \in X \cup {LHead}, g[c] = g[d], g[c] # NULL
                 PROVE  c = d
      BY <2>1 DEF Simple
    <2>2. \A m \in L : m # n /\ m \in Node
      BY <1>1
    <2>3. \A m \in L : f[m] = f[LHead] => f[m] = NULL
      BY <1>1, Names DEF Simple
    <2>4. \A m \in L : g[m] # n /\ g[m] = f[m]
      BY <1>1, <1>2, <2>2, Names
    <2>5. \A m, k \in L : f[m] = f[k] /\ f[m] # NULL => m = k
      BY DEF Simple
    <2>6. g[n] # n
      BY <1>1, <1>2, Names
    <2>7. CASE c \in L /\ d \in L
      BY <2>4, <2>5, <2>7
    <2>8. CASE c \notin L /\ d \notin L
      <3>1. c \in {n, LHead} /\ d \in {n, LHead}
        BY <2>8
      <3>2. g[n] # g[LHead]
        BY <1>2, <2>6
      <3>3. CASE c = n
        BY <3>1, <3>2, <3>3, Zenon
      <3>4. CASE c = LHead
        BY <3>1, <3>2, <3>4, Zenon
      <3> QED BY <3>1, <3>3, <3>4, Zenon
    <2>9. CASE c \in L /\ d \notin L
      BY <1>2, <2>3, <2>4, <2>9
    <2>10. CASE c \notin L /\ d \in L
      BY <1>2, <2>3, <2>4, <2>10
    <2> QED BY <2>7, <2>8, <2>9, <2>10
  <1> QED BY <1>2, <1>3, <1>4, <1>5

\* LIST_REPLACE of node o, to which cell b points, by n
LEMMA Replace ==
  ASSUME NEW f \in Heap, Simple(f), NEW n \in Node \ ListOf(f), NEW o \in ListOf(f),
         NEW b \in ListOf(f) \cup {LHead}, f[b] = o, NEW g,
         g = [f EXCEPT ![n] = f[o], ![b] = n]
  PROVE  g \in Heap /\ Simple(g) /\ ListOf(g) = (ListOf(f) \ {o}) \cup {n}
  <1> DEFINE L == ListOf(f)
             X == (L \ {o}) \cup {n}
  <1>1. /\ L \subseteq Node /\ f[LHead] \in L \cup {NULL}
        /\ \A c \in L : f[c] \in L \cup {NULL}
    BY ListClosed
  <1>2. o # NULL /\ o # LHead /\ n # NULL /\ n # LHead /\ n # b /\ n # o
    BY <1>1, Names
  <1>3. /\ g \in Heap /\ g[b] = n /\ g[n] = f[o]
        /\ \A c \in Node \cup {LHead} : c # n /\ c # b => g[c] = f[c]
    BY <1>1, <1>2, Names DEF Heap
  <1>4. \A c \in L \cup {LHead} : c # b => f[c] # o
    BY <1>2 DEF Simple
  <1>5. b # o /\ f[o] # o
    <2>1. o \notin From(f, f[o])
      BY NoCycle
    <2>2. f[o] \in Node \cup {NULL}
      BY <1>1
    <2>3. f[o] # o
      BY <1>2, <2>1, <2>2, FromClosed
    <2> QED BY <2>3
  <1>6. ListOf(g) \subseteq X
    <2>1. X \in SUBSET Node
      BY <1>1
    <2>2. g[LHead] \in X \cup {NULL}
      BY <1>1, <1>2, <1>3, <1>4
    <2>3. Closed(g, X)
      BY <1>1, <1>2, <1>3, <1>4, <1>5 DEF Closed
    <2> QED BY <2>1, <2>2, <2>3, FromLeast DEF ListOf
  <1>7. X \subseteq ListOf(g)
    <2> DEFINE M == ListOf(g)
    <2>1. M \subseteq Node /\ \A c \in M \cup {LHead} : g[c] \in M \cup {NULL}
      BY <1>3, ListClosed
    <2>2. n \in M
      <3> SUFFICES ASSUME n \notin M PROVE FALSE
        OBVIOUS
      <3> DEFINE Y == L \cap M
      <3>1. b \notin M \cup {LHead}
        BY <1>2, <1>3, <2>1
      <3>2. Y \in SUBSET Node /\ f[LHead] \in Y \cup {NULL} /\ Closed(f, Y)
        BY <1>1, <1>2, <1>3, <2>1, <3>1 DEF Closed
      <3>3. L \subseteq Y
        BY <3>2, ListLeast
      <3> QED BY <3>1, <3>3
    <2>3. f[o] \in M \cup {NULL}
      BY <1>3, <2>1, <2>2
    <2> DEFINE Y == L \cap (M \cup {o})
    <2>4. Y \in SUBSET Node /\ f[LHead] \in Y \cup {NULL} /\ Closed(f, Y)
      BY <1>1, <1>2, <1>3, <2>1, <2>3 DEF Closed
    <2>5. L \subseteq Y
      BY <2>4, ListLeast
    <2> QED BY <2>2, <2>5
  <1>8. Simple(g)
    <2>1. ListOf(g) = X
      BY <1>6, <1>7
    <2> SUFFICES ASSUME NEW c \in X \cup {LHead}, NEW d \in X \cup {LHead}, g[c] = g[d], g[c] # NULL
                 PROVE  c = d
      BY <2>1 DEF Simple
    <2> DEFINE C == (L \ {o}) \cup {LHead}
    <2>2. \A m, k \in L \cup {LHead} : f[m] = f[k] /\ f[m] # NULL => m = k
      BY DEF Simple
    <2>3. \A m \in C : m # n /\ f[m] # n /\ (m # b => g[m] = f[m])
      BY <1>1, <1>2, <1>3, Names
    <2> HIDE DEF L
    <2>4. \A m \in C : m # b => g[m] # n /\ (g[m] = g[n] => g[m] = NULL)
      <3> SUFFICES ASSUME NEW m \in C, m # b
                   PROVE  g[m] # n /\ (g[m] = g[n] => g[m] = NULL)
        OBVIOUS
      <3>1. g[m] = f[m] /\ f[m] # n /\ m # o /\ o \in L
        BY <1>2, <2>3 DEF L
      <3>2. f[m] = f[o] => f[m] = NULL
        BY <2>2, <3>1
      <3> QED BY <1>3, <3>1, <3>2
    <2>5. g[n] # n /\ b \in C
      BY <1>1, <1>2, <1>3, <1>5 DEF L
    <2>6. \A m, k \in C : g[m] = g[k] /\ g[m] # NULL => m = k
      <3> SUFFICES ASSUME NEW m \in C, NEW k \in C, g[m] = g[k], g[m] # NULL
                   PROVE  m = k
        OBVIOUS
      <3>1. CASE m = b
        BY <1>3, <2>4, <3>1, Zenon
      <3>2. CASE k = b
        BY <1>3, <2>4, <3>2, Zenon
      <3>3. CASE m # b /\ k # b
        <4>1. g[m] = f[m] /\ g[k] = f[k] /\ m \in L \cup {LHead} /\ k \in L \cup {LHead}
          BY <2>3, <3>3
        <4> QED BY <2>2, <4>1
      <3> QED BY <3>1, <3>2, <3>3
    <2>7. \A m \in C : g[m] = g[n] => g[m] = NULL
      BY <1>3, <2>4, <2>5
    <2>8. c \in C \cup {n} /\ d \in C \cup {n}
      OBVIOUS
    <2> QED BY <2>6, <2>7, <2>8
  <1> QED BY <1>3, <1>6, <1>7, <1>8

\* What becomes of list f without its node o, which keeps its successor
Without(f, g, o) ==
  /\ g \in Heap /\ Simple(g) /\ ListOf(g) = ListOf(f) \ {o}
  /\ g[o] = f[o] /\ f[o] \in ListOf(g) \cup {NULL}
  /\ From(f, f[o]) \subseteq From(g, f[o])

\* LIST_REMOVE of node o, to which cell b points
LEMMA Remove ==
  ASSUME NEW f \in Heap, Simple(f), NEW o \in ListOf(f),
         NEW b \in ListOf(f) \cup {LHead}, f[b] = o, NEW g, g = [f EXCEPT ![b] = f[o]]
  PROVE  Without(f, g, o)
  <1> DEFINE L == ListOf(f)
             X == L \ {o}
  <1>1. /\ L \subseteq Node /\ f[LHead] \in L \cup {NULL}
        /\ \A c \in L : f[c] \in L \cup {NULL}
    BY ListClosed
  <1>2. o # NULL /\ o # LHead /\ f[o] \in Node \cup {NULL} /\ o \notin From(f, f[o])
    BY <1>1, Names, NoCycle
  <1>3. b # o /\ f[o] # o
    BY <1>2, FromClosed
  <1>4. g \in Heap /\ g[b] = f[o] /\ \A c \in Node \cup {LHead} : c # b => g[c] = f[c]
    BY <1>1, <1>2 DEF Heap
  <1>5. \A c \in L \cup {LHead} : c # b => f[c] # o
    BY <1>2 DEF Simple
  <1>6. ListOf(g) \subseteq X
    <2>1. X \in SUBSET Node /\ g[LHead] \in X \cup {NULL}
      BY <1>1, <1>2, <1>3, <1>4, <1>5
    <2>2. Closed(g, X)
      BY <1>1, <1>2, <1>3, <1>4, <1>5 DEF Closed
    <2> QED BY <2>1, <2>2, FromLeast DEF ListOf
  <1>7. X \subseteq ListOf(g)
    <2> DEFINE M == ListOf(g)
    <2>1. M \subseteq Node /\ \A c \in M \cup {LHead} : g[c] \in M \cup {NULL}
      BY <1>4, ListClosed
    <2>2. b \in M \cup {LHead}
      <3> SUFFICES ASSUME b \notin M \cup {LHead} PROVE FALSE
        OBVIOUS
      <3> DEFINE Y == L \cap M
      <3>1. Y \in SUBSET Node /\ f[LHead] \in Y \cup {NULL} /\ Closed(f, Y)
        BY <1>1, <1>2, <1>4, <2>1 DEF Closed
      <3>2. L \subseteq Y
        BY <3>1, ListLeast
      <3> QED BY <3>2
    <2>3. f[o] \in M \cup {NULL}
      BY <1>4, <2>1, <2>2
    <2> DEFINE Y == L \cap (M \cup {o})
    <2>4. Y \in SUBSET Node /\ f[LHead] \in Y \cup {NULL} /\ Closed(f, Y)
      BY <1>1, <1>2, <1>4, <2>1, <2>3 DEF Closed
    <2>5. L \subseteq Y
      BY <2>4, ListLeast
    <2> QED BY <2>5
  <1>8. Simple(g)
    <2>1. ListOf(g) = X
      BY <1>6, <1>7
    <2>2. \A m, k \in L \cup {LHead} : f[m] = f[k] /\ f[m] # NULL => m = k
      BY DEF Simple
    <2> DEFINE C == X \cup {LHead}
    <2>3. \A m \in C : (m # b => g[m] = f[m]) /\ m # o
      BY <1>1, <1>2, <1>4
    <2>4. \A m \in C : m # b => (g[m] = g[b] => g[m] = NULL)
      BY <1>4, <2>2, <2>3
    <2>5. \A m, k \in C : g[m] = g[k] /\ g[m] # NULL => m = k
      BY <2>2, <2>3, <2>4
    <2> QED BY <2>1, <2>5 DEF Simple
  <1>9. From(f, f[o]) \subseteq From(g, f[o])
    <2>1. \A m \in From(f, f[o]) : m # b
      <3> SUFFICES ASSUME b \in From(f, f[o]) PROVE FALSE
        OBVIOUS
      <3>1. Closed(f, From(f, f[o]))
        BY <1>2, FromClosed
      <3> QED BY <1>2, <3>1 DEF Closed
    <2>2. From(f, f[o]) \subseteq Node
      BY <1>2, FromClosed
    <2> QED BY <1>2, <1>4, <2>1, <2>2, FromSame
  <1> QED BY <1>1, <1>3, <1>4, <1>6, <1>7, <1>8, <1>9 DEF Without

-----------------------------------------------------------------------------
(* The registry *)

\* The list of the program is one of the lists above.
LEMMA ProgramList ==
  ASSUME TypeOK, ListInv
  PROVE  next \in Heap /\ Simple(next) /\ Listed = ListOf(next) /\ Listed \subseteq Node
  <1>1. next \in Heap /\ Listed = ListOf(next)
    BY DEF TypeOK, Heap, Listed, ListOf
  <1> QED BY <1>1, ListClosed DEF ListInv, Simple

\* The two searches of the list find what they search.
LEMMA FindFact ==
  ASSUME NEW t
  PROVE  \/ Find(t) = NULL /\ \A n \in Listed : n[1] # t
         \/ Find(t) \in Listed /\ Find(t)[1] = t
  BY DEF Find

LEMMA BeforeFact ==
  ASSUME TypeOK, ListInv, NEW n \in Listed
  PROVE  Before(n) \in Listed \cup {LHead} /\ next[Before(n)] = n
  <1>1. \E c \in Listed \cup {LHead} : next[c] = n
    BY ProgramList, HasBefore
  <1> QED BY <1>1 DEF Before

\* The nodes of the workers, and of main, are different.
LEMMA NodeNames ==
  /\ \A w \in Workers : <<w, w>> \in Node /\ <<Main, w>> \in Node
  /\ <<Main, "main">> \in Node /\ <<Main, "UI">> \in Node
  /\ \A w \in Workers : <<w, w>>[1] = w /\ w \in Threads
  /\ \A n \in Node : n[1] # Main => n[1] \in Workers /\ n = <<n[1], n[1]>>
  /\ \A w, v \in Workers : w # v => <<w, w>> # <<v, v>> /\ <<Main, w>> # <<Main, v>>
  /\ \A w, v \in Workers : <<w, w>> # <<Main, v>>
  /\ \A w \in Workers : {<<w, w>>, <<Main, w>>} \cap {<<Main, "main">>, <<Main, "UI">>} = {}
  /\ <<Main, "main">> # <<Main, "UI">>
  BY ThreadsAssumption DEF Node, Threads

-----------------------------------------------------------------------------
(* The steps that do not touch the list *)

LEMMA SameList ==
  ASSUME UNCHANGED <<next, freed>>
  PROVE  Listed' = Listed /\ (ListInv => ListInv')
  <1>1. Listed' = Listed
    BY DEF Listed
  <1> QED BY <1>1 DEF ListInv, RegistrySound

LEMMA InitInv == Init => RegInv
  <1> SUFFICES ASSUME Init PROVE RegInv
    OBVIOUS
  <1>1. TypeOK
    BY NodeNames DEF Init, TypeOK, Threads
  <1>2. Listed = {}
    BY FromNull DEF Init, Listed
  <1> QED BY <1>1, <1>2, NodeNames
       DEF Init, RegInv, ListInv, RegistrySound, NodeInv, Used, Registering, InRegister,
           Creating, RegisteredInv, Runs, KillInv, AskedInv, MutexInv, ReleaseProtected, Quiet

\* Main's calls of lmap_thread_register, and its first step
LEMMA CallStep ==
  ASSUME RegInv,
         \/ RegisterMain \/ RegisterUI
         \/ \E w \in Workers : CreateWorker(w) \/ CreateWorkerFails(w)
  PROVE  RegInv'
  <1> USE DEF RegInv
  <1>1. UNCHANGED <<next, freed, debug, old, cur, tid, wcur, asked>> /\ mpc' = "rlock" /\ DebugMsg
    BY DEF RegisterMain, RegisterUI, CreateWorker, CreateWorkerFails, Register, listVars, workVars
  <1>2. Listed' = Listed /\ ListInv'
    BY <1>1, SameList
  <1>3. Used' = Listed \cup freed \cup {new'}
    BY <1>1, <1>2 DEF Used, Registering
  <1>4. KillInv' /\ AskedInv'
    <2>1. mpc \in {"start", "create"}
      BY DEF RegisterMain, RegisterUI, CreateWorker, CreateWorkerFails
    <2>2. asked' = {}
      BY <1>1, <2>1 DEF AskedInv, KillPlaces
    <2> QED BY <1>1, <2>2 DEF KillInv, AskedInv
  <1>5. MutexInv' /\ mutex' \in {Main, None}
    <2>1. mpc \in {"start", "create"}
      BY DEF RegisterMain, RegisterUI, CreateWorker, CreateWorkerFails
    <2>2. \A v \in Workers : wpc'[v] = "none" => wpc[v] = "none"
      BY DEF RegisterMain, RegisterUI, CreateWorker, CreateWorkerFails, workVars, TypeOK
    <2>3. mutex' = None
      BY <1>1, <2>1 DEF MutexInv, ReleaseProtected, DebugMsg
    <2> QED BY <1>1, <2>2, <2>3 DEF MutexInv, ReleaseProtected
  <1>6. CASE RegisterMain
    <2>1. new' = <<Main, "main">> /\ ret' = "create" /\ UNCHANGED <<wpc, failed>> /\ mpc = "start"
      BY <1>6 DEF RegisterMain, Register, workVars
    <2>2. Listed \cup freed = {}
      BY <2>1 DEF NodeInv, Used
    <2>3. TypeOK'
      BY <1>1, <1>5, <2>1, NodeNames DEF TypeOK
    <2>4. NodeInv'
      BY <1>1, <1>2, <1>3, <2>1, <2>2, NodeNames DEF NodeInv, Registering, InRegister, Creating
    <2>5. RegisteredInv'
      BY <1>1, <1>2, <2>1, <2>2 DEF RegisteredInv, Registering, InRegister, Creating, Runs
    <2> QED BY <1>2, <1>4, <1>5, <2>3, <2>4, <2>5
  <1>7. CASE RegisterUI
    <2>1. new' = <<Main, "UI">> /\ ret' = "ui" /\ UNCHANGED <<wpc, failed>> /\ mpc = "create"
          /\ \A w \in Workers : wpc[w] # "none" \/ w \in failed
      BY <1>7 DEF RegisterUI, Register, workVars
    <2>2. TypeOK'
      BY <1>1, <1>5, <2>1, NodeNames DEF TypeOK
    <2>3. <<Main, "UI">> \notin Listed \cup freed
      BY <2>1 DEF NodeInv, Creating, Used
    <2>4. NodeInv'
      BY <1>1, <1>2, <1>3, <2>1, <2>3, NodeNames DEF NodeInv, Registering, InRegister, Creating
    <2>5. RegisteredInv'
      BY <1>1, <1>2, <2>1 DEF RegisteredInv, Registering, InRegister, Creating, Runs
    <2> QED BY <1>2, <1>4, <1>5, <2>2, <2>4, <2>5
  <1>8. ASSUME NEW w \in Workers, CreateWorker(w) PROVE RegInv'
    <2>1. /\ new' = <<w, w>> /\ ret' = "create" /\ mpc = "create" /\ failed' = failed
          /\ wpc[w] = "none" /\ w \notin failed /\ wpc' = [wpc EXCEPT ![w] = "started"]
      BY <1>8 DEF CreateWorker, Register
    <2>2. TypeOK'
      <3>1. new' \in Node
        BY <2>1, NodeNames
      <3> QED BY <1>1, <1>5, <2>1, <3>1 DEF TypeOK
    <2>3. <<w, w>> \notin Listed \cup freed /\ <<Main, "UI">> \notin Listed \cup freed
      BY <2>1 DEF NodeInv, Used, Creating
    <2>4. \A v \in Workers \ {w} : wpc'[v] = wpc[v]
      BY <2>1 DEF TypeOK
    <2>5. wpc'[w] = "started"
      BY <2>1 DEF TypeOK
    <2>6. \A v \in failed : v # w /\ v \in Workers
      BY <2>1 DEF TypeOK
    <2>7. NodeInv'
      BY <1>1, <1>2, <1>3, <2>1, <2>3, <2>4, <2>5, <2>6, NodeNames
         DEF NodeInv, Registering, InRegister, Creating, Used
    <2>8. RegisteredInv'
      BY <1>1, <1>2, <2>1, <2>4, <2>5 DEF RegisteredInv, Registering, InRegister, Creating, Runs
    <2> QED BY <1>2, <1>4, <1>5, <2>2, <2>7, <2>8
  <1>9. ASSUME NEW w \in Workers, CreateWorkerFails(w) PROVE RegInv'
    <2>1. /\ new' = <<w, w>> \/ new' = <<Main, w>>
          /\ ret' = "create" /\ mpc = "create" /\ failed' = failed \cup {w}
          /\ wpc[w] = "none" /\ w \notin failed /\ wpc' = wpc
      BY <1>9 DEF CreateWorkerFails, Register, workVars
    <2>2. TypeOK'
      <3>1. new' \in Node
        BY <2>1, NodeNames
      <3> QED BY <1>1, <1>5, <2>1, <3>1 DEF TypeOK
    <2>3. new' \notin Listed \cup freed /\ <<Main, "UI">> \notin Listed \cup freed
      BY <2>1 DEF NodeInv, Used, Creating
    <2>4. NodeInv'
      <3>1. /\ new' \in Node /\ new' # <<Main, "UI">>
            /\ \A v \in Workers : v # w => new' # <<v, v>> /\ new' # <<Main, v>>
        BY <2>1, NodeNames
      <3>2. \A v \in Workers : wpc[v] = "none" /\ v \notin failed' =>
              v # w /\ <<v, v>> \notin Listed \cup freed /\ <<Main, v>> \notin Listed \cup freed
        BY <2>1 DEF NodeInv, Used
      <3> QED BY <1>1, <1>2, <1>3, <2>1, <2>3, <3>1, <3>2
           DEF NodeInv, Registering, InRegister, Creating
    <2>5. RegisteredInv'
      BY <1>1, <1>2, <2>1 DEF RegisteredInv, Registering, InRegister, Creating, Runs
    <2> QED BY <1>2, <1>4, <1>5, <2>2, <2>4, <2>5
  <1> QED BY <1>6, <1>7, <1>8, <1>9

\* lmap_thread_register, but for the change of the list
LEMMA RegisterStep ==
  ASSUME RegInv, RegLock \/ RegReturn
  PROVE  RegInv'
  <1> USE DEF RegInv
  <1>1. CASE RegLock
    <2>1. /\ UNCHANGED <<debug, ret, new, old, cur, tid, next, freed, wpc, wcur, asked, failed>>
          /\ mpc = "rlock" /\ mpc' = "rlink" /\ mutex' = Main
      BY <1>1 DEF RegLock, listVars, workVars
    <2>2. Listed' = Listed /\ ListInv'
      BY <2>1, SameList
    <2>3. TypeOK'
      BY <2>1 DEF TypeOK
    <2>4. Used' = Used
      BY <2>1, <2>2 DEF Used, Registering
    <2>5. NodeInv'
      BY <2>1, <2>2, <2>4 DEF NodeInv, Registering, InRegister, Creating
    <2>6. RegisteredInv' /\ KillInv' /\ AskedInv'
      BY <2>1, <2>2 DEF RegisteredInv, Registering, InRegister, Creating, Runs, KillInv,
         AskedInv, KillPlaces
    <2>9. MutexInv'
      BY <2>1 DEF MutexInv, ReleaseProtected, Quiet
    <2> QED BY <2>2, <2>3, <2>5, <2>6, <2>9
  <1>2. CASE RegReturn
    <2>1. /\ UNCHANGED <<debug, ret, new, old, cur, tid, next, wpc, wcur, asked, failed>>
          /\ freed' = freed \cup ({old} \ {NULL})
          /\ mpc = "rfree" /\ mpc' = ret /\ mutex' = None
      BY <1>2 DEF RegReturn, workVars
    <2>2. ret \in {"create", "ui"}
      BY <2>1 DEF TypeOK, NodeInv, InRegister
    <2>3. TypeOK'
      BY <2>1, <2>2 DEF TypeOK
    <2>4. Listed' = Listed
      BY <2>1 DEF Listed
    <2>5. ListInv'
      BY <2>1, <2>4 DEF ListInv, RegistrySound, NodeInv
    <2>6. Used' = Used
      BY <2>1, <2>2, <2>4 DEF Used, Registering
    <2>7. NodeInv'
      BY <2>1, <2>2, <2>4, <2>6 DEF NodeInv, Registering, InRegister, Creating
    <2>8. RegisteredInv' /\ KillInv' /\ AskedInv'
      BY <2>1, <2>2, <2>4 DEF RegisteredInv, Registering, InRegister, Creating, Runs, KillInv,
         AskedInv, KillPlaces
    <2>9. MutexInv'
      BY <2>1, <2>2 DEF MutexInv, ReleaseProtected, Quiet
    <2> QED BY <2>3, <2>5, <2>7, <2>8, <2>9
  <1> QED BY <1>1, <1>2

\* lmap_thread_kill_all and lmap_thread_destroy, but for the change of the list:
\* only KillInv, and the place of main, need a look.
LEMMA KillFrame ==
  ASSUME RegInv, mpc \in KillPlaces, mpc' \in KillPlaces, KillInv', AskedInv', MutexInv',
         mutex' \in {Main, None}, cur' \in Node \cup {NULL}, tid' \in Threads \cup {None},
         asked' \subseteq Threads,
         UNCHANGED <<debug, ret, new, old, next, freed, wpc, wcur, failed>>
  PROVE  RegInv'
  <1> USE DEF RegInv, KillPlaces
  <1>1. Listed' = Listed /\ ListInv'
    BY SameList
  <1>2. TypeOK'
    BY DEF TypeOK
  <1>3. ~Registering' /\ ~InRegister' /\ ~Creating' /\ ~Registering /\ ~Creating
    BY DEF Registering, InRegister, Creating
  <1>4. Used' = Used
    BY <1>1, <1>3 DEF Used
  <1>5. NodeInv'
    BY <1>1, <1>3, <1>4 DEF NodeInv
  <1>6. RegisteredInv'
    BY <1>1, <1>3 DEF RegisteredInv, Runs
  <1> QED BY <1>1, <1>2, <1>5, <1>6

\* From main's node, or from one of a worker that does not run any more, the
\* loop goes on without missing a worker.
LEMMA Passed ==
  ASSUME TypeOK, ListInv, cur \in Listed, cur[1] = Main \/ ~Runs(cur[1]),
         \A w \in Workers : Runs(w) => <<w, w>> \in From(next, cur)
  PROVE  /\ next[cur] \in Listed \cup {NULL}
         /\ \A w \in Workers : Runs(w) => <<w, w>> \in From(next, next[cur])
  <1>1. next[cur] \in Listed \cup {NULL} /\ cur \in Node /\ next \in Heap
    BY ProgramList, ListClosed
  <1>2. From(next, cur) \subseteq {cur} \cup From(next, next[cur])
    BY <1>1, FromStep
  <1>3. ASSUME NEW w \in Workers, Runs(w) PROVE <<w, w>> # cur
    <2>1. <<w, w>>[1] # Main /\ <<w, w>>[1] = w
      BY NodeNames, Names
    <2> QED BY <1>3, <2>1
  <1> QED BY <1>1, <1>2, <1>3

LEMMA KillStep ==
  ASSUME RegInv,
         \/ KillAll \/ KillThread \/ SkipSelf \/ Join \/ JoinNobody
         \/ DestroyLock \/ DestroyReturn \/ KillNext \/ KillDone
  PROVE  RegInv'
  <1> USE DEF RegInv
  <1>1. UNCHANGED <<debug, ret, new, old, next, freed, wpc, wcur, failed>>
    BY DEF KillAll, KillThread, SkipSelf, Join, JoinNobody, DestroyLock, DestroyReturn,
           KillNext, KillDone, listVars, workVars
  <1>2. /\ mutex \in {Main, None} /\ cur \in Node \cup {NULL} /\ tid \in Threads \cup {None}
        /\ asked \subseteq Threads /\ next \in Heap
        /\ \A n \in Node : n[1] \in Threads
    BY Names DEF TypeOK, Heap
  <1>3. Listed' = Listed
    BY <1>1, SameList
  <1>4. \A w \in Workers : Runs(w)' <=> Runs(w)
    BY <1>1 DEF Runs
  <1>5. CASE KillAll
    <2>1. mpc = "ui" /\ mpc' = "kill" /\ cur' = next[LHead] /\ UNCHANGED <<tid, asked>> /\ DebugMsg
      BY <1>5 DEF KillAll
    <2>2. cur' \in Listed \cup {NULL} /\ cur' \in Node \cup {NULL}
      BY <2>1, ProgramList, ListClosed
    <2>3. \A w \in Workers : Runs(w) => <<w, w>> \in Listed
      BY <2>1 DEF RegisteredInv, Registering
    <2>4. From(next', cur') = Listed
      BY <1>1, <2>1 DEF Listed
    <2>5. KillInv' /\ AskedInv'
      BY <1>4, <1>3, <2>1, <2>2, <2>3, <2>4 DEF KillInv, AskedInv, KillPlaces
    <2>6. MutexInv' /\ mutex' \in {Main, None}
      BY <1>1, <1>2, <2>1 DEF MutexInv, ReleaseProtected, Quiet, DebugMsg
    <2> QED BY <1>1, <1>2, <2>1, <2>2, <2>5, <2>6, KillFrame DEF KillPlaces
  <1>6. CASE KillThread
    <2>1. /\ mpc = "kill" /\ mpc' = "join" /\ cur # NULL /\ cur[1] # Main /\ tid' = cur[1]
          /\ cur' = cur /\ DebugMsg /\ asked' = asked \cup {cur[1]}
      BY <1>6 DEF KillThread
    <2>2. KillInv' /\ AskedInv'
      BY <1>1, <1>4, <1>3, <2>1 DEF KillInv, AskedInv, KillPlaces
    <2>3. MutexInv' /\ mutex' \in {Main, None}
      BY <1>1, <1>2, <2>1 DEF MutexInv, ReleaseProtected, Quiet, DebugMsg
    <2>4. cur[1] \in Threads
      BY <1>2, <2>1
    <2> QED BY <1>1, <1>2, <2>1, <2>2, <2>3, <2>4, KillFrame DEF KillPlaces
  <1>7. CASE SkipSelf
    <2>1. /\ mpc = "kill" /\ mpc' = "step" /\ cur # NULL /\ cur[1] = Main
          /\ UNCHANGED <<cur, tid, mutex, asked>>
      BY <1>7 DEF SkipSelf
    <2>2. cur \in Listed /\ \A w \in Workers : Runs(w) => <<w, w>> \in From(next, cur)
      BY <2>1 DEF KillInv
    <2>3. KillInv' /\ AskedInv'
      BY <1>1, <1>4, <1>3, <2>1, <2>2, Passed DEF KillInv, AskedInv, KillPlaces
    <2>4. MutexInv'
      BY <1>1, <2>1 DEF MutexInv, ReleaseProtected, Quiet
    <2> QED BY <1>1, <1>2, <2>1, <2>3, <2>4, KillFrame DEF KillPlaces
  <1>8. CASE Join \/ JoinNobody
    <2>1. /\ mpc = "join" /\ mpc' \in {"dlock", "crash"} /\ UNCHANGED <<cur, tid, mutex, asked>>
          /\ (tid \in Workers /\ wpc[tid] = "dead") \/ tid \in failed
      BY <1>8 DEF Join, JoinNobody
    <2>2. ~Runs(tid)
      BY <2>1 DEF Runs, NodeInv
    <2>3. /\ cur \in Listed /\ tid = cur[1]
          /\ \A w \in Workers : Runs(w) => <<w, w>> \in From(next, cur)
      BY <2>1 DEF KillInv
    <2>4. /\ next[cur] \in Listed \cup {NULL}
          /\ \A w \in Workers : Runs(w) => <<w, w>> \in From(next, next[cur])
      BY <2>2, <2>3, Passed
    <2>5. ~Runs(tid)'
      BY <1>1, <2>1, <2>2 DEF Runs
    <2>6. KillInv' /\ AskedInv'
      BY <1>1, <1>4, <1>3, <2>1, <2>4, <2>5 DEF KillInv, AskedInv, KillPlaces
    <2>7. MutexInv'
      BY <1>1, <2>1 DEF MutexInv, ReleaseProtected, Quiet
    <2> QED BY <1>1, <1>2, <2>1, <2>6, <2>7, KillFrame DEF KillPlaces
  <1>9. CASE DestroyLock \/ DestroyReturn
    <2>1. \/ mpc = "dlock" /\ mpc' = "dremove" /\ mutex' = Main
          \/ mpc = "dunlock" /\ mpc' = "step" /\ mutex' = None
      BY <1>9 DEF DestroyLock, DestroyReturn
    <2>2. UNCHANGED <<cur, tid, asked>>
      BY <1>9 DEF DestroyLock, DestroyReturn
    <2>3. Runs(tid)' <=> Runs(tid)
      BY <1>1, <2>2 DEF Runs
    <2>4. KillInv' /\ AskedInv'
      BY <1>1, <1>4, <1>3, <2>1, <2>2, <2>3 DEF KillInv, AskedInv, KillPlaces
    <2>5. MutexInv'
      BY <1>1, <2>1 DEF MutexInv, ReleaseProtected, Quiet
    <2> QED BY <1>1, <1>2, <2>1, <2>2, <2>4, <2>5, KillFrame DEF KillPlaces
  <1>10. CASE KillNext
    <2>1. mpc = "step" /\ mpc' = "kill" /\ cur' = next[cur] /\ UNCHANGED <<tid, mutex, asked>>
      BY <1>10 DEF KillNext
    <2>2. cur' \in Listed \cup {NULL} /\ cur' \in Node \cup {NULL}
      BY <2>1, ProgramList DEF KillInv
    <2>3. KillInv' /\ AskedInv'
      BY <1>1, <1>4, <1>3, <2>1, <2>2 DEF KillInv, AskedInv, KillPlaces
    <2>4. MutexInv'
      BY <1>1, <2>1 DEF MutexInv, ReleaseProtected, Quiet
    <2> QED BY <1>1, <1>2, <2>1, <2>2, <2>3, <2>4, KillFrame DEF KillPlaces
  <1>11. CASE KillDone
    <2>1. mpc = "kill" /\ mpc' = "exit" /\ cur = NULL /\ UNCHANGED <<cur, tid, mutex, asked>>
      BY <1>11 DEF KillDone
    <2>2. \A w \in Workers : ~Runs(w)
      BY <2>1, FromNull DEF KillInv
    <2>3. KillInv' /\ AskedInv'
      BY <1>1, <1>4, <1>3, <2>1, <2>2 DEF KillInv, AskedInv, KillPlaces
    <2>4. MutexInv'
      BY <1>1, <2>1 DEF MutexInv, ReleaseProtected, Quiet
    <2> QED BY <1>1, <1>2, <2>1, <2>3, <2>4, KillFrame DEF KillPlaces
  <1> QED BY <1>5, <1>6, <1>7, <1>8, <1>9, <1>10, <1>11

-----------------------------------------------------------------------------
(* The two steps that change the list, and the workers' steps *)

\* Registering changes the list to one with the new node and without the node
\* of the same thread.
LEMMA LinkList ==
  ASSUME RegInv, RegLink
  PROVE  /\ TypeOK' /\ ListInv'
         /\ old' \in {NULL} \cup Listed
         /\ Listed' = (Listed \ {old'}) \cup {new}
         /\ \A w \in Workers : old' # <<w, w>>
  <1> USE DEF RegInv
  <1>1. /\ mpc = "rlink" /\ mpc' = "rfree" /\ old' = Find(new[1])
        /\ UNCHANGED <<debug, ret, new, cur, tid, freed, mutex, wpc, wcur, asked, failed>>
    BY DEF RegLink, workVars
  <1>2. new \in Node \ Listed /\ new \notin freed
    BY <1>1 DEF NodeInv, Registering
  <1>3. next \in Heap /\ Simple(next) /\ Listed = ListOf(next) /\ Listed \subseteq Node
    BY ProgramList
  <1>4. ListOf(next') = Listed'
    BY DEF ListOf, Listed
  <1>5. \A n, m \in Listed : n[1] = m[1] => n = m
    BY DEF ListInv, RegistrySound
  <1>6. NULL \notin Node
    BY Names
  <1>7. /\ old' \in {NULL} \cup Listed
        /\ next' \in Heap /\ Simple(next')
        /\ Listed' = (Listed \ {old'}) \cup {new}
        /\ \A n \in Listed \ {old'} : n[1] # new[1]
        /\ old' # NULL => old'[1] = new[1]
    <2>1. CASE old' = NULL /\ \A n \in Listed : n[1] # new[1]
      <3>1. next' = [next EXCEPT ![new] = next[LHead], ![LHead] = new]
        BY <2>1 DEF RegLink
      <3>2. next' \in Heap /\ Simple(next') /\ ListOf(next') = ListOf(next) \cup {new}
        BY <1>2, <1>3, <3>1, InsertHead
      <3> QED BY <1>3, <1>4, <1>6, <2>1, <3>2
    <2>2. CASE old' \in Listed /\ old'[1] = new[1]
      <3>1. old' # NULL
        BY <1>3, <1>6, <2>2
      <3>2. next' = [next EXCEPT ![new] = next[old'], ![Before(old')] = new]
        BY <3>1 DEF RegLink
      <3>3. Before(old') \in Listed \cup {LHead} /\ next[Before(old')] = old'
        BY <2>2, BeforeFact
      <3>4. new \in Node \ ListOf(next) /\ old' \in ListOf(next) /\ Before(old') \in ListOf(next) \cup {LHead}
        BY <1>2, <1>3, <2>2, <3>3
      <3>5. next' \in Heap /\ Simple(next') /\ ListOf(next') = (ListOf(next) \ {old'}) \cup {new}
        BY <1>3, <3>2, <3>3, <3>4, Replace, Zenon
      <3> QED BY <1>3, <1>4, <1>5, <2>2, <3>5
    <2> QED BY <1>1, <2>1, <2>2, FindFact
  <1>8. TypeOK'
    BY <1>1, <1>3, <1>7 DEF TypeOK, Heap
  <1>9. ListInv'
    <2>1. Listed' \cap freed' = {}
      BY <1>1, <1>2, <1>7 DEF ListInv, RegistrySound
    <2>2. \A n, m \in Listed' : n[1] = m[1] => n = m
      BY <1>5, <1>7
    <2> QED BY <1>4, <1>7, <2>1, <2>2 DEF ListInv, RegistrySound, Simple
  <1>10. ASSUME NEW w \in Workers, old' = <<w, w>> PROVE FALSE
    <2>1. old' \in Listed /\ new[1] = w
      BY <1>6, <1>7, <1>10, NodeNames
    <2>2. new = <<w, w>>
      BY <1>2, <2>1, NodeNames, Names
    <2> QED BY <1>2, <1>10, <2>1, <2>2
  <1> QED BY <1>7, <1>8, <1>9, <1>10

LEMMA LinkStep ==
  ASSUME RegInv, RegLink
  PROVE  RegInv'
  <1> USE DEF RegInv
  <1>1. /\ mpc = "rlink" /\ mpc' = "rfree"
        /\ UNCHANGED <<debug, ret, new, cur, tid, freed, mutex, wpc, wcur, asked, failed>>
    BY DEF RegLink, workVars
  <1>2. /\ TypeOK' /\ ListInv'
        /\ old' \in {NULL} \cup Listed
        /\ Listed' = (Listed \ {old'}) \cup {new}
        /\ \A w \in Workers : old' # <<w, w>>
    BY LinkList
  <1>3. Used' = Used
    BY <1>1, <1>2, ProgramList, Names DEF Used, Registering
  <1>4. new # old'
    BY <1>1, <1>2, Names DEF NodeInv, Registering
  <1>5. NodeInv'
    BY <1>1, <1>2, <1>3, <1>4 DEF NodeInv, Registering, InRegister, Creating
  <1>6. RegisteredInv'
    BY <1>1, <1>2 DEF RegisteredInv, Registering, InRegister, Creating, Runs
  <1>7. KillInv' /\ AskedInv' /\ MutexInv'
    BY <1>1 DEF KillInv, AskedInv, KillPlaces, Runs, MutexInv, ReleaseProtected, Quiet
  <1> QED BY <1>2, <1>5, <1>6, <1>7

\* lmap_thread_destroy takes out the node that the loop stands on.
LEMMA RemoveStep ==
  ASSUME RegInv, DestroyRemove
  PROVE  RegInv'
  <1> USE DEF RegInv
  <1>1. /\ mpc = "dremove" /\ mpc' = "dunlock"
        /\ UNCHANGED <<debug, ret, new, old, cur, tid, mutex, wpc, wcur, asked, failed>>
    BY DEF DestroyRemove, workVars
  <1>2. /\ cur \in Listed /\ tid = cur[1] /\ tid # Main /\ ~Runs(tid)
        /\ \A w \in Workers : Runs(w) => <<w, w>> \in From(next, next[cur])
    BY <1>1 DEF KillInv
  <1>3. next \in Heap /\ Simple(next) /\ Listed = ListOf(next) /\ Listed \subseteq Node
    BY ProgramList
  <1>4. Find(tid) = cur
    BY <1>2, FindFact DEF ListInv, RegistrySound
  <1>5. cur # NULL
    BY <1>2, <1>3, Names
  <1>6. next' = [next EXCEPT ![Before(cur)] = next[cur]] /\ freed' = freed \cup {cur}
    BY <1>4, <1>5 DEF DestroyRemove
  <1>7. Before(cur) \in Listed \cup {LHead} /\ next[Before(cur)] = cur
    BY <1>2, BeforeFact
  <1>8. /\ next \in Heap /\ Simple(next) /\ next[Before(cur)] = cur
        /\ next' = [next EXCEPT ![Before(cur)] = next[cur]]
    BY <1>3, <1>6, <1>7
  <1>9. cur \in ListOf(next) /\ Before(cur) \in ListOf(next) \cup {LHead}
    BY <1>2, <1>3, <1>7
  <1>10. /\ next' \in Heap /\ Simple(next') /\ ListOf(next') = ListOf(next) \ {cur}
        /\ next'[cur] = next[cur] /\ next[cur] \in ListOf(next') \cup {NULL}
        /\ From(next, next[cur]) \subseteq From(next', next[cur])
    <2>1. Without(next, next', cur)
      BY <1>9, <1>8, Remove, Zenon
    <2> QED BY <2>1 DEF Without
  <1>11. Listed' = ListOf(next')
    BY DEF ListOf, Listed
  <1>12. TypeOK'
    BY <1>1, <1>2, <1>3, <1>6, <1>10 DEF TypeOK, Heap
  <1>13. ListInv'
    BY <1>3, <1>6, <1>10, <1>11 DEF ListInv, RegistrySound, Simple
  <1>14. Used' = Used
    BY <1>1, <1>2, <1>3, <1>6, <1>10, <1>11 DEF Used, Registering
  <1>15. NodeInv'
    BY <1>1, <1>14 DEF NodeInv, Registering, InRegister, Creating
  <1>16. \A w \in Workers : Runs(w)' => Runs(w) /\ <<w, w>> # cur
    <2>1. \A w \in Workers : <<w, w>>[1] = w
      BY NodeNames
    <2> QED BY <1>1, <1>2, <2>1 DEF Runs
  <1>17. RegisteredInv'
    BY <1>1, <1>3, <1>10, <1>11, <1>16 DEF RegisteredInv, Registering, InRegister, Creating
  <1>18. KillInv'
    BY <1>1, <1>2, <1>5, <1>10, <1>11, <1>16 DEF KillInv
  <1>19. AskedInv' /\ MutexInv'
    BY <1>1 DEF AskedInv, KillPlaces, Runs, MutexInv, ReleaseProtected, Quiet
  <1> QED BY <1>12, <1>13, <1>15, <1>17, <1>18, <1>19

\* A worker leaves the list and main alone, and cannot start by itself.
LEMMA WorkerStep ==
  ASSUME RegInv, NEW w \in Workers,
         \/ GetnameStart(w) \/ Getname(w) \/ NoGetname(w) \/ SetAsync(w) \/ Die(w)
  PROVE  RegInv'
  <1> USE DEF RegInv
  <1>1. UNCHANGED <<debug, mpc, ret, new, old, cur, tid, next, freed, asked, failed>>
    BY DEF GetnameStart, Getname, GetnameNext, GetnameReturn, NoGetname, SetAsync, Die,
           mainVars, listVars
  <1>2. Listed' = Listed /\ ListInv'
    BY <1>1, SameList
  <1>3. /\ wpc' \in [Workers -> {"none", "started", "init", "async", "loop", "dead"}]
        /\ \A v \in Workers : (wpc'[v] = "none" <=> wpc[v] = "none") /\ (wpc[v] = "dead" => wpc'[v] = "dead")
    BY DEF TypeOK, GetnameStart, Getname, GetnameNext, GetnameReturn, NoGetname, SetAsync, Die, After
  <1>4. wcur' \in [Workers -> Node \cup {NULL, Off}]
    BY Names DEF TypeOK, GetnameStart, Getname, GetnameNext, GetnameReturn, NoGetname, SetAsync, Die
  <1>5. mutex' \in {Main, None}
    BY DEF TypeOK, GetnameStart, Getname, GetnameNext, GetnameReturn, NoGetname, SetAsync, Die
  <1>6. TypeOK'
    BY <1>1, <1>3, <1>4, <1>5 DEF TypeOK
  <1>7. \A v \in Workers : Runs(v)' => Runs(v)
    BY <1>3 DEF Runs
  <1>8. Used' = Used
    BY <1>1, <1>2 DEF Used, Registering
  <1>9. NodeInv'
    BY <1>1, <1>2, <1>3, <1>6, <1>8 DEF NodeInv, Registering, InRegister, Creating, TypeOK
  <1>10. RegisteredInv'
    BY <1>1, <1>2, <1>3, <1>7 DEF RegisteredInv, Registering, InRegister, Creating
  <1>11. KillInv'
    <2>1. mpc \in {"dlock", "dremove"} => tid \in Workers /\ ~Runs(tid)
      BY Names DEF KillInv, TypeOK, Threads
    <2>2. mpc \in {"dlock", "dremove"} => ~Runs(tid)'
      BY <1>1, <1>7, <2>1 DEF Runs
    <2> QED BY <1>1, <1>2, <1>7, <2>2 DEF KillInv
  <1>12. AskedInv'
    BY <1>1, <1>7 DEF AskedInv
  <1>13. \A v \in Workers : ~debug \/ wpc'[v] = "none" => wcur'[v] = Off
    <2>1. \A v \in Workers \ {w} : wcur'[v] = wcur[v]
      BY DEF TypeOK, GetnameStart, Getname, GetnameNext, GetnameReturn, NoGetname, SetAsync, Die
    <2>2. ~debug \/ wpc'[w] = "none" => wcur[w] = Off
      BY <1>3 DEF MutexInv
    <2>3. ~debug \/ wpc[w] = "none" => wcur'[w] = wcur[w]
      <3>1. wcur[w] = Off => wcur[w] # NULL /\ wcur[w] \notin Node
        BY Names
      <3> QED BY <2>2, <3>1, <1>3
           DEF GetnameStart, Getname, GetnameNext, GetnameReturn, NoGetname, SetAsync, Die
    <2> QED BY <1>3, <2>1, <2>2, <2>3 DEF MutexInv
  <1>14. ReleaseProtected'
    <2>1. CASE GetnameReturn(w)
      <3>1. mutex' = None /\ debug' = debug
        BY <1>1, <2>1 DEF GetnameReturn
      <3>2. wcur[w] # Off
        BY <2>1, Names DEF GetnameReturn
      <3>3. debug /\ wpc[w] # "none" /\ wpc[w] # "dead"
        BY <2>1, <3>2 DEF GetnameReturn, MutexInv
      <3>4. wpc'[w] = After(wpc[w])
        BY <2>1 DEF GetnameReturn, TypeOK
      <3>5. wpc'[w] \notin {"none", "dead"}
        BY <3>3, <3>4 DEF After
      <3>6. ~Quiet'
        BY <3>1, <3>3, <3>5 DEF Quiet
      <3> QED BY <1>1, <3>1, <3>6 DEF ReleaseProtected
    <2>2. CASE Die(w)
      <3>1. mutex' = mutex /\ w \in asked /\ Runs(w)
        BY <2>2 DEF Die, Runs
      <3>2. mpc = "join"
        BY <3>1 DEF AskedInv
      <3> QED BY <1>1, <3>1, <3>2 DEF MutexInv, ReleaseProtected
    <2>3. CASE ~GetnameReturn(w) /\ ~Die(w)
      <3>1. mutex' = mutex
        BY <2>3 DEF GetnameStart, Getname, GetnameNext, NoGetname, SetAsync
      <3>2. \A v \in Workers : wpc'[v] \in {"none", "dead"} => wpc[v] \in {"none", "dead"}
        BY <2>3 DEF TypeOK, GetnameStart, Getname, GetnameNext, NoGetname, SetAsync, After
      <3>3. Quiet' => Quiet
        BY <1>1, <3>2 DEF Quiet
      <3> QED BY <1>1, <3>1, <3>3 DEF MutexInv, ReleaseProtected
    <2> QED BY <2>1, <2>2, <2>3
  <1>15. MutexInv'
    BY <1>1, <1>13, <1>14 DEF MutexInv
  <1> QED BY <1>2, <1>6, <1>9, <1>10, <1>11, <1>12, <1>15

-----------------------------------------------------------------------------
(* The theorems *)

LEMMA StepInv == RegInv /\ [Next]_vars => RegInv'
  <1> SUFFICES ASSUME RegInv, [Next]_vars PROVE RegInv'
    OBVIOUS
  <1>1. CASE RegisterMain \/ RegisterUI \/ \E w \in Workers : CreateWorker(w) \/ CreateWorkerFails(w)
    BY <1>1, CallStep
  <1>2. CASE RegLock \/ RegReturn
    BY <1>2, RegisterStep
  <1>3. CASE RegLink
    BY <1>3, LinkStep
  <1>4. CASE \/ KillAll \/ KillThread \/ SkipSelf \/ Join \/ JoinNobody
             \/ DestroyLock \/ DestroyReturn \/ KillNext \/ KillDone
    BY <1>4, KillStep
  <1>5. CASE DestroyRemove
    BY <1>5, RemoveStep
  <1>6. CASE \E w \in Workers :
               GetnameStart(w) \/ Getname(w) \/ NoGetname(w) \/ SetAsync(w) \/ Die(w)
    BY <1>6, WorkerStep
  <1>7. CASE Over \/ UNCHANGED vars
    <2>1. UNCHANGED vars
      BY <1>7 DEF Over
    <2>2. Listed' = Listed /\ ListInv'
      BY <2>1, SameList DEF vars, listVars, RegInv
    <2> QED BY <2>1, <2>2
         DEF vars, mainVars, listVars, workVars, RegInv, TypeOK, NodeInv, Used, Registering,
             InRegister, Creating, RegisteredInv, Runs, KillInv, AskedInv, MutexInv,
             ReleaseProtected, Quiet
  <1> QED BY <1>1, <1>2, <1>3, <1>4, <1>5, <1>6, <1>7 DEF Next, MainStep

\* The inductive invariant of the registry, for any number of workers and for
\* both builds, also when pthread_create fails.
THEOREM RegistryInvariant == Spec => []RegInv
  <1>1. Init => RegInv
    BY InitInv
  <1>2. RegInv /\ [Next]_vars => RegInv'
    BY StepInv
  <1> QED BY <1>1, <1>2, PTL DEF Spec

\* The state of the registry and of the threads keeps its type.
THEOREM TypeCorrect == Spec => []TypeOK
  <1>1. RegInv => TypeOK
    BY DEF RegInv
  <1> QED BY <1>1, RegistryInvariant, PTL

\* lmap_thread_register and lmap_thread_destroy keep the list sound: it links no
\* freed node and has one node for each thread.
THEOREM RegistryIsSound == Spec => []RegistrySound
  <1>1. RegInv => RegistrySound
    BY DEF RegInv, ListInv
  <1> QED BY <1>1, RegistryInvariant, PTL

\* When the loop of lmap_thread_kill_all is over it has joined every worker that
\* was created, although each round frees the node the next round starts from.
THEOREM KillAllKills == Spec => []KillsAll
  <1>1. RegInv => KillsAll
    <2> SUFFICES ASSUME RegInv PROVE KillsAll
      OBVIOUS
    <2>1. ASSUME mpc = "exit", NEW w \in Workers PROVE wpc[w] = "dead" \/ w \in failed
      <3>1. ~Runs(w)
        BY <2>1 DEF RegInv, KillInv
      <3>2. wpc[w] # "none" \/ w \in failed
        BY <2>1 DEF RegInv, RegisteredInv, Creating, InRegister
      <3> QED BY <3>1, <3>2 DEF Runs
    <2> QED BY <2>1 DEF RegInv, KillInv, KillsAll
  <1> QED BY <1>1, RegistryInvariant, PTL

\* With one worker, as in lmap, lmap_thread_kill_all never goes on from a freed
\* node while there is another thread that might have been given its memory.
THEOREM FreedIsUnused ==
  ASSUME NEW c, Workers = {c}
  PROVE  Spec => []FreedUnused
  <1>1. RegInv => FreedUnused
    <2> SUFFICES ASSUME RegInv, mpc = "step", cur \in freed PROVE ~Runs(c)
      BY DEF FreedUnused, Runs
    <2>1. cur \in Node /\ cur \notin Listed
      BY DEF RegInv, TypeOK, ListInv, RegistrySound
    <2>2. cur[1] # Main
      BY <2>1 DEF RegInv, KillInv
    <2>3. cur = <<c, c>>
      BY <2>1, <2>2 DEF Node
    <2> QED BY <2>1, <2>3 DEF RegInv, RegisteredInv, Registering
  <1> QED BY RegistryInvariant, <1>1, PTL

\* The registry is changed and its nodes are freed under threads_mutex, and the
\* mutex is free otherwise, in both builds and for any number of workers: only the
\* debug message of a thread that runs can unlock it in between.
THEOREM ReleaseIsProtected == Spec => []ReleaseProtected
  <1>1. RegInv => ReleaseProtected
    BY DEF RegInv, MutexInv
  <1> QED BY <1>1, RegistryInvariant, PTL
=============================================================================
