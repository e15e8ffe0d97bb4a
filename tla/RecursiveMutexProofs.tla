------------------------ MODULE RecursiveMutexProofs ------------------------
(***************************************************************************)
(* Proofs about RecursiveMutex, for any threads, mutexes and depth, with   *)
(* and without malloc failures.                                            *)
(***************************************************************************)
EXTENDS RecursiveMutex, TLAPS

\* A matching element is in the list and holds what the scan looked for.
LEMMA MatchFacts ==
  ASSUME TypeOK, NEW t \in Threads, NEW m \in Mutexes, NEW c \in Matches(t, m)
  PROVE  /\ c \in Cells /\ elem[c] \in Elem /\ elem[c].count \in Nat
         /\ elem[c].mx = m /\ elem[c].id = t
  BY DEF TypeOK, Matches, Elem

\* Counting an element up or down does not change which elements match.
LEMMA CountChange ==
  ASSUME TypeOK, NEW t \in Threads, NEW m \in Mutexes, NEW c \in Matches(t, m),
         NEW v \in Nat, elem'[c] = [elem[c] EXCEPT !.count = v],
         \A d \in Cells \ {c} : elem'[d] = elem[d]
  PROVE  /\ \A u \in Threads, n \in Mutexes : Matches(u, n)' = Matches(u, n)
         /\ elem'[c].count = v
  <1>1. /\ c \in Cells /\ elem[c] \in Elem /\ elem[c] # Free
        /\ elem[c].mx = m /\ elem[c].id = t
    BY MatchFacts DEF Matches
  <1>3. /\ elem'[c] \in Elem /\ elem'[c].count = v
        /\ elem'[c].mx = m /\ elem'[c].id = t
    BY <1>1 DEF Elem
  <1>4. elem'[c] # Free
    BY <1>3, RmAssumption
  <1>5. ASSUME NEW u \in Threads, NEW n \in Mutexes
        PROVE  Matches(u, n)' = Matches(u, n)
    <2>1. ASSUME NEW d \in Cells  PROVE d \in Matches(u, n)' <=> d \in Matches(u, n)
      BY <1>1, <1>3, <1>4 DEF Matches
    <2>2. Matches(u, n) \subseteq Cells /\ Matches(u, n)' \subseteq Cells
      BY DEF Matches
    <2> QED BY <2>1, <2>2
  <1> QED BY <1>3, <1>5

\* Every step keeps the type invariant.
LEMMA TypeStep ==
  ASSUME TypeOK, ElemInv, [Next]_vars
  PROVE  TypeOK'
  <1> USE RmAssumption DEF TypeOK, Goto, InList
  <1>1. ASSUME NEW t \in Threads, NEW m \in Mutexes, CallLock(t, m)  PROVE TypeOK'
    BY <1>1 DEF CallLock
  <1>2. ASSUME NEW t \in Threads, NEW m \in Mutexes, CallUnlock(t, m)  PROVE TypeOK'
    BY <1>2 DEF CallUnlock
  <1>3. ASSUME NEW t \in Threads, LockList(t)  PROVE TypeOK'
    BY <1>3 DEF LockList
  <1>4. ASSUME NEW t \in Threads, LockAgain(t)  PROVE TypeOK'
    BY <1>4, MatchFacts DEF LockAgain, Elem
  <1>5. ASSUME NEW t \in Threads, LockAgainReturn(t)  PROVE TypeOK'
    BY <1>5 DEF LockAgainReturn
  <1>6. ASSUME NEW t \in Threads, LockInsert(t)  PROVE TypeOK'
    BY <1>6 DEF LockInsert, Elem
  <1>7. ASSUME NEW t \in Threads, LockNoMemory(t)  PROVE TypeOK'
    BY <1>7 DEF LockNoMemory
  <1>8. ASSUME NEW t \in Threads, LockLeaveList(t)  PROVE TypeOK'
    BY <1>8 DEF LockLeaveList
  <1>9. ASSUME NEW t \in Threads, LockMutex(t)  PROVE TypeOK'
    BY <1>9 DEF LockMutex
  <1>10. ASSUME NEW t \in Threads, UnlockList(t)  PROVE TypeOK'
    BY <1>10 DEF UnlockList
  <1>11. ASSUME NEW t \in Threads, UnlockOnce(t)  PROVE TypeOK'
    <2>1. PICK c \in Matches(t, arg[t]) :
                   elem[c].count # 1 /\ elem' = [elem EXCEPT ![c].count = @ - 1]
      BY <1>11 DEF UnlockOnce
    <2>2. elem[c] \in Elem /\ elem[c].count - 1 \in Nat
      BY MatchFacts DEF ElemInv
    <2>3. elem' \in [Cells -> Elem \cup {Free}]
      BY <2>1, <2>2 DEF Elem
    <2> QED BY <1>11, <2>3 DEF UnlockOnce, GiveUp
  <1>12. ASSUME NEW t \in Threads, UnlockLast(t)  PROVE TypeOK'
    BY <1>12, MatchFacts DEF UnlockLast, GiveUp, Elem
  <1>13. ASSUME NEW t \in Threads, UnlockUnknown(t)  PROVE TypeOK'
    BY <1>13, MatchFacts DEF UnlockUnknown, GiveUp
  <1>14. ASSUME NEW t \in Threads, UnlockMutex(t)  PROVE TypeOK'
    BY <1>14 DEF UnlockMutex
  <1>15. ASSUME NEW t \in Threads, UnlockReturn(t)  PROVE TypeOK'
    BY <1>15 DEF UnlockReturn
  <1>16. CASE UNCHANGED vars
    BY <1>16 DEF vars
  <1> QED
    BY <1>1, <1>2, <1>3, <1>4, <1>5, <1>6, <1>7, <1>8,
       <1>9, <1>10, <1>11, <1>12, <1>13, <1>14, <1>15, <1>16
       DEF Next, Call, Proceed

\* The list's mutex.
LEMMA ListStep ==
  ASSUME TypeOK, ListInv, [Next]_vars
  PROVE  ListInv'
  <1> USE RmAssumption DEF TypeOK, Goto, InList, ListInv
  <1>1. ASSUME NEW t \in Threads, NEW m \in Mutexes, CallLock(t, m)  PROVE ListInv'
    BY <1>1 DEF CallLock
  <1>2. ASSUME NEW t \in Threads, NEW m \in Mutexes, CallUnlock(t, m)  PROVE ListInv'
    BY <1>2 DEF CallUnlock
  <1>3. ASSUME NEW t \in Threads, LockList(t)  PROVE ListInv'
    BY <1>3 DEF LockList
  <1>4. ASSUME NEW t \in Threads, LockAgain(t)  PROVE ListInv'
    BY <1>4 DEF LockAgain
  <1>5. ASSUME NEW t \in Threads, LockAgainReturn(t)  PROVE ListInv'
    BY <1>5 DEF LockAgainReturn
  <1>6. ASSUME NEW t \in Threads, LockInsert(t)  PROVE ListInv'
    BY <1>6 DEF LockInsert
  <1>7. ASSUME NEW t \in Threads, LockNoMemory(t)  PROVE ListInv'
    BY <1>7 DEF LockNoMemory
  <1>8. ASSUME NEW t \in Threads, LockLeaveList(t)  PROVE ListInv'
    BY <1>8 DEF LockLeaveList
  <1>9. ASSUME NEW t \in Threads, LockMutex(t)  PROVE ListInv'
    BY <1>9 DEF LockMutex
  <1>10. ASSUME NEW t \in Threads, UnlockList(t)  PROVE ListInv'
    BY <1>10 DEF UnlockList
  <1>11. ASSUME NEW t \in Threads, UnlockOnce(t)  PROVE ListInv'
    BY <1>11 DEF UnlockOnce
  <1>12. ASSUME NEW t \in Threads, UnlockLast(t)  PROVE ListInv'
    BY <1>12 DEF UnlockLast
  <1>13. ASSUME NEW t \in Threads, UnlockUnknown(t)  PROVE ListInv'
    BY <1>13 DEF UnlockUnknown
  <1>14. ASSUME NEW t \in Threads, UnlockMutex(t)  PROVE ListInv'
    BY <1>14 DEF UnlockMutex
  <1>15. ASSUME NEW t \in Threads, UnlockReturn(t)  PROVE ListInv'
    BY <1>15 DEF UnlockReturn
  <1>16. CASE UNCHANGED vars
    BY <1>16 DEF vars
  <1> QED
    BY <1>1, <1>2, <1>3, <1>4, <1>5, <1>6, <1>7, <1>8,
       <1>9, <1>10, <1>11, <1>12, <1>13, <1>14, <1>15, <1>16
       DEF Next, Call, Proceed

\* The elements count the locks.
LEMMA ElemStep ==
  ASSUME TypeOK, TypeOK', ListInv, ElemInv, OwnerInv, [Next]_vars
  PROVE  ElemInv'
  <1> USE RmAssumption DEF Goto, InList
  <1>1. ASSUME NEW t \in Threads, NEW m \in Mutexes, CallLock(t, m)  PROVE ElemInv'
    BY <1>1 DEF CallLock, TypeOK, ElemInv, Extra, Matches
  <1>2. ASSUME NEW t \in Threads, NEW m \in Mutexes, CallUnlock(t, m)  PROVE ElemInv'
    BY <1>2 DEF CallUnlock, TypeOK, ElemInv, Extra, Matches
  <1>3. ASSUME NEW t \in Threads, LockList(t)  PROVE ElemInv'
    BY <1>3 DEF LockList, TypeOK, ElemInv, Extra, Matches, GiveUp
  <1>4. ASSUME NEW t \in Threads, LockAgain(t)  PROVE ElemInv'
    <2>1. PICK c \in Matches(t, arg[t]) : elem' = [elem EXCEPT ![c].count = @ + 1]
      BY <1>4 DEF LockAgain
    <2>2. /\ arg[t] \in Mutexes /\ elem[c].count \in Nat
          /\ pc[t] = "lscan" /\ (\A u \in Threads : pc'[u] = IF u = t THEN "lreturn" ELSE pc[u])
          /\ UNCHANGED <<arg, owner, held>>
      BY <1>4, MatchFacts DEF LockAgain, TypeOK
    <2>3. (elem[c].count + 1) \in Nat
      BY <2>1, <2>2 DEF ElemInv
    <2>a. /\ elem'[c] = [elem[c] EXCEPT !.count = elem[c].count + 1]
          /\ \A d \in Cells \ {c} : elem'[d] = elem[d]
      BY <2>1, MatchFacts DEF TypeOK, Matches
    <2>4. /\ \A u \in Threads, n \in Mutexes : Matches(u, n)' = Matches(u, n)
          /\ elem'[c].count = elem[c].count + 1
      BY <2>2, <2>3, <2>a, CountChange
    <2>5. \A u \in Threads, n \in Mutexes : \A d \in Matches(u, n) :
            d \in Cells /\ (d = c => u = t /\ n = arg[t])
      BY <2>1, <2>2, MatchFacts
    <2>6. ASSUME NEW u \in Threads, NEW n \in Mutexes, NEW d \in Matches(u, n)
          PROVE  /\ elem'[d].count = held[u][n] + Extra(u, n)'
                 /\ elem'[d].count > 0
      <3>1. elem[d].count = held[u][n] + Extra(u, n) /\ elem[d].count > 0
        BY DEF ElemInv
      <3>2. elem[d].count \in Nat /\ held[u][n] \in Nat
        BY MatchFacts DEF TypeOK
      <3>3. CASE u = t /\ n = arg[t]
        <4>1. d = c
          BY <2>1, <3>3 DEF ElemInv
        <4>2. Extra(u, n) = 0 /\ Extra(u, n)' = 1
          BY <2>2, <3>3 DEF Extra
        <4> QED BY <2>4, <3>1, <3>2, <4>1, <4>2
      <3>4. CASE ~(u = t /\ n = arg[t])
        <4>1. Extra(u, n)' = Extra(u, n)
          BY <2>2, <3>4 DEF Extra
        <4> QED BY <2>a, <2>5, <3>1, <3>4, <4>1
      <3> QED BY <3>3, <3>4
    <2>7. ASSUME NEW u \in Threads, NEW n \in Mutexes, Matches(u, n) = {}
          PROVE  held[u][n] = 0 /\ Extra(u, n)' = 0
      BY <2>1, <2>2, <2>7 DEF ElemInv, Extra
    <2> QED BY <2>2, <2>4, <2>6, <2>7 DEF ElemInv
  <1>5. ASSUME NEW t \in Threads, LockAgainReturn(t)  PROVE ElemInv'
    BY <1>5 DEF LockAgainReturn, TypeOK, ElemInv, Extra, Matches, GiveUp
  <1>6. ASSUME NEW t \in Threads, LockInsert(t)  PROVE ElemInv'
    <2>1. PICK c \in Cells : elem[c] = Free /\
              elem' = [elem EXCEPT ![c] = [mx |-> arg[t], id |-> t, count |-> 1]]
      BY <1>6 DEF LockInsert
    <2>2. /\ arg[t] \in Mutexes /\ Matches(t, arg[t]) = {}
          /\ pc[t] = "lscan" /\ (\A u \in Threads : pc'[u] = IF u = t THEN "linserted" ELSE pc[u])
          /\ UNCHANGED <<arg, held>>
      BY <1>6 DEF LockInsert, TypeOK
    <2>3. /\ elem'[c] = [mx |-> arg[t], id |-> t, count |-> 1] /\ elem'[c] # Free
          /\ \A d \in Cells \ {c} : elem'[d] = elem[d]
      BY <2>1, <2>2 DEF TypeOK, Elem
    <2>4. /\ Matches(t, arg[t])' = {c}
          /\ \A u \in Threads, n \in Mutexes : ~(u = t /\ n = arg[t]) =>
               Matches(u, n)' = Matches(u, n) /\ c \notin Matches(u, n)
      BY <2>1, <2>2, <2>3 DEF Matches
    <2>5. \A u \in Threads, n \in Mutexes : \A d \in Matches(u, n) : d \in Cells
      BY DEF Matches
    <2>6. held[t][arg[t]] = 0
      BY <2>2 DEF ElemInv
    <2> QED BY <2>2, <2>3, <2>4, <2>5, <2>6 DEF ElemInv, Extra
  <1>7. ASSUME NEW t \in Threads, LockNoMemory(t)  PROVE ElemInv'
    BY <1>7 DEF LockNoMemory, TypeOK, ElemInv, Extra, Matches, GiveUp
  <1>8. ASSUME NEW t \in Threads, LockLeaveList(t)  PROVE ElemInv'
    BY <1>8 DEF LockLeaveList, TypeOK, ElemInv, Extra, Matches, GiveUp
  <1>9. ASSUME NEW t \in Threads, LockMutex(t)  PROVE ElemInv'
    BY <1>9 DEF LockMutex, TypeOK, ElemInv, Extra, Matches, GiveUp
  <1>10. ASSUME NEW t \in Threads, UnlockList(t)  PROVE ElemInv'
    BY <1>10 DEF UnlockList, TypeOK, ElemInv, Extra, Matches, GiveUp
  <1>11. ASSUME NEW t \in Threads, UnlockOnce(t)  PROVE ElemInv'
    <2>1. PICK c \in Matches(t, arg[t]) : elem[c].count # 1 /\ elem' = [elem EXCEPT ![c].count = @ - 1]
      BY <1>11 DEF UnlockOnce
    <2>2. /\ arg[t] \in Mutexes /\ elem[c].count \in Nat
          /\ pc[t] = "uscan" /\ (\A u \in Threads : pc'[u] = IF u = t THEN "uleave" ELSE pc[u])
          /\ UNCHANGED <<arg, owner>>
          /\ held \in [Threads -> [Mutexes -> Nat]]
          /\ held' = [held EXCEPT ![t][arg[t]] = IF @ > 0 THEN @ - 1 ELSE 0]
      BY <1>11, MatchFacts DEF UnlockOnce, TypeOK, GiveUp
    <2>3. (elem[c].count - 1) \in Nat
      BY <2>1, <2>2 DEF ElemInv
    <2>a. /\ elem'[c] = [elem[c] EXCEPT !.count = elem[c].count - 1]
          /\ \A d \in Cells \ {c} : elem'[d] = elem[d]
      BY <2>1, MatchFacts DEF TypeOK, Matches
    <2>4. /\ \A u \in Threads, n \in Mutexes : Matches(u, n)' = Matches(u, n)
          /\ elem'[c].count = elem[c].count - 1
      BY <2>2, <2>3, <2>a, CountChange
    <2>5. \A u \in Threads, n \in Mutexes : \A d \in Matches(u, n) :
            d \in Cells /\ (d = c => u = t /\ n = arg[t])
      BY <2>1, <2>2, MatchFacts
    <2> QED BY <2>1, <2>2, <2>3, <2>a, <2>4, <2>5 DEF ElemInv, Extra
  <1>12. ASSUME NEW t \in Threads, UnlockLast(t)  PROVE ElemInv'
    BY <1>12 DEF UnlockLast, TypeOK, ElemInv, Extra, Matches, GiveUp
  <1>13. ASSUME NEW t \in Threads, UnlockUnknown(t)  PROVE ElemInv'
    BY <1>13 DEF UnlockUnknown, TypeOK, ElemInv, Extra, Matches, GiveUp
  <1>14. ASSUME NEW t \in Threads, UnlockMutex(t)  PROVE ElemInv'
    BY <1>14 DEF UnlockMutex, TypeOK, ElemInv, Extra, Matches, GiveUp
  <1>15. ASSUME NEW t \in Threads, UnlockReturn(t)  PROVE ElemInv'
    BY <1>15 DEF UnlockReturn, TypeOK, ElemInv, Extra, Matches, GiveUp
  <1>16. CASE UNCHANGED vars
    BY <1>16 DEF vars, ElemInv, Extra, Matches
  <1> QED
    BY <1>1, <1>2, <1>3, <1>4, <1>5, <1>6, <1>7, <1>8,
       <1>9, <1>10, <1>11, <1>12, <1>13, <1>14, <1>15, <1>16
       DEF Next, Call, Proceed

\* Owners have elements.
LEMMA OwnerStep ==
  ASSUME TypeOK, TypeOK', ListInv, ElemInv, OwnerInv, [Next]_vars
  PROVE  OwnerInv'
  <1> USE RmAssumption DEF Goto, InList
  <1>1. ASSUME NEW t \in Threads, NEW m \in Mutexes, CallLock(t, m)  PROVE OwnerInv'
    BY <1>1 DEF CallLock, TypeOK, OwnerInv, Waiting, Matches
  <1>2. ASSUME NEW t \in Threads, NEW m \in Mutexes, CallUnlock(t, m)  PROVE OwnerInv'
    BY <1>2 DEF CallUnlock, TypeOK, OwnerInv, Waiting, Matches
  <1>3. ASSUME NEW t \in Threads, LockList(t)  PROVE OwnerInv'
    BY <1>3 DEF LockList, TypeOK, ElemInv, OwnerInv, Extra, Waiting, Matches, GiveUp
  <1>4. ASSUME NEW t \in Threads, LockAgain(t)  PROVE OwnerInv'
    <2>1. PICK c \in Matches(t, arg[t]) : elem' = [elem EXCEPT ![c].count = @ + 1]
      BY <1>4 DEF LockAgain
    <2>2. /\ arg[t] \in Mutexes /\ elem[c].count \in Nat
          /\ pc[t] = "lscan" /\ (\A u \in Threads : pc'[u] = IF u = t THEN "lreturn" ELSE pc[u])
          /\ UNCHANGED <<arg, owner, held>>
      BY <1>4, MatchFacts DEF LockAgain, TypeOK
    <2>3. (elem[c].count + 1) \in Nat
      BY <2>1, <2>2 DEF ElemInv
    <2>a. /\ elem'[c] = [elem[c] EXCEPT !.count = elem[c].count + 1]
          /\ \A d \in Cells \ {c} : elem'[d] = elem[d]
      BY <2>1, MatchFacts DEF TypeOK, Matches
    <2>4. /\ \A u \in Threads, n \in Mutexes : Matches(u, n)' = Matches(u, n)
          /\ elem'[c].count = elem[c].count + 1
      BY <2>2, <2>3, <2>a, CountChange
    <2>5. \A u \in Threads, n \in Mutexes : \A d \in Matches(u, n) :
            d \in Cells /\ (d = c => u = t /\ n = arg[t])
      BY <2>1, <2>2, MatchFacts
    <2> QED BY <2>1, <2>2, <2>3, <2>a, <2>4, <2>5 DEF OwnerInv, Waiting
  <1>5. ASSUME NEW t \in Threads, LockAgainReturn(t)  PROVE OwnerInv'
    BY <1>5 DEF LockAgainReturn, TypeOK, ElemInv, OwnerInv, Extra, Waiting, Matches, GiveUp
  <1>6. ASSUME NEW t \in Threads, LockInsert(t)  PROVE OwnerInv'
    BY <1>6 DEF LockInsert, TypeOK, ElemInv, OwnerInv, Extra, Waiting, Matches, GiveUp
  <1>7. ASSUME NEW t \in Threads, LockNoMemory(t)  PROVE OwnerInv'
    BY <1>7 DEF LockNoMemory, TypeOK, ElemInv, OwnerInv, Extra, Waiting, Matches, GiveUp
  <1>8. ASSUME NEW t \in Threads, LockLeaveList(t)  PROVE OwnerInv'
    BY <1>8 DEF LockLeaveList, TypeOK, ElemInv, OwnerInv, Extra, Waiting, Matches, GiveUp
  <1>9. ASSUME NEW t \in Threads, LockMutex(t)  PROVE OwnerInv'
    BY <1>9 DEF LockMutex, TypeOK, ElemInv, OwnerInv, Extra, Waiting, Matches, GiveUp
  <1>10. ASSUME NEW t \in Threads, UnlockList(t)  PROVE OwnerInv'
    BY <1>10 DEF UnlockList, TypeOK, ElemInv, OwnerInv, Extra, Waiting, Matches, GiveUp
  <1>11. ASSUME NEW t \in Threads, UnlockOnce(t)  PROVE OwnerInv'
    <2>1. PICK c \in Matches(t, arg[t]) : elem[c].count # 1 /\ elem' = [elem EXCEPT ![c].count = @ - 1]
      BY <1>11 DEF UnlockOnce
    <2>2. /\ arg[t] \in Mutexes /\ elem[c].count \in Nat
          /\ pc[t] = "uscan" /\ (\A u \in Threads : pc'[u] = IF u = t THEN "uleave" ELSE pc[u])
          /\ UNCHANGED <<arg, owner>>
          /\ held \in [Threads -> [Mutexes -> Nat]]
          /\ held' = [held EXCEPT ![t][arg[t]] = IF @ > 0 THEN @ - 1 ELSE 0]
      BY <1>11, MatchFacts DEF UnlockOnce, TypeOK, GiveUp
    <2>3. (elem[c].count - 1) \in Nat
      BY <2>1, <2>2 DEF ElemInv
    <2>a. /\ elem'[c] = [elem[c] EXCEPT !.count = elem[c].count - 1]
          /\ \A d \in Cells \ {c} : elem'[d] = elem[d]
      BY <2>1, MatchFacts DEF TypeOK, Matches
    <2>4. /\ \A u \in Threads, n \in Mutexes : Matches(u, n)' = Matches(u, n)
          /\ elem'[c].count = elem[c].count - 1
      BY <2>2, <2>3, <2>a, CountChange
    <2>5. \A u \in Threads, n \in Mutexes : \A d \in Matches(u, n) :
            d \in Cells /\ (d = c => u = t /\ n = arg[t])
      BY <2>1, <2>2, MatchFacts
    <2> QED BY <2>1, <2>2, <2>3, <2>a, <2>4, <2>5 DEF ElemInv, OwnerInv, Waiting
  <1>12. ASSUME NEW t \in Threads, UnlockLast(t)  PROVE OwnerInv'
    BY <1>12 DEF UnlockLast, TypeOK, ElemInv, OwnerInv, Extra, Waiting, Matches, GiveUp
  <1>13. ASSUME NEW t \in Threads, UnlockUnknown(t)  PROVE OwnerInv'
    BY <1>13 DEF UnlockUnknown, TypeOK, ElemInv, OwnerInv, Extra, Waiting, Matches, GiveUp
  <1>14. ASSUME NEW t \in Threads, UnlockMutex(t)  PROVE OwnerInv'
    BY <1>14 DEF UnlockMutex, TypeOK, ElemInv, OwnerInv, Extra, Waiting, Matches, GiveUp
  <1>15. ASSUME NEW t \in Threads, UnlockReturn(t)  PROVE OwnerInv'
    BY <1>15 DEF UnlockReturn, TypeOK, ElemInv, OwnerInv, Extra, Waiting, Matches, GiveUp
  <1>16. CASE UNCHANGED vars
    BY <1>16 DEF vars, OwnerInv, Waiting, Matches
  <1> QED
    BY <1>1, <1>2, <1>3, <1>4, <1>5, <1>6, <1>7, <1>8,
       <1>9, <1>10, <1>11, <1>12, <1>13, <1>14, <1>15, <1>16
       DEF Next, Call, Proceed

\* Init establishes the invariant.
LEMMA RmInit == Init => RmInv
  <1> SUFFICES ASSUME Init PROVE RmInv
    OBVIOUS
  <1> USE RmAssumption DEF Init
  <1>1. TypeOK /\ ListInv
    BY DEF TypeOK, ListInv, InList
  <1>2. \A t \in Threads, m \in Mutexes : Matches(t, m) = {}
    BY DEF Matches
  <1>3. ElemInv /\ OwnerInv
    BY <1>2 DEF ElemInv, OwnerInv, Extra, Waiting
  <1> QED BY <1>1, <1>3 DEF RmInv

\* Every step keeps the invariant.
LEMMA RmStep == RmInv /\ [Next]_vars => RmInv'
  BY TypeStep, ListStep, ElemStep, OwnerStep DEF RmInv

\* The list of elements, the pthread mutexes and what the callers were told
\* agree at every step, with any malloc failures.
THEOREM RmInvariant == Spec => []RmInv
  BY RmInit, RmStep, PTL DEF Spec

\* The two functions keep the types of their variables.
THEOREM TypeCorrect == Spec => []TypeOK
  <1>1. RmInv => TypeOK
    BY DEF RmInv
  <1> QED BY <1>1, RmInvariant, PTL

\* A caller whose lock returned 0 owns the mutex until it unlocks it as often.
THEOREM HoldersOwn == Spec => []HolderOwns
  <1>1. RmInv => HolderOwns
    BY DEF RmInv, TypeOK, ElemInv, OwnerInv, HolderOwns
  <1> QED BY <1>1, RmInvariant, PTL

\* Between two calls a thread owns only what it has locked.
THEOREM OwnersHold == Spec => []OwnerHolds
  <1>1. RmInv => OwnerHolds
    <2> SUFFICES ASSUME RmInv, NEW t \in Threads, NEW m \in Mutexes,
                        pc[t] = "idle", owner[m] = t
                 PROVE  held[t][m] > 0
      BY DEF OwnerHolds
    <2>1. PICK c \in Matches(t, m) : TRUE
      BY DEF RmInv, OwnerInv
    <2>2. elem[c].count = held[t][m] + Extra(t, m) /\ elem[c].count > 0
      BY DEF RmInv, ElemInv
    <2>3. Extra(t, m) = 0 /\ held[t][m] \in Nat
      BY DEF Extra, RmInv, TypeOK
    <2> QED BY <2>2, <2>3
  <1> QED BY <1>1, RmInvariant, PTL

\* pthread_mutex_unlock is called by the owner.
THEOREM UnlocksAreOwn == Spec => []UnlocksOwn
  <1>1. RmInv => UnlocksOwn
    BY DEF RmInv, TypeOK, OwnerInv, UnlocksOwn
  <1> QED BY <1>1, RmInvariant, PTL

\* One element for a mutex and a thread, with a positive count.
THEOREM ElementsUnique == Spec => []UniqueElement
  <1>1. RmInv => UniqueElement
    BY DEF RmInv, ElemInv, UniqueElement
  <1> QED BY <1>1, RmInvariant, PTL

\* The list is scanned and changed by one thread at a time.
THEOREM ListMutualExclusion == Spec => []ListExclusive
  <1>1. RmInv => ListExclusive
    BY DEF RmInv, ListInv, ListExclusive
  <1> QED BY <1>1, RmInvariant, PTL

-----------------------------------------------------------------------------
(* The abstract reentrant lock *)

\* Under the invariant the depth is what the caller knows, plus the lock that
\* is about to return or the unlock that has not released the mutex yet.
Known(t, m) ==
  IF owner[m] # t THEN 0
  ELSE held[t][m] + (IF pc[t] \in {"lreturn", "ufree"} /\ arg[t] = m THEN 1 ELSE 0)

knownBar == [t \in Threads |-> [m \in Mutexes |-> Known(t, m)]]

\* The mapped depth is the known depth.
LEMMA DepthIsKnown == RmInv => depthBar = knownBar
  <1> SUFFICES ASSUME RmInv, NEW t \in Threads, NEW m \in Mutexes
               PROVE  Depth(t, m) = Known(t, m)
    BY DEF depthBar, knownBar
  <1>1. CASE owner[m] # t
    BY <1>1 DEF Depth, Known
  <1>2. CASE owner[m] = t /\ Matches(t, m) = {}
    BY <1>2 DEF Depth, Known, RmInv, ElemInv, OwnerInv
  <1>3. ASSUME owner[m] = t, NEW c \in Matches(t, m)  PROVE Depth(t, m) = Known(t, m)
    <2>1. (CHOOSE d \in Matches(t, m) : TRUE) = c
      BY DEF RmInv, ElemInv
    <2>2. Depth(t, m) = elem[c].count
      BY <1>3, <2>1 DEF Depth
    <2>3. elem[c].count = held[t][m] + Extra(t, m)
      BY DEF RmInv, ElemInv
    <2>4. ~Waiting(t, m) /\ ~(pc[t] = "ufree" /\ arg[t] = m)
      BY <1>3 DEF RmInv, OwnerInv
    <2> QED BY <1>3, <2>2, <2>3, <2>4 DEF Extra, Known, Waiting
  <1> QED BY <1>1, <1>2, <1>3

\* A step that changes what no thread knows is invisible.
LEMMA KnownSame ==
  ASSUME \A u \in Threads, n \in Mutexes : Known(u, n)' = Known(u, n)
  PROVE  knownBar' = knownBar
  BY DEF knownBar

\* The steps that acquire.
LEMMA KnownAcquire ==
  ASSUME NEW t \in Threads, NEW m \in Mutexes,
         \A u \in Threads \ {t} : Known(u, m) = 0,
         Known(t, m)' = Known(t, m) + 1,
         \A u \in Threads, n \in Mutexes :
           ~(u = t /\ n = m) => Known(u, n)' = Known(u, n)
  PROVE  /\ \A u \in Threads \ {t} : knownBar[u][m] = 0
         /\ knownBar' = [knownBar EXCEPT ![t][m] = @ + 1]
  BY DEF knownBar

\* The steps that release.
LEMMA KnownRelease ==
  ASSUME NEW t \in Threads, NEW m \in Mutexes, Known(t, m) > 0,
         Known(t, m)' = Known(t, m) - 1,
         \A u \in Threads, n \in Mutexes :
           ~(u = t /\ n = m) => Known(u, n)' = Known(u, n)
  PROVE  /\ knownBar[t][m] > 0
         /\ knownBar' = [knownBar EXCEPT ![t][m] = @ - 1]
  BY DEF knownBar

\* A step acquires or releases one level of one lock, or does nothing that the
\* callers can see.
LEMMA KnownStep ==
  ASSUME RmInv, RmInv', [Next]_vars
  PROVE  \/ knownBar' = knownBar
         \/ \E t \in Threads, m \in Mutexes :
              \/ /\ \A u \in Threads \ {t} : knownBar[u][m] = 0
                 /\ knownBar' = [knownBar EXCEPT ![t][m] = @ + 1]
              \/ /\ knownBar[t][m] > 0
                 /\ knownBar' = [knownBar EXCEPT ![t][m] = @ - 1]
  <1> USE RmAssumption DEF RmInv, Goto
  <1>a. TypeOK
    OBVIOUS
  <1>1. ASSUME NEW t \in Threads, NEW m \in Mutexes, CallLock(t, m) \/ CallUnlock(t, m)
        PROVE  knownBar' = knownBar
    BY <1>1, <1>a, KnownSame DEF CallLock, CallUnlock, TypeOK, Known
  <1>2. ASSUME NEW t \in Threads, LockList(t) \/ UnlockList(t)  PROVE knownBar' = knownBar
    BY <1>2, <1>a, KnownSame DEF LockList, UnlockList, TypeOK, Known
  <1>3. ASSUME NEW t \in Threads, LockAgain(t)
        PROVE  /\ \A u \in Threads \ {t} : knownBar[u][arg[t]] = 0
               /\ knownBar' = [knownBar EXCEPT ![t][arg[t]] = @ + 1]
    <2>a. arg[t] \in Mutexes
      BY <1>a DEF TypeOK
    <2>b. pc[t] = "lscan" /\ Matches(t, arg[t]) # {}
      BY <1>3 DEF LockAgain
    <2>c. Waiting(t, arg[t]) \/ owner[arg[t]] = t
      BY <2>a, <2>b DEF OwnerInv
    <2>1. arg[t] \in Mutexes /\ owner[arg[t]] = t
      BY <2>a, <2>b, <2>c DEF Waiting
    <2>2. \A u \in Threads \ {t} : Known(u, arg[t]) = 0
      BY <2>1 DEF Known
    <2>3. Known(t, arg[t])' = Known(t, arg[t]) + 1
      BY <1>3, <2>1 DEF LockAgain, TypeOK, Known
    <2>4. \A u \in Threads, n \in Mutexes :
            ~(u = t /\ n = arg[t]) => Known(u, n)' = Known(u, n)
      BY <1>3 DEF LockAgain, TypeOK, Known
    <2>5. ASSUME NEW n \in Mutexes, n = arg[t] PROVE Known(t, n)' = Known(t, n) + 1
      BY <1>3, <2>1, <2>5 DEF LockAgain, TypeOK, Known
    <2> QED BY <2>1, <2>2, <2>4, <2>5, KnownAcquire
  <1>4. ASSUME NEW t \in Threads, LockAgainReturn(t)  PROVE knownBar' = knownBar
    <2>1. owner[arg[t]] = t
      BY <1>4 DEF LockAgainReturn, TypeOK, ElemInv, Extra, OwnerInv, Waiting
    <2> QED BY <1>4, <2>1, KnownSame DEF LockAgainReturn, TypeOK, Known
  <1>5. ASSUME NEW t \in Threads, LockInsert(t) \/ LockNoMemory(t) \/ LockLeaveList(t)
        PROVE  knownBar' = knownBar
    BY <1>5, KnownSame DEF LockInsert, LockNoMemory, LockLeaveList, TypeOK, Known
  <1>6. ASSUME NEW t \in Threads, LockMutex(t)
        PROVE  /\ \A u \in Threads \ {t} : knownBar[u][arg[t]] = 0
               /\ knownBar' = [knownBar EXCEPT ![t][arg[t]] = @ + 1]
    <2>1. /\ arg[t] \in Mutexes /\ owner[arg[t]] = None /\ held[t][arg[t]] = 0
      BY <1>6 DEF LockMutex, TypeOK, OwnerInv, Waiting
    <2>2. \A u \in Threads : Known(u, arg[t]) = 0
      BY <2>1 DEF Known
    <2>4. \A u \in Threads, n \in Mutexes :
            ~(u = t /\ n = arg[t]) => Known(u, n)' = Known(u, n)
      BY <1>6, <2>1 DEF LockMutex, TypeOK, Known
    <2>5. ASSUME NEW n \in Mutexes, n = arg[t] PROVE Known(t, n)' = Known(t, n) + 1
      BY <1>6, <2>1, <2>5 DEF LockMutex, TypeOK, Known
    <2> QED BY <2>1, <2>2, <2>4, <2>5, KnownAcquire
  <1>7. ASSUME NEW t \in Threads, UnlockOnce(t)
        PROVE  /\ knownBar[t][arg[t]] > 0
               /\ knownBar' = [knownBar EXCEPT ![t][arg[t]] = @ - 1]
    <2>1. PICK c \in Matches(t, arg[t]) : elem[c].count # 1
      BY <1>7 DEF UnlockOnce
    <2>2. /\ arg[t] \in Mutexes /\ owner[arg[t]] = t
          /\ held[t][arg[t]] \in Nat /\ held[t][arg[t]] > 1
      <3>1. pc[t] = "uscan" /\ arg[t] \in Mutexes /\ held[t][arg[t]] \in Nat
        BY <1>7 DEF UnlockOnce, TypeOK
      <3>2. elem[c].count = held[t][arg[t]] /\ elem[c].count > 0
        BY <2>1, <3>1 DEF ElemInv, Extra
      <3>3. owner[arg[t]] = t
        BY <2>1, <3>1 DEF OwnerInv, Waiting
      <3> QED BY <2>1, <3>1, <3>2, <3>3
    <2>3. Known(t, arg[t]) > 0
      BY <2>2 DEF Known
    <2>4. \A u \in Threads, n \in Mutexes :
            ~(u = t /\ n = arg[t]) => Known(u, n)' = Known(u, n)
      BY <1>7, <2>2 DEF UnlockOnce, GiveUp, TypeOK, Known
    <2>5. ASSUME NEW n \in Mutexes, n = arg[t] PROVE Known(t, n)' = Known(t, n) - 1
      BY <1>7, <2>2, <2>5 DEF UnlockOnce, GiveUp, TypeOK, Known
    <2> QED BY <2>2, <2>3, <2>4, <2>5, KnownRelease
  <1>8. ASSUME NEW t \in Threads, UnlockLast(t)  PROVE knownBar' = knownBar
    <2>1. PICK c \in Matches(t, arg[t]) : elem[c].count = 1
      BY <1>8 DEF UnlockLast
    <2>2. /\ arg[t] \in Mutexes /\ owner[arg[t]] = t /\ held[t][arg[t]] = 1
      <3>1. pc[t] = "uscan" /\ arg[t] \in Mutexes /\ held[t][arg[t]] \in Nat
        BY <1>8 DEF UnlockLast, TypeOK
      <3>2. elem[c].count = held[t][arg[t]]
        BY <2>1, <3>1 DEF ElemInv, Extra
      <3>3. owner[arg[t]] = t
        BY <2>1, <3>1 DEF OwnerInv, Waiting
      <3> QED BY <2>1, <3>1, <3>2, <3>3
    <2> QED BY <1>8, <2>2, KnownSame DEF UnlockLast, GiveUp, TypeOK, Known
  <1>9. ASSUME NEW t \in Threads, UnlockUnknown(t)  PROVE knownBar' = knownBar
    <2>1. arg[t] \in Mutexes /\ held[t][arg[t]] = 0
      BY <1>9 DEF UnlockUnknown, TypeOK, ElemInv
    <2> QED BY <1>9, <2>1, KnownSame DEF UnlockUnknown, GiveUp, TypeOK, Known
  <1>10. ASSUME NEW t \in Threads, UnlockMutex(t)
         PROVE  /\ knownBar[t][arg[t]] > 0
                /\ knownBar' = [knownBar EXCEPT ![t][arg[t]] = @ - 1]
    <2>1. /\ arg[t] \in Mutexes /\ owner[arg[t]] = t /\ held[t][arg[t]] = 0
          /\ pc[t] = "ufree"
      BY <1>10 DEF UnlockMutex, TypeOK, ElemInv, OwnerInv
    <2>2. Known(t, arg[t]) = 1
      BY <2>1 DEF Known
    <2>4. \A u \in Threads, n \in Mutexes :
            ~(u = t /\ n = arg[t]) => Known(u, n)' = Known(u, n)
      BY <1>10, <2>1 DEF UnlockMutex, TypeOK, Known
    <2>5. ASSUME NEW n \in Mutexes, n = arg[t] PROVE Known(t, n)' = Known(t, n) - 1
      BY <1>10, <2>1, <2>5 DEF UnlockMutex, TypeOK, Known
    <2> QED BY <2>1, <2>2, <2>4, <2>5, KnownRelease
  <1>11. ASSUME NEW t \in Threads, UnlockReturn(t)  PROVE knownBar' = knownBar
    BY <1>11, KnownSame DEF UnlockReturn, TypeOK, Known
  <1>12. CASE UNCHANGED vars
    BY <1>12, KnownSame DEF vars, Known
  <1>13. \A t \in Threads : arg[t] \in Mutexes
    BY DEF TypeOK
  <1> QED
    BY <1>1, <1>2, <1>3, <1>4, <1>5, <1>6, <1>7, <1>8, <1>9, <1>10, <1>11, <1>12,
       <1>13 DEF Next, Call, Proceed

\* recursive_mutex_lock and recursive_mutex_unlock implement a reentrant lock.
THEOREM Refinement == Spec => ImplementsReentrantLock
  <1>1. Init /\ RmInv => Reentrant!Init
    <2> SUFFICES ASSUME Init, RmInv PROVE Reentrant!Init
      OBVIOUS
    <2>1. \A t \in Threads, m \in Mutexes : Depth(t, m) = 0
      BY RmAssumption DEF Init, Depth
    <2> QED BY <2>1 DEF Reentrant!Init, depthBar
  <1>2. RmInv /\ RmInv' /\ [Next]_vars => [Reentrant!Next]_depthBar
    <2>1. (RmInv => depthBar = knownBar)'
      BY DepthIsKnown, PTL
    <2> QED BY <2>1, DepthIsKnown, KnownStep
            DEF Reentrant!Next, Reentrant!Acquire, Reentrant!Release
  <1> QED BY <1>1, <1>2, RmInvariant, RmInit, PTL
          DEF Spec, ImplementsReentrantLock, Reentrant!Spec
=============================================================================
