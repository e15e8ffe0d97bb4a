---------------------------- MODULE UiQueueProofs ----------------------------
(***************************************************************************)
(* Proofs about UiQueue, for any number of threads and messages, any       *)
(* initial buffer size and any lengths of messages.                        *)
(***************************************************************************)
EXTENDS UiQueue, SequenceTheorems, TLAPS

\* A thread's current message is a node as soon as it has allocated one.
LEMMA MineIsNode ==
  ASSUME TypeOK, NEW t \in Threads, count[t] >= 1
  PROVE  Mine(t) \in Node
  BY UiAssumption DEF TypeOK, Mine, Node

\* Init establishes the type invariant.
LEMMA TypeInit == Init => TypeOK
  BY UiAssumption DEF Init, TypeOK, Node, MsgPCs, FlushPCs

\* Every step of ui_msg, ui_msg_flush and of the program's end keeps the type
\* invariant; the steps that use a node need the locals of their thread.
LEMMA TypeStep ==
  ASSUME TypeOK, PcInv, LocalInv, HistoryInv, [Next]_vars
  PROVE  TypeOK'
  <1> USE UiAssumption DEF TypeOK, procVars, fmtVars, queueVars, flushVars,
                           At, Alive, Goto, MsgPCs, FlushPCs
  <1>1. ASSUME NEW t \in Threads, MsgAlloc(t)  PROVE TypeOK'
    <2>1. PICK n \in MsgLens : len' = [len EXCEPT ![t] = n]
      BY <1>1 DEF MsgAlloc
    <2>2. len' \in [Threads -> Nat] /\ size' \in [Threads -> Nat]
      BY <1>1, <2>1 DEF MsgAlloc
    <2>3. count' \in [Threads -> 0..MaxMsgs]
      <3>1. count[t] + 1 \in 0..MaxMsgs
        BY <1>1 DEF MsgAlloc
      <3>2. count' = [count EXCEPT ![t] = count[t] + 1]
        BY <1>1 DEF MsgAlloc
      <3> QED BY <3>1, <3>2
    <2>4. pc' = [pc EXCEPT ![t] = "format"]
          /\ UNCHANGED <<procVars, whole, mutex, queueVars, flushVars>>
      BY <1>1 DEF MsgAlloc
    <2> QED BY <2>2, <2>3, <2>4
  <1>2. ASSUME NEW t \in Threads, MsgNoMemory(t)  PROVE TypeOK'
    <2>1. /\ pc' = [pc EXCEPT ![t] = "leave"]
          /\ UNCHANGED <<procVars, fmtVars, mutex, queueVars, flushVars>>
      BY <1>2 DEF MsgNoMemory
    <2> QED BY <2>1
  <1>3. ASSUME NEW t \in Threads, MsgFits(t)  PROVE TypeOK'
    BY <1>3, MineIsNode DEF MsgFits, PcInv
  <1>4. ASSUME NEW t \in Threads, MsgGrow(t)  PROVE TypeOK'
    <2>1. PICK c99 \in C99 : size' = [size EXCEPT ![t] = Grown(@, len[t], c99)]
      BY <1>4 DEF MsgGrow
    <2>2. Grown(size[t], len[t], c99) \in Nat
      BY <2>1 DEF Grown
    <2> QED BY <1>4, <2>1, <2>2 DEF MsgGrow
  <1>5. ASSUME NEW t \in Threads, MsgLock(t)  PROVE TypeOK'
    BY <1>5 DEF MsgLock
  <1>6. ASSUME NEW t \in Threads, InsClear(t)  PROVE TypeOK'
    BY <1>6 DEF InsClear
  <1>7. ASSUME NEW t \in Threads, InsLink(t)  PROVE TypeOK'
    <2>1. Mine(t) \in Node
      BY <1>7, MineIsNode DEF InsLink, PcInv
    <2> QED BY <1>7, <2>1 DEF InsLink
  <1>8. ASSUME NEW t \in Threads, InsTail(t)  PROVE TypeOK'
    BY <1>8, MineIsNode DEF InsTail, PcInv
  <1>9. ASSUME NEW t \in Threads, MsgUnlock(t)  PROVE TypeOK'
    BY <1>9 DEF MsgUnlock
  <1>10. ASSUME NEW t \in Threads, Cancel(t)  PROVE TypeOK'
    BY <1>10 DEF Cancel
  <1>11. CASE FlushCheck
    BY <1>11 DEF FlushCheck
  <1>12. CASE FlushLock
    BY <1>12 DEF FlushLock
  <1>13. CASE FlushLoop
    BY <1>13 DEF FlushLoop
  <1>14. CASE FlushDisplay
    BY <1>14 DEF FlushDisplay, LocalInv
  <1>15. CASE FlushRemove
    BY <1>15 DEF FlushRemove, LocalInv, PcInv, HistoryInv
  <1>16. CASE FlushReset
    BY <1>16 DEF FlushReset
  <1>17. CASE FlushFree
    BY <1>17 DEF FlushFree, LocalInv, PcInv, HistoryInv
  <1>18. CASE FlushUnlock
    BY <1>18 DEF FlushUnlock
  <1>19. CASE Quit
    BY <1>19 DEF Quit
  <1>20. CASE Exit
    BY <1>20 DEF Exit
  <1>21. CASE Over \/ UNCHANGED vars
    BY <1>21 DEF Over, vars
  <1>22. ASSUME NEW t \in Threads, MsgAbort(t)  PROVE TypeOK'
    BY <1>22 DEF MsgAbort
  <1> QED
    BY <1>1, <1>2, <1>3, <1>4, <1>5, <1>6, <1>7, <1>8, <1>9, <1>10, <1>11,
       <1>12, <1>13, <1>14, <1>15, <1>16, <1>17, <1>18, <1>19, <1>20, <1>21,
       <1>22 DEF Next, UiMsg, UiMsgFlush

\* Threads other than UI never enter ui_msg_flush.
LEMMA PcStep ==
  ASSUME TypeOK, TypeOK', PcInv, [Next]_vars
  PROVE  PcInv'
  <1> USE UiAssumption DEF TypeOK, PcInv, procVars, fmtVars, queueVars, flushVars,
                           At, Alive, Goto, MsgPCs, FlushPCs
  <1>1. ASSUME NEW t \in Threads, MsgAlloc(t)  PROVE PcInv'
    <2>1. /\ count' = [count EXCEPT ![t] = @ + 1]
          /\ pc[t] = "idle" /\ pc' = [pc EXCEPT ![t] = "format"]
          /\ UNCHANGED displayed
      BY <1>1 DEF MsgAlloc
    <2>2. count'[t] >= 1 /\ \A u \in Threads \ {t} : count'[u] = count[u]
      BY <2>1
    <2>3. \A u \in Threads : pc'[u] = IF u = t THEN "format" ELSE pc[u]
      BY <2>1
    <2> QED BY <2>1, <2>2, <2>3
  <1>2. ASSUME NEW t \in Threads, MsgNoMemory(t)  PROVE PcInv'
    BY <1>2 DEF MsgNoMemory
  <1>3. ASSUME NEW t \in Threads, MsgFits(t)  PROVE PcInv'
    BY <1>3 DEF MsgFits
  <1>4. ASSUME NEW t \in Threads, MsgGrow(t)  PROVE PcInv'
    BY <1>4 DEF MsgGrow
  <1>5. ASSUME NEW t \in Threads, MsgLock(t)  PROVE PcInv'
    BY <1>5 DEF MsgLock
  <1>6. ASSUME NEW t \in Threads, InsClear(t)  PROVE PcInv'
    BY <1>6 DEF InsClear
  <1>7. ASSUME NEW t \in Threads, InsLink(t)  PROVE PcInv'
    BY <1>7 DEF InsLink
  <1>8. ASSUME NEW t \in Threads, InsTail(t)  PROVE PcInv'
    BY <1>8 DEF InsTail
  <1>9. ASSUME NEW t \in Threads, MsgUnlock(t)  PROVE PcInv'
    BY <1>9 DEF MsgUnlock
  <1>10. ASSUME NEW t \in Threads, Cancel(t)  PROVE PcInv'
    BY <1>10 DEF Cancel
  <1>11. CASE FlushCheck
    BY <1>11 DEF FlushCheck
  <1>12. CASE FlushLock
    BY <1>12 DEF FlushLock
  <1>13. CASE FlushLoop
    BY <1>13 DEF FlushLoop
  <1>14. CASE FlushDisplay
    BY <1>14 DEF FlushDisplay
  <1>15. CASE FlushRemove
    BY <1>15 DEF FlushRemove
  <1>16. CASE FlushReset
    BY <1>16 DEF FlushReset
  <1>17. CASE FlushFree
    BY <1>17 DEF FlushFree
  <1>18. CASE FlushUnlock
    BY <1>18 DEF FlushUnlock
  <1>19. CASE Quit
    BY <1>19 DEF Quit
  <1>20. CASE Exit
    BY <1>20 DEF Exit
  <1>21. CASE Over \/ UNCHANGED vars
    BY <1>21 DEF Over, vars
  <1>22. ASSUME NEW t \in Threads, MsgAbort(t)  PROVE PcInv'
    BY <1>22 DEF MsgAbort
  <1> QED
    BY <1>1, <1>2, <1>3, <1>4, <1>5, <1>6, <1>7, <1>8, <1>9, <1>10, <1>11,
       <1>12, <1>13, <1>14, <1>15, <1>16, <1>17, <1>18, <1>19, <1>20, <1>21,
       <1>22 DEF Next, UiMsg, UiMsgFlush

\* The owner of the mutex is the thread inside the macros.
LEMMA MutexStep ==
  ASSUME TypeOK, TypeOK', PcInv, MutexInv, [Next]_vars
  PROVE  MutexInv'
  <1> USE UiAssumption DEF TypeOK, PcInv, MutexInv, Exclusive, Critical, procVars, fmtVars, queueVars, flushVars,
                           At, Alive, Goto, MsgPCs, FlushPCs
  <1>1. ASSUME NEW t \in Threads, MsgAlloc(t)  PROVE MutexInv'
    BY <1>1 DEF MsgAlloc
  <1>2. ASSUME NEW t \in Threads, MsgNoMemory(t)  PROVE MutexInv'
    BY <1>2 DEF MsgNoMemory
  <1>3. ASSUME NEW t \in Threads, MsgFits(t)  PROVE MutexInv'
    BY <1>3 DEF MsgFits
  <1>4. ASSUME NEW t \in Threads, MsgGrow(t)  PROVE MutexInv'
    BY <1>4 DEF MsgGrow
  <1>5. ASSUME NEW t \in Threads, MsgLock(t)  PROVE MutexInv'
    BY <1>5 DEF MsgLock
  <1>6. ASSUME NEW t \in Threads, InsClear(t)  PROVE MutexInv'
    BY <1>6 DEF InsClear
  <1>7. ASSUME NEW t \in Threads, InsLink(t)  PROVE MutexInv'
    BY <1>7 DEF InsLink
  <1>8. ASSUME NEW t \in Threads, InsTail(t)  PROVE MutexInv'
    BY <1>8 DEF InsTail
  <1>9. ASSUME NEW t \in Threads, MsgUnlock(t)  PROVE MutexInv'
    BY <1>9 DEF MsgUnlock
  <1>10. ASSUME NEW t \in Threads, Cancel(t)  PROVE MutexInv'
    BY <1>10 DEF Cancel
  <1>11. CASE FlushCheck
    BY <1>11 DEF FlushCheck
  <1>12. CASE FlushLock
    BY <1>12 DEF FlushLock
  <1>13. CASE FlushLoop
    BY <1>13 DEF FlushLoop
  <1>14. CASE FlushDisplay
    BY <1>14 DEF FlushDisplay
  <1>15. CASE FlushRemove
    BY <1>15 DEF FlushRemove
  <1>16. CASE FlushReset
    BY <1>16 DEF FlushReset
  <1>17. CASE FlushFree
    BY <1>17 DEF FlushFree
  <1>18. CASE FlushUnlock
    BY <1>18 DEF FlushUnlock
  <1>19. CASE Quit
    BY <1>19 DEF Quit
  <1>20. CASE Exit
    BY <1>20 DEF Exit
  <1>21. CASE Over \/ UNCHANGED vars
    BY <1>21 DEF Over, vars
  <1>22. ASSUME NEW t \in Threads, MsgAbort(t)  PROVE MutexInv'
    BY <1>22 DEF MsgAbort
  <1> QED
    BY <1>1, <1>2, <1>3, <1>4, <1>5, <1>6, <1>7, <1>8, <1>9, <1>10, <1>11,
       <1>12, <1>13, <1>14, <1>15, <1>16, <1>17, <1>18, <1>19, <1>20, <1>21,
       <1>22 DEF Next, UiMsg, UiMsgFlush

\* A linked message is complete.
LEMMA TextStep ==
  ASSUME TypeOK, TypeOK', PcInv, TextInv, [Next]_vars
  PROVE  TextInv'
  <1> USE UiAssumption DEF TypeOK, PcInv, TextInv, Mine, procVars, fmtVars, queueVars, flushVars,
                           At, Alive, Goto, MsgPCs, FlushPCs
  <1>1. ASSUME NEW t \in Threads, MsgAlloc(t)  PROVE TextInv'
    BY <1>1 DEF MsgAlloc
  <1>2. ASSUME NEW t \in Threads, MsgNoMemory(t)  PROVE TextInv'
    <2>1. /\ pc' = [pc EXCEPT ![t] = "leave"]
          /\ UNCHANGED <<fmtVars, inserted>>
      BY <1>2 DEF MsgNoMemory
    <2> QED BY <2>1
  <1>3. ASSUME NEW t \in Threads, MsgFits(t)  PROVE TextInv'
    BY <1>3 DEF MsgFits
  <1>4. ASSUME NEW t \in Threads, MsgGrow(t)  PROVE TextInv'
    BY <1>4 DEF MsgGrow
  <1>5. ASSUME NEW t \in Threads, MsgLock(t)  PROVE TextInv'
    BY <1>5 DEF MsgLock
  <1>6. ASSUME NEW t \in Threads, InsClear(t)  PROVE TextInv'
    BY <1>6 DEF InsClear
  <1>7. ASSUME NEW t \in Threads, InsLink(t)  PROVE TextInv'
    <2>1. /\ pc[t] = "link" /\ pc' = [pc EXCEPT ![t] = "tail"]
          /\ inserted' = Append(inserted, Mine(t))
          /\ UNCHANGED <<count, whole>>
      BY <1>7 DEF InsLink
    <2>2. \A k \in 1..Len(inserted') : inserted'[k] \in whole'
      <3>1. Mine(t) \in whole
        BY <2>1
      <3>2. \A k \in 1..Len(inserted) : inserted[k] \in whole
        OBVIOUS
      <3>3. /\ Len(inserted') = Len(inserted) + 1
            /\ inserted'[Len(inserted) + 1] = Mine(t)
            /\ \A k \in 1..Len(inserted) : inserted'[k] = inserted[k]
        BY <2>1
      <3>4. whole' = whole /\ Len(inserted) \in Nat
        BY <2>1
      <3> HIDE UiAssumption DEF TypeOK, PcInv, TextInv, Mine
      <3>5. ASSUME NEW k \in 1..Len(inserted')  PROVE k \in 1..Len(inserted) \/ k = Len(inserted) + 1
        BY <3>3, <3>4
      <3> QED BY <3>1, <3>2, <3>3, <3>4, <3>5
    <2> QED BY <2>1, <2>2
  <1>8. ASSUME NEW t \in Threads, InsTail(t)  PROVE TextInv'
    BY <1>8 DEF InsTail
  <1>9. ASSUME NEW t \in Threads, MsgUnlock(t)  PROVE TextInv'
    BY <1>9 DEF MsgUnlock
  <1>10. ASSUME NEW t \in Threads, Cancel(t)  PROVE TextInv'
    BY <1>10 DEF Cancel
  <1>11. CASE FlushCheck
    BY <1>11 DEF FlushCheck
  <1>12. CASE FlushLock
    BY <1>12 DEF FlushLock
  <1>13. CASE FlushLoop
    BY <1>13 DEF FlushLoop
  <1>14. CASE FlushDisplay
    BY <1>14 DEF FlushDisplay
  <1>15. CASE FlushRemove
    BY <1>15 DEF FlushRemove
  <1>16. CASE FlushReset
    BY <1>16 DEF FlushReset
  <1>17. CASE FlushFree
    BY <1>17 DEF FlushFree
  <1>18. CASE FlushUnlock
    BY <1>18 DEF FlushUnlock
  <1>19. CASE Quit
    BY <1>19 DEF Quit
  <1>20. CASE Exit
    BY <1>20 DEF Exit
  <1>21. CASE Over \/ UNCHANGED vars
    BY <1>21 DEF Over, vars
  <1>22. ASSUME NEW t \in Threads, MsgAbort(t)  PROVE TextInv'
    BY <1>22 DEF MsgAbort
  <1> QED
    BY <1>1, <1>2, <1>3, <1>4, <1>5, <1>6, <1>7, <1>8, <1>9, <1>10, <1>11,
       <1>12, <1>13, <1>14, <1>15, <1>16, <1>17, <1>18, <1>19, <1>20, <1>21,
       <1>22 DEF Next, UiMsg, UiMsgFlush

\* A node names its thread and its number.
LEMMA NodeParts ==
  ASSUME NEW m \in Node
  PROVE  m[1] \in Threads /\ m[2] \in Nat /\ m[2] <= MaxMsgs /\ m = <<m[1], m[2]>>
  BY UiAssumption DEF Node

\* The history holds nodes.
LEMMA HistoryParts ==
  ASSUME TypeOK
  PROVE  /\ Len(inserted) \in Nat /\ Len(displayed) \in Nat
         /\ \A k \in 1..Len(inserted) : inserted[k] \in Node
         /\ \A k \in 1..Len(displayed) : displayed[k] \in Node
  BY DEF TypeOK

\* Linked is a natural number for every thread.
LEMMA LinkedType ==
  ASSUME TypeOK
  PROVE  Linked \in [Threads -> Int]
  BY DEF TypeOK, Linked

\* The steps other than InsLink link nothing.
LEMMA LinkedStable ==
  ASSUME TypeOK, TypeOK', PcInv, [Next]_vars,
         \A t \in Threads : ~InsLink(t)
  PROVE  Linked' = Linked
  <1> USE UiAssumption DEF TypeOK, PcInv, Linked, procVars, fmtVars, queueVars,
                           flushVars, At, Alive, Goto, MsgPCs, FlushPCs
  <1>1. ASSUME NEW t \in Threads, MsgAlloc(t)  PROVE Linked' = Linked
    <2>1. /\ count' = [count EXCEPT ![t] = @ + 1]
          /\ pc[t] = "idle" /\ pc' = [pc EXCEPT ![t] = "format"]
      BY <1>1 DEF MsgAlloc
    <2>2. count[t] \in Nat /\ count'[t] = count[t] + 1 /\ pc'[t] = "format"
      BY <2>1
    <2>3. \A u \in Threads \ {t} : count'[u] = count[u] /\ pc'[u] = pc[u]
      BY <2>1
    <2>4. Linked[t] = count[t] /\ Linked'[t] = count'[t] - 1
      BY <2>1, <2>2
    <2>5. ASSUME NEW u \in Threads  PROVE Linked'[u] = Linked[u]
      <3>1. CASE u = t
        <4> HIDE DEF Linked, TypeOK
        <4>1. count'[t] - 1 = count[t]
          BY <2>2
        <4> QED BY <2>4, <3>1, <4>1
      <3>2. CASE u # t
        BY <2>3, <3>2
      <3> QED BY <3>1, <3>2
    <2> QED BY <2>5
  <1>2. ASSUME NEW t \in Threads, MsgNoMemory(t)  PROVE Linked' = Linked
    BY <1>2 DEF MsgNoMemory
  <1>3. ASSUME NEW t \in Threads, MsgFits(t)  PROVE Linked' = Linked
    BY <1>3 DEF MsgFits
  <1>4. ASSUME NEW t \in Threads, MsgGrow(t)  PROVE Linked' = Linked
    BY <1>4 DEF MsgGrow
  <1>5. ASSUME NEW t \in Threads, MsgLock(t)  PROVE Linked' = Linked
    BY <1>5 DEF MsgLock
  <1>6. ASSUME NEW t \in Threads, InsClear(t)  PROVE Linked' = Linked
    BY <1>6 DEF InsClear
  <1>8. ASSUME NEW t \in Threads, InsTail(t)  PROVE Linked' = Linked
    BY <1>8 DEF InsTail
  <1>9. ASSUME NEW t \in Threads, MsgUnlock(t)  PROVE Linked' = Linked
    BY <1>9 DEF MsgUnlock
  <1>10. ASSUME NEW t \in Threads, Cancel(t)  PROVE Linked' = Linked
    BY <1>10 DEF Cancel
  <1>11. CASE FlushCheck
    BY <1>11 DEF FlushCheck
  <1>12. CASE FlushLock
    BY <1>12 DEF FlushLock
  <1>13. CASE FlushLoop
    BY <1>13 DEF FlushLoop
  <1>14. CASE FlushDisplay
    BY <1>14 DEF FlushDisplay
  <1>15. CASE FlushRemove
    BY <1>15 DEF FlushRemove
  <1>16. CASE FlushReset
    BY <1>16 DEF FlushReset
  <1>17. CASE FlushFree
    BY <1>17 DEF FlushFree
  <1>18. CASE FlushUnlock
    BY <1>18 DEF FlushUnlock
  <1>19. CASE Quit
    BY <1>19 DEF Quit
  <1>20. CASE Exit
    BY <1>20 DEF Exit
  <1>21. CASE Over \/ UNCHANGED vars
    BY <1>21 DEF Over, vars
  <1>22. ASSUME NEW t \in Threads, MsgAbort(t)  PROVE Linked' = Linked
    BY <1>22 DEF MsgAbort
  <1> QED
    BY <1>1, <1>2, <1>3, <1>4, <1>5, <1>6, <1>8, <1>9, <1>10, <1>11,
       <1>12, <1>13, <1>14, <1>15, <1>16, <1>17, <1>18, <1>19, <1>20, <1>21,
       <1>22 DEF Next, UiMsg, UiMsgFlush

\* What InsLink does to the history.
LEMMA LinkFacts ==
  ASSUME TypeOK, PcInv, HistoryInv, NEW t \in Threads, InsLink(t)
  PROVE  /\ Mine(t) \in Node
         /\ Mine(t)[1] = t /\ Mine(t)[2] = count[t]
         /\ Len(inserted') = Len(inserted) + 1
         /\ \A k \in 1..Len(inserted) : inserted'[k] = inserted[k]
         /\ inserted'[Len(inserted) + 1] = Mine(t)
         /\ \A k \in 1..Len(inserted) : inserted[k] # Mine(t)
         /\ Linked[t] = count[t] - 1
         /\ Linked' = [Linked EXCEPT ![t] = count[t]]
  <1>1. pc[t] = "link" /\ count[t] >= 1 /\ count[t] \in Nat
    BY DEF InsLink, At, PcInv, MsgPCs, TypeOK
  <1>2. Mine(t) \in Node
    BY <1>1, MineIsNode
  <1>3. Mine(t)[1] = t /\ Mine(t)[2] = count[t]
    BY DEF Mine
  <1>4. inserted' = Append(inserted, Mine(t)) /\ inserted \in Seq(Node)
    BY DEF InsLink, TypeOK
  <1>5. /\ Len(inserted') = Len(inserted) + 1
        /\ \A k \in 1..Len(inserted) : inserted'[k] = inserted[k]
        /\ inserted'[Len(inserted) + 1] = Mine(t)
    BY <1>2, <1>4
  <1>6. Linked[t] = count[t] - 1
    BY <1>1 DEF Linked
  <1>7. \A k \in 1..Len(inserted) : inserted[k] # Mine(t)
    BY <1>1, <1>3, <1>6 DEF HistoryInv
  <1>8. pc' = [pc EXCEPT ![t] = "tail"] /\ count' = count
    BY DEF InsLink, Goto, fmtVars
  <1>9. Linked' = [Linked EXCEPT ![t] = count[t]]
    BY <1>8 DEF Linked, TypeOK
  <1> QED BY <1>2, <1>3, <1>5, <1>6, <1>7, <1>9

\* The displayed messages are a prefix of the linked ones, and a thread's
\* messages are linked in order and without gaps.
LEMMA HistoryStep ==
  ASSUME TypeOK, TypeOK', PcInv, LocalInv, HistoryInv, [Next]_vars
  PROVE  HistoryInv'
  <1>a. /\ Len(inserted) \in Nat /\ Len(displayed) \in Nat
        /\ \A k \in 1..Len(inserted) : inserted[k] \in Node
    BY HistoryParts
  <1>1. ASSUME NEW t \in Threads, InsLink(t)  PROVE HistoryInv'
    <2>1. displayed' = displayed /\ count[t] \in Nat
      BY <1>1 DEF InsLink, flushVars, TypeOK
    <2>2. /\ Len(displayed') <= Len(inserted')
          /\ \A k \in 1..Len(displayed') : displayed'[k] = inserted'[k]
      BY <1>1, <1>a, <2>1, LinkFacts DEF HistoryInv
    <2>3. \A j, k \in 1..Len(inserted') : inserted'[j] = inserted'[k] => j = k
      BY <1>1, <1>a, LinkFacts DEF HistoryInv
    <2>4. ASSUME NEW k \in 1..Len(inserted')
          PROVE  inserted'[k][2] <= Linked'[inserted'[k][1]]
      <3>1. CASE k = Len(inserted) + 1
        BY <1>1, <1>a, <2>1, <3>1, LinkFacts, LinkedType
      <3>2. CASE k # Len(inserted) + 1
        <4>1. k \in 1..Len(inserted) /\ inserted'[k] = inserted[k]
          BY <1>1, <1>a, <3>2, LinkFacts
        <4>2. inserted[k][1] \in Threads /\ inserted[k][2] \in Nat
          BY <1>a, <4>1, NodeParts
        <4>3. inserted[k][2] <= Linked[inserted[k][1]]
          BY <4>1 DEF HistoryInv
        <4>4. Linked[inserted[k][1]] \in Int /\ Linked[t] \in Int
          BY <4>2, LinkedType
        <4>5. CASE inserted[k][1] = t
          BY <1>1, <2>1, <4>1, <4>2, <4>3, <4>5, LinkFacts, LinkedType
        <4>6. CASE inserted[k][1] # t
          BY <1>1, <4>1, <4>2, <4>3, <4>6, LinkFacts, LinkedType
        <4> QED BY <4>5, <4>6
      <3> QED BY <3>1, <3>2
    <2>5. ASSUME NEW m \in Node, m[2] <= Linked'[m[1]]
          PROVE  \E k \in 1..Len(inserted') : inserted'[k] = m
      <3>1. CASE m = Mine(t)
        BY <1>1, <1>a, <3>1, LinkFacts
      <3>2. CASE m # Mine(t)
        <4>1. m[1] = t => m[2] # count[t]
          BY <3>2, NodeParts DEF Mine
        <4>2. m[2] <= Linked[m[1]]
          BY <1>1, <2>1, <2>5, <4>1, LinkFacts, NodeParts, LinkedType
        <4>3. \E k \in 1..Len(inserted) : inserted[k] = m
          BY <4>2 DEF HistoryInv
        <4> QED BY <1>1, <1>a, <4>3, LinkFacts
      <3> QED BY <3>1, <3>2
    <2> QED BY <2>2, <2>3, <2>4, <2>5 DEF HistoryInv
  <1>2. CASE FlushDisplay
    <2>1. /\ Len(displayed) < Len(inserted) /\ msg = inserted[Len(displayed) + 1]
          /\ inserted' = inserted /\ displayed' = Append(displayed, msg)
          /\ displayed \in Seq(Node)
      BY <1>2 DEF FlushDisplay, At, queueVars, TypeOK, LocalInv
    <2>2. Linked' = Linked
      BY <1>2, LinkedStable DEF FlushDisplay, InsLink, At, flushVars, TypeOK, Linked, Goto, fmtVars
    <2>3. /\ Len(displayed') <= Len(inserted)
          /\ \A k \in 1..Len(displayed') : displayed'[k] = inserted[k]
      BY <1>a, <2>1 DEF HistoryInv
    <2> QED BY <2>1, <2>2, <2>3 DEF HistoryInv
  <1>3. CASE ~FlushDisplay /\ \A t \in Threads : ~InsLink(t)
    <2>1. Linked' = Linked
      BY <1>3, LinkedStable
    <2>2. inserted' = inserted /\ displayed' = displayed
      BY <1>3 DEF Next, UiMsg, UiMsgFlush, vars, queueVars, flushVars, MsgAlloc,
         MsgNoMemory, MsgFits, MsgGrow, MsgLock, InsClear, InsTail, MsgUnlock,
         MsgAbort, Cancel, FlushCheck, FlushLock, FlushLoop, FlushRemove, FlushReset,
         FlushFree, FlushUnlock, Quit, Exit, Over
    <2> QED BY <2>1, <2>2 DEF HistoryInv
  <1> QED BY <1>1, <1>2, <1>3

\* The steps of the other functions, and of ui_msg by UI itself, leave the
\* locals of ui_msg_flush alone.
LEMMA LocalStable ==
  ASSUME TypeOK, HistoryInv, PcInv, LocalInv, msg' = msg, freed' = freed, displayed' = displayed,
         inserted' = inserted \/ \E t \in Threads : InsLink(t),
         \/ pc'[UI] = pc[UI]
         \/ /\ pc[UI] \notin {"display", "remove", "reset", "free"}
            /\ pc'[UI] \notin {"display", "remove", "reset", "free"}
  PROVE  LocalInv'
  <1>1. /\ Len(inserted) \in Nat /\ Len(displayed) \in Nat
        /\ Len(displayed) <= Len(inserted)
        /\ Len(inserted') >= Len(inserted) /\ Len(inserted') \in Nat
        /\ \A k \in 1..Len(inserted) : inserted'[k] = inserted[k]
    BY HistoryParts, LinkFacts DEF HistoryInv
  <1>2. Freed' = Freed /\ Freed \in Int /\ Freed <= Len(inserted)
    BY <1>1 DEF Freed
  <1>3. {inserted'[k] : k \in 1..Freed} = {inserted[k] : k \in 1..Freed}
    BY <1>1, <1>2
  <1> QED BY <1>1, <1>2, <1>3 DEF LocalInv, PcInv

\* Every step keeps ui_msg_flush's msg, and the freed nodes, at their place in the history.
LEMMA LocalStep ==
  ASSUME TypeOK, TypeOK', PcInv, MutexInv, HistoryInv, LocalInv, ChainInv, [Next]_vars
  PROVE  LocalInv'
  <1> USE UiAssumption DEF procVars, fmtVars, queueVars, flushVars, At, Alive, Goto
  <1>a. /\ Len(inserted) \in Nat /\ Len(displayed) \in Nat
        /\ Len(displayed) <= Len(inserted)
        /\ \A k \in 1..Len(inserted) : inserted[k] \in Node
    BY HistoryParts DEF HistoryInv
  <1>b. pc \in [Threads -> {"idle", "leave", "exit"} \cup MsgPCs \cup FlushPCs]
    BY DEF TypeOK
  <1>1. ASSUME NEW t \in Threads, MsgAlloc(t)  PROVE LocalInv'
    BY <1>1, <1>b, LocalStable DEF MsgAlloc
  <1>2. ASSUME NEW t \in Threads, MsgNoMemory(t)  PROVE LocalInv'
    BY <1>2, <1>b, LocalStable DEF MsgNoMemory
  <1>3. ASSUME NEW t \in Threads, MsgFits(t)  PROVE LocalInv'
    BY <1>3, <1>b, LocalStable DEF MsgFits
  <1>4. ASSUME NEW t \in Threads, MsgGrow(t)  PROVE LocalInv'
    BY <1>4, <1>b, LocalStable DEF MsgGrow
  <1>5. ASSUME NEW t \in Threads, MsgLock(t)  PROVE LocalInv'
    BY <1>5, <1>b, LocalStable DEF MsgLock
  <1>6. ASSUME NEW t \in Threads, InsClear(t)  PROVE LocalInv'
    BY <1>6, <1>b, LocalStable DEF InsClear
  <1>7. ASSUME NEW t \in Threads, InsLink(t)  PROVE LocalInv'
    <2>1. /\ msg' = msg /\ freed' = freed /\ displayed' = displayed
          /\ pc[t] = "link" /\ pc' = [pc EXCEPT ![t] = "tail"]
      BY <1>7 DEF InsLink
    <2> QED BY <1>7, <1>b, <2>1, LocalStable
  <1>8. ASSUME NEW t \in Threads, InsTail(t)  PROVE LocalInv'
    BY <1>8, <1>b, LocalStable DEF InsTail
  <1>9. ASSUME NEW t \in Threads, MsgUnlock(t)  PROVE LocalInv'
    BY <1>9, <1>b, LocalStable DEF MsgUnlock
  <1>10. ASSUME NEW t \in Threads, Cancel(t)  PROVE LocalInv'
    BY <1>10, <1>b, LocalStable DEF Cancel
  <1>11. CASE FlushCheck
    BY <1>11, <1>b, LocalStable DEF FlushCheck
  <1>12. CASE FlushLock
    BY <1>12, <1>b, LocalStable DEF FlushLock
  <1>13. CASE FlushLoop
    <2>1. /\ pc[UI] = "loop" /\ msg' = next[QHead]
          /\ pc'[UI] = IF msg' = NULL THEN "funlock" ELSE "display"
          /\ inserted' = inserted /\ displayed' = displayed /\ freed' = freed
      BY <1>13, <1>b DEF FlushLoop
    <2>2. Removed = Len(displayed) /\ Freed = Len(displayed) /\ Freed' = Freed
      BY <2>1 DEF Removed, Freed
    <2>3. freed' = {inserted'[k] : k \in 1..Freed'}
      BY <2>1, <2>2 DEF LocalInv
    <2>4. CASE Len(displayed) = Len(inserted)
      <3>1. next[QHead] = NULL
        BY <2>2, <2>4 DEF ChainInv, Cell
      <3> QED BY <2>1, <2>3, <3>1 DEF LocalInv
    <2>5. CASE Len(displayed) < Len(inserted)
      <3>1. next[QHead] = inserted[Len(displayed) + 1]
        BY <1>a, <2>2, <2>5 DEF ChainInv, Cell
      <3>2. msg' # NULL
        BY <1>a, <2>1, <2>5, <3>1
      <3> QED BY <2>1, <2>3, <2>5, <3>1, <3>2 DEF LocalInv
    <2> QED BY <1>a, <2>4, <2>5
  <1>14. CASE FlushDisplay
    <2>1. /\ pc[UI] = "display" /\ pc'[UI] = "remove"
          /\ inserted' = inserted /\ freed' = freed /\ msg' = msg
          /\ Len(displayed') = Len(displayed) + 1
      BY <1>14, <1>b DEF FlushDisplay, LocalInv, TypeOK
    <2>2. Freed = Len(displayed) /\ Freed' = Freed
      BY <1>a, <2>1 DEF Freed
    <2> QED BY <2>1, <2>2 DEF LocalInv
  <1>15. CASE FlushRemove
    <2>1. /\ pc[UI] = "remove" /\ pc'[UI] \in {"reset", "free"}
          /\ UNCHANGED <<inserted, freed, msg, displayed>>
      BY <1>15, <1>b DEF FlushRemove
    <2>2. Freed' = Freed
      BY <2>1 DEF Freed
    <2> QED BY <2>1, <2>2 DEF LocalInv
  <1>16. CASE FlushReset
    <2>1. /\ pc[UI] = "reset" /\ pc'[UI] = "free"
          /\ UNCHANGED <<inserted, freed, msg, displayed>>
      BY <1>16, <1>b DEF FlushReset
    <2>2. Freed' = Freed
      BY <2>1 DEF Freed
    <2> QED BY <2>1, <2>2 DEF LocalInv
  <1>17. CASE FlushFree
    <2>1. /\ pc[UI] = "free" /\ pc'[UI] \in {"funlock", "loop"}
          /\ UNCHANGED <<inserted, displayed>>
          /\ msg' = NULL /\ freed' = freed \cup {msg}
      BY <1>17, <1>b DEF FlushFree
    <2>2. Freed = Len(displayed) - 1 /\ Freed' = Len(displayed) /\ Len(displayed) >= 1
      BY <2>1 DEF Freed, PcInv
    <2>3. msg = inserted[Len(displayed)] /\ freed = {inserted[k] : k \in 1..Freed}
      BY <2>1 DEF LocalInv
    <2>4. freed' = {inserted'[k] : k \in 1..Freed'}
      BY <1>a, <2>1, <2>2, <2>3
    <2> QED BY <2>1, <2>4 DEF LocalInv
  <1>18. CASE FlushUnlock
    BY <1>18, <1>b, LocalStable DEF FlushUnlock
  <1>19. CASE Quit
    BY <1>19, <1>b, LocalStable DEF Quit
  <1>20. CASE Exit
    BY <1>20, <1>b, LocalStable DEF Exit
  <1>21. CASE Over \/ UNCHANGED vars
    BY <1>21, <1>b, LocalStable DEF Over, vars
  <1>22. ASSUME NEW t \in Threads, MsgAbort(t)  PROVE LocalInv'
    BY <1>22, <1>b, LocalStable DEF MsgAbort
  <1> QED
    BY <1>1, <1>2, <1>3, <1>4, <1>5, <1>6, <1>7, <1>8, <1>9, <1>10, <1>11,
       <1>12, <1>13, <1>14, <1>15, <1>16, <1>17, <1>18, <1>19, <1>20, <1>21,
       <1>22 DEF Next, UiMsg, UiMsgFlush

\* The cells of the list are distinct, and none is a node not linked yet.
LEMMA CellFacts ==
  ASSUME TypeOK, PcInv, HistoryInv
  PROVE  /\ Removed \in Nat /\ Removed <= Len(inserted)
         /\ \A k \in Removed..Len(inserted) : Cell(k) \in Node \cup {QHead}
         /\ \A j, k \in Removed..Len(inserted) : Cell(j) = Cell(k) => j = k
         /\ \A m \in Node : \/ \E k \in 1..Len(inserted) : inserted[k] = m
                            \/ \A k \in Removed..Len(inserted) : Cell(k) # m
  <1>1. /\ Len(inserted) \in Nat /\ Len(displayed) \in Nat
        /\ Len(displayed) <= Len(inserted)
        /\ \A k \in 1..Len(inserted) : inserted[k] \in Node
        /\ \A j, k \in 1..Len(inserted) : inserted[j] = inserted[k] => j = k
    BY HistoryParts DEF HistoryInv
  <1>2. Removed \in Nat /\ Removed <= Len(inserted)
    BY <1>1 DEF Removed, PcInv
  <1>3. QHead \notin Node
    BY UiAssumption
  <1>4. \A k \in Removed..Len(inserted) :
          (k = Removed /\ Cell(k) = QHead)
            \/ (k \in 1..Len(inserted) /\ k # Removed /\ Cell(k) = inserted[k])
    BY <1>1, <1>2 DEF Cell
  <1> QED BY <1>1, <1>2, <1>3, <1>4

\* A step that writes neither the list nor the fields of a thread inside the
\* macros keeps the chain.
LEMMA ChainStable ==
  ASSUME ChainInv, UNCHANGED <<next, last, inserted>>, Removed' = Removed,
         \A t \in Threads : pc'[t] = "link" => pc[t] = "link" /\ count'[t] = count[t],
         \A t \in Threads : pc'[t] = "tail" <=> pc[t] = "tail",
         \A t \in Threads : pc[t] = "tail" => count'[t] = count[t],
         pc'[UI] = "reset" <=> pc[UI] = "reset",
         pc[UI] = "reset" => displayed' = displayed
  PROVE  ChainInv'
  BY DEF ChainInv, Cell, Mine

\* No other thread is inside the macros.
LEMMA Alone ==
  ASSUME MutexInv, NEW t \in Critical, NEW u \in Threads \ {t}
  PROVE  u \notin Critical
  BY DEF MutexInv, Exclusive

\* Every step keeps the list of ui_msg and ui_msg_flush well linked.
LEMMA ChainStep ==
  ASSUME TypeOK, TypeOK', PcInv, MutexInv, HistoryInv, LocalInv, ChainInv, [Next]_vars
  PROVE  ChainInv'
  <1> USE UiAssumption DEF procVars, fmtVars, queueVars, flushVars, At, Alive, Goto
  <1>a. /\ Len(inserted) \in Nat /\ Len(displayed) \in Nat
        /\ Len(displayed) <= Len(inserted)
        /\ \A k \in 1..Len(inserted) : inserted[k] \in Node
    BY HistoryParts DEF HistoryInv
  <1>b. pc \in [Threads -> {"idle", "leave", "exit"} \cup MsgPCs \cup FlushPCs]
    BY DEF TypeOK
  <1>c. next \in [Node \cup {QHead} -> Node \cup {NULL}] /\ count \in [Threads -> 0..MaxMsgs]
    BY DEF TypeOK
  <1>1. ASSUME NEW t \in Threads, MsgAlloc(t)  PROVE ChainInv'
    BY <1>1, <1>b, <1>c, ChainStable DEF MsgAlloc, Removed
  <1>2. ASSUME NEW t \in Threads, MsgNoMemory(t)  PROVE ChainInv'
    BY <1>2, <1>b, ChainStable DEF MsgNoMemory, Removed
  <1>3. ASSUME NEW t \in Threads, MsgFits(t)  PROVE ChainInv'
    BY <1>3, <1>b, ChainStable DEF MsgFits, Removed
  <1>4. ASSUME NEW t \in Threads, MsgGrow(t)  PROVE ChainInv'
    BY <1>4, <1>b, ChainStable DEF MsgGrow, Removed
  <1>5. ASSUME NEW t \in Threads, MsgLock(t)  PROVE ChainInv'
    BY <1>5, <1>b, ChainStable DEF MsgLock, Removed
  <1>6. ASSUME NEW t \in Threads, InsClear(t)  PROVE ChainInv'
    <2>1. /\ pc[t] = "clear" /\ pc' = [pc EXCEPT ![t] = "link"]
          /\ next' = [next EXCEPT ![Mine(t)] = NULL]
          /\ UNCHANGED <<last, inserted, displayed, count>>
      BY <1>6 DEF InsClear
    <2>2. t \in Critical /\ count[t] >= 1
      BY <2>1 DEF Critical, PcInv, MsgPCs
    <2>3. \A u \in Threads \ {t} : pc[u] \notin {"link", "tail", "remove", "reset"}
      BY <2>2, Alone DEF Critical, FlushPCs
    <2>4. pc[UI] \notin {"remove", "reset"} /\ pc'[UI] \notin {"remove", "reset"}
      BY <1>b, <2>1, <2>3
    <2>5. Removed' = Removed
      BY <2>1, <2>4 DEF Removed
    <2>6. Mine(t) \in Node /\ \A k \in 1..Len(inserted) : inserted[k] # Mine(t)
      <3>1. Mine(t) \in Node /\ Mine(t)[1] = t /\ Mine(t)[2] = count[t]
        BY <2>2, MineIsNode DEF Mine
      <3>2. Linked[t] = count[t] - 1 /\ count[t] \in Nat
        BY <1>c, <2>1 DEF Linked
      <3> QED BY <3>1, <3>2 DEF HistoryInv
    <2>7. \A k \in Removed..Len(inserted) : next'[Cell(k)] = next[Cell(k)]
      BY <1>c, <2>1, <2>6, CellFacts
    <2>8. \A k : Cell(k)' = Cell(k)
      BY <2>1, <2>5 DEF Cell
    <2>9. next'[Mine(t)] = NULL
      BY <1>c, <2>1, <2>6
    <2>10. \A u \in Threads : pc'[u] # "tail" /\ pc[u] # "tail"
      BY <1>b, <2>1, <2>3
    <2>11. \A u \in Threads : pc'[u] = "link" => next'[Mine(u)'] = NULL
      BY <1>b, <2>1, <2>3, <2>9 DEF Mine
    <2>12. \A k \in Removed..(Len(inserted) - 1) : next'[Cell(k)] = inserted[k + 1]
      BY <1>a, <2>7, CellFacts DEF ChainInv
    <2>13. next'[Cell(Len(inserted))] = NULL /\ last = Cell(Len(inserted))
      BY <1>a, <2>4, <2>7, <2>10, CellFacts DEF ChainInv
    <2> QED BY <2>1, <2>4, <2>5, <2>8, <2>10, <2>11, <2>12, <2>13 DEF ChainInv
  <1>7. ASSUME NEW t \in Threads, InsLink(t)  PROVE ChainInv'
    <2>1. /\ pc[t] = "link" /\ pc' = [pc EXCEPT ![t] = "tail"]
          /\ next' = [next EXCEPT ![last] = Mine(t)]
          /\ UNCHANGED <<last, displayed, count>>
      BY <1>7 DEF InsLink
    <2>2. t \in Critical
      BY <2>1 DEF Critical
    <2>3. \A u \in Threads \ {t} : pc[u] \notin {"link", "tail", "remove", "reset"}
      BY <2>2, Alone DEF Critical, FlushPCs
    <2>4. pc[UI] \notin {"remove", "reset"} /\ pc'[UI] \notin {"remove", "reset"}
      BY <1>b, <2>1, <2>3
    <2>5. Removed = Len(displayed) /\ Removed' = Removed
      BY <2>1, <2>4 DEF Removed
    <2>6. /\ Len(inserted') = Len(inserted) + 1
          /\ \A k \in 1..Len(inserted) : inserted'[k] = inserted[k]
          /\ inserted'[Len(inserted) + 1] = Mine(t)
          /\ Mine(t) \in Node
          /\ \A k \in 1..Len(inserted) : inserted[k] # Mine(t)
      BY <1>7, LinkFacts
    <2>7. last = Cell(Len(inserted))
      BY <1>b, <2>1, <2>3, <2>4 DEF ChainInv
    <2>8. \A k \in Removed..Len(inserted) : Cell(k)' = Cell(k)
      BY <1>a, <2>5, <2>6 DEF Cell
    <2>9. Cell(Len(inserted))' = Mine(t)
      BY <1>a, <2>5, <2>6 DEF Cell
    <2>10. \A k \in Removed..(Len(inserted) - 1) : next'[Cell(k)] = inserted[k + 1]
      BY <1>a, <1>c, <2>1, <2>7, CellFacts DEF ChainInv
    <2>11. next'[Cell(Len(inserted))] = Mine(t)
      BY <1>a, <1>c, <2>1, <2>7, CellFacts
    <2>12. next'[Mine(t)] = NULL
      BY <1>a, <1>c, <2>1, <2>6, <2>7, CellFacts DEF ChainInv
    <2>13. ASSUME NEW k \in Removed'..(Len(inserted') - 1)
           PROVE  next'[Cell(k)'] = inserted'[k + 1]
      <3>1. CASE k < Len(inserted)
        BY <1>a, <2>5, <2>6, <2>8, <2>10, <3>1, CellFacts
      <3>2. CASE k = Len(inserted)
        BY <1>a, <2>5, <2>6, <2>8, <2>11, <3>2, CellFacts
      <3> QED BY <1>a, <2>5, <2>6, <3>1, <3>2, CellFacts
    <2>14. next'[Cell(Len(inserted))'] = NULL
      BY <2>6, <2>9, <2>12
    <2>15. \A u \in Threads : pc'[u] # "link" /\ (pc'[u] = "tail" => u = t)
      BY <1>b, <2>1, <2>3
    <2>16. Mine(t)' = Mine(t)
      BY <2>1 DEF Mine
    <2>17. last' = Cell(Len(inserted) - 1)'
      BY <1>a, <2>1, <2>5, <2>6, <2>7 DEF Cell
    <2>18. Len(inserted') > Removed' /\ inserted'[Len(inserted')] = Mine(t)'
      BY <1>a, <2>5, <2>6, <2>16
    <2>19. pc'[t] = "tail"
      BY <1>b, <2>1
    <2> QED BY <2>4, <2>13, <2>14, <2>15, <2>17, <2>18, <2>19 DEF ChainInv
  <1>8. ASSUME NEW t \in Threads, InsTail(t)  PROVE ChainInv'
    <2>1. /\ pc[t] = "tail" /\ pc' = [pc EXCEPT ![t] = "unlock"]
          /\ last' = Mine(t)
          /\ UNCHANGED <<next, inserted, displayed, count>>
      BY <1>8 DEF InsTail
    <2>2. t \in Critical
      BY <2>1 DEF Critical
    <2>3. \A u \in Threads \ {t} : pc[u] \notin {"link", "tail", "remove", "reset"}
      BY <2>2, Alone DEF Critical, FlushPCs
    <2>4. pc[UI] \notin {"remove", "reset"} /\ pc'[UI] \notin {"remove", "reset"}
      BY <1>b, <2>1, <2>3
    <2>5. Removed' = Removed
      BY <2>1, <2>4 DEF Removed
    <2>6. \A k : Cell(k)' = Cell(k)
      BY <2>1, <2>5 DEF Cell
    <2>7. last' = Cell(Len(inserted))
      BY <1>a, <2>1, CellFacts DEF ChainInv, Cell
    <2>8. \A u \in Threads : pc'[u] \notin {"link", "tail"}
      BY <1>b, <2>1, <2>3
    <2> QED BY <2>1, <2>4, <2>5, <2>6, <2>7, <2>8 DEF ChainInv
  <1>9. ASSUME NEW t \in Threads, MsgUnlock(t)  PROVE ChainInv'
    BY <1>9, <1>b, ChainStable DEF MsgUnlock, Removed
  <1>10. ASSUME NEW t \in Threads, Cancel(t)  PROVE ChainInv'
    BY <1>10, <1>b, ChainStable DEF Cancel, Removed
  <1>11. CASE FlushCheck
    BY <1>11, <1>b, ChainStable DEF FlushCheck, Removed
  <1>12. CASE FlushLock
    BY <1>12, <1>b, ChainStable DEF FlushLock, Removed
  <1>13. CASE FlushLoop
    BY <1>13, <1>b, ChainStable DEF FlushLoop, Removed
  <1>14. CASE FlushDisplay
    <2>1. /\ pc[UI] = "display" /\ pc' = [pc EXCEPT ![UI] = "remove"]
          /\ Len(displayed') = Len(displayed) + 1
          /\ UNCHANGED <<next, last, inserted, count>>
      BY <1>14 DEF FlushDisplay, LocalInv, TypeOK
    <2>2. Removed' = Removed
      BY <1>a, <1>b, <2>1 DEF Removed
    <2> QED BY <1>b, <2>1, <2>2, ChainStable
  <1>15. CASE FlushRemove
    <2>1. /\ pc[UI] = "remove" /\ UI \in Threads
          /\ pc' = [pc EXCEPT ![UI] = IF next'[QHead] = NULL THEN "reset" ELSE "free"]
          /\ next' = [next EXCEPT ![QHead] = next[msg]]
          /\ UNCHANGED <<last, inserted, displayed, count>>
      BY <1>15 DEF FlushRemove
    <2>2. UI \in Critical
      BY <2>1 DEF Critical, FlushPCs
    <2>3. \A u \in Threads \ {UI} : pc[u] \notin {"link", "tail"}
      BY <2>2, Alone DEF Critical
    <2>4. \A u \in Threads : pc[u] \notin {"link", "tail"} /\ pc'[u] \notin {"link", "tail"}
      BY <1>b, <2>1, <2>3
    <2>5. pc'[UI] \in {"reset", "free"} /\ (pc'[UI] = "reset" <=> next'[QHead] = NULL)
      BY <1>b, <2>1
    <2>6. Removed = Len(displayed) - 1 /\ Len(displayed) >= 1 /\ Removed' = Len(displayed)
      BY <1>a, <2>1, <2>5 DEF Removed, PcInv
    <2>7. msg = Cell(Len(displayed)) /\ last = Cell(Len(inserted))
      BY <1>a, <2>1, <2>4, <2>6 DEF LocalInv, Cell, ChainInv
    <2>8. Cell(Len(displayed))' = QHead
      BY <2>1, <2>6 DEF Cell
    <2>9. \A k \in (Len(displayed) + 1)..Len(inserted) :
            Cell(k)' = Cell(k) /\ next'[Cell(k)] = next[Cell(k)]
      BY <1>a, <1>c, <2>1, <2>6 DEF Cell
    <2>10. next'[QHead] = next[Cell(Len(displayed))]
      BY <1>c, <2>1, <2>7
    <2>11. CASE Len(displayed) = Len(inserted)
      <3>1. next'[QHead] = NULL
        BY <2>10, <2>11 DEF ChainInv
      <3>2. last' = inserted'[Len(inserted')]
        BY <1>a, <2>1, <2>6, <2>7, <2>11 DEF Cell
      <3> QED BY <1>a, <2>1, <2>4, <2>5, <2>6, <2>8, <2>11, <3>1, <3>2 DEF ChainInv
    <2>12. CASE Len(displayed) < Len(inserted)
      <3>1. next'[QHead] = inserted[Len(displayed) + 1]
        BY <1>a, <2>6, <2>10, <2>12 DEF ChainInv
      <3>2. pc'[UI] = "free"
        BY <1>a, <2>5, <2>12, <3>1
      <3>3. ASSUME NEW k \in Removed'..(Len(inserted') - 1)
            PROVE  next'[Cell(k)'] = inserted'[k + 1]
        <4>1. CASE k = Len(displayed)
          BY <2>1, <2>8, <3>1, <4>1
        <4>2. CASE k # Len(displayed)
          BY <1>a, <2>1, <2>6, <2>9, <4>2 DEF ChainInv
        <4> QED BY <4>1, <4>2
      <3>4. next'[Cell(Len(inserted))'] = NULL /\ last' = Cell(Len(inserted))'
        BY <1>a, <2>1, <2>7, <2>9, <2>12 DEF ChainInv
      <3> QED BY <2>1, <2>4, <3>2, <3>3, <3>4 DEF ChainInv
    <2> QED BY <1>a, <2>11, <2>12
  <1>16. CASE FlushReset
    <2>1. /\ pc[UI] = "reset" /\ UI \in Threads
          /\ pc' = [pc EXCEPT ![UI] = "free"]
          /\ last' = QHead
          /\ UNCHANGED <<next, inserted, displayed, count>>
      BY <1>16 DEF FlushReset
    <2>2. UI \in Critical
      BY <2>1 DEF Critical, FlushPCs
    <2>3. \A u \in Threads \ {UI} : pc[u] \notin {"link", "tail"}
      BY <2>2, Alone DEF Critical
    <2>4. pc'[UI] = "free" /\ \A u \in Threads : pc'[u] \notin {"link", "tail"}
      BY <1>b, <2>1, <2>3
    <2>5. Removed = Len(inserted) /\ Removed' = Removed
      BY <2>1, <2>4 DEF Removed, ChainInv
    <2>6. \A k : Cell(k)' = Cell(k)
      BY <2>1, <2>5 DEF Cell
    <2>7. last' = Cell(Len(inserted))
      BY <2>1, <2>5 DEF Cell
    <2> QED BY <2>1, <2>4, <2>5, <2>6, <2>7 DEF ChainInv
  <1>17. CASE FlushFree
    BY <1>17, <1>b, ChainStable DEF FlushFree, Removed
  <1>18. CASE FlushUnlock
    BY <1>18, <1>b, ChainStable DEF FlushUnlock, Removed
  <1>19. CASE Quit
    BY <1>19, <1>b, ChainStable DEF Quit, Removed
  <1>20. CASE Exit
    BY <1>20, <1>b, ChainStable DEF Exit, Removed
  <1>21. CASE Over \/ UNCHANGED vars
    BY <1>21, <1>b, ChainStable DEF Over, vars, Removed
  <1>22. ASSUME NEW t \in Threads, MsgAbort(t)  PROVE ChainInv'
    BY <1>22, <1>b, ChainStable DEF MsgAbort, Removed
  <1> QED
    BY <1>1, <1>2, <1>3, <1>4, <1>5, <1>6, <1>7, <1>8, <1>9, <1>10, <1>11,
       <1>12, <1>13, <1>14, <1>15, <1>16, <1>17, <1>18, <1>19, <1>20, <1>21,
       <1>22 DEF Next, UiMsg, UiMsgFlush

\* Init establishes the invariant.
LEMMA QueueInit == Init => QueueInv
  <1> SUFFICES ASSUME Init PROVE QueueInv
    OBVIOUS
  <1> USE UiAssumption DEF Init
  <1>1. Len(inserted) = 0 /\ Len(displayed) = 0 /\ pc[UI] = "idle"
    OBVIOUS
  <1>2. Removed = 0 /\ Freed = 0
    BY <1>1 DEF Removed, Freed
  <1>3. TypeOK
    BY TypeInit
  <1>4. PcInv /\ TextInv
    BY <1>1 DEF PcInv, TextInv, MsgPCs
  <1>5. MutexInv
    BY DEF MutexInv, Exclusive, Critical, FlushPCs
  <1>6. HistoryInv
    <2>1. \A m \in Node : ~(m[2] <= Linked[m[1]])
      BY DEF Node, Linked
    <2> QED BY <1>1, <2>1 DEF HistoryInv
  <1>7. LocalInv
    BY <1>1, <1>2 DEF LocalInv
  <1>8. ChainInv
    BY <1>1, <1>2 DEF ChainInv, Cell
  <1> QED BY <1>3, <1>4, <1>5, <1>6, <1>7, <1>8 DEF QueueInv

\* Every step keeps the invariant.
LEMMA QueueStep == QueueInv /\ [Next]_vars => QueueInv'
  BY TypeStep, PcStep, MutexStep, TextStep, HistoryStep, LocalStep, ChainStep
     DEF QueueInv

\* The list, the locals of ui_msg and ui_msg_flush and the mutex agree at every
\* step of every thread, whatever is cancelled and whenever.
THEOREM QueueInvariant == Spec => []QueueInv
  BY QueueInit, QueueStep, PTL DEF Spec

\* The variables of ui_msg and ui_msg_flush keep their types.
THEOREM TypeCorrect == Spec => []TypeOK
  <1>1. QueueInv => TypeOK
    BY DEF QueueInv
  <1> QED BY <1>1, QueueInvariant, PTL

\* UI_MSG_LOCK excludes: at most one thread is inside the SIMPLEQ macros.
THEOREM MutualExclusion == Spec => []Exclusive
  <1>1. QueueInv => Exclusive
    BY DEF QueueInv, MutexInv
  <1> QED BY <1>1, QueueInvariant, PTL

\* No message is displayed truncated.
THEOREM WholeMessages == Spec => []NeverTruncated
  <1>1. QueueInv => NeverTruncated
    BY HistoryParts DEF QueueInv, HistoryInv, TextInv, NeverTruncated
  <1> QED BY <1>1, QueueInvariant, PTL

\* ui_msg_flush and SIMPLEQ_INSERT_TAIL never touch a node that was freed.
THEOREM NothingDangles == Spec => []NoDangling
  <1>1. QueueInv => NoDangling
    <2> SUFFICES ASSUME QueueInv PROVE NoDangling
      OBVIOUS
    <2> USE DEF QueueInv
    <2>1. /\ Len(inserted) \in Nat /\ Len(displayed) \in Nat
          /\ Len(displayed) <= Len(inserted)
          /\ \A k \in 1..Len(inserted) : inserted[k] \in Node
          /\ \A j, k \in 1..Len(inserted) : inserted[j] = inserted[k] => j = k
      BY HistoryParts DEF HistoryInv
    <2>2. /\ Freed \in Nat /\ Freed <= Len(displayed) /\ Freed <= Removed
          /\ Removed \in Nat /\ Removed <= Len(inserted)
          /\ pc[UI] \in {"remove", "reset", "free"} => Freed < Len(displayed)
      BY <2>1 DEF Freed, Removed, PcInv
    <2>3. freed = {inserted[k] : k \in 1..Freed}
      BY DEF LocalInv
    <2>4. \A k \in 1..Len(inserted) : inserted[k] \in freed => k <= Freed
      BY <2>1, <2>2, <2>3
    <2>5. NULL \notin freed /\ QHead \notin freed
      BY <2>1, <2>2, <2>3, UiAssumption
    <2>6. next[QHead] \notin freed
      <3>1. Cell(Removed) = QHead
        BY DEF Cell
      <3>2. CASE Removed = Len(inserted)
        BY <2>5, <3>1, <3>2 DEF ChainInv
      <3>3. CASE Removed < Len(inserted)
        <4>1. next[QHead] = inserted[Removed + 1]
          BY <2>1, <2>2, <3>1, <3>3 DEF ChainInv
        <4> QED BY <2>1, <2>2, <2>4, <3>3, <4>1
      <3> QED BY <2>1, <2>2, <3>2, <3>3
    <2>7. \A k \in Removed..Len(inserted) : Cell(k) \notin freed
      BY <2>1, <2>2, <2>4, <2>5 DEF Cell
    <2>8. last \notin freed
      <3>1. CASE \E t \in Threads : pc[t] = "tail"
        BY <2>1, <2>2, <2>7, <3>1 DEF ChainInv
      <3>2. CASE pc[UI] = "reset"
        <4>1. last = inserted[Len(inserted)] /\ Len(displayed) = Len(inserted)
          BY <3>2 DEF ChainInv
        <4> QED BY <2>1, <2>2, <2>4, <3>2, <4>1
      <3>3. CASE pc[UI] # "reset" /\ \A t \in Threads : pc[t] # "tail"
        BY <2>1, <2>2, <2>7, <3>3 DEF ChainInv
      <3> QED BY <3>1, <3>2, <3>3
    <2>9. msg \notin freed
      BY <2>1, <2>2, <2>4, <2>5 DEF LocalInv
    <2> QED BY <2>6, <2>8, <2>9 DEF NoDangling
  <1> QED BY <1>1, QueueInvariant, PTL

-----------------------------------------------------------------------------
(* The abstract queue *)

\* The elements of a suffix.
LEMMA SuffixFacts ==
  ASSUME NEW S, NEW s \in Seq(S), NEW d \in Nat, d <= Len(s)
  PROVE  /\ SubSeq(s, d + 1, Len(s)) \in Seq(S)
         /\ Len(SubSeq(s, d + 1, Len(s))) = Len(s) - d
         /\ \A k \in 1..(Len(s) - d) : SubSeq(s, d + 1, Len(s))[k] = s[d + k]
  <1>1. \A k \in (d + 1)..Len(s) : s[k] \in S
    OBVIOUS
  <1>2. /\ SubSeq(s, d + 1, Len(s)) \in Seq(S)
        /\ Len(SubSeq(s, d + 1, Len(s))) =
             IF d + 1 <= Len(s) THEN Len(s) - (d + 1) + 1 ELSE 0
        /\ \A k \in 1..(Len(s) - (d + 1) + 1) :
             SubSeq(s, d + 1, Len(s))[k] = s[d + 1 + k - 1]
    BY <1>1, SubSeqProperties
  <1> QED BY <1>2

\* The pending messages, element by element.
LEMMA PendingFacts ==
  ASSUME TypeOK, HistoryInv
  PROVE  /\ Pending \in Seq(Node)
         /\ Len(Pending) = Len(inserted) - Len(displayed)
         /\ \A k \in 1..Len(Pending) : Pending[k] = inserted[Len(displayed) + k]
  <1>1. inserted \in Seq(Node) /\ Len(displayed) \in Nat /\ Len(displayed) <= Len(inserted)
    BY HistoryParts DEF TypeOK, HistoryInv
  <1> QED BY <1>1, SuffixFacts DEF Pending

\* The same after a step.
LEMMA PendingFactsNext ==
  ASSUME TypeOK', HistoryInv'
  PROVE  /\ Pending' \in Seq(Node)
         /\ Len(Pending') = Len(inserted') - Len(displayed')
         /\ \A k \in 1..Len(Pending') : Pending'[k] = inserted'[Len(displayed') + k]
  <1>1. /\ inserted' \in Seq(Node) /\ Len(displayed') \in Nat
        /\ Len(displayed') <= Len(inserted')
    BY DEF TypeOK, HistoryInv
  <1> QED BY <1>1, SuffixFacts DEF Pending

\* What was displayed and what is pending is what was linked.
LEMMA WrittenIsInserted ==
  ASSUME TypeOK, HistoryInv
  PROVE  displayed \o Pending = inserted
  <1>1. displayed \in Seq(Node) /\ inserted \in Seq(Node) /\ Pending \in Seq(Node)
    BY PendingFacts DEF TypeOK
  <1>2. /\ displayed \o Pending \in Seq(Node)
        /\ Len(displayed \o Pending) = Len(displayed) + Len(Pending)
        /\ \A k \in 1..(Len(displayed) + Len(Pending)) :
             (displayed \o Pending)[k] = IF k <= Len(displayed) THEN displayed[k]
                                         ELSE Pending[k - Len(displayed)]
    BY <1>1, ConcatProperties
  <1>3. Len(displayed \o Pending) = Len(inserted)
    BY <1>1, <1>2, PendingFacts
  <1>4. \A k \in 1..Len(inserted) : (displayed \o Pending)[k] = inserted[k]
    BY <1>1, <1>2, <1>3, PendingFacts DEF HistoryInv
  <1> QED BY <1>1, <1>2, <1>3, <1>4, SeqEqual

\* Linking a message is a Put.
LEMMA LinkIsPut ==
  ASSUME QueueInv, QueueInv', NEW t \in Threads, InsLink(t)
  PROVE  AbstractQueue!Put(Mine(t)) /\ Mine(t) \in Node
  <1> USE DEF QueueInv
  <1>1. displayed' = displayed /\ Len(displayed) \in Nat /\ Len(inserted) \in Nat
        /\ Len(displayed) <= Len(inserted)
    BY HistoryParts DEF InsLink, flushVars, HistoryInv
  <1>2. /\ Mine(t) \in Node /\ Mine(t)[1] = t /\ Mine(t)[2] = count[t]
        /\ Linked[t] = count[t] - 1
        /\ \A k \in 1..Len(inserted) : inserted[k] # Mine(t)
        /\ Len(inserted') = Len(inserted) + 1
        /\ \A k \in 1..Len(inserted) : inserted'[k] = inserted[k]
        /\ inserted'[Len(inserted) + 1] = Mine(t)
    BY LinkFacts
  <1>3. Pending' = Append(Pending, Mine(t))
    <2>1. /\ Pending \in Seq(Node) /\ Pending' \in Seq(Node)
          /\ Append(Pending, Mine(t)) \in Seq(Node)
      BY <1>2, PendingFacts, PendingFactsNext
    <2>2. Len(Pending') = Len(Append(Pending, Mine(t)))
      BY <1>1, <1>2, PendingFacts, PendingFactsNext
    <2>3. ASSUME NEW k \in 1..Len(Pending')
          PROVE  Pending'[k] = Append(Pending, Mine(t))[k]
      <3>1. Len(Pending) = Len(inserted) - Len(displayed) /\ Len(Pending') = Len(Pending) + 1
        BY <1>1, <1>2, PendingFacts, PendingFactsNext
      <3>2. Pending'[k] = inserted'[Len(displayed) + k]
        BY <1>1, PendingFactsNext
      <3>3. CASE k <= Len(Pending)
        <4>1. Pending[k] = inserted[Len(displayed) + k]
          BY <3>1, <3>3, PendingFacts
        <4>2. inserted'[Len(displayed) + k] = inserted[Len(displayed) + k]
          BY <1>1, <1>2, <3>1, <3>3
        <4> QED BY <1>1, <2>1, <3>1, <3>2, <3>3, <4>1, <4>2
      <3>4. CASE k = Len(Pending) + 1
        <4>1. Len(displayed) + k = Len(inserted) + 1
          BY <1>1, <3>1, <3>4
        <4>2. Pending'[k] = Mine(t)
          BY <1>2, <3>2, <4>1
        <4> QED BY <2>1, <3>4, <4>2
      <3> QED BY <1>1, <3>1, <3>3, <3>4
    <2> QED BY <2>1, <2>2, <2>3, SeqEqual
  <1>4. AbstractQueue!Written = inserted
    BY WrittenIsInserted DEF AbstractQueue!Written
  <1>5. ASSUME NEW j \in 1..(count[t] - 1)
        PROVE  \E k \in 1..Len(inserted) : inserted[k] = <<t, j>>
    <2>1. <<t, j>> \in Node /\ <<t, j>>[1] = t /\ <<t, j>>[2] = j
      <3>1. count[t] \in 0..MaxMsgs /\ MaxMsgs \in Nat
        BY UiAssumption DEF TypeOK
      <3>2. j \in 1..MaxMsgs
        BY <3>1
      <3> QED BY <3>2 DEF Node
    <2>2. j <= Linked[t]
      BY <1>2
    <2> QED BY <2>1, <2>2 DEF HistoryInv
  <1>6. AbstractQueue!IsNextOf(Mine(t))
    <2>1. Mine(t) \notin {AbstractQueue!Written[k] : k \in 1..Len(AbstractQueue!Written)}
      BY <1>2, <1>4
    <2>2. ASSUME NEW j \in 1..(Mine(t)[2] - 1)
          PROVE  <<Mine(t)[1], j>>
                   \in {AbstractQueue!Written[k] : k \in 1..Len(AbstractQueue!Written)}
      <3>1. j \in 1..(count[t] - 1) /\ <<Mine(t)[1], j>> = <<t, j>>
        BY <1>2
      <3>2. PICK k \in 1..Len(inserted) : inserted[k] = <<t, j>>
        BY <1>5, <3>1
      <3> QED BY <1>4, <3>1, <3>2
    <2> QED BY <2>1, <2>2 DEF AbstractQueue!IsNextOf
  <1> QED BY <1>1, <1>2, <1>3, <1>6 DEF AbstractQueue!Put

\* Displaying a message is a Show.
LEMMA DisplayIsShow ==
  ASSUME QueueInv, QueueInv', FlushDisplay
  PROVE  AbstractQueue!Show
  <1> USE DEF QueueInv
  <1>1. /\ Len(displayed) \in Nat /\ Len(inserted) \in Nat
        /\ Len(displayed) < Len(inserted)
        /\ displayed' = Append(displayed, inserted[Len(displayed) + 1])
        /\ inserted' = inserted /\ Len(displayed') = Len(displayed) + 1
    BY HistoryParts DEF FlushDisplay, At, LocalInv, queueVars, TypeOK
  <1>2. Pending \in Seq(Node) /\ Pending' \in Seq(Node) /\ Pending # << >>
    BY <1>1, PendingFacts, PendingFactsNext
  <1>3. Head(Pending) = inserted[Len(displayed) + 1]
    BY <1>1, <1>2, PendingFacts, PendingFactsNext
  <1>4. Pending' = Tail(Pending)
    <2>1. /\ Tail(Pending) \in Seq(Node) /\ Len(Tail(Pending)) = Len(Pending) - 1
          /\ \A k \in 1..Len(Tail(Pending)) : Tail(Pending)[k] = Pending[k + 1]
      BY <1>2, HeadTailProperties
    <2>2. Len(Pending') = Len(Tail(Pending))
      <3>1. Len(Pending') = Len(inserted) - (Len(displayed) + 1)
        BY <1>1, PendingFactsNext
      <3>2. Len(Tail(Pending)) = Len(inserted) - Len(displayed) - 1
        BY <1>1, <2>1, PendingFacts
      <3> QED BY <1>1, <3>1, <3>2
    <2>3. \A k \in 1..Len(Pending') : Pending'[k] = Tail(Pending)[k]
      BY <1>1, <2>1, <2>2, PendingFacts, PendingFactsNext
    <2> QED BY <1>2, <2>1, <2>2, <2>3, SeqEqual
  <1> QED BY <1>1, <1>2, <1>3, <1>4 DEF AbstractQueue!Show

\* ui_msg and ui_msg_flush implement the abstract FIFO queue.
THEOREM Refinement == Spec => ImplementsQueue
  <1>1. Init => AbstractQueue!Init
    <2> SUFFICES ASSUME Init PROVE AbstractQueue!Init
      OBVIOUS
    <2>1. Pending = << >>
      BY SubSeqEmpty DEF Init, Pending
    <2> QED BY <2>1 DEF Init, AbstractQueue!Init
  <1>2. QueueInv /\ QueueInv' /\ [Next]_vars => [AbstractQueue!Next]_AbstractQueue!vars
    <2> SUFFICES ASSUME QueueInv, QueueInv', [Next]_vars
                 PROVE  [AbstractQueue!Next]_AbstractQueue!vars
      OBVIOUS
    <2>1. ASSUME NEW t \in Threads, InsLink(t)  PROVE AbstractQueue!Next
      BY <2>1, LinkIsPut DEF AbstractQueue!Next, AbstractQueue!Msg, Node
    <2>2. CASE FlushDisplay
      BY <2>2, DisplayIsShow DEF AbstractQueue!Next
    <2>3. CASE ~FlushDisplay /\ \A t \in Threads : ~InsLink(t)
      <3>1. inserted' = inserted /\ displayed' = displayed
        BY <2>3 DEF Next, UiMsg, UiMsgFlush, vars, queueVars, flushVars, MsgAlloc,
           MsgNoMemory, MsgFits, MsgGrow, MsgLock, InsClear, InsTail, MsgUnlock,
           MsgAbort, Cancel, FlushCheck, FlushLock, FlushLoop, FlushRemove, FlushReset,
           FlushFree, FlushUnlock, Quit, Exit, Over
      <3> QED BY <3>1 DEF AbstractQueue!vars, Pending
    <2> QED BY <2>1, <2>2, <2>3
  <1> QED BY <1>1, <1>2, QueueInvariant, PTL DEF Spec, ImplementsQueue, AbstractQueue!Spec

\* Outside the macros the linked list is exactly the pending messages.
THEOREM ListMatches == Spec => []ListIsPending
  <1>1. QueueInv => ListIsPending
    <2> SUFFICES ASSUME QueueInv, mutex = None
                 PROVE  /\ Len(displayed) <= Len(inserted)
                        /\ LET At0(k) == IF k = 0 THEN QHead ELSE Pending[k] IN
                           /\ \A k \in 1..Len(Pending) : next[At0(k - 1)] = Pending[k]
                           /\ next[At0(Len(Pending))] = NULL
                           /\ last = At0(Len(Pending))
      BY DEF ListIsPending
    <2> USE DEF QueueInv
    <2> DEFINE At0(k) == IF k = 0 THEN QHead ELSE Pending[k]
    <2>1. /\ Len(inserted) \in Nat /\ Len(displayed) \in Nat
          /\ Len(displayed) <= Len(inserted)
      BY HistoryParts DEF HistoryInv
    <2>2. \A t \in Threads : pc[t] \notin {"tail", "remove", "reset"}
      BY UiAssumption DEF MutexInv, Exclusive, Critical, FlushPCs
    <2>3. Removed = Len(displayed)
      BY <2>2, UiAssumption DEF Removed
    <2>4. \A k \in 0..Len(Pending) : At0(k) = Cell(Len(displayed) + k)
      BY <2>1, <2>3, PendingFacts DEF Cell
    <2>5. \A k \in 1..Len(Pending) : next[At0(k - 1)] = Pending[k]
      <3> SUFFICES ASSUME NEW k \in 1..Len(Pending)
                   PROVE  next[At0(k - 1)] = Pending[k]
        OBVIOUS
      <3> HIDE DEF At0
      <3>1. At0(k - 1) = Cell(Len(displayed) + k - 1)
        BY <2>1, <2>4, PendingFacts
      <3>2. next[Cell(Len(displayed) + k - 1)] = inserted[Len(displayed) + k]
        <4>1. /\ Len(displayed) + k - 1 \in Removed..(Len(inserted) - 1)
              /\ (Len(displayed) + k - 1) + 1 = Len(displayed) + k
          BY <2>1, <2>3, PendingFacts
        <4>2. \A j \in Removed..(Len(inserted) - 1) : next[Cell(j)] = inserted[j + 1]
          BY DEF ChainInv
        <4>3. next[Cell(Len(displayed) + k - 1)] = inserted[(Len(displayed) + k - 1) + 1]
          BY <4>1, <4>2
        <4> QED BY <4>1, <4>3
      <3> QED BY <3>1, <3>2, PendingFacts
    <2>6. next[At0(Len(Pending))] = NULL /\ last = At0(Len(Pending))
      <3> HIDE DEF At0
      <3>1. At0(Len(Pending)) = Cell(Len(inserted))
        BY <2>1, <2>4, PendingFacts
      <3> QED BY <2>2, <3>1, UiAssumption DEF ChainInv
    <2> QED BY <2>1, <2>5, <2>6
  <1> QED BY <1>1, QueueInvariant, PTL
=============================================================================
