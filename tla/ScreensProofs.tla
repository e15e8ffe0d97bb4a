---------------------------- MODULE ScreensProofs ----------------------------
(***************************************************************************)
(* Proofs about Screens, for any keys, decoders, window heights and number *)
(* of packets.                                                             *)
(***************************************************************************)
EXTENDS Screens, TLAPS

\* Which windows are there before and after the loop of a screen: w_sys from the
\* first info screen on, nothing else between two screens.
Ownership ==
  /\ WindowsOwned
  /\ pc = "windows" => screen = "info" /\ "menu" \in ptr /\ ptr \subseteq {"menu", "sys"}
  /\ pc = "switch" \/ screen = "topology" => "sys" \in ptr

\* The cursor of the pad of w_sys is at the end of the pad, or just before the
\* last view as long as nothing was written.
Cursor ==
  /\ ~lost
  /\ "sys" \in ptr => row \in YEnd - 1..YMax - 1
  /\ written => "sys" \in ptr /\ row \in YEnd..YMax - 1

ScreensInv == TypeOK /\ num \in [StatNames -> Int] /\ Ownership /\ Cursor

-----------------------------------------------------------------------------
(* Facts about the operators *)

LEMMA Heights == YEnd \in Nat /\ YEnd >= 1 /\ YEnd <= YMax - 1 /\ YEnd + SysLines - 3 = YMax - 1
  BY ScreensAssumption DEF YEnd

LEMMA StatIsInt == ASSUME num \in [StatNames -> Int] PROVE GetStat(TOTAL) \in Int
  BY StatsAssumption DEF GetStat

\* However the questions end, no more descriptors are open than there are.
LEMMA Descriptors ==
  ASSUME NEW o \in 0..FdLimit, NEW r \in PrintIfaceconfig(o)
  PROVE  r.open \in 0..FdLimit
  <1> DEFINE Good(S) == \A x \in S : x.open \in 0..FdLimit
  <1>1. \A k \in 0..FdLimit :
          /\ Good(GetIfaceIp(k)) /\ Good(GetIfaceIp6(k)) /\ Good(GetIfaceMask(k))
          /\ Good(GetDefaultGw(k)) /\ Good(GetDefaultDns(k)) /\ Good(GetIfaceLl(k))
    BY IfaceAssumption DEF GetIfaceIp, GetIfaceIp6, GetIfaceMask, GetDefaultGw,
       GetDefaultDns, GetIfaceLl, Needing, Result
  <1> DEFINE A == GetIfaceIp(o)
             B == Then(A, GetIfaceIp6)
             C == Then(B, GetIfaceMask)
             D == Then(C, GetDefaultGw)
             E == Then(D, GetDefaultDns)
             F == Then(E, GetIfaceLl)
  <1>2. Good(A)
    BY <1>1
  <1>3. Good(B)
    BY <1>1, <1>2 DEF Then
  <1>4. Good(C)
    <2> HIDE DEF B
    <2> QED BY <1>1, <1>3 DEF Then
  <1>5. Good(D)
    <2> HIDE DEF C
    <2> QED BY <1>1, <1>4 DEF Then
  <1>6. Good(E)
    <2> HIDE DEF D
    <2> QED BY <1>1, <1>5 DEF Then
  <1>7. Good(F)
    <2> HIDE DEF E
    <2> QED BY <1>1, <1>6 DEF Then
  <1> QED BY <1>7 DEF PrintIfaceconfig

\* lmap_scroll keeps the view inside the pad.
LEMMA ScrollRange ==
  ASSUME yscroll \in 0..YEnd, NEW k \in ScrollKeys
  PROVE  LmapScroll(Delta(k)) \in 0..YEnd
  <1>1. Delta(k) \in Int
    BY ScreensAssumption DEF Delta, ScrollKeys, KEY_DOWN, KEY_UP, KEY_NPAGE, KEY_PPAGE
  <1> QED BY <1>1, Heights DEF LmapScroll

\* lmap_drawscroller stays inside the border for every position of the view.
LEMMA ScrollerRange ==
  ASSUME yscroll \in 0..YEnd PROVE ScrollerInside
  <1> DEFINE n == SysLines - 2
  <1>1. n \in Nat /\ n >= 1 /\ YMax \in Nat /\ YMax > n
    BY ScreensAssumption
  <1>2. (n * n) \div YMax <= n /\ (n * n) \div YMax \in Nat
    <2> HIDE DEF n
    <2>1. n * n \in Nat /\ n * n <= n * YMax
      BY <1>1
    <2> QED BY <1>1, <2>1
  <1>3. ScrollerHeight \in Nat /\ ScrollerHeight >= 1 /\ ScrollerHeight <= n
    BY <1>1, <1>2 DEF ScrollerHeight
  <1>4. (SysLines * yscroll) \div YMax \in Nat
    <2>1. SysLines * yscroll \in Nat
      BY ScreensAssumption, Heights
    <2> QED BY <2>1, <1>1
  <1> QED BY <1>1, <1>3, <1>4, ScreensAssumption DEF ScrollerInside, ScrollerPos

-----------------------------------------------------------------------------
(* The invariant *)

LEMMA ScreensInit == Init => ScreensInv
  <1> SUFFICES ASSUME Init PROVE ScreensInv
    OBVIOUS
  <1>1. TypeOK
    <2>1. yscroll \in 0..YEnd /\ open \in 0..FdLimit /\ packets \in 0..MaxPackets
      BY Heights, ScreensAssumption, IfaceAssumption DEF Init
    <2>2. ptr \subseteq Windows /\ live \in [Windows -> Int]
      BY DEF Init
    <2>3. {written, lost} \subseteq BOOLEAN
      BY Zenon DEF Init
    <2>4. {stats, shown} \subseteq Int
      BY DEF Init
    <2> QED BY <2>1, <2>2, <2>3, <2>4 DEF Init, TypeOK, Inside
  <1>2. num \in [StatNames -> Int]
    BY DEF Init, StatsInit
  <1>3. Ownership
    BY DEF Init, Ownership, WindowsOwned, Inside
  <1>4. Cursor
    BY DEF Init, Cursor
  <1> QED BY <1>1, <1>2, <1>3, <1>4 DEF ScreensInv

\* Steps that create, delete or scroll no window.
LEMMA SameWindows ==
  ASSUME Ownership, Cursor, UNCHANGED <<windowVars, scrollVars, screen>>,
         pc \in Inside, pc' \in Inside
  PROVE  Ownership' /\ Cursor'
  BY DEF Ownership, Cursor, WindowsOwned, Inside, windowVars, scrollVars

LEMMA ScreensNext ==
  ASSUME ScreensInv, [Next]_vars PROVE ScreensInv'
  <1> USE DEF ScreensInv
  <1>1. ASSUME NEW c \in Constructors, Constructor(c) PROVE ScreensInv'
    <2>1. TypeOK'
      BY <1>1 DEF TypeOK, Constructor, windowVars, scrollVars, menuVars, captureVars
    <2>2. (num \in [StatNames -> Int])'
      BY <1>1 DEF Constructor, RegisterStat, StatNames
    <2>3. Ownership' /\ Cursor'
      BY <1>1 DEF Ownership, Cursor, WindowsOwned, Inside, Constructor, windowVars, scrollVars
    <2> QED BY <2>1, <2>2, <2>3
  <1>2. CASE NcursesStart
    <2>1. TypeOK' /\ (num \in [StatNames -> Int])'
      BY <1>2 DEF TypeOK, NcursesStart, windowVars, scrollVars, menuVars, captureVars, statVars
    <2>2. Ownership' /\ Cursor'
      BY <1>2 DEF Ownership, Cursor, WindowsOwned, Inside, NcursesStart, windowVars, scrollVars
    <2> QED BY <2>1, <2>2
  <1>3. CASE MenuCreate
    <2>1. TypeOK' /\ (num \in [StatNames -> Int])'
      BY <1>3, StatIsInt DEF TypeOK, MenuCreate, NewWin, Windows, Inside, scrollVars,
         captureVars, statVars
    <2>2. Cursor'
      BY <1>3 DEF Cursor, MenuCreate, NewWin, scrollVars
    <2>3. Ownership'
      BY <1>3 DEF Ownership, WindowsOwned, TypeOK, Inside, MenuCreate, NewWin, Windows
    <2> QED BY <2>1, <2>2, <2>3
  <1>4. CASE InfoWindows
    <2> DEFINE ws == {"info", "sugg"} \cup ({"sys"} \ ptr)
    <2>1. NewWin(ws) /\ ws \subseteq Windows /\ ws \cap ptr = {}
      BY <1>4 DEF InfoWindows, Ownership, Windows
    <2>2. open' \in 0..FdLimit
      BY <1>4, Descriptors DEF InfoWindows, TypeOK
    <2>3. /\ yscroll' \in 0..YEnd /\ row' \in Int
          /\ lost' = lost /\ written' = written
      BY <1>4, Heights DEF InfoWindows, NewScrollWin, scrollVars, TypeOK
    <2>4. TypeOK' /\ (num \in [StatNames -> Int])'
      BY <1>4, <2>1, <2>2, <2>3 DEF TypeOK, InfoWindows, NewWin, Windows, Inside,
         menuVars, captureVars, statVars
    <2>5. Cursor'
      <3>1. CASE "sys" \in ptr
        BY <1>4, <3>1 DEF Cursor, InfoWindows, NewWin, scrollVars
      <3>2. CASE "sys" \notin ptr
        BY <1>4, <3>2, Heights, ScreensAssumption DEF Cursor, InfoWindows, NewScrollWin, NewWin
      <3> QED BY <3>1, <3>2
    <2>6. Ownership'
      <3>1. pc = "windows" /\ pc' = "poll" /\ screen' = screen /\ screen = "info"
            /\ ptr' = ptr \cup ws /\ "menu" \in ptr
        BY <1>4, <2>1 DEF InfoWindows, NewWin, Ownership
      <3>2. \A w \in Windows : live'[w] = IF w \in ptr' THEN 1 ELSE 0
        BY <1>4, <2>1, <3>1 DEF Ownership, WindowsOwned, NewWin, TypeOK
      <3> QED BY <3>1, <3>2 DEF Ownership, WindowsOwned, Inside
    <2> QED BY <2>4, <2>5, <2>6
  <1>5. CASE InfoFails
    <2>1. open' \in 0..FdLimit
      BY <1>5, Descriptors DEF InfoFails, TypeOK
    <2>2. TypeOK' /\ (num \in [StatNames -> Int])'
      BY <1>5, <2>1 DEF TypeOK, InfoFails, NewWin, Windows, scrollVars, menuVars,
         captureVars, statVars
    <2>3. Ownership' /\ Cursor'
      BY <1>5 DEF Ownership, Cursor, WindowsOwned, Inside, InfoFails, NewWin, scrollVars
    <2> QED BY <2>2, <2>3
  <1>6. CASE Poll
    <2>1. TypeOK' /\ (num \in [StatNames -> Int])' /\ pc \in Inside /\ pc' \in Inside
      BY <1>6, ScreensAssumption DEF TypeOK, Poll, NO_KEY, Inside, windowVars, scrollVars, menuVars, captureVars, statVars
    <2>2. Ownership' /\ Cursor'
      BY <1>6, <2>1, SameWindows DEF Poll
    <2> QED BY <2>1, <2>2
  <1>7. CASE MenuRefresh
    <2>1. TypeOK' /\ (num \in [StatNames -> Int])' /\ pc \in Inside /\ pc' \in Inside
      BY <1>7 DEF TypeOK, MenuRefresh, Inside, windowVars, scrollVars, menuVars, captureVars, statVars
    <2>2. Ownership' /\ Cursor'
      BY <1>7, <2>1, SameWindows DEF MenuRefresh
    <2> QED BY <2>1, <2>2
  <1>8. CASE MenuPrint
    <2>1. TypeOK' /\ (num \in [StatNames -> Int])' /\ pc \in Inside /\ pc' \in Inside
      BY <1>8, StatIsInt DEF TypeOK, MenuPrint, Inside, windowVars, scrollVars, menuVars, captureVars, statVars
    <2>2. Ownership' /\ Cursor'
      BY <1>8, <2>1, SameWindows DEF MenuPrint
    <2> QED BY <2>1, <2>2
  <1>9. CASE MenuRemember
    <2>1. TypeOK' /\ (num \in [StatNames -> Int])' /\ pc \in Inside /\ pc' \in Inside
      BY <1>9, StatIsInt DEF TypeOK, MenuRemember, Inside, windowVars, scrollVars, menuVars, captureVars, statVars
    <2>2. Ownership' /\ Cursor'
      BY <1>9, <2>1, SameWindows DEF MenuRemember
    <2> QED BY <2>1, <2>2
  <1>10. CASE StatRow
    <2>1. TypeOK' /\ (num \in [StatNames -> Int])' /\ pc \in Inside /\ pc' \in Inside
      BY <1>10 DEF TypeOK, StatRow, GetAllStats, Inside, windowVars, scrollVars, menuVars, captureVars, statVars
    <2>2. Ownership' /\ Cursor'
      BY <1>10, <2>1, SameWindows DEF StatRow
    <2> QED BY <2>1, <2>2
  <1>11. CASE StatsDone
    <2>1. TypeOK' /\ (num \in [StatNames -> Int])' /\ pc \in Inside /\ pc' \in Inside
      BY <1>11 DEF TypeOK, StatsDone, GetAllStatsEnd, Inside, windowVars, scrollVars, menuVars, captureVars, statVars
    <2>2. Ownership' /\ Cursor'
      BY <1>11, <2>1, SameWindows DEF StatsDone
    <2> QED BY <2>1, <2>2
  <1>12. CASE LoopEnd
    <2>1. TypeOK' /\ (num \in [StatNames -> Int])' /\ pc \in Inside /\ pc' \in Inside
      BY <1>12 DEF TypeOK, LoopEnd, NO_KEY, Inside, windowVars, scrollVars, menuVars, captureVars, statVars
    <2>2. Ownership' /\ Cursor'
      BY <1>12, <2>1, SameWindows DEF LoopEnd
    <2> QED BY <2>1, <2>2
  <1>13. CASE MenuEvent
    <2>1. key' \in Int /\ waiting' \in Nat /\ pc = "event" /\ screen' = screen
          /\ UNCHANGED <<open, scrollVars, stats, shown, captureVars, statVars>>
      BY <1>13 DEF MenuEvent, MenuKey, TypeOK
    <2>2. CASE key # KEY_F(12)
      <3>1. pc' = "screen" /\ UNCHANGED <<ptr, live, ret, i, rows>>
        BY <1>13, <2>2 DEF MenuEvent, ShowStatistics
      <3>2. TypeOK' /\ (num \in [StatNames -> Int])'
        BY <2>1, <3>1 DEF TypeOK, Inside, scrollVars, captureVars, statVars
      <3> QED BY <2>1, <3>1, <3>2, SameWindows DEF Inside, windowVars
    <2>3. CASE key = KEY_F(12)
      <3>1. ShowStatistics
        BY <1>13, <2>3 DEF MenuEvent
      <3>2. TypeOK' /\ (num \in [StatNames -> Int])'
        <4>1. ptr' \subseteq Windows /\ live' \in [Windows -> Int]
          <5>1. CASE "stat" \in ptr
            BY <3>1, <5>1 DEF ShowStatistics, DelWin, TypeOK
          <5>2. CASE "stat" \notin ptr
            <6>1. NewWin({"stat"}) /\ {"stat"} \subseteq Windows
              BY <3>1, <5>2 DEF ShowStatistics, Windows
            <6> QED BY <6>1 DEF NewWin, TypeOK
          <5> QED BY <5>1, <5>2
        <4>2. pc' \in {"screen", "rows"} /\ ret' \in {"event", "screen"} /\ i' \in Nat \ {0}
          BY <3>1 DEF ShowStatistics, TypeOK
        <4> QED BY <2>1, <4>1, <4>2 DEF TypeOK, Inside, scrollVars, captureVars, statVars
      <3>3. Cursor'
        BY <2>1, <3>1 DEF Cursor, ShowStatistics, NewWin, DelWin, scrollVars
      <3>4. Ownership'
        <4>1. CASE "stat" \in ptr
          BY <2>1, <3>1, <4>1 DEF Ownership, WindowsOwned, ShowStatistics, DelWin, TypeOK, Inside
        <4>2. CASE "stat" \notin ptr
          BY <2>1, <3>1, <4>2 DEF Ownership, WindowsOwned, ShowStatistics, NewWin, TypeOK, Inside
        <4> QED BY <4>1, <4>2
      <3> QED BY <3>2, <3>3, <3>4
    <2> QED BY <2>2, <2>3
  <1>14. CASE ScreenKey
    <2>1. yscroll' \in 0..YEnd
      BY <1>14, ScrollRange DEF ScreenKey, TypeOK
    <2>2. TypeOK' /\ (num \in [StatNames -> Int])'
      BY <1>14, <2>1 DEF TypeOK, ScreenKey, Inside, windowVars, menuVars, captureVars, statVars
    <2>3. Ownership' /\ Cursor'
      BY <1>14 DEF Ownership, Cursor, WindowsOwned, Inside, ScreenKey, windowVars
    <2> QED BY <2>2, <2>3
  <1>15. CASE Flush
    <2>1. "sys" \in ptr
      BY <1>15 DEF Flush, Ownership, WindowsOwned, Inside
    <2>2. PICK n \in MsgRows : row' = IF row + n < YMax THEN row + n ELSE YMax - 1
      BY <1>15, <2>1 DEF Flush
    <2>3. row' \in YEnd..YMax - 1 /\ lost' = lost /\ written' = TRUE
      BY <1>15, <2>1, <2>2, Heights, ScreensAssumption DEF Flush, Cursor
    <2>4. TypeOK' /\ (num \in [StatNames -> Int])'
      BY <1>15, <2>3, Heights, ScreensAssumption DEF TypeOK, Flush, Inside, windowVars,
         menuVars, captureVars, statVars
    <2>5. Cursor'
      BY <1>15, <2>1, <2>3, Heights, ScreensAssumption DEF Cursor, Flush, windowVars
    <2>6. Ownership'
      BY <1>15 DEF Ownership, WindowsOwned, Inside, Flush, windowVars
    <2> QED BY <2>4, <2>5, <2>6
  <1>16. CASE Leave
    <2> DEFINE ws == {"menu", "stat"} \cup ScreenWindows
    <2>1. /\ DelWin(ws) /\ ws \subseteq Windows
          /\ pc = "leave" /\ pc' = "switch" /\ screen' = screen
      BY <1>16 DEF Leave, ScreenWindows, Windows
    <2>2. TypeOK' /\ (num \in [StatNames -> Int])'
      BY <1>16, <2>1 DEF TypeOK, Leave, DelWin, Inside, scrollVars, captureVars, statVars
    <2>3. Cursor'
      BY <1>16 DEF Cursor, Leave, DelWin, ScreenWindows, scrollVars
    <2>4. ptr' \subseteq {"sys"} /\ "sys" \in ptr'
      BY <2>1 DEF Ownership, WindowsOwned, Inside, DelWin, ScreenWindows, TypeOK, Windows
    <2>5. \A w \in Windows : live'[w] = IF w \in ptr' THEN 1 ELSE 0
      BY <2>1 DEF Ownership, WindowsOwned, DelWin, TypeOK
    <2>6. Ownership'
      BY <2>1, <2>4, <2>5 DEF Ownership, WindowsOwned, Inside
    <2> QED BY <2>2, <2>3, <2>6
  <1>17. CASE Switch
    <2>1. screen' \in {"info", "topology"}
      BY <1>17 DEF Switch, TypeOK
    <2>2. TypeOK' /\ (num \in [StatNames -> Int])'
      BY <1>17, <2>1 DEF TypeOK, Switch, windowVars, scrollVars, menuVars, captureVars, statVars
    <2>3. Ownership' /\ Cursor'
      BY <1>17, <2>1 DEF Ownership, Cursor, WindowsOwned, Inside, Switch, windowVars, scrollVars
    <2> QED BY <2>2, <2>3
  <1>18. CASE CountTotal \/ (\E n \in StatNames \ {TOTAL} : CountProtocol(n)) \/ UserMsg
    <2>1. (num \in [StatNames -> Int])'
      <3>1. ASSUME NEW n \in StatNames, UpdateStat(n) PROVE (num \in [StatNames -> Int])'
        BY <3>1 DEF UpdateStat
      <3> QED BY <1>18, <3>1, StatsAssumption DEF CountTotal, CountProtocol, UserMsg, statVars
    <2>2. UNCHANGED <<pc, screen, key, ret, windowVars, scrollVars, menuVars>>
      BY <1>18 DEF CountTotal, CountProtocol, UserMsg
    <2>3. waiting' \in Nat /\ packets' \in 0..MaxPackets /\ cpc' \in {"idle", "protocol", "send"}
      BY <1>18, ScreensAssumption DEF CountTotal, CountProtocol, UserMsg, TypeOK
    <2>4. TypeOK'
      BY <2>2, <2>3 DEF TypeOK, windowVars, scrollVars, menuVars
    <2>5. Ownership' /\ Cursor'
      BY <2>2 DEF Ownership, Cursor, WindowsOwned, Inside, windowVars, scrollVars
    <2> QED BY <2>1, <2>4, <2>5
  <1>19. CASE UNCHANGED vars
    <2>1. TypeOK' /\ (num \in [StatNames -> Int])'
      BY <1>19 DEF TypeOK, vars, windowVars, scrollVars, menuVars, captureVars, statVars
    <2>2. Ownership' /\ Cursor'
      BY <1>19 DEF Ownership, Cursor, WindowsOwned, Inside, vars, windowVars, scrollVars
    <2> QED BY <2>1, <2>2
  <1> QED
    BY <1>1, <1>2, <1>3, <1>4, <1>5, <1>6, <1>7, <1>8, <1>9, <1>10, <1>11, <1>12, <1>13,
       <1>14, <1>15, <1>16, <1>17, <1>18, <1>19 DEF Next, Interface, Over

-----------------------------------------------------------------------------
(* Theorems *)

\* The inductive invariant of the screens: the windows each screen owns, the place
\* of the cursor in the pad of w_sys, and the types.
THEOREM ScreensInvariant == Spec => []ScreensInv
  <1>1. Init => ScreensInv
    BY ScreensInit
  <1>2. ScreensInv /\ [Next]_vars => ScreensInv'
    BY ScreensNext
  <1> QED BY <1>1, <1>2, PTL DEF Spec

\* Type correctness; lmap_scroll keeps the view inside the pad, and no more
\* descriptors are open than the system gives.
THEOREM TypeCorrect == Spec => []TypeOK
  <1>1. ScreensInv => TypeOK
    BY DEF ScreensInv
  <1> QED BY <1>1, ScreensInvariant, PTL

\* Whatever keys are typed, scr_info, scr_topology and menu_destroy delete every
\* window they created, once, and w_sys is created a single time.
THEOREM WindowsAreOwned == Spec => []WindowsOwned
  <1>1. ScreensInv => WindowsOwned
    BY DEF ScreensInv, Ownership
  <1> QED BY <1>1, ScreensInvariant, PTL

\* For every height of the window and of its pad, ncurses_msg drops no message
\* and the last one is in view unless the user has scrolled back.
THEOREM MessagesAreVisible == Spec => []MessagesVisible
  <1>1. ScreensInv => MessagesVisible
    BY Heights DEF ScreensInv, Cursor, MessagesVisible
  <1> QED BY <1>1, ScreensInvariant, PTL

\* For every height of the window and of its pad, and wherever the view is,
\* lmap_drawscroller draws inside the border.
THEOREM ScrollerStaysInside == Spec => []ScrollerInside
  <1>1. ScreensInv => ScrollerInside
    BY ScrollerRange DEF ScreensInv, TypeOK
  <1> QED BY <1>1, ScreensInvariant, PTL
-----------------------------------------------------------------------------
(* The statistics window *)

\* The list of counters has every name of a constructor that ran exactly once.
Counters ==
  /\ list \in Seq(StatNames)
  /\ \A k, l \in 1..Len(list) : list[k] = list[l] => k = l
  /\ \A c \in Constructors \ unreg : \E k \in 1..Len(list) : list[k] = StatOf[c]
  /\ entries = Len(list)
  /\ pc # "boot" => unreg = {}

\* Line k of the window has the counter k of the list; in the middle of a pass
\* the lines before i are those of this pass, and the others, if there are any,
\* those of the pass before.
Lines ==
  /\ rows \in Seq([name : StatNames, num : Nat])
  /\ \A k \in 1..Len(rows) : k <= Len(list) /\ rows[k].name = list[k]
  /\ IF pc = "rows"
     THEN /\ "stat" \in ptr
          /\ i <= Len(list) + 1
          /\ cursor = i \/ (cursor = 0 /\ i = 1)
          /\ Len(rows) \in {i - 1, Len(list)}
          /\ \A k \in 1..i - 1 : rows[k].name = TOTAL => rows[k].num >= stats
     ELSE cursor \in {0, 1}

\* What is between two calls of get_all_stats that belong to one pass, and what
\* StatsPass says between two passes.
PassInv ==
  /\ Counters /\ Lines /\ StatsPass
  /\ num \in [StatNames -> Nat] /\ stats <= num[TOTAL]
  /\ pc = "boot" => stats = -1 /\ rows = << >>

passVars == <<statVars, stats, rows, ptr>>

LEMMA PassInit == Init => PassInv
  <1> SUFFICES ASSUME Init PROVE PassInv
    OBVIOUS
  <1>1. Counters
    BY DEF Init, StatsInit, Counters
  <1>2. num \in [StatNames -> Nat] /\ stats <= num[TOTAL] /\ num[TOTAL] = 0
    BY StatsAssumption DEF Init, StatsInit
  <1>3. Lines /\ StatsPass
    BY DEF Init, StatsInit, Lines, StatsPass
  <1> QED BY <1>1, <1>2, <1>3 DEF Init, PassInv

\* After main has begun the list has TOTAL.
LEMMA TotalListed ==
  ASSUME Counters, pc # "boot"
  PROVE  /\ Len(list) \in Nat \ {0}
         /\ GetStat(TOTAL) = num[TOTAL]
  <1>1. PICK c \in Constructors : TOTAL = StatOf[c]
    BY StatsAssumption DEF StatNames
  <1>2. PICK k \in 1..Len(list) : list[k] = TOTAL
    BY <1>1 DEF Counters
  <1>3. Len(list) \in Nat
    BY DEF Counters
  <1> QED BY <1>2, <1>3 DEF GetStat, Listed

\* Steps that leave the counters and the window alone, whether or not
\* refresh_statistics is in the middle of a pass.
LEMMA SamePass ==
  ASSUME PassInv, UNCHANGED passVars, UNCHANGED <<pc, i>> PROVE PassInv'
  BY DEF PassInv, Counters, Lines, StatsPass, passVars, statVars, StatNames

\* Steps outside refresh_statistics that leave the counters and the window
\* alone, or that delete the window.
LEMMA OtherPass ==
  ASSUME PassInv, UNCHANGED <<statVars, stats>>, pc # "rows", pc' \notin {"rows", "boot"},
         pc = "boot" => unreg = {},
         rows' = << >> \/ rows' = rows, "stat" \in ptr' => "stat" \in ptr /\ rows' = rows
  PROVE  PassInv'
  <1> USE DEF statVars
  <1>1. Counters'
    BY DEF PassInv, Counters, StatNames
  <1>2. (num \in [StatNames -> Nat] /\ stats <= num[TOTAL])'
    BY DEF PassInv, StatNames
  <1>3. Lines'
    <2>1. rows' \in Seq([name : StatNames, num : Nat])
      <3> DEFINE L == [name : StatNames, num : Nat]
      <3>1. << >> \in Seq(L) /\ rows \in Seq(L)
        BY DEF PassInv, Lines
      <3> HIDE DEF L
      <3>2. rows' \in Seq(L)
        BY <3>1
      <3> QED BY <3>2 DEF L
    <2>2. \A k \in 1..Len(rows') : k <= Len(list) /\ rows'[k].name = list[k]
      <3>1. CASE rows' = << >>
        <4>1. Len(rows') = 0
          BY <3>1
        <4> QED BY <4>1
      <3>2. CASE rows' = rows
        BY <3>2 DEF PassInv, Lines
      <3> QED BY <3>1, <3>2
    <2>3. cursor' \in {0, 1}
      BY DEF PassInv, Lines
    <2> QED BY <2>1, <2>2, <2>3 DEF Lines, StatNames
  <1>4. StatsPass'
    BY DEF PassInv, StatsPass, StatNames
  <1> QED BY <1>1, <1>2, <1>3, <1>4 DEF PassInv

LEMMA PassConstructor ==
  ASSUME ScreensInv, PassInv, NEW c \in Constructors, Constructor(c) PROVE PassInv'
  <1> DEFINE n == StatOf[c]
  <1>1. /\ pc = "boot" /\ pc' = "boot" /\ stats' = stats /\ rows' = rows
        /\ unreg' = unreg \ {c} /\ num' = [num EXCEPT ![n] = 0] /\ cursor' = cursor
        /\ ptr' = ptr /\ "stat" \notin ptr
    BY DEF Constructor, RegisterStat, menuVars, windowVars, ScreensInv, Ownership, WindowsOwned
  <1>2. n \in StatNames
    BY DEF StatNames
  <1>3. Counters'
    <2>1. list \in Seq(StatNames) /\ Len(list) \in Nat
      BY DEF PassInv, Counters
    <2>2. CASE Listed(n) /\ UNCHANGED <<list, entries>>
      BY <1>1, <2>2 DEF PassInv, Counters, Listed, StatNames
    <2>3. CASE ~Listed(n) /\ list' = <<n>> \o list /\ entries' = entries + 1
      <3>1. /\ list' \in Seq(StatNames) /\ Len(list') = Len(list) + 1
            /\ list'[1] = n /\ \A k \in 1..Len(list) : list'[k + 1] = list[k]
        BY <1>2, <2>1, <2>3
      <3>2. \A k \in 1..Len(list') : k = 1 \/ (k - 1 \in 1..Len(list) /\ list'[k] = list[k - 1])
        BY <2>1, <2>3, <3>1
      <3>3. \A k, l \in 1..Len(list') : list'[k] = list'[l] => k = l
        BY <2>1, <2>3, <3>1, <3>2 DEF PassInv, Counters, Listed
      <3>4. \A d \in Constructors \ unreg' : \E k \in 1..Len(list') : list'[k] = StatOf[d]
        <4> SUFFICES ASSUME NEW d \in Constructors \ unreg'
                     PROVE  \E k \in 1..Len(list') : list'[k] = StatOf[d]
          OBVIOUS
        <4>1. CASE d = c
          <5>1. 1 \in 1..Len(list')
            BY <2>1, <3>1
          <5> QED BY <4>1, <5>1, <3>1
        <4>2. CASE d # c
          <5>1. PICK k \in 1..Len(list) : list[k] = StatOf[d]
            BY <1>1, <4>2 DEF PassInv, Counters
          <5>2. k + 1 \in 1..Len(list')
            BY <2>1, <3>1
          <5> QED BY <5>1, <5>2, <3>1
        <4> QED BY <4>1, <4>2
      <3>5. entries' = Len(list')
        BY <2>3, <3>1 DEF PassInv, Counters
      <3> QED BY <1>1, <3>1, <3>3, <3>4, <3>5 DEF Counters, StatNames
    <2> QED BY <2>2, <2>3 DEF Constructor, RegisterStat
  <1>4. (num \in [StatNames -> Nat] /\ stats <= num[TOTAL])'
    BY <1>1, <1>2, StatsAssumption DEF PassInv, StatNames
  <1>5. Lines' /\ StatsPass'
    BY <1>1 DEF PassInv, Lines, StatsPass, StatNames
  <1> QED BY <1>1, <1>3, <1>4, <1>5 DEF PassInv

\* The capture thread counts, at any moment.
LEMMA PassCount ==
  ASSUME PassInv, stats \in Int, NEW n \in StatNames, UpdateStat(n),
         UNCHANGED <<pc, i, stats, rows, ptr>>
  PROVE  PassInv'
  <1>1. num' \in [StatNames -> Nat] /\ num'[TOTAL] >= num[TOTAL] /\ num'[TOTAL] \in Nat
    BY StatsAssumption DEF PassInv, UpdateStat
  <1>2. (num \in [StatNames -> Nat] /\ stats <= num[TOTAL])'
    <2>1. stats <= num[TOTAL] /\ num[TOTAL] \in Nat
      BY StatsAssumption DEF PassInv
    <2>2. stats <= num'[TOTAL]
      BY <1>1, <2>1
    <2> QED BY <1>1, <2>2 DEF StatNames
  <1>3. Counters' /\ Lines' /\ StatsPass'
    BY DEF PassInv, UpdateStat, Counters, Lines, StatsPass, StatNames
  <1> QED BY <1>2, <1>3 DEF PassInv

\* A pass begins: refresh_statistics is called with a window from the last pass.
LEMMA PassRemember ==
  ASSUME ScreensInv, PassInv, MenuRemember PROVE PassInv'
  <1>1. /\ pc = "remember" /\ stats' = num[TOTAL] /\ i' = 1 /\ unreg' = unreg /\ list' = list
        /\ num' = num /\ entries' = entries /\ cursor' = cursor /\ rows' = rows /\ ptr' = ptr
        /\ pc' = IF "stat" \in ptr THEN "rows" ELSE "event"
    BY TotalListed DEF MenuRemember, windowVars, statVars, PassInv
  <1>2. Len(list) \in Nat \ {0}
    BY <1>1, TotalListed DEF PassInv
  <1>3. Counters'
    BY <1>1 DEF PassInv, Counters, StatNames
  <1>4. (num \in [StatNames -> Nat] /\ stats <= num[TOTAL])'
    <2>1. num[TOTAL] \in Nat
      BY StatsAssumption DEF PassInv
    <2>2. stats' <= num'[TOTAL]
      BY <1>1, <2>1
    <2> QED BY <1>1, <2>2 DEF PassInv, StatNames
  <1>5. CASE "stat" \in ptr
    <2>1. pc' = "rows" /\ Len(rows) = Len(list)
      BY <1>1, <1>5 DEF PassInv, StatsPass, Counters
    <2>2. /\ i' <= Len(list) + 1 /\ 1..i' - 1 = {}
          /\ cursor' = i' \/ (cursor' = 0 /\ i' = 1)
      BY <1>1, <1>2 DEF PassInv, Lines
    <2>3. Lines'
      BY <1>1, <1>5, <2>1, <2>2 DEF PassInv, Lines, StatNames
    <2>4. StatsPass'
      BY <2>1 DEF StatsPass
    <2> QED BY <1>1, <1>3, <1>4, <2>1, <2>3, <2>4 DEF PassInv
  <1>6. CASE "stat" \notin ptr
    <2>1. Lines' /\ StatsPass'
      BY <1>1, <1>6 DEF PassInv, Lines, StatsPass, StatNames
    <2> QED BY <1>1, <1>3, <1>4, <1>6, <2>1 DEF PassInv
  <1> QED BY <1>5, <1>6

\* F12 opens the window, and a pass begins without a line.
LEMMA PassShow ==
  ASSUME PassInv, pc = "event", "stat" \notin ptr, NewWin({"stat"}), rows' = << >>,
         i' = 1, pc' = "rows", UNCHANGED <<statVars, stats>>
  PROVE  PassInv'
  <1>1. Len(list) \in Nat \ {0}
    BY TotalListed DEF PassInv
  <1>2. Counters' /\ (num \in [StatNames -> Nat] /\ stats <= num[TOTAL])'
    BY DEF PassInv, Counters, statVars, StatNames
  <1>3. "stat" \in ptr' /\ Len(rows') = i' - 1 /\ 1..i' - 1 = {} /\ Len(rows') = 0
    BY DEF NewWin
  <1>4. rows' \in Seq([name : StatNames, num : Nat])
    OBVIOUS
  <1>5. i' <= Len(list) + 1 /\ (cursor' = i' \/ (cursor' = 0 /\ i' = 1))
    BY <1>1 DEF PassInv, Lines, statVars
  <1>6. \A k \in 1..Len(rows') : FALSE
    BY <1>3
  <1>7. Lines'
    BY <1>3, <1>4, <1>5, <1>6 DEF Lines, statVars, StatNames
  <1> QED BY <1>2, <1>7 DEF PassInv, StatsPass

LEMMA AsSequence ==
  ASSUME NEW S, NEW n \in Nat, NEW f \in [1..n -> S] PROVE f \in Seq(S) /\ Len(f) = n
  OBVIOUS

\* A line is written: the counter at the cursor goes into its own line.
LEMMA PassRow ==
  ASSUME ScreensInv, PassInv, StatRow PROVE PassInv'
  <1> DEFINE r == [name |-> StatAtCursor, num |-> num[StatAtCursor]]
             n == IF i > Len(rows) THEN i ELSE Len(rows)
  <1>1. /\ pc = "rows" /\ pc' = "rows" /\ stats' = stats /\ ptr' = ptr /\ i' = i + 1
        /\ unreg' = unreg /\ list' = list /\ num' = num /\ entries' = entries
        /\ cursor # Len(list) + 1 /\ cursor' = (IF cursor = 0 THEN 1 ELSE cursor) + 1
        /\ rows' = [k \in 1..n |-> IF k = i THEN r ELSE rows[k]]
    BY DEF StatRow, GetAllStats, AllReturned, windowVars
  <1>2. Len(list) \in Nat \ {0} /\ Len(rows) \in Nat /\ i \in Nat \ {0} /\ stats \in Int
    BY <1>1, TotalListed DEF PassInv, Lines, ScreensInv, TypeOK
  <1>3. i <= Len(list) /\ cursor' = i' /\ StatAtCursor = list[i]
    BY <1>1, <1>2 DEF PassInv, Lines, StatAtCursor
  <1>4. n \in Nat /\ n >= i /\ n \in {i, Len(list)} /\ (\A k \in 1..n : k # i => k \in 1..Len(rows))
    BY <1>1, <1>2, <1>3 DEF PassInv, Lines
  <1>5. list[i] \in StatNames /\ r \in [name : StatNames, num : Nat]
    <2>1. list[i] \in StatNames
      BY <1>2, <1>3 DEF PassInv, Counters
    <2> QED BY <1>3, <2>1 DEF PassInv
  <1>6. rows' \in Seq([name : StatNames, num : Nat]) /\ Len(rows') = n
    <2> DEFINE L == [name : StatNames, num : Nat]
    <2>1. rows \in Seq(L)
      BY DEF PassInv, Lines
    <2>2. r \in L /\ n \in Nat /\ (\A k \in 1..n : k # i => k \in 1..Len(rows))
      BY <1>4, <1>5
    <2> HIDE DEF L, r, n
    <2>3. \A k \in 1..n : (IF k = i THEN r ELSE rows[k]) \in L
      BY <2>1, <2>2
    <2>4. rows' \in [1..n -> L]
      BY <1>1, <2>3
    <2>5. rows' \in Seq(L) /\ Len(rows') = n
      BY <2>2, <2>4, AsSequence
    <2> QED BY <2>5 DEF L
  <1>7. \A k \in 1..n : k <= Len(list) /\ rows'[k].name = list[k]
    BY <1>1, <1>2, <1>3, <1>4 DEF PassInv, Lines
  <1>8. \A k \in 1..i' - 1 : rows'[k].name = TOTAL => rows'[k].num >= stats
    <2>0. i' - 1 = i
      BY <1>1, <1>2
    <2> SUFFICES ASSUME NEW k \in 1..i, rows'[k].name = TOTAL PROVE rows'[k].num >= stats
      BY <2>0
    <2>1. k \in 1..n
      BY <1>2, <1>4
    <2>2. CASE k = i
      <3>1. rows'[k] = r /\ list[i] = TOTAL
        BY <1>1, <1>3, <2>1, <2>2
      <3>2. num[TOTAL] >= stats
        BY <1>2, StatsAssumption DEF PassInv
      <3> QED BY <1>3, <3>1, <3>2
    <2>3. CASE k # i
      <3>1. rows'[k] = rows[k] /\ k \in 1..i - 1
        BY <1>1, <1>2, <2>1, <2>3
      <3> QED BY <1>1, <3>1 DEF PassInv, Lines
    <2> QED BY <2>2, <2>3
  <1>9. Lines'
    <2>1. i' <= Len(list) + 1 /\ i' - 1 = i
      BY <1>1, <1>2, <1>3
    <2> QED BY <1>1, <1>3, <1>4, <1>6, <1>7, <1>8, <2>1 DEF PassInv, Lines, StatNames
  <1>10. Counters' /\ (num \in [StatNames -> Nat] /\ stats <= num[TOTAL])'
    BY <1>1 DEF PassInv, Counters, StatNames
  <1>11. StatsPass'
    BY <1>1 DEF StatsPass
  <1> QED BY <1>1, <1>9, <1>10, <1>11 DEF PassInv

\* get_all_stats has returned 0: every line is of this pass.
LEMMA PassDone ==
  ASSUME ScreensInv, PassInv, StatsDone PROVE PassInv'
  <1>1. /\ pc = "rows" /\ pc' \in {"event", "screen"} /\ stats' = stats /\ rows' = rows
        /\ ptr' = ptr /\ unreg' = unreg /\ list' = list /\ num' = num /\ entries' = entries
        /\ cursor = Len(list) + 1 /\ cursor' = 1
    BY DEF StatsDone, GetAllStatsEnd, AllReturned, windowVars, ScreensInv, TypeOK
  <1>2. Len(list) \in Nat \ {0} /\ i \in Nat \ {0}
    BY <1>1, TotalListed DEF PassInv, ScreensInv, TypeOK
  <1>3. Len(rows) = Len(list) /\ i - 1 = Len(list)
    BY <1>1, <1>2 DEF PassInv, Lines
  <1>4. \A n \in StatNames : \E k \in 1..Len(list) : list[k] = n
    <2> SUFFICES ASSUME NEW c \in Constructors
                 PROVE  \E k \in 1..Len(list) : list[k] = StatOf[c]
      BY DEF StatNames
    <2> QED BY <1>1 DEF PassInv, Counters
  <1>5. \A k \in 1..Len(rows) : rows[k].name = list[k]
    BY DEF PassInv, Lines
  <1>6. StatsPass'
    <2>1. Len(rows) = entries
      BY <1>3 DEF PassInv, Counters
    <2>2. \A n \in StatNames : \E k \in 1..Len(rows) : rows[k].name = n
      BY <1>3, <1>4, <1>5
    <2>3. \A k, l \in 1..Len(rows) : rows[k].name = rows[l].name => k = l
      BY <1>3, <1>5 DEF PassInv, Counters
    <2>4. \A k \in 1..Len(rows) : rows[k].name = TOTAL => rows[k].num >= stats
      BY <1>1, <1>3 DEF PassInv, Lines
    <2> QED BY <1>1, <2>1, <2>2, <2>3, <2>4 DEF StatsPass, StatNames
  <1>7. Lines' /\ Counters' /\ (num \in [StatNames -> Nat] /\ stats <= num[TOTAL])'
    BY <1>1 DEF PassInv, Lines, Counters, StatNames
  <1> QED BY <1>1, <1>6, <1>7 DEF PassInv

LEMMA PassNext ==
  ASSUME ScreensInv, PassInv, [Next]_vars PROVE PassInv'
  <1> USE DEF passVars
  <1>0. pc # "boot" => unreg = {}
    BY DEF PassInv, Counters
  <1>1. ASSUME NEW c \in Constructors, Constructor(c) PROVE PassInv'
    BY <1>1, PassConstructor
  <1>2. CASE NcursesStart
    BY <1>2, OtherPass DEF NcursesStart, windowVars, menuVars
  <1>3. CASE MenuCreate
    BY <1>3, <1>0, OtherPass DEF MenuCreate, NewWin
  <1>4. CASE InfoWindows
    BY <1>4, <1>0, OtherPass DEF InfoWindows, NewWin, menuVars
  <1>5. CASE InfoFails
    BY <1>5, <1>0, OtherPass DEF InfoFails, NewWin, menuVars
  <1>6. CASE Poll \/ MenuRefresh \/ MenuPrint
    BY <1>6, <1>0, OtherPass DEF Poll, MenuRefresh, MenuPrint, menuVars, windowVars
  <1>7. CASE MenuRemember
    BY <1>7, PassRemember
  <1>8. CASE StatRow
    BY <1>8, PassRow
  <1>9. CASE StatsDone
    BY <1>9, PassDone
  <1>10. CASE MenuEvent
    <2>1. pc = "event" /\ UNCHANGED <<statVars, stats>>
      BY <1>10 DEF MenuEvent
    <2>2. CASE key = KEY_F(12) /\ "stat" \in ptr /\ DelWin({"stat"}) /\ rows' = << >> /\ pc' = "screen"
      <3>1. "stat" \notin ptr'
        BY <2>2 DEF DelWin
      <3> QED BY <1>0, <2>1, <2>2, <3>1, OtherPass
    <2>3. CASE "stat" \notin ptr /\ NewWin({"stat"}) /\ rows' = << >> /\ i' = 1 /\ pc' = "rows"
      BY <2>1, <2>3, PassShow
    <2>4. CASE pc' = "screen" /\ UNCHANGED <<ptr, rows>>
      BY <1>0, <2>1, <2>4, OtherPass
    <2> QED BY <1>10, <2>2, <2>3, <2>4 DEF MenuEvent, ShowStatistics
  <1>11. CASE ScreenKey \/ Flush \/ LoopEnd
    BY <1>11, <1>0, OtherPass DEF ScreenKey, Flush, LoopEnd, menuVars, windowVars
  <1>12. CASE Leave
    <2>1. "stat" \notin ptr'
      BY <1>12 DEF Leave, DelWin
    <2> QED BY <1>12, <1>0, <2>1, OtherPass DEF Leave
  <1>13. CASE Switch
    BY <1>13, <1>0, OtherPass DEF Switch, menuVars, windowVars
  <1>14. CASE CountTotal \/ \E n \in StatNames : CountProtocol(n)
    <2>1. stats \in Int /\ UNCHANGED <<pc, i, stats, rows, ptr>>
      BY <1>14 DEF CountTotal, CountProtocol, menuVars, windowVars, ScreensInv, TypeOK
    <2>2. PICK n \in StatNames : UpdateStat(n)
      BY <1>14, StatsAssumption DEF CountTotal, CountProtocol
    <2> QED BY <2>1, <2>2, PassCount
  <1>15. CASE UserMsg
    BY <1>15, SamePass DEF UserMsg, menuVars, windowVars
  <1>16. CASE UNCHANGED vars
    BY <1>16, SamePass DEF vars, menuVars, windowVars
  <1> QED BY <1>1, <1>2, <1>3, <1>4, <1>5, <1>6, <1>7, <1>8, <1>9, <1>10, <1>11, <1>12, <1>13,
             <1>14, <1>15, <1>16 DEF Next, Interface, Over

\* The inductive invariant of the statistics window, for any counters.
THEOREM PassInvariant == Spec => []PassInv
  <1>1. Init => PassInv
    BY PassInit
  <1>2. ScreensInv /\ PassInv /\ [Next]_vars => PassInv'
    BY PassNext
  <1> QED BY <1>1, <1>2, ScreensInvariant, PTL DEF Spec

\* Between two passes of refresh_statistics the window has each counter in one
\* line, although get_all_stats keeps its place in a static variable, and counts
\* at least the packets that menu_refresh remembered.
THEOREM StatisticsAreComplete == Spec => []StatsPass
  <1>1. PassInv => StatsPass
    BY DEF PassInv
  <1> QED BY <1>1, PassInvariant, PTL
=============================================================================
