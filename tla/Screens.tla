------------------------------- MODULE Screens -------------------------------
(***************************************************************************)
(* The ncurses interface: ncurses_start and its windows                    *)
(* (src/lmap_ncurses.c), the screens scr_info and scr_topology             *)
(* (src/lmap_ncurses_info.c, src/lmap_ncurses_topology.c) and the menu     *)
(* (src/lmap_ncurses_menu.c), which show the counters of Stats while the   *)
(* capture thread counts, and ask Iface for the configuration.             *)
(*                                                                         *)
(* Between two steps of the interface the capture thread may count: every  *)
(* read of a counter is a step of its own.  The message queue is reduced   *)
(* to how many messages wait in it (UiQueue has the details).  Keys are    *)
(* the numbers that wgetch returns, since the loops compare them.  Texts,  *)
(* colours, borders and positions on the screen are left out.              *)
(***************************************************************************)
EXTENDS Stats, Iface

CONSTANTS
  Keys,        \* the keys that are typed; -1 is an error of wgetch
  SysLines,    \* SYS_LINES, the height of the window of system messages
  YMax,        \* the lines of its pad
  MsgRows,     \* how many lines a message may take in the pad
  MaxPackets   \* how many packets are captured

ASSUME ScreensAssumption ==
  /\ Keys \subseteq Int
  /\ SysLines \in Nat /\ SysLines >= 3
  /\ YMax \in Nat /\ YMax > SysLines - 2
  /\ MsgRows \subseteq Nat \ {0}
  /\ MaxPackets \in Nat

\* The keys of curses and of include/lmap_ncurses.h.
KEY_TAB == 9
KEY_DOWN == 258
KEY_UP == 259
KEY_NPAGE == 338
KEY_PPAGE == 339
KEY_F(n) == 264 + n
NO_KEY == 255
LOWER_Q == 113
UPPER_Q == 81

\* The pointers to windows: w_menu, w_info and w_sugg are locals of a screen,
\* w_sys and w_stat are static.
Windows == {"menu", "info", "sugg", "sys", "stat"}

VARIABLES
  pc,       \* where the interface is
  screen,   \* display_screen
  key,      \* inputkey
  ret,      \* where refresh_statistics returns to
  ptr,      \* the pointers that are not NULL
  live,     \* how many windows were created for a pointer and not deleted
  open,     \* the descriptors that the interface opened and did not close
  yscroll,  \* w_sys->y_scroll
  row,      \* the line of the cursor in the pad of w_sys
  written,  \* was a message written to the pad?
  lost,     \* was a message taken from the queue and not written?
  waiting,  \* the messages in the queue
  stats,    \* the static variable stats of the menu
  shown,    \* the number of packets that the menu shows
  i,        \* the line of w_stat that refresh_statistics writes next
  rows,     \* the counters that w_stat shows
  cpc,      \* where the capture thread is
  packets   \* how many packets were captured

scrollVars == <<yscroll, row, written, lost>>
captureVars == <<cpc, packets>>
menuVars == <<stats, shown, i, rows>>
windowVars == <<ptr, live, open>>
vars == <<pc, screen, key, ret, waiting, windowVars, scrollVars, menuVars, captureVars, statVars>>

Init ==
  /\ StatsInit
  /\ pc = "boot" /\ screen = "info" /\ key = 0 /\ ret = "event"
  /\ ptr = {} /\ live = [w \in Windows |-> 0] /\ open = 0
  /\ yscroll = 0 /\ row = 0 /\ written = FALSE /\ lost = FALSE /\ waiting = 0
  /\ stats = -1 /\ shown = -1 /\ i = 1 /\ rows = << >>
  /\ cpc = "idle" /\ packets = 0

\* newwin for the pointers in ws, and delwin, which does nothing to a NULL.
NewWin(ws) ==
  /\ ptr' = ptr \cup ws
  /\ live' = [w \in Windows |-> live[w] + IF w \in ws THEN 1 ELSE 0]

DelWin(ws) ==
  /\ ptr' = ptr \ ws
  /\ live' = [w \in Windows |-> live[w] - IF w \in ws \cap ptr THEN 1 ELSE 0]

-----------------------------------------------------------------------------
(* Before the interface: the constructors, then main calls ncurses_start *)

Constructor(c) ==
  /\ pc = "boot"
  /\ RegisterStat(c)
  /\ UNCHANGED <<pc, screen, key, ret, waiting, windowVars, scrollVars, menuVars, captureVars>>

NcursesStart ==
  /\ pc = "boot" /\ unreg = {}
  /\ screen' = "info"
  /\ pc' = "create"
  /\ UNCHANGED <<key, ret, waiting, windowVars, scrollVars, menuVars, captureVars, statVars>>

-----------------------------------------------------------------------------
(* A screen begins *)

MenuCreate ==
  /\ pc = "create"
  /\ NewWin({"menu"})
  /\ shown' = GetStat(TOTAL)
  /\ pc' = IF screen = "info" THEN "windows" ELSE "poll"
  /\ UNCHANGED <<screen, key, ret, open, waiting, scrollVars, stats, i, rows, captureVars, statVars>>

\* How far the window of system messages can be scrolled.
YEnd == YMax - (SysLines - 2)

\* Mutant: the cursor of the pad starts where the view starts.
NewScrollWinAt(y) ==
  /\ yscroll' = y
  /\ row' = y - 2
  /\ UNCHANGED <<written, lost>>

\* lmap_newscrollwin: the view is at the end of the pad, the cursor before it.
NewScrollWin(y) ==
  /\ yscroll' = y
  /\ row' = y - 1
  /\ UNCHANGED <<written, lost>>

\* scr_info creates its two windows, and w_sys the first time.
InfoWindows ==
  /\ pc = "windows"
  /\ \E r \in PrintIfaceconfig(open) :
       /\ r.ret = "ESUCCESS"
       /\ open' = r.open
  /\ NewWin({"info", "sugg"} \cup ({"sys"} \ ptr))
  /\ \/ "sys" \in ptr /\ UNCHANGED scrollVars
     \/ "sys" \notin ptr /\ NewScrollWin(YEnd)
  /\ pc' = "poll"
  /\ UNCHANGED <<screen, key, ret, waiting, menuVars, captureVars, statVars>>

\* ERROR_MSG in get_iface_ll, or for want of memory in lmap_newwin or
\* lmap_newscrollwin, or the fault in get_default_dns ends the program.
InfoFails ==
  /\ pc = "windows"
  /\ NewWin({"info"})
  /\ \E r \in PrintIfaceconfig(open) : open' = r.open
  /\ pc' = "error"
  /\ UNCHANGED <<screen, key, ret, waiting, scrollVars, menuVars, captureVars, statVars>>

-----------------------------------------------------------------------------
(* The loop of a screen *)

\* POLL_WGETCH
Poll ==
  /\ pc = "poll"
  /\ key' \in Keys \cup {NO_KEY}
  /\ pc' = "refresh"
  /\ UNCHANGED <<screen, ret, waiting, windowVars, scrollVars, menuVars, captureVars, statVars>>

\* menu_refresh compares the number of packets, ...
MenuRefresh ==
  /\ pc = "refresh"
  /\ pc' = IF stats = GetStat(TOTAL) THEN "event" ELSE "print"
  /\ UNCHANGED <<screen, key, ret, waiting, windowVars, scrollVars, menuVars, captureVars, statVars>>

\* Mutant: the menu shows the packets that were remembered before.
MenuPrintOld ==
  /\ pc = "print"
  /\ shown' = stats
  /\ pc' = "remember"
  /\ UNCHANGED <<screen, key, ret, waiting, windowVars, scrollVars, stats, i, rows, captureVars, statVars>>

\* ... reads it again to show it, ...
MenuPrint ==
  /\ pc = "print"
  /\ shown' = GetStat(TOTAL)
  /\ pc' = "remember"
  /\ UNCHANGED <<screen, key, ret, waiting, windowVars, scrollVars, stats, i, rows, captureVars, statVars>>

\* ... and once more to remember it; refresh_statistics begins if w_stat is there.
MenuRemember ==
  /\ pc = "remember"
  /\ stats' = GetStat(TOTAL)
  /\ i' = 1
  /\ ret' = "event"
  /\ pc' = IF "stat" \in ptr THEN "rows" ELSE "event"
  /\ UNCHANGED <<screen, key, waiting, windowVars, scrollVars, shown, rows, captureVars, statVars>>

\* refresh_statistics writes a counter into line i of w_stat.
StatRow ==
  /\ pc = "rows"
  /\ GetAllStats
  /\ LET r == [name |-> StatAtCursor, num |-> num[StatAtCursor]]
     IN  rows' = [k \in 1..(IF i > Len(rows) THEN i ELSE Len(rows)) |-> IF k = i THEN r ELSE rows[k]]
  /\ i' = i + 1
  /\ UNCHANGED <<pc, screen, key, ret, waiting, windowVars, scrollVars, stats, shown, captureVars>>

\* get_all_stats has returned 0, and refresh_statistics returns.
StatsDone ==
  /\ pc = "rows"
  /\ GetAllStatsEnd
  /\ pc' = ret
  /\ ret' = "event" /\ i' = 1
  /\ UNCHANGED <<screen, key, waiting, windowVars, scrollVars, stats, shown, rows, captureVars>>

\* show_statistics for F12: the window appears and is filled, or disappears.
ShowStatistics ==
  \/ /\ "stat" \in ptr
     /\ DelWin({"stat"})
     /\ rows' = << >>
     /\ pc' = "screen"
     /\ UNCHANGED <<ret, i>>
  \/ /\ "stat" \notin ptr
     /\ NewWin({"stat"})
     /\ rows' = << >>
     /\ i' = 1
     /\ ret' = "screen"
     /\ pc' = "rows"

\* What menu_event makes of a key.
MenuKey(k) ==
  CASE k = KEY_F(1) -> 1
    [] k = KEY_F(2) -> 2
    [] k = UPPER_Q -> 0
    [] OTHER -> k

\* menu_event; q has USER_MSG say how to leave.
MenuEvent ==
  /\ pc = "event"
  /\ key' = MenuKey(key)
  /\ waiting' = IF key = LOWER_Q THEN waiting + 1 ELSE waiting
  /\ \/ key = KEY_F(12) /\ ShowStatistics
     \/ key # KEY_F(12) /\ pc' = "screen" /\ UNCHANGED <<ptr, live, ret, i, rows>>
  /\ UNCHANGED <<screen, open, scrollVars, stats, shown, captureVars, statVars>>

\* Mutant: the end of the pad is not the end of the view.
LmapScrollFar(delta) ==
  LET y == yscroll + delta
  IN  IF y < 0 THEN 0 ELSE IF y > YMax THEN YMax ELSE y

\* lmap_scroll
LmapScroll(delta) ==
  LET y == yscroll + delta
  IN  IF y < 0 THEN 0 ELSE IF y > YEnd THEN YEnd ELSE y

\* The scroll indicator that lmap_drawscroller draws.
ScrollerHeight ==
  LET h == ((SysLines - 2) * (SysLines - 2)) \div YMax
  IN  IF h < 1 THEN 1 ELSE h

ScrollerPos ==
  LET v == (SysLines * yscroll) \div YMax
      low == SysLines - 1 - ScrollerHeight
  IN  IF (IF v = 0 THEN 1 ELSE v) > low THEN low ELSE IF v = 0 THEN 1 ELSE v

\* How far a key scrolls the system messages.
Delta(k) ==
  CASE k = KEY_DOWN -> 1
    [] k = KEY_UP -> -1
    [] k = KEY_NPAGE -> SysLines
    [] k = KEY_PPAGE -> -SysLines

ScrollKeys == {KEY_DOWN, KEY_UP, KEY_NPAGE, KEY_PPAGE}

\* The switch of scr_info and of scr_topology, which has no keys of its own.
\* TAB redraws w_sys and tells so.
ScreenKey ==
  /\ pc = "screen"
  /\ waiting' = IF screen = "info" /\ key = KEY_TAB THEN waiting + 1 ELSE waiting
  /\ yscroll' = IF screen = "info" /\ key \in ScrollKeys THEN LmapScroll(Delta(key)) ELSE yscroll
  /\ pc' = "flush"
  /\ UNCHANGED <<screen, key, ret, windowVars, row, written, lost, menuVars, captureVars, statVars>>

\* ui_msg_flush(-1) hands a message to ncurses_msg, which writes a newline and
\* the message at the end of the pad, or drops the message without w_sys.
Flush ==
  /\ pc = "flush" /\ waiting > 0
  /\ waiting' = waiting - 1
  /\ \/ /\ "sys" \in ptr
        /\ \E n \in MsgRows : row' = IF row + n < YMax THEN row + n ELSE YMax - 1
        /\ written' = TRUE
        /\ UNCHANGED lost
     \/ "sys" \notin ptr /\ lost' = TRUE /\ UNCHANGED <<row, written>>
  /\ UNCHANGED <<pc, screen, key, ret, windowVars, yscroll, menuVars, captureVars, statVars>>

\* The end of the loop: a small number leaves the screen, and another turn
\* starts without a key.
LoopEnd ==
  /\ pc = "flush" /\ waiting = 0
  /\ \/ key > 12 /\ pc' = "poll" /\ key' = NO_KEY
     \/ key <= 12 /\ pc' = "leave" /\ UNCHANGED key
  /\ UNCHANGED <<screen, ret, waiting, windowVars, scrollVars, menuVars, captureVars, statVars>>

-----------------------------------------------------------------------------
(* A screen ends *)

\* The windows that a screen deletes itself.
ScreenWindows == IF screen = "info" THEN {"info", "sugg"} ELSE {}

\* Mutant: menu_destroy forgets the statistics.
LeaveStat ==
  /\ pc = "leave"
  /\ DelWin({"menu"} \cup ScreenWindows)
  /\ rows' = << >>
  /\ pc' = "switch"
  /\ UNCHANGED <<screen, key, ret, open, waiting, scrollVars, stats, shown, i, captureVars, statVars>>

\* The screen deletes its windows, and calls menu_destroy.
Leave ==
  /\ pc = "leave"
  /\ DelWin({"menu", "stat"} \cup ScreenWindows)
  /\ rows' = << >>
  /\ pc' = "switch"
  /\ UNCHANGED <<screen, key, ret, open, waiting, scrollVars, stats, shown, i, captureVars, statVars>>

\* ncurses_start: 0 returns to main, any other number without a screen of its
\* own shows the same screen again.
Switch ==
  /\ pc = "switch"
  /\ screen' = CASE key = 1 -> "info" [] key = 2 -> "topology" [] OTHER -> screen
  /\ pc' = IF key = 0 THEN "main" ELSE "create"
  /\ key' = 0
  /\ UNCHANGED <<ret, waiting, windowVars, scrollVars, menuVars, captureVars, statVars>>

-----------------------------------------------------------------------------
(* The capture thread: the decoders count TOTAL first, then their protocols,
   and db_bucket_send writes messages *)

CountTotal ==
  /\ pc # "boot" /\ cpc = "idle" /\ packets < MaxPackets
  /\ UpdateStat(TOTAL)
  /\ packets' = packets + 1
  /\ cpc' = "protocol"
  /\ UNCHANGED <<pc, screen, key, ret, waiting, windowVars, scrollVars, menuVars>>

CountProtocol(n) ==
  /\ cpc = "protocol"
  /\ UpdateStat(n)
  /\ cpc' = "send"
  /\ UNCHANGED <<pc, screen, key, ret, waiting, windowVars, scrollVars, menuVars, packets>>

\* A message waits for the mutex that ui_msg_flush holds while it displays.
UserMsg ==
  /\ cpc = "send" /\ (pc = "flush" => waiting = 0)
  /\ waiting' = waiting + 1
  /\ cpc' = "idle"
  /\ UNCHANGED <<pc, screen, key, ret, windowVars, scrollVars, menuVars, packets, statVars>>

-----------------------------------------------------------------------------
Over == pc \in {"main", "error"} /\ UNCHANGED vars

\* The steps of the interface thread.
Interface ==
  \/ NcursesStart \/ MenuCreate \/ InfoWindows \/ InfoFails
  \/ Poll \/ MenuRefresh \/ MenuPrint \/ MenuRemember \/ StatRow \/ StatsDone
  \/ MenuEvent \/ ScreenKey \/ Flush \/ LoopEnd \/ Leave \/ Switch

Next ==
  \/ \E c \in Constructors : Constructor(c)
  \/ Interface
  \/ CountTotal \/ (\E n \in StatNames \ {TOTAL} : CountProtocol(n)) \/ UserMsg
  \/ Over

Spec == Init /\ [][Next]_vars

\* The interface thread is scheduled: poll has a timeout, so that the loop of a
\* screen goes round whether or not keys are typed.
FairSpec == Spec /\ WF_vars(Interface)

-----------------------------------------------------------------------------
(* Properties *)

\* The places between the beginning and the end of a screen.
Inside == {"poll", "refresh", "print", "remember", "rows", "event", "screen", "flush", "leave"}

\* The type invariant of the interface.
TypeOK ==
  /\ pc \in Inside \cup {"boot", "create", "windows", "switch", "main", "error"}
  /\ screen \in {"info", "topology"} /\ key \in Int /\ ret \in {"event", "screen"}
  /\ ptr \subseteq Windows /\ live \in [Windows -> Int] /\ open \in 0..FdLimit
  /\ yscroll \in 0..YEnd /\ row \in Int /\ {written, lost} \subseteq BOOLEAN
  /\ waiting \in Nat /\ {stats, shown} \subseteq Int /\ i \in Nat \ {0}
  /\ cpc \in {"idle", "protocol", "send"} /\ packets \in 0..MaxPackets

\* Every window that was created is reachable and is deleted once: a screen
\* deletes what it and its menu created however it is left, the statistics
\* included, and w_sys is created a single time and lives on.
WindowsOwned ==
  /\ pc # "error" => \A w \in Windows : live[w] = IF w \in ptr THEN 1 ELSE 0
  /\ pc \in {"boot", "create", "switch", "main"} => ptr \subseteq {"sys"}
  /\ pc \in Inside =>
       /\ {"menu", "sys"} \subseteq ptr
       /\ screen = "info" <=> "info" \in ptr
       /\ screen = "info" <=> "sugg" \in ptr

\* "get_all_stat has an internal counter... always run until it returns 0":
\* every time refresh_statistics returns, the window shows each registered
\* counter in exactly one line, all inside the border, and counts at least the
\* packets that menu_refresh remembered, so that a later one is not missed.
StatsPass ==
  "stat" \in ptr /\ pc # "rows" =>
    /\ Len(rows) = entries
    /\ \A n \in StatNames : \E k \in 1..Len(rows) : rows[k].name = n
    /\ \A k, l \in 1..Len(rows) : rows[k].name = rows[l].name => k = l
    /\ \A k \in 1..Len(rows) : rows[k].name = TOTAL => rows[k].num >= stats

\* No message is taken from the queue before there is a window for it, and the
\* last one is in view unless the user has scrolled back.
MessagesVisible ==
  /\ ~lost
  /\ written /\ yscroll = YEnd => row \in yscroll..yscroll + SysLines - 3

\* lmap_drawscroller never draws over the border: the indicator lies between
\* the first and the last line inside the window.
ScrollerInside ==
  /\ ScrollerPos >= 1
  /\ ScrollerPos + ScrollerHeight <= SysLines - 1

\* A number of packets that menu_refresh has not remembered when the loop
\* begins is soon shown by the menu, whatever keys are typed.
CountCatchesUp ==
  \A n \in 1..MaxPackets :
    (pc = "poll" /\ stats < n /\ num[TOTAL] >= n) ~> (shown >= n \/ pc = "error")

\* "clean up the screen and return": a screen that is left has closed what it
\* opened.
ScreenCleansUp == pc = "switch" => open = 0
==============================================================================
