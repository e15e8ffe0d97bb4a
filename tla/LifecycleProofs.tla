--------------------------- MODULE LifecycleProofs ---------------------------
(***************************************************************************)
(* Proofs about Lifecycle, for any number of signals, with or without      *)
(* failures and for both builds.                                           *)
(***************************************************************************)
EXTENDS Lifecycle, SequenceTheorems, TLAPS

\* The labels of main before it shows the interface, and those of a thread on
\* its way out of the program.
StartLabels == {"globals", "debug", "signals", "options", "initscr", "onscreen",
                "curses", "capture", "link", "manuf", "finger", "thread"}
EndLabels == {"cleanup", "endwin", "report", "hook", "exit"}

\* The capture thread has not begun to leave the program.
OnlyMain == \A l \in left : l.who = Main

\* Which threads have left where: main starts alone, the capture thread never
\* quits, and whoever is on the way out has said so.
ThreadInv ==
  /\ pc[Main] \in StartLabels \cup {"ui", "kill"} \cup EndLabels
  /\ pc[Capture] \in {"none", "loop", "dead"} \cup EndLabels
  /\ pc[Main] \in StartLabels => left = {} /\ pc[Capture] = "none" /\ handling = {}
  /\ pc[Main] \in {"ui", "kill"} => Main \notin handling
  /\ pc[Main] = "ui" => \A l \in left : l.who = Capture
  /\ pc[Main] \in {"kill"} \cup EndLabels => \E l \in left : l.who = Main
  /\ pc[Capture] \in {"none", "loop"} => OnlyMain /\ Capture \notin handling
  /\ pc[Capture] \in EndLabels => \E l \in left : l.who = Capture
  /\ \A l \in left : l.who = Capture => l.why # "quit"
  /\ pc[Capture] # "none" \/ pc[Main] \in {"ui", "kill"} => installed
  /\ pc[Main] \in StartLabels \ {"globals", "debug", "signals"} => installed

\* One more handler is registered with DEBUG.
D == IF debug THEN 1 ELSE 0

\* The place of a handler in the order of registration.
Pos(h) ==
  CASE h = "globals_free"        -> 1
    [] h = "debug_close"         -> 2
    [] h = "ncurses_cleanup"     -> 2 + D
    [] h = "capture_close"       -> 3 + D
    [] h = "discard_macdb"       -> 4 + D
    [] h = "fingerprint_discard" -> 5 + D

\* How many handlers are registered when main is at l.
Stage(l) ==
  CASE l = "globals" -> 0
    [] l = "debug" -> 1
    [] l \in {"signals", "options", "initscr", "onscreen", "curses"} -> 1 + D
    [] l \in {"capture", "link"} -> 2 + D
    [] l = "manuf" -> 3 + D
    [] l = "finger" -> 4 + D
    [] OTHER -> 5 + D

\* The handlers stand in the order of their registration.
Ordered ==
  /\ Len(hooks) <= 5 + D
  /\ \A i \in 1..Len(hooks) : Pos(hooks[i]) = i /\ (hooks[i] = "debug_close" => debug)

\* The handlers are registered in one order, each after what it releases was
\* acquired; nothing is released before it is its turn.
HookInv ==
  /\ Ordered
  /\ Len(hooks) >= 1 => globals = "alloc"
  /\ debug /\ Len(hooks) >= 2 => file = "open"
  /\ ~debug => file = "null"
  /\ Len(hooks) >= 3 + D => pcap = "open"
  /\ pc[Main] \in StartLabels => Len(hooks) = Stage(pc[Main])
  /\ pc[Main] \in {"ui", "kill"} /\ OnlyMain => Len(hooks) = 5 + D
  /\ pc[Main] \in StartLabels =>
       pcap = IF pc[Main] \in {"link", "manuf", "finger", "thread"} THEN "open" ELSE "none"

\* The premise of TerminalRestored.
Regular == \A l \in left : l.who = Main /\ l.at \notin {"onscreen", "endwin", "hook"}

\* The terminal is raw only while onscreen says so or main is about to change
\* one of them, and ncurses_cleanup will see it.
TerminalSafe ==
  /\ screen = "raw" => installed /\ (onscreen \/ pc[Main] \in {"onscreen", "endwin", "hook"})
  /\ onscreen => installed /\ Len(hooks) >= 1 + D
  /\ onscreen /\ pc[Main] \notin {"curses", "cleanup"} => Len(hooks) >= 2 + D
  /\ pc[Main] \in {"globals", "debug", "signals", "options", "initscr", "onscreen",
                   "endwin", "hook", "report"} => ~onscreen
  /\ pc[Main] \in {"curses", "capture", "link", "manuf", "finger", "thread", "ui", "kill"}
       => onscreen
  /\ Main \in handling /\ onscreen => pc[Main] = "cleanup"
  /\ ~alive => screen = "cooked"

TerminalInv == Regular => TerminalSafe

\* Main leaves the interface for good only when the capture thread has ended.
StopInv ==
  (\A l \in left : l.why = "quit") /\ pc[Main] \in EndLabels
    => pc[Capture] \in {"none", "dead"}

\* A thread that has called error_msg, alone, is on its way to print.
Pending(t) ==
  /\ alive
  /\ pc[t] \in {"cleanup", "endwin", "report"}
  /\ why[t] = "error"
  /\ t \notin handling
  /\ debug => file = "open"

\* Thread t, and no other, has left the program, by an error after the debug file
\* was opened, and no signal came.
Alone(t) ==
  /\ signals = 0
  /\ \E l \in left : l.who = t /\ l.why = "error"
  /\ \A k \in left : k.who = t /\ (debug => k.at \notin {"globals", "debug"})

ErrorInv == \A t \in Threads : Alone(t) => t \in shown \/ Pending(t)

\* The dump file is closed together with the capture.
DumpInv == pcap # "closed" => dump # "closed"

\* With DEBUG the debug file is open only as long as debug_close is registered.
FileInv == debug /\ file = "open" => Len(hooks) >= 2

LifeInv ==
  TypeOK /\ ThreadInv /\ HookInv /\ DumpInv /\ FileInv /\ TerminalInv /\ StopInv /\ ErrorInv

-----------------------------------------------------------------------------
(* Facts about the operators *)

LEMMA Builds01 == ASSUME TypeOK PROVE debug \in BOOLEAN /\ D \in 0..1
  BY LifecycleAssumption DEF TypeOK, D

\* atexit registers behind the handlers that are there.
LEMMA AtExitFacts ==
  ASSUME NEW s \in Seq(Hooks), NEW h \in Hooks
  PROVE  /\ Append(s, h) \in Seq(Hooks)
         /\ Len(Append(s, h)) = Len(s) + 1
         /\ \A i \in 1..Len(s) : Append(s, h)[i] = s[i]
         /\ Append(s, h)[Len(s) + 1] = h
  OBVIOUS

\* exit takes the last handler away and leaves the others.
LEMMA ExitFacts ==
  ASSUME NEW s \in Seq(Hooks), s # << >>
  PROVE  /\ Len(s) \in Nat /\ Len(s) >= 1
         /\ Front(s) \in Seq(Hooks)
         /\ Len(Front(s)) = Len(s) - 1
         /\ \A i \in 1..Len(s) - 1 : Front(s)[i] = s[i]
         /\ Last(s) = s[Len(s)] /\ Last(s) \in Hooks
  <1>1. Len(s) \in Nat /\ Len(s) >= 1
    BY EmptySeq
  <1>2. Front(s) = [i \in 1..Len(s) - 1 |-> s[i]]
    BY <1>1 DEF Front
  <1>3. Front(s) \in Seq(Hooks) /\ Len(Front(s)) = Len(s) - 1
    BY <1>1, <1>2
  <1>4. Last(s) = s[Len(s)] /\ Last(s) \in Hooks
    BY <1>1 DEF Last
  <1> QED BY <1>1, <1>2, <1>3, <1>4

-----------------------------------------------------------------------------
(* Type correctness *)

\* What a step may do to the threads, once one of them leaves the program: go
\* on, begin to leave (again), or end the process.
Move(t) ==
  \/ /\ pc[t] \in EndLabels
     /\ \E l \in EndLabels : Goto(t, l)
     /\ UNCHANGED <<alive, why, handling, left>>
  \/ \E w \in Reasons \ {"quit"}, l \in {"cleanup", "exit"} :
       /\ pc[t] # "none"
       /\ Leave(t, w, l)
       /\ handling' \in {handling, handling \cup {t}}
       /\ UNCHANGED alive
  \/ alive' = FALSE /\ UNCHANGED <<pc, why, handling, left>>

LEMMA CrashMove == ASSUME NEW t \in Threads, Crash(t), pc[t] # "none" PROVE Move(t)
  BY DEF Crash, Move, Reasons

LEMMA FatalMove == ASSUME NEW t \in Threads, FatalMsg(t), pc[t] # "none" PROVE Move(t)
  BY DEF FatalMsg, Move, Reasons

LEMMA ErrorMove == ASSUME NEW t \in Threads, ErrorMsg(t), pc[t] # "none" PROVE Move(t)
  BY DEF ErrorMsg, Move, Reasons

LEMMA DebugMove ==
  ASSUME NEW t \in Threads, NEW l \in EndLabels, DebugMsg(t, l),
         pc[t] \in EndLabels
  PROVE  Move(t)
  BY CrashMove, FatalMove DEF DebugMsg, Move, EndLabels

\* Failures, signals, crashes and the steps of a thread on its way out.
LEMMA MoveSteps ==
  ASSUME NEW t \in Threads
  PROVE  /\ UseReleased(t) \/ Signal(t) \/ EndStep(t) => Move(t)
         /\ t = Main /\ MainFails => Move(t)
         /\ t = Capture /\ (CaptureFails \/ DumpNull) => Move(t)
  <1>1. UseReleased(t) => Move(t)
    BY CrashMove DEF UseReleased, At
  <1>2. Signal(t) => Move(t)
    BY DEF Signal, Move, Reasons
  <1>3. Cleanup(t) => Move(t)
    BY DebugMove DEF Cleanup, EndLabels, At
  <1>4. EndWin(t) => Move(t)
    BY DebugMove DEF EndWin, EndLabels
  <1>5. Report(t) => Move(t)
    BY CrashMove DEF Report, Move, EndLabels, At
  <1>6. RunHook(t) => Move(t)
    <2> SUFFICES ASSUME RunHook(t) PROVE Move(t)
      OBVIOUS
    <2>1. HookSteps(t, Last(hooks)) /\ pc[t] = "exit"
      BY DEF RunHook, At
    <2> QED BY <2>1, DebugMove, CrashMove DEF HookSteps, Move, EndLabels
  <1>7. End(t) => Move(t)
    BY DEF End, Move
  <1>8. MainFails /\ t = Main => Move(t)
    BY ErrorMove DEF MainFails
  <1>9. (CaptureFails \/ DumpNull) /\ t = Capture => Move(t)
    BY ErrorMove, CrashMove DEF CaptureFails, DumpNull, At
  <1> QED BY <1>1, <1>2, <1>3, <1>4, <1>5, <1>6, <1>7, <1>8, <1>9 DEF EndStep

\* The part of TypeOK that is about the threads.
ThreadsTyped ==
  /\ alive \in BOOLEAN
  /\ pc \in [Threads -> Labels]
  /\ why \in [Threads -> Reasons \cup {None}]
  /\ handling \subseteq Threads
  /\ left \subseteq [who : Threads, at : Labels, why : Reasons]

LEMMA MoveType == ASSUME ThreadsTyped, NEW t \in Threads, Move(t) PROVE ThreadsTyped'
  <1> USE DEF ThreadsTyped
  <1>1. CASE (\E l \in EndLabels : Goto(t, l)) /\ UNCHANGED <<alive, why, handling, left>>
    BY <1>1 DEF Goto, EndLabels, Labels
  <1>2. ASSUME NEW w \in Reasons, NEW l \in {"cleanup", "exit"}, Leave(t, w, l),
               handling' \in {handling, handling \cup {t}}, UNCHANGED alive
        PROVE  ThreadsTyped'
    <2>1. l \in Labels /\ pc[t] \in Labels
      BY DEF Labels
    <2>2. pc' \in [Threads -> Labels] /\ why' \in [Threads -> Reasons \cup {None}]
      BY <1>2, <2>1 DEF Leave, Goto
    <2>3. left' \subseteq [who : Threads, at : Labels, why : Reasons]
      BY <1>2, <2>1 DEF Leave
    <2> QED BY <1>2, <2>2, <2>3
  <1>3. CASE alive' = FALSE /\ UNCHANGED <<pc, why, handling, left>>
    BY <1>3
  <1> QED BY <1>1, <1>2, <1>3 DEF Move

\* The part of TypeOK that is about everything else.
FilesTyped ==
  /\ debug \in Builds /\ installed \in BOOLEAN /\ signals \in 0..MaxSignals
  /\ hooks \in Seq(Hooks)
  /\ globals \in {"none", "alloc", "freed"} /\ file \in {"null", "open", "closed"}
  /\ screen \in {"cooked", "raw"} /\ onscreen \in BOOLEAN
  /\ pcap \in {"none", "open", "closed"}
  /\ dump \in {"none", "open", "null", "closed"} \cup (IF pcap = "none" THEN {"asked"} ELSE {})
  /\ shown \subseteq Threads

\* The steps of main that start the program.
LEMMA StartType ==
  ASSUME LifeInv, MainStep
  PROVE  ThreadsTyped' /\ FilesTyped'
  <1> USE LifecycleAssumption DEF LifeInv, TypeOK, At, AtExit, Goto, files, ui, Hooks,
          ThreadsTyped, FilesTyped
  <1>1. CASE GlobalsAlloc
    BY <1>1, AtExitFacts DEF GlobalsAlloc, Labels, Threads
  <1>2. CASE DebugInit
    <2>1. hooks' \in Seq(Hooks) /\ file' \in {"null", "open", "closed"}
      BY <1>2, AtExitFacts DEF DebugInit
    <2> QED BY <1>2, <2>1 DEF DebugInit, Labels, Threads
  <1>3. CASE SignalHandler
    BY <1>3 DEF SignalHandler, Labels, Threads
  <1>4. CASE ParseOptions
    <2>1. pcap = "none"
      BY <1>4 DEF ParseOptions, HookInv, StartLabels
    <2>2. CASE \E d \in {"none", "asked"} :
                 dump' = d /\ Goto(Main, "initscr") /\ UNCHANGED <<why, left>>
      BY <1>4, <2>1, <2>2 DEF ParseOptions, Labels, Threads
    <2>3. CASE Leave(Main, "fatal", "exit") /\ UNCHANGED dump
      <3>1. Move(Main)
        BY <1>4, <2>3 DEF ParseOptions, Move, Reasons
      <3> QED BY <1>4, <2>3, <3>1, MoveType DEF ParseOptions, Threads
    <2> QED BY <1>4, <2>2, <2>3 DEF ParseOptions
  <1>5. CASE InitScr
    BY <1>5 DEF InitScr, Labels, Threads
  <1>6. CASE OnScreen
    BY <1>6 DEF OnScreen, Labels, Threads
  <1>7. CASE NcursesHook
    BY <1>7, AtExitFacts DEF NcursesHook, Labels, Threads
  <1>8. CASE CaptureOpen
    BY <1>8 DEF CaptureOpen, Labels, Threads
  <1>9. CASE CaptureLink
    <2>1. CASE AtExit("capture_close") /\ Goto(Main, "manuf")
                 /\ UNCHANGED <<alive, why, handling, left>>
      BY <1>9, <2>1, AtExitFacts DEF CaptureLink, Labels, Threads
    <2>2. CASE FatalMsg(Main) /\ UNCHANGED hooks
      <3>1. Move(Main)
        BY <1>9, <2>2, FatalMove DEF CaptureLink, Threads
      <3> QED BY <1>9, <2>2, <3>1, MoveType DEF CaptureLink, Threads
    <2> QED BY <1>9, <2>1, <2>2 DEF CaptureLink
  <1>10. CASE ManufInit
    BY <1>10, AtExitFacts DEF ManufInit, Labels, Threads
  <1>11. CASE FingerprintInit
    BY <1>11, AtExitFacts DEF FingerprintInit, Labels, Threads
  <1>12. CASE StartCapture
    BY <1>12 DEF StartCapture, Labels, Threads
  <1>13. CASE KillAll
    BY <1>13 DEF KillAll, Labels, Threads
  <1> QED BY <1>1, <1>2, <1>3, <1>4, <1>5, <1>6, <1>7, <1>8, <1>9, <1>10, <1>11, <1>12,
             <1>13 DEF MainStep

\* The type invariant is kept.
LEMMA TypeStep ==
  ASSUME LifeInv, [Next]_vars
  PROVE  TypeOK'
  <1> SUFFICES ThreadsTyped' /\ FilesTyped'
    BY DEF TypeOK, ThreadsTyped, FilesTyped
  <1> USE LifecycleAssumption DEF LifeInv
  <1>a. ThreadsTyped /\ FilesTyped /\ Main \in Threads /\ Capture \in Threads
    BY DEF TypeOK, ThreadsTyped, FilesTyped, Threads
  <1>1. CASE MainStep
    BY <1>1, StartType
  <1>2. CASE MainFails
    <2>1. ThreadsTyped'
      BY <1>2, <1>a, MoveSteps, MoveType
    <2> QED BY <1>2, <1>a, <2>1 DEF MainFails, FilesTyped, files, ui
  <1>3. CASE Draw
    BY <1>3, <1>a DEF Draw, ThreadsTyped, FilesTyped, files
  <1>4. CASE Quit
    <2>1. ThreadsTyped'
      <3>1. "quit" \in Reasons /\ "kill" \in Labels
        BY DEF Reasons, Labels
      <3> QED BY <1>4, <1>a, <3>1 DEF Quit, ThreadsTyped, Leave, Goto
    <2> QED BY <1>4, <1>a, <2>1 DEF Quit, FilesTyped, files, ui
  <1>5. CASE CaptureDead
    BY <1>5, <1>a DEF CaptureDead, ThreadsTyped, FilesTyped, files, ui, Goto, Labels
  <1>6. CASE CaptureFails \/ DumpNull
    <2>1. ThreadsTyped'
      BY <1>6, <1>a, MoveSteps, MoveType
    <2> QED BY <1>6, <1>a, <2>1 DEF CaptureFails, DumpNull, FilesTyped, files, ui
  <1>7. ASSUME NEW t \in Threads, UseReleased(t) \/ Signal(t) \/ EndStep(t) PROVE ThreadsTyped' /\ FilesTyped'
    <2>1. ThreadsTyped'
      BY <1>7, <1>a, MoveSteps, MoveType
    <2>2. CASE UseReleased(t)
      BY <1>a, <2>1, <2>2 DEF UseReleased, FilesTyped, files, ui
    <2>3. CASE Signal(t)
      BY <1>a, <2>1, <2>3 DEF Signal, FilesTyped, files, ui
    <2>4. CASE Cleanup(t)
      BY <1>a, <2>1, <2>4 DEF Cleanup, FilesTyped, files
    <2>5. CASE EndWin(t)
      BY <1>a, <2>1, <2>5 DEF EndWin, FilesTyped, files
    <2>6. CASE Report(t)
      BY <1>a, <2>1, <2>6 DEF Report, FilesTyped, files, ui
    <2>7. CASE RunHook(t)
      <3>1. hooks' \in Seq(Hooks) /\ Last(hooks) \in Hooks
        BY <1>a, <2>7, ExitFacts DEF RunHook, FilesTyped
      <3>2. /\ globals' \in {"none", "alloc", "freed"} /\ file' \in {"null", "open", "closed"}
            /\ pcap' \in {"none", "open", "closed"}
        BY <1>a, <2>7 DEF RunHook, Released, FilesTyped
      <3>3. dump' \in {"none", "open", "null", "closed"}
                       \cup (IF pcap' = "none" THEN {"asked"} ELSE {})
        <4>1. CASE Last(hooks) = "capture_close"
          <5>1. pcap = "open"
            <6>1. Len(hooks) \in Nat /\ Len(hooks) >= 1 /\ Last(hooks) = hooks[Len(hooks)]
              BY <1>a, <2>7, ExitFacts DEF RunHook, FilesTyped
            <6>2. Pos(Last(hooks)) = Len(hooks)
              BY <6>1 DEF HookInv, Ordered
            <6>3. Pos("capture_close") = 3 + D
              BY DEF Pos
            <6> QED BY <4>1, <6>1, <6>2, <6>3, Builds01 DEF HookInv
          <5> QED BY <1>a, <2>7, <4>1, <5>1 DEF RunHook, Released, FilesTyped
        <4>2. CASE Last(hooks) # "capture_close"
          BY <1>a, <2>7, <4>2 DEF RunHook, Released, FilesTyped
        <4> QED BY <4>1, <4>2
      <3>4. onscreen' \in BOOLEAN
        BY <1>a, <2>7 DEF RunHook, FilesTyped
      <3> QED BY <1>a, <2>1, <2>7, <3>1, <3>2, <3>3, <3>4 DEF RunHook, FilesTyped
    <2>8. CASE End(t)
      BY <1>a, <2>1, <2>8 DEF End, FilesTyped, files, ui
    <2> QED BY <1>7, <2>2, <2>3, <2>4, <2>5, <2>6, <2>7, <2>8 DEF EndStep
  <1>8. CASE UNCHANGED vars
    BY <1>a, <1>8 DEF vars, files, ui, ThreadsTyped, FilesTyped
  <1> QED BY <1>1, <1>2, <1>3, <1>4, <1>5, <1>6, <1>7, <1>8 DEF Next, Over

-----------------------------------------------------------------------------
(* Which threads have left *)

LEMMA MoveThreadInv ==
  ASSUME TypeOK, ThreadInv, NEW t \in Threads, Move(t), installed' = installed
  PROVE  ThreadInv'
  <1> USE LifecycleAssumption DEF Threads, StartLabels, EndLabels, Goto
  <1>1. CASE /\ pc[t] \in EndLabels
             /\ \E l \in EndLabels : Goto(t, l)
             /\ UNCHANGED <<alive, why, handling, left>>
    BY <1>1 DEF ThreadInv, TypeOK, OnlyMain
  <1>2. ASSUME NEW w \in Reasons \ {"quit"}, NEW l \in {"cleanup", "exit"}, pc[t] # "none",
               Leave(t, w, l), handling' \in {handling, handling \cup {t}}
        PROVE  ThreadInv'
    <2> DEFINE r == [who |-> t, at |-> pc[t], why |-> w]
    <2>1. left' = left \cup {r} /\ r.who = t /\ r.why # "quit"
      BY <1>2 DEF Leave
    <2> HIDE DEF r
    <2>2. pc' = [pc EXCEPT ![t] = l]
      BY <1>2 DEF Leave
    <2>3. CASE t = Main
      BY <1>2, <2>1, <2>2, <2>3 DEF ThreadInv, TypeOK, OnlyMain
    <2>4. CASE t = Capture
      BY <1>2, <2>1, <2>2, <2>4 DEF ThreadInv, TypeOK, OnlyMain
    <2> QED BY <2>3, <2>4
  <1>3. CASE UNCHANGED <<pc, why, handling, left>>
    BY <1>3 DEF ThreadInv, OnlyMain
  <1> QED BY <1>1, <1>2, <1>3 DEF Move

LEMMA ThreadStep ==
  ASSUME LifeInv, [Next]_vars
  PROVE  ThreadInv'
  <1> USE LifecycleAssumption DEF LifeInv
  <1>a. Main \in Threads /\ Capture \in Threads /\ TypeOK /\ ThreadInv
    BY DEF Threads
  <1>1. CASE MainStep
    <2> USE <1>a DEF ThreadInv, At, Goto, StartLabels, EndLabels, OnlyMain
    <2>1. CASE GlobalsAlloc \/ DebugInit
      BY <2>1 DEF GlobalsAlloc, DebugInit, TypeOK
    <2>2. CASE SignalHandler
      BY <2>2 DEF SignalHandler, TypeOK
    <2>3. CASE ParseOptions
      <3>1. CASE Leave(Main, "fatal", "exit")
        <4>1. Move(Main) /\ installed' = installed
          BY <2>3, <3>1 DEF ParseOptions, Move, Reasons
        <4> QED BY <4>1, MoveThreadInv
      <3>2. CASE Goto(Main, "initscr") /\ UNCHANGED <<why, left>>
        BY <2>3, <3>2 DEF ParseOptions, TypeOK
      <3> QED BY <2>3, <3>1, <3>2 DEF ParseOptions
    <2>4. CASE InitScr \/ OnScreen \/ NcursesHook \/ CaptureOpen
      BY <2>4 DEF InitScr, OnScreen, NcursesHook, CaptureOpen, TypeOK
    <2>5. CASE CaptureLink
      <3>1. CASE FatalMsg(Main)
        <4>1. Move(Main) /\ installed' = installed
          BY <2>5, <3>1, FatalMove DEF CaptureLink
        <4> QED BY <4>1, MoveThreadInv
      <3>2. CASE Goto(Main, "manuf") /\ UNCHANGED <<alive, why, handling, left>>
        BY <2>5, <3>2 DEF CaptureLink, TypeOK
      <3> QED BY <2>5, <3>1, <3>2 DEF CaptureLink
    <2>6. CASE ManufInit \/ FingerprintInit
      BY <2>6 DEF ManufInit, FingerprintInit, TypeOK
    <2>7. CASE StartCapture
      BY <2>7 DEF StartCapture, TypeOK
    <2>8. CASE KillAll
      BY <2>8 DEF KillAll, TypeOK
    <2> QED BY <1>1, <2>1, <2>2, <2>3, <2>4, <2>5, <2>6, <2>7, <2>8 DEF MainStep
  <1>2. CASE MainFails \/ CaptureFails \/ DumpNull
    BY <1>2, <1>a, MoveSteps, MoveThreadInv DEF MainFails, CaptureFails, DumpNull
  <1>3. CASE Draw
    BY <1>3, <1>a DEF Draw, ThreadInv, OnlyMain
  <1>4. CASE Quit
    <2> DEFINE r == [who |-> Main, at |-> pc[Main], why |-> "quit"]
    <2>1. left' = left \cup {r} /\ r.who = Main /\ pc' = [pc EXCEPT ![Main] = "kill"]
      BY <1>4 DEF Quit, Leave, Goto
    <2> HIDE DEF r
    <2> QED BY <1>4, <1>a, <2>1 DEF Quit, At, ThreadInv, TypeOK, OnlyMain, StartLabels, EndLabels
  <1>5. CASE CaptureDead
    BY <1>5, <1>a DEF CaptureDead, ThreadInv, TypeOK, OnlyMain, StartLabels, EndLabels, Goto
  <1>6. ASSUME NEW t \in Threads, UseReleased(t) \/ Signal(t) \/ EndStep(t) PROVE ThreadInv'
    <2>1. installed' = installed
      BY <1>6 DEF UseReleased, Signal, EndStep, Cleanup, EndWin, Report, RunHook, End
    <2> QED BY <1>6, <1>a, <2>1, MoveSteps, MoveThreadInv
  <1>7. CASE UNCHANGED vars
    BY <1>7, <1>a DEF vars, ThreadInv, OnlyMain
  <1> QED BY <1>1, <1>2, <1>3, <1>4, <1>5, <1>6, <1>7 DEF Next, Over

-----------------------------------------------------------------------------
(* The handlers *)

\* Registering the handler whose turn it is keeps the order.
LEMMA PushOrdered ==
  ASSUME TypeOK, Ordered, NEW h \in Hooks, AtExit(h), debug' = debug,
         Pos(h) = Len(hooks) + 1, h = "debug_close" => debug, Len(hooks) <= 4 + D
  PROVE  Ordered' /\ Len(hooks') = Len(hooks) + 1
  <1>1. hooks \in Seq(Hooks) /\ Len(hooks) \in Nat
    BY DEF TypeOK
  <1>2. /\ Len(hooks') = Len(hooks) + 1
        /\ \A i \in 1..Len(hooks) : hooks'[i] = hooks[i]
        /\ hooks'[Len(hooks) + 1] = h
    BY <1>1, AtExitFacts DEF AtExit
  <1>3. D' = D /\ (\A g : Pos(g)' = Pos(g))
    BY DEF D, Pos
  <1>4. ASSUME NEW i \in 1..Len(hooks')
        PROVE  Pos(hooks'[i]) = i /\ (hooks'[i] = "debug_close" => debug)
    <2>1. CASE i \in 1..Len(hooks)
      BY <1>2, <2>1 DEF Ordered
    <2>2. CASE i = Len(hooks) + 1
      BY <1>2, <2>2
    <2> QED BY <1>1, <1>2, <2>1, <2>2
  <1>5. (\A i \in 1..Len(hooks) : Pos(hooks[i]) = i /\ (hooks[i] = "debug_close" => debug))'
    BY <1>3, <1>4
  <1> QED BY <1>1, <1>2, <1>3, <1>5, Builds01 DEF Ordered

\* The handler that exit runs is the one at the end of the order, and the rest
\* stays ordered.
LEMMA PopOrdered ==
  ASSUME TypeOK, Ordered, hooks # << >>, hooks' = Front(hooks), debug' = debug
  PROVE  /\ Len(hooks) \in Nat /\ Len(hooks) >= 1 /\ Len(hooks') = Len(hooks) - 1
         /\ Ordered' /\ Last(hooks) \in Hooks /\ Pos(Last(hooks)) = Len(hooks)
         /\ Last(hooks) = "debug_close" => debug
  <1>1. /\ hooks \in Seq(Hooks) /\ Len(hooks) \in Nat /\ Len(hooks) >= 1
        /\ Len(hooks') = Len(hooks) - 1
        /\ \A i \in 1..Len(hooks) - 1 : hooks'[i] = hooks[i]
        /\ Last(hooks) = hooks[Len(hooks)] /\ Last(hooks) \in Hooks
    BY ExitFacts DEF TypeOK
  <1>2. D' = D /\ (\A g : Pos(g)' = Pos(g)) /\ D \in 0..1
    BY Builds01 DEF D, Pos
  <1>3. \A i \in 1..Len(hooks') : Pos(hooks'[i]) = i /\ (hooks'[i] = "debug_close" => debug)
    BY <1>1 DEF Ordered
  <1>4. (\A i \in 1..Len(hooks) : Pos(hooks[i]) = i /\ (hooks[i] = "debug_close" => debug))'
    BY <1>2, <1>3
  <1>5. Ordered'
    BY <1>1, <1>2, <1>4 DEF Ordered
  <1> QED BY <1>1, <1>5 DEF Ordered

\* A thread that leaves, or dies, changes no handler.
LEMMA MoveHookInv ==
  ASSUME LifeInv, NEW t \in Threads, Move(t), UNCHANGED <<debug, hooks, globals, file, pcap>>
  PROVE  HookInv'
  <1> USE LifecycleAssumption DEF LifeInv, Threads
  <1>1. D' = D /\ (\A g : Pos(g)' = Pos(g) /\ Stage(g)' = Stage(g))
    BY DEF D, Pos, Stage
  <1>2. OnlyMain' => OnlyMain
    BY DEF Move, OnlyMain, Leave
  <1>3. pc'[Main] = pc[Main] \/ pc'[Main] \in EndLabels
    BY DEF Move, Leave, Goto, TypeOK, EndLabels
  <1>4. pc'[Main] \in StartLabels \cup {"ui", "kill"} => pc'[Main] = pc[Main]
    BY <1>3 DEF StartLabels, EndLabels
  <1> QED BY <1>1, <1>2, <1>4 DEF HookInv, Ordered

LEMMA HookStep ==
  ASSUME LifeInv, [Next]_vars
  PROVE  HookInv'
  <1> USE LifecycleAssumption DEF LifeInv
  <1>a. /\ Main \in Threads /\ Capture \in Threads /\ TypeOK /\ Ordered
        /\ debug \in BOOLEAN /\ D \in 0..1 /\ Len(hooks) \in Nat
    BY Builds01 DEF Threads, HookInv, TypeOK
  <1>b. ASSUME debug' = debug PROVE D' = D /\ (\A g : Pos(g)' = Pos(g) /\ Stage(g)' = Stage(g))
    BY <1>b DEF D, Pos, Stage
  <1>1. CASE MainStep
    <2>a. debug' = debug /\ D' = D /\ (\A g : Pos(g)' = Pos(g) /\ Stage(g)' = Stage(g))
      <3>1. debug' = debug
        BY <1>1 DEF MainStep, GlobalsAlloc, DebugInit, SignalHandler, ParseOptions, InitScr,
           OnScreen, NcursesHook, CaptureOpen, CaptureLink, ManufInit, FingerprintInit,
           StartCapture, KillAll
      <3> QED BY <3>1, <1>b
    <2> USE <1>a, <2>a DEF At, Goto, StartLabels
    <2>1. CASE GlobalsAlloc
      <3>1. Len(hooks) = 0 /\ pc' = [pc EXCEPT ![Main] = "debug"] /\ globals' = "alloc"
        BY <2>1 DEF GlobalsAlloc, HookInv, Stage
      <3>2. Pos("globals_free") = 1 /\ "globals_free" \in Hooks
        BY DEF Pos, Hooks
      <3>3. Ordered' /\ Len(hooks') = 1
        BY <2>1, <3>1, <3>2, PushOrdered DEF GlobalsAlloc
      <3> QED BY <2>1, <3>1, <3>3 DEF GlobalsAlloc, HookInv, Stage, TypeOK
    <2>2. CASE DebugInit
      <3>1. Len(hooks) = 1 /\ pc' = [pc EXCEPT ![Main] = "signals"]
        BY <2>2 DEF DebugInit, HookInv, Stage
      <3>2. CASE debug
        <4>1. Pos("debug_close") = 2 /\ "debug_close" \in Hooks /\ D = 1
          BY <3>2 DEF Pos, Hooks, D
        <4>2. Ordered' /\ Len(hooks') = 2
          BY <2>2, <3>1, <3>2, <4>1, PushOrdered DEF DebugInit
        <4> QED BY <2>2, <3>1, <3>2, <4>1, <4>2 DEF DebugInit, HookInv, Stage, TypeOK
      <3>3. CASE ~debug
        <4>1. D = 0 /\ UNCHANGED <<file, hooks, globals, pcap>>
          BY <2>2, <3>3 DEF DebugInit, D
        <4>2. Ordered'
          BY <4>1 DEF Ordered
        <4>3. pc'[Main] = "signals" /\ Stage("signals") = 1 /\ pcap = "none"
          BY <2>2, <3>1, <4>1 DEF DebugInit, HookInv, Stage, TypeOK
        <4> QED BY <3>1, <3>3, <4>1, <4>2, <4>3 DEF HookInv
      <3> QED BY <3>2, <3>3
    <2>3. CASE SignalHandler
      BY <2>3 DEF SignalHandler, HookInv, Ordered, Stage, TypeOK, files
    <2>4. CASE ParseOptions
      <3>1. CASE Leave(Main, "fatal", "exit")
        <4>1. Move(Main)
          BY <2>4, <3>1 DEF ParseOptions, Move, Reasons
        <4> QED BY <2>4, <4>1, MoveHookInv DEF ParseOptions
      <3>2. CASE Goto(Main, "initscr") /\ UNCHANGED <<why, left>>
        BY <2>4, <3>2 DEF ParseOptions, HookInv, Ordered, Stage, TypeOK
      <3> QED BY <2>4, <3>1, <3>2 DEF ParseOptions
    <2>5. CASE InitScr \/ OnScreen
      BY <2>5 DEF InitScr, OnScreen, HookInv, Ordered, Stage, TypeOK, files
    <2>6. CASE NcursesHook
      <3>1. Len(hooks) = 1 + D /\ pc' = [pc EXCEPT ![Main] = "capture"]
        BY <2>6 DEF NcursesHook, HookInv, Stage
      <3>2. Pos("ncurses_cleanup") = 2 + D /\ "ncurses_cleanup" \in Hooks
        BY DEF Pos, Hooks
      <3>3. Ordered' /\ Len(hooks') = 2 + D
        BY <2>6, <3>1, <3>2, PushOrdered DEF NcursesHook
      <3>4. pc'[Main] = "capture" /\ Stage("capture") = 2 + D
        BY <3>1 DEF Stage, TypeOK
      <3>5. UNCHANGED <<globals, file, pcap>> /\ pcap = "none"
        BY <2>6 DEF NcursesHook, HookInv, files
      <3>6. debug => D = 1
        BY DEF D
      <3> QED BY <3>1, <3>3, <3>4, <3>5, <3>6 DEF HookInv
    <2>7. CASE CaptureOpen
      BY <2>7 DEF CaptureOpen, HookInv, Ordered, Stage, TypeOK
    <2>8. CASE CaptureLink
      <3>1. CASE FatalMsg(Main) /\ UNCHANGED hooks
        <4>1. Move(Main)
          BY <2>8, <3>1, FatalMove DEF CaptureLink
        <4> QED BY <2>8, <3>1, <4>1, MoveHookInv DEF CaptureLink, files
      <3>2. CASE AtExit("capture_close") /\ Goto(Main, "manuf")
                   /\ UNCHANGED <<alive, why, handling, left>>
        <4>1. Len(hooks) = 2 + D /\ pcap = "open"
          BY <2>8 DEF CaptureLink, HookInv, Stage
        <4>2. Pos("capture_close") = 3 + D /\ "capture_close" \in Hooks
          BY DEF Pos, Hooks
        <4>3. Ordered' /\ Len(hooks') = 3 + D
          BY <3>2, <4>1, <4>2, PushOrdered
        <4> QED BY <2>8, <3>2, <4>1, <4>3 DEF CaptureLink, HookInv, Stage, TypeOK, files
      <3> QED BY <2>8, <3>1, <3>2 DEF CaptureLink
    <2>9. CASE ManufInit
      <3>1. Len(hooks) = 3 + D /\ pc' = [pc EXCEPT ![Main] = "finger"]
        BY <2>9 DEF ManufInit, HookInv, Stage
      <3>2. Pos("discard_macdb") = 4 + D /\ "discard_macdb" \in Hooks
        BY DEF Pos, Hooks
      <3>3. Ordered' /\ Len(hooks') = 4 + D
        BY <2>9, <3>1, <3>2, PushOrdered DEF ManufInit
      <3> QED BY <2>9, <3>1, <3>3 DEF ManufInit, HookInv, Stage, TypeOK, files
    <2>10. CASE FingerprintInit
      <3>1. Len(hooks) = 4 + D /\ pc' = [pc EXCEPT ![Main] = "thread"]
        BY <2>10 DEF FingerprintInit, HookInv, Stage
      <3>2. Pos("fingerprint_discard") = 5 + D /\ "fingerprint_discard" \in Hooks
        BY DEF Pos, Hooks
      <3>3. Ordered' /\ Len(hooks') = 5 + D
        BY <2>10, <3>1, <3>2, PushOrdered DEF FingerprintInit
      <3> QED BY <2>10, <3>1, <3>3 DEF FingerprintInit, HookInv, Stage, TypeOK, files
    <2>11. CASE StartCapture
      <3>1. pc'[Main] = "ui" /\ Len(hooks) = 5 + D
        BY <2>11 DEF StartCapture, HookInv, Stage, TypeOK, Threads
      <3> QED BY <2>11, <3>1 DEF StartCapture, HookInv, Ordered, files
    <2>12. CASE KillAll
      BY <2>12 DEF KillAll, HookInv, Ordered, TypeOK, files
    <2> QED BY <1>1, <2>1, <2>2, <2>3, <2>4, <2>5, <2>6, <2>7, <2>8, <2>9, <2>10, <2>11, <2>12
            DEF MainStep
  <1>2. CASE MainFails \/ CaptureFails \/ DumpNull
    BY <1>2, <1>a, MoveSteps, MoveHookInv DEF MainFails, CaptureFails, DumpNull, files
  <1>3. CASE Draw
    BY <1>3, <1>b DEF Draw, HookInv, Ordered, OnlyMain, files
  <1>4. CASE Quit
    <2>1. pc' = [pc EXCEPT ![Main] = "kill"] /\ (OnlyMain' => OnlyMain) /\ pc[Main] = "ui"
      BY <1>4 DEF Quit, Leave, Goto, OnlyMain, At
    <2> QED BY <1>4, <1>a, <1>b, <2>1 DEF Quit, HookInv, Ordered, TypeOK, StartLabels, files
  <1>5. CASE CaptureDead
    BY <1>5, <1>a, <1>b DEF CaptureDead, Goto, HookInv, Ordered, OnlyMain, TypeOK, files
  <1>6. ASSUME NEW t \in Threads, UseReleased(t) \/ Signal(t) \/ EndStep(t) PROVE HookInv'
    <2>1. Move(t) /\ debug' = debug
      BY <1>6, MoveSteps DEF UseReleased, Signal, EndStep, Cleanup, EndWin, Report, RunHook, End
    <2>2. CASE ~RunHook(t)
      BY <1>6, <2>1, <2>2, MoveHookInv
         DEF UseReleased, Signal, EndStep, Cleanup, EndWin, Report, End, files
    <2>3. CASE RunHook(t)
      <3>1. /\ Len(hooks') = Len(hooks) - 1 /\ Ordered' /\ Last(hooks) \in Hooks
            /\ Len(hooks) >= 1 /\ Pos(Last(hooks)) = Len(hooks)
            /\ Last(hooks) = "debug_close" => debug
        BY <1>a, <2>3, PopOrdered DEF RunHook
      <3>2. D' = D
        BY <1>b, <2>1
      <3>3. Len(hooks') >= 1 => globals' = "alloc"
        BY <1>a, <2>3, <3>1 DEF RunHook, Released, HookInv, Pos
      <3>4. debug /\ Len(hooks') >= 2 => file' = "open"
        BY <1>a, <2>3, <3>1 DEF RunHook, Released, HookInv, Pos
      <3>5. ~debug => file' = "null"
        BY <1>a, <2>3, <3>1 DEF RunHook, Released, HookInv
      <3>6. Len(hooks') >= 3 + D => pcap' = "open"
        BY <1>a, <2>3, <3>1 DEF RunHook, Released, HookInv, Pos
      <3>7. pc'[Main] \in {"ui", "kill"} => ~OnlyMain'
        <4>1. pc[t] = "exit" /\ (OnlyMain' => OnlyMain) /\ (\E l \in left : l.who = t)
          <5>1. OnlyMain' => OnlyMain
            BY <2>1 DEF Move, OnlyMain, Leave
          <5>2. pc[t] = "exit"
            BY <2>3 DEF RunHook, At
          <5>3. \E l \in left : l.who = t
            BY <5>2 DEF ThreadInv, EndLabels, Threads
          <5> QED BY <5>1, <5>2, <5>3
        <4>2. CASE t = Main
          <5>1. pc'[Main] \in EndLabels
            BY <1>a, <2>1, <4>1, <4>2 DEF Move, Leave, Goto, TypeOK, EndLabels
          <5> QED BY <5>1 DEF EndLabels
        <4>3. CASE t = Capture
          BY <4>1, <4>3 DEF OnlyMain
        <4> QED BY <4>2, <4>3 DEF Threads
      <3>8. pc'[Main] \notin StartLabels
        <4>1. CASE t = Main
          <5>1. pc'[Main] \in EndLabels
            BY <1>a, <2>1, <2>3, <4>1 DEF RunHook, At, Move, Leave, Goto, TypeOK, EndLabels
          <5> QED BY <5>1 DEF StartLabels, EndLabels
        <4>2. CASE t = Capture
          <5>1. pc[Capture] = "exit" /\ pc'[Main] = pc[Main]
            BY <1>a, <2>1, <2>3, <4>2 DEF RunHook, At, Move, Leave, Goto, TypeOK
          <5> QED BY <5>1 DEF ThreadInv
        <4> QED BY <4>1, <4>2 DEF Threads
      <3> QED BY <2>1, <3>1, <3>2, <3>3, <3>4, <3>5, <3>6, <3>7, <3>8 DEF HookInv
    <2> QED BY <2>2, <2>3
  <1>7. CASE UNCHANGED vars
    BY <1>7, <1>b DEF vars, files, HookInv, Ordered, OnlyMain
  <1> QED BY <1>1, <1>2, <1>3, <1>4, <1>5, <1>6, <1>7 DEF Next, Over

LEMMA DumpStep == ASSUME LifeInv, [Next]_vars PROVE DumpInv'
  <1> USE DEF LifeInv
  <1>1. CASE CaptureOpen
    <2>1. pcap = "none"
      BY <1>1 DEF CaptureOpen, At, HookInv, StartLabels
    <2>2. dump # "closed" /\ dump' \in {dump, "open", "null"}
      BY <1>1, <2>1 DEF CaptureOpen, DumpInv
    <2> QED BY <2>2 DEF DumpInv
  <1>2. ASSUME NEW t \in Threads, RunHook(t) PROVE DumpInv'
    <2>1. CASE Last(hooks) = "capture_close"
      BY <1>2, <2>1 DEF RunHook, Released, DumpInv
    <2>2. CASE Last(hooks) # "capture_close"
      BY <1>2, <2>2 DEF RunHook, Released, DumpInv
    <2> QED BY <2>1, <2>2
  <1>3. CASE ParseOptions
    BY <1>3 DEF ParseOptions, DumpInv
  <1>4. CASE UNCHANGED <<pcap, dump>>
    BY <1>4 DEF DumpInv
  <1>5. UNCHANGED <<pcap, dump>> \/ CaptureOpen \/ ParseOptions \/ \E t \in Threads : RunHook(t)
    BY DEF vars, files, Next, Over, MainStep, GlobalsAlloc, DebugInit, SignalHandler, InitScr,
       OnScreen, NcursesHook, CaptureLink, ManufInit, FingerprintInit, StartCapture, KillAll,
       MainFails, Draw, Quit, CaptureDead, CaptureFails, DumpNull, UseReleased, Signal,
       EndStep, Cleanup, EndWin, Report, End
  <1> QED BY <1>1, <1>2, <1>3, <1>4, <1>5

LEMMA FileStep == ASSUME LifeInv, [Next]_vars PROVE FileInv'
  <1> USE LifecycleAssumption DEF LifeInv
  <1>a. hooks \in Seq(Hooks) /\ Len(hooks) \in Nat
    BY DEF TypeOK
  <1>1. CASE DebugInit
    <2>1. pc[Main] = "debug" /\ Len(hooks) = 1 /\ debug' = debug
      BY <1>1 DEF DebugInit, At, HookInv, StartLabels, Stage
    <2>2. CASE debug
      <3>1. hooks' = Append(hooks, "debug_close") /\ "debug_close" \in Hooks
        BY <1>1, <2>2 DEF DebugInit, AtExit, Hooks
      <3> QED BY <1>a, <2>1, <3>1 DEF FileInv
    <2>3. CASE ~debug
      BY <2>1, <2>3 DEF FileInv
    <2> QED BY <2>2, <2>3
  <1>2. ASSUME NEW t \in Threads, RunHook(t) PROVE FileInv'
    <2>1. debug' = debug /\ hooks # << >> /\ hooks' = Front(hooks)
      BY <1>2 DEF RunHook
    <2>2. /\ Len(hooks) >= 1 /\ Len(hooks') = Len(hooks) - 1
          /\ Pos(Last(hooks)) = Len(hooks) /\ Last(hooks) \in Hooks
      BY <2>1, PopOrdered DEF HookInv
    <2>3. CASE Last(hooks) = "debug_close"
      BY <1>2, <2>3 DEF RunHook, Released, FileInv
    <2>4. CASE Last(hooks) # "debug_close"
      <3>1. file' = file
        BY <1>2, <2>4 DEF RunHook, Released
      <3>2. debug => Len(hooks) # 2
        <4> SUFFICES ASSUME debug PROVE Pos(Last(hooks)) # 2
          BY <2>2
        <4>1. D = 1
          BY DEF D
        <4>2. \A h \in Hooks : h # "debug_close" => Pos(h) # 2
          BY <4>1 DEF Pos, Hooks
        <4> QED BY <2>2, <2>4, <4>2
      <3> QED BY <1>a, <2>1, <2>2, <3>1, <3>2 DEF FileInv
    <2> QED BY <2>3, <2>4
  <1>3. ASSUME debug' = debug, file' = file,
               hooks' = hooks \/ \E h \in Hooks : hooks' = Append(hooks, h)
        PROVE  FileInv'
    <2>1. Len(hooks') >= Len(hooks) /\ Len(hooks') \in Nat
      BY <1>a, <1>3
    <2> QED BY <1>a, <1>3, <2>1 DEF FileInv
  <1>4. \/ DebugInit \/ (\E t \in Threads : RunHook(t))
        \/ /\ debug' = debug /\ file' = file
           /\ hooks' = hooks \/ \E h \in Hooks : hooks' = Append(hooks, h)
    BY DEF Hooks, AtExit, vars, files, Next, Over, MainStep, GlobalsAlloc, SignalHandler,
       ParseOptions, InitScr, OnScreen, NcursesHook, CaptureOpen, CaptureLink, ManufInit,
       FingerprintInit, StartCapture, KillAll, MainFails, Draw, Quit, CaptureDead,
       CaptureFails, DumpNull, UseReleased, Signal, EndStep, Cleanup, EndWin, Report, End
  <1> QED BY <1>1, <1>2, <1>3, <1>4

-----------------------------------------------------------------------------
(* Stopping the capture thread *)

LEMMA MoveStopInv ==
  ASSUME LifeInv, NEW t \in Threads, Move(t)
  PROVE  StopInv'
  <1> USE LifecycleAssumption DEF LifeInv, Threads, EndLabels
  <1>1. CASE /\ pc[t] \in EndLabels
             /\ \E l \in EndLabels : Goto(t, l)
             /\ UNCHANGED <<alive, why, handling, left>>
    <2>1. CASE t = Main
      BY <1>1, <2>1 DEF StopInv, Goto, TypeOK
    <2>2. CASE t = Capture
      BY <1>1, <2>2 DEF StopInv, ThreadInv
    <2> QED BY <2>1, <2>2
  <1>2. ASSUME NEW w \in Reasons \ {"quit"}, NEW l \in {"cleanup", "exit"}, Leave(t, w, l)
        PROVE  StopInv'
    <2>1. [who |-> t, at |-> pc[t], why |-> w] \in left'
      BY <1>2 DEF Leave
    <2>2. \E r \in left' : r.why # "quit"
      BY <2>1
    <2> QED BY <2>2 DEF StopInv
  <1>3. CASE UNCHANGED <<pc, left>>
    BY <1>3 DEF StopInv
  <1> QED BY <1>1, <1>2, <1>3 DEF Move

LEMMA StopStep ==
  ASSUME LifeInv, [Next]_vars
  PROVE  StopInv'
  <1> USE LifecycleAssumption DEF LifeInv
  <1>a. Main \in Threads /\ Capture \in Threads
    BY DEF Threads
  <1>1. CASE ParseOptions \/ CaptureLink
    <2>1. CASE Move(Main)
      BY <1>a, <2>1, MoveStopInv
    <2>2. CASE ~Move(Main)
      <3>1. pc' = [pc EXCEPT ![Main] = "initscr"] \/ pc' = [pc EXCEPT ![Main] = "manuf"]
        <4>1. CASE ParseOptions
          BY <2>2, <4>1 DEF ParseOptions, Move, Reasons, At, Goto
        <4>2. CASE CaptureLink
          BY <1>a, <2>2, <4>2, FatalMove DEF CaptureLink, At, Goto
        <4> QED BY <1>1, <4>1, <4>2
      <3> QED BY <1>a, <3>1 DEF StopInv, EndLabels, TypeOK
    <2> QED BY <2>1, <2>2
  <1>2. CASE MainStep /\ ~ParseOptions /\ ~CaptureLink /\ ~KillAll
    <2>1. pc'[Main] \in StartLabels \cup {"ui"}
      BY <1>2, <1>a DEF MainStep, GlobalsAlloc, DebugInit, SignalHandler, InitScr, OnScreen,
         NcursesHook, CaptureOpen, ManufInit, FingerprintInit, StartCapture, Goto, TypeOK,
         StartLabels
    <2> QED BY <2>1 DEF StopInv, StartLabels, EndLabels
  <1>3. CASE KillAll
    BY <1>3, <1>a DEF KillAll, StopInv, Goto, TypeOK
  <1>4. CASE MainFails \/ CaptureFails \/ DumpNull
    BY <1>4, <1>a, MoveSteps, MoveStopInv
  <1>5. CASE Draw
    BY <1>5 DEF Draw, StopInv
  <1>6. CASE Quit
    BY <1>6, <1>a DEF Quit, Leave, Goto, StopInv, EndLabels, TypeOK
  <1>7. CASE CaptureDead
    BY <1>7, <1>a DEF CaptureDead, Goto, StopInv, TypeOK
  <1>8. ASSUME NEW t \in Threads, UseReleased(t) \/ Signal(t) \/ EndStep(t) PROVE StopInv'
    BY <1>8, MoveSteps, MoveStopInv
  <1>9. CASE UNCHANGED vars
    BY <1>9 DEF vars, StopInv
  <1> QED BY <1>1, <1>2, <1>3, <1>4, <1>5, <1>6, <1>7, <1>8, <1>9 DEF Next, MainStep, Over

-----------------------------------------------------------------------------
(* The terminal *)

\* Nobody is forgotten who has begun to leave the program.
LEMMA LeftGrows == ASSUME [Next]_vars PROVE left \subseteq left'
  <1>1. ASSUME NEW t \in Threads, Move(t) PROVE left \subseteq left'
    BY <1>1 DEF Move, Leave
  <1>2. Main \in Threads /\ Capture \in Threads
    BY DEF Threads
  <1>3. CASE MainStep
    BY <1>3 DEF MainStep, GlobalsAlloc, DebugInit, SignalHandler, ParseOptions, InitScr, OnScreen,
       NcursesHook, CaptureOpen, CaptureLink, ManufInit, FingerprintInit, StartCapture, KillAll,
       Leave, FatalMsg
  <1>4. CASE MainFails \/ CaptureFails \/ DumpNull
    BY <1>1, <1>2, <1>4, MoveSteps
  <1>5. CASE Draw \/ Quit \/ CaptureDead
    BY <1>5 DEF Draw, Quit, CaptureDead, Leave
  <1>6. ASSUME NEW t \in Threads, UseReleased(t) \/ Signal(t) \/ EndStep(t)
        PROVE  left \subseteq left'
    BY <1>1, <1>6, MoveSteps
  <1>7. CASE UNCHANGED vars
    BY <1>7 DEF vars
  <1> QED BY <1>3, <1>4, <1>5, <1>6, <1>7 DEF Next, Over

\* The place that a thread leaves is recorded.
LEMMA LeaveRecord ==
  ASSUME NEW t \in Threads, NEW w, NEW l, Leave(t, w, l)
  PROVE  \E r \in left' : r.who = t /\ r.at = pc[t] /\ r.why = w
  <1>1. [who |-> t, at |-> pc[t], why |-> w] \in left'
    BY DEF Leave
  <1> QED BY <1>1

\* A capture thread that leaves is no regular end.
LEMMA CaptureIrregular ==
  ASSUME LifeInv,
         \/ CaptureFails \/ DumpNull
         \/ UseReleased(Capture) \/ Signal(Capture) \/ EndStep(Capture)
  PROVE  ~Regular'
  <1> USE LifecycleAssumption DEF LifeInv
  <1>a. Capture \in Threads /\ Main # Capture
    BY DEF Threads
  <1>b. ASSUME NEW w, NEW l, Leave(Capture, w, l) PROVE ~Regular'
    BY <1>a, <1>b, LeaveRecord DEF Regular
  <1>1. CASE CaptureFails
    BY <1>1, <1>b DEF CaptureFails, ErrorMsg
  <1>2. CASE DumpNull \/ UseReleased(Capture)
    <2>1. Crash(Capture) /\ pc[Capture] = "loop"
      BY <1>2, <1>a DEF DumpNull, UseReleased, At
    <2>2. installed /\ Capture \notin handling
      BY <2>1 DEF ThreadInv
    <2> QED BY <1>b, <2>1, <2>2 DEF Crash
  <1>3. CASE Signal(Capture)
    <2>1. installed
      BY <1>3 DEF Signal, ThreadInv
    <2> QED BY <1>b, <1>3, <2>1 DEF Signal
  <1>4. CASE EndStep(Capture)
    <2>1. pc[Capture] \in EndLabels
      BY <1>4 DEF EndStep, Cleanup, EndWin, Report, RunHook, End, At, EndLabels
    <2>2. \E r \in left : r.who = Capture
      BY <2>1 DEF ThreadInv
    <2>3. left \subseteq left'
      BY <1>4, <1>a, MoveSteps DEF Move, Leave
    <2> QED BY <1>a, <2>2, <2>3 DEF Regular
  <1> QED BY <1>1, <1>2, <1>3, <1>4

\* The steps of main that start the program.
LEMMA TerminalStart ==
  ASSUME LifeInv, Regular, Regular', MainStep
  PROVE  TerminalSafe'
  <1> USE LifecycleAssumption DEF LifeInv, TerminalInv, At, Goto
  <1>a. /\ Main \in Threads /\ TerminalSafe /\ D \in 0..1 /\ Len(hooks) \in Nat
        /\ pc[Main] \in StartLabels => Len(hooks) = Stage(pc[Main])
    BY Builds01 DEF Threads, TypeOK, HookInv
  <1>b. ASSUME debug' = debug PROVE D' = D
    BY <1>b DEF D
  <1>1. CASE GlobalsAlloc
    BY <1>1, <1>a DEF GlobalsAlloc, TerminalSafe, TypeOK, ui
  <1>2. CASE DebugInit
    BY <1>2, <1>a DEF DebugInit, TerminalSafe, TypeOK, ui
  <1>3. CASE SignalHandler
    BY <1>3, <1>a DEF SignalHandler, TerminalSafe, TypeOK, ui
  <1>4. CASE ParseOptions
    BY <1>4, <1>a, <1>b DEF ParseOptions, Leave, TerminalSafe, TypeOK, ui
  <1>5. CASE InitScr
    <2>1. installed
      BY <1>5 DEF InitScr, ThreadInv, StartLabels
    <2> QED BY <1>5, <1>a, <2>1 DEF InitScr, TerminalSafe, TypeOK
  <1>6. CASE OnScreen
    <2>1. Len(hooks) = 1 + D /\ handling = {} /\ installed
      BY <1>6, <1>a DEF OnScreen, Stage, StartLabels, ThreadInv
    <2> QED BY <1>6, <1>a, <1>b, <2>1 DEF OnScreen, TerminalSafe, TypeOK
  <1>7. CASE NcursesHook
    <2>1. Len(hooks) = 1 + D /\ hooks \in Seq(Hooks) /\ handling = {}
      BY <1>7, <1>a DEF NcursesHook, Stage, StartLabels, TypeOK, ThreadInv
    <2>2. Len(hooks') = 2 + D
      BY <1>7, <1>a, <2>1, AtExitFacts DEF NcursesHook, AtExit, Hooks
    <2> QED BY <1>7, <1>a, <1>b, <2>1, <2>2 DEF NcursesHook, TerminalSafe, TypeOK, ui
  <1>8. CASE CaptureOpen \/ StartCapture \/ KillAll
    BY <1>8, <1>a, <1>b DEF CaptureOpen, StartCapture, KillAll, TerminalSafe, TypeOK, ui, Threads
  <1>9. CASE CaptureLink
    <2>1. Len(hooks) = 2 + D /\ hooks \in Seq(Hooks) /\ handling = {} /\ onscreen
      BY <1>9, <1>a DEF CaptureLink, Stage, StartLabels, TypeOK, TerminalSafe, ThreadInv
    <2>2. CASE AtExit("capture_close") /\ Goto(Main, "manuf")
                 /\ UNCHANGED <<alive, why, handling, left>>
      <3>1. Len(hooks') = 3 + D
        BY <1>a, <2>1, <2>2, AtExitFacts DEF AtExit, Hooks
      <3> QED BY <1>9, <1>a, <1>b, <2>1, <2>2, <3>1 DEF CaptureLink, TerminalSafe, TypeOK, ui
    <2>3. CASE FatalMsg(Main) /\ UNCHANGED hooks
      <3>1. pc'[Main] = "exit" /\ alive' = alive /\ handling' = handling
        BY <1>a, <2>3 DEF FatalMsg, Leave, TypeOK
      <3> QED BY <1>9, <1>a, <1>b, <2>1, <2>3, <3>1 DEF CaptureLink, TerminalSafe, ui
    <2> QED BY <1>9, <2>2, <2>3 DEF CaptureLink
  <1>10. CASE ManufInit \/ FingerprintInit
    <2>1. Len(hooks') = Len(hooks) + 1
      BY <1>10, <1>a, AtExitFacts DEF ManufInit, FingerprintInit, AtExit, Hooks, TypeOK
    <2> QED BY <1>10, <1>a, <1>b, <2>1 DEF ManufInit, FingerprintInit, TerminalSafe, TypeOK, ui
  <1> QED BY <1>1, <1>2, <1>3, <1>4, <1>5, <1>6, <1>7, <1>8, <1>9, <1>10 DEF MainStep

\* A memory fault of main is handled, or ends the process while the terminal
\* is cooked.
LEMMA CrashTerminal ==
  ASSUME TypeOK, Crash(Main), TerminalSafe, D' = D, installed' = installed,
         pc[Main] \in {"cleanup", "report", "exit"}, ~onscreen, onscreen' = onscreen,
         screen' \in {screen, "cooked"}
  PROVE  TerminalSafe'
  BY DEF Crash, Leave, Goto, TerminalSafe, TypeOK, Threads

\* The steps of main on its way out.
LEMMA TerminalEnd ==
  ASSUME LifeInv, Regular, Regular', EndStep(Main)
  PROVE  TerminalSafe'
  <1> USE LifecycleAssumption DEF LifeInv, TerminalInv, At, Goto
  <1>a. /\ Main \in Threads /\ TypeOK /\ TerminalSafe /\ D \in 0..1 /\ Len(hooks) \in Nat
        /\ debug => D = 1
    BY Builds01 DEF Threads, TypeOK, D
  <1>b. debug' = debug /\ D' = D /\ installed' = installed
    <2>1. debug' = debug /\ installed' = installed
      BY DEF EndStep, Cleanup, EndWin, Report, RunHook, End
    <2> QED BY <2>1 DEF D
  <1>c. onscreen /\ debug => file = "open"
    BY <1>a DEF TerminalSafe, HookInv
  <1>d. ASSUME NEW w, NEW l, Leave(Main, w, l) PROVE pc[Main] \notin {"endwin", "hook"}
    BY <1>a, <1>d, LeaveRecord DEF Regular
  <1>1. CASE Cleanup(Main)
    <2>1. UNCHANGED <<hooks, screen>> /\ pc[Main] = "cleanup"
      BY <1>1 DEF Cleanup, files
    <2>2. CASE onscreen
      <3>1. pc' = [pc EXCEPT ![Main] = "endwin"] /\ alive' = alive /\ handling' = handling
        BY <1>1, <1>c, <2>2 DEF Cleanup, DebugMsg
      <3>2. onscreen' = FALSE
        BY <1>1, <1>a, <3>1 DEF Cleanup, TypeOK
      <3> QED BY <1>a, <1>b, <2>1, <2>2, <3>1, <3>2 DEF TerminalSafe, TypeOK
    <2>3. CASE ~onscreen
      <3>1. onscreen' = onscreen
        BY <1>1, <1>a, <2>3 DEF Cleanup, TypeOK
      <3>2. CASE FatalMsg(Main) \/ (Goto(Main, "report") /\ UNCHANGED <<alive, why, handling, left>>)
        BY <1>a, <1>b, <2>1, <2>3, <3>1, <3>2 DEF FatalMsg, Leave, TerminalSafe, TypeOK
      <3>3. CASE Crash(Main)
        BY <1>a, <1>b, <2>1, <2>3, <3>1, <3>3, CrashTerminal
      <3> QED BY <1>1, <2>3, <3>2, <3>3 DEF Cleanup, DebugMsg
    <2> QED BY <2>2, <2>3
  <1>2. CASE EndWin(Main)
    <2>1. /\ pc[Main] \in {"endwin", "hook"} /\ screen' = "cooked" /\ UNCHANGED <<hooks, onscreen>>
          /\ ~onscreen
      BY <1>2, <1>a DEF EndWin, files, TerminalSafe
    <2>2. CASE \E l \in {"report", "exit"} :
                 Goto(Main, l) /\ UNCHANGED <<alive, why, handling, left>>
      BY <1>a, <1>b, <2>1, <2>2 DEF TerminalSafe, TypeOK
    <2>3. CASE FatalMsg(Main)
      BY <1>d, <2>1, <2>3 DEF FatalMsg
    <2>4. CASE Crash(Main)
      BY <1>a, <1>b, <1>d, <2>1, <2>4 DEF Crash, TerminalSafe
    <2> QED BY <1>2, <2>2, <2>3, <2>4 DEF EndWin, DebugMsg
  <1>3. CASE Report(Main)
    <2>1. /\ pc[Main] = "report" /\ UNCHANGED <<hooks, screen, onscreen>> /\ ~onscreen
      BY <1>3, <1>a DEF Report, files, ui, TerminalSafe
    <2>2. CASE Goto(Main, "exit") /\ UNCHANGED <<alive, why, handling, left>>
      BY <1>a, <1>b, <2>1, <2>2 DEF TerminalSafe, TypeOK
    <2>3. CASE alive' = FALSE /\ UNCHANGED <<pc, why, handling, left>>
      BY <1>a, <1>b, <2>1, <2>3 DEF TerminalSafe, TypeOK
    <2>4. CASE Crash(Main)
      BY <1>a, <1>b, <2>1, <2>4, CrashTerminal
    <2> QED BY <1>3, <2>2, <2>3, <2>4 DEF Report
  <1>4. CASE RunHook(Main)
    <2> DEFINE h == Last(hooks)
    <2>1. /\ Len(hooks') = Len(hooks) - 1 /\ h \in Hooks /\ Pos(h) = Len(hooks)
          /\ pc[Main] = "exit" /\ screen' = screen /\ HookSteps(Main, h)
      <3>1. Ordered
        BY DEF HookInv
      <3> QED BY <1>4, <1>a, <1>b, <3>1, PopOrdered DEF RunHook
    <2>2. CASE onscreen
      <3>1. Len(hooks) >= 2 + D /\ Main \notin handling
        BY <1>a, <2>1, <2>2 DEF TerminalSafe
      <3>2. CASE h = "ncurses_cleanup"
        <4>1. pc' = [pc EXCEPT ![Main] = "hook"] /\ alive' = alive /\ handling' = handling
          BY <1>c, <2>1, <2>2, <3>2 DEF HookSteps, DebugMsg
        <4>2. onscreen' = FALSE
          BY <1>4, <1>a, <4>1 DEF RunHook, TypeOK
        <4> QED BY <1>a, <1>b, <2>1, <4>1, <4>2 DEF TerminalSafe, TypeOK
      <3>3. CASE h # "ncurses_cleanup"
        <4>1. Len(hooks) >= 3 + D
          <5>1. Len(hooks) # 2 + D
            <6>1. h = "debug_close" => debug
              BY <1>4, <1>a, <1>b, PopOrdered DEF RunHook, HookInv
            <6> QED BY <1>a, <2>1, <3>3, <6>1 DEF Pos, Hooks
          <5> QED BY <1>a, <3>1, <5>1
        <4>2. pc'[Main] # "hook" /\ onscreen' = onscreen
          <5>1. pc'[Main] # "hook"
            BY <1>a, <2>1, <3>3 DEF HookSteps, DebugMsg, FatalMsg, Crash, Leave, TypeOK
          <5> QED BY <1>4, <5>1 DEF RunHook
        <4>3. installed
          BY <2>2, <1>a DEF TerminalSafe
        <4>4. CASE Crash(Main)
          <5>1. pc'[Main] = "cleanup" /\ alive' = alive
            BY <1>a, <3>1, <4>3, <4>4 DEF Crash, Leave, TypeOK
          <5> QED BY <1>a, <1>b, <2>1, <2>2, <4>1, <4>2, <4>3, <5>1 DEF TerminalSafe
        <4>5. CASE FatalMsg(Main) \/ (Goto(Main, "exit") /\ UNCHANGED <<alive, why, handling, left>>)
          <5>1. pc'[Main] = "exit" /\ alive' = alive /\ handling' = handling
            BY <1>a, <4>5 DEF FatalMsg, Leave, TypeOK
          <5> QED BY <1>a, <1>b, <2>1, <2>2, <3>1, <4>1, <4>2, <4>3, <5>1 DEF TerminalSafe
        <4> QED BY <2>1, <3>3, <4>4, <4>5 DEF HookSteps, DebugMsg
      <3> QED BY <3>2, <3>3
    <2>3. CASE ~onscreen
      <3>1. onscreen' = onscreen
        BY <1>4, <1>a, <2>3 DEF RunHook, TypeOK
      <3>2. CASE Crash(Main)
        BY <1>a, <1>b, <2>1, <2>3, <3>1, <3>2, CrashTerminal
      <3>3. CASE FatalMsg(Main) \/ (Goto(Main, "exit") /\ UNCHANGED <<alive, why, handling, left>>)
        <4>1. pc'[Main] = "exit" /\ alive' = alive
          BY <1>a, <3>3 DEF FatalMsg, Leave, TypeOK
        <4> QED BY <1>a, <1>b, <2>1, <2>3, <3>1, <4>1 DEF TerminalSafe
      <3> QED BY <2>1, <2>3, <3>2, <3>3 DEF HookSteps, DebugMsg
    <2> QED BY <2>2, <2>3
  <1>5. CASE End(Main)
    <2>1. Len(hooks) = 0 /\ pc[Main] = "exit" /\ UNCHANGED <<pc, handling, hooks, screen, onscreen>>
      BY <1>5 DEF End, ui
    <2>2. ~onscreen
      BY <1>a, <2>1 DEF TerminalSafe
    <2> QED BY <1>a, <1>b, <2>1, <2>2 DEF TerminalSafe, TypeOK
  <1> QED BY <1>1, <1>2, <1>3, <1>4, <1>5 DEF EndStep

LEMMA TerminalStep ==
  ASSUME LifeInv, [Next]_vars
  PROVE  TerminalInv'
  <1> SUFFICES ASSUME Regular' PROVE TerminalSafe'
    BY DEF TerminalInv
  <1> USE LifecycleAssumption DEF LifeInv, TerminalInv
  <1>1. Regular
    BY LeftGrows DEF Regular
  <1>a. /\ Main \in Threads /\ TypeOK /\ TerminalSafe /\ D \in 0..1 /\ Len(hooks) \in Nat
        /\ OnlyMain
    BY <1>1, Builds01 DEF Threads, TypeOK, Regular, OnlyMain
  <1>b. ASSUME debug' = debug PROVE D' = D
    BY <1>b DEF D
  <1>c. ASSUME NEW w, NEW l, Leave(Main, w, l)
        PROVE  pc[Main] \notin {"onscreen", "endwin", "hook"}
    BY <1>a, <1>c, LeaveRecord DEF Regular
  <1>2. CASE MainStep
    BY <1>1, <1>2, TerminalStart
  <1>3. CASE MainFails
    <2>1. /\ pc'[Main] = "cleanup" /\ pc[Main] \notin {"onscreen", "endwin", "hook", "curses"}
          /\ UNCHANGED <<alive, handling, hooks, installed, screen, onscreen, debug>>
      BY <1>3, <1>a DEF MainFails, ErrorMsg, Leave, Goto, TypeOK, ui
    <2> QED BY <1>a, <1>b, <2>1 DEF TerminalSafe
  <1>4. CASE Draw
    <2>1. pc[Main] = "ui" /\ alive /\ UNCHANGED <<alive, pc, handling, hooks, installed, onscreen, debug>>
      BY <1>4 DEF Draw, At
    <2>2. onscreen
      BY <1>a, <2>1 DEF TerminalSafe
    <2> QED BY <1>a, <1>b, <2>1, <2>2 DEF TerminalSafe
  <1>5. CASE Quit
    <2>1. /\ pc'[Main] = "kill" /\ pc[Main] = "ui"
          /\ UNCHANGED <<alive, handling, hooks, installed, screen, onscreen, debug>>
      BY <1>5, <1>a DEF Quit, At, Leave, Goto, TypeOK, ui
    <2> QED BY <1>a, <1>b, <2>1 DEF TerminalSafe
  <1>6. CASE CaptureDead
    <2>1. /\ pc'[Main] = pc[Main]
          /\ UNCHANGED <<alive, handling, hooks, installed, screen, onscreen, debug>>
      BY <1>6, <1>a DEF CaptureDead, Goto, TypeOK, Threads, ui
    <2> QED BY <1>a, <1>b, <2>1 DEF TerminalSafe
  <1>7. CASE \/ CaptureFails \/ DumpNull
             \/ UseReleased(Capture) \/ Signal(Capture) \/ EndStep(Capture)
    BY <1>7, CaptureIrregular
  <1>8. CASE UseReleased(Main)
    <2>1. pc[Main] = "ui" /\ globals = "freed"
      BY <1>8 DEF UseReleased, At
    <2>2. Len(hooks) = 5 + D
      BY <1>a, <2>1 DEF HookInv
    <2> QED BY <1>a, <2>1, <2>2 DEF HookInv
  <1>9. CASE Signal(Main)
    <2>1. UNCHANGED <<hooks, installed, screen, onscreen, debug>> /\ alive
      BY <1>9 DEF Signal, ui
    <2>2. CASE installed
      <3>1. pc'[Main] = "cleanup" /\ alive' = alive /\ pc[Main] \notin {"onscreen", "endwin", "hook"}
        BY <1>9, <1>a, <1>c, <2>2 DEF Signal, Leave, Goto, TypeOK
      <3> QED BY <1>a, <1>b, <2>1, <3>1 DEF TerminalSafe
    <2>3. CASE ~installed
      BY <1>9, <1>a, <1>b, <2>1, <2>3 DEF Signal, TerminalSafe, TypeOK
    <2> QED BY <2>2, <2>3
  <1>10. CASE EndStep(Main)
    BY <1>1, <1>10, TerminalEnd
  <1>11. CASE UNCHANGED vars
    BY <1>11, <1>a, <1>b DEF vars, ui, TerminalSafe
  <1> QED BY <1>2, <1>3, <1>4, <1>5, <1>6, <1>7, <1>8, <1>9, <1>10, <1>11 DEF Next, Over, Threads

-----------------------------------------------------------------------------
(* Error messages *)

\* Main has not begun to leave, or has left the interface to the user: every
\* handler is still to run and the debug file is open.
LEMMA DebugFileOpen ==
  ASSUME LifeInv, OnlyMain, debug,
         pc[Main] \in (StartLabels \ {"globals", "debug"}) \cup {"ui", "kill"}
  PROVE  file = "open"
  <1>1. D = 1 /\ Len(hooks) \in Nat
    BY DEF D, LifeInv, TypeOK
  <1>2. CASE pc[Main] \in {"ui", "kill"}
    <2>1. Len(hooks) = 5 + D /\ (debug /\ Len(hooks) >= 2 => file = "open")
      BY <1>2 DEF LifeInv, HookInv
    <2>2. Len(hooks) >= 2
      BY <1>1, <2>1
    <2> QED BY <2>1, <2>2
  <1>3. CASE pc[Main] \in StartLabels \ {"globals", "debug"}
    <2>1. Len(hooks) = Stage(pc[Main]) /\ (debug /\ Len(hooks) >= 2 => file = "open")
      BY <1>3 DEF LifeInv, HookInv
    <2>2. Stage(pc[Main]) \in {2, 3, 4, 5, 6}
      BY <1>1, <1>3 DEF Stage, StartLabels
    <2> QED BY <2>1, <2>2
  <1> QED BY <1>2, <1>3

\* Only a failure records an error.
LEMMA OtherLeaves ==
  ASSUME [Next]_vars, ~MainFails, ~CaptureFails
  PROVE  \A l \in left' : l.why = "error" => l \in left
  <1> DEFINE Same == left' = left \/ \E t \in Threads, w \in Reasons \ {"error"} : \E p :
                       left' = left \cup {[who |-> t, at |-> p, why |-> w]}
  <1> SUFFICES Same
    OBVIOUS
  <1>a. Main \in Threads /\ Capture \in Threads
    BY DEF Threads
  <1>b. ASSUME NEW t \in Threads, NEW w \in Reasons \ {"error"}, NEW l, Leave(t, w, l) PROVE Same
    BY <1>b DEF Leave
  <1>c. ASSUME NEW t \in Threads, Crash(t) PROVE Same
    BY <1>b, <1>c DEF Crash, Reasons
  <1>d. ASSUME NEW t \in Threads, NEW l, DebugMsg(t, l) PROVE Same
    BY <1>b, <1>c, <1>d DEF DebugMsg, FatalMsg, Reasons
  <1>1. CASE MainStep
    <2>1. CASE ParseOptions \/ CaptureLink
      BY <1>a, <1>b, <2>1 DEF ParseOptions, CaptureLink, FatalMsg, Reasons
    <2>2. CASE MainStep /\ ~ParseOptions /\ ~CaptureLink
      BY <2>2 DEF MainStep, GlobalsAlloc, DebugInit, SignalHandler, InitScr, OnScreen,
         NcursesHook, CaptureOpen, ManufInit, FingerprintInit, StartCapture, KillAll
    <2> QED BY <1>1, <2>1, <2>2
  <1>2. CASE DumpNull \/ Draw \/ Quit \/ CaptureDead
    BY <1>a, <1>b, <1>c, <1>2 DEF DumpNull, Draw, Quit, CaptureDead, Reasons
  <1>3. ASSUME NEW t \in Threads, UseReleased(t) \/ Signal(t) \/ EndStep(t) PROVE Same
    <2>1. CASE UseReleased(t) \/ Signal(t)
      BY <1>b, <1>c, <2>1 DEF UseReleased, Signal, Reasons
    <2>2. CASE Cleanup(t) \/ EndWin(t)
      BY <1>d, <2>2 DEF Cleanup, EndWin
    <2>3. CASE Report(t) \/ End(t)
      BY <1>c, <2>3 DEF Report, End
    <2>4. CASE RunHook(t)
      <3>1. HookSteps(t, Last(hooks))
        BY <2>4 DEF RunHook
      <3> QED BY <1>c, <1>d, <3>1 DEF HookSteps
    <2> QED BY <1>3, <2>1, <2>2, <2>3, <2>4 DEF EndStep
  <1>4. CASE UNCHANGED vars
    BY <1>4 DEF vars
  <1> QED BY <1>1, <1>2, <1>3, <1>4 DEF Next, Over

\* A failure of main, or of the capture thread, begins an error message.
LEMMA NewError ==
  ASSUME LifeInv, NEW t \in Threads, Alone(t)', left \subseteq left', debug' = debug,
         \/ t = Main /\ MainFails
         \/ t = Capture /\ CaptureFails
  PROVE  Pending(t)'
  <1> USE LifecycleAssumption DEF LifeInv
  <1>1. /\ alive' = alive /\ alive /\ pc'[t] = "cleanup" /\ why'[t] = "error"
        /\ handling' = handling /\ file' = file
        /\ \E r \in left' : r.who = t /\ r.at = pc[t]
    <2>1. ErrorMsg(t) /\ alive /\ file' = file
      BY DEF MainFails, CaptureFails, files, At
    <2> QED BY <2>1, LeaveRecord DEF ErrorMsg, Leave, Goto, TypeOK
  <1>2. CASE t = Main /\ MainFails
    <2>1. pc[Main] \in StartLabels \cup {"ui"} /\ (debug => pc[Main] \notin {"globals", "debug"})
      BY <1>1, <1>2 DEF MainFails, StartLabels, Alone
    <2>2. OnlyMain
      BY <1>2 DEF OnlyMain, Alone
    <2>3. Main \notin handling
      BY <2>1 DEF ThreadInv
    <2>4. debug => file = "open"
      BY <2>1, <2>2, DebugFileOpen
    <2> QED BY <1>1, <1>2, <2>3, <2>4 DEF Pending
  <1>3. CASE t = Capture /\ CaptureFails
    <2>1. pc[Capture] = "loop"
      BY <1>3 DEF CaptureFails, At
    <2>2. OnlyMain /\ Capture \notin handling
      BY <2>1 DEF ThreadInv
    <2>3. left = {}
      BY <1>3, <2>2 DEF OnlyMain, Alone
    <2>4. pc[Main] = "ui"
      BY <2>1, <2>3 DEF ThreadInv, StartLabels, EndLabels
    <2>5. debug => file = "open"
      BY <2>2, <2>4, DebugFileOpen
    <2> QED BY <1>1, <1>3, <2>2, <2>5 DEF Pending
  <1> QED BY <1>2, <1>3

\* A thread that is about to print its message goes on, and nobody disturbs it
\* without leaving as well.
LEMMA PendingStep ==
  ASSUME LifeInv, Next, NEW t \in Threads, Alone(t), Alone(t)', Pending(t)
  PROVE  t \in shown' \/ Pending(t)'
  <1> USE LifecycleAssumption DEF LifeInv
  <1>a. Main \in Threads /\ Capture \in Threads
    BY DEF Threads
  <1>b. ASSUME NEW u \in Threads, NEW w, NEW l, Leave(u, w, l) PROVE u = t
    BY <1>b, LeaveRecord DEF Alone
  <1>c. \A u \in Threads : (\E l \in left : l.who = u) => u = t
    BY DEF Alone
  <1>d. left # {} /\ pc[t] \in {"cleanup", "endwin", "report"}
    BY DEF Alone, Pending
  <1>e. ASSUME NEW u \in Threads, pc[u] \in EndLabels PROVE u = t
    BY <1>c, <1>e DEF ThreadInv, Threads
  <1>f. pc[Main] # "kill" /\ pc[Main] \notin StartLabels
    BY <1>a, <1>c, <1>d DEF ThreadInv
  <1>1. ~MainStep /\ ~Quit
    <2>1. ~Quit
      BY <1>a, <1>b, <1>d DEF Quit, At
    <2>2. ~MainStep
      BY <1>f DEF MainStep, GlobalsAlloc, DebugInit, SignalHandler, ParseOptions, InitScr,
         OnScreen, NcursesHook, CaptureOpen, CaptureLink, ManufInit, FingerprintInit,
         StartCapture, KillAll, At, StartLabels
    <2> QED BY <2>1, <2>2
  <1>2. ~MainFails /\ ~CaptureFails
    BY <1>a, <1>b, <1>d, <1>f DEF MainFails, CaptureFails, ErrorMsg, At, StartLabels
  <1>3. ~DumpNull /\ ~UseReleased(Capture)
    <2>1. SUFFICES ASSUME DumpNull \/ UseReleased(Capture) PROVE FALSE
      OBVIOUS
    <2>2. Crash(Capture) /\ pc[Capture] = "loop"
      BY <2>1 DEF DumpNull, UseReleased, At
    <2>3. installed /\ Capture \notin handling
      BY <2>2 DEF ThreadInv
    <2> QED BY <1>a, <1>b, <1>d, <2>2, <2>3 DEF Crash
  <1>4. ~UseReleased(Main)
    <2>1. SUFFICES ASSUME UseReleased(Main) PROVE FALSE
      OBVIOUS
    <2>2. Crash(Main) /\ pc[Main] = "ui"
      BY <2>1 DEF UseReleased, At
    <2>3. installed /\ Main \notin handling
      BY <2>2 DEF ThreadInv
    <2> QED BY <1>a, <1>b, <1>d, <2>2, <2>3 DEF Crash
  <1>5. ASSUME NEW u \in Threads PROVE ~Signal(u)
    BY DEF Signal, Alone, TypeOK
  <1>6. CASE Draw
    BY <1>6 DEF Draw, Pending, files
  <1>7. CASE CaptureDead
    <2>1. pc[Capture] = "loop"
      BY <1>7, <1>f DEF CaptureDead
    <2> QED BY <1>7, <1>a, <1>d, <2>1 DEF CaptureDead, Pending, Goto, TypeOK, files
  <1>8. ASSUME NEW u \in Threads, EndStep(u) PROVE t \in shown' \/ Pending(t)'
    <2>1. u = t
      BY <1>8, <1>e DEF EndStep, Cleanup, EndWin, Report, RunHook, End, At, EndLabels
    <2>2. CASE Cleanup(t)
      BY <2>2 DEF Cleanup, DebugMsg, Pending, At, Goto, TypeOK, files
    <2>3. CASE EndWin(t)
      BY <2>3 DEF EndWin, DebugMsg, Pending, At, Goto, TypeOK, files
    <2>4. CASE Report(t)
      BY <2>4 DEF Report, Pending
    <2>5. ~RunHook(t) /\ ~End(t)
      BY <1>d DEF RunHook, End, At
    <2> QED BY <1>8, <2>1, <2>2, <2>3, <2>4, <2>5 DEF EndStep
  <1>9. CASE Over
    BY <1>9 DEF Over, Pending
  <1> QED BY <1>1, <1>2, <1>3, <1>4, <1>5, <1>6, <1>7, <1>8, <1>9 DEF Next, Threads

LEMMA ErrorStep ==
  ASSUME LifeInv, [Next]_vars
  PROVE  ErrorInv'
  <1> SUFFICES ASSUME NEW t \in Threads, Alone(t)' PROVE t \in shown' \/ Pending(t)'
    BY DEF ErrorInv, Threads
  <1> USE LifecycleAssumption DEF LifeInv
  <1>1. CASE UNCHANGED vars
    BY <1>1 DEF vars, files, ErrorInv, Alone, Pending
  <1>2. CASE Next
    <2>1. left \subseteq left' /\ debug' = debug /\ shown \subseteq shown' /\ signals = 0
      <3>1. debug' = debug
        BY <1>2 DEF Next, MainStep, GlobalsAlloc, DebugInit, SignalHandler, ParseOptions, InitScr,
           OnScreen, NcursesHook, CaptureOpen, CaptureLink, ManufInit, FingerprintInit,
           StartCapture, KillAll, MainFails, Draw, Quit, CaptureDead, CaptureFails, DumpNull,
           UseReleased, Signal, EndStep, Cleanup, EndWin, Report, RunHook, End, Over, vars
      <3>2. shown \subseteq shown'
        BY <1>2 DEF Next, MainStep, GlobalsAlloc, DebugInit, SignalHandler, ParseOptions, InitScr,
           OnScreen, NcursesHook, CaptureOpen, CaptureLink, ManufInit, FingerprintInit,
           StartCapture, KillAll, MainFails, Draw, Quit, CaptureDead, CaptureFails, DumpNull,
           UseReleased, Signal, EndStep, Cleanup, EndWin, Report, RunHook, End, Over, vars
      <3>3. signals' = signals \/ signals' = signals + 1
        BY <1>2 DEF Next, MainStep, GlobalsAlloc, DebugInit, SignalHandler, ParseOptions, InitScr,
           OnScreen, NcursesHook, CaptureOpen, CaptureLink, ManufInit, FingerprintInit,
           StartCapture, KillAll, MainFails, Draw, Quit, CaptureDead, CaptureFails, DumpNull,
           UseReleased, Signal, EndStep, Cleanup, EndWin, Report, RunHook, End, Over, vars
      <3>4. signals = 0
        BY <3>3 DEF Alone, TypeOK
      <3> QED BY <3>1, <3>2, <3>4, LeftGrows
    <2>2. CASE Alone(t)
      BY <1>2, <2>1, <2>2, PendingStep DEF ErrorInv
    <2>3. CASE ~Alone(t)
      <3>1. PICK l \in left' : l.who = t /\ l.why = "error"
        BY DEF Alone
      <3>2. l \notin left
        BY <2>1, <2>3, <3>1 DEF Alone
      <3>3. MainFails \/ CaptureFails
        BY <3>1, <3>2, OtherLeaves
      <3>4. (t = Main /\ MainFails) \/ (t = Capture /\ CaptureFails)
        BY <3>3, LeaveRecord DEF MainFails, CaptureFails, ErrorMsg, Alone, Threads
      <3> QED BY <2>1, <3>4, NewError
    <2> QED BY <2>2, <2>3
  <1> QED BY <1>1, <1>2

-----------------------------------------------------------------------------
(* The theorems *)

LEMMA LifeInit == Init => LifeInv
  <1> SUFFICES ASSUME Init PROVE LifeInv
    OBVIOUS
  <1> USE LifecycleAssumption DEF Init, Threads
  <1>1. ThreadsTyped /\ FilesTyped
    <2>1. pc \in [Threads -> Labels]
      BY DEF Labels
    <2>2. hooks \in Seq(Hooks) /\ signals \in 0..MaxSignals
      OBVIOUS
    <2>3. {alive, installed, onscreen} \subseteq BOOLEAN
      BY Zenon
    <2> QED BY <2>1, <2>2, <2>3 DEF ThreadsTyped, FilesTyped
  <1>2. TypeOK
    BY <1>1 DEF ThreadsTyped, FilesTyped, TypeOK
  <1>3. pc[Main] = "globals" /\ pc[Capture] = "none" /\ left = {}
    OBVIOUS
  <1>4. ThreadInv
    BY <1>3 DEF ThreadInv, StartLabels, EndLabels, OnlyMain
  <1>5. HookInv
    <2>1. Len(hooks) = 0 /\ D \in 0..1
      BY <1>2, Builds01
    <2>2. Stage("globals") = 0
      BY DEF Stage
    <2> QED BY <1>3, <2>1, <2>2 DEF HookInv, Ordered, StartLabels
  <1>6. TerminalInv
    BY <1>3 DEF TerminalInv, TerminalSafe
  <1>7. StopInv /\ ErrorInv
    BY <1>3 DEF StopInv, ErrorInv, Alone, EndLabels
  <1>8. DumpInv /\ FileInv
    BY <1>3 DEF DumpInv, FileInv
  <1> QED BY <1>2, <1>4, <1>5, <1>6, <1>7, <1>8 DEF LifeInv

\* The inductive invariant of the life cycle: who has left, which handlers are
\* registered and what they release, the terminal, and pending error messages.
THEOREM LifecycleInvariant == Spec => []LifeInv
  <1>1. LifeInv /\ [Next]_vars => LifeInv'
    BY TypeStep, ThreadStep, HookStep, DumpStep, FileStep,
       TerminalStep, StopStep, ErrorStep DEF LifeInv
  <1> QED BY LifeInit, <1>1, PTL DEF Spec

\* Type correctness of the life cycle, for any number of signals.
THEOREM TypeCorrect == Spec => []TypeOK
  <1>1. LifeInv => TypeOK
    BY DEF LifeInv
  <1> QED BY LifecycleInvariant, <1>1, PTL

\* Whatever ends the program, the terminal is as it was, unless the capture
\* thread left or a signal hit one of the windows inside curses' calls.
THEOREM TerminalIsRestored == Spec => []TerminalRestored
  <1>1. LifeInv => TerminalRestored
    BY DEF LifeInv, TerminalInv, TerminalSafe, Regular, TerminalRestored
  <1> QED BY LifecycleInvariant, <1>1, PTL

\* Every handler that exit can call finds what it releases and what it uses, in
\* every order of failures, signals and crashes, but for exactly two things: the
\* debug file of globals_free, with DEBUG, once debug_close has run or before
\* debug_init has, and the dumper of a dump file that could not be opened.
THEOREM HooksAreReady == Spec => []HooksReady
  <1>1. LifeInv => HooksReady
    <2> SUFFICES ASSUME LifeInv PROVE HooksReady
      OBVIOUS
    <2> USE DEF LifeInv
    <2>1. hooks \in Seq(Hooks) /\ Len(hooks) \in Nat /\ D \in 0..1 /\ (debug <=> D = 1)
      BY Builds01 DEF TypeOK, D
    <2>2. ASSUME NEW h \in Range(hooks)
          PROVE  /\ h \in Hooks /\ Len(hooks) >= Pos(h) /\ Len(hooks) >= 1
                 /\ h = "debug_close" => debug
      <3>1. PICK i \in 1..Len(hooks) : hooks[i] = h
        BY <2>1, <2>2 DEF Range
      <3>2. h \in Hooks
        BY <2>1, <3>1
      <3> QED BY <2>1, <3>1, <3>2 DEF HookInv, Ordered
    <2>3. ASSUME NEW h \in Range(hooks) PROVE "globals" \in Usable
      BY <2>1, <2>2, <2>3 DEF HookInv, Usable
    <2>4. ASSUME NEW h \in Range(hooks), h # "globals_free" PROVE "file" \in Usable
      <3>1. Pos(h) \in Nat /\ Pos(h) >= 1 + D
        BY <2>1, <2>2, <2>4 DEF Pos, Hooks
      <3>2. ~debug \/ file = "open"
        BY <2>1, <2>2, <3>1, <2>4 DEF HookInv
      <3> QED BY <3>2 DEF Usable
    <2>5. "capture_close" \in Range(hooks) =>
            "pcap" \in Usable /\ ("dump" \in Usable \/ dump = "null")
      <3> SUFFICES ASSUME "capture_close" \in Range(hooks)
                   PROVE  "pcap" \in Usable /\ ("dump" \in Usable \/ dump = "null")
        OBVIOUS
      <3>1. Pos("capture_close") = 3 + D
        BY DEF Pos
      <3>2. pcap = "open"
        BY <2>1, <2>2, <3>1 DEF HookInv
      <3>3. dump \in {"none", "open", "null"}
        BY <3>2 DEF TypeOK, DumpInv
      <3> QED BY <3>2, <3>3 DEF Usable
    <2>6. debug /\ "debug_close" \in Range(hooks) => file = "open" /\ "file" \in Usable
      <3>1. Pos("debug_close") = 2
        BY DEF Pos
      <3> QED BY <2>1, <2>2, <3>1 DEF HookInv, Usable
    <2>7. ~debug => "file" \in Usable
      BY DEF Usable
    <2>10. debug /\ "debug_close" \notin Range(hooks) => file # "open"
      <3> SUFFICES ASSUME debug, file = "open" PROVE "debug_close" \in Range(hooks)
        OBVIOUS
      <3>1. Len(hooks) >= 2
        BY DEF FileInv
      <3>2. hooks[2] \in Hooks /\ Pos(hooks[2]) = 2 /\ D = 1
        BY <2>1, <3>1 DEF HookInv, Ordered
      <3>3. hooks[2] = "debug_close"
        BY <3>2 DEF Pos, Hooks
      <3> QED BY <2>1, <3>1, <3>3 DEF Range
    <2>8. ASSUME NEW h \in Range(hooks) PROVE Needs(h) \ Usable = Lacks(h)
      <3>1. CASE h = "globals_free"
        BY <3>1, <2>3, <2>6, <2>7, <2>10, <2>8 DEF Needs, Lacks, Usable
      <3>2. CASE h = "capture_close"
        BY <3>2, <2>3, <2>4, <2>5, <2>8 DEF Needs, Lacks, Usable
      <3>3. CASE h \notin {"globals_free", "capture_close"}
        BY <3>3, <2>4, <2>8 DEF Needs, Lacks
      <3> QED BY <3>1, <3>2, <3>3
    <2>9. globals = "freed" => hooks = << >>
      <3>1. globals = "freed" => Len(hooks) = 0
        BY <2>1 DEF HookInv
      <3> QED BY <2>1, <3>1
    <2> QED BY <2>2, <2>6, <2>8, <2>9 DEF HooksReady
  <1> QED BY LifecycleInvariant, <1>1, PTL

\* When only the user ends the program, the capture is closed and the globals
\* are freed behind the back of no capture thread.
THEOREM CaptureIsStopped == Spec => []CaptureStopped
  <1>1. LifeInv => CaptureStopped
    <2> SUFFICES ASSUME LifeInv, \A l \in left : l.why = "quit", pc[Capture] = "loop"
                 PROVE  pcap = "open" /\ globals = "alloc"
      BY DEF CaptureStopped
    <2> USE DEF LifeInv
    <2>1. pc[Main] \in {"ui", "kill"} /\ OnlyMain
      BY DEF ThreadInv, StopInv, StartLabels
    <2>2. Len(hooks) = 5 + D /\ D \in 0..1
      BY <2>1, Builds01 DEF HookInv
    <2> QED BY <2>2 DEF HookInv
  <1> QED BY LifecycleInvariant, <1>1, PTL

\* An error message is printed before the program ends, unless a signal or
\* another thread ends it first, or the error comes before debug_init with DEBUG.
THEOREM ErrorsAreReported == Spec => []ErrorReportedLater
  <1>1. LifeInv => ErrorReportedLater
    <2> SUFFICES ASSUME LifeInv, ~debug \/ (\A l \in left : l.at \notin {"globals", "debug"}),
                        ~alive, signals = 0, NEW l \in left, l.why = "error",
                        \A k \in left : k.who = l.who
                 PROVE  l.who \in shown
      BY DEF ErrorReportedLater, ErrorReported
    <2>1. l.who \in Threads /\ Alone(l.who)
      BY DEF LifeInv, TypeOK, Alone
    <2> QED BY <2>1 DEF LifeInv, ErrorInv, Pending
  <1> QED BY LifecycleInvariant, <1>1, PTL
=============================================================================
