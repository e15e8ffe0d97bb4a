------------------------------ MODULE Lifecycle ------------------------------
(***************************************************************************)
(* The life of the program: main (src/lmap_main.c) sets up the globals,    *)
(* the debug file, the signal handlers, the interface, the capture and the *)
(* data files, each with the handler that atexit will run, starts the      *)
(* capture thread and shows the interface.  The program is left by the     *)
(* user, by an error or a fatal message of either thread, by a signal or   *)
(* by a crash; all ways lead through exit, which runs the handlers in the  *)
(* reverse order of their registration.                                    *)
(*                                                                         *)
(* A signal handler never returns to what it interrupted: it ends in exit. *)
(* Hence a thread needs one program counter and no stack.                  *)
(***************************************************************************)
EXTENDS Naturals, Sequences, SequencesExt

CONSTANTS
  Main, Capture,  \* the two threads
  Builds,         \* the builds: compiled with DEBUG (TRUE) or without
  MaxSignals,     \* how many SIGINT and SIGTERM arrive
  Fails,          \* can allocations, opening files and interfaces fail?
  None            \* a thread that is not leaving the program

Threads == {Main, Capture}

ASSUME LifecycleAssumption ==
  /\ Main # Capture
  /\ Builds \subseteq BOOLEAN
  /\ MaxSignals \in Nat
  /\ Fails \in BOOLEAN

VARIABLES
  alive,     \* the process exists
  debug,     \* the build that runs
  pc,        \* where each thread is
  why,       \* why each thread leaves the program
  handling,  \* the threads inside a signal handler, which masks all signals
  installed, \* signal_handler has run
  signals,   \* how many signals have arrived
  hooks,     \* the functions registered with atexit and not yet run
  globals,   \* gbls: "none", "alloc" or "freed"
  file,      \* debug_file: "null", "open" or "closed"
  screen,    \* the terminal: "cooked", or "raw" as curses sets it
  onscreen,  \* onscreen
  pcap,      \* GBL_PCAP->pcap: "none", "open" or "closed"
  dump,      \* the dump file: "none", "asked" for, "open", "null" (fopen failed), "closed"
  shown,     \* the threads whose ERROR_MSG was printed
  left       \* who began to leave the program, where and why

ui == <<screen, onscreen>>
files == <<globals, file, pcap, dump>>
vars == <<alive, debug, pc, why, handling, installed, signals, hooks, files, ui, shown, left>>

Init ==
  /\ alive = TRUE
  /\ debug \in Builds
  /\ pc = [t \in Threads |-> IF t = Main THEN "globals" ELSE "none"]
  /\ why = [t \in Threads |-> None]
  /\ handling = {}
  /\ installed = FALSE
  /\ signals = 0
  /\ hooks = << >>
  /\ globals = "none" /\ file = "null"
  /\ screen = "cooked" /\ onscreen = FALSE
  /\ pcap = "none" /\ dump = "none"
  /\ shown = {}
  /\ left = {}

Goto(t, l) == pc' = [pc EXCEPT ![t] = l]

At(t, l) == alive /\ pc[t] = l

AtExit(h) == hooks' = Append(hooks, h)

-----------------------------------------------------------------------------
(* Leaving the program *)

\* Thread t goes to l, on its way out of the program because of w.
Leave(t, w, l) ==
  /\ Goto(t, l)
  /\ why' = [why EXCEPT ![t] = w]
  /\ left' = left \cup {[who |-> t, at |-> pc[t], why |-> w]}

\* error_msg starts with ui_cleanup.
ErrorMsg(t) == Leave(t, "error", "cleanup") /\ UNCHANGED <<alive, handling>>

\* FATAL_MSG prints and calls exit.
FatalMsg(t) == Leave(t, "fatal", "exit") /\ UNCHANGED <<alive, handling>>

\* A memory fault: signal_SEGV, or the end of the process when it is not
\* installed or when the thread is in a handler, whose mask blocks SIGSEGV.
Crash(t) ==
  IF installed /\ t \notin handling
  THEN /\ Leave(t, "segv", "cleanup")
       /\ handling' = handling \cup {t}
       /\ UNCHANGED alive
  ELSE /\ alive' = FALSE
       /\ UNCHANGED <<pc, why, handling, left>>

\* DEBUG_MSG, then l: it is fatal before debug_init, and after debug_close it
\* writes to a file that is closed, which may be a memory fault.
DebugMsg(t, l) ==
  IF debug /\ file = "null" THEN FatalMsg(t)
  ELSE \/ Goto(t, l) /\ UNCHANGED <<alive, why, handling, left>>
       \/ debug /\ file = "closed" /\ Crash(t)

-----------------------------------------------------------------------------
(* main *)

\* globals_alloc
GlobalsAlloc ==
  /\ At(Main, "globals")
  /\ globals' = "alloc"
  /\ AtExit("globals_free")
  /\ Goto(Main, "debug")
  /\ UNCHANGED <<alive, debug, why, handling, installed, signals, file, pcap, dump, ui, shown, left>>

\* Mutant: debug_close is registered whether or not the file is open.
DebugInitAlways ==
  /\ At(Main, "debug")
  /\ file' = IF debug THEN "open" ELSE file
  /\ AtExit("debug_close")
  /\ Goto(Main, "signals")
  /\ UNCHANGED <<alive, debug, why, handling, installed, signals, globals, pcap, dump, ui, shown, left>>

\* debug_init opens the debug file, with DEBUG.
DebugInit ==
  /\ At(Main, "debug")
  /\ IF debug
     THEN file' = "open" /\ AtExit("debug_close")
     ELSE UNCHANGED <<file, hooks>>
  /\ Goto(Main, "signals")
  /\ UNCHANGED <<alive, debug, why, handling, installed, signals, globals, pcap, dump, ui, shown, left>>

\* lmap_thread_register and signal_handler
SignalHandler ==
  /\ At(Main, "signals")
  /\ installed' = TRUE
  /\ Goto(Main, "options")
  /\ UNCHANGED <<alive, debug, why, handling, signals, hooks, files, ui, shown, left>>

\* parse_options: the help, the version and wrong options end the program.
ParseOptions ==
  /\ At(Main, "options")
  /\ \/ \E d \in {"none", "asked"} : dump' = d /\ Goto(Main, "initscr") /\ UNCHANGED <<why, left>>
     \/ Leave(Main, "fatal", "exit") /\ UNCHANGED dump
  /\ UNCHANGED <<alive, debug, handling, installed, signals, hooks, globals, file, pcap, ui, shown>>

\* ncurses_init: initscr changes the terminal before onscreen says so.
InitScr ==
  /\ At(Main, "initscr")
  /\ screen' = "raw"
  /\ Goto(Main, "onscreen")
  /\ UNCHANGED <<alive, debug, why, handling, installed, signals, hooks, files, onscreen, shown, left>>

OnScreen ==
  /\ At(Main, "onscreen")
  /\ onscreen' = TRUE
  /\ Goto(Main, "curses")
  /\ UNCHANGED <<alive, debug, why, handling, installed, signals, hooks, files, screen, shown, left>>

\* Mutant: ncurses_init does not register ncurses_cleanup.
NcursesHookNone ==
  /\ At(Main, "curses")
  /\ Goto(Main, "capture")
  /\ UNCHANGED <<alive, debug, why, handling, installed, signals, hooks, files, ui, shown, left>>

NcursesHook ==
  /\ At(Main, "curses")
  /\ AtExit("ncurses_cleanup")
  /\ Goto(Main, "capture")
  /\ UNCHANGED <<alive, debug, why, handling, installed, signals, files, ui, shown, left>>

\* Mutant: capture_init does not open the dump file.
CaptureOpenNoDump ==
  /\ At(Main, "capture")
  /\ pcap' = "open"
  /\ Goto(Main, "link")
  /\ UNCHANGED <<alive, debug, why, handling, installed, signals, hooks, globals, file, dump, ui, shown, left>>

\* capture_init opens the interface or the file.  A dump file that cannot be
\* opened goes unnoticed.
CaptureOpen ==
  /\ At(Main, "capture")
  /\ pcap' = "open"
  /\ dump' \in IF dump # "asked" THEN {dump} ELSE {"open"} \cup (IF Fails THEN {"null"} ELSE {})
  /\ Goto(Main, "link")
  /\ UNCHANGED <<alive, debug, why, handling, installed, signals, hooks, globals, file, ui, shown, left>>

\* A link layer without a decoder is fatal.
CaptureLink ==
  /\ At(Main, "link")
  /\ \/ AtExit("capture_close") /\ Goto(Main, "manuf") /\ UNCHANGED <<alive, why, handling, left>>
     \/ FatalMsg(Main) /\ UNCHANGED hooks
  /\ UNCHANGED <<debug, installed, signals, files, ui, shown>>

\* The tables are loaded from the data files, and their discard registered.
ManufInit ==
  /\ At(Main, "manuf")
  /\ AtExit("discard_macdb")
  /\ Goto(Main, "finger")
  /\ UNCHANGED <<alive, debug, why, handling, installed, signals, files, ui, shown, left>>

FingerprintInit ==
  /\ At(Main, "finger")
  /\ AtExit("fingerprint_discard")
  /\ Goto(Main, "thread")
  /\ UNCHANGED <<alive, debug, why, handling, installed, signals, files, ui, shown, left>>

\* lmap_thread_new; a pthread_create that fails is not noticed.
StartCapture ==
  /\ At(Main, "thread")
  /\ pc' \in {[pc EXCEPT ![Main] = "ui", ![Capture] = "loop"]}
             \cup (IF Fails THEN {[pc EXCEPT ![Main] = "ui"]} ELSE {})
  /\ UNCHANGED <<alive, debug, why, handling, installed, signals, hooks, files, ui, shown, left>>

\* An allocation, an open_data or an fopen of main fails: ERROR_MSG.
MainFails ==
  /\ Fails
  /\ alive
  /\ pc[Main] \in {"globals", "debug", "signals", "capture", "manuf", "finger", "thread", "ui"}
  /\ ErrorMsg(Main)
  /\ UNCHANGED <<debug, installed, signals, hooks, files, ui, shown>>

\* The interface draws; after endwin this makes the terminal raw again.
Draw ==
  /\ At(Main, "ui")
  /\ screen' = "raw"
  /\ UNCHANGED <<alive, debug, pc, why, handling, installed, signals, hooks, files, onscreen, shown, left>>

\* ui_start returns: the user left the interface.
Quit ==
  /\ At(Main, "ui")
  /\ Leave(Main, "quit", "kill")
  /\ UNCHANGED <<alive, debug, handling, installed, signals, hooks, files, ui, shown>>

\* Mutant: the capture thread is cancelled and not joined.
KillAllNoJoin ==
  /\ At(Main, "kill")
  /\ Goto(Main, "cleanup")
  /\ UNCHANGED <<alive, debug, why, handling, installed, signals, hooks, files, ui, shown, left>>

\* lmap_thread_kill_all returns when the capture thread was joined.
KillAll ==
  /\ At(Main, "kill")
  /\ pc[Capture] \in {"none", "dead"}
  /\ Goto(Main, "cleanup")
  /\ UNCHANGED <<alive, debug, why, handling, installed, signals, hooks, files, ui, shown, left>>

-----------------------------------------------------------------------------
(* The capture thread *)

\* pcap_loop returns at the end of a file, or the thread is cancelled,
\* wherever it is.
CaptureDead ==
  /\ alive
  /\ \/ pc[Capture] = "loop"
     \/ pc[Main] = "kill" /\ pc[Capture] \notin {"none", "dead"}
  /\ Goto(Capture, "dead")
  /\ UNCHANGED <<alive, debug, why, handling, installed, signals, hooks, files, ui, shown, left>>

\* A packet cannot be decoded: ERROR_MSG, in db_bucket_alloc for instance.
CaptureFails ==
  /\ Fails
  /\ At(Capture, "loop")
  /\ ErrorMsg(Capture)
  /\ UNCHANGED <<debug, installed, signals, hooks, files, ui, shown>>

\* A packet is dumped to the file that could not be opened.
DumpNull ==
  /\ At(Capture, "loop")
  /\ dump = "null"
  /\ Crash(Capture)
  /\ UNCHANGED <<debug, installed, signals, hooks, files, ui, shown>>

\* A thread that goes on while another one is in exit uses what was released.
UseReleased(t) ==
  /\ At(t, IF t = Main THEN "ui" ELSE "loop")
  /\ globals = "freed" \/ (t = Capture /\ pcap = "closed")
  /\ Crash(t)
  /\ UNCHANGED <<debug, installed, signals, hooks, files, ui, shown>>

-----------------------------------------------------------------------------
(* Signals *)

\* SIGINT or SIGTERM: the system gives it to the main thread, or to the
\* capture thread while the main thread has it blocked.
Signal(t) ==
  /\ alive
  /\ signals < MaxSignals
  /\ t \notin handling /\ pc[t] \notin {"none", "dead"}
  /\ t = Capture => Main \in handling
  /\ signals' = signals + 1
  /\ IF installed
     THEN /\ Leave(t, "signal", "cleanup")
          /\ handling' = handling \cup {t}
          /\ UNCHANGED alive
     ELSE alive' = FALSE /\ UNCHANGED <<pc, why, handling, left>>
  /\ UNCHANGED <<debug, installed, hooks, files, ui, shown>>

-----------------------------------------------------------------------------
(* The end *)

\* ui_cleanup and ncurses_cleanup up to onscreen = 0
Cleanup(t) ==
  /\ At(t, "cleanup")
  /\ DebugMsg(t, IF onscreen THEN "endwin" ELSE "report")
  /\ onscreen' = IF pc'[t] = "endwin" THEN FALSE ELSE onscreen
  /\ UNCHANGED <<debug, installed, signals, hooks, files, screen, shown>>

\* The rest of ncurses_cleanup, called by ui_cleanup or by exit
EndWin(t) ==
  /\ alive
  /\ \/ pc[t] = "endwin" /\ DebugMsg(t, "report")
     \/ pc[t] = "hook" /\ DebugMsg(t, "exit")
  /\ screen' = "cooked"
  /\ UNCHANGED <<debug, installed, signals, hooks, files, onscreen, shown>>

\* Mutant: error_msg prints nothing.
ReportNone(t) ==
  /\ At(t, "report")
  /\ IF why[t] = "segv" /\ debug
     THEN alive' = FALSE /\ UNCHANGED <<pc, why, handling, left>>
     ELSE Goto(t, "exit") /\ UNCHANGED <<alive, why, handling, left>>
  /\ UNCHANGED <<debug, installed, signals, hooks, files, ui, shown>>

\* Mutant: signal_SEGV does not reset the signal before it raises it.
ReportRaise(t) ==
  /\ At(t, "report")
  /\ Goto(t, IF why[t] = "segv" /\ debug THEN "cleanup" ELSE "exit")
  /\ shown' = IF why[t] = "error" THEN shown \cup {t} ELSE shown
  /\ UNCHANGED <<alive, debug, why, handling, installed, signals, hooks, files, ui, left>>

\* What follows ui_cleanup: error_msg prints its message; signal_SEGV dumps
\* core with DEBUG, which ends the process; all others call exit.  The signal
\* handlers also write a debug message and the program's name.
Report(t) ==
  /\ At(t, "report")
  /\ IF why[t] = "segv" /\ debug
     THEN alive' = FALSE /\ UNCHANGED <<pc, why, handling, left>>
     ELSE \/ Goto(t, "exit") /\ UNCHANGED <<alive, why, handling, left>>
          \/ /\ t \in handling
             /\ globals = "freed" \/ (debug /\ file = "closed")
             /\ Crash(t)
  /\ shown' = IF why[t] = "error" THEN shown \cup {t} ELSE shown
  /\ UNCHANGED <<debug, installed, signals, hooks, files, ui>>

\* What a handler does, other than ncurses_cleanup.
Released(h) ==
  /\ globals' = IF h = "globals_free" /\ ~(debug /\ file = "null") THEN "freed" ELSE globals
  /\ file' = IF h = "debug_close" THEN "closed" ELSE file
  /\ pcap' = IF h = "capture_close" THEN "closed" ELSE pcap
  /\ dump' = IF h = "capture_close" /\ dump = "open" THEN "closed" ELSE dump

\* Where a handler leaves its thread.  debug_close, and ncurses_cleanup when
\* the screen is not initialised, write no debug message.
HookSteps(t, h) ==
  IF h = "capture_close" /\ dump = "null" THEN Crash(t)
  ELSE IF h = "debug_close" \/ (h = "ncurses_cleanup" /\ ~onscreen)
  THEN Goto(t, "exit") /\ UNCHANGED <<alive, why, handling, left>>
  ELSE DebugMsg(t, IF h = "ncurses_cleanup" THEN "hook" ELSE "exit")

\* exit takes the handler registered last off its list and calls it.
\* free_stats in globals_free comes after debug_close; capture_close closes a
\* dump file that was not opened.
RunHook(t) ==
  /\ At(t, "exit")
  /\ hooks # << >>
  /\ hooks' = Front(hooks)
  /\ LET h == Last(hooks) IN
     /\ Released(h)
     /\ HookSteps(t, h)
  /\ onscreen' = IF pc'[t] = "hook" THEN FALSE ELSE onscreen
  /\ UNCHANGED <<debug, installed, signals, screen, shown>>

\* No handler is left: the process ends, whatever the other thread is doing.
End(t) ==
  /\ At(t, "exit")
  /\ hooks = << >>
  /\ alive' = FALSE
  /\ UNCHANGED <<debug, pc, why, handling, installed, signals, hooks, files, ui, shown, left>>

Over == ~alive /\ UNCHANGED vars

-----------------------------------------------------------------------------
MainStep ==
  \/ GlobalsAlloc \/ DebugInit \/ SignalHandler \/ ParseOptions
  \/ InitScr \/ OnScreen \/ NcursesHook \/ CaptureOpen \/ CaptureLink
  \/ ManufInit \/ FingerprintInit \/ StartCapture \/ KillAll

EndStep(t) == Cleanup(t) \/ EndWin(t) \/ Report(t) \/ RunHook(t) \/ End(t)

Next ==
  \/ MainStep \/ MainFails \/ Draw \/ Quit
  \/ CaptureDead \/ CaptureFails \/ DumpNull
  \/ \E t \in Threads : UseReleased(t) \/ Signal(t) \/ EndStep(t)
  \/ Over

Spec == Init /\ [][Next]_vars

\* The threads are scheduled, and a cancellation that was asked for is
\* delivered.  Nobody has to leave the interface.
FairSpec ==
  /\ Spec
  /\ WF_vars(MainStep)
  /\ WF_vars(pc[Main] = "kill" /\ CaptureDead)
  /\ \A t \in Threads : WF_vars(EndStep(t))

-----------------------------------------------------------------------------
(* Properties *)

Hooks == {"globals_free", "debug_close", "ncurses_cleanup", "capture_close",
          "discard_macdb", "fingerprint_discard"}

Labels == {"none", "globals", "debug", "signals", "options", "initscr", "onscreen",
           "curses", "capture", "link", "manuf", "finger", "thread", "ui", "kill",
           "loop", "dead", "cleanup", "endwin", "report", "hook", "exit"}

Reasons == {"quit", "error", "fatal", "signal", "segv"}

\* The type invariant of the life cycle.
TypeOK ==
  /\ alive \in BOOLEAN
  /\ debug \in Builds
  /\ pc \in [Threads -> Labels]
  /\ why \in [Threads -> Reasons \cup {None}]
  /\ handling \subseteq Threads
  /\ installed \in BOOLEAN
  /\ signals \in 0..MaxSignals
  /\ hooks \in Seq(Hooks)
  /\ globals \in {"none", "alloc", "freed"}
  /\ file \in {"null", "open", "closed"}
  /\ screen \in {"cooked", "raw"}
  /\ onscreen \in BOOLEAN
  /\ pcap \in {"none", "open", "closed"}
  /\ dump \in {"none", "open", "null", "closed"} \cup (IF pcap = "none" THEN {"asked"} ELSE {})
  /\ shown \subseteq Threads
  /\ left \subseteq [who : Threads, at : Labels, why : Reasons]

\* The terminal is as it was when the program has ended, however main left it
\* (the user, errors, fatal messages, signals, crashes in exit handlers).
\* Exempt are signals that hit ncurses_init between initscr and onscreen = 1
\* or ncurses_cleanup between onscreen = 0 and endwin, and a capture thread
\* that leaves while main is drawing.
TerminalRestored ==
  ~alive /\ (\A l \in left : l.who = Main /\ l.at \notin {"onscreen", "endwin", "hook"})
    => screen = "cooked"

\* What every handler uses: capture_close and globals_free go through gbls, and
\* all but debug_close, which writes to the debug file itself, end with a debug
\* message.
Needs(h) ==
  CASE h = "globals_free" -> {"globals", "file"}
    [] h = "capture_close" -> {"globals", "file", "pcap", "dump"}
    [] OTHER -> {"file"}

\* What can be used without a fault.  Without DEBUG nobody uses the file; without
\* a dump nobody uses the dumper.
Usable ==
  (IF globals = "alloc" THEN {"globals"} ELSE {})
    \cup (IF debug => file = "open" THEN {"file"} ELSE {})
    \cup (IF pcap = "open" THEN {"pcap"} ELSE {})
    \cup (IF dump \in {"none", "open"} THEN {"dump"} ELSE {})

\* The two things that a handler has to do without: in the DEBUG build
\* globals_free, with the debug message of free_stats, has no debug file once
\* debug_close has run or before debug_init has, and capture_close has no dumper
\* when the dump file could not be opened.
Lacks(h) ==
  IF h = "globals_free" /\ debug /\ "debug_close" \notin Range(hooks) THEN {"file"}
  ELSE IF h = "capture_close" /\ dump = "null" THEN {"dump"}
  ELSE {}

\* Whatever happens, every registered handler will find exactly what it needs
\* but for the two things above, and with DEBUG the debug file that debug_close
\* closes: nothing is registered too early, released twice, or released by a
\* handler that runs before one that still uses it.
HooksReady ==
  /\ \A h \in Range(hooks) : Needs(h) \ Usable = Lacks(h)
  /\ "debug_close" \in Range(hooks) => file = "open"
  /\ globals = "freed" => hooks = << >>

\* When the user leaves the interface, the capture is closed and the globals
\* are freed only after the capture thread has stopped using them.
CaptureStopped ==
  (\A l \in left : l.why = "quit") /\ (pcap = "closed" \/ globals = "freed")
    => pc[Capture] # "loop"

\* "the macro ERROR_MSG(x, ...) print the file:function:line, errno, strerror and
\* a the user message": it does before the program ends, unless another thread
\* or a signal ends it first.
ErrorReported ==
  ~alive /\ signals = 0 =>
    \A l \in left : l.why = "error" /\ (\A k \in left : k.who = l.who) => l.who \in shown

\* The same without DEBUG, and with DEBUG for every error after debug_init has
\* opened the debug file.
ErrorReportedLater ==
  ~debug \/ (\A l \in left : l.at \notin {"globals", "debug"}) => ErrorReported

\* Whoever begins to leave the program ends it: no handler, cleanup or join
\* blocks, and no handler runs for ever.
ExitEnds == (left # {}) ~> ~alive
=============================================================================
