# TLA+ models of lmap

lmap watches a network: a capture thread decodes every packet that libpcap
delivers, counts it and collects passive fingerprints, while an ncurses
interface shows messages and statistics.  This directory holds TLA+ models of
the program, TLC configurations that check them on small instances, and proofs,
checked by TLAPS, of every safety invariant that the passing runs check.
`PROJECT.json` relates every definition to the source lines it models and lists
the runs, the mutants that show that each property can fail, the findings, the
hazards and the theorems.

Paths below are those of the repository (`src/` holds the C files, `include/`
the headers).

## 1. The system

| component | state | operations | works with |
|---|---|---|---|
| message queue (`lmap_ui.c`, `queue.h`) | `messages_queue` (linked list, tail pointer), `ui_msg_mutex` | `ui_msg` (any thread), `ui_msg_flush` (interface thread), `ui_register` | everybody writes, the screens flush |
| recursive mutex (`lmap_recursive_mutex.c`) | list of (mutex, thread, count), `recursive_mutex_list_mx` | `recursive_mutex_lock`, `_unlock` | pthread mutexes of its callers |
| thread registry (`lmap_threads.c`) | `thread_list_head`, `threads_mutex` | register, new, destroy, kill_all, init, getname | main, capture; every debug message calls getname |
| life cycle (`lmap_main.c`, `_globals`, `_signal`, `_error`, `_debug`) | `gbls`, `debug_file`, signal handlers, atexit handlers | start, `error_msg`, `FATAL_MSG`, signals, exit | all components register an exit handler |
| capture (`lmap_capture.c`) | `GBL_PCAP` | `capture_init`, `capture`, `capture_close` | pcap calls `lmap_decode` |
| decoding engine (`lmap_decode.c`, `lmap_decoder_*.c`) | decoder table, `l2_decoder`; per packet: data, datalen, bucket | `add_decoder`, `set_L2_decoder`, `lmap_decode`, ten decoders | fills buckets, counts, fingerprints |
| bucket (`lmap_db.c`) | one bucket per packet | alloc, send, free | decoders fill it; the database is not written yet |
| statistics (`lmap_stat.c`) | list of counters, a static cursor | register, update, get, get_all, free | decoders count, the menu shows |
| fingerprint (`lmap_fingerprint.c`) | the string of the packet, a hash table | alloc, push, destroy, init, search | `decode_ip` begins, `decode_tcp` completes |
| screens (`lmap_ncurses*.c`) | windows, `onscreen` | init, cleanup, start, menu events, scrolling | flush the queue, read the counters |
| manufacturers (`lmap_manuf.c`, `lmap_hash.c`) | a hash table | init, search, discard | data files |
| addresses (`lmap_inet.c`), interfaces (`lmap_if.c`), options and files (`lmap_parser.c`, `lmap_data.c`) | options | conversions, system calls, parsing | |

What is hard here: the queue is read without its mutex and threads are
cancelled asynchronously while they may own it; the registry is walked by
`lmap_thread_getname` without its mutex and by `kill_all` while nodes are
freed; the program can be left by two threads and by signals at any moment, and
all ways share one list of exit handlers; decoders trust lengths found in the
packet; a fingerprint is begun by one decoder and completed by another; the
menu reads counters that are being counted, through an iterator that remembers
its place from call to call; windows live in locals and in static pointers, and
a screen can be left by any small number that `wgetch` returns; one buffer
serves several addresses, and a conversion that gives up leaves it as it was.

## 2. Modules

| module | models | state and actions |
|---|---|---|
| `MessageQueue` | what the queue promises: a FIFO of messages | `Put`, `Show` |
| `UiQueue` | `ui_msg` and `ui_msg_flush`, one step per access to the shared queue, with the SIMPLEQ macros broken into their assignments | `next`/`last` are the pointer fields, `msg`, `i`, `max`, `size`, `len` the locals; `Cancel` and `Exit` are the shutdown |
| `UiQueueProofs` | theorems about `UiQueue` | |
| `ReentrantLock` | what a recursive mutex promises | `Acquire`, `Release` |
| `RecursiveMutex` | both functions, one step per mutex operation or scan | `elem` is the list, `owner`/`listmx` the mutexes, `held` what the callers know |
| `RecursiveMutexProofs` | theorems about `RecursiveMutex` | |
| `Threads` | the registry and the part of main that uses it, in both builds | `next` are the pointer fields, `cur` the walk of `kill_all`, `wcur` the walk of `getname` in the worker |
| `ThreadsProofs` | theorems about `Threads` | |
| `Lifecycle` | start, errors, signals, exit handlers, end | `pc` per thread; `hooks` is atexit's list; `left` records who left, where and why |
| `LifecycleProofs` | theorems about `Lifecycle` | |
| `Decode` | the decoder table, `lmap_decode`, all decoders, counters and fingerprint | `data`, `left`, `len`, `nextdec` are the locals of `lmap_decode` |
| `DecodeProofs` | theorems about `Decode` | |
| `Stats` | `lmap_stat.c`: the list of counters and `get_all_stats` | `list`, `num`, `entries` are the C variables, `cursor` the static one |
| `Iface` | the getters of `lmap_if.c` that the info screen calls, as sets of results | no state: how many descriptors are open is a parameter |
| `Screens` | `ncurses_start`, both screens, the menu, the statistics window, scrolling; extends `Stats` and `Iface` | `ptr` are the window pointers that are not NULL, `live` counts the windows behind them; every read of a counter is a step, so that the capture thread may count between two |
| `ScreensProofs` | theorems about `Screens`, `Stats` and `Iface` | |
| `Inet` | `lmap_inet.c`: addresses and their texts, with a reference for the canonical form | operators |
| `Fingerprint` | `fingerprint_alloc`, `fingerprint_push`, `TTL_PREDICTOR` on the 28 characters | operators |
| `TextProofs` | theorems about `Fingerprint` and `Inet` | |
| `Tables` | `fnv_32`, the tables of `lmap_manuf.c` and `lmap_fingerprint.c` | operators |
| `Report` | loading both data files, the texts of a packet from `decode_ip`, `decode_ip6` and `decode_tcp` to `db_bucket_send`, and the release of the tables; extends the three above | `manuf_head`, `finger_head` are the tables, `array` the local of `fingerprint_init`, `finger` and `shown` the fingerprint and the texts |
| `ReportProofs` | theorems about `Report` and `Tables` | |
| `MC*` | instances for TLC | |

`UiQueue` implements `MessageQueue`, and `RecursiveMutex` implements
`ReentrantLock`, under the refinement mappings stated in those modules.
`Threads` and `Lifecycle` share main: `Threads` details the registry and takes
the start for granted, `Lifecycle` details start and end and keeps only the
join of `lmap_thread_kill_all`.  `Decode` has the control of the decoders and
leaves the texts to `Report`; `Screens` counts the messages that `UiQueue`
details.

Abstractions:

- Messages, names, ports and the layout of texts are left out; addresses and
  fingerprints are kept only in `Report`, where they are the subject.  A message
  is the k-th message of its thread.  Its length is kept, because the
  `vsnprintf` loop depends on it.
- A packet is a sequence of headers and a payload.  A decoder reads the header
  that is there if it stands at one of its kind that was captured whole;
  otherwise it reads any field values, since no decoder looks at `buflen`.  A
  capture may have any length from 0 bytes up.  Packets are unfragmented and are read on a little-endian machine (this shows
  in `decode_ip6`, which uses `payload_len` in network order).
- Undefined behaviour is a choice of what it may do: writing to the debug file
  after `fclose`, using globals after `globals_free` or following a null
  dumper is a fault or, where that is possible, nothing; an id that
  `pthread_create` did not set is 0 or names no thread.  A freed node of the
  registry keeps its last field; `FreedUnused` gives the reason: when
  `lmap_thread_kill_all` reads it, no other thread is left that could have been
  given its memory.
- When an allocation of `ui_msg` fails, the other threads go on until `error_msg`
  has run the exit handlers and the process ends; what the handlers do is in
  `Lifecycle`.
- In `Screens`, keys are the numbers that `wgetch` returns, because the loops
  compare them with 12.  Colours, borders and positions on the screen are left
  out, except the line of the cursor in the pad of messages and the scroll
  indicator.  In `Iface` every way a function can return is possible as long as
  descriptors last, and so is the fault of `get_default_dns` on a line of
  `resolv.conf` that gives `strtok` nothing to return.
- In `Report` a hash is computed on the bits that select the bucket; the lower
  bits of a product and of an exclusive or depend on lower bits only.  A line of
  a data file is what `sscanf` or `strchr` make of it, shorter than the buffer of
  `fgets`.  `array` starts with arbitrary contents: the empty line of
  `tcp-fingerprints` is loaded with the bytes that happen to be there.
- `exit`, `pcap_loop`, curses and the allocator are external.  Two threads in
  `exit` each take the next handler; the process ends when one finds none.
  Locks inside the C library are not modelled, so that a thread cancelled
  inside `malloc` or stdio is harmless in the models.

## 3. Runs

Every bound is a constant in the `.cfg`.

| run | instance | what it shows |
|---|---|---|
| `ui_queue` | interface and two writers (symmetric), two messages each, one growth of the buffer, allocations failing, flush limits -1 and 1 | `Exclusive`, `NoDangling`, `ListIsPending`, the inductive invariant `QueueInv`, and `ImplementsQueue` |
| `ui_live` | interface and one writer, lengths 49 and 50 against the buffer of 50, a C99 `vsnprintf` | `NeverTruncated`, `FormatEnds`, `EventuallyDisplayed`, `QuitEnds` |
| `recursive_mutex` | two threads, two mutexes, depth 3, malloc failing, unlocks without lock | a thread that locked owns, an owner holds, unlocks are the owner's, the inductive invariant `RmInv` (one element per thread and mutex, an exclusive list), `ImplementsReentrantLock`; `ListReleased`: nobody waits for a mutex inside the list's section |
| `threads` | main and the capture thread, both builds, creation failing | `RegistrySound`, `KillsAll`, `FreedUnused`, `ReleaseProtected`, `QuitEnds` |
| `threads_create` | creation failing | violated: the error number of `pthread_create` is positive, the test is `< 0`, and a thread that does not exist is registered |
| `lifecycle` | both builds, failures everywhere, two signals | `TerminalRestored`, `HooksReady`, `CaptureStopped`, `ErrorReportedLater`, `ExitEnds` |
| `decode` | one packet of every kind, whole, cut or of no captured bytes, both link layers | positions stay inside the captured bytes, IPv4 and ARP packets meet exactly their decoders, counters nest, fingerprints are complete, a missing fingerprint is fatal only under IPv6, every packet is sent |
| `decode_ip6` | IPv6 packets | violated: `decode_ip6` claims the payload as decoded, so that the transport decoder it names does not run |
| `screens` | three decoders, two of which register TOTAL, two packets, keys of every kind, two descriptors, a view of one line on a pad of three | `WindowsOwned`, `StatsPass`, `MessagesVisible`, `CountCatchesUp` |
| `screens_leak` | the same | violated: `get_default_dns` returns without `fclose`, so that a screen that was left still holds a descriptor |
| `report` | files of up to four lines with macs that share a bucket and repeated entries, SYNs with up to two options, TTLs around the powers of two, all IPv6 addresses of words 0 and 1 | `TablesMatch`, `FingerprintFaithful`, `AddressText` |
| `finger_search` | the same | violated: a stored fingerprint ends in a NUL where the one that is searched has its 28th character |

Why the bounds are enough.  Two messages per writer let an insertion meet an
empty queue, a queue being emptied and a non-empty one; two writers compete for
the tail.  Depth 3 distinguishes first, middle and last unlock.  One worker is
what the program starts.  Two signals allow a second one in the handler of the
other thread.  The decoders keep nothing between packets but the counters; the
`decode` instance with two packets (2.5 million states) was checked as well and
shows no difference, it is only too slow to keep.  Header lengths 0, 5 and 6
words stand for too short, plain and with options; the IPv6 payload lengths are
0 (a jumbogram), 8 (read as 2048) and 256 (read as 1), so that the decoder
claims nothing, far too much or too little; a cut of 9 bytes takes the payload
away or falls inside the last header, and one of 14 leaves nothing of a packet
that ends with the link header.  In `screens`, two packets let one be
counted before and one between any two of the three reads of `menu_refresh`;
messages of one and two lines reach the last line of the pad from before the
view, and `ScreensProofs` covers the other heights.  With two descriptors the
info screen works once with a leak and then fails.  In `report`, words 0 and 1
give every pattern of zero runs, and two options every order and repetition of a
kind; the three macs of one bucket are taken from the repository's data file;
`ReportProofs` and `TextProofs` cover all other files, options and addresses.

Fairness.  `ui_live`: every thread and the interface's screen loop are
scheduled, since the loop polls with a timeout and calls `ui_msg_flush` every
time; weak fairness is enough for the mutex because every thread writes a
bounded number of messages; nobody has to leave the interface.  `threads`
and `lifecycle`: threads are scheduled and a requested cancellation is
delivered, which asynchronous cancelability promises.  `recursive_mutex`:
every thread keeps taking the steps of a call it has begun (`Proceed(t)`);
nothing is assumed about which waiter gets a mutex, nor that a caller calls
again.  `screens`: the interface thread is
scheduled and goes round its loop whether or not a key comes, since `poll` has a
timeout; the capture thread need not move.  `decode`: the capture
thread is scheduled while it has a packet; `EventuallySent` needs that no TCP
option has length 0, as RFC 793 demands, for the option loop would not advance.

Assumption on the C library: within one build `vsnprintf` behaves in one way,
returning the length needed (C99) or -1; `ui_queue` checks the second kind and
`ui_live` the first.

## 4. Proofs

The proof modules cover any number of threads, messages, mutexes, list
elements, lengths, keys, decoders, packets, signals, file lines, options and
window heights, from the assumptions named in the modules.  Most of these say
only that the constants have their types and that special values (null pointer,
queue head, nobody) are not nodes, threads or decoders: `UiAssumption`,
`RmAssumption`, `ThreadsAssumption`, `LifecycleAssumption`, `NullAssumption`.
The others say something about the program or its input:

- `ScreensAssumption`: a window has a line inside its border and its pad has
  more lines than that (the code has 10 and 150); `StatsAssumption`: some
  decoder registers TOTAL; `IfaceAssumption`: there is a descriptor.
- `DecodeAssumption`: header lengths are numbers of four bits and 5 words is
  among them, option lengths are bytes, payload lengths have 16 bits.
- `ReportAssumption`: a data file is a sequence of lines, and no line holds a
  NUL before its end.
- `PacketAssumption`: a TTL is a byte, both header lengths fit into their four
  bits, an option that is only noted is pushed as 1, an IPv6 address has eight
  words.  How large a word, a window or an option value is does not matter.

`UiQueueProofs`.  Neither mutual exclusion nor the shape of the list is
inductive: between their assignments the macros leave the list in states of
their own.  `QueueInv` describes these: it relates the pointers to two
histories, the nodes in the order of linking and the nodes displayed.  The list
from the head is the suffix of the first history after the second, shifted by
one while a displayed node is still first; the tail pointer lags by one between
the last two assignments of the insertion, and stays at the removed node
between the last two of the removal.  One lemma per conjunct of `QueueInv`
(`TypeStep`, `PcStep`, `MutexStep`, `HistoryStep`, `TextStep`, `LocalStep`,
`ChainStep`) has one case per action.  From it follow `MutualExclusion`,
`WholeMessages`, `NothingDangles`, `ListMatches` and `Refinement`, in which the
link of a node is `Put`, the display is `Show` and every other step stutters.

`RecursiveMutexProofs`.  The element of a thread appears before it has the
mutex and disappears before it gives it back; `RmInv` says for each of these
places what element, mutex and caller's count have to do with each other.
`ElemInv` equates the element's count with the locks the caller knows of plus
the one under way.  From it follow the five safety properties and `Refinement`;
the mapping's depth, taken from the list and the owner, is first shown equal to
one taken from the caller's count (`DepthIsKnown`), for which every step is
simple.

`ScreensProofs`.  That a screen deletes what it created depends on what it may
find: `Ownership` adds to `WindowsOwned` which windows there are while the info
screen is being built, and that `w_sys` exists as soon as a screen has been left
or the topology is shown.  `Cursor` adds to `MessagesVisible` where the cursor
of the pad is before anything was written.  `ScreensInv` has one case per
action; `Descriptors` and `ScrollRange` are about the getters and `lmap_scroll`.
`ScrollerStaysInside` needs of the invariant only that the view is inside the
pad, and the arithmetic of `ScrollerRange`.  `StatisticsAreComplete`, that a pass
over the counters shows each of them once, rests on `PassInv`: the list of
counters has no name twice and `entries` is its length, line k of the window
belongs to counter k of the list, and in the middle of a pass the static cursor
stands at the first counter that the pass has not shown yet.

`ThreadsProofs`.  Both walks over the registry follow `next` fields that main
is changing, in the DEBUG build with no mutex held.  What a walk can still meet
is the least set closed under `next` (`From`; `FromLeast` is the induction it
gives), so that no argument over the length of the list is needed.  `RegInv`
says that no two cells point to one node, that no node is both listed and freed
(`ListInv`), which node `lmap_thread_register` has in hand (`NodeInv`), that every
worker that runs is listed or about to be (`RegisteredInv`), and what
`lmap_thread_kill_all` has still before it (`KillInv`), and why a running thread's
debug message is the only thing that unlocks the mutex of main (`AskedInv`,
`MutexInv`).  From it follow `RegistryIsSound`, `KillAllKills` and
`ReleaseIsProtected`, for any number of workers.  One thing does not carry over
from the model to a program with many workers: that a freed node keeps its
`next` field, which `kill_all` reads.  `FreedIsUnused` is therefore stated for one
worker, as lmap has: then nobody else runs when the field is read.

`LifecycleProofs`.  Two threads and any number of signals leave the program
through the same handlers.  `LifeInv` says which threads may have left where and
why (`ThreadInv`); that the handlers were registered in one order, each after
what it releases was acquired, and are taken from the end (`HookInv`); that the
terminal is raw only while `onscreen` says so or main is in one of the places
where it changes (`TerminalInv`); that main goes on after the interface only
when the capture thread has ended (`StopInv`); that a thread that called
`error_msg` alone has printed its message or is on the way to do so
(`ErrorInv`); and that neither the dump file is closed before the capture
(`DumpInv`) nor the debug file open without its handler (`FileInv`).  From it
follow `TypeCorrect`, `TerminalIsRestored`, `HooksAreReady`, `CaptureIsStopped` and
`ErrorsAreReported`.  Two of these name what the code does not do.  `HooksReady` compares, for each handler, all it needs
with what can be used, and names two lacks: the debug file for `globals_free`
when `debug_close` has run or was never registered, and the dumper for
`capture_close` when the dump file could not be opened.  It says that these are
missing exactly then.  `ErrorReportedLater` leaves out, in the DEBUG build,
the errors up to `debug_init`.

`DecodeProofs`.  The n-th decoder of a packet is one of layer n (`ShapeInv`), so
there are at most four.  `DataInv`: while a packet is decoded, `data` and
`datalen` describe its rest, of which something is left.  `StatInv` says which
counters the packet in hand has still to raise, `FingerInv` from where to where a
fingerprint lives, and `ExactInv` that on a packet captured whole, without IPv6,
the decoders are those of its headers and each stands at its own; `LengthInv`
adds the two header lengths in the fingerprint.  `FingerprintShown` calls a
fingerprint complete exactly if `decode_tcp` ran, since a packet may end between
the two decoders; on a packet captured whole it must have run.  From them follow
`DecodersStayInside`, `WholePacketsDecoded`, `CountersNest`, `FingerprintMissing`
and `FingerprintIsOfPacket`.

`ReportProofs` and `TextProofs`.  `TablesAnswer` (a search answers like the last of
the lines read so far that names the mac, or the fingerprint) is proved for every
hash function: `TablesInv` is about every mac and every entry of the files, and its proof never unfolds `fnv_32`.
It holds for any contents of `array` before the first line.  `FingerInv`
follows the fingerprint of a packet from `fingerprint_alloc` through every push
and keeps, for each parameter, the characters that say what the headers say;
`FingerprintIsFaithful` is the whole of it at the end.  `AddressesAreShown`
combines `AddrInv`, what the two buffers hold at each step, with
`InetNtop6Is`, what `inet_ntop6` makes of any address: the canonical text, or for
an encapsulated IPv4 address nothing, so that the buffer keeps what it held, the
mac for the source and the source for the destination.  The conversions are in
`TextProofs`: a recursive function there is first shown to be a solution of its
equation and then unfolded as often as its argument can ask for (two hexadecimal
digits of a byte, eight words, the powers of two up to 256).  `BestRunIs` says
that the one pass of `inet_ntop6` finds the first of the longest runs of zero
words, from `ScanInv`: of the runs seen, `best` is the first of the longest
except that `cur` may still grow.  `TextIsCanonical` says that the text is then
the canonical one, for all eight words whatever they are.

Every safety invariant of a passing run is a theorem, and both refinements are.
Only model-checked are the liveness properties (`FormatEnds`,
`EventuallyDisplayed`, `QuitEnds`, `ListReleased`, `ExitEnds`, `EventuallySent`,
`CountCatchesUp`), since TLAPS does not handle fairness here, and the
four properties that are violated.

## 5. Findings

1. A failing `pthread_create` is not noticed (`threads_create`).
2. `decode_ip6` drops the transport decoder (`decode_ip6`).
3. `get_default_dns` leaves its file open; every info screen takes a descriptor
   until the program ends in `get_iface_ll` (`screens_leak`).
4. No fingerprint of the database can be found: 27 of its 28 characters are
   stored.  The system's name is copied from the start of the line, and the
   length is pushed in lower case, against the file's upper case
   (`finger_search`).

Remarks that no run reports as a violation:

- In the DEBUG build `lmap_thread_getname`, called by every debug message, unlocks
  `threads_mutex` without having locked it, while main may be changing the list
  (`ReleaseProtected` says, for both builds, that nothing else does); an error before `debug_init` has
  opened its file is replaced by "DEBUG_MSG called before initialization", since
  `error_msg` first calls `ui_cleanup` (`ErrorReportedLater` is about every later
  error); and every exit writes to a closed stream, since `globals_free` runs after
  `debug_close` and `free_stats` has a debug message (`HooksReady` says that this
  is so).
- `inet_ntop6` takes the result of `inet_ntop4` for an error: for an encapsulated
  IPv4 address the previous text of the buffer is shown (`AddressText` says which).
- `kill_all` reads the next pointer of a freed node (harmless with one worker); a
  lock that fails for want of memory keeps the list of the recursive mutexes
  locked for good.
- A signal between `initscr` and `onscreen = 1`, or between `onscreen = 0` and
  `endwin`, leaves the terminal raw; so may an error of the capture thread while
  the interface draws.
- A dump file that cannot be opened is followed as a null pointer; the counter DHCP is registered and
  never updated; the L5 part of a bucket is never freed.
- `menu_refresh` reads TOTAL three times: a packet counted between showing and
  remembering is not shown before the next one.  The counters of protocols are
  counted after TOTAL, so that the statistics window may lag by them as well.
- TAB, Return, Ctrl-L and an error of `wgetch` leave a screen, which is then built
  again (and takes another descriptor); Ctrl-A and Ctrl-B change the screen, and
  a NUL character leaves the program like Q.
- For a packet without addresses the mac is shown in their place.  The scope of a multicast address overwrites the word
  "multic".  `get_iface_ip` succeeds for AF_INET6 without writing an address.
- `TTL_PREDICTOR` makes 2 of a TTL of 0.  The empty line of `tcp-fingerprints` is
  loaded as an entry, since its end of line counts.
- A line of `resolv.conf` with nothing but a blank after `nameserver` makes
  `get_default_dns` follow a null pointer.
- An option of length 0 would keep `decode_tcp` at the same place for ever; the
  checks take the lengths that RFC 793 allows.

## 6. Not modelled, and the plan

Modelled although nothing in the repository calls them yet: `recursive_mutex_lock`
and `recursive_mutex_unlock`, `manuf_search` and `fingerprint_search`, which the
headers offer; their models quantify over the calls that a caller could make.

Not modelled: drawing; `lmap_thread_getdesc`, `hex_format`, `ip_addr_cmp`,
`fnv_64`, `lmap_redrawwin`, `lmap_delscrollwin`, `get_iface_idx` and the setters
of `lmap_if.c`, which have no callers; the BSD and Solaris branches of
`lmap_if.c`; `ui_register`, which only stores function pointers; the paths
that `open_data` tries (its failure is in `Lifecycle`); the replacement functions
under `src/missing` other than `strlcpy` as `fingerprint_init` uses it.

Next: what the exit handlers, the registry and the decoders promise as abstract
specifications, with `Lifecycle`, `Threads` and `Decode` shown to implement them;
the violated properties restated with the condition under which the code keeps
them, as theorems; what a getter of `Iface` leaves open, for every sequence of
calls.
