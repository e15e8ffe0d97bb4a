-------------------------------- MODULE Stats --------------------------------
(***************************************************************************)
(* The counters of src/lmap_stat.c: a list of named numbers, filled by the *)
(* constructors of the decoders before main runs, counted by the capture   *)
(* thread, and read by the interface, one by one through get_all_stats,    *)
(* which keeps its place in a static variable from call to call.           *)
(***************************************************************************)
EXTENDS Integers, Sequences

CONSTANTS
  Constructors,  \* the constructors that call register_stat
  StatOf,        \* the name that each of them registers
  TOTAL          \* the counter of all packets

StatNames == {StatOf[c] : c \in Constructors}

ASSUME StatsAssumption == TOTAL \in StatNames

VARIABLES
  unreg,    \* the constructors that have not run
  list,     \* stat_list_head: the names from the first element on
  num,      \* the field num of the element with this name
  entries,  \* stat_entries
  cursor    \* the static variable of get_all_stats: an index of list, where
            \* Len(list) + 1 is NULL and 0 is the initial ~0

statVars == <<unreg, list, num, entries, cursor>>

StatsInit ==
  /\ unreg = Constructors
  /\ list = << >>
  /\ num = [n \in StatNames |-> 0]
  /\ entries = 0
  /\ cursor = 0

Listed(n) == \E k \in 1..Len(list) : list[k] = n

\* Mutant: an element with the same name is not looked for.
RegisterStatAgain(c) ==
  /\ c \in unreg
  /\ unreg' = unreg \ {c}
  /\ num' = [num EXCEPT ![StatOf[c]] = 0]
  /\ list' = <<StatOf[c]>> \o list
  /\ entries' = entries + 1
  /\ UNCHANGED cursor

\* A name that is registered again takes the place of the old element.
RegisterStat(c) ==
  /\ c \in unreg
  /\ unreg' = unreg \ {c}
  /\ num' = [num EXCEPT ![StatOf[c]] = 0]
  /\ \/ Listed(StatOf[c]) /\ UNCHANGED <<list, entries>>
     \/ ~Listed(StatOf[c]) /\ list' = <<StatOf[c]>> \o list /\ entries' = entries + 1
  /\ UNCHANGED cursor

UpdateStat(n) ==
  /\ num' = [num EXCEPT ![n] = IF Listed(n) THEN @ + 1 ELSE @]
  /\ UNCHANGED <<unreg, list, entries, cursor>>

GetStat(n) == IF Listed(n) THEN num[n] ELSE 0

\* get_all_stats has returned every element since it last returned 0.
AllReturned == cursor = Len(list) + 1

\* The element that the next call of get_all_stats returns.
StatAtCursor == list[IF cursor = 0 THEN 1 ELSE cursor]

\* get_all_stats returns an element and goes on to the next one.
GetAllStats ==
  /\ ~AllReturned
  /\ cursor' = (IF cursor = 0 THEN 1 ELSE cursor) + 1
  /\ UNCHANGED <<unreg, list, num, entries>>

\* get_all_stats returns 0 and starts again.
GetAllStatsEnd ==
  /\ AllReturned
  /\ cursor' = 1
  /\ UNCHANGED <<unreg, list, num, entries>>
==============================================================================
