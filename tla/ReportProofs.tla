---------------------------- MODULE ReportProofs -----------------------------
(***************************************************************************)
(* Proofs about Report: what the two tables answer, whatever the hash      *)
(* function, the data files and the array that fingerprint_init reads      *)
(* into, and what is shown for a packet, whatever it brings.               *)
(***************************************************************************)
EXTENDS Report, TextProofs, TLAPS

\* What a search finds, without the test and the value of LastOf as operators.
LastVendor(lines, mac) ==
  {lines[i].vendor : i \in {i \in 1..Len(lines) :
     lines[i].mac = mac /\ \A k \in i + 1..Len(lines) : ~(lines[k].mac = mac)}}

\* Two lines have the same fingerprint, whatever the array held before.
Same(r, l) ==
  /\ Len(r.text) >= FINGER_LEN - 1
  /\ \A i \in 1..FINGER_LEN - 1 : r.text[i] = l.text[i]

LastLine(lines, l) ==
  {lines[i] : i \in {i \in 1..Len(lines) :
     Same(lines[i], l) /\ \A k \in i + 1..Len(lines) : ~Same(lines[k], l)}}

\* The lines that are loaded into the table of vendors.
Entries == {l \in MacLines : l.kind = "entry"}

IsTable(table) == \A h \in DOMAIN table : \E S : table[h] \in Seq(S)

TablesTyped ==
  /\ manufs \in Seq(MacLines) /\ fingers \in Seq(FingerLines)
  /\ read \in [mac : Seq(Entries), finger : Seq(FingerLines)]
  /\ IsTable(manuf_head) /\ IsTable(finger_head)

\* The tables answer like the lines that were read, until they are emptied.
TablesInv ==
  /\ TablesTyped
  /\ pc # "end" => \A l \in Entries : ManufSearch(manuf_head, l.mac) = LastVendor(read.mac, l.mac)
  /\ pc \notin {"discard", "end"} =>
       \A l \in FingerLines : Len(l.text) >= FINGER_LEN =>
         \A a : FingerprintSearch(finger_head, CopyFinger(a, l.text)) = LastLine(read.finger, l)

-----------------------------------------------------------------------------
(* Facts about the operators *)

\* A search after SLIST_INSERT_HEAD finds the new entry, or what it found before.
LEMMA MatchFirst ==
  ASSUME NEW S, NEW list \in Seq(S), NEW e \in S, NEW key
  PROVE  /\ e.key = key => FirstMatch(<<e>> \o list, key) = {e.value}
         /\ e.key # key => FirstMatch(<<e>> \o list, key) = FirstMatch(list, key)
  <1> DEFINE long == <<e>> \o list
             F(l) == {k \in 1..Len(l) : l[k].key = key}
             P(l) == {k \in F(l) : \A j \in F(l) : k <= j}
  <1>1. Len(list) \in Nat /\ long \in Seq(S) /\ Len(long) = Len(list) + 1
    OBVIOUS
  <1>2. long[1] = e /\ \A k \in 1..Len(list) : long[k + 1] = list[k]
    OBVIOUS
  <1>3. FirstMatch(long, key) = {long[k].value : k \in P(long)}
    BY DEF FirstMatch
  <1>4. FirstMatch(list, key) = {list[k].value : k \in P(list)}
    BY DEF FirstMatch
  <1>5. CASE e.key = key
    <2>1. P(long) = {1}
      BY <1>1, <1>2, <1>5
    <2> QED BY <1>2, <1>3, <1>5, <2>1
  <1>6. CASE e.key # key
    <2>1. \A k \in Nat : k + 1 \in F(long) <=> k \in F(list)
      BY <1>1, <1>2, <1>6
    <2>2. 0 \notin F(list) /\ F(list) \subseteq Nat /\ F(long) \subseteq Nat /\ 0 \notin F(long)
      BY <1>1
    <2> HIDE DEF F
    <2>3. \A k \in Nat : k + 1 \in P(long) <=> k \in P(list)
      <3>1. \A j \in F(long) : j - 1 \in Nat /\ j - 1 \in F(list) /\ (j - 1) + 1 = j
        <4> SUFFICES ASSUME NEW j \in F(long) PROVE j - 1 \in Nat /\ j - 1 \in F(list) /\ (j - 1) + 1 = j
          OBVIOUS
        <4>1. j \in Nat /\ j # 0
          BY <2>2
        <4>2. j - 1 \in Nat /\ (j - 1) + 1 = j
          BY <4>1
        <4> QED BY <2>1, <4>2
      <3>2. \A j \in F(list) : j + 1 \in F(long)
        BY <2>1, <2>2
      <3> SUFFICES ASSUME NEW k \in Nat PROVE k + 1 \in P(long) <=> k \in P(list)
        OBVIOUS
      <3>3. ASSUME k + 1 \in P(long), NEW j \in F(list) PROVE k <= j
        <4>1. k + 1 <= j + 1
          BY <3>2, <3>3
        <4> QED BY <2>2, <4>1
      <3>4. ASSUME k \in P(list), NEW j \in F(long) PROVE k + 1 <= j
        <4>1. k <= j - 1
          BY <3>1, <3>4
        <4> QED BY <2>2, <4>1
      <3> QED BY <2>1, <3>3, <3>4
    <2>4. {long[k].value : k \in P(long)} = {list[k].value : k \in P(list)}
      <3>1. ASSUME NEW k \in P(long) PROVE k - 1 \in P(list) /\ long[k] = list[k - 1]
        <4>1. k \in Nat /\ k # 0
          BY <2>2
        <4>2. k - 1 \in Nat /\ (k - 1) + 1 = k
          BY <4>1
        <4>3. k - 1 \in P(list)
          BY <2>3, <3>1, <4>2
        <4>4. k - 1 \in 1..Len(list)
          BY <4>3 DEF F
        <4> QED BY <1>2, <4>2, <4>3, <4>4
      <3>2. ASSUME NEW k \in P(list) PROVE k + 1 \in P(long) /\ long[k + 1] = list[k]
        <4>1. k \in Nat /\ k \in 1..Len(list)
          BY <2>2 DEF F
        <4> QED BY <1>2, <2>3, <4>1
      <3> HIDE DEF P, long
      <3>3. ASSUME NEW v PROVE (\E k \in P(long) : v = long[k].value) => \E k \in P(list) : v = list[k].value
        BY <3>1
      <3>4. ASSUME NEW v PROVE (\E k \in P(list) : v = list[k].value) => \E k \in P(long) : v = long[k].value
        BY <3>2
      <3> QED BY <3>3, <3>4
    <2> QED BY <1>3, <1>4, <1>6, <2>4
  <1> QED BY <1>5, <1>6

LEMMA BucketType ==
  ASSUME NEW table, IsTable(table), NEW h PROVE \E S : Bucket(table, h) \in Seq(S)
  <1>1. CASE h \in DOMAIN table
    BY <1>1 DEF Bucket, IsTable
  <1>2. CASE h \notin DOMAIN table
    <2>1. Bucket(table, h) \in Seq({})
      BY <1>2 DEF Bucket
    <2> QED BY <2>1
  <1> QED BY <1>1, <1>2

\* A table after SLIST_INSERT_HEAD, whatever the bucket is, as long as equal keys
\* have the same bucket.
LEMMA SearchInsert ==
  ASSUME NEW table, IsTable(table), NEW h, NEW e, NEW g, NEW key, e.key = key => g = h
  PROVE  FirstMatch(Bucket(InsertHead(table, h, e), g), key)
           = IF e.key = key THEN {e.value} ELSE FirstMatch(Bucket(table, g), key)
  <1>1. CASE g = h
    <2>1. PICK S : Bucket(table, g) \in Seq(S)
      BY BucketType
    <2>2. Bucket(table, g) \in Seq(S \cup {e}) /\ e \in S \cup {e}
      BY <2>1
    <2>3. Bucket(InsertHead(table, h, e), g) = <<e>> \o Bucket(table, g)
      BY <1>1 DEF Bucket, InsertHead
    <2>4. FirstMatch(<<e>> \o Bucket(table, g), key)
            = IF e.key = key THEN {e.value} ELSE FirstMatch(Bucket(table, g), key)
      <3> DEFINE T == S \cup {e}
                 old == Bucket(table, g)
      <3>1. old \in Seq(T) /\ e \in T
        BY <2>2
      <3> HIDE DEF T, old
      <3>2. /\ e.key = key => FirstMatch(<<e>> \o old, key) = {e.value}
            /\ e.key # key => FirstMatch(<<e>> \o old, key) = FirstMatch(old, key)
        BY <3>1, MatchFirst
      <3> QED BY <3>2 DEF old
    <2> QED BY <2>3, <2>4
  <1>2. CASE g # h
    <2>1. Bucket(InsertHead(table, h, e), g) = Bucket(table, g)
      BY <1>2 DEF Bucket, InsertHead
    <2> QED BY <1>2, <2>1
  <1> QED BY <1>1, <1>2

LEMMA InsertType ==
  ASSUME NEW table, IsTable(table), NEW h, NEW e PROVE IsTable(InsertHead(table, h, e))
  <1> DEFINE new == InsertHead(table, h, e)
  <1>1. \A g \in DOMAIN new : new[g] = IF g = h THEN <<e>> \o Bucket(table, h) ELSE table[g]
    BY DEF InsertHead
  <1>2. \A g \in DOMAIN new : g # h => g \in DOMAIN table
    BY DEF InsertHead
  <1>3. PICK S : Bucket(table, h) \in Seq(S)
    BY BucketType
  <1>4. <<e>> \o Bucket(table, h) \in Seq(S \cup {e})
    <2>1. Bucket(table, h) \in Seq(S \cup {e}) /\ <<e>> \in Seq(S \cup {e})
      BY <1>3
    <2> QED BY <2>1
  <1> HIDE DEF new
  <1>5. \A g \in DOMAIN new : \E T : new[g] \in Seq(T)
    BY <1>1, <1>2, <1>4 DEF IsTable
  <1> QED BY <1>5 DEF new, IsTable

\* The last line is another one only if the line that was read has the key.
LEMMA LastVendorAppend ==
  ASSUME NEW S, NEW lines \in Seq(S), NEW r \in S, NEW mac
  PROVE  /\ r.mac = mac => LastVendor(Append(lines, r), mac) = {r.vendor}
         /\ r.mac # mac => LastVendor(Append(lines, r), mac) = LastVendor(lines, mac)
  <1> DEFINE long == Append(lines, r)
             n == Len(lines)
             P(l) == {i \in 1..Len(l) : l[i].mac = mac /\ \A k \in i + 1..Len(l) : ~(l[k].mac = mac)}
  <1>1. n \in Nat /\ Len(long) = n + 1 /\ long[n + 1] = r /\ \A k \in 1..n : long[k] = lines[k]
    OBVIOUS
  <1>2. LastVendor(long, mac) = {long[i].vendor : i \in P(long)}
        /\ LastVendor(lines, mac) = {lines[i].vendor : i \in P(lines)}
    BY DEF LastVendor
  <1>3. CASE r.mac = mac
    <2>1. P(long) = {n + 1}
      BY <1>1, <1>3
    <2> QED BY <1>1, <1>2, <1>3, <2>1
  <1>4. CASE r.mac # mac
    <2>1. P(long) = P(lines) /\ P(lines) \subseteq 1..n
      BY <1>1, <1>4
    <2> HIDE DEF P, long
    <2>2. {long[i].vendor : i \in P(long)} = {lines[i].vendor : i \in P(lines)}
      BY <1>1, <2>1
    <2> QED BY <1>2, <1>4, <2>2 DEF long
  <1> QED BY <1>3, <1>4

LEMMA LastLineAppend ==
  ASSUME NEW S, NEW lines \in Seq(S), NEW r \in S, NEW l
  PROVE  LastLine(Append(lines, r), l) = IF Same(r, l) THEN {r} ELSE LastLine(lines, l)
  <1> DEFINE long == Append(lines, r)
             n == Len(lines)
             P(s) == {i \in 1..Len(s) : Same(s[i], l) /\ \A k \in i + 1..Len(s) : ~Same(s[k], l)}
  <1>1. n \in Nat /\ Len(long) = n + 1 /\ long[n + 1] = r /\ \A k \in 1..n : long[k] = lines[k]
    OBVIOUS
  <1>2. LastLine(long, l) = {long[i] : i \in P(long)} /\ LastLine(lines, l) = {lines[i] : i \in P(lines)}
    BY DEF LastLine
  <1>3. CASE Same(r, l)
    <2>1. P(long) = {n + 1}
      BY <1>1, <1>3
    <2> QED BY <1>1, <1>2, <1>3, <2>1
  <1>4. CASE ~Same(r, l)
    <2>1. P(long) = P(lines) /\ P(lines) \subseteq 1..n
      BY <1>1, <1>4
    <2> HIDE DEF P, long
    <2>2. {long[i] : i \in P(long)} = {lines[i] : i \in P(lines)}
      BY <1>1, <2>1
    <2> QED BY <1>2, <1>4, <2>2 DEF long
  <1> QED BY <1>3, <1>4

\* The array f after strlcpy of a text of n characters into the array a.
Copied(f, text, n, a) ==
  /\ f = [i \in 1..28 |-> f[i]]
  /\ \A i \in 1..28 : f[i] = IF i <= n /\ i <= 27 THEN text[i]
                             ELSE IF i = n + 1 \/ (i = 28 /\ n >= 28) THEN NUL ELSE a[i]

LEMMA CopyByte ==
  ASSUME NEW text, NEW a, NEW n \in Nat, Len(text) = n
  PROVE  Copied(CopyFinger(a, text), text, n, a)
  <1> DEFINE m == IF Len(text) < FINGER_LEN THEN Len(text) ELSE FINGER_LEN - 1
  <1>1. m = IF n < 28 THEN n ELSE 27
    BY DEF FINGER_LEN
  <1>2. CopyFinger(a, text) =
          [i \in 1..28 |-> IF i <= m THEN text[i] ELSE IF i = m + 1 THEN NUL ELSE a[i]]
    BY DEF CopyFinger, FINGER_LEN
  <1> HIDE DEF m
  <1>3. m \in Nat /\ \A i \in 1..28 : /\ i <= m <=> (i <= n /\ i <= 27)
                                     /\ i = m + 1 <=> (n < 28 /\ i = n + 1) \/ (n >= 28 /\ i = 28)
    BY <1>1
  <1>4. \A i \in 1..28 :
          (n < 28 /\ i = n + 1) \/ (n >= 28 /\ i = 28) <=> i = n + 1 \/ (i = 28 /\ n >= 28)
    OBVIOUS
  <1>5. /\ CopyFinger(a, text) = [i \in 1..28 |-> CopyFinger(a, text)[i]]
        /\ \A i \in 1..28 : CopyFinger(a, text)[i] =
                              IF i <= m THEN text[i] ELSE IF i = m + 1 THEN NUL ELSE a[i]
    BY <1>2
  <1>6. ASSUME NEW i \in 1..28
        PROVE  CopyFinger(a, text)[i] = IF i <= n /\ i <= 27 THEN text[i]
                                        ELSE IF i = n + 1 \/ (i = 28 /\ n >= 28) THEN NUL ELSE a[i]
    <2>1. /\ i <= m <=> (i <= n /\ i <= 27)
          /\ i = m + 1 <=> i = n + 1 \/ (i = 28 /\ n >= 28)
      BY <1>3, <1>4
    <2> QED BY <1>5, <2>1
  <1> QED BY <1>5, <1>6 DEF Copied

\* The 28 bytes that strlcpy leaves for a long line do not depend on the array,
\* and a line that leaves the same 28 bytes has at least 27.
LEMMA CopySame ==
  ASSUME NEW r \in FingerLines, NEW l \in FingerLines, Len(l.text) >= FINGER_LEN,
         NEW a, NEW b
  PROVE  CopyFinger(a, r.text) = CopyFinger(b, l.text) <=> Same(r, l)
  <1> DEFINE f == CopyFinger(a, r.text)
             g == CopyFinger(b, l.text)
  <1>1. PICK n \in Nat, m \in Nat : Len(r.text) = n /\ Len(l.text) = m
    BY ReportAssumption
  <1>2. m >= 28 /\ \A i \in 1..m : l.text[i] # NUL
    BY <1>1, ReportAssumption DEF FINGER_LEN
  <1>3. Copied(f, r.text, n, a) /\ Copied(g, l.text, m, b)
    BY <1>1, CopyByte
  <1>4. Same(r, l) <=> n >= 27 /\ \A i \in 1..27 : r.text[i] = l.text[i]
    BY <1>1 DEF Same, FINGER_LEN
  <1> HIDE DEF f, g
  <1>6. f = g <=> \A i \in 1..28 : f[i] = g[i]
    BY <1>3 DEF Copied
  <1>7. (\A i \in 1..27 : g[i] = l.text[i] /\ g[i] # NUL) /\ g[28] = NUL
    <2>1. ASSUME NEW i \in 1..27 PROVE g[i] = l.text[i] /\ g[i] # NUL
      <3>1. i \in 1..28 /\ i <= m /\ i <= 27 /\ i \in 1..m
        <4>1. m >= 28 /\ m \in Nat /\ i \in Nat /\ 1 <= i /\ i <= 27
          BY <1>2
        <4> QED BY ONLY <4>1
      <3> QED BY <1>2, <1>3, <3>1 DEF Copied
    <2>2. 28 \in 1..28 /\ ~(28 <= m /\ 28 <= 27) /\ 28 = 28 /\ m >= 28
      BY <1>2
    <2>3. g[28] = NUL
      BY <1>3, <2>2 DEF Copied
    <2> QED BY <2>1, <2>3
  <1>8. CASE n >= 27
    <2>1. (\A i \in 1..27 : f[i] = r.text[i]) /\ f[28] = NUL
      <3>1. ASSUME NEW i \in 1..27 PROVE f[i] = r.text[i]
        <4>1. i \in 1..28 /\ i <= n /\ i <= 27
          BY <1>8
        <4> QED BY <1>3, <4>1 DEF Copied
      <3>2. 28 \in 1..28 /\ ~(28 <= n /\ 28 <= 27) /\ (28 = n + 1 \/ (28 = 28 /\ n >= 28))
        BY <1>8
      <3>3. f[28] = NUL
        BY <1>3, <3>2 DEF Copied
      <3> QED BY <3>1, <3>3
    <2>2. \A i \in 1..28 : i \in 1..27 \/ i = 28
      OBVIOUS
    <2>3. (\A i \in 1..28 : f[i] = g[i]) <=> \A i \in 1..27 : r.text[i] = l.text[i]
      <3>1. ASSUME \A i \in 1..28 : f[i] = g[i], NEW i \in 1..27 PROVE r.text[i] = l.text[i]
        <4>1. i \in 1..28
          OBVIOUS
        <4> QED BY <1>7, <2>1, <3>1, <4>1
      <3>2. ASSUME \A i \in 1..27 : r.text[i] = l.text[i], NEW i \in 1..28 PROVE f[i] = g[i]
        <4>1. CASE i \in 1..27
          BY <1>7, <2>1, <3>2, <4>1
        <4>2. CASE i = 28
          BY <1>7, <2>1, <4>2
        <4> QED BY <2>2, <4>1, <4>2
      <3> QED BY <3>1, <3>2
    <2> QED BY <1>4, <1>6, <1>8, <2>3 DEF f, g
  <1>9. CASE n < 27
    <2>1. n + 1 \in 1..27 /\ f[n + 1] = NUL
      <3>1. n + 1 \in 1..27 /\ n + 1 \in 1..28 /\ ~(n + 1 <= n)
        BY <1>9
      <3> QED BY <1>3, <3>1 DEF Copied
    <2>2. f # g
      BY <1>7, <2>1
    <2> QED BY <1>4, <1>9, <2>2 DEF f, g
  <1> QED BY <1>8, <1>9

-----------------------------------------------------------------------------
(* The tables *)

LEMMA TablesInit == Init => TablesInv
  <1> SUFFICES ASSUME Init PROVE TablesInv
    OBVIOUS
  <1>1. TablesTyped
    <2>1. manufs \in Seq(MacLines) /\ fingers \in Seq(FingerLines)
      BY ReportAssumption DEF Init
    <2>2. read \in [mac : Seq(Entries), finger : Seq(FingerLines)]
      BY DEF Init
    <2>3. IsTable(manuf_head) /\ IsTable(finger_head)
      BY DEF Init, IsTable
    <2> QED BY <2>1, <2>2, <2>3 DEF TablesTyped
  <1>2. \A l : Bucket(<< >>, l) = << >>
    BY DEF Bucket
  <1>3. \A key : FirstMatch(<< >>, key) = {}
    BY DEF FirstMatch
  <1>4. \A mac : LastVendor(<< >>, mac) = {}
    BY DEF LastVendor
  <1>5. \A l : LastLine(<< >>, l) = {}
    BY DEF LastLine
  <1>6. manuf_head = << >> /\ finger_head = << >> /\ read.mac = << >> /\ read.finger = << >>
    BY DEF Init
  <1>7. \A mac : ManufSearch(manuf_head, mac) = LastVendor(read.mac, mac)
    BY <1>2, <1>3, <1>4, <1>6 DEF ManufSearch
  <1>8. \A f, l : FingerprintSearch(finger_head, f) = LastLine(read.finger, l)
    BY <1>2, <1>3, <1>5, <1>6 DEF FingerprintSearch
  <1> QED BY <1>1, <1>7, <1>8 DEF TablesInv

\* Steps that leave the tables alone.
LEMMA SameTables ==
  ASSUME TablesInv, UNCHANGED tables, pc = "end" => pc' = "end",
         pc \in {"discard", "end"} => pc' \in {"discard", "end"}
  PROVE  TablesInv'
  <1>1. TablesTyped'
    BY DEF TablesInv, TablesTyped, tables
  <1> QED BY <1>1 DEF TablesInv, tables

\* A line of mac-fingerprints is read.
LEMMA ManufStep ==
  ASSUME TablesInv, ManufInit PROVE TablesInv'
  <1> DEFINE r == Head(manufs)
  <1>1. r \in MacLines /\ manufs' \in Seq(MacLines)
    BY DEF TablesInv, TablesTyped, ManufInit
  <1>2. /\ pc = "manuf" /\ pc' = "manuf" /\ fingers' = fingers /\ finger_head' = finger_head
    BY DEF ManufInit
  <1>3. CASE r.kind # "entry"
    <2>1. read' = read /\ manuf_head' = manuf_head
      BY <1>3 DEF ManufInit
    <2>2. TablesTyped'
      BY <1>1, <1>2, <2>1 DEF TablesInv, TablesTyped
    <2> QED BY <1>2, <2>1, <2>2 DEF TablesInv
  <1>4. CASE r.kind = "entry"
    <2> DEFINE e == [key |-> r.mac, value |-> r.vendor]
    <2>1. /\ read' = [read EXCEPT !.mac = Append(@, r)]
          /\ manuf_head' = InsertHead(manuf_head, ManufHash(r.mac), e)
      BY <1>4 DEF ManufInit, ManufLoad
    <2>2. r \in Entries /\ read.mac \in Seq(Entries) /\ IsTable(manuf_head)
      BY <1>1, <1>4 DEF Entries, TablesInv, TablesTyped
    <2>3. read'.mac = Append(read.mac, r) /\ read'.finger = read.finger
          /\ read' \in [mac : Seq(Entries), finger : Seq(FingerLines)]
      <3> DEFINE new == Append(read.mac, r)
      <3>1. new \in Seq(Entries)
        BY <2>2
      <3>2. read \in [mac : Seq(Entries), finger : Seq(FingerLines)]
        BY DEF TablesInv, TablesTyped
      <3>3. read' = [read EXCEPT !.mac = new]
        BY <2>1
      <3> HIDE DEF new
      <3>4. read'.mac = new /\ read'.finger = read.finger
            /\ read' \in [mac : Seq(Entries), finger : Seq(FingerLines)]
        BY <3>1, <3>2, <3>3
      <3> QED BY <3>4 DEF new
    <2>4. TablesTyped'
      BY <1>1, <1>2, <2>1, <2>2, <2>3, InsertType DEF TablesInv, TablesTyped
    <2>5. ASSUME NEW l \in Entries
          PROVE  ManufSearch(manuf_head', l.mac) = LastVendor(read'.mac, l.mac)
      <3>1. ManufSearch(manuf_head', l.mac)
              = IF r.mac = l.mac THEN {r.vendor} ELSE ManufSearch(manuf_head, l.mac)
        <4> DEFINE key == l.mac
                   g == ManufHash(key)
                   h == ManufHash(r.mac)
        <4>1. e.key = r.mac /\ e.value = r.vendor /\ (e.key = key => g = h)
          OBVIOUS
        <4> HIDE DEF e, key, g, h
        <4>2. FirstMatch(Bucket(InsertHead(manuf_head, h, e), g), key)
                = IF e.key = key THEN {e.value} ELSE FirstMatch(Bucket(manuf_head, g), key)
          BY <2>2, <4>1, SearchInsert
        <4> QED BY <2>1, <4>1, <4>2 DEF ManufSearch, key, g, h
      <3>2. LastVendor(read'.mac, l.mac)
              = IF r.mac = l.mac THEN {r.vendor} ELSE LastVendor(read.mac, l.mac)
        <4>1. LastVendor(Append(read.mac, r), l.mac)
                = IF r.mac = l.mac THEN {r.vendor} ELSE LastVendor(read.mac, l.mac)
          <5> DEFINE key == l.mac
                     lines == read.mac
          <5>1. lines \in Seq(Entries) /\ r \in Entries
            BY <2>2
          <5> HIDE DEF e, r, key, lines
          <5>2. r.mac = key => LastVendor(Append(lines, r), key) = {r.vendor}
            BY <5>1, LastVendorAppend
          <5>3. r.mac # key => LastVendor(Append(lines, r), key) = LastVendor(lines, key)
            BY <5>1, LastVendorAppend
          <5> QED BY <5>2, <5>3 DEF key, lines
        <4> QED BY <2>3, <4>1
      <3>3. ManufSearch(manuf_head, l.mac) = LastVendor(read.mac, l.mac)
        BY <1>2 DEF TablesInv
      <3> QED BY <3>1, <3>2, <3>3
    <2> QED BY <1>2, <2>3, <2>4, <2>5 DEF TablesInv
  <1> QED BY <1>3, <1>4

\* A line of tcp-fingerprints is read into the array, and loaded.
LEMMA FingerStep ==
  ASSUME TablesInv, FingerprintInit PROVE TablesInv'
  <1> DEFINE r == Head(fingers)
  <1>1. r \in FingerLines /\ fingers' \in Seq(FingerLines)
    BY DEF TablesInv, TablesTyped, FingerprintInit
  <1>2. /\ pc = "fingerprint" /\ pc' = "fingerprint" /\ manufs' = manufs
        /\ manuf_head' = manuf_head
    BY DEF FingerprintInit
  <1>3. CASE r.text = << >>
    <2>1. read' = read /\ finger_head' = finger_head
      BY <1>3 DEF FingerprintInit
    <2>2. TablesTyped'
      BY <1>1, <1>2, <2>1 DEF TablesInv, TablesTyped
    <2> QED BY <1>2, <2>1, <2>2 DEF TablesInv
  <1>4. CASE r.text # << >>
    <2> DEFINE f == CopyFinger(array, r.text)
               e == [key |-> f, value |-> r]
    <2>1. /\ read' = [read EXCEPT !.finger = Append(@, r)]
          /\ finger_head' = InsertHead(finger_head, FingerHash(f), e)
      BY <1>4 DEF FingerprintInit, FingerLoad
    <2>2. read.finger \in Seq(FingerLines) /\ IsTable(finger_head)
      BY DEF TablesInv, TablesTyped
    <2>3. read'.finger = Append(read.finger, r) /\ read'.mac = read.mac
          /\ read' \in [mac : Seq(Entries), finger : Seq(FingerLines)]
      <3> DEFINE new == Append(read.finger, r)
      <3>1. new \in Seq(FingerLines)
        BY <1>1, <2>2
      <3>2. read \in [mac : Seq(Entries), finger : Seq(FingerLines)]
        BY DEF TablesInv, TablesTyped
      <3>3. read' = [read EXCEPT !.finger = new]
        BY <2>1
      <3> HIDE DEF new
      <3>4. read'.finger = new /\ read'.mac = read.mac
            /\ read' \in [mac : Seq(Entries), finger : Seq(FingerLines)]
        BY <3>1, <3>2, <3>3
      <3> QED BY <3>4 DEF new
    <2>4. TablesTyped'
      BY <1>1, <1>2, <2>1, <2>2, <2>3, InsertType DEF TablesInv, TablesTyped
    <2>5. ASSUME NEW l \in FingerLines, Len(l.text) >= FINGER_LEN, NEW a
          PROVE  FingerprintSearch(finger_head', CopyFinger(a, l.text)) = LastLine(read'.finger, l)
      <3> DEFINE key == CopyFinger(a, l.text)
      <3>1. FingerprintSearch(finger_head', key)
              = IF f = key THEN {r} ELSE FingerprintSearch(finger_head, key)
        <4> DEFINE g == FingerHash(key)
                   h == FingerHash(f)
        <4>1. e.key = f /\ e.value = r /\ (e.key = key => g = h)
          OBVIOUS
        <4> HIDE DEF e, key, f
        <4>2. FirstMatch(Bucket(InsertHead(finger_head, h, e), g), key)
                = IF e.key = key THEN {e.value} ELSE FirstMatch(Bucket(finger_head, g), key)
          BY <2>2, <4>1, SearchInsert
        <4> QED BY <2>1, <4>1, <4>2 DEF FingerprintSearch
      <3>2. LastLine(read'.finger, l) = IF Same(r, l) THEN {r} ELSE LastLine(read.finger, l)
        <4>1. LastLine(Append(read.finger, r), l)
                = IF Same(r, l) THEN {r} ELSE LastLine(read.finger, l)
          <5> HIDE DEF r
          <5> QED BY <1>1, <2>2, LastLineAppend
        <4> QED BY <2>3, <4>1
      <3>3. f = key <=> Same(r, l)
        BY <1>1, <2>5, CopySame
      <3>4. FingerprintSearch(finger_head, key) = LastLine(read.finger, l)
        BY <1>2, <2>5 DEF TablesInv
      <3> QED BY <3>1, <3>2, <3>3, <3>4
    <2> QED BY <1>2, <2>3, <2>4, <2>5 DEF TablesInv
  <1> QED BY <1>3, <1>4

LEMMA TablesNext ==
  ASSUME TablesInv, [Next]_vars PROVE TablesInv'
  <1>1. CASE ManufInit
    BY <1>1, ManufStep
  <1>2. CASE FingerprintInit
    BY <1>2, FingerStep
  <1>3. CASE ManufEnd \/ FingerprintEnd
    BY <1>3, SameTables DEF ManufEnd, FingerprintEnd
  <1>4. CASE \E p \in Packets : DecodeNone(p) \/ DecodeIp(p) \/ DecodeIp6(p)
    <2>1. PICK p \in Packets : DecodeNone(p) \/ DecodeIp(p) \/ DecodeIp6(p)
      BY <1>4
    <2>2. pc = "capture" /\ UNCHANGED tables
      BY <2>1 DEF DecodeNone, DecodeIp, DecodeIp6
    <2> QED BY <2>2, SameTables
  <1>5. CASE DecodeTcp
    BY <1>5, SameTables DEF DecodeTcp
  <1>6. CASE TcpOption
    BY <1>6, SameTables DEF TcpOption
  <1>7. CASE TcpReturn \/ DbBucketSend \/ NextPacket
    BY <1>7, SameTables DEF TcpReturn, DbBucketSend, NextPacket, tables
  <1>8. CASE FingerprintDiscard
    <2>1. /\ pc = "capture" /\ pc' = "discard" /\ finger_head' = << >>
          /\ UNCHANGED <<manufs, fingers, read, array, manuf_head>>
      BY <1>8 DEF FingerprintDiscard
    <2>2. IsTable(<< >>)
      BY DEF IsTable
    <2>3. TablesTyped'
      BY <2>1, <2>2 DEF TablesInv, TablesTyped
    <2> QED BY <2>1, <2>3 DEF TablesInv
  <1>9. CASE DiscardMacdb
    <2>1. /\ pc' = "end" /\ manuf_head' = << >>
          /\ UNCHANGED <<manufs, fingers, read, array, finger_head>>
      BY <1>9 DEF DiscardMacdb
    <2>2. IsTable(<< >>)
      BY DEF IsTable
    <2>3. TablesTyped'
      BY <2>1, <2>2 DEF TablesInv, TablesTyped
    <2> QED BY <2>1, <2>3 DEF TablesInv
  <1>10. CASE UNCHANGED vars
    BY <1>10, SameTables DEF vars, tables
  <1> QED BY <1>1, <1>2, <1>3, <1>4, <1>5, <1>6, <1>7, <1>8, <1>9, <1>10 DEF Next, Done

\* The inductive invariant of the two tables, for any files and hash.
THEOREM TablesInvariant == Spec => []TablesInv
  <1>1. Init => TablesInv
    BY TablesInit
  <1>2. TablesInv /\ [Next]_vars => TablesInv'
    BY TablesNext
  <1> QED BY <1>1, <1>2, PTL DEF Spec

\* manuf_search and fingerprint_search answer like the last line that was read.
THEOREM TablesAnswer == Spec => []TablesMatch
  <1>1. TablesInv => TablesMatch
    <2> SUFFICES ASSUME TablesInv PROVE TablesMatch
      OBVIOUS
    <2>1. ASSUME pc # "end", NEW l \in MacLines, l.kind = "entry"
          PROVE  ManufSearch(manuf_head, l.mac)
                   = LastOf(read.mac, LAMBDA r : r.mac = l.mac, LAMBDA r : r.vendor)
      BY <2>1 DEF TablesInv, Entries, LastVendor, LastOf
    <2>2. ASSUME pc \notin {"discard", "end"}, NEW l \in FingerLines, Len(l.text) >= FINGER_LEN
          PROVE  FingerprintSearch(finger_head, CopyFinger(array, l.text))
                   = LastOf(read.finger, LAMBDA r : CopyFinger(array, r.text) = CopyFinger(array, l.text),
                                         LAMBDA r : r)
      <3> DEFINE lines == read.finger
                 P == {i \in 1..Len(lines) : Same(lines[i], l)
                                               /\ \A k \in i + 1..Len(lines) : ~Same(lines[k], l)}
                 Like(r) == CopyFinger(array, r.text) = CopyFinger(array, l.text)
                 Q == {i \in 1..Len(lines) : Like(lines[i])
                                               /\ \A k \in i + 1..Len(lines) : ~Like(lines[k])}
      <3>1. \A i \in 1..Len(lines) : Like(lines[i]) <=> Same(lines[i], l)
        <4>1. lines \in Seq(FingerLines)
          BY DEF TablesInv, TablesTyped
        <4> HIDE DEF lines
        <4>2. \A i \in 1..Len(lines) : lines[i] \in FingerLines
          BY <4>1
        <4> QED BY <2>2, <4>2, CopySame
      <3>2. Len(lines) \in Nat
        BY DEF TablesInv, TablesTyped
      <3>3. P = Q
        <4>1. \A i \in 1..Len(lines) : \A k \in i + 1..Len(lines) : k \in 1..Len(lines)
          BY <3>2
        <4> HIDE DEF Like, lines
        <4> QED BY <3>1, <4>1
      <3>4. LastOf(lines, LAMBDA r : Like(r), LAMBDA r : r) = {lines[i] : i \in Q}
        BY DEF LastOf
      <3>5. LastLine(lines, l) = {lines[i] : i \in P}
        BY DEF LastLine
      <3>6. FingerprintSearch(finger_head, CopyFinger(array, l.text)) = LastLine(lines, l)
        BY <2>2 DEF TablesInv
      <3> QED BY <3>3, <3>4, <3>5, <3>6
    <2> QED BY <2>1, <2>2 DEF TablesMatch
  <1> QED BY <1>1, TablesInvariant, PTL

-----------------------------------------------------------------------------
(* The fingerprint *)

\* The field of an option after n options: the last one of its kind, or the
\* letters that stand for its absence.
OptField(f, off, absent, param, p, n) ==
  \/ /\ \A i \in 1..n : p.opts[i].param # param
     /\ Field(f, off, absent)
  \/ \E i \in 1..n :
       /\ p.opts[i].param = param /\ \A k \in i + 1..n : p.opts[k].param # param
       /\ Field(f, off, Hex(Upper, Len(absent), p.opts[i].value))

OptDigit(f, at, param, p, n) ==
  f[at] = IF \E i \in 1..n : p.opts[i].param = param THEN "1" ELSE "0"

\* The fields that are right from decode_ip on, after n options.
Common(f, p, n) ==
  /\ Len(f) = FINGER_LEN
  /\ \A i \in {5, 10, 13, 16, 18, 20, 22, 24, 26} : f[i] = ":"
  /\ Field(f, 10, Hex(Upper, 2, TtlPredictor(p.ttl)))
  /\ f[21] = IF p.df THEN "1" ELSE "0"
  /\ OptField(f, 5, <<"_", "M", "S", "S">>, "MSS", p, n)
  /\ OptField(f, 13, <<"W", "S">>, "WS", p, n)
  /\ OptDigit(f, 17, "SACK", p, n)
  /\ OptDigit(f, 19, "NOP", p, n)
  /\ OptDigit(f, 23, "TIMESTAMP", p, n)

\* The fields that are right from decode_tcp on.
Complete(f, p, n) ==
  /\ Common(f, p, n)
  /\ Field(f, 0, Hex(Upper, 4, p.win))
  /\ f[25] = IF p.tcp = "SYNACK" THEN "A" ELSE "S"
  /\ Field(f, 26, Hex(Lower, 2, 4 * (p.ihl + TcpOff(p.opts))))

Fingerprinted(p) == p.l3 = "INET" /\ p.tcp \notin {"NO", "CUT", "OTHER"}

Shows(f, p) ==
  /\ p.l3 # "INET" \/ p.tcp \in {"NO", "OTHER"} => f = NoFinger
  /\ Fingerprinted(p) => Complete(f, p, Len(p.opts))

\* What the fingerprint is at each step of a packet.
FingerInv ==
  /\ pc \in {"tcp", "options", "send", "sent"} => pkt \in Packets
  /\ pc = "tcp" =>
       /\ pkt.l3 = "INET" /\ pkt.tcp \notin {"NO", "CUT"}
       /\ Common(finger, pkt, 0)
       /\ Field(finger, 26, Hex(Lower, 2, 4 * pkt.ihl))
  /\ pc = "options" =>
       /\ Fingerprinted(pkt) /\ opts \in Seq(Options)
       /\ \E n \in 0..Len(pkt.opts) :
            /\ Len(opts) = Len(pkt.opts) - n
            /\ \A i \in 1..Len(opts) : opts[i] = pkt.opts[n + i]
            /\ Complete(finger, pkt, n)
  /\ pc = "send" => Shows(finger, pkt)
  /\ pc = "sent" => Shows(shown.finger, pkt)

\* The characters where s stands are those they were.
Kept(f, g, off, s) == \A j \in 1..Len(s) : g[off + j] = f[off + j]

\* The next option is of another kind, and the field was not written.
LEMMA OptKept ==
  ASSUME NEW f, NEW g, NEW off \in 0..27, NEW absent, Len(absent) \in {2, 4}, NEW param, NEW p,
         NEW n \in Nat, p.opts[n + 1].param # param,
         Kept(f, g, off, absent), OptField(f, off, absent, param, p, n)
  PROVE  OptField(g, off, absent, param, p, n + 1)
  <1>1. CASE (\A i \in 1..n : p.opts[i].param # param) /\ Field(f, off, absent)
    <2>1. \A i \in 1..n + 1 : i \in 1..n \/ i = n + 1
      OBVIOUS
    <2>2. \A i \in 1..n + 1 : p.opts[i].param # param
      BY <1>1, <2>1
    <2>3. Field(g, off, absent)
      BY <1>1 DEF Field, Kept
    <2> QED BY <2>2, <2>3 DEF OptField
  <1>2. ASSUME NEW i \in 1..n, p.opts[i].param = param,
               \A k \in i + 1..n : p.opts[k].param # param,
               Field(f, off, Hex(Upper, Len(absent), p.opts[i].value))
        PROVE  OptField(g, off, absent, param, p, n + 1)
    <2>1. \A k \in i + 1..n + 1 : k \in i + 1..n \/ k = n + 1
      OBVIOUS
    <2>2. \A k \in i + 1..n + 1 : p.opts[k].param # param
      BY <1>2, <2>1
    <2> DEFINE h == Hex(Upper, Len(absent), p.opts[i].value)
    <2>3. Len(h) = Len(absent)
      BY HexLen
    <2> HIDE DEF h
    <2>4. Field(f, off, h)
      BY <1>2 DEF h
    <2>5. Field(g, off, h)
      BY <2>3, <2>4 DEF Field, Kept
    <2>6. i \in 1..n + 1
      OBVIOUS
    <2> QED BY <1>2, <2>2, <2>5, <2>6 DEF OptField, h
  <1> QED BY <1>1, <1>2 DEF OptField

\* The next option is of this kind, and its value was written.
LEMMA OptNew ==
  ASSUME NEW g, NEW off, NEW absent, NEW param, NEW p, NEW n \in Nat,
         p.opts[n + 1].param = param, Field(g, off, Hex(Upper, Len(absent), p.opts[n + 1].value))
  PROVE  OptField(g, off, absent, param, p, n + 1)
  <1>1. n + 1 \in 1..n + 1 /\ \A k \in (n + 1) + 1..n + 1 : FALSE
    OBVIOUS
  <1> QED BY <1>1 DEF OptField

LEMMA DigitKept ==
  ASSUME NEW f, NEW g, NEW at, NEW param, NEW p, NEW n \in Nat, p.opts[n + 1].param # param,
         g[at] = f[at], OptDigit(f, at, param, p, n)
  PROVE  OptDigit(g, at, param, p, n + 1)
  <1>1. \A i \in 1..n + 1 : i \in 1..n \/ i = n + 1
    OBVIOUS
  <1>2. \A i \in 1..n : i \in 1..n + 1
    OBVIOUS
  <1>3. (\E i \in 1..n : p.opts[i].param = param) <=> \E i \in 1..n + 1 : p.opts[i].param = param
    BY <1>1, <1>2
  <1> QED BY <1>3 DEF OptDigit

LEMMA DigitNew ==
  ASSUME NEW g, NEW at, NEW param, NEW p, NEW n \in Nat, p.opts[n + 1].param = param, g[at] = "1"
  PROVE  OptDigit(g, at, param, p, n + 1)
  <1>1. n + 1 \in 1..n + 1
    OBVIOUS
  <1> QED BY <1>1 DEF OptDigit

\* The separators and the fields outside the options survive a push elsewhere.
LEMMA Untouched ==
  ASSUME NEW f, NEW g, NEW off \in {5, 13, 16, 18, 22}, NEW s,
         Len(s) = IF off = 5 THEN 4 ELSE IF off = 13 THEN 2 ELSE 1,
         Written(f, g, off, s)
  PROVE  /\ Len(g) = FINGER_LEN
         /\ \A i \in 1..28 : i \notin off + 1..off + Len(s) => g[i] = f[i]
         /\ \A i \in {5, 10, 13, 16, 18, 20, 22, 24, 26} : g[i] = f[i]
         /\ g[21] = f[21] /\ g[25] = f[25]
         /\ \A j \in 1..4 : g[0 + j] = f[0 + j]
         /\ \A j \in 1..2 : g[10 + j] = f[10 + j] /\ g[26 + j] = f[26 + j]
         /\ off # 5 => \A j \in 1..4 : g[5 + j] = f[5 + j]
         /\ off # 13 => \A j \in 1..2 : g[13 + j] = f[13 + j]
         /\ off # 16 => g[17] = f[17]
         /\ off # 18 => g[19] = f[19]
         /\ off # 22 => g[23] = f[23]
  <1> DEFINE Out(i) == i <= off \/ i > off + Len(s)
  <1>1. \A i \in 1..28 : Out(i) => g[i] = f[i]
    BY DEF Written, FINGER_LEN
  <1>2. \A i \in 1..28 : i \notin off + 1..off + Len(s) => Out(i)
    OBVIOUS
  <1>3. \A i \in {5, 10, 13, 16, 18, 20, 22, 24, 26, 21, 25} : i \in 1..28 /\ Out(i)
    OBVIOUS
  <1>4. \A j \in 1..4 : 0 + j \in 1..28 /\ Out(0 + j) /\ 5 + j \in 1..28 /\ (off # 5 => Out(5 + j))
    OBVIOUS
  <1>5. \A j \in 1..2 : /\ 10 + j \in 1..28 /\ Out(10 + j) /\ 26 + j \in 1..28 /\ Out(26 + j)
                        /\ 13 + j \in 1..28 /\ (off # 13 => Out(13 + j))
    OBVIOUS
  <1>6. (off # 16 => Out(17)) /\ (off # 18 => Out(19)) /\ (off # 22 => Out(23))
    OBVIOUS
  <1>7. 17 \in 1..28 /\ 19 \in 1..28 /\ 23 \in 1..28
    OBVIOUS
  <1>8. Len(g) = FINGER_LEN
    BY DEF Written
  <1> HIDE DEF Out
  <1>9. \A i \in {5, 10, 13, 16, 18, 20, 22, 24, 26, 21, 25} : g[i] = f[i]
    BY <1>1, <1>3
  <1>10. \A j \in 1..4 : g[0 + j] = f[0 + j] /\ (off # 5 => g[5 + j] = f[5 + j])
    BY <1>1, <1>4
  <1>11. \A j \in 1..2 : /\ g[10 + j] = f[10 + j] /\ g[26 + j] = f[26 + j]
                         /\ off # 13 => g[13 + j] = f[13 + j]
    BY <1>1, <1>5
  <1>12. (off # 16 => g[17] = f[17]) /\ (off # 18 => g[19] = f[19]) /\ (off # 22 => g[23] = f[23])
    BY <1>1, <1>6, <1>7
  <1>13. \A i \in 1..28 : i \notin off + 1..off + Len(s) => g[i] = f[i]
    BY <1>1, <1>2
  <1> QED BY <1>8, <1>9, <1>10, <1>11, <1>12, <1>13

\* What does not depend on the options.
Rest(f, p) ==
  /\ Len(f) = FINGER_LEN
  /\ \A i \in {5, 10, 13, 16, 18, 20, 22, 24, 26} : f[i] = ":"
  /\ Field(f, 10, Hex(Upper, 2, TtlPredictor(p.ttl)))
  /\ f[21] = IF p.df THEN "1" ELSE "0"
  /\ Field(f, 0, Hex(Upper, 4, p.win))
  /\ f[25] = IF p.tcp = "SYNACK" THEN "A" ELSE "S"
  /\ Field(f, 26, Hex(Lower, 2, 4 * (p.ihl + TcpOff(p.opts))))

LEMMA RestKept ==
  ASSUME NEW f, NEW g, NEW off \in {5, 13, 16, 18, 22}, NEW s,
         Len(s) = IF off = 5 THEN 4 ELSE IF off = 13 THEN 2 ELSE 1,
         Written(f, g, off, s), NEW p, Rest(f, p)
  PROVE  Rest(g, p)
  <1>1. /\ Len(g) = FINGER_LEN
        /\ \A i \in {5, 10, 13, 16, 18, 20, 22, 24, 26} : g[i] = f[i]
        /\ g[21] = f[21] /\ g[25] = f[25]
        /\ \A j \in 1..4 : g[0 + j] = f[0 + j]
        /\ \A j \in 1..2 : g[10 + j] = f[10 + j] /\ g[26 + j] = f[26 + j]
    BY Untouched
  <1> DEFINE h10 == Hex(Upper, 2, TtlPredictor(p.ttl))
             h0  == Hex(Upper, 4, p.win)
             h26 == Hex(Lower, 2, 4 * (p.ihl + TcpOff(p.opts)))
  <1>2. Len(h10) = 2 /\ Len(h0) = 4 /\ Len(h26) = 2
    <2> DEFINE v10 == TtlPredictor(p.ttl)
               v26 == 4 * (p.ihl + TcpOff(p.opts))
    <2> HIDE DEF v10, v26
    <2>1. Len(Hex(Upper, 2, v10)) = 2 /\ Len(Hex(Lower, 2, v26)) = 2 /\ Len(h0) = 4
      BY HexLen
    <2> QED BY <2>1, Zenon DEF v10, v26
  <1> HIDE DEF h10, h0, h26
  <1>3. Field(f, 10, h10) /\ Field(f, 0, h0) /\ Field(f, 26, h26)
    BY DEF Rest, h10, h0, h26
  <1>4. Field(g, 10, h10) /\ Field(g, 0, h0) /\ Field(g, 26, h26)
    BY <1>1, <1>2, <1>3 DEF Field
  <1>5. \A i \in {5, 10, 13, 16, 18, 20, 22, 24, 26} : g[i] = ":"
    BY <1>1 DEF Rest
  <1> QED BY <1>1, <1>4, <1>5 DEF Rest, h10, h0, h26

LEMMA CompleteIs ==
  ASSUME NEW f, NEW p, NEW n
  PROVE  Complete(f, p, n) <=>
           /\ Rest(f, p)
           /\ OptField(f, 5, <<"_", "M", "S", "S">>, "MSS", p, n)
           /\ OptField(f, 13, <<"W", "S">>, "WS", p, n)
           /\ OptDigit(f, 17, "SACK", p, n)
           /\ OptDigit(f, 19, "NOP", p, n)
           /\ OptDigit(f, 23, "TIMESTAMP", p, n)
  BY DEF Complete, Common, Rest

\* One option is pushed, or stepped over.
Pushed(f, o) == IF o.param = "UNKNOWN" THEN f ELSE FingerprintPush(f, o.param, o.value)

\* The string s of the next option is written at its place.
LEMMA OptionWritten ==
  ASSUME NEW f, NEW g, NEW off \in {5, 13, 16, 18, 22}, NEW s, NEW p, NEW n \in Nat,
         Written(f, g, off, s), Complete(f, p, n),
         off = 5 => p.opts[n + 1].param = "MSS" /\ s = Hex(Upper, 4, p.opts[n + 1].value),
         off = 13 => p.opts[n + 1].param = "WS" /\ s = Hex(Upper, 2, p.opts[n + 1].value),
         off = 16 => p.opts[n + 1].param = "SACK" /\ s = <<"1">>,
         off = 18 => p.opts[n + 1].param = "NOP" /\ s = <<"1">>,
         off = 22 => p.opts[n + 1].param = "TIMESTAMP" /\ s = <<"1">>
  PROVE  Complete(g, p, n + 1)
  <1> DEFINE q == p.opts[n + 1].param
             v == p.opts[n + 1].value
             mss == <<"_", "M", "S", "S">>
             ws == <<"W", "S">>
  <1>1. Len(s) = IF off = 5 THEN 4 ELSE IF off = 13 THEN 2 ELSE 1
    <2>1. Len(Hex(Upper, 4, v)) = 4 /\ Len(Hex(Upper, 2, v)) = 2
      BY HexLen
    <2>2. Len(<<"1">>) = 1
      OBVIOUS
    <2> QED BY <2>1, <2>2
  <1>2. Rest(f, p) /\ OptField(f, 5, mss, "MSS", p, n) /\ OptField(f, 13, ws, "WS", p, n)
        /\ OptDigit(f, 17, "SACK", p, n) /\ OptDigit(f, 19, "NOP", p, n)
        /\ OptDigit(f, 23, "TIMESTAMP", p, n)
    BY CompleteIs
  <1>3. Rest(g, p)
    BY <1>1, <1>2, RestKept
  <1>4. Len(mss) = 4 /\ Len(ws) = 2
    OBVIOUS
  <1>5. /\ off # 5 => \A j \in 1..4 : g[5 + j] = f[5 + j]
        /\ off # 13 => \A j \in 1..2 : g[13 + j] = f[13 + j]
        /\ off # 16 => g[17] = f[17]
        /\ off # 18 => g[19] = f[19]
        /\ off # 22 => g[23] = f[23]
    BY <1>1, Untouched
  <1>6. /\ off = 5 <=> q = "MSS"
        /\ off = 13 <=> q = "WS"
        /\ off = 16 <=> q = "SACK"
        /\ off = 18 <=> q = "NOP"
        /\ off = 22 <=> q = "TIMESTAMP"
    OBVIOUS
  <1>7. Field(g, off, s)
    BY DEF Written
  <1> HIDE DEF mss, ws
  <1>8. OptField(g, 5, mss, "MSS", p, n + 1)
    <2>1. CASE off = 5
      <3>1. Field(g, 5, Hex(Upper, Len(mss), v)) /\ q = "MSS"
        BY <1>4, <1>7, <2>1
      <3> QED BY <3>1, OptNew
    <2>2. CASE off # 5
      <3>1. q # "MSS" /\ \A j \in 1..Len(mss) : g[5 + j] = f[5 + j]
        BY <1>4, <1>5, <1>6, <2>2
      <3>2. 5 \in 0..27 /\ Len(mss) \in {2, 4}
        BY <1>4
      <3>3. OptField(f, 5, mss, "MSS", p, n) /\ p.opts[n + 1].param # "MSS"
        BY <1>2, <3>1
      <3>4. Kept(f, g, 5, mss)
        BY <3>1 DEF Kept
      <3> QED BY <3>2, <3>3, <3>4, OptKept
    <2> QED BY <2>1, <2>2
  <1>9. OptField(g, 13, ws, "WS", p, n + 1)
    <2>1. CASE off = 13
      <3>1. Field(g, 13, Hex(Upper, Len(ws), v)) /\ q = "WS"
        BY <1>4, <1>7, <2>1
      <3> QED BY <3>1, OptNew
    <2>2. CASE off # 13
      <3>1. q # "WS" /\ \A j \in 1..Len(ws) : g[13 + j] = f[13 + j]
        BY <1>4, <1>5, <1>6, <2>2
      <3>2. 13 \in 0..27 /\ Len(ws) \in {2, 4}
        BY <1>4
      <3>3. OptField(f, 13, ws, "WS", p, n) /\ p.opts[n + 1].param # "WS"
        BY <1>2, <3>1
      <3>4. Kept(f, g, 13, ws)
        BY <3>1 DEF Kept
      <3> QED BY <3>2, <3>3, <3>4, OptKept
    <2> QED BY <2>1, <2>2
  <1>a. ASSUME off \in {16, 18, 22} PROVE g[off + 1] = "1"
    <2>1. s = <<"1">> /\ Len(<<"1">>) = 1 /\ <<"1">>[1] = "1"
      BY <1>a
    <2>2. Len(s) = 1 /\ s[1] = "1"
      BY <2>1
    <2> QED BY <1>7, <2>2 DEF Field
  <1>b. /\ off = 16 => g[17] = "1"
        /\ off = 18 => g[19] = "1"
        /\ off = 22 => g[23] = "1"
    BY <1>a
  <1>10. OptDigit(g, 17, "SACK", p, n + 1)
    <2>1. CASE off = 16
      BY <1>b, <2>1, DigitNew
    <2>2. CASE off # 16
      <3>1. q # "SACK" /\ g[17] = f[17]
        BY <1>5, <1>6, <2>2
      <3> QED BY <1>2, <3>1, DigitKept
    <2> QED BY <2>1, <2>2
  <1>11. OptDigit(g, 19, "NOP", p, n + 1)
    <2>1. CASE off = 18
      BY <1>b, <2>1, DigitNew
    <2>2. CASE off # 18
      <3>1. q # "NOP" /\ g[19] = f[19]
        BY <1>5, <1>6, <2>2
      <3> QED BY <1>2, <3>1, DigitKept
    <2> QED BY <2>1, <2>2
  <1>12. OptDigit(g, 23, "TIMESTAMP", p, n + 1)
    <2>1. CASE off = 22
      BY <1>b, <2>1, DigitNew
    <2>2. CASE off # 22
      <3>1. q # "TIMESTAMP" /\ g[23] = f[23]
        BY <1>5, <1>6, <2>2
      <3> QED BY <1>2, <3>1, DigitKept
    <2> QED BY <2>1, <2>2
  <1> QED BY <1>3, <1>8, <1>9, <1>10, <1>11, <1>12, CompleteIs DEF mss, ws

LEMMA OptionStep ==
  ASSUME NEW f, NEW p, NEW n \in Nat, Complete(f, p, n), p.opts[n + 1] \in Options,
         p.opts[n + 1].param \in {"NOP", "SACK", "TIMESTAMP"} => p.opts[n + 1].value = 1
  PROVE  Complete(Pushed(f, p.opts[n + 1]), p, n + 1)
  <1> DEFINE q == p.opts[n + 1].param
             v == p.opts[n + 1].value
             g == Pushed(f, p.opts[n + 1])
  <1> SUFFICES Complete(g, p, n + 1)
    OBVIOUS
  <1>1. Len(f) = FINGER_LEN
    BY CompleteIs DEF Rest
  <1>2. g = IF q = "UNKNOWN" THEN f ELSE FingerprintPush(f, q, v)
    BY DEF Pushed
  <1>3. q \in {"NOP", "SACK", "MSS", "WS", "TIMESTAMP", "UNKNOWN"}
    BY DEF Options
  <1>4. q \in {"NOP", "SACK", "TIMESTAMP"} => v = 1
    OBVIOUS
  <1> HIDE DEF g
  <1>5. ASSUME NEW off \in {5, 13, 16, 18, 22}, NEW s, Written(f, g, off, s),
               off = 5 => q = "MSS" /\ s = Hex(Upper, 4, v),
               off = 13 => q = "WS" /\ s = Hex(Upper, 2, v),
               off = 16 => q = "SACK" /\ s = <<"1">>,
               off = 18 => q = "NOP" /\ s = <<"1">>,
               off = 22 => q = "TIMESTAMP" /\ s = <<"1">>
        PROVE  Complete(g, p, n + 1)
    BY <1>5, OptionWritten
  <1>6. CASE q = "MSS"
    <2>1. Written(f, FingerprintPush(f, "MSS", v), 5, Hex(Upper, 4, v))
      BY <1>1, PushNumber
    <2>2. Written(f, g, 5, Hex(Upper, 4, v))
      BY <1>2, <1>6, <2>1
    <2> QED BY <1>5, <1>6, <2>2
  <1>7. CASE q = "WS"
    <2>1. Written(f, FingerprintPush(f, "WS", v), 13, Hex(Upper, 2, v))
      BY <1>1, PushNumber
    <2>2. Written(f, g, 13, Hex(Upper, 2, v))
      BY <1>2, <1>7, <2>1
    <2> QED BY <1>5, <1>7, <2>2
  <1>8. CASE q = "SACK"
    <2>1. Written(f, FingerprintPush(f, "SACK", 1), 16, <<"1">>)
      BY <1>1, PushNote
    <2>2. Written(f, g, 16, <<"1">>)
      BY <1>2, <1>4, <1>8, <2>1
    <2> QED BY <1>5, <1>8, <2>2
  <1>9. CASE q = "NOP"
    <2>1. Written(f, FingerprintPush(f, "NOP", 1), 18, <<"1">>)
      BY <1>1, PushNote
    <2>2. Written(f, g, 18, <<"1">>)
      BY <1>2, <1>4, <1>9, <2>1
    <2> QED BY <1>5, <1>9, <2>2
  <1>10. CASE q = "TIMESTAMP"
    <2>1. Written(f, FingerprintPush(f, "TIMESTAMP", 1), 22, <<"1">>)
      BY <1>1, PushNote
    <2>2. Written(f, g, 22, <<"1">>)
      BY <1>2, <1>4, <1>10, <2>1
    <2> QED BY <1>5, <1>10, <2>2
  <1>11. CASE q = "UNKNOWN"
    <2> DEFINE mss == <<"_", "M", "S", "S">>
               ws == <<"W", "S">>
    <2>1. g = f
      BY <1>2, <1>11
    <2>2. Len(mss) \in {2, 4} /\ Len(ws) \in {2, 4}
      OBVIOUS
    <2> HIDE DEF mss, ws
    <2>3. /\ Rest(f, p)
          /\ OptField(f, 5, mss, "MSS", p, n) /\ OptField(f, 13, ws, "WS", p, n)
          /\ OptDigit(f, 17, "SACK", p, n) /\ OptDigit(f, 19, "NOP", p, n)
          /\ OptDigit(f, 23, "TIMESTAMP", p, n)
      BY CompleteIs DEF mss, ws
    <2>4. Kept(f, f, 5, mss) /\ Kept(f, f, 13, ws)
      BY DEF Kept
    <2>5. OptField(f, 5, mss, "MSS", p, n + 1)
      BY <1>11, <2>2, <2>3, <2>4, OptKept
    <2>6. OptField(f, 13, ws, "WS", p, n + 1)
      BY <1>11, <2>2, <2>3, <2>4, OptKept
    <2>7. OptDigit(f, 17, "SACK", p, n + 1)
      BY <1>11, <2>3, DigitKept
    <2>8. OptDigit(f, 19, "NOP", p, n + 1)
      BY <1>11, <2>3, DigitKept
    <2>9. OptDigit(f, 23, "TIMESTAMP", p, n + 1)
      BY <1>11, <2>3, DigitKept
    <2>10. Complete(f, p, n + 1)
      BY <2>3, <2>5, <2>6, <2>7, <2>8, <2>9, CompleteIs DEF mss, ws
    <2> QED BY <2>1, <2>10
  <1> QED BY <1>3, <1>6, <1>7, <1>8, <1>9, <1>10, <1>11

\* What decode_ip pushes.
Begun(p) ==
  FingerprintPush(
    FingerprintPush(
      FingerprintPush(FingerprintAlloc, "TTL", p.ttl), "DF", IF p.df THEN 16384 ELSE 0),
    "LT", 4 * p.ihl)

LEMMA Allocated ==
  /\ Len(FingerprintAlloc) = FINGER_LEN
  /\ \A i \in {5, 10, 13, 16, 18, 20, 22, 24, 26} : FingerprintAlloc[i] = ":"
  /\ \A j \in 1..4 : FingerprintAlloc[5 + j] = <<"_", "M", "S", "S">>[j]
  /\ \A j \in 1..2 : FingerprintAlloc[13 + j] = <<"W", "S">>[j]
  /\ \A i \in {17, 19, 23} : FingerprintAlloc[i] = "0"
  /\ FingerprintAlloc[27] = "L" /\ FingerprintAlloc[28] = "T"
  <1>1. Len(FingerprintAlloc) = FINGER_LEN
    BY DEF FingerprintAlloc, FINGER_LEN
  <1>2. /\ FingerprintAlloc[5] = ":" /\ FingerprintAlloc[10] = ":" /\ FingerprintAlloc[13] = ":" /\ FingerprintAlloc[16] = ":"
      /\ FingerprintAlloc[18] = ":" /\ FingerprintAlloc[20] = ":" /\ FingerprintAlloc[22] = ":" /\ FingerprintAlloc[24] = ":"
      /\ FingerprintAlloc[26] = ":"
    BY DEF FingerprintAlloc
  <1>3. /\ FingerprintAlloc[6] = "_" /\ FingerprintAlloc[7] = "M" /\ FingerprintAlloc[8] = "S" /\ FingerprintAlloc[9] = "S"
    BY DEF FingerprintAlloc
  <1>4. FingerprintAlloc[14] = "W" /\ FingerprintAlloc[15] = "S"
    BY DEF FingerprintAlloc
  <1>5. /\ FingerprintAlloc[17] = "0" /\ FingerprintAlloc[19] = "0" /\ FingerprintAlloc[23] = "0"
    BY DEF FingerprintAlloc
  <1>6. FingerprintAlloc[27] = "L" /\ FingerprintAlloc[28] = "T"
    BY DEF FingerprintAlloc
  <1>7. \A j \in 1..4 : FingerprintAlloc[5 + j] = <<"_", "M", "S", "S">>[j]
    <2> DEFINE mss == <<"_", "M", "S", "S">>
    <2> SUFFICES ASSUME NEW j \in 1..4 PROVE FingerprintAlloc[5 + j] = mss[j]
      OBVIOUS
    <2>1. j = 1 \/ j = 2 \/ j = 3 \/ j = 4
      OBVIOUS
    <2>2. mss[1] = "_" /\ mss[2] = "M" /\ mss[3] = "S" /\ mss[4] = "S"
      OBVIOUS
    <2> HIDE DEF mss
    <2>3. CASE j = 1
      <3>1. 5 + j = 6
        BY <2>3
      <3>2. FingerprintAlloc[6] = mss[1]
        BY <1>3, <2>2, Zenon
      <3> QED BY <2>3, <3>1, <3>2, Zenon
    <2>4. CASE j = 2
      <3>1. 5 + j = 7
        BY <2>4
      <3>2. FingerprintAlloc[7] = mss[2]
        BY <1>3, <2>2, Zenon
      <3> QED BY <2>4, <3>1, <3>2, Zenon
    <2>5. CASE j = 3
      <3>1. 5 + j = 8
        BY <2>5
      <3>2. FingerprintAlloc[8] = mss[3]
        BY <1>3, <2>2, Zenon
      <3> QED BY <2>5, <3>1, <3>2, Zenon
    <2>6. CASE j = 4
      <3>1. 5 + j = 9
        BY <2>6
      <3>2. FingerprintAlloc[9] = mss[4]
        BY <1>3, <2>2, Zenon
      <3> QED BY <2>6, <3>1, <3>2, Zenon
    <2> QED BY <2>1, <2>3, <2>4, <2>5, <2>6
  <1>8. \A j \in 1..2 : FingerprintAlloc[13 + j] = <<"W", "S">>[j]
    <2> SUFFICES ASSUME NEW j \in 1..2 PROVE FingerprintAlloc[13 + j] = <<"W", "S">>[j]
      OBVIOUS
    <2>1. j = 1 \/ j = 2
      OBVIOUS
    <2> QED BY <1>4, <2>1
  <1> QED BY <1>1, <1>2, <1>5, <1>6, <1>7, <1>8

LEMMA BeginFinger ==
  ASSUME NEW p, p.df \in BOOLEAN, p.ihl \in 0..15
  PROVE  Common(Begun(p), p, 0) /\ Field(Begun(p), 26, Hex(Lower, 2, 4 * p.ihl))
  <1> DEFINE a == FingerprintAlloc
             b == FingerprintPush(a, "TTL", p.ttl)
             df == IF p.df THEN 16384 ELSE 0
             c == FingerprintPush(b, "DF", df)
             lt == 4 * p.ihl
             d == FingerprintPush(c, "LT", lt)
             hb == Hex(Upper, 2, TtlPredictor(p.ttl))
             hc == IF p.df THEN "1" ELSE "0"
             hd == Hex(Lower, 2, lt)
             mss == <<"_", "M", "S", "S">>
             ws == <<"W", "S">>
  <1> SUFFICES Common(d, p, 0) /\ Field(d, 26, hd)
    BY DEF Begun
  <1>a. /\ Len(a) = FINGER_LEN
        /\ \A i \in {5, 10, 13, 16, 18, 20, 22, 24, 26} : a[i] = ":"
        /\ \A j \in 1..4 : a[5 + j] = mss[j]
        /\ \A j \in 1..2 : a[13 + j] = ws[j]
        /\ \A i \in {17, 19, 23} : a[i] = "0"
        /\ a[27] = "L" /\ a[28] = "T"
    BY Allocated
  <1>1. Len(hb) = 2 /\ Len(hd) = 2 /\ Len(mss) = 4 /\ Len(ws) = 2 /\ Len(<<hc>>) = 1
        /\ <<hc>>[1] = hc
    BY HexLen
  <1>2. lt \in Nat /\ lt + 0 = lt
    OBVIOUS
  <1>3. Written(a, b, 10, hb)
    BY <1>a, PushNumber
  <1>4. Len(b) = FINGER_LEN
    BY <1>3 DEF Written
  <1> HIDE DEF b
  <1>5. Written(b, c, 20, <<hc>>)
    <2>1. CASE p.df
      BY <1>4, <2>1, PushNote
    <2>2. CASE ~p.df
      BY <1>4, <2>2, PushNote
    <2> QED BY <2>1, <2>2
  <1>6. Len(c) = FINGER_LEN
    BY <1>5 DEF Written
  <1> HIDE DEF a, c, hb, hc, mss, ws, lt
  <1>7. \A i \in 1..28 : i \notin {11, 12} => b[i] = a[i]
    BY <1>1, <1>3 DEF Written, FINGER_LEN
  <1>8. \A i \in 1..28 : i # 21 => c[i] = b[i]
    BY <1>1, <1>5 DEF Written, FINGER_LEN
  <1>9. c[21] = hc
    BY <1>1, <1>5 DEF Written, Field
  <1>10. Strtoul(SubSeq(c, 27, 28)) = 0
    <2>1. c[27] = a[27] /\ c[28] = a[28]
      BY <1>7, <1>8
    <2>2. SubSeq(c, 27, 28) = [i \in 1..2 |-> c[26 + i]]
      BY <1>6 DEF FINGER_LEN
    <2>3. [i \in 1..2 |-> c[26 + i]] = <<"L", "T">>
      BY <1>a, <2>1
    <2> QED BY <2>2, <2>3, StrtoulOfLetters
  <1>11. Written(c, d, 26, hd)
    BY <1>2, <1>6, <1>10, PushLength
  <1> HIDE DEF d, hd
  <1>12. \A i \in 1..28 : i \notin {27, 28} => d[i] = c[i]
    BY <1>1, <1>11 DEF Written, FINGER_LEN
  <1>13. Field(d, 26, hd) /\ Len(d) = FINGER_LEN
    BY <1>11 DEF Written
  <1>14. \A i \in 1..28 : i \notin {11, 12, 21, 27, 28} => d[i] = a[i]
    BY <1>7, <1>8, <1>12
  <1>15. \A i \in {5, 10, 13, 16, 18, 20, 22, 24, 26} : d[i] = ":"
    <2>1. \A i \in {5, 10, 13, 16, 18, 20, 22, 24, 26} :
            i \in 1..28 /\ i \notin {11, 12, 21, 27, 28}
      OBVIOUS
    <2> QED BY <1>14, <1>a, <2>1
  <1>16. Field(d, 10, hb)
    <2>1. \A j \in 1..2 : b[10 + j] = hb[j]
      BY <1>1, <1>3 DEF Written, Field
    <2>2. \A j \in 1..2 : d[10 + j] = b[10 + j]
      BY <1>8, <1>12
    <2> QED BY <1>1, <2>1, <2>2 DEF Field
  <1>17. d[21] = hc
    BY <1>9, <1>12
  <1>18. Field(d, 5, mss)
    <2>1. \A j \in 1..4 : d[5 + j] = a[5 + j]
      BY <1>14
    <2> QED BY <1>1, <1>a, <2>1 DEF Field
  <1>19. Field(d, 13, ws)
    <2>1. \A j \in 1..2 : d[13 + j] = a[13 + j]
      BY <1>14
    <2> QED BY <1>1, <1>a, <2>1 DEF Field
  <1>20. OptField(d, 5, mss, "MSS", p, 0) /\ OptField(d, 13, ws, "WS", p, 0)
    BY <1>18, <1>19 DEF OptField
  <1>21. \A i \in {17, 19, 23} : d[i] = "0"
    <2>1. d[17] = a[17] /\ d[19] = a[19] /\ d[23] = a[23]
      BY <1>14
    <2> QED BY <1>a, <2>1
  <1>22. /\ OptDigit(d, 17, "SACK", p, 0) /\ OptDigit(d, 19, "NOP", p, 0)
         /\ OptDigit(d, 23, "TIMESTAMP", p, 0)
    BY <1>21 DEF OptDigit
  <1>23. Common(d, p, 0)
    BY <1>13, <1>15, <1>16, <1>17, <1>20, <1>22 DEF Common, mss, ws, hb, hc
  <1> QED BY <1>13, <1>23

\* What decode_tcp pushes before the options.
Completed(f, p) ==
  FingerprintPush(
    FingerprintPush(
      FingerprintPush(f, "WINDOW", p.win), "TCPFLAG", IF p.tcp = "SYNACK" THEN 1 ELSE 0),
    "LT", 4 * TcpOff(p.opts))

LEMMA NoOptions ==
  ASSUME NEW f, NEW off, NEW absent, NEW param, NEW p
  PROVE  OptField(f, off, absent, param, p, 0) <=> Field(f, off, absent)
  BY DEF OptField

LEMMA CompleteFinger ==
  ASSUME NEW f, NEW p, p.ihl \in 0..15, TcpOff(p.opts) \in 0..15,
         Common(f, p, 0), Field(f, 26, Hex(Lower, 2, 4 * p.ihl))
  PROVE  Complete(Completed(f, p), p, 0)
  <1> DEFINE b == FingerprintPush(f, "WINDOW", p.win)
             flag == IF p.tcp = "SYNACK" THEN 1 ELSE 0
             c == FingerprintPush(b, "TCPFLAG", flag)
             lt == 4 * TcpOff(p.opts)
             old == 4 * p.ihl
             d == FingerprintPush(c, "LT", lt)
             hb == Hex(Upper, 4, p.win)
             hc == IF p.tcp = "SYNACK" THEN "A" ELSE "S"
             hold == Hex(Lower, 2, old)
             hd == Hex(Lower, 2, lt + old)
             httl == Hex(Upper, 2, TtlPredictor(p.ttl))
             mss == <<"_", "M", "S", "S">>
             ws == <<"W", "S">>
  <1> SUFFICES Complete(d, p, 0)
    BY DEF Completed
  <1>1. /\ Len(hb) = 4 /\ Len(hold) = 2 /\ Len(hd) = 2 /\ Len(httl) = 2 /\ Len(mss) = 4
        /\ Len(ws) = 2 /\ Len(<<hc>>) = 1 /\ <<hc>>[1] = hc
    BY HexLen
  <1>2. lt \in Nat /\ old \in 0..255 /\ old \in Nat /\ lt + old = 4 * (p.ihl + TcpOff(p.opts))
    OBVIOUS
  <1>a. /\ Len(f) = FINGER_LEN
        /\ \A i \in {5, 10, 13, 16, 18, 20, 22, 24, 26} : f[i] = ":"
        /\ Field(f, 10, httl)
        /\ f[21] = IF p.df THEN "1" ELSE "0"
        /\ Field(f, 5, mss) /\ Field(f, 13, ws)
        /\ OptDigit(f, 17, "SACK", p, 0) /\ OptDigit(f, 19, "NOP", p, 0)
        /\ OptDigit(f, 23, "TIMESTAMP", p, 0)
        /\ Field(f, 26, hold)
    BY NoOptions DEF Common
  <1>3. Written(f, b, 0, hb)
    BY <1>a, PushNumber
  <1>4. Len(b) = FINGER_LEN
    BY <1>3 DEF Written
  <1> HIDE DEF b
  <1>5. Written(b, c, 24, <<hc>>)
    <2>1. CASE p.tcp = "SYNACK"
      BY <1>4, <2>1, PushNote
    <2>2. CASE p.tcp # "SYNACK"
      BY <1>4, <2>2, PushNote
    <2> QED BY <2>1, <2>2
  <1>6. Len(c) = FINGER_LEN
    BY <1>5 DEF Written
  <1> HIDE DEF c, hb, hc, hold, httl, mss, ws, lt, old
  <1>7. \A i \in 1..28 : i \notin 1..4 => b[i] = f[i]
    BY <1>1, <1>3 DEF Written, FINGER_LEN
  <1>8. \A i \in 1..28 : i # 25 => c[i] = b[i]
    BY <1>1, <1>5 DEF Written, FINGER_LEN
  <1>9. c[25] = hc
    BY <1>1, <1>5 DEF Written, Field
  <1>10. Strtoul(SubSeq(c, 27, 28)) = old
    <2>1. \A j \in 1..2 : f[26 + j] = hold[j]
      BY <1>a, <1>1 DEF Field
    <2>2. \A j \in 1..2 : c[26 + j] = f[26 + j]
      BY <1>7, <1>8
    <2>3. Field(c, 26, hold)
      BY <1>1, <2>1, <2>2 DEF Field
    <2> QED BY <1>2, <1>6, <2>3, LengthRead DEF hold
  <1>11. Written(c, d, 26, hd)
    BY <1>2, <1>6, <1>10, PushLength
  <1> HIDE DEF d, hd
  <1>12. \A i \in 1..28 : i \notin {27, 28} => d[i] = c[i]
    BY <1>1, <1>11 DEF Written, FINGER_LEN
  <1>13. Field(d, 26, hd) /\ Len(d) = FINGER_LEN
    BY <1>11 DEF Written
  <1>14. \A i \in 1..28 : i \notin {1, 2, 3, 4, 25, 27, 28} => d[i] = f[i]
    BY <1>7, <1>8, <1>12
  <1>15. \A i \in {5, 10, 13, 16, 18, 20, 22, 24, 26} : d[i] = ":"
    <2>1. \A i \in {5, 10, 13, 16, 18, 20, 22, 24, 26} :
            i \in 1..28 /\ i \notin {1, 2, 3, 4, 25, 27, 28}
      OBVIOUS
    <2> QED BY <1>14, <1>a, <2>1
  <1>16. Field(d, 0, hb)
    <2>1. \A j \in 1..4 : b[0 + j] = hb[j]
      BY <1>1, <1>3 DEF Written, Field
    <2>2. \A j \in 1..4 : d[0 + j] = b[0 + j]
      BY <1>8, <1>12
    <2> QED BY <1>1, <2>1, <2>2 DEF Field
  <1>17. d[25] = hc
    BY <1>9, <1>12
  <1>18. Field(d, 5, mss)
    <2>1. \A j \in 1..4 : d[5 + j] = f[5 + j]
      BY <1>14
    <2> QED BY <1>1, <1>a, <2>1 DEF Field
  <1>19. Field(d, 13, ws)
    <2>1. \A j \in 1..2 : d[13 + j] = f[13 + j]
      BY <1>14
    <2> QED BY <1>1, <1>a, <2>1 DEF Field
  <1>20. Field(d, 10, httl)
    <2>1. \A j \in 1..2 : d[10 + j] = f[10 + j]
      BY <1>14
    <2> QED BY <1>1, <1>a, <2>1 DEF Field
  <1>21. d[17] = f[17] /\ d[19] = f[19] /\ d[23] = f[23] /\ d[21] = f[21]
    BY <1>14
  <1>22. OptField(d, 5, mss, "MSS", p, 0) /\ OptField(d, 13, ws, "WS", p, 0)
    BY <1>18, <1>19, NoOptions
  <1>23. /\ OptDigit(d, 17, "SACK", p, 0) /\ OptDigit(d, 19, "NOP", p, 0)
         /\ OptDigit(d, 23, "TIMESTAMP", p, 0)
    BY <1>a, <1>21 DEF OptDigit
  <1>24. d[21] = IF p.df THEN "1" ELSE "0"
    BY <1>a, <1>21
  <1>25. Common(d, p, 0)
    BY <1>13, <1>15, <1>20, <1>24, <1>22, <1>23 DEF Common, mss, ws, httl
  <1>26. Field(d, 26, Hex(Lower, 2, 4 * (p.ihl + TcpOff(p.opts))))
    BY <1>2, <1>13 DEF hd
  <1> QED BY <1>16, <1>17, <1>25, <1>26 DEF Complete, hb, hc

LEMMA FingerInit == Init => FingerInv
  BY DEF Init, FingerInv

LEMMA IpStep ==
  ASSUME FingerInv, NEW p \in Packets, DecodeIp(p) PROVE FingerInv'
  <1>1. /\ p.l3 = "INET" /\ pkt' = p
        /\ finger' = IF p.tcp = "NO" THEN NoFinger ELSE Begun(p)
        /\ pc' = IF p.tcp \in {"NO", "CUT"} THEN "send" ELSE "tcp"
    BY DEF DecodeIp, Begun
  <1>2. p.df \in BOOLEAN /\ p.ihl \in 0..15
    BY <1>1, PacketAssumption
  <1>3. CASE p.tcp = "NO"
    BY <1>1, <1>3 DEF FingerInv, Shows, Fingerprinted
  <1>4. CASE p.tcp = "CUT"
    BY <1>1, <1>4 DEF FingerInv, Shows, Fingerprinted
  <1>5. CASE p.tcp \notin {"NO", "CUT"}
    <2>1. finger' = Begun(p) /\ pc' = "tcp"
      BY <1>1, <1>5
    <2>2. Common(finger', p, 0) /\ Field(finger', 26, Hex(Lower, 2, 4 * p.ihl))
      BY <1>2, <2>1, BeginFinger
    <2> QED BY <1>1, <1>5, <2>1, <2>2 DEF FingerInv
  <1> QED BY <1>3, <1>4, <1>5

LEMMA TcpStep ==
  ASSUME FingerInv, DecodeTcp PROVE FingerInv'
  <1>1. /\ pc = "tcp" /\ pkt' = pkt /\ pkt \in Packets
        /\ pkt.l3 = "INET" /\ pkt.tcp \notin {"NO", "CUT"}
        /\ Common(finger, pkt, 0) /\ Field(finger, 26, Hex(Lower, 2, 4 * pkt.ihl))
    BY DEF DecodeTcp, FingerInv
  <1>2. CASE pkt.tcp = "OTHER"
    <2>1. finger' = NoFinger /\ pc' = "send"
      BY <1>2 DEF DecodeTcp
    <2> QED BY <1>1, <1>2, <2>1 DEF FingerInv, Shows, Fingerprinted
  <1>3. CASE pkt.tcp # "OTHER"
    <2>1. opts' = pkt.opts /\ pc' = "options" /\ finger' = Completed(finger, pkt)
      BY <1>3 DEF DecodeTcp, Completed
    <2>2. pkt.ihl \in 0..15 /\ TcpOff(pkt.opts) \in 0..15 /\ pkt.opts \in Seq(Options)
      BY <1>1, PacketAssumption
    <2>3. Complete(finger', pkt, 0)
      BY <1>1, <2>1, <2>2, CompleteFinger
    <2>4. /\ 0 \in 0..Len(pkt.opts) /\ Len(opts') = Len(pkt.opts) - 0
          /\ \A i \in 1..Len(opts') : opts'[i] = pkt.opts[0 + i]
      BY <2>1, <2>2
    <2> QED BY <1>1, <1>3, <2>1, <2>2, <2>3, <2>4 DEF FingerInv, Fingerprinted
  <1> QED BY <1>2, <1>3

LEMMA OptionsStep ==
  ASSUME FingerInv, TcpOption PROVE FingerInv'
  <1>1. /\ pc = "options" /\ pc' = "options" /\ pkt' = pkt /\ pkt \in Packets
        /\ Fingerprinted(pkt) /\ opts \in Seq(Options) /\ opts # << >>
        /\ opts' = Tail(opts) /\ finger' = Pushed(finger, Head(opts))
    BY DEF TcpOption, FingerInv, Pushed
  <1>2. PICK n \in 0..Len(pkt.opts) :
          /\ Len(opts) = Len(pkt.opts) - n
          /\ \A i \in 1..Len(opts) : opts[i] = pkt.opts[n + i]
          /\ Complete(finger, pkt, n)
    BY <1>1 DEF FingerInv
  <1>3. /\ pkt.opts \in Seq(Options)
        /\ \A i \in 1..Len(pkt.opts) :
             pkt.opts[i].param \in {"NOP", "SACK", "TIMESTAMP"} => pkt.opts[i].value = 1
    BY <1>1, PacketAssumption DEF Fingerprinted
  <1>4. Len(pkt.opts) \in Nat /\ n \in Nat
    BY <1>3
  <1>5. Len(opts) \in Nat /\ Len(opts) > 0
    BY <1>1
  <1>6. n + 1 \in 1..Len(pkt.opts) /\ n + 1 \in 0..Len(pkt.opts)
    BY <1>2, <1>4, <1>5
  <1>7. Head(opts) = pkt.opts[n + 1]
    <2>1. Head(opts) = opts[1] /\ 1 \in 1..Len(opts)
      BY <1>1, <1>5
    <2> QED BY <1>2, <2>1
  <1>8. Head(opts) \in Options
    BY <1>1
  <1>9. Complete(finger', pkt, n + 1)
    <2>1. pkt.opts[n + 1] \in Options
      BY <1>7, <1>8
    <2>2. pkt.opts[n + 1].param \in {"NOP", "SACK", "TIMESTAMP"} => pkt.opts[n + 1].value = 1
      BY <1>3, <1>6
    <2>3. Complete(Pushed(finger, pkt.opts[n + 1]), pkt, n + 1)
      BY <1>2, <1>4, <2>1, <2>2, OptionStep
    <2> QED BY <1>1, <1>7, <2>3
  <1>10. opts' \in Seq(Options) /\ Len(opts') = Len(pkt.opts) - (n + 1)
    BY <1>1, <1>2, <1>4
  <1>11. \A i \in 1..Len(opts') : opts'[i] = pkt.opts[(n + 1) + i]
    <2> SUFFICES ASSUME NEW i \in 1..Len(opts') PROVE opts'[i] = pkt.opts[(n + 1) + i]
      OBVIOUS
    <2>1. opts'[i] = opts[i + 1]
      BY <1>1
    <2>2. i + 1 \in 1..Len(opts) /\ n + (i + 1) = (n + 1) + i
      BY <1>1, <1>4
    <2> QED BY <1>2, <2>1, <2>2
  <1> QED BY <1>1, <1>6, <1>9, <1>10, <1>11 DEF FingerInv

LEMMA FingerNext == FingerInv /\ [Next]_vars => FingerInv'
  <1> SUFFICES ASSUME FingerInv, [Next]_vars PROVE FingerInv'
    OBVIOUS
  <1> DEFINE Elsewhere == pc' \notin {"tcp", "options", "send", "sent"}
  <1>a. Elsewhere => FingerInv'
    BY DEF FingerInv
  <1>1. CASE ManufInit \/ ManufEnd \/ FingerprintInit \/ FingerprintEnd
    BY <1>1, <1>a DEF ManufInit, ManufEnd, FingerprintInit, FingerprintEnd
  <1>2. ASSUME NEW p \in Packets, DecodeNone(p) PROVE FingerInv'
    BY <1>2 DEF DecodeNone, FingerInv, Shows, Fingerprinted
  <1>3. ASSUME NEW p \in Packets, DecodeIp(p) PROVE FingerInv'
    BY <1>3, IpStep
  <1>4. ASSUME NEW p \in Packets, DecodeIp6(p) PROVE FingerInv'
    BY <1>4 DEF DecodeIp6, FingerInv, Shows, Fingerprinted
  <1>5. CASE DecodeTcp
    BY <1>5, TcpStep
  <1>6. CASE TcpOption
    BY <1>6, OptionsStep
  <1>7. CASE TcpReturn
    <2>1. /\ pc = "options" /\ pc' = "send" /\ pkt' = pkt /\ finger' = finger
          /\ pkt \in Packets /\ Fingerprinted(pkt) /\ Len(opts) = 0
      BY <1>7 DEF TcpReturn, FingerInv
    <2>2. PICK n \in 0..Len(pkt.opts) : Len(opts) = Len(pkt.opts) - n /\ Complete(finger, pkt, n)
      BY <2>1 DEF FingerInv
    <2>3. pkt.opts \in Seq(Options)
      BY <2>1, PacketAssumption DEF Fingerprinted
    <2>4. n = Len(pkt.opts)
      BY <2>1, <2>2, <2>3
    <2>5. Shows(finger, pkt)
      BY <2>1, <2>2, <2>4 DEF Shows, Fingerprinted
    <2> QED BY <2>1, <2>5 DEF FingerInv
  <1>8. CASE DbBucketSend
    <2>1. /\ pc = "send" /\ pc' = "sent" /\ pkt' = pkt /\ shown'.finger = finger
      BY <1>8 DEF DbBucketSend
    <2> QED BY <2>1 DEF FingerInv
  <1>9. CASE NextPacket \/ FingerprintDiscard \/ DiscardMacdb
    BY <1>9, <1>a DEF NextPacket, FingerprintDiscard, DiscardMacdb
  <1>10. CASE UNCHANGED vars
    BY <1>10 DEF FingerInv, vars
  <1> QED BY <1>1, <1>2, <1>3, <1>4, <1>5, <1>6, <1>7, <1>8, <1>9, <1>10 DEF Next, Done

\* The inductive invariant of the fingerprint, for any packets and options.
THEOREM FingerInvariant == Spec => []FingerInv
  BY FingerInit, FingerNext, PTL DEF Spec

-----------------------------------------------------------------------------
(* The fingerprint that is shown *)

\* TTL_PREDICTOR finds the ceiling.
LEMMA CeilingIs ==
  ASSUME NEW x \in 1..255 PROVE TtlPredictor(x) = Ceiling(x)
  <1>1. CASE x > 128
    <2>1. Highest(7, x) /\ x \notin Powers
      BY <1>1, PowersOfTwo DEF Highest, Powers
    <2>2. TtlPredictor(x) = 255
      BY <2>1, Predicted
    <2> QED BY <1>1, <2>2 DEF Ceiling
  <1>2. CASE x <= 128
    <2> DEFINE Least(k) == Pow(k) >= x /\ \A i \in 0..k - 1 : Pow(i) < x
    <2>1. Ceiling(x) = Pow(CHOOSE k \in 0..7 : Least(k))
      BY <1>2 DEF Ceiling, Pow
    <2>2. \A k \in 0..7 : Pow(k) \in Nat
      <3> SUFFICES ASSUME NEW k \in 0..7 PROVE Pow(k) \in Nat
        OBVIOUS
      <3>1. k \in {0, 1, 2, 3, 4, 5, 6, 7}
        OBVIOUS
      <3> QED BY <3>1, PowersOfTwo
    <2>3. \E k \in 0..7 : Least(k) /\ TtlPredictor(x) = Pow(k)
      <3>1. CASE x = 1
        <4>1. Least(0) /\ x \in Powers
          BY <3>1, PowersOfTwo DEF Powers
        <4>2. TtlPredictor(x) = Pow(0)
          BY <3>1, <4>1, Predicted, PowersOfTwo
        <4> QED BY <4>1, <4>2
      <3>2. CASE x > 1
        <4>1. \E k \in 1..7 : Pow(k - 1) < x /\ x <= Pow(k)
          <5>1. \/ (x > 1 /\ x <= 2) \/ (x > 2 /\ x <= 4) \/ (x > 4 /\ x <= 8)
                \/ (x > 8 /\ x <= 16) \/ (x > 16 /\ x <= 32) \/ (x > 32 /\ x <= 64)
                \/ (x > 64 /\ x <= 128)
            BY <1>2, <3>2
          <5>2. /\ Pow(1 - 1) = 1 /\ Pow(2 - 1) = 2 /\ Pow(3 - 1) = 4 /\ Pow(4 - 1) = 8
                /\ Pow(5 - 1) = 16 /\ Pow(6 - 1) = 32 /\ Pow(7 - 1) = 64
            BY PowersOfTwo
          <5> QED BY <5>1, <5>2, PowersOfTwo
        <4>2. PICK k \in 1..7 : Pow(k - 1) < x /\ x <= Pow(k)
          BY <4>1
        <4>3. k \in {1, 2, 3, 4, 5, 6, 7}
          OBVIOUS
        <4>4. \A i \in 0..k - 1 : Pow(i) <= Pow(k - 1)
          <5> SUFFICES ASSUME NEW i \in 0..k - 1 PROVE Pow(i) <= Pow(k - 1)
            OBVIOUS
          <5>1. i \in {0, 1, 2, 3, 4, 5, 6} /\ k - 1 \in {0, 1, 2, 3, 4, 5, 6} /\ i <= k - 1
            OBVIOUS
          <5> QED BY <5>1, PowersOfTwo
        <4>5. Least(k)
          <5>1. \A i \in 0..k - 1 : Pow(i) \in Nat /\ Pow(k - 1) \in Nat /\ Pow(k) \in Nat
            BY <2>2
          <5> QED BY <2>2, <4>2, <4>4, <5>1
        <4>6. TtlPredictor(x) = Pow(k)
          <5>1. CASE x = Pow(k)
            <6>1. x \in Powers
              BY <4>3, <5>1, PowersOfTwo DEF Powers
            <6> QED BY <5>1, <6>1, Predicted
          <5>2. CASE x # Pow(k)
            <6>1. k - 1 \in 0..7 /\ k - 1 # 7 /\ (k - 1) + 1 = k
              OBVIOUS
            <6>2. Highest(k - 1, x)
              BY <2>2, <4>2, <5>2, <6>1 DEF Highest
            <6>3. x \notin Powers
              BY <4>2, <4>3, <5>2, PowersOfTwo DEF Powers
            <6> QED BY <6>1, <6>2, <6>3, Predicted
          <5> QED BY <5>1, <5>2
        <4>7. k \in 0..7
          OBVIOUS
        <4> QED BY <4>5, <4>6, <4>7
      <3> QED BY <3>1, <3>2
    <2>4. PICK k \in 0..7 : Least(k) /\ TtlPredictor(x) = Pow(k)
      BY <2>3
    <2>5. ASSUME NEW l \in 0..7, Least(l) PROVE l = k
      <3>1. l < k => Pow(l) < x
        BY <2>4
      <3>2. k < l => Pow(k) < x
        BY <2>5
      <3> QED BY <2>2, <2>4, <2>5, <3>1, <3>2
    <2> HIDE DEF Least
    <2>6. (CHOOSE l \in 0..7 : Least(l)) = k
      BY <2>4, <2>5
    <2> QED BY <2>1, <2>4, <2>6
  <1> QED BY <1>1, <1>2

\* A text of n characters.
IsText(s, n) == Len(s) = n /\ s = [i \in 1..n |-> s[i]]

\* A field that holds a text can be cut out.
LEMMA CutOut ==
  ASSUME NEW f, Len(f) = FINGER_LEN, NEW off \in 0..27, NEW m \in 1..4, off + m <= 28,
         NEW s, IsText(s, m), Field(f, off, s)
  PROVE  SubSeq(f, off + 1, off + m) = s
  <1>1. SubSeq(f, off + 1, off + m) = [i \in 1..m |-> f[off + i]]
    <2>1. SubSeq(f, off + 1, off + m)
            = [i \in 1..(1 + (off + m) - (off + 1)) |-> f[i + (off + 1) - 1]]
      OBVIOUS
    <2>2. 1 + (off + m) - (off + 1) = m /\ \A i \in 1..m : i + (off + 1) - 1 = off + i
      OBVIOUS
    <2> QED BY <2>1, <2>2
  <1>2. \A i \in 1..m : f[off + i] = s[i]
    BY DEF Field, IsText
  <1> QED BY <1>1, <1>2 DEF IsText

\* The field of an option holds the value of the last one.
LEMMA LastOptionIs ==
  ASSUME NEW f, NEW off, NEW absent, NEW param, NEW p, Len(p.opts) \in Nat,
         OptField(f, off, absent, param, p, Len(p.opts))
  PROVE  /\ Field(f, off, LastOption(p, param, absent))
         /\ \/ LastOption(p, param, absent) = absent
            \/ \E v : LastOption(p, param, absent) = Hex(Upper, Len(absent), v)
  <1> DEFINE N == Len(p.opts)
             I == {i \in 1..N : p.opts[i].param = param /\ \A k \in i + 1..N : ~(p.opts[k].param = param)}
             last == {p.opts[i].value : i \in I}
  <1>1. LastOption(p, param, absent)
          = IF last = {} THEN absent
            ELSE CHOOSE w \in {Hex(Upper, Len(absent), v) : v \in last} : TRUE
    BY DEF LastOption, LastOf
  <1>2. CASE (\A i \in 1..N : p.opts[i].param # param) /\ Field(f, off, absent)
    <2>1. last = {}
      BY <1>2
    <2> QED BY <1>1, <1>2, <2>1
  <1>3. ASSUME NEW i \in 1..N, p.opts[i].param = param,
               \A k \in i + 1..N : p.opts[k].param # param,
               Field(f, off, Hex(Upper, Len(absent), p.opts[i].value))
        PROVE  LastOption(p, param, absent) = Hex(Upper, Len(absent), p.opts[i].value)
    <2>1. i \in I
      BY <1>3
    <2>2. \A j \in I : j = i
      <3> SUFFICES ASSUME NEW j \in I PROVE j = i
        OBVIOUS
      <3>1. ~(j < i) /\ ~(i < j)
        BY <1>3
      <3> QED BY <3>1
    <2>3. last = {p.opts[i].value}
      BY <2>1, <2>2
    <2> HIDE DEF last
    <2>4. {Hex(Upper, Len(absent), v) : v \in last} = {Hex(Upper, Len(absent), p.opts[i].value)}
      BY <2>3
    <2>5. last # {}
      BY <2>3
    <2> QED BY <1>1, <2>4, <2>5
  <1> QED BY <1>2, <1>3 DEF OptField

\* FingerprintFaithful is what the invariant says of a packet that was sent.
LEMMA CompleteShows ==
  ASSUME NEW f, NEW p \in Packets, p.l3 = "INET", Complete(f, p, Len(p.opts))
  PROVE  /\ Len(f) = FINGER_LEN
         /\ \A i \in {5, 10, 13, 16, 18, 20, 22, 24, 26} : f[i] = ":"
         /\ SubSeq(f, 1, 4) = Hex(Upper, 4, p.win)
         /\ SubSeq(f, 6, 9) = LastOption(p, "MSS", <<"_", "M", "S", "S">>)
         /\ p.ttl > 0 => SubSeq(f, 11, 12) = Hex(Upper, 2, Ceiling(p.ttl))
         /\ SubSeq(f, 14, 15) = LastOption(p, "WS", <<"W", "S">>)
         /\ f[17] = HasOption(p, "SACK")
         /\ f[19] = HasOption(p, "NOP")
         /\ f[21] = IF p.df THEN "1" ELSE "0"
         /\ f[23] = HasOption(p, "TIMESTAMP")
         /\ f[25] = IF p.tcp = "SYNACK" THEN "A" ELSE "S"
         /\ Strtoul(SubSeq(f, 27, 28)) = 4 * (p.ihl + TcpOff(p.opts))
  <1> DEFINE mss == <<"_", "M", "S", "S">>
             ws == <<"W", "S">>
             hwin == Hex(Upper, 4, p.win)
             httl == Hex(Upper, 2, TtlPredictor(p.ttl))
  <1>1. /\ p.ttl \in 0..255 /\ p.ihl \in 0..15 /\ TcpOff(p.opts) \in 0..15
        /\ p.opts \in Seq(Options)
    BY PacketAssumption
  <1>2. Len(p.opts) \in Nat
    BY <1>1
  <1>3. IsText(mss, 4) /\ IsText(ws, 2) /\ Len(mss) = 4 /\ Len(ws) = 2
    BY DEF IsText
  <1>4. \A n \in {2, 4} : \A v : IsText(Hex(Upper, n, v), n)
    BY HexLen DEF Hex, IsText
  <1>5. IsText(hwin, 4) /\ IsText(httl, 2)
    BY <1>4
  <1> HIDE DEF mss, ws, hwin, httl
  <1>6. /\ Rest(f, p)
        /\ OptField(f, 5, mss, "MSS", p, Len(p.opts)) /\ OptField(f, 13, ws, "WS", p, Len(p.opts))
        /\ OptDigit(f, 17, "SACK", p, Len(p.opts)) /\ OptDigit(f, 19, "NOP", p, Len(p.opts))
        /\ OptDigit(f, 23, "TIMESTAMP", p, Len(p.opts))
    BY CompleteIs DEF mss, ws
  <1>7. /\ Len(f) = FINGER_LEN
        /\ \A i \in {5, 10, 13, 16, 18, 20, 22, 24, 26} : f[i] = ":"
        /\ Field(f, 10, httl)
        /\ f[21] = IF p.df THEN "1" ELSE "0"
        /\ Field(f, 0, hwin)
        /\ f[25] = IF p.tcp = "SYNACK" THEN "A" ELSE "S"
        /\ Field(f, 26, Hex(Lower, 2, 4 * (p.ihl + TcpOff(p.opts))))
    BY <1>6 DEF Rest, hwin, httl
  <1>8. SubSeq(f, 0 + 1, 0 + 4) = hwin
    BY <1>5, <1>7, CutOut
  <1>9. SubSeq(f, 10 + 1, 10 + 2) = httl
    BY <1>5, <1>7, CutOut
  <1>10. p.ttl > 0 => SubSeq(f, 11, 12) = Hex(Upper, 2, Ceiling(p.ttl))
    <2>1. p.ttl > 0 => TtlPredictor(p.ttl) = Ceiling(p.ttl)
      <3>1. p.ttl > 0 => p.ttl \in 1..255
        BY <1>1
      <3> QED BY <3>1, CeilingIs
    <2> QED BY <1>9, <2>1 DEF httl
  <1>11. SubSeq(f, 5 + 1, 5 + 4) = LastOption(p, "MSS", mss)
    <2> DEFINE s == LastOption(p, "MSS", mss)
    <2>1. Field(f, 5, s) /\ (s = mss \/ \E v : s = Hex(Upper, Len(mss), v))
      BY <1>2, <1>6, LastOptionIs
    <2> HIDE DEF s
    <2>2. IsText(s, 4)
      BY <1>3, <1>4, <2>1
    <2>3. SubSeq(f, 5 + 1, 5 + 4) = s
      <3>1. Len(f) = FINGER_LEN /\ Field(f, 5, s)
        BY <1>7, <2>1
      <3> QED BY <2>2, <3>1, CutOut
    <2> QED BY <2>3 DEF s
  <1>12. SubSeq(f, 13 + 1, 13 + 2) = LastOption(p, "WS", ws)
    <2> DEFINE s == LastOption(p, "WS", ws)
    <2>1. Field(f, 13, s) /\ (s = ws \/ \E v : s = Hex(Upper, Len(ws), v))
      BY <1>2, <1>6, LastOptionIs
    <2> HIDE DEF s
    <2>2. IsText(s, 2)
      BY <1>3, <1>4, <2>1
    <2>3. SubSeq(f, 13 + 1, 13 + 2) = s
      BY <1>7, <2>1, <2>2, CutOut
    <2> QED BY <2>3 DEF s
  <1>13. /\ f[17] = HasOption(p, "SACK") /\ f[19] = HasOption(p, "NOP")
         /\ f[23] = HasOption(p, "TIMESTAMP")
    BY <1>6 DEF OptDigit, HasOption
  <1>14. Strtoul(SubSeq(f, 27, 28)) = 4 * (p.ihl + TcpOff(p.opts))
    <2> DEFINE len == 4 * (p.ihl + TcpOff(p.opts))
    <2>1. len \in 0..255
      <3>1. \A a, b \in 0..15 : 4 * (a + b) \in 0..255
        OBVIOUS
      <3> QED BY <1>1, <3>1
    <2>2. Field(f, 26, Hex(Lower, 2, len))
      BY <1>7
    <2> HIDE DEF len
    <2>3. Strtoul(SubSeq(f, 27, 28)) = len
      BY <1>7, <2>1, <2>2, LengthRead
    <2> QED BY <2>3 DEF len
  <1>15. SubSeq(f, 1, 4) = Hex(Upper, 4, p.win)
    BY <1>8 DEF hwin
  <1>16. SubSeq(f, 6, 9) = LastOption(p, "MSS", mss) /\ SubSeq(f, 14, 15) = LastOption(p, "WS", ws)
    BY <1>11, <1>12
  <1> QED BY <1>7, <1>10, <1>13, <1>14, <1>15, <1>16 DEF mss, ws

\* The fingerprint shown for a packet says what the packet was, for any packet
\* that PacketAssumption allows: fingerprint_push, as decode_ip and decode_tcp
\* call it, keeps every field in its place.
THEOREM FingerprintIsFaithful == Spec => []FingerprintFaithful
  <1>1. FingerInv => FingerprintFaithful
    <2> SUFFICES ASSUME FingerInv, pc = "sent" PROVE FingerprintFaithful
      BY DEF FingerprintFaithful
    <2>1. Shows(shown.finger, pkt) /\ pkt \in Packets
      BY DEF FingerInv
    <2>2. CASE pkt.l3 # "INET" \/ pkt.tcp \in {"NO", "OTHER"}
      BY <2>1, <2>2 DEF Shows, FingerprintFaithful
    <2>3. CASE pkt.l3 = "INET" /\ pkt.tcp \in {"SYN", "SYNACK"}
      <3>1. Complete(shown.finger, pkt, Len(pkt.opts))
        BY <2>1, <2>3 DEF Shows, Fingerprinted
      <3> QED BY <2>1, <2>3, <3>1, CompleteShows, Zenon DEF FingerprintFaithful
    <2>4. CASE pkt.l3 = "INET" /\ pkt.tcp \notin {"NO", "OTHER", "SYN", "SYNACK"}
      BY <2>4 DEF FingerprintFaithful
    <2> QED BY <2>2, <2>3, <2>4
  <1> QED BY <1>1, FingerInvariant, PTL

-----------------------------------------------------------------------------
(* The addresses *)

\* What db_bucket_send leaves in its two buffers: the mac, the first address and
\* the second one after the other.
AddrInv ==
  pc = "sent" =>
    /\ shown.src = <<IpAddrNtoa(IpSrc(pkt), EthAddrNtoa("mac_dst")),
                     IpAddrDetails(IpSrc(pkt), Uninit)>>
    /\ shown.dst = <<IpAddrNtoa(IpDst(pkt), shown.src[1]),
                     IpAddrDetails(IpDst(pkt), shown.src[2])>>

LEMMA AddrInit == Init => AddrInv
  BY DEF Init, AddrInv

LEMMA AddrNext == AddrInv /\ [Next]_vars => AddrInv'
  <1> SUFFICES ASSUME AddrInv, [Next]_vars PROVE AddrInv'
    OBVIOUS
  <1>1. CASE DbBucketSend
    <2> DEFINE tmp  == IpAddrNtoa(IpSrc(pkt), EthAddrNtoa("mac_dst"))
               more == IpAddrDetails(IpSrc(pkt), Uninit)
               dst  == <<IpAddrNtoa(IpDst(pkt), tmp), IpAddrDetails(IpDst(pkt), more)>>
    <2>1. shown' = [src |-> <<tmp, more>>, dst |-> dst, finger |-> finger] /\ pkt' = pkt
      BY <1>1 DEF DbBucketSend
    <2>2. shown'.src = <<tmp, more>> /\ shown'.dst = dst
      <3> HIDE DEF tmp, more, dst
      <3> QED BY <2>1
    <2>3. shown'.src[1] = tmp /\ shown'.src[2] = more
      <3> HIDE DEF tmp, more, dst
      <3> QED BY <2>2
    <2> QED BY <2>1, <2>2, <2>3, Zenon DEF AddrInv, IpSrc, IpDst
  <1>2. CASE UNCHANGED <<pc, pkt, shown>>
    BY <1>2, Zenon DEF AddrInv, IpSrc, IpDst
  <1>3. CASE pc' # "sent"
    BY <1>3 DEF AddrInv
  <1>4. DbBucketSend \/ UNCHANGED <<pc, pkt, shown>> \/ pc' # "sent"
    <2>1. CASE UNCHANGED vars
      BY <2>1 DEF vars
    <2>2. CASE ManufInit \/ ManufEnd \/ FingerprintInit \/ FingerprintEnd
      BY <2>2 DEF ManufInit, ManufEnd, FingerprintInit, FingerprintEnd
    <2>3. CASE \E p \in Packets : DecodeNone(p) \/ DecodeIp(p) \/ DecodeIp6(p)
      BY <2>3 DEF DecodeNone, DecodeIp, DecodeIp6
    <2>4. CASE DecodeTcp \/ TcpOption \/ TcpReturn
      BY <2>4 DEF DecodeTcp, TcpOption, TcpReturn
    <2>5. CASE NextPacket \/ FingerprintDiscard \/ DiscardMacdb \/ Done
      BY <2>5 DEF NextPacket, FingerprintDiscard, DiscardMacdb, Done, vars
    <2> QED BY <2>1, <2>2, <2>3, <2>4, <2>5 DEF Next
  <1> QED BY <1>1, <1>2, <1>3, <1>4

\* The text of an IPv6 address, in a buffer that held d before.
Text6(a, d) == IF Encapsulated(a) THEN d ELSE Canonical(a)

\* One address, whatever the buffers hold before it.
LEMMA AddressShown ==
  ASSUME NEW type, NEW a, NEW d1, NEW d2
  PROVE  /\ type = "INET" =>
              /\ IpAddrNtoa(IpAddrInit(type, a), d1) = InetNtop4(a)
              /\ IpAddrDetails(IpAddrInit(type, a), d2) = ""
         /\ type = "INET6" /\ Address6(a) =>
              /\ IpAddrNtoa(IpAddrInit(type, a), d1) = Text6(a, d1)
              /\ IpAddrDetails(IpAddrInit(type, a), d2) = InetDetails6(a)
  <1> DEFINE sa == IpAddrInit(type, a)
  <1>1. sa.type = type /\ sa.addr = a
    BY DEF IpAddrInit
  <1> HIDE DEF sa
  <1>2. ASSUME type = "INET"
        PROVE  IpAddrNtoa(sa, d1) = InetNtop4(a) /\ IpAddrDetails(sa, d2) = ""
    BY <1>1, <1>2 DEF IpAddrNtoa, IpAddrDetails
  <1>3. ASSUME type = "INET6", Address6(a)
        PROVE  IpAddrNtoa(sa, d1) = Text6(a, d1) /\ IpAddrDetails(sa, d2) = InetDetails6(a)
    <2>1. /\ ~Encapsulated(a) => InetNtop6(a).ok /\ InetNtop6(a).text = Canonical(a)
          /\ Encapsulated(a) => ~InetNtop6(a).ok
      BY <1>3, InetNtop6Is
    <2>2. sa.type # "INET"
      BY <1>1, <1>3
    <2> QED BY <1>1, <1>3, <2>1, <2>2 DEF IpAddrNtoa, IpAddrDetails, Text6
  <1> QED BY <1>2, <1>3 DEF sa

\* For every packet both addresses are shown in the form of RFC 5952, the second
\* one in the buffers that already held a mac and the first one; in place of an
\* encapsulated IPv4 address, and of no other, the text before it is shown again.
THEOREM AddressesAreShown == Spec => []AddressText
  <1>1. AddrInv /\ FingerInv => AddressText
    <2> SUFFICES ASSUME AddrInv, FingerInv, pc = "sent", pkt.l3 # "NONE" PROVE AddressText
      BY DEF AddressText
    <2>1. pkt \in Packets
      BY DEF FingerInv
    <2>2. pkt.l3 = "INET6" => Address6(pkt.src) /\ Address6(pkt.dst)
      BY <2>1, PacketAssumption DEF Address6
    <2>3. IpSrc(pkt) = IpAddrInit(pkt.l3, pkt.src) /\ IpDst(pkt) = IpAddrInit(pkt.l3, pkt.dst)
      BY DEF IpSrc, IpDst
    <2> DEFINE s1 == IpAddrNtoa(IpSrc(pkt), EthAddrNtoa("mac_dst"))
               s2 == IpAddrDetails(IpSrc(pkt), Uninit)
               d1 == IpAddrNtoa(IpDst(pkt), shown.src[1])
               d2 == IpAddrDetails(IpDst(pkt), shown.src[2])
    <2>4. shown.src = <<s1, s2>> /\ shown.dst = <<d1, d2>>
      BY DEF AddrInv
    <2>5. /\ pkt.l3 = "INET" => s1 = InetNtop4(pkt.src) /\ s2 = ""
          /\ pkt.l3 = "INET6" =>
               s1 = Text6(pkt.src, EthAddrNtoa("mac_dst")) /\ s2 = InetDetails6(pkt.src)
      <3> DEFINE x == EthAddrNtoa("mac_dst")
                 y == Uninit
                 t == pkt.l3
                 a == pkt.src
      <3>1. s1 = IpAddrNtoa(IpAddrInit(t, a), x) /\ s2 = IpAddrDetails(IpAddrInit(t, a), y)
        BY <2>3, Zenon
      <3>2. t = "INET6" => Address6(a)
        BY <2>2
      <3> HIDE DEF x, y, s1, s2, t, a
      <3>3. /\ t = "INET" => s1 = InetNtop4(a) /\ s2 = ""
            /\ t = "INET6" => s1 = Text6(a, x) /\ s2 = InetDetails6(a)
        BY <3>1, <3>2, AddressShown
      <3> QED BY <3>3 DEF t, a, x
    <2>6. /\ pkt.l3 = "INET" => d1 = InetNtop4(pkt.dst) /\ d2 = ""
          /\ pkt.l3 = "INET6" =>
               d1 = Text6(pkt.dst, shown.src[1]) /\ d2 = InetDetails6(pkt.dst)
      <3> DEFINE x == shown.src[1]
                 y == shown.src[2]
                 t == pkt.l3
                 a == pkt.dst
      <3>1. d1 = IpAddrNtoa(IpAddrInit(t, a), x) /\ d2 = IpAddrDetails(IpAddrInit(t, a), y)
        BY <2>3, Zenon
      <3>2. t = "INET6" => Address6(a)
        BY <2>2
      <3> HIDE DEF x, y, d1, d2, t, a
      <3>3. /\ t = "INET" => d1 = InetNtop4(a) /\ d2 = ""
            /\ t = "INET6" => d1 = Text6(a, x) /\ d2 = InetDetails6(a)
        BY <3>1, <3>2, AddressShown
      <3> QED BY <3>3 DEF t, a, x
    <2> HIDE DEF s1, s2, d1, d2
    <2>7. ASSUME NEW a \in {<<pkt.src, shown.src, EthAddrNtoa("mac_dst")>>,
                            <<pkt.dst, shown.dst, shown.src[1]>>}
          PROVE  /\ pkt.l3 = "INET" => a[2] = <<InetNtop4(a[1]), "">>
                 /\ pkt.l3 = "INET6" => a[2] = <<Text6(a[1], a[3]), InetDetails6(a[1])>>
      <3>1. CASE a = <<pkt.src, shown.src, EthAddrNtoa("mac_dst")>>
        <4>1. a[1] = pkt.src /\ a[2] = shown.src /\ a[3] = EthAddrNtoa("mac_dst")
          BY <3>1
        <4> QED BY <2>4, <2>5, <4>1
      <3>2. CASE a = <<pkt.dst, shown.dst, shown.src[1]>>
        <4>1. a[1] = pkt.dst /\ a[2] = shown.dst /\ a[3] = shown.src[1]
          BY <3>2
        <4> QED BY <2>4, <2>6, <4>1
      <3> QED BY <3>1, <3>2
    <2> QED BY <2>7 DEF AddressText, Text6
  <1>2. Spec => []AddrInv
    BY AddrInit, AddrNext, PTL DEF Spec
  <1> QED BY <1>1, <1>2, FingerInvariant, PTL
=============================================================================
