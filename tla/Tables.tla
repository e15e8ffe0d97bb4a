-------------------------------- MODULE Tables --------------------------------
(***************************************************************************)
(* The hash tables of the data files: the vendors of network cards,        *)
(* src/lmap_manuf.c, and the known fingerprints, src/lmap_fingerprint.c,   *)
(* both hashed by fnv_32 of src/lmap_hash.c.  A table is a function from   *)
(* the buckets in use to their lists, the first entry first; an entry has  *)
(* its key and what it is for.                                             *)
(***************************************************************************)
EXTENDS Integers, Sequences, TLC, Fingerprint

\* The exclusive or of two numbers of as many bits: 1 where they differ.
Xor(a, b, bits) ==
  LET X[k \in 0..bits] ==
        IF k = 0 THEN 0
        ELSE 2^(k - 1) * ((a \div 2^(k - 1) + b \div 2^(k - 1)) % 2) + X[k - 1]
  IN  X[bits]

\* fnv_32 & TABMASK, where TABMASK is 2^bits - 1: neither the product nor the
\* exclusive or moves a higher bit down, so the low bits are enough.
Fnv32(bytes, bits) ==
  LET mask == 2^bits
      H[n \in 0..Len(bytes)] ==
        IF n = 0 THEN 40389 % mask
        ELSE Xor((H[n - 1] * 403) % mask, bytes[n] % mask, bits)
  IN  H[Len(bytes)]

Bucket(table, h) == IF h \in DOMAIN table THEN table[h] ELSE << >>

\* SLIST_INSERT_HEAD
InsertHead(table, h, e) ==
  [b \in DOMAIN table \cup {h} |-> IF b = h THEN <<e>> \o Bucket(table, h) ELSE table[b]]

\* SLIST_FOREACH stops at the first entry that has the key.
FirstMatch(list, key) ==
  LET found == {i \in 1..Len(list) : list[i].key = key}
  IN  {list[i].value : i \in {i \in found : \A k \in found : i <= k}}

-----------------------------------------------------------------------------
(* lmap_manuf.c *)

\* The three bytes of a vendor, with a zero behind them.
ManufHash(mac) == Fnv32(Append(mac, 0), 10)

ManufLoad(table, line) ==
  InsertHead(table, ManufHash(line.mac), [key |-> line.mac, value |-> line.vendor])

\* Mutant: whatever comes first in the bucket is taken.
ManufSearchAny(table, mac) ==
  LET list == Bucket(table, ManufHash(mac))
  IN  {list[i].value : i \in 1..Len(list) \cap {1}}

\* manuf_search: the vendor, or nothing.
ManufSearch(table, mac) == FirstMatch(Bucket(table, ManufHash(mac)), mac)

-----------------------------------------------------------------------------
(* lmap_fingerprint.c *)

\* The bytes of the characters that occur in a fingerprint.
Ascii ==
  NUL :> 0 @@ EOL :> 10 @@ ":" :> 58 @@ "L" :> 76 @@ "M" :> 77 @@ "S" :> 83 @@ "T" :> 84
    @@ "W" :> 87 @@ "_" :> 95 @@ [d \in {Upper[i] : i \in 1..10} |->
                                    47 + CHOOSE i \in 1..10 : Upper[i] = d]
    @@ [d \in {Upper[i] : i \in 11..16} |-> 54 + CHOOSE i \in 11..16 : Upper[i] = d]
    @@ [d \in {Lower[i] : i \in 11..16} |-> 86 + CHOOSE i \in 11..16 : Lower[i] = d]

FingerHash(finger) == Fnv32([i \in 1..FINGER_LEN |-> Ascii[finger[i]]], 7)

\* strlcpy(finger, line, FINGER_LEN): at most 27 characters and a NUL; what the
\* array held behind them stays.
CopyFinger(finger, text) ==
  LET n == IF Len(text) < FINGER_LEN THEN Len(text) ELSE FINGER_LEN - 1
  IN  [i \in 1..FINGER_LEN |-> IF i <= n THEN text[i] ELSE IF i = n + 1 THEN NUL ELSE finger[i]]

\* The name of the system is copied from the start of the line as well, so os
\* is the line itself.
FingerLoad(table, finger, line) ==
  InsertHead(table, FingerHash(finger), [key |-> finger, value |-> line])

\* fingerprint_search: the system, or nothing.
FingerprintSearch(table, finger) == FirstMatch(Bucket(table, FingerHash(finger)), finger)
==============================================================================
