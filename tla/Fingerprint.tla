----------------------------- MODULE Fingerprint ------------------------------
(***************************************************************************)
(* The passive fingerprint of a host, src/lmap_fingerprint.c: a string of  *)
(* 28 characters into which the decoders push what they see of a SYN.  A   *)
(* string is a sequence of characters.                                     *)
(***************************************************************************)
EXTENDS Integers, Sequences

FINGER_LEN == 28

NUL == "NUL"
EOL == "EOL"

\* fingerprint_alloc: 0000:_MSS:TT:WS:0:0:0:0:F:LT
FingerprintAlloc ==
  <<"0", "0", "0", "0", ":", "_", "M", "S", "S", ":", "T", "T", ":", "W", "S", ":",
    "0", ":", "0", ":", "0", ":", "0", ":", "F", ":", "L", "T">>

Upper == <<"0", "1", "2", "3", "4", "5", "6", "7", "8", "9", "A", "B", "C", "D", "E", "F">>
Lower == <<"0", "1", "2", "3", "4", "5", "6", "7", "8", "9", "a", "b", "c", "d", "e", "f">>

\* snprintf with %0nX or %0nx, for a value of at most n digits.
Hex(digits, n, value) == [i \in 1..n |-> digits[1 + ((value \div 16^(n - i)) % 16)]]

\* The first digit that snprintf writes for %d.
FirstDigit(value) ==
  LET D[v \in 0..value] == IF v < 10 THEN v ELSE D[v \div 10]
  IN  <<Upper[1 + D[value]]>>

\* strtoul, base 16: the leading digits of either case.
Strtoul(s) ==
  LET digit(c) == {d \in 0..15 : c \in {Upper[d + 1], Lower[d + 1]}}
      U[n \in 0..Len(s)] ==
        IF n = 0 THEN [value |-> 0, more |-> TRUE]
        ELSE IF ~U[n - 1].more \/ digit(s[n]) = {} THEN [U[n - 1] EXCEPT !.more = FALSE]
        ELSE [value |-> 16 * U[n - 1].value + (CHOOSE d \in digit(s[n]) : TRUE), more |-> TRUE]
  IN  U[Len(s)].value

\* Mutant: a power of two is doubled as well.
TtlNextPower(x) ==
  IF x = 0 THEN 2 ELSE IF x >= 128 THEN 255
  ELSE 2^(CHOOSE k \in 1..7 : 2^(k - 1) <= x /\ x < 2^k)

\* TTL_PREDICTOR: c counts the bits of x that are set, and j, a byte, is
\* doubled once for every bit, the first one always.
TtlPredictor(x) ==
  LET bits(i) == IF i = 0 THEN 0 ELSE 1 + CHOOSE k \in 0..7 : 2^k <= i /\ i < 2^(k + 1)
      rounds == IF x = 0 THEN 1 ELSE bits(x)
      C[i \in 0..x] == IF i = 0 THEN 0 ELSE (i % 2) + C[i \div 2]
      j == 2^rounds % 256
  IN  IF C[x] = 1 THEN x ELSE IF j # 0 THEN j ELSE 255

\* strncpy to finger + off.
Overwrite(finger, off, s) ==
  [i \in 1..Len(finger) |-> IF i > off /\ i <= off + Len(s) THEN s[i - off] ELSE finger[i]]

\* fingerprint_push; the length is pushed by two decoders and added up.
FingerprintPush(finger, param, value) ==
  CASE param = "WINDOW"    -> Overwrite(finger, 0, Hex(Upper, 4, value))
    [] param = "MSS"       -> Overwrite(finger, 5, Hex(Upper, 4, value))
    [] param = "TTL"       -> Overwrite(finger, 10, Hex(Upper, 2, TtlPredictor(value)))
    [] param = "WS"        -> Overwrite(finger, 13, Hex(Upper, 2, value))
    [] param = "SACK"      -> Overwrite(finger, 16, FirstDigit(value))
    [] param = "NOP"       -> Overwrite(finger, 18, FirstDigit(value))
    [] param = "DF"        -> Overwrite(finger, 20, FirstDigit(value))
    [] param = "TIMESTAMP" -> Overwrite(finger, 22, FirstDigit(value))
    [] param = "TCPFLAG"   -> Overwrite(finger, 24, <<IF value = 1 THEN "A" ELSE "S">>)
    [] param = "LT"        ->
         Overwrite(finger, 26, Hex(Lower, 2, value + Strtoul(SubSeq(finger, 27, 28))))
==============================================================================
