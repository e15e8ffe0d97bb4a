----------------------------- MODULE TextProofs -----------------------------
(***************************************************************************)
(* Proofs about the conversions of Fingerprint and Inet, for every value   *)
(* that a packet may bring: a recursive function is the choice of a        *)
(* solution of its equation, so each proof first shows one and then        *)
(* unfolds it as often as its argument can ask for.                        *)
(***************************************************************************)
EXTENDS Fingerprint, Inet, SequenceTheorems, TLAPS

\* The equation of FirstDigit.
DigitSolution(d, value) == d = [v \in 0..value |-> IF v < 10 THEN v ELSE d[v \div 10]]

LEMMA FirstDigitIs ==
  ASSUME NEW value \in Nat, value < 100000
  PROVE  \E d : DigitSolution(d, value) /\ FirstDigit(value) = <<Upper[1 + d[value]]>>
  <1> DEFINE D == CHOOSE d : DigitSolution(d, value)
             g == [v \in 0..value |-> IF v < 10 THEN v ELSE IF v < 100 THEN v \div 10
                                      ELSE IF v < 1000 THEN v \div 100
                                      ELSE IF v < 10000 THEN v \div 1000 ELSE v \div 10000]
  <1>1. \A v \in 0..value : g[v] = IF v < 10 THEN v ELSE g[v \div 10]
    <2> SUFFICES ASSUME NEW v \in 0..value, v >= 10 PROVE g[v] = g[v \div 10]
      BY DEF g
    <2> DEFINE w == v \div 10
    <2>1. w \in Nat /\ w <= v /\ 10 * w <= v /\ v < 10 * w + 10
      OBVIOUS
    <2> QED BY <2>1
  <1>2. g = [v \in 0..value |-> IF v < 10 THEN v ELSE g[v \div 10]]
    BY <1>1
  <1>3. DigitSolution(D, value)
    <2>1. DigitSolution(g, value)
      BY <1>2 DEF DigitSolution
    <2> HIDE DEF g
    <2> QED BY <2>1
  <1>4. FirstDigit(value) = <<Upper[1 + D[value]]>>
    BY DEF FirstDigit, DigitSolution
  <1> HIDE DEF D
  <1> QED BY <1>3, <1>4

LEMMA DigitAt ==
  ASSUME NEW value \in Nat, NEW d, DigitSolution(d, value), NEW v \in 0..value
  PROVE  (v < 10 => d[v] = v) /\ (v >= 10 => d[v] = d[v \div 10])
  <1>1. d[v] = [w \in 0..value |-> IF w < 10 THEN w ELSE d[w \div 10]][v]
    BY DEF DigitSolution
  <1> QED BY <1>1

LEMMA FirstDigits ==
  FirstDigit(0) = <<"0">> /\ FirstDigit(1) = <<"1">> /\ FirstDigit(16384) = <<"1">>
  <1>1. FirstDigit(0) = <<"0">>
    <2>1. PICK d : DigitSolution(d, 0) /\ FirstDigit(0) = <<Upper[1 + d[0]]>>
      BY FirstDigitIs
    <2>2. d[0] = 0
      BY <2>1 DEF DigitSolution
    <2> QED BY <2>1, <2>2 DEF Upper
  <1>2. FirstDigit(1) = <<"1">>
    <2>1. PICK d : DigitSolution(d, 1) /\ FirstDigit(1) = <<Upper[1 + d[1]]>>
      BY FirstDigitIs
    <2>2. d[1] = 1
      BY <2>1 DEF DigitSolution
    <2> QED BY <2>1, <2>2 DEF Upper
  <1>3. FirstDigit(16384) = <<"1">>
    <2>1. PICK d : DigitSolution(d, 16384) /\ FirstDigit(16384) = <<Upper[1 + d[16384]]>>
      BY FirstDigitIs
    <2>2. \A v \in Nat : v <= 16384 => (v < 10 => d[v] = v) /\ (v >= 10 => d[v] = d[v \div 10])
      BY <2>1, DigitAt
    <2>3. d[1] = 1
      BY <2>2
    <2>4. d[16] = d[1]
      BY <2>2
    <2>5. d[163] = d[16]
      BY <2>2
    <2>6. d[1638] = d[163]
      BY <2>2
    <2>7. d[16384] = d[1638]
      BY <2>2
    <2>8. d[16384] = 1
      BY <2>3, <2>4, <2>5, <2>6, <2>7
    <2> QED BY <2>1, <2>8 DEF Upper
  <1> QED BY <1>1, <1>2, <1>3

\* strtoul of two characters.
Digit(c) == {d \in 0..15 : c \in {Upper[d + 1], Lower[d + 1]}}

Value(u, c) ==
  IF ~u.more \/ Digit(c) = {} THEN [u EXCEPT !.more = FALSE]
  ELSE [value |-> 16 * u.value + (CHOOSE d \in Digit(c) : TRUE), more |-> TRUE]

StrtoulSolution(u, s) ==
  u = [n \in 0..Len(s) |-> IF n = 0 THEN [value |-> 0, more |-> TRUE] ELSE Value(u[n - 1], s[n])]

LEMMA StrtoulOfTwo ==
  ASSUME NEW s, Len(s) = 2
  PROVE  Strtoul(s) = Value(Value([value |-> 0, more |-> TRUE], s[1]), s[2]).value
  <1> DEFINE U == CHOOSE u : StrtoulSolution(u, s)
             u0 == [value |-> 0, more |-> TRUE]
             u1 == Value(u0, s[1])
             u2 == Value(u1, s[2])
             g == [n \in 0..2 |-> IF n = 0 THEN u0 ELSE IF n = 1 THEN u1 ELSE u2]
  <1>1. Strtoul(s) = U[2].value
    BY DEF Strtoul, StrtoulSolution, Value, Digit
  <1>2. StrtoulSolution(g, s)
    <2> HIDE DEF u1, u2, u0
    <2>1. \A n \in 0..2 : g[n] = IF n = 0 THEN u0 ELSE Value(g[n - 1], s[n])
      BY DEF u1, u2
    <2> QED BY <2>1 DEF StrtoulSolution, u0
  <1>3. StrtoulSolution(U, s)
    BY <1>2
  <1> HIDE DEF U
  <1>4. \A n \in 0..2 : U[n] = IF n = 0 THEN u0 ELSE Value(U[n - 1], s[n])
    <2> HIDE DEF u0
    <2> QED BY <1>3 DEF StrtoulSolution, u0
  <1>5. U[0] = u0
    BY <1>4
  <1>6. U[1] = Value(U[0], s[1])
    <2>1. 1 \in 0..2 /\ 1 # 0 /\ 1 - 1 = 0
      OBVIOUS
    <2> HIDE DEF u0, u1, u2
    <2> QED BY <1>4, <2>1
  <1>7. U[2] = Value(U[1], s[2])
    <2>1. 2 \in 0..2 /\ 2 # 0 /\ 2 - 1 = 1
      OBVIOUS
    <2> HIDE DEF u0, u1, u2
    <2> QED BY <1>4, <2>1
  <1> QED BY <1>1, <1>5, <1>6, <1>7, Zenon

LEMMA LowerDigits ==
  ASSUME NEW d \in 0..15 PROVE Digit(Lower[d + 1]) = {d}
  <1>1. \A e \in 0..15 : Lower[e + 1] = Lower[d + 1] => e = d
    BY DEF Lower
  <1>2. \A e \in 0..15 : Upper[e + 1] = Lower[d + 1] => e = d
    BY DEF Lower, Upper
  <1> QED BY <1>1, <1>2 DEF Digit

LEMMA Letters == Digit("L") = {}
  BY DEF Digit, Upper, Lower

LEMMA StrtoulOfHex ==
  ASSUME NEW v \in 0..255 PROVE Strtoul(Hex(Lower, 2, v)) = v
  <1> DEFINE s == Hex(Lower, 2, v)
             a == v \div 16
             b == v % 16
             u0 == [value |-> 0, more |-> TRUE]
  <1>1. a \in 0..15 /\ b \in 0..15 /\ v = 16 * a + b
    OBVIOUS
  <1>2. Len(s) = 2 /\ s[1] = Lower[a + 1] /\ s[2] = Lower[b + 1]
    BY <1>1 DEF Hex
  <1>3. Digit(s[1]) = {a} /\ Digit(s[2]) = {b}
    BY <1>1, <1>2, LowerDigits
  <1> HIDE DEF s, a, b
  <1>4. Value(u0, s[1]) = [value |-> a, more |-> TRUE]
    <2>1. (CHOOSE d \in Digit(s[1]) : TRUE) = a
      BY <1>3
    <2>2. 16 * 0 + a = a
      BY <1>1
    <2> QED BY <1>3, <2>1, <2>2 DEF Value
  <1>5. Value([value |-> a, more |-> TRUE], s[2]).value = v
    BY <1>1, <1>3 DEF Value
  <1> QED BY <1>2, <1>4, <1>5, StrtoulOfTwo DEF s

LEMMA StrtoulOfLetters == Strtoul(<<"L", "T">>) = 0
  <1> DEFINE u0 == [value |-> 0, more |-> TRUE]
             u1 == [value |-> 0, more |-> FALSE]
  <1>1. Value(u0, "L") = u1
    BY Letters DEF Value
  <1>2. Value(u1, "T").value = 0
    BY DEF Value
  <1> QED BY <1>1, <1>2, StrtoulOfTwo

\* TTL_PREDICTOR.  The bits of a byte, from the lowest.
BitSolution(c, x) == c = [i \in 0..x |-> IF i = 0 THEN 0 ELSE (i % 2) + c[i \div 2]]

SetBits(i) ==
  (i % 2) + ((i \div 2) % 2) + ((i \div 4) % 2) + ((i \div 8) % 2)
    + ((i \div 16) % 2) + ((i \div 32) % 2) + ((i \div 64) % 2) + ((i \div 128) % 2)

LEMMA BitsOfHalf ==
  ASSUME NEW i \in 0..255 PROVE SetBits(i) = (i % 2) + SetBits(i \div 2)
  <1> DEFINE w == i \div 2
  <1>1. w \in 0..127
    OBVIOUS
  <1>2. /\ w \div 2 = i \div 4 /\ w \div 4 = i \div 8 /\ w \div 8 = i \div 16
        /\ w \div 16 = i \div 32 /\ w \div 32 = i \div 64 /\ w \div 64 = i \div 128
    OBVIOUS
  <1>3. w \div 128 = 0
    BY <1>1
  <1> QED BY <1>1, <1>2, <1>3 DEF SetBits

LEMMA BitsCounted ==
  ASSUME NEW x \in 0..255, NEW c, BitSolution(c, x) PROVE c[x] = SetBits(x)
  <1>1. \A i \in 0..x : c[i] = IF i = 0 THEN 0 ELSE (i % 2) + c[i \div 2]
    BY DEF BitSolution
  <1> DEFINE a1 == x \div 2
             a2 == x \div 4
             a3 == x \div 8
             a4 == x \div 16
             a5 == x \div 32
             a6 == x \div 64
             a7 == x \div 128
             Right(i) == c[i] = SetBits(i)
  <1>2. Right(0)
    BY <1>1 DEF SetBits
  <1>3. ASSUME NEW i \in 0..x, Right(i \div 2) PROVE Right(i)
    <2>1. CASE i = 0
      BY <1>2, <2>1
    <2>2. CASE i # 0
      <3>1. c[i] = (i % 2) + c[i \div 2]
        BY <1>1, <2>2
      <3> QED BY <1>3, <3>1, BitsOfHalf
    <2> QED BY <2>1, <2>2
  <1> HIDE DEF Right
  <1>4. /\ a1 \in 0..x /\ a2 \in 0..x /\ a3 \in 0..x /\ a4 \in 0..x /\ a5 \in 0..x
        /\ a6 \in 0..x /\ a7 \in 0..x
    OBVIOUS
  <1>5. /\ x \div 2 = a1 /\ a1 \div 2 = a2 /\ a2 \div 2 = a3 /\ a3 \div 2 = a4
        /\ a4 \div 2 = a5 /\ a5 \div 2 = a6 /\ a6 \div 2 = a7 /\ a7 \div 2 = 0
    OBVIOUS
  <1> HIDE DEF a1, a2, a3, a4, a5, a6, a7
  <1>6. Right(a7)
    BY <1>2, <1>3, <1>4, <1>5
  <1>7. Right(a6) /\ Right(x) 
    <2>1. Right(a6)
      BY <1>3, <1>4, <1>5, <1>6
    <2>2. Right(a5)
      BY <1>3, <1>4, <1>5, <2>1
    <2>3. Right(a4)
      BY <1>3, <1>4, <1>5, <2>2
    <2>4. Right(a3)
      BY <1>3, <1>4, <1>5, <2>3
    <2>5. Right(a2)
      BY <1>3, <1>4, <1>5, <2>4
    <2>6. Right(a1)
      BY <1>3, <1>4, <1>5, <2>5
    <2> QED BY <1>3, <1>5, <2>1, <2>6
  <1> QED BY <1>7 DEF Right

Powers == {1, 2, 4, 8, 16, 32, 64, 128}

LEMMA OneBit ==
  ASSUME NEW x \in 1..255 PROVE SetBits(x) = 1 <=> x \in Powers
  <1>1. x \in Powers => SetBits(x) = 1
    BY DEF Powers, SetBits
  <1> DEFINE b0 == x % 2
             b1 == (x \div 2) % 2
             b2 == (x \div 4) % 2
             b3 == (x \div 8) % 2
             b4 == (x \div 16) % 2
             b5 == (x \div 32) % 2
             b6 == (x \div 64) % 2
             b7 == (x \div 128) % 2
  <1>2. x = b0 + 2*b1 + 4*b2 + 8*b3 + 16*b4 + 32*b5 + 64*b6 + 128*b7
    OBVIOUS
  <1>3. /\ b0 \in {0, 1} /\ b1 \in {0, 1} /\ b2 \in {0, 1} /\ b3 \in {0, 1}
        /\ b4 \in {0, 1} /\ b5 \in {0, 1} /\ b6 \in {0, 1} /\ b7 \in {0, 1}
    OBVIOUS
  <1>4. SetBits(x) = b0 + b1 + b2 + b3 + b4 + b5 + b6 + b7
    BY DEF SetBits
  <1> HIDE DEF b0, b1, b2, b3, b4, b5, b6, b7
  <1>5. SetBits(x) = 1 => x \in Powers
    BY <1>2, <1>3, <1>4 DEF Powers
  <1> QED BY <1>1, <1>5

LEMMA BitsExist ==
  ASSUME NEW x \in 0..255
  PROVE  (CHOOSE c : BitSolution(c, x))[x] = SetBits(x)
  <1> DEFINE g == [i \in 0..x |-> SetBits(i)]
  <1>1. SetBits(0) = 0
    BY DEF SetBits
  <1>2. \A i \in 0..x : g[i] = IF i = 0 THEN 0 ELSE (i % 2) + g[i \div 2]
    <2> SUFFICES ASSUME NEW i \in 0..x, i # 0 PROVE g[i] = (i % 2) + g[i \div 2]
      BY <1>1
    <2>1. i \in 0..255 /\ i \div 2 \in 0..x
      OBVIOUS
    <2> QED BY <2>1, BitsOfHalf
  <1>3. BitSolution(g, x)
    BY <1>2 DEF BitSolution
  <1> HIDE DEF g
  <1> QED BY <1>3, BitsCounted

\* Powers of two by name; the provers compute 2^k only for a number k.
Pow(k) == 2^k

LEMMA PowersOfTwo ==
  /\ Pow(0) = 1 /\ Pow(1) = 2 /\ Pow(2) = 4 /\ Pow(3) = 8 /\ Pow(4) = 16
  /\ Pow(5) = 32 /\ Pow(6) = 64 /\ Pow(7) = 128 /\ Pow(8) = 256
  BY DEF Pow

\* The rounds of the loop, which the model takes from the highest bit.
Highest(k, x) == Pow(k) <= x /\ x < Pow(k + 1)

LEMMA HighestIs ==
  ASSUME NEW x \in 1..255, NEW k \in 0..7, Highest(k, x)
  PROVE  (CHOOSE l \in 0..7 : Highest(l, x)) = k
  <1>1. \A l, m \in 0..7 : l < m => Pow(l + 1) <= Pow(m)
    <2> SUFFICES ASSUME NEW l \in 0..7, NEW m \in 0..7, l < m PROVE Pow(l + 1) <= Pow(m)
      OBVIOUS
    <2>1. l + 1 \in {1, 2, 3, 4, 5, 6, 7} /\ m \in {1, 2, 3, 4, 5, 6, 7} /\ l + 1 <= m
      OBVIOUS
    <2> QED BY <2>1, PowersOfTwo
  <1>2. \A l \in 0..8 : Pow(l) \in Nat
    <2> SUFFICES ASSUME NEW l \in 0..8 PROVE Pow(l) \in Nat
      OBVIOUS
    <2>1. l \in {0, 1, 2, 3, 4, 5, 6, 7, 8}
      OBVIOUS
    <2> QED BY <2>1, PowersOfTwo
  <1>3. \A l \in 0..7 : Highest(l, x) => l = k
    <2> SUFFICES ASSUME NEW l \in 0..7, Highest(l, x) PROVE ~(l < k) /\ ~(k < l)
      OBVIOUS
    <2>1. /\ Pow(l) \in Nat /\ Pow(l + 1) \in Nat /\ Pow(k) \in Nat /\ Pow(k + 1) \in Nat
      BY <1>2
    <2> QED BY <1>1, <2>1 DEF Highest
  <1> HIDE DEF Highest
  <1> QED BY <1>3

\* TTL_PREDICTOR rounds up to a power of two, as far as a byte can hold it.
LEMMA Predicted ==
  ASSUME NEW x \in 1..255
  PROVE  /\ x \in Powers => TtlPredictor(x) = x
         /\ \A k \in 0..7 : Highest(k, x) /\ x \notin Powers =>
              TtlPredictor(x) = IF k = 7 THEN 255 ELSE Pow(k + 1)
  <1> DEFINE B == CHOOSE c : BitSolution(c, x)
  <1>1. B[x] = 1 <=> x \in Powers
    <2>1. x \in 0..255
      OBVIOUS
    <2>2. B[x] = SetBits(x)
      BY <2>1, BitsExist
    <2> HIDE DEF B
    <2> QED BY <2>2, OneBit
  <1> HIDE DEF B
  <1>2. x \in Powers => TtlPredictor(x) = x
    BY <1>1 DEF TtlPredictor, BitSolution, B
  <1>3. ASSUME NEW k \in 0..7, Highest(k, x), x \notin Powers
        PROVE  TtlPredictor(x) = IF k = 7 THEN 255 ELSE Pow(k + 1)
    <2> DEFINE j == Pow(1 + (CHOOSE l \in 0..7 : Highest(l, x))) % 256
    <2>1. TtlPredictor(x) = IF j # 0 THEN j ELSE 255
      BY <1>1, <1>3 DEF TtlPredictor, BitSolution, B, Highest, Pow
    <2>2. j = Pow(k + 1) % 256
      <3>1. (CHOOSE l \in 0..7 : Highest(l, x)) = k
        BY <1>3, HighestIs
      <3>2. 1 + k = k + 1
        OBVIOUS
      <3> QED BY <3>1, <3>2
    <2> HIDE DEF j
    <2>3. k \in {0, 1, 2, 3, 4, 5, 6, 7}
      OBVIOUS
    <2>4. (k = 7 => Pow(k + 1) = 256) /\ (k # 7 => Pow(k + 1) \in 1..255)
      BY <2>3, PowersOfTwo
    <2>5. (k = 7 => j = 0) /\ (k # 7 => j = Pow(k + 1))
      BY <2>2, <2>4
    <2> QED BY <2>1, <2>4, <2>5
  <1> QED BY <1>2, <1>3

LEMMA HexLen ==
  ASSUME NEW digits, NEW n \in Nat, NEW v PROVE Len(Hex(digits, n, v)) = n
  BY DEF Hex

\* The string s stands at f + off.
Field(f, off, s) == \A j \in 1..Len(s) : f[off + j] = s[j]

\* The string s was written into f at f + off.
Written(f, g, off, s) ==
  /\ Len(g) = FINGER_LEN
  /\ Field(g, off, s)
  /\ \A i \in 1..FINGER_LEN : i <= off \/ i > off + Len(s) => g[i] = f[i]

\* strncpy changes the characters from off on, as many as it writes.
LEMMA Overwrites ==
  ASSUME NEW f, Len(f) = FINGER_LEN, NEW s, NEW m \in 1..4, Len(s) = m,
         NEW off \in 0..27, off + m <= FINGER_LEN
  PROVE  Written(f, Overwrite(f, off, s), off, s)
  <1> DEFINE g == Overwrite(f, off, s)
  <1>1. g = [i \in 1..28 |-> IF i > off /\ i <= off + m THEN s[i - off] ELSE f[i]]
    BY DEF Overwrite, FINGER_LEN
  <1>2. Len(g) = 28
    BY <1>1
  <1>3. \A i \in 1..m : off + i \in 1..28 /\ (off + i) - off = i /\ off + i > off /\ off + i <= off + m
    BY DEF FINGER_LEN
  <1>4. \A i \in 1..m : g[off + i] = s[i]
    BY <1>1, <1>3
  <1>5. ASSUME NEW i \in 1..28, i <= off \/ i > off + m PROVE g[i] = f[i]
    <2>1. ~(i > off /\ i <= off + m)
      BY <1>5
    <2> QED BY <1>1, <2>1
  <1> HIDE DEF g
  <1> QED BY <1>2, <1>4, <1>5 DEF FINGER_LEN, Written, Field, g

\* What the pushes of the decoders write, and where.
LEMMA PushNumber ==
  ASSUME NEW f, Len(f) = FINGER_LEN, NEW v
  PROVE  /\ Written(f, FingerprintPush(f, "WINDOW", v), 0, Hex(Upper, 4, v))
         /\ Written(f, FingerprintPush(f, "MSS", v), 5, Hex(Upper, 4, v))
         /\ Written(f, FingerprintPush(f, "TTL", v), 10, Hex(Upper, 2, TtlPredictor(v)))
         /\ Written(f, FingerprintPush(f, "WS", v), 13, Hex(Upper, 2, v))
  <1>a. ASSUME NEW s, NEW m \in 1..4, Len(s) = m, NEW off \in 0..27, off + m <= 28
        PROVE  Written(f, Overwrite(f, off, s), off, s)
    BY <1>a, Overwrites DEF FINGER_LEN
  <1>1. Written(f, FingerprintPush(f, "WINDOW", v), 0, Hex(Upper, 4, v))
    <2>1. FingerprintPush(f, "WINDOW", v) = Overwrite(f, 0, Hex(Upper, 4, v))
      BY DEF FingerprintPush
    <2>2. Len(Hex(Upper, 4, v)) = 4
      BY HexLen
    <2> QED BY <1>a, <2>1, <2>2
  <1>2. Written(f, FingerprintPush(f, "MSS", v), 5, Hex(Upper, 4, v))
    <2>1. FingerprintPush(f, "MSS", v) = Overwrite(f, 5, Hex(Upper, 4, v))
      BY DEF FingerprintPush
    <2>2. Len(Hex(Upper, 4, v)) = 4
      BY HexLen
    <2> QED BY <1>a, <2>1, <2>2
  <1>3. Written(f, FingerprintPush(f, "TTL", v), 10, Hex(Upper, 2, TtlPredictor(v)))
    <2>1. FingerprintPush(f, "TTL", v) = Overwrite(f, 10, Hex(Upper, 2, TtlPredictor(v)))
      BY DEF FingerprintPush
    <2>2. Len(Hex(Upper, 2, TtlPredictor(v))) = 2
      BY HexLen
    <2> QED BY <1>a, <2>1, <2>2
  <1>4. Written(f, FingerprintPush(f, "WS", v), 13, Hex(Upper, 2, v))
    <2>1. FingerprintPush(f, "WS", v) = Overwrite(f, 13, Hex(Upper, 2, v))
      BY DEF FingerprintPush
    <2>2. Len(Hex(Upper, 2, v)) = 2
      BY HexLen
    <2> QED BY <1>a, <2>1, <2>2
  <1> QED BY <1>1, <1>2, <1>3, <1>4

\* The flags.
LEMMA PushNote ==
  ASSUME NEW f, Len(f) = FINGER_LEN
  PROVE  /\ Written(f, FingerprintPush(f, "SACK", 1), 16, <<"1">>)
         /\ Written(f, FingerprintPush(f, "NOP", 1), 18, <<"1">>)
         /\ Written(f, FingerprintPush(f, "DF", 16384), 20, <<"1">>)
         /\ Written(f, FingerprintPush(f, "DF", 0), 20, <<"0">>)
         /\ Written(f, FingerprintPush(f, "TIMESTAMP", 1), 22, <<"1">>)
         /\ Written(f, FingerprintPush(f, "TCPFLAG", 1), 24, <<"A">>)
         /\ Written(f, FingerprintPush(f, "TCPFLAG", 0), 24, <<"S">>)
  <1>a. ASSUME NEW s, NEW m \in 1..4, Len(s) = m, NEW off \in 0..27, off + m <= 28
        PROVE  Written(f, Overwrite(f, off, s), off, s)
    BY <1>a, Overwrites DEF FINGER_LEN
  <1>1. Written(f, FingerprintPush(f, "SACK", 1), 16, <<"1">>)
    <2>1. FingerprintPush(f, "SACK", 1) = Overwrite(f, 16, <<"1">>)
      BY FirstDigits DEF FingerprintPush
    <2>2. Len(<<"1">>) = 1
      OBVIOUS
    <2> QED BY <1>a, <2>1, <2>2
  <1>2. Written(f, FingerprintPush(f, "NOP", 1), 18, <<"1">>)
    <2>1. FingerprintPush(f, "NOP", 1) = Overwrite(f, 18, <<"1">>)
      BY FirstDigits DEF FingerprintPush
    <2>2. Len(<<"1">>) = 1
      OBVIOUS
    <2> QED BY <1>a, <2>1, <2>2
  <1>3. Written(f, FingerprintPush(f, "DF", 16384), 20, <<"1">>)
    <2>1. FingerprintPush(f, "DF", 16384) = Overwrite(f, 20, <<"1">>)
      BY FirstDigits DEF FingerprintPush
    <2>2. Len(<<"1">>) = 1
      OBVIOUS
    <2> QED BY <1>a, <2>1, <2>2
  <1>4. Written(f, FingerprintPush(f, "DF", 0), 20, <<"0">>)
    <2>1. FingerprintPush(f, "DF", 0) = Overwrite(f, 20, <<"0">>)
      BY FirstDigits DEF FingerprintPush
    <2>2. Len(<<"0">>) = 1
      OBVIOUS
    <2> QED BY <1>a, <2>1, <2>2
  <1>5. Written(f, FingerprintPush(f, "TIMESTAMP", 1), 22, <<"1">>)
    <2>1. FingerprintPush(f, "TIMESTAMP", 1) = Overwrite(f, 22, <<"1">>)
      BY FirstDigits DEF FingerprintPush
    <2>2. Len(<<"1">>) = 1
      OBVIOUS
    <2> QED BY <1>a, <2>1, <2>2
  <1>6. Written(f, FingerprintPush(f, "TCPFLAG", 1), 24, <<"A">>)
    <2>1. FingerprintPush(f, "TCPFLAG", 1) = Overwrite(f, 24, <<"A">>)
      BY DEF FingerprintPush
    <2>2. Len(<<"A">>) = 1
      OBVIOUS
    <2> QED BY <1>a, <2>1, <2>2
  <1>7. Written(f, FingerprintPush(f, "TCPFLAG", 0), 24, <<"S">>)
    <2>1. FingerprintPush(f, "TCPFLAG", 0) = Overwrite(f, 24, <<"S">>)
      BY DEF FingerprintPush
    <2>2. Len(<<"S">>) = 1
      OBVIOUS
    <2> QED BY <1>a, <2>1, <2>2
  <1> QED BY <1>1, <1>2, <1>3, <1>4, <1>5, <1>6, <1>7

\* A length is added to the one that was pushed before.
LEMMA PushLength ==
  ASSUME NEW f, Len(f) = FINGER_LEN, NEW v \in Nat, NEW old \in Nat, Strtoul(SubSeq(f, 27, 28)) = old
  PROVE  /\ Written(f, FingerprintPush(f, "LT", v), 26, Hex(Lower, 2, v + old))
  <1>a. ASSUME NEW s, NEW m \in 1..4, Len(s) = m, NEW off \in 0..27, off + m <= 28
        PROVE  Written(f, Overwrite(f, off, s), off, s)
    BY <1>a, Overwrites DEF FINGER_LEN
  <1>1. Written(f, FingerprintPush(f, "LT", v), 26, Hex(Lower, 2, v + old))
    <2>1. FingerprintPush(f, "LT", v) = Overwrite(f, 26, Hex(Lower, 2, v + old))
      BY DEF FingerprintPush
    <2>2. Len(Hex(Lower, 2, v + old)) = 2
      BY HexLen
    <2> QED BY <1>a, <2>1, <2>2
  <1> QED BY <1>1

\* The length that was pushed can be read back.
LEMMA LengthRead ==
  ASSUME NEW f, Len(f) = FINGER_LEN, NEW v \in 0..255, Field(f, 26, Hex(Lower, 2, v))
  PROVE  Strtoul(SubSeq(f, 27, 28)) = v
  <1> DEFINE h == Hex(Lower, 2, v)
  <1>1. Len(h) = 2 /\ h = [i \in 1..2 |-> h[i]]
    BY HexLen DEF Hex
  <1> HIDE DEF h
  <1>2. SubSeq(f, 27, 28) = [i \in 1..2 |-> f[26 + i]]
    BY DEF FINGER_LEN
  <1>3. \A i \in 1..2 : f[26 + i] = h[i]
    BY <1>1 DEF Field, h
  <1>4. SubSeq(f, 27, 28) = h
    BY <1>1, <1>2, <1>3
  <1> QED BY <1>4, StrtoulOfHex DEF h

-----------------------------------------------------------------------------
(* The run of zeros of an IPv6 address *)

\* l zero words follow the first b.
RunAt(words, b, l) ==
  b \in Nat /\ l \in Nat /\ l > 0 /\ \A k \in b + 1..b + l : words[k] = 0

\* The run r is longer than l words from b on, or as long and not later.
Dominates(r, b, l) == r.base # -1 /\ (r.len > l \/ (r.len = l /\ r.base <= b))

ARun == [base : Int, len : Int]

\* What the scan knows after n words: of the runs seen, best is the first of the
\* longest, except that cur may still grow.
ScanInv(words, best, cur, n) ==
  /\ best \in ARun /\ cur \in ARun
  /\ \/ best = NoRun
     \/ best.base # -1 /\ RunAt(words, best.base, best.len) /\ best.base + best.len <= n
  /\ \/ cur = NoRun /\ (n = 0 \/ words[n] # 0)
     \/ /\ cur.base # -1 /\ RunAt(words, cur.base, cur.len) /\ cur.base + cur.len = n
        /\ cur.base = 0 \/ words[cur.base] # 0
  /\ best.base # -1 /\ cur.base # -1 => best.base < cur.base
  /\ \A b, l : RunAt(words, b, l) /\ b + l <= n =>
       Dominates(best, b, l) \/ (cur.base # -1 /\ b >= cur.base)

\* A run that ended is compared with the best one.
LEMMA ScanEnd ==
  ASSUME NEW words, NEW best, NEW cur, NEW n \in Nat, ScanInv(words, best, cur, n)
  PROVE  /\ Better(best, cur) \in ARun
         /\ \/ Better(best, cur) = NoRun
            \/ /\ Better(best, cur).base # -1
               /\ RunAt(words, Better(best, cur).base, Better(best, cur).len)
               /\ Better(best, cur).base + Better(best, cur).len <= n
         /\ \A b, l : RunAt(words, b, l) /\ b + l <= n => Dominates(Better(best, cur), b, l)
  <1> DEFINE new == Better(best, cur)
  <1>1. best \in ARun /\ cur \in ARun
    BY DEF ScanInv
  <1>2. new = cur \/ new = best
    BY DEF Better
  <1>3. new \in ARun
    BY <1>1, <1>2
  <1>4. new = NoRun \/ (new.base # -1 /\ RunAt(words, new.base, new.len) /\ new.base + new.len <= n)
    BY <1>1, <1>2 DEF ScanInv, ARun
  <1>5. ASSUME NEW b, NEW l, RunAt(words, b, l), b + l <= n PROVE Dominates(new, b, l)
    <2>1. b \in Nat /\ l \in Nat /\ l > 0
      BY <1>5 DEF RunAt
    <2>2. CASE cur.base = -1
      <3>1. new = best
        BY <2>2 DEF Better
      <3> QED BY <1>5, <2>2, <3>1 DEF ScanInv
    <2>3. CASE cur.base # -1 /\ best.base = -1
      <3>1. new = cur
        BY <2>3 DEF Better
      <3>2. ~Dominates(best, b, l)
        BY <2>3 DEF Dominates
      <3>3. b >= cur.base
        BY <1>5, <3>2 DEF ScanInv
      <3>4. cur.base + cur.len = n
        BY <2>3 DEF ScanInv, NoRun
      <3>5. l < cur.len \/ (l = cur.len /\ cur.base <= b)
        BY <1>1, <1>5, <2>1, <3>3, <3>4 DEF ARun
      <3> QED BY <1>1, <2>1, <2>3, <3>1, <3>5 DEF Dominates, ARun
    <2>4. CASE cur.base # -1 /\ best.base # -1
      <3>1. cur.base + cur.len = n /\ best.base < cur.base
        BY <2>4 DEF ScanInv, NoRun
      <3>2. new = IF cur.len > best.len THEN cur ELSE best
        BY <2>4 DEF Better
      <3>3. CASE Dominates(best, b, l)
        BY <1>1, <2>1, <2>4, <3>2, <3>3 DEF Dominates, ARun
      <3>4. CASE b >= cur.base
        <4>1. l < cur.len \/ (l = cur.len /\ cur.base <= b)
          BY <1>1, <1>5, <2>1, <3>1, <3>4 DEF ARun
        <4> QED BY <1>1, <2>1, <2>4, <3>1, <3>2, <3>4, <4>1 DEF Dominates, ARun
      <3> QED BY <1>5, <3>3, <3>4 DEF ScanInv
    <2> QED BY <2>2, <2>3, <2>4
  <1> QED BY <1>3, <1>4, <1>5

\* A word that is not zero.
LEMMA ScanWord ==
  ASSUME NEW words, NEW best, NEW cur, NEW n \in Nat, ScanInv(words, best, cur, n),
         words[n + 1] # 0
  PROVE  ScanInv(words, Better(best, cur), NoRun, n + 1)
  <1> DEFINE new == Better(best, cur)
  <1>1. /\ new \in ARun
        /\ new = NoRun \/ (new.base # -1 /\ RunAt(words, new.base, new.len)
                             /\ new.base + new.len <= n)
        /\ \A b, l : RunAt(words, b, l) /\ b + l <= n => Dominates(new, b, l)
    BY ScanEnd
  <1> HIDE DEF new
  <1>2. NoRun \in ARun /\ NoRun.base = -1
    BY DEF NoRun, ARun
  <1>3. ASSUME NEW b, NEW l, RunAt(words, b, l), b + l <= n + 1 PROVE Dominates(new, b, l)
    <2>1. b + l # n + 1
      <3>1. SUFFICES ASSUME b + l = n + 1 PROVE FALSE
        OBVIOUS
      <3>2. n + 1 \in b + 1..b + l
        BY <1>3, <3>1 DEF RunAt
      <3> QED BY <1>3, <3>2 DEF RunAt
    <2>2. b + l <= n
      BY <1>3, <2>1 DEF RunAt
    <2> QED BY <1>1, <1>3, <2>2
  <1>4. new = NoRun \/ (new.base # -1 /\ RunAt(words, new.base, new.len)
                          /\ new.base + new.len <= n + 1)
    BY <1>1 DEF ARun
  <1> QED BY <1>1, <1>2, <1>3, <1>4 DEF ScanInv, new

\* A zero that begins a run, or goes on with it.
LEMMA ScanZero ==
  ASSUME NEW words, NEW best, NEW cur, NEW n \in Nat, ScanInv(words, best, cur, n),
         words[n + 1] = 0
  PROVE  /\ cur.base = -1 => ScanInv(words, best, [base |-> n, len |-> 1], n + 1)
         /\ cur.base # -1 => ScanInv(words, best, [base |-> cur.base, len |-> cur.len + 1], n + 1)
  <1>1. best \in ARun /\ cur \in ARun
    BY DEF ScanInv
  <1>2. best = NoRun \/ (best.base # -1 /\ RunAt(words, best.base, best.len)
                           /\ best.base + best.len <= n + 1)
    BY <1>1 DEF ScanInv, ARun
  <1>3. \A b, l : RunAt(words, b, l) => b \in Nat /\ l \in Nat /\ l > 0
    BY DEF RunAt
  <1>4. CASE cur.base = -1
    <2> DEFINE new == [base |-> n, len |-> 1]
    <2>1. new \in ARun /\ new.base = n /\ new.len = 1 /\ n # -1
      BY DEF ARun
    <2> HIDE DEF new
    <2>2. n = 0 \/ words[n] # 0
      BY <1>4 DEF ScanInv
    <2>3. RunAt(words, n, 1)
      BY DEF RunAt
    <2>4. best.base # -1 => best.base < n
      BY <1>1, <1>3 DEF ScanInv, NoRun, ARun
    <2>5. ASSUME NEW b, NEW l, RunAt(words, b, l), b + l <= n + 1
          PROVE  Dominates(best, b, l) \/ b >= n
      <3>1. CASE b + l <= n
        BY <1>4, <2>5, <3>1 DEF ScanInv
      <3>2. CASE b + l = n + 1
        <4>1. SUFFICES ASSUME b < n PROVE FALSE
          BY <1>3, <2>5
        <4>2. n \in b + 1..b + l
          BY <1>3, <2>5, <3>2, <4>1
        <4>3. words[n] = 0
          BY <2>5, <4>2 DEF RunAt
        <4> QED BY <1>3, <2>2, <2>5, <4>1, <4>3
      <3> QED BY <1>3, <2>5, <3>1, <3>2
    <2>6. ScanInv(words, best, new, n + 1)
      BY <1>1, <1>2, <2>1, <2>2, <2>3, <2>4, <2>5 DEF ScanInv
    <2> QED BY <1>4, <2>6 DEF new
  <1>5. CASE cur.base # -1
    <2> DEFINE new == [base |-> cur.base, len |-> cur.len + 1]
    <2>1. new \in ARun /\ new.base = cur.base /\ new.len = cur.len + 1
      BY <1>1 DEF ARun
    <2> HIDE DEF new
    <2>2. /\ RunAt(words, cur.base, cur.len) /\ cur.base + cur.len = n
          /\ cur.base = 0 \/ words[cur.base] # 0
      BY <1>5 DEF ScanInv, NoRun
    <2>3. RunAt(words, new.base, new.len) /\ new.base + new.len = n + 1
      <3>1. cur.base \in Nat /\ cur.len \in Nat /\ cur.len > 0
        BY <2>2 DEF RunAt
      <3>2. \A k \in cur.base + 1..cur.base + (cur.len + 1) :
              k \in cur.base + 1..cur.base + cur.len \/ k = n + 1
        BY <2>2, <3>1
      <3>3. \A k \in cur.base + 1..cur.base + (cur.len + 1) : words[k] = 0
        BY <2>2, <3>2 DEF RunAt
      <3>4. cur.len + 1 \in Nat /\ cur.len + 1 > 0 /\ cur.base + (cur.len + 1) = n + 1
        BY <2>2, <3>1
      <3> QED BY <2>1, <3>1, <3>3, <3>4 DEF RunAt
    <2>4. ASSUME NEW b, NEW l, RunAt(words, b, l), b + l <= n + 1
          PROVE  Dominates(best, b, l) \/ b >= cur.base
      <3>1. CASE b + l <= n
        BY <2>4, <3>1 DEF ScanInv
      <3>2. CASE b + l = n + 1
        <4>1. SUFFICES ASSUME b < cur.base PROVE FALSE
          BY <1>1, <1>3, <2>4 DEF ARun
        <4>2. cur.base \in b + 1..b + l /\ cur.base # 0
          BY <1>3, <2>2, <2>4, <3>2, <4>1
        <4>3. words[cur.base] = 0
          BY <2>4, <4>2 DEF RunAt
        <4> QED BY <2>2, <4>2, <4>3
      <3> QED BY <1>3, <2>4, <3>1, <3>2
    <2>5. best.base # -1 => best.base < cur.base
      BY <1>5 DEF ScanInv
    <2>6. ScanInv(words, best, new, n + 1)
      BY <1>1, <1>2, <1>5, <2>1, <2>2, <2>3, <2>4, <2>5 DEF ScanInv
    <2> QED BY <1>5, <2>6 DEF new
  <1> QED BY <1>4, <1>5

\* One word of the scan, and the states of the scan after each of the words.
ScanStart == [best |-> NoRun, cur |-> NoRun]

ScanStep(words, s, n) ==
  IF words[n] # 0 THEN [best |-> Better(s.best, s.cur), cur |-> NoRun]
  ELSE IF s.cur.base = -1
  THEN [s EXCEPT !.cur = [base |-> n - 1, len |-> 1]]
  ELSE [s EXCEPT !.cur.len = @ + 1]

ScanSolution(words, S) ==
  S = [n \in 0..8 |-> IF n = 0 THEN ScanStart ELSE ScanStep(words, S[n - 1], n)]

LEMMA ScanExists ==
  ASSUME NEW words
  PROVE  \E S : ScanSolution(words, S)
  <1> DEFINE U1 == ScanStep(words, ScanStart, 1)
             U2 == ScanStep(words, U1, 2)
             U3 == ScanStep(words, U2, 3)
             U4 == ScanStep(words, U3, 4)
             U5 == ScanStep(words, U4, 5)
             U6 == ScanStep(words, U5, 6)
             U7 == ScanStep(words, U6, 7)
             U8 == ScanStep(words, U7, 8)
             step(S, n) == IF n = 0 THEN ScanStart ELSE ScanStep(words, S[n - 1], n)
             S == [n \in 0..8 |-> IF n = 0 THEN ScanStart ELSE IF n = 1 THEN U1
                                  ELSE IF n = 2 THEN U2 ELSE IF n = 3 THEN U3
                                  ELSE IF n = 4 THEN U4 ELSE IF n = 5 THEN U5
                                  ELSE IF n = 6 THEN U6 ELSE IF n = 7 THEN U7 ELSE U8]
  <1>1. /\ S[0] = ScanStart /\ S[1] = U1 /\ S[2] = U2 /\ S[3] = U3 /\ S[4] = U4
        /\ S[5] = U5 /\ S[6] = U6 /\ S[7] = U7 /\ S[8] = U8
    <2> HIDE DEF U1, U2, U3, U4, U5, U6, U7, U8
    <2> QED OBVIOUS
  <1>2. S = [n \in 0..8 |-> S[n]]
    OBVIOUS
  <1> HIDE DEF S
  <1>3. S[0] = step(S, 0) /\ S[1] = step(S, 1)
    BY <1>1
  <1>4. /\ U2 = ScanStep(words, U1, 2) /\ U3 = ScanStep(words, U2, 3)
        /\ U4 = ScanStep(words, U3, 4) /\ U5 = ScanStep(words, U4, 5)
        /\ U6 = ScanStep(words, U5, 6) /\ U7 = ScanStep(words, U6, 7)
        /\ U8 = ScanStep(words, U7, 8)
    OBVIOUS
  <1> HIDE DEF U1, U2, U3, U4, U5, U6, U7, U8
  <1>5. S[2] = step(S, 2) /\ S[3] = step(S, 3) /\ S[4] = step(S, 4)
    BY <1>1, <1>4
  <1>6. S[5] = step(S, 5) /\ S[6] = step(S, 6) /\ S[7] = step(S, 7) /\ S[8] = step(S, 8)
    BY <1>1, <1>4
  <1>7. \A n \in 0..8 : S[n] = step(S, n)
    <2>1. \A n \in 0..8 : \/ n = 0 \/ n = 1 \/ n = 2 \/ n = 3 \/ n = 4
                          \/ n = 5 \/ n = 6 \/ n = 7 \/ n = 8
      OBVIOUS
    <2> HIDE DEF step
    <2> QED BY <1>3, <1>5, <1>6, <2>1
  <1>8. S = [n \in 0..8 |-> step(S, n)]
    <2> HIDE DEF step
    <2>1. [n \in 0..8 |-> S[n]] = [n \in 0..8 |-> step(S, n)]
      BY <1>7
    <2> QED BY <1>2, <2>1
  <1> QED BY <1>8 DEF ScanSolution

LEMMA ScanAt ==
  ASSUME NEW words, NEW S, ScanSolution(words, S)
  PROVE  S[0] = ScanStart /\ \A n \in 1..8 : S[n] = ScanStep(words, S[n - 1], n)
  <1>1. \A n \in 0..8 : S[n] = IF n = 0 THEN ScanStart ELSE ScanStep(words, S[n - 1], n)
    <2> TAKE n \in 0..8
    <2>1. S[n] = [m \in 0..8 |-> IF m = 0 THEN ScanStart ELSE ScanStep(words, S[m - 1], m)][n]
      BY DEF ScanSolution
    <2> QED BY <2>1
  <1> QED BY <1>1

\* The scan after n words is a record of two runs of which ScanInv tells.
Scanned(words, s, n) ==
  s \in [best : ARun, cur : ARun] /\ ScanInv(words, s.best, s.cur, n)

LEMMA ScanStepInv ==
  ASSUME NEW words, NEW s, NEW n \in Nat, Scanned(words, s, n)
  PROVE  Scanned(words, ScanStep(words, s, n + 1), n + 1)
  <1> DEFINE t == ScanStep(words, s, n + 1)
  <1>1. s.best \in ARun /\ s.cur \in ARun /\ ScanInv(words, s.best, s.cur, n)
    BY DEF Scanned
  <1>2. CASE words[n + 1] # 0
    <2>1. t = [best |-> Better(s.best, s.cur), cur |-> NoRun]
      BY <1>2 DEF ScanStep
    <2>2. ScanInv(words, Better(s.best, s.cur), NoRun, n + 1)
      BY <1>1, <1>2, ScanWord
    <2>3. Better(s.best, s.cur) \in ARun /\ NoRun \in ARun
      BY <2>2 DEF ScanInv
    <2> HIDE DEF t
    <2> QED BY <2>1, <2>2, <2>3 DEF Scanned, t
  <1>3. CASE words[n + 1] = 0 /\ s.cur.base = -1
    <2> DEFINE c == [base |-> n, len |-> 1]
    <2>1. n + 1 - 1 = n
      OBVIOUS
    <2>2. t = [s EXCEPT !.cur = c]
      BY <1>3, <2>1 DEF ScanStep
    <2>3. ScanInv(words, s.best, c, n + 1)
      BY <1>1, <1>3, ScanZero
    <2>4. c \in ARun
      BY DEF ARun
    <2> HIDE DEF c, t
    <2>5. t \in [best : ARun, cur : ARun] /\ t.best = s.best /\ t.cur = c
      BY <2>2, <2>4 DEF Scanned
    <2> QED BY <2>3, <2>5 DEF Scanned, t
  <1>4. CASE words[n + 1] = 0 /\ s.cur.base # -1
    <2> DEFINE c == [base |-> s.cur.base, len |-> s.cur.len + 1]
    <2>1. t = [s EXCEPT !.cur.len = s.cur.len + 1]
      BY <1>4 DEF ScanStep
    <2>2. t = [s EXCEPT !.cur = c]
      BY <1>1, <2>1 DEF ARun
    <2>3. ScanInv(words, s.best, c, n + 1)
      BY <1>1, <1>4, ScanZero
    <2>4. c \in ARun
      BY <1>1 DEF ARun
    <2> HIDE DEF c, t
    <2>5. t \in [best : ARun, cur : ARun] /\ t.best = s.best /\ t.cur = c
      BY <2>2, <2>4 DEF Scanned
    <2> QED BY <2>3, <2>5 DEF Scanned, t
  <1> QED BY <1>2, <1>3, <1>4

LEMMA ScanWhole ==
  ASSUME NEW words, NEW S, ScanSolution(words, S)
  PROVE  Scanned(words, S[8], 8)
  <1>0. Scanned(words, S[0], 0)
    <2>1. ScanStart.best = NoRun /\ ScanStart.cur = NoRun
          /\ ScanStart \in [best : ARun, cur : ARun] /\ NoRun \in ARun /\ NoRun.base = -1
      BY DEF ScanStart, NoRun, ARun
    <2>2. \A b, l : RunAt(words, b, l) => ~(b + l <= 0)
      BY DEF RunAt
    <2>3. ScanInv(words, NoRun, NoRun, 0)
      BY <2>1, <2>2 DEF ScanInv
    <2> QED BY <2>1, <2>3, ScanAt DEF Scanned
  <1>1. \A n \in 1..8 : S[n] = ScanStep(words, S[n - 1], n)
    BY ScanAt
  <1>2. \A n \in 0..7 : Scanned(words, S[n], n) => Scanned(words, S[n + 1], n + 1)
    <2> SUFFICES ASSUME NEW n \in 0..7, Scanned(words, S[n], n)
                 PROVE  Scanned(words, S[n + 1], n + 1)
      OBVIOUS
    <2>1. S[n + 1] = ScanStep(words, S[n], n + 1)
      <3>1. n + 1 \in 1..8 /\ (n + 1) - 1 = n
        OBVIOUS
      <3> QED BY <1>1, <3>1
    <2> QED BY <2>1, ScanStepInv
  <1>3. Scanned(words, S[1], 1) /\ Scanned(words, S[2], 2)
    BY <1>0, <1>2
  <1>4. Scanned(words, S[3], 3) /\ Scanned(words, S[4], 4)
    BY <1>2, <1>3
  <1>5. Scanned(words, S[5], 5) /\ Scanned(words, S[6], 6)
    BY <1>2, <1>4
  <1> QED BY <1>2, <1>5

\* The run that "::" stands for is the first of the longest, if there is one of
\* two words or more.
BestOf(words, b) ==
  \/ Runs(words) = {} /\ b = NoRun
  \/ /\ b \in ARun /\ b.base # -1 /\ <<b.base, b.len>> \in Runs(words)
     /\ \A q \in Runs(words) : b.len > q[2] \/ (b.len = q[2] /\ b.base <= q[1])

\* The loop of inet_ntop6 over the eight words finds it.
THEOREM BestRunIs ==
  ASSUME NEW words
  PROVE  BestOf(words, BestRun(words))
  <1> DEFINE S == CHOOSE S : ScanSolution(words, S)
             best == Better(S[8].best, S[8].cur)
  <1>1. BestRun(words) = IF best.len < 2 THEN NoRun ELSE best
    BY DEF BestRun, ScanSolution, ScanStart, ScanStep
  <1>2. ScanSolution(words, S)
    BY ScanExists
  <1> HIDE DEF S
  <1>3. Scanned(words, S[8], 8)
    BY <1>2, ScanWhole
  <1>4. /\ best \in ARun
        /\ best = NoRun \/ (best.base # -1 /\ RunAt(words, best.base, best.len)
                              /\ best.base + best.len <= 8)
        /\ \A b, l : RunAt(words, b, l) /\ b + l <= 8 => Dominates(best, b, l)
    BY <1>3, ScanEnd DEF Scanned
  <1> HIDE DEF best
  <1>5. \A q \in Runs(words) : RunAt(words, q[1], q[2]) /\ q[1] + q[2] <= 8 /\ q[2] >= 2
    BY DEF Runs, RunAt
  <1>6. \A q \in Runs(words) : Dominates(best, q[1], q[2]) /\ q[2] \in Nat /\ q[2] >= 2
    BY <1>4, <1>5 DEF RunAt
  <1>7. CASE best.len < 2
    <2>1. Runs(words) = {}
      BY <1>4, <1>6, <1>7 DEF Dominates, ARun
    <2> QED BY <1>1, <1>7, <2>1 DEF BestOf
  <1>8. CASE best.len >= 2
    <2>1. best # NoRun
      BY <1>8 DEF NoRun
    <2>2. RunAt(words, best.base, best.len) /\ best.base + best.len <= 8 /\ best.base # -1
      BY <1>4, <2>1
    <2>3. best.base \in 0..6 /\ best.len \in 2..8
      BY <1>8, <2>2 DEF RunAt
    <2>4. <<best.base, best.len>> \in Runs(words)
      BY <2>2, <2>3 DEF Runs, RunAt
    <2>5. BestRun(words) = best
      BY <1>1, <1>4, <1>8 DEF ARun
    <2> QED BY <1>4, <1>6, <2>2, <2>4, <2>5 DEF BestOf, Dominates
  <1> QED BY <1>4, <1>7, <1>8 DEF ARun

-----------------------------------------------------------------------------
(* The text of an IPv6 address *)

\* Induction over the eight words, on the set of those that are reached.
LEMMA EightSteps ==
  ASSUME NEW X, 1 \in X, \A i \in 1..7 : i \in X => i + 1 \in X
  PROVE  \A i \in 1..8 : i \in X
  <1>1. 2 \in X /\ 3 \in X
    OBVIOUS
  <1>2. 4 \in X /\ 5 \in X
    BY <1>1
  <1>3. 6 \in X /\ 7 \in X
    BY <1>2
  <1>4. 8 \in X
    BY <1>3
  <1>5. \A i \in 1..8 : i = 1 \/ i = 2 \/ i = 3 \/ i = 4 \/ i = 5 \/ i = 6 \/ i = 7 \/ i = 8
    OBVIOUS
  <1> QED BY <1>1, <1>2, <1>3, <1>4, <1>5

\* FlattenSeq of the community modules.
FlatSolution(f, p) == f = [i \in 1..Len(p) |-> IF i = 1 THEN p[i] ELSE f[i - 1] \o p[i]]

LEMMA FlatExists ==
  ASSUME NEW p, Len(p) \in 1..8
  PROVE  \E f : FlatSolution(f, p)
  <1> DEFINE V2 == p[1] \o p[2]
             V3 == V2 \o p[3]
             V4 == V3 \o p[4]
             V5 == V4 \o p[5]
             V6 == V5 \o p[6]
             V7 == V6 \o p[7]
             V8 == V7 \o p[8]
             f == [i \in 1..Len(p) |-> IF i = 1 THEN p[1] ELSE IF i = 2 THEN V2
                                       ELSE IF i = 3 THEN V3 ELSE IF i = 4 THEN V4
                                       ELSE IF i = 5 THEN V5 ELSE IF i = 6 THEN V6
                                       ELSE IF i = 7 THEN V7 ELSE V8]
             step(i) == IF i = 1 THEN p[i] ELSE f[i - 1] \o p[i]
  <1>0. \A i \in 1..Len(p) : \/ i = 1 \/ i = 2 \/ i = 3 \/ i = 4
                             \/ i = 5 \/ i = 6 \/ i = 7 \/ i = 8
    <2> DEFINE n == Len(p)
    <2>1. n \in 1..8
      OBVIOUS
    <2> HIDE DEF n
    <2>2. \A i \in 1..n : \/ i = 1 \/ i = 2 \/ i = 3 \/ i = 4
                         \/ i = 5 \/ i = 6 \/ i = 7 \/ i = 8
      BY <2>1
    <2> QED BY <2>2 DEF n
  <1>1. /\ V3 = V2 \o p[3] /\ V4 = V3 \o p[4] /\ V5 = V4 \o p[5]
        /\ V6 = V5 \o p[6] /\ V7 = V6 \o p[7] /\ V8 = V7 \o p[8]
        /\ V2 = p[1] \o p[2]
    OBVIOUS
  <1> HIDE DEF V2, V3, V4, V5, V6, V7, V8
  <1>2. \A i \in 1..Len(p) :
          /\ i = 1 => f[i] = p[1]
          /\ i = 2 => f[i] = V2 /\ f[i - 1] = p[1]
          /\ i = 3 => f[i] = V3 /\ f[i - 1] = V2
          /\ i = 4 => f[i] = V4 /\ f[i - 1] = V3
          /\ i = 5 => f[i] = V5 /\ f[i - 1] = V4
          /\ i = 6 => f[i] = V6 /\ f[i - 1] = V5
          /\ i = 7 => f[i] = V7 /\ f[i - 1] = V6
          /\ i = 8 => f[i] = V8 /\ f[i - 1] = V7
    OBVIOUS
  <1>3. f = [i \in 1..Len(p) |-> f[i]]
    OBVIOUS
  <1> HIDE DEF f
  <1>4. \A i \in 1..Len(p) : f[i] = step(i)
    <2> TAKE i \in 1..Len(p)
    <2>1. i = 1 \/ i = 2 \/ i = 3 \/ i = 4 \/ i = 5 \/ i = 6 \/ i = 7 \/ i = 8
      BY <1>0
    <2>2. /\ i = 1 => f[i] = p[1]
          /\ i = 2 => f[i] = V2 /\ f[i - 1] = p[1]
          /\ i = 3 => f[i] = V3 /\ f[i - 1] = V2
          /\ i = 4 => f[i] = V4 /\ f[i - 1] = V3
          /\ i = 5 => f[i] = V5 /\ f[i - 1] = V4
          /\ i = 6 => f[i] = V6 /\ f[i - 1] = V5
          /\ i = 7 => f[i] = V7 /\ f[i - 1] = V6
          /\ i = 8 => f[i] = V8 /\ f[i - 1] = V7
      BY <1>2
    <2> QED BY <1>1, <2>1, <2>2
  <1>5. [i \in 1..Len(p) |-> f[i]] = [i \in 1..Len(p) |-> step(i)]
    <2> HIDE DEF step
    <2> QED BY <1>4
  <1> QED BY <1>3, <1>5 DEF FlatSolution

\* Concatenation under a name of its own, which the provers do not unfold.
Cat(s, t) == s \o t

OfText(s, T) == s \in Seq(T)

LEMMA CatSeq ==
  ASSUME NEW T, NEW s, NEW t, OfText(s, T), OfText(t, T)
  PROVE  OfText(Cat(s, t), T)
  BY ConcatProperties DEF OfText, Cat

LEMMA CatEmpty ==
  ASSUME NEW T, NEW s, OfText(s, T)
  PROVE  Cat(s, << >>) = s /\ Cat(<< >>, s) = s
  BY ConcatEmptySeq DEF OfText, Cat

LEMMA CatThree ==
  ASSUME NEW T, NEW s, NEW t, NEW u, OfText(s, T), OfText(t, T), OfText(u, T)
  PROVE  Cat(Cat(s, t), u) = Cat(s, Cat(t, u))
  BY ConcatAssociative DEF OfText, Cat

LEMMA CatPair ==
  ASSUME NEW x, NEW y
  PROVE  Cat(<<x>>, <<y>>) = <<x, y>>
  <1> DEFINE S == {x, y}
             s == <<x>>
             t == <<y>>
             v == s \o t
  <1>1. /\ s \in Seq(S) /\ Len(s) = 1 /\ s[1] = x
        /\ t \in Seq(S) /\ Len(t) = 1 /\ t[1] = y
    OBVIOUS
  <1> HIDE DEF S, s, t
  <1>2. /\ Len(v) = 2 /\ v \in Seq(S)
        /\ \A i \in 1..Len(s) + Len(t) : v[i] = IF i <= Len(s) THEN s[i] ELSE t[i - Len(s)]
    BY <1>1, ConcatProperties
  <1>3. 1 \in 1..Len(s) + Len(t) /\ 2 \in 1..Len(s) + Len(t)
    BY <1>1
  <1>4. /\ v[1] = IF 1 <= Len(s) THEN s[1] ELSE t[1 - Len(s)]
        /\ v[2] = IF 2 <= Len(s) THEN s[2] ELSE t[2 - Len(s)]
    BY <1>2, <1>3
  <1>5. v[1] = x /\ v[2] = y
    BY <1>1, <1>4
  <1> HIDE DEF v
  <1>6. v = <<v[1], v[2]>>
    BY <1>2
  <1> QED BY <1>5, <1>6 DEF Cat, v, s, t

LEMMA OfSeparator ==
  ASSUME NEW T, ":" \in T
  PROVE  /\ OfText(<<":">>, T) /\ OfText(<< >>, T)
         /\ Cat(<<":">>, <<":">>) = <<":", ":">>
         /\ \A w \in T : /\ OfText(<<w>>, T) /\ OfText(<<":", w>>, T)
                         /\ <<":", w>> = Cat(<<":">>, <<w>>)
  <1>1. <<":">> \in Seq(T) /\ << >> \in Seq(T)
    OBVIOUS
  <1>2. \A w \in T : <<w>> \in Seq(T) /\ <<":", w>> \in Seq(T)
    OBVIOUS
  <1>3. Cat(<<":">>, <<":">>) = <<":", ":">> /\ \A w \in T : <<":", w>> = Cat(<<":">>, <<w>>)
    BY CatPair
  <1> QED BY <1>1, <1>2, <1>3, Zenon DEF OfText

\* Its values are the texts of the first parts.
FlatBy(f, p) ==
  \A i \in 1..Len(p) : f[i] = IF i = 1 THEN p[1] ELSE Cat(f[i - 1], p[i])

LEMMA FlattenIs ==
  ASSUME NEW p, Len(p) \in 1..8
  PROVE  \E f : FlatBy(f, p) /\ FlattenSeq(p) = f[Len(p)]
  <1> DEFINE f == CHOOSE f : FlatSolution(f, p)
  <1>1. FlattenSeq(p) = f[Len(p)]
    <2>1. Len(p) # 0
      OBVIOUS
    <2> QED BY <2>1, Zenon DEF FlattenSeq, FlatSolution
  <1>2. FlatSolution(f, p)
    BY FlatExists
  <1> HIDE DEF f
  <1>3. ASSUME NEW i \in 1..Len(p)
        PROVE  f[i] = IF i = 1 THEN p[1] ELSE Cat(f[i - 1], p[i])
    <2>1. f[i] = [j \in 1..Len(p) |-> IF j = 1 THEN p[j] ELSE f[j - 1] \o p[j]][i]
      BY <1>2 DEF FlatSolution
    <2> QED BY <2>1 DEF Cat
  <1> QED BY <1>1, <1>3 DEF FlatBy

\* The words of ws with ":" between them.
JoinedBy(h, ws) ==
  \A i \in 1..Len(ws) : h[i] = IF i = 1 THEN <<ws[1]>> ELSE Cat(h[i - 1], <<":", ws[i]>>)

LEMMA JoinedIs ==
  ASSUME NEW ws, Len(ws) \in 1..8
  PROVE  \E h : JoinedBy(h, ws) /\ Joined(ws) = h[Len(ws)]
  <1> DEFINE p == [k \in 1..Len(ws) |-> IF k = 1 THEN <<ws[1]>> ELSE <<":", ws[k]>>]
  <1>1. Len(p) = Len(ws)
    OBVIOUS
  <1>2. Joined(ws) = FlattenSeq(p)
    BY DEF Joined
  <1>3. \A i \in 1..Len(ws) : p[i] = IF i = 1 THEN <<ws[1]>> ELSE <<":", ws[i]>>
    OBVIOUS
  <1> HIDE DEF p
  <1>4. PICK f : FlatBy(f, p) /\ FlattenSeq(p) = f[Len(p)]
    BY <1>1, FlattenIs
  <1>5. JoinedBy(f, ws)
    BY <1>1, <1>3, <1>4 DEF JoinedBy, FlatBy
  <1> QED BY <1>1, <1>2, <1>4, <1>5

LEMMA JoinedNone == Joined(<< >>) = << >>
  <1>1. [k \in 1..Len(<< >>) |-> IF k = 1 THEN <<(<< >>)[1]>> ELSE <<":", (<< >>)[k]>>] = << >>
    OBVIOUS
  <1> QED BY <1>1 DEF Joined, FlattenSeq

LEMMA JoinedSeq ==
  ASSUME NEW T, ":" \in T, NEW ws, OfText(ws, T), Len(ws) \in 1..8, NEW h, JoinedBy(h, ws)
  PROVE  \A i \in 1..Len(ws) : OfText(h[i], T)
  <1> DEFINE n == Len(ws)
             X == {i \in Nat : i <= n => OfText(h[i], T)}
  <1>0. n \in 1..8
    OBVIOUS
  <1>1. \A i \in 1..n : ws[i] \in T
    BY DEF OfText
  <1>2. \A i \in 1..n : h[i] = IF i = 1 THEN <<ws[1]>> ELSE Cat(h[i - 1], <<":", ws[i]>>)
    BY DEF JoinedBy
  <1> HIDE DEF n
  <1>3. \A i \in 1..n : OfText(<<ws[i]>>, T) /\ OfText(<<":", ws[i]>>, T)
    BY <1>1, OfSeparator
  <1>4. 1 \in X
    <2>1. 1 \in 1..n
      BY <1>0
    <2>2. h[1] = <<ws[1]>> /\ OfText(<<ws[1]>>, T)
      BY <1>2, <1>3, <2>1
    <2>3. OfText(h[1], T)
      BY <2>2
    <2> QED BY <2>3
  <1>5. \A i \in 1..7 : i \in X => i + 1 \in X
    <2> SUFFICES ASSUME NEW i \in 1..7, i \in X, i + 1 <= n PROVE OfText(h[i + 1], T)
      OBVIOUS
    <2>0. i <= n => OfText(h[i], T)
      OBVIOUS
    <2>1. i \in 1..n /\ i + 1 \in 1..n /\ i + 1 # 1 /\ (i + 1) - 1 = i
      BY <1>0
    <2>2. h[i + 1] = Cat(h[i], <<":", ws[i + 1]>>)
      BY <1>2, <2>1
    <2>a. i <= n
      BY <1>0
    <2>b. OfText(h[i], T)
      BY <2>0, <2>a
    <2>c. OfText(<<":", ws[i + 1]>>, T)
      BY <1>3, <2>1
    <2>3. OfText(h[i], T) /\ OfText(<<":", ws[i + 1]>>, T)
      BY <2>b, <2>c
    <2> HIDE DEF X
    <2>4. OfText(Cat(h[i], <<":", ws[i + 1]>>), T)
      BY <2>3, CatSeq
    <2> QED BY <2>2, <2>4
  <1>6. \A i \in 1..8 : i \in X
    <2> HIDE DEF X
    <2> QED BY <1>4, <1>5, EightSteps
  <1>7. \A i \in 1..n : i \in 1..8
    BY <1>0
  <1>8. \A i \in 1..n : OfText(h[i], T)
    BY <1>6, <1>7
  <1> QED BY <1>8 DEF n

\* One word of the text, and the text that "::" in the run b gives.
InRun(b, n) == b.base # -1 /\ n >= b.base /\ n < b.base + b.len

Part(words, b, n) ==
  IF InRun(b, n) THEN (IF n = b.base THEN <<":">> ELSE << >>)
  ELSE IF n = 0 THEN <<words[1]>>
  ELSE <<":", words[n + 1]>>

Parts(words, b) == [n \in 1..8 |-> Part(words, b, n - 1)]

Text(words, b) ==
  FlattenSeq(Parts(words, b))
    \o (IF b.base # -1 /\ b.base + b.len = 8 THEN <<":">> ELSE << >>)

LEMMA PartsAt ==
  ASSUME NEW words, NEW b
  PROVE  /\ Len(Parts(words, b)) = 8
         /\ \A i \in 1..8 : Parts(words, b)[i] = Part(words, b, i - 1)
  BY DEF Parts

LEMMA TextBy ==
  ASSUME NEW words, NEW b, NEW f, FlatBy(f, Parts(words, b))
  PROVE  \A i \in 1..8 : f[i] = IF i = 1 THEN Part(words, b, 0)
                                ELSE Cat(f[i - 1], Part(words, b, i - 1))
  BY PartsAt DEF FlatBy

\* The text before, in and after the run.
LEMMA TextPrefix ==
  ASSUME NEW words, NEW b, NEW f, FlatBy(f, Parts(words, b)),
         b.base \in 1..6, b.len \in 2..8, NEW h, JoinedBy(h, SubSeq(words, 1, b.base)),
         NEW T, \A i \in 1..8 : words[i] \in T
  PROVE  f[b.base] = h[b.base]
  <1> DEFINE a == b.base
             ws == SubSeq(words, 1, a)
             X == {i \in Nat : i <= a => f[i] = h[i]}
  <1>0. a \in 1..6
    OBVIOUS
  <1>1. Len(ws) = a /\ \A i \in 1..a : ws[i] = words[i]
    <2>1. /\ \A i \in 1..a : words[i] \in T /\ 1 + i - 1 = i
          /\ 1 \in Int /\ a \in Int /\ 1 <= a /\ a - 1 + 1 = a
      BY <1>0
    <2> HIDE DEF a
    <2> QED BY <2>1, SubSeqProperties
  <1>2. \A i \in 1..a : h[i] = IF i = 1 THEN <<ws[1]>> ELSE Cat(h[i - 1], <<":", ws[i]>>)
    BY <1>1 DEF JoinedBy
  <1>3. \A i \in 1..8 : f[i] = IF i = 1 THEN Part(words, b, 0)
                               ELSE Cat(f[i - 1], Part(words, b, i - 1))
    BY TextBy
  <1>4. \A n \in 0..a - 1 : Part(words, b, n) = IF n = 0 THEN <<words[1]>>
                                               ELSE <<":", words[n + 1]>>
    BY <1>0 DEF Part, InRun
  <1> HIDE DEF a, ws
  <1>5. 1 \in X
    <2>1. 1 \in 1..a /\ 0 \in 0..a - 1 /\ 1 \in 1..8
      BY <1>0
    <2>2. f[1] = Part(words, b, 0)
      BY <1>3
    <2>3. f[1] = <<words[1]>>
      BY <2>1, <2>2, <1>4
    <2>4. h[1] = <<words[1]>>
      BY <1>1, <1>2, <2>1
    <2> QED BY <2>3, <2>4
  <1>6. \A i \in 1..7 : i \in X => i + 1 \in X
    <2> SUFFICES ASSUME NEW i \in 1..7, i \in X, i + 1 <= a PROVE f[i + 1] = h[i + 1]
      OBVIOUS
    <2>1. /\ i + 1 \in 1..a /\ i + 1 \in 1..8 /\ i \in 0..a - 1 /\ (i + 1) - 1 = i
          /\ i + 1 # 1 /\ i # 0 /\ i <= a
      BY <1>0
    <2>2. f[i] = h[i]
      BY <2>1
    <2>3. f[i + 1] = Cat(f[i], Part(words, b, i))
      BY <1>3, <2>1
    <2>4. Part(words, b, i) = <<":", words[i + 1]>>
      BY <1>4, <2>1
    <2>5. h[i + 1] = Cat(h[i], <<":", words[i + 1]>>)
      BY <1>1, <1>2, <2>1
    <2> QED BY <2>2, <2>3, <2>4, <2>5
  <1>7. \A i \in 1..8 : i \in X
    <2> HIDE DEF X
    <2> QED BY <1>5, <1>6, EightSteps
  <1>8. f[a] = h[a]
    BY <1>0, <1>7
  <1> QED BY <1>8 DEF a

LEMMA TextInside ==
  ASSUME NEW words, NEW b, NEW f, FlatBy(f, Parts(words, b)), NEW T, NEW before, OfText(before, T),
         b.base \in 0..6, b.len \in 2..8, b.base + b.len <= 8, ":" \in T,
         b.base = 0 => before = << >>, b.base # 0 => f[b.base] = before
  PROVE  f[b.base + b.len] = Cat(before, <<":">>)
  <1> DEFINE a == b.base
             e == b.base + b.len
             X == {i \in Nat : a < i /\ i <= e => f[i] = Cat(before, <<":">>)}
  <1>0. a \in 0..6 /\ e \in 2..8 /\ e > a
    OBVIOUS
  <1>3. \A i \in 1..8 : f[i] = IF i = 1 THEN Part(words, b, 0)
                               ELSE Cat(f[i - 1], Part(words, b, i - 1))
    BY TextBy
  <1>4. \A n \in 0..7 : n >= a /\ n < e =>
          Part(words, b, n) = IF n = a THEN <<":">> ELSE << >>
    BY <1>0 DEF Part, InRun
  <1>b. (a = 0 => before = << >>) /\ (a # 0 => f[a] = before)
    OBVIOUS
  <1> HIDE DEF a, e
  <1>1. OfText(<<":">>, T)
    BY OfSeparator
  <1>2. Cat(<< >>, <<":">>) = <<":">> /\ Cat(Cat(before, <<":">>), << >>) = Cat(before, <<":">>)
    BY <1>1, CatSeq, CatEmpty
  <1>5. 1 \in X
    <2> SUFFICES ASSUME a < 1 PROVE f[1] = Cat(before, <<":">>)
      OBVIOUS
    <2>1. a = 0
      BY <1>0
    <2>2. Part(words, b, 0) = <<":">>
      BY <1>0, <1>4, <2>1
    <2>3. f[1] = <<":">>
      BY <1>3, <2>2
    <2> QED BY <1>2, <1>b, <2>1, <2>3
  <1>6. \A i \in 1..7 : i \in X => i + 1 \in X
    <2> SUFFICES ASSUME NEW i \in 1..7, i \in X PROVE i + 1 \in X
      OBVIOUS
    <2> SUFFICES ASSUME a < i + 1, i + 1 <= e PROVE f[i + 1] = Cat(before, <<":">>)
      OBVIOUS
    <2>1. /\ i + 1 \in 1..8 /\ (i + 1) - 1 = i /\ i + 1 # 1 /\ i \in 0..7
          /\ i >= a /\ i < e /\ i # 0
      BY <1>0
    <2>2. f[i + 1] = Cat(f[i], Part(words, b, i))
      BY <1>3, <2>1
    <2>3. Part(words, b, i) = IF i = a THEN <<":">> ELSE << >>
      BY <1>4, <2>1
    <2>4. CASE i = a
      BY <1>b, <2>1, <2>2, <2>3, <2>4
    <2>5. CASE i # a
      <3>1. f[i] = Cat(before, <<":">>)
        BY <1>0, <2>1, <2>5
      <3> QED BY <1>2, <2>2, <2>3, <2>5, <3>1
    <2> QED BY <2>4, <2>5
  <1>7. \A i \in 1..8 : i \in X
    <2> HIDE DEF X
    <2> QED BY <1>5, <1>6, EightSteps
  <1>8. f[e] = Cat(before, <<":">>)
    BY <1>0, <1>7
  <1> QED BY <1>8 DEF e

RunTo(b, e) == b.base \in 0..6 /\ b.len \in 2..8 /\ e \in 2..8 /\ e = b.base + b.len

WordsFrom(f, words, e) == \A n \in e + 1..8 : f[n] = Cat(f[n - 1], <<":", words[n]>>)

LEMMA TextAfter ==
  ASSUME NEW words, NEW b, NEW f, FlatBy(f, Parts(words, b)), NEW e, RunTo(b, e)
  PROVE  WordsFrom(f, words, e)
  <1> SUFFICES ASSUME NEW n \in e + 1..8 PROVE f[n] = Cat(f[n - 1], <<":", words[n]>>)
    BY DEF WordsFrom
  <1>0. b.base \in 0..6 /\ b.len \in 2..8 /\ e \in 2..8 /\ e = b.base + b.len
    BY DEF RunTo
  <1>1. n \in 1..8 /\ n # 1 /\ n - 1 # 0 /\ (n - 1) + 1 = n /\ n - 1 >= e
    BY <1>0
  <1>2. f[n] = Cat(f[n - 1], Part(words, b, n - 1))
    BY <1>1, TextBy
  <1>3. ~InRun(b, n - 1)
    BY <1>0, <1>1 DEF InRun
  <1>4. Part(words, b, n - 1) = <<":", words[n]>>
    BY <1>1, <1>3 DEF Part
  <1> QED BY <1>2, <1>4

\* f goes on after e as h does from the start.
Continues(f, e, ws, m) == \A i \in 1..m : f[e + i] = Cat(f[e + i - 1], <<":", ws[i]>>)

WordsAfter(ws, e, m) == e \in 2..7 /\ m \in 1..6 /\ e + m = 8 /\ Len(ws) = m

LEMMA TextSuffix ==
  ASSUME NEW T, ":" \in T, NEW f, NEW e, NEW m, NEW ws, OfText(ws, T), WordsAfter(ws, e, m),
         NEW before, OfText(before, T), f[e] = before,
         Continues(f, e, ws, m), NEW h, JoinedBy(h, ws)
  PROVE  f[8] = Cat(before, Cat(<<":">>, h[m]))
  <1> DEFINE c == <<":">>
             t(i) == Cat(before, Cat(c, h[i]))
             X == {i \in Nat : i <= m => f[e + i] = t(i)}
  <1>w. e \in 2..7 /\ m \in 1..6 /\ e + m = 8 /\ Len(ws) = m
    BY DEF WordsAfter
  <1>0. m \in 1..8 /\ Len(ws) \in 1..8
    BY <1>w
  <1>1. \A i \in 1..m : ws[i] \in T /\ OfText(h[i], T)
    <2>1. \A i \in 1..Len(ws) : OfText(h[i], T)
      BY <1>0, JoinedSeq
    <2>2. \A i \in 1..Len(ws) : ws[i] \in T
      BY DEF OfText
    <2> QED BY <1>w, <2>1, <2>2
  <1>2. \A i \in 1..m : f[e + i] = Cat(f[e + i - 1], <<":", ws[i]>>)
    BY <1>w DEF Continues
  <1>3. \A i \in 1..m : h[i] = IF i = 1 THEN <<ws[1]>> ELSE Cat(h[i - 1], <<":", ws[i]>>)
    BY <1>w DEF JoinedBy
  <1>4. OfText(c, T)
        /\ \A i \in 1..m : <<":", ws[i]>> = Cat(c, <<ws[i]>>) /\ OfText(<<":", ws[i]>>, T)
    BY <1>1, OfSeparator
  <1> HIDE DEF c
  <1>5. f[e + 1] = t(1)
    <2>1. 1 \in 1..m /\ e + 1 - 1 = e
      BY <1>w
    <2>2. h[1] = <<ws[1]>>
      BY <1>3, <2>1
    <2>3. f[e + 1] = Cat(before, <<":", ws[1]>>)
      BY <1>2, <2>1
    <2>4. <<":", ws[1]>> = Cat(c, <<ws[1]>>)
      BY <1>4, <2>1
    <2> QED BY <2>2, <2>3, <2>4
  <1>6. \A i \in 1..m : i + 1 <= m /\ f[e + i] = t(i) => f[e + (i + 1)] = t(i + 1)
    <2> SUFFICES ASSUME NEW i \in 1..m, i + 1 <= m, f[e + i] = t(i)
                 PROVE  f[e + (i + 1)] = t(i + 1)
      OBVIOUS
    <2> DEFINE q == <<":", ws[i + 1]>>
               u == h[i]
    <2>1. i + 1 \in 1..m /\ (i + 1) - 1 = i /\ i + 1 # 1 /\ e + (i + 1) - 1 = e + i
      BY <1>w
    <2>2. OfText(u, T) /\ OfText(q, T)
      BY <1>1, <1>4, <2>1
    <2>3. f[e + (i + 1)] = Cat(f[e + i], q)
      BY <1>2, <2>1
    <2>4. h[i + 1] = Cat(u, q)
      BY <1>3, <2>1
    <2>5. f[e + i] = Cat(before, Cat(c, u))
      OBVIOUS
    <2> HIDE DEF q, u
    <2>6. OfText(Cat(c, u), T)
      BY <1>4, <2>2, CatSeq
    <2>7. Cat(Cat(before, Cat(c, u)), q) = Cat(before, Cat(Cat(c, u), q))
      BY <2>2, <2>6, CatThree
    <2>8. Cat(Cat(c, u), q) = Cat(c, Cat(u, q))
      BY <1>4, <2>2, CatThree
    <2> QED BY <2>3, <2>4, <2>5, <2>7, <2>8
  <1> HIDE DEF t
  <1>7. 1 \in X /\ \A i \in 1..7 : i \in X => i + 1 \in X
    BY <1>w, <1>5, <1>6
  <1>8. \A i \in 1..8 : i \in X
    <2> HIDE DEF X
    <2> QED BY <1>7, EightSteps
  <1>9. f[e + m] = t(m)
    BY <1>w, <1>8
  <1>10. f[e + m] = f[8]
    BY <1>w
  <1> QED BY <1>9, <1>10 DEF t, c

\* A part of an address.
LEMMA SubWords ==
  ASSUME NEW T, NEW words, \A i \in 1..8 : words[i] \in T, NEW j \in 1..8, NEW k \in j..8
  PROVE  /\ OfText(SubSeq(words, j, k), T) /\ Len(SubSeq(words, j, k)) = k - j + 1
         /\ \A i \in 1..k - j + 1 : SubSeq(words, j, k)[i] = words[j + i - 1]
  <1>1. \A i \in j..k : words[i] \in T
    OBVIOUS
  <1> QED BY <1>1, SubSeqProperties DEF OfText

\* The text of an address with a run of zeros.
LEMMA TextRun ==
  ASSUME NEW T, ":" \in T, NEW words, \A i \in 1..8 : words[i] \in T, NEW b,
         NEW e, RunTo(b, e)
  PROVE  Text(words, b)
           = Cat(Cat(Joined(SubSeq(words, 1, b.base)), <<":", ":">>),
                 Joined(SubSeq(words, e + 1, 8)))
  <1> DEFINE a == b.base
             c == <<":">>
             before == Joined(SubSeq(words, 1, a))
             after == Joined(SubSeq(words, e + 1, 8))
             end == IF e = 8 THEN c ELSE << >>
  <1>0. a \in 0..6 /\ b.len \in 2..8 /\ e \in 2..8 /\ e = a + b.len
    BY DEF RunTo
  <1>1. PICK f : FlatBy(f, Parts(words, b)) /\ FlattenSeq(Parts(words, b)) = f[8]
    <2>1. Len(Parts(words, b)) = 8 /\ Len(Parts(words, b)) \in 1..8
      BY PartsAt
    <2> QED BY <2>1, FlattenIs
  <1>2. Text(words, b) = Cat(f[8], end)
    <2>1. b.base # -1 /\ (b.base + b.len = 8 <=> e = 8)
      BY <1>0
    <2> QED BY <1>1, <2>1 DEF Text, Cat
  <1>3. OfText(c, T) /\ OfText(<< >>, T) /\ Cat(c, c) = <<":", ":">>
    BY OfSeparator
  <1> HIDE DEF after, end
  <1>4. OfText(before, T) /\ (a = 0 => before = << >>) /\ (a # 0 => f[a] = before)
    <2>1. CASE a = 0
      <3>1. SubSeq(words, 1, a) = << >>
        BY <2>1, SubSeqEmpty
      <3>2. before = << >>
        BY <3>1, JoinedNone
      <3> HIDE DEF before
      <3> QED BY <1>3, <2>1, <3>2
    <2>2. CASE a # 0
      <3> DEFINE ws == SubSeq(words, 1, a)
      <3>1. a \in 1..6 /\ a \in 1..8 /\ 1 \in 1..8 /\ a - 1 + 1 = a
        BY <1>0, <2>2
      <3>2. OfText(ws, T) /\ Len(ws) = a
        <4> HIDE DEF a
        <4> QED BY <3>1, SubWords
      <3> HIDE DEF ws
      <3>3. PICK h : JoinedBy(h, ws) /\ Joined(ws) = h[Len(ws)]
        BY <3>1, <3>2, JoinedIs
      <3>4. OfText(h[a], T)
        <4>1. \A i \in 1..Len(ws) : OfText(h[i], T)
          BY <3>1, <3>2, <3>3, JoinedSeq
        <4> QED BY <3>1, <3>2, <4>1
      <3>5. f[a] = h[a]
        BY <1>0, <1>1, <3>1, <3>3, TextPrefix DEF ws
      <3>6. before = h[a]
        BY <3>2, <3>3 DEF ws
      <3> QED BY <2>2, <3>4, <3>5, <3>6
    <2> QED BY <2>1, <2>2
  <1> HIDE DEF before
  <1>5. f[e] = Cat(before, c)
    BY <1>0, <1>1, <1>4, TextInside
  <1> HIDE DEF c
  <1>6. OfText(Cat(before, c), T) /\ Cat(Cat(before, c), c) = Cat(before, <<":", ":">>)
    BY <1>3, <1>4, CatSeq, CatThree
  <1>7. OfText(Cat(Cat(before, c), c), T)
    BY <1>3, <1>6, CatSeq
  <1>8. CASE e = 8
    <2>1. SubSeq(words, e + 1, 8) = << >>
      BY <1>8, SubSeqEmpty
    <2>2. after = << >>
      BY <2>1, JoinedNone DEF after
    <2>3. end = c /\ f[8] = Cat(before, c)
      BY <1>5, <1>8 DEF end
    <2>4. Cat(Cat(before, <<":", ":">>), << >>) = Cat(before, <<":", ":">>)
      BY <1>6, <1>7, CatEmpty
    <2>5. Text(words, b) = Cat(Cat(before, <<":", ":">>), after)
      BY <1>2, <1>6, <2>2, <2>3, <2>4
    <2> QED BY <2>5 DEF before, after
  <1>9. CASE e # 8
    <2> DEFINE m == 8 - e
               ws == SubSeq(words, e + 1, 8)
    <2>1. e \in 2..7 /\ m \in 1..6 /\ m \in 1..8 /\ e + m = 8
      BY <1>0, <1>9
    <2>2. /\ e + 1 \in 1..8 /\ 8 \in e + 1..8 /\ 8 - (e + 1) + 1 = m
          /\ \A i \in 1..m : (e + 1) + i - 1 = e + i
      BY <2>1
    <2>3. OfText(ws, T) /\ Len(ws) = m /\ \A i \in 1..m : ws[i] = words[e + i]
      <3> DEFINE p == e + 1
      <3> HIDE DEF m, p
      <3>0. p \in 1..8 /\ 8 \in p..8
        BY <2>2 DEF p
      <3>1. /\ OfText(SubSeq(words, p, 8), T) /\ Len(SubSeq(words, p, 8)) = 8 - p + 1
            /\ \A i \in 1..8 - p + 1 : SubSeq(words, p, 8)[i] = words[p + i - 1]
        BY <3>0, SubWords
      <3>2. /\ OfText(ws, T) /\ Len(ws) = 8 - (e + 1) + 1
            /\ \A i \in 1..8 - (e + 1) + 1 : ws[i] = words[(e + 1) + i - 1]
        BY <3>1, Zenon DEF p
      <3> HIDE DEF ws
      <3> QED BY <2>2, <3>2
    <2> HIDE DEF ws, m
    <2>4. PICK h : JoinedBy(h, ws) /\ Joined(ws) = h[Len(ws)]
      BY <2>1, <2>3, JoinedIs
    <2>5. after = h[m]
      BY <2>3, <2>4 DEF after, ws
    <2>6. OfText(h[m], T)
      <3>1. \A i \in 1..Len(ws) : OfText(h[i], T)
        BY <2>1, <2>3, <2>4, JoinedSeq
      <3> QED BY <2>1, <2>3, <3>1
    <2>7. Continues(f, e, ws, m)
      <3>0. WordsFrom(f, words, e)
        BY <1>1, TextAfter
      <3>1. \A n \in e + 1..8 : f[n] = Cat(f[n - 1], <<":", words[n]>>)
        BY <3>0 DEF WordsFrom
      <3>2. \A i \in 1..m : e + i \in e + 1..8
        BY <2>1
      <3>3. \A i \in 1..m : f[e + i] = Cat(f[e + i - 1], <<":", words[e + i]>>)
        BY <2>1, <3>1, <3>2
      <3> QED BY <2>3, <3>3 DEF Continues
    <2>8. f[8] = Cat(Cat(before, c), Cat(c, h[m]))
      <3> DEFINE bc == Cat(before, c)
      <3>1. OfText(bc, T) /\ f[e] = bc
        BY <1>5, <1>6
      <3> HIDE DEF bc
      <3>2. f[8] = Cat(bc, Cat(<<":">>, h[m]))
        <4>1. OfText(ws, T) /\ WordsAfter(ws, e, m)
          BY <2>1, <2>3 DEF WordsAfter
        <4> QED BY <2>4, <2>7, <3>1, <4>1, TextSuffix
      <3> QED BY <3>2 DEF bc, c
    <2>9. f[8] = Cat(Cat(Cat(before, c), c), h[m])
      <3> DEFINE u == h[m]
                 bc == Cat(before, c)
      <3>1. OfText(bc, T) /\ OfText(u, T) /\ f[8] = Cat(bc, Cat(c, u))
        BY <1>6, <2>6, <2>8
      <3> HIDE DEF u, bc
      <3>2. f[8] = Cat(Cat(bc, c), u)
        BY <1>3, <3>1, CatThree
      <3> QED BY <3>2 DEF u, bc
    <2>10. OfText(f[8], T)
      BY <1>7, <2>6, <2>9, CatSeq
    <2>11. Text(words, b) = f[8]
      BY <1>2, <1>9, <2>10, CatEmpty DEF end
    <2>12. Text(words, b) = Cat(Cat(before, <<":", ":">>), after)
      BY <1>6, <2>5, <2>9, <2>11
    <2> QED BY <2>12 DEF before, after
  <1> QED BY <1>8, <1>9

\* The text of an address without one.
LEMMA TextNone ==
  ASSUME NEW T, ":" \in T, NEW words, OfText(words, T), Len(words) = 8
  PROVE  Text(words, NoRun) = Joined(words)
  <1>1. \A n \in 0..7 : Part(words, NoRun, n) = IF n = 0 THEN <<words[1]>>
                                               ELSE <<":", words[n + 1]>>
    BY DEF Part, InRun, NoRun
  <1>2. \A k \in 1..8 : Part(words, NoRun, k - 1) = IF k = 1 THEN <<words[1]>>
                                                   ELSE <<":", words[k]>>
    <2> TAKE k \in 1..8
    <2>1. k - 1 \in 0..7 /\ (k - 1) + 1 = k /\ (k - 1 = 0 <=> k = 1)
      OBVIOUS
    <2> QED BY <1>1, <2>1
  <1>3. Parts(words, NoRun) = [k \in 1..8 |-> IF k = 1 THEN <<words[1]>> ELSE <<":", words[k]>>]
    BY <1>2 DEF Parts
  <1>4. Joined(words) = FlattenSeq(Parts(words, NoRun))
    BY <1>3 DEF Joined
  <1>5. NoRun.base = -1
    BY DEF NoRun
  <1>6. Text(words, NoRun) = Cat(Joined(words), << >>)
    BY <1>4, <1>5, Zenon DEF Text, Cat
  <1>7. OfText(Joined(words), T)
    <2>1. Len(words) \in 1..8
      OBVIOUS
    <2>2. PICK h : JoinedBy(h, words) /\ Joined(words) = h[Len(words)]
      BY <2>1, JoinedIs
    <2>3. \A i \in 1..Len(words) : OfText(h[i], T)
      BY <2>1, <2>2, JoinedSeq
    <2>4. Len(words) \in 1..Len(words)
      BY <2>1
    <2> QED BY <2>2, <2>3, <2>4
  <1> QED BY <1>6, <1>7, CatEmpty

\* The eight words of an IPv6 address.
Address6(words) == words \in Seq(Nat) /\ Len(words) = 8

\* inet_ntop6 writes an address, around the run it found, as RFC 5952 asks.
THEOREM TextIsCanonical ==
  ASSUME NEW words, Address6(words)
  PROVE  Text(words, BestRun(words)) = Canonical(words)
  <1> DEFINE T == Nat \cup {":"}
             b == BestRun(words)
             e == b.base + b.len
  <1>1. ":" \in T /\ \A i \in 1..8 : words[i] \in T
    <2>1. words \in Seq(Nat) /\ Len(words) = 8
      BY DEF Address6
    <2> HIDE DEF T
    <2>2. \A i \in 1..Len(words) : words[i] \in Nat
      BY <2>1, ElementOfSeq
    <2>3. \A i \in 1..8 : words[i] \in Nat
      BY <2>1, <2>2
    <2> QED BY <2>3, Zenon DEF T
  <1>2. OfText(words, T) /\ Len(words) = 8
    BY DEF OfText, Address6
  <1> HIDE DEF T
  <1>3. BestOf(words, b)
    BY BestRunIs
  <1> HIDE DEF b
  <1>4. CASE Runs(words) = {}
    <2>1. b = NoRun
      BY <1>3, <1>4 DEF BestOf
    <2>2. Text(words, NoRun) = Joined(words)
      BY <1>1, <1>2, TextNone
    <2>3. Canonical(words) = Joined(words)
      BY <1>4 DEF Canonical
    <2> QED BY <2>1, <2>2, <2>3 DEF b
  <1>5. CASE Runs(words) # {}
    <2> DEFINE Best(r) == \A q \in Runs(words) : r[2] > q[2] \/ (r[2] = q[2] /\ r[1] <= q[1])
               r == CHOOSE r \in Runs(words) : Best(r)
               p == <<b.base, b.len>>
    <2>1. /\ p \in Runs(words)
          /\ \A q \in Runs(words) : b.len > q[2] \/ (b.len = q[2] /\ b.base <= q[1])
      BY <1>3, <1>5 DEF BestOf
    <2>2. p[1] = b.base /\ p[2] = b.len
      OBVIOUS
    <2>3. Best(p)
      BY <2>1
    <2>4. \A q \in Runs(words) : /\ q \in (0..6) \X (2..8) /\ q = <<q[1], q[2]>>
                                 /\ q[1] \in 0..6 /\ q[2] \in 2..8 /\ q[1] + q[2] <= 8
      BY DEF Runs
    <2> HIDE DEF p
    <2>5. r \in Runs(words) /\ Best(r)
      <3> HIDE DEF Best
      <3> QED BY <2>1, <2>3
    <2>6. Canonical(words)
            = Cat(Cat(Joined(SubSeq(words, 1, r[1])), <<":", ":">>),
                  Joined(SubSeq(words, r[1] + r[2] + 1, 8)))
      BY <1>5, Zenon DEF Canonical, Cat
    <2> HIDE DEF r
    <2>7. r[1] = p[1] /\ r[2] = p[2]
      <3>1. r[2] > p[2] \/ (r[2] = p[2] /\ r[1] <= p[1])
        BY <2>1, <2>5
      <3>2. p[2] > r[2] \/ (p[2] = r[2] /\ p[1] <= r[1])
        BY <2>3, <2>5
      <3>3. /\ r[1] \in 0..6 /\ r[2] \in 2..8
            /\ p[1] \in 0..6 /\ p[2] \in 2..8
        BY <2>1, <2>4, <2>5
      <3> QED BY <3>1, <3>2, <3>3
    <2>8. p[1] \in 0..6 /\ p[2] \in 2..8 /\ p[1] + p[2] <= 8
      BY <2>1, <2>4
    <2>9. RunTo(b, e)
      BY <2>2, <2>8 DEF RunTo
    <2> HIDE DEF e
    <2>10. Text(words, b) = Cat(Cat(Joined(SubSeq(words, 1, b.base)), <<":", ":">>),
                                Joined(SubSeq(words, e + 1, 8)))
      BY <1>1, <2>9, TextRun
    <2>11. r[1] = b.base /\ r[1] + r[2] = e
      BY <2>2, <2>7 DEF e
    <2>12. Text(words, b) = Canonical(words)
      BY <2>6, <2>10, <2>11
    <2> QED BY <2>12 DEF b
  <1> QED BY <1>4, <1>5

\* inet_ntop6 gives the form of RFC 5952 for every address that has no IPv4
\* address in its text, and gives up on the others.
LEMMA InetNtop6Is ==
  ASSUME NEW words, Address6(words)
  PROVE  /\ ~Encapsulated(words) => InetNtop6(words).ok /\ InetNtop6(words).text = Canonical(words)
         /\ Encapsulated(words) => ~InetNtop6(words).ok
  <1> DEFINE b == BestRun(words)
  <1>1. BestOf(words, b)
    BY BestRunIs
  <1>2. InetNtop6(words)
          = IF b.base = 0 /\ (b.len = 6 \/ (b.len = 5 /\ words[6] = 65535))
            THEN [ok |-> FALSE] ELSE [ok |-> TRUE, text |-> Text(words, b)]
    BY DEF InetNtop6, Text, Parts, Part, InRun
  <1>3. Text(words, b) = Canonical(words)
    BY TextIsCanonical
  <1> HIDE DEF b
  <1>4. ASSUME ~Encapsulated(words)
        PROVE  ~(b.base = 0 /\ (b.len = 6 \/ (b.len = 5 /\ words[6] = 65535)))
    <2> SUFFICES ASSUME b.base = 0, b.len = 6 \/ (b.len = 5 /\ words[6] = 65535) PROVE FALSE
      OBVIOUS
    <2>1. b # NoRun
      BY DEF NoRun
    <2>2. /\ <<b.base, b.len>> \in Runs(words)
          /\ \A q \in Runs(words) : b.len > q[2] \/ (b.len = q[2] /\ b.base <= q[1])
      BY <1>1, <2>1 DEF BestOf
    <2>3. \A k \in 0 + 1..0 + b.len : words[k] = 0
      BY <2>2 DEF Runs
    <2>4. CASE b.len = 5 /\ words[6] = 65535
      <3>1. Zeros(words, 5)
        BY <2>3, <2>4 DEF Zeros
      <3> QED BY <1>4, <2>4, <3>1 DEF Encapsulated, V4Mapped
    <2>5. CASE b.len = 6
      <3>1. \A k \in 1..6 : words[k] = 0
        BY <2>3, <2>5
      <3>2. words[7] = 0
        BY <1>4, <3>1 DEF Encapsulated, Zeros
      <3>3. \A k \in 0 + 1..0 + 7 : words[k] = 0
        <4>1. \A k \in 0 + 1..0 + 7 : k \in 1..6 \/ k = 7
          OBVIOUS
        <4> QED BY <3>1, <3>2, <4>1
      <3>4. <<0, 7>> \in Runs(words)
        BY <3>3 DEF Runs
      <3> QED BY <2>2, <2>5, <3>4
    <2> QED BY <2>4, <2>5
  <1>5. ASSUME Encapsulated(words)
        PROVE  b.base = 0 /\ (b.len = 6 \/ (b.len = 5 /\ words[6] = 65535))
    <2>1. PICK n \in {5, 6} : /\ \A k \in 1..n : words[k] = 0
                              /\ words[n + 1] # 0
                              /\ n = 5 => words[6] = 65535
      <3>1. CASE V4Mapped(words)
        <4>1. (\A k \in 1..5 : words[k] = 0) /\ words[5 + 1] # 0 /\ words[6] = 65535
          BY <3>1 DEF V4Mapped, Zeros
        <4> QED BY <4>1
      <3>2. CASE Zeros(words, 6) /\ words[7] # 0
        <4>1. (\A k \in 1..6 : words[k] = 0) /\ words[6 + 1] # 0
          BY <3>2 DEF Zeros
        <4> QED BY <4>1
      <3> QED BY <1>5, <3>1, <3>2 DEF Encapsulated
    <2>2. <<0, n>> \in Runs(words)
      BY <2>1 DEF Runs
    <2>3. /\ <<b.base, b.len>> \in Runs(words)
          /\ \A q \in Runs(words) : b.len > q[2] \/ (b.len = q[2] /\ b.base <= q[1])
      BY <1>1, <2>2 DEF BestOf
    <2>4. /\ b.base \in 0..6 /\ b.len \in 2..8 /\ b.base + b.len <= 8
          /\ \A k \in b.base + 1..b.base + b.len : words[k] = 0
      BY <2>3 DEF Runs
    <2>5. b.len > n \/ (b.len = n /\ b.base <= 0)
      BY <2>2, <2>3
    <2>6. ~(n + 1 \in b.base + 1..b.base + b.len)
      BY <2>1, <2>4
    <2>7. b.base = 0 /\ b.len = n
      BY <2>1, <2>4, <2>5, <2>6
    <2> QED BY <2>1, <2>7
  <1>6. CASE Encapsulated(words)
    BY <1>2, <1>5, <1>6
  <1>7. CASE ~Encapsulated(words)
    BY <1>2, <1>3, <1>4, <1>7
  <1> QED BY <1>6, <1>7
=============================================================================
