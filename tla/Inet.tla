-------------------------------- MODULE Inet ---------------------------------
(***************************************************************************)
(* Addresses and their texts, src/lmap_inet.c.  An IPv6 address is its     *)
(* eight words, an IPv4 address its four bytes; a text is a sequence of    *)
(* the numbers and separators that are printed one after the other.        *)
(***************************************************************************)
EXTENDS Integers, Sequences, SequencesExt

\* ip_addr_init: the family and as many bytes as it has; a struct that was
\* never initialised has the type 0.
IpAddrInit(type, addr) == [type |-> type, addr |-> addr]
NoAddr == [type |-> "NONE"]

NoRun == [base |-> -1, len |-> 0]

\* Mutant: of two runs of the same length the later one is taken.
BetterLast(best, cur) ==
  IF cur.base # -1 /\ (best.base = -1 \/ cur.len >= best.len) THEN cur ELSE best

Better(best, cur) ==
  IF cur.base # -1 /\ (best.base = -1 \/ cur.len > best.len) THEN cur ELSE best

\* inet_ntop6: the run of zeros that is written as "::".  Scan[n] are best and
\* cur after the first n words.
BestRun(words) ==
  LET Scan[n \in 0..8] ==
        IF n = 0 THEN [best |-> NoRun, cur |-> NoRun]
        ELSE LET s == Scan[n - 1] IN
             IF words[n] # 0 THEN [best |-> Better(s.best, s.cur), cur |-> NoRun]
             ELSE IF s.cur.base = -1
             THEN [s EXCEPT !.cur = [base |-> n - 1, len |-> 1]]
             ELSE [s EXCEPT !.cur.len = @ + 1]
      best == Better(Scan[8].best, Scan[8].cur)
  IN  IF best.len < 2 THEN NoRun ELSE best

\* The text of four bytes.
InetNtop4(b) == <<b[1], ".", b[2], ".", b[3], ".", b[4]>>

\* inet_ntop6; for an encapsulated IPv4 address it takes the pointer that
\* inet_ntop4 returns for an error and gives up.
InetNtop6(words) ==
  LET best == BestRun(words)
      inRun(n) == best.base # -1 /\ n >= best.base /\ n < best.base + best.len
      part(n) == IF inRun(n) THEN (IF n = best.base THEN <<":">> ELSE << >>)
                 ELSE IF n = 0 THEN <<words[1]>>
                 ELSE <<":", words[n + 1]>>
      end == IF best.base # -1 /\ best.base + best.len = 8 THEN <<":">> ELSE << >>
  IN  IF best.base = 0 /\ (best.len = 6 \/ (best.len = 5 /\ words[6] = 65535))
      THEN [ok |-> FALSE]
      ELSE [ok |-> TRUE, text |-> FlattenSeq([n \in 1..8 |-> part(n - 1)]) \o end]

\* ip_addr_ntoa: what the caller's buffer holds afterwards.
IpAddrNtoa(sa, dst) ==
  CASE sa.type = "INET" -> InetNtop4(sa.addr)
    [] sa.type = "INET6" /\ InetNtop6(sa.addr).ok -> InetNtop6(sa.addr).text
    [] OTHER -> dst

\* The tests of <netinet/in.h> that inet_details6 uses.
Zeros(words, n) == \A k \in 1..n : words[k] = 0
Multicast(words) == words[1] \div 256 = 255
Scope(words) == words[1] % 16
LinkLocal(words) == words[1] \div 64 = 1018
SiteLocal(words) == words[1] \div 64 = 1019
V4Mapped(words) == Zeros(words, 5) /\ words[6] = 65535
V4Compat(words) == Zeros(words, 6) /\ (words[7] > 0 \/ words[8] > 1)

\* inet_details6: the last test that succeeds decides; the scope of a multicast
\* address is written over the word "multic".
InetDetails6(words) ==
  CASE V4Compat(words) -> "v4compat"
    [] V4Mapped(words) -> "v4mapped"
    [] SiteLocal(words) -> "siteloc"
    [] LinkLocal(words) -> "linkloc"
    [] Multicast(words) ->
         (CASE Scope(words) = 1 -> "nodeloc"
            [] Scope(words) = 2 -> "linkloc"
            [] Scope(words) = 5 -> "siteloc"
            [] Scope(words) = 8 -> "orgloc"
            [] Scope(words) = 14 -> "global"
            [] OTHER -> "")
    [] Zeros(words, 7) /\ words[8] = 1 -> "loopback"
    [] Zeros(words, 8) -> "unspec"
    [] OTHER -> ""

\* ip_addr_details: what the caller's buffer holds afterwards.
IpAddrDetails(sa, dst) ==
  CASE sa.type = "INET" -> ""
    [] sa.type = "INET6" -> InetDetails6(sa.addr)
    [] OTHER -> dst

-----------------------------------------------------------------------------
(* A reference for the texts: RFC 5952 *)

Joined(ws) ==
  FlattenSeq([k \in 1..Len(ws) |-> IF k = 1 THEN <<ws[1]>> ELSE <<":", ws[k]>>])

\* The runs of n zero words that follow the first k words.
Runs(words) ==
  {r \in (0..6) \X (2..8) :
     r[1] + r[2] <= 8 /\ \A k \in r[1] + 1..r[1] + r[2] : words[k] = 0}

Canonical(words) ==
  IF Runs(words) = {} THEN Joined(words)
  ELSE LET r == CHOOSE r \in Runs(words) :
                  \A q \in Runs(words) : r[2] > q[2] \/ (r[2] = q[2] /\ r[1] <= q[1])
       IN  Joined(SubSeq(words, 1, r[1])) \o <<":", ":">>
             \o Joined(SubSeq(words, r[1] + r[2] + 1, 8))

\* The addresses that have an IPv4 address in their text.
Encapsulated(words) == V4Mapped(words) \/ (Zeros(words, 6) /\ words[7] # 0)
==============================================================================
