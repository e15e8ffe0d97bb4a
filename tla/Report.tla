-------------------------------- MODULE Report --------------------------------
(***************************************************************************)
(* What lmap reports of a packet.  main loads the two data files into      *)
(* their tables (manuf_init, fingerprint_init) and atexit empties them;    *)
(* in between decode_ip and decode_tcp build the fingerprint of a SYN, and *)
(* db_bucket_send writes the addresses and the fingerprint as text.        *)
(*                                                                         *)
(* The control of the decoders is the subject of Decode; here a packet is  *)
(* the fields that reach the texts.  A line of a data file has a kind:     *)
(* what sscanf or strchr make of it.                                       *)
(***************************************************************************)
EXTENDS Integers, Sequences, Inet, Tables

CONSTANTS
  MacFiles,    \* the contents of mac-fingerprints: sequences of lines
  FingerFiles, \* the contents of tcp-fingerprints
  Junk,        \* what the array finger may hold before it is written
  Packets      \* the packets that may arrive

\* The lines of the two files.
MacLines == UNION {{f[i] : i \in 1..Len(f)} : f \in MacFiles}
FingerLines == UNION {{f[i] : i \in 1..Len(f)} : f \in FingerFiles}

\* A line that fgets has read and strchr or sscanf looks at ends with its NUL.
ASSUME ReportAssumption ==
  /\ \A f \in MacFiles : f \in Seq(MacLines)
  /\ \A f \in FingerFiles : f \in Seq(FingerLines)
  /\ \A l \in FingerLines : l.text \in Seq(STRING) /\ \A i \in 1..Len(l.text) : l.text[i] # NUL

Uninit == "uninitialised"
NoFinger == << >>

VARIABLES
  pc,          \* where the program is
  manufs,      \* the lines of mac-fingerprints that fgets has not read yet
  fingers,     \* the lines of tcp-fingerprints that fgets has not read yet
  read,        \* the lines that were taken, of both files, the last one last
  array,       \* the local array finger of fingerprint_init
  manuf_head,
  finger_head,
  pkt,         \* the packet being decoded
  opts,        \* its TCP options that are not yet decoded
  finger,      \* BUCKET->L4->fingerprint
  shown        \* the texts of the addresses and of the fingerprint

vars == <<pc, manufs, fingers, read, array, manuf_head, finger_head, pkt, opts, finger, shown>>
tables == <<manufs, fingers, read, array, manuf_head, finger_head>>

Nothing == [l3 |-> "NONE"]
NothingShown == [src |-> Uninit, dst |-> Uninit, finger |-> NoFinger]

Init ==
  /\ pc = "manuf"
  /\ manufs \in MacFiles
  /\ fingers \in FingerFiles
  /\ read = [mac |-> << >>, finger |-> << >>]
  /\ array \in Junk
  /\ manuf_head = << >> /\ finger_head = << >>
  /\ pkt = Nothing /\ opts = << >> /\ finger = NoFinger
  /\ shown = NothingShown

-----------------------------------------------------------------------------
(* manuf_init and fingerprint_init *)

\* A line that sscanf cannot read is skipped.
ManufInit ==
  /\ pc = "manuf" /\ manufs # << >>
  /\ manufs' = Tail(manufs)
  /\ IF Head(manufs).kind # "entry" THEN UNCHANGED <<read, manuf_head>>
     ELSE /\ read' = [read EXCEPT !.mac = Append(@, Head(manufs))]
          /\ manuf_head' = ManufLoad(manuf_head, Head(manufs))
  /\ UNCHANGED <<pc, fingers, array, finger_head, pkt, opts, finger, shown>>

ManufEnd ==
  /\ pc = "manuf" /\ manufs = << >>
  /\ pc' = "fingerprint"
  /\ UNCHANGED <<tables, pkt, opts, finger, shown>>

\* A comment is cut off; a line of which nothing is left is skipped.  An empty
\* line still has its end of line, and is loaded.
FingerprintInit ==
  /\ pc = "fingerprint" /\ fingers # << >>
  /\ fingers' = Tail(fingers)
  /\ IF Head(fingers).text = << >> THEN UNCHANGED <<read, array, finger_head>>
     ELSE /\ read' = [read EXCEPT !.finger = Append(@, Head(fingers))]
          /\ array' = CopyFinger(array, Head(fingers).text)
          /\ finger_head' = FingerLoad(finger_head, array', Head(fingers))
  /\ UNCHANGED <<pc, manufs, manuf_head, pkt, opts, finger, shown>>

FingerprintEnd ==
  /\ pc = "fingerprint" /\ fingers = << >>
  /\ pc' = "capture"
  /\ UNCHANGED <<tables, pkt, opts, finger, shown>>

-----------------------------------------------------------------------------
(* The decoders *)

\* eth_addr_ntoa
EthAddrNtoa(mac) == <<"mac", mac>>

\* A packet that no network decoder took: the addresses stay as calloc left
\* them.
DecodeNone(p) ==
  /\ pc = "capture"
  /\ p.l3 = "NONE"
  /\ pkt' = p /\ opts' = << >> /\ finger' = NoFinger
  /\ pc' = "send"
  /\ UNCHANGED <<tables, shown>>

\* decode_ip; if a TCP header is announced, the fingerprint is begun.
DecodeIp(p) ==
  /\ pc = "capture"
  /\ p.l3 = "INET"
  /\ pkt' = p
  /\ opts' = << >>
  /\ finger' =
       IF p.tcp = "NO" THEN NoFinger
       ELSE FingerprintPush(
              FingerprintPush(
                FingerprintPush(FingerprintAlloc, "TTL", p.ttl),
                "DF", IF p.df THEN 16384 ELSE 0),
              "LT", 4 * p.ihl)
  /\ pc' = IF p.tcp \in {"NO", "CUT"} THEN "send" ELSE "tcp"
  /\ UNCHANGED <<tables, shown>>

\* decode_ip6 takes no fingerprint.
DecodeIp6(p) ==
  /\ pc = "capture"
  /\ p.l3 = "INET6"
  /\ pkt' = p /\ opts' = << >> /\ finger' = NoFinger
  /\ pc' = "send"
  /\ UNCHANGED <<tables, shown>>

\* The words of a TCP header with these options.
OptBytes ==
  [NOP |-> 1, SACK |-> 2, MSS |-> 4, WS |-> 3, TIMESTAMP |-> 10, UNKNOWN |-> 2]

TcpOff(options) ==
  LET B[n \in 0..Len(options)] == IF n = 0 THEN 0 ELSE B[n - 1] + OptBytes[options[n].param]
  IN  5 + ((B[Len(options)] + 3) \div 4)

\* The headers give their lengths in four bits and the TTL in eight; the options
\* that are only noted are pushed as 1.  An IPv6 address has eight words.
Options == [param : {"NOP", "SACK", "MSS", "WS", "TIMESTAMP", "UNKNOWN"}, value : Nat]

ASSUME PacketAssumption ==
  \A p \in Packets :
    /\ p.l3 = "INET" =>
         /\ p.ttl \in 0..255 /\ p.df \in BOOLEAN /\ p.ihl \in 0..15
         /\ p.opts \in Seq(Options) /\ TcpOff(p.opts) \in 0..15
         /\ \A i \in 1..Len(p.opts) :
              p.opts[i].param \in {"NOP", "SACK", "TIMESTAMP"} => p.opts[i].value = 1
    /\ p.l3 = "INET6" =>
         \A a \in {p.src, p.dst} : a \in Seq(Nat) /\ Len(a) = 8

\* decode_tcp: without a SYN the fingerprint is destroyed.
DecodeTcp ==
  /\ pc = "tcp"
  /\ opts' = IF pkt.tcp = "OTHER" THEN << >> ELSE pkt.opts
  /\ finger' =
       IF pkt.tcp = "OTHER" THEN NoFinger
       ELSE FingerprintPush(
              FingerprintPush(
                FingerprintPush(finger, "WINDOW", pkt.win),
                "TCPFLAG", IF pkt.tcp = "SYNACK" THEN 1 ELSE 0),
              "LT", 4 * TcpOff(pkt.opts))
  /\ pc' = IF pkt.tcp = "OTHER" THEN "send" ELSE "options"
  /\ UNCHANGED <<tables, pkt, shown>>

\* An option that the fingerprint does not know is stepped over.
TcpOption ==
  /\ pc = "options" /\ opts # << >>
  /\ finger' = IF Head(opts).param = "UNKNOWN" THEN finger
               ELSE FingerprintPush(finger, Head(opts).param, Head(opts).value)
  /\ opts' = Tail(opts)
  /\ UNCHANGED <<pc, tables, pkt, shown>>

TcpReturn ==
  /\ pc = "options" /\ opts = << >>
  /\ pc' = "send"
  /\ UNCHANGED <<tables, pkt, opts, finger, shown>>

-----------------------------------------------------------------------------
(* db_bucket_send and the end *)

IpSrc(p) == IF p.l3 = "NONE" THEN NoAddr ELSE IpAddrInit(p.l3, p.src)
IpDst(p) == IF p.l3 = "NONE" THEN NoAddr ELSE IpAddrInit(p.l3, p.dst)

\* The local arrays tmp and details serve one address after the other.
DbBucketSend ==
  /\ pc = "send"
  /\ LET mac  == EthAddrNtoa("mac_dst")
         tmp  == IpAddrNtoa(IpSrc(pkt), mac)
         more == IpAddrDetails(IpSrc(pkt), Uninit)
     IN  shown' = [src    |-> <<tmp, more>>,
                   dst    |-> <<IpAddrNtoa(IpDst(pkt), tmp), IpAddrDetails(IpDst(pkt), more)>>,
                   finger |-> finger]
  /\ pc' = "sent"
  /\ UNCHANGED <<tables, pkt, opts, finger>>

\* The next packet gets a bucket of its own.
NextPacket ==
  /\ pc = "sent"
  /\ pkt' = Nothing /\ opts' = << >> /\ finger' = NoFinger /\ shown' = NothingShown
  /\ pc' = "capture"
  /\ UNCHANGED tables

\* exit calls the handlers of atexit, the last one first.
FingerprintDiscard ==
  /\ pc = "capture"
  /\ finger_head' = << >>
  /\ pc' = "discard"
  /\ UNCHANGED <<manufs, fingers, read, array, manuf_head, pkt, opts, finger, shown>>

DiscardMacdb ==
  /\ pc = "discard"
  /\ manuf_head' = << >>
  /\ pc' = "end"
  /\ UNCHANGED <<manufs, fingers, read, array, finger_head, pkt, opts, finger, shown>>

Done ==
  /\ pc = "end"
  /\ UNCHANGED vars

Next ==
  \/ ManufInit \/ ManufEnd \/ FingerprintInit \/ FingerprintEnd
  \/ \E p \in Packets : DecodeNone(p) \/ DecodeIp(p) \/ DecodeIp6(p)
  \/ DecodeTcp \/ TcpOption \/ TcpReturn
  \/ DbBucketSend \/ NextPacket
  \/ FingerprintDiscard \/ DiscardMacdb \/ Done

Spec == Init /\ [][Next]_vars

-----------------------------------------------------------------------------
(* Properties *)

\* What the last of the lines says, if there is one.
LastOf(lines, Test(_), Value(_)) ==
  {Value(lines[i]) : i \in {i \in 1..Len(lines) :
                              Test(lines[i]) /\ \A k \in i + 1..Len(lines) : ~Test(lines[k])}}

\* While the files are loaded, between any two packets and until the tables are
\* emptied, manuf_search finds for every mac the vendor of the last line that
\* names it, and nothing if no line does, however many macs share the bucket;
\* fingerprint_search finds the last line whose 28 bytes it is asked for, as
\* fingerprint_init stored them.
TablesMatch ==
  /\ pc \in {"manuf", "fingerprint", "capture", "discard"} =>
       \A l \in MacLines :
         l.kind = "entry" =>
           ManufSearch(manuf_head, l.mac)
             = LastOf(read.mac, LAMBDA r : r.mac = l.mac, LAMBDA r : r.vendor)
  /\ pc \in {"fingerprint", "capture"} =>
       \A l \in FingerLines :
         Len(l.text) >= FINGER_LEN =>
           LET stored(r) == CopyFinger(array, r.text) IN
           FingerprintSearch(finger_head, stored(l))
             = LastOf(read.finger, LAMBDA r : stored(r) = stored(l), LAMBDA r : r)

\* The least power of two that is not less, as far as a byte can hold it.
Ceiling(ttl) ==
  IF ttl > 128 THEN 255 ELSE 2^(CHOOSE k \in 0..7 : 2^k >= ttl /\ \A i \in 0..k - 1 : 2^i < ttl)

\* The value of the last option of a kind, or what stands for its absence.
LastOption(p, param, absent) ==
  LET last == LastOf(p.opts, LAMBDA o : o.param = param, LAMBDA o : o.value)
  IN  IF last = {} THEN absent ELSE CHOOSE v \in {Hex(Upper, Len(absent), v) : v \in last} : TRUE

HasOption(p, param) == IF \E i \in 1..Len(p.opts) : p.opts[i].param = param THEN "1" ELSE "0"

\* The fingerprint shown for a SYN has the structure lmap_fingerprint.h gives,
\* whatever the order and the number of the options: the window, the last
\* segment size and window scale or _MSS and WS, the TTL rounded up to a power of
\* two (of a TTL that is not 0), one digit for SACK, NOP, DF and timestamp, A or
\* S, and the length of both headers, which two decoders push.  Any other packet
\* that is decoded whole shows none.
FingerprintFaithful ==
  pc = "sent" =>
    IF pkt.l3 # "INET" \/ pkt.tcp \in {"NO", "OTHER"} THEN shown.finger = NoFinger
    ELSE LET f == shown.finger IN
         pkt.tcp \in {"SYN", "SYNACK"} =>
           /\ Len(f) = FINGER_LEN
           /\ \A i \in {5, 10, 13, 16, 18, 20, 22, 24, 26} : f[i] = ":"
           /\ SubSeq(f, 1, 4) = Hex(Upper, 4, pkt.win)
           /\ SubSeq(f, 6, 9) = LastOption(pkt, "MSS", <<"_", "M", "S", "S">>)
           /\ pkt.ttl > 0 => SubSeq(f, 11, 12) = Hex(Upper, 2, Ceiling(pkt.ttl))
           /\ SubSeq(f, 14, 15) = LastOption(pkt, "WS", <<"W", "S">>)
           /\ f[17] = HasOption(pkt, "SACK")
           /\ f[19] = HasOption(pkt, "NOP")
           /\ f[21] = IF pkt.df THEN "1" ELSE "0"
           /\ f[23] = HasOption(pkt, "TIMESTAMP")
           /\ f[25] = IF pkt.tcp = "SYNACK" THEN "A" ELSE "S"
           /\ Strtoul(SubSeq(f, 27, 28)) = 4 * (pkt.ihl + TcpOff(pkt.opts))

\* For every packet with IP addresses, both addresses are shown in the form of
\* RFC 5952 with details of their own, though one buffer serves a mac and two
\* addresses.  Only an encapsulated IPv4 address, which inet_ntop6 gives up on,
\* is shown as what was in the buffer: the mac, or the source address.
AddressText ==
  pc = "sent" /\ pkt.l3 # "NONE" =>
    \A a \in {<<pkt.src, shown.src, EthAddrNtoa("mac_dst")>>,
              <<pkt.dst, shown.dst, shown.src[1]>>} :
      /\ pkt.l3 = "INET" => a[2] = <<InetNtop4(a[1]), "">>
      /\ pkt.l3 = "INET6" =>
           a[2] = <<IF Encapsulated(a[1]) THEN a[3] ELSE Canonical(a[1]), InetDetails6(a[1])>>

\* fingerprint_search: "search in the database for a given fingerprint".  The
\* fingerprint that a line of the file gives is found once the file is loaded.
FingerprintFound ==
  pc = "capture" =>
    \A i \in 1..Len(read.finger) :
      Len(read.finger[i].text) >= FINGER_LEN =>
        FingerprintSearch(finger_head, SubSeq(read.finger[i].text, 1, FINGER_LEN)) # {}
==============================================================================
