------------------------------- MODULE Decode -------------------------------
(***************************************************************************)
(* The capture engine: capture_init picks the link decoder, pcap calls     *)
(* lmap_decode for every packet (src/lmap_decode.c), and the decoders      *)
(* (src/lmap_decoder_*.c) fill a bucket, count statistics, build the       *)
(* passive fingerprint and name the next decoder, until the packet is used *)
(* up; db_bucket_send (src/lmap_db.c) then shows and frees the bucket.     *)
(*                                                                         *)
(* A packet is a sequence of headers and a payload.  A decoder reads its   *)
(* header from the bytes at data: it gets the header that is really there  *)
(* when data stands at one of its kind that was captured whole, and any    *)
(* field values otherwise, since no decoder looks at buflen.  Addresses,   *)
(* macs, ports and the texts shown are abstracted away.                    *)
(***************************************************************************)
EXTENDS Integers, Sequences, FiniteSets, SequencesExt

CONSTANTS
  Dlts,        \* the datalink types that pcap may report
  Raw,         \* the option --raw
  Nets,        \* the ethernet types that occur
  Ihls, Offs,  \* the values of ip->ihl and tcp->off that occur
  PayLens,     \* the values of ip6->payload_len that occur, in network order
  ArpLens,     \* the values of ar_hln + ar_pln that occur
  OptLens,     \* the length bytes of TCP options that occur
  Payloads,    \* how many bytes may follow the last header
  Cuts,        \* how many bytes at the end may be missing from a capture
  MallocFails, \* can calloc return NULL?
  MaxPackets,  \* how many packets pcap delivers
  NULL         \* no decoder, no fingerprint

\* The values of fields of 4, 8 and 16 bits.
Nibble == 0..15
Byte == 0..255
Word == 0..65535

ASSUME DecodeAssumption ==
  /\ Ihls \subseteq Nibble /\ 5 \in Ihls
  /\ Offs \subseteq Nibble /\ 5 \in Offs
  /\ PayLens \subseteq Word
  /\ ArpLens \subseteq Nat
  /\ OptLens \subseteq Byte
  /\ Payloads \subseteq Nat /\ Cuts \subseteq Nat
  /\ MallocFails \in BOOLEAN /\ Raw \in BOOLEAN
  /\ MaxPackets \in Nat

-----------------------------------------------------------------------------
(* Headers: next is the field that tells what follows *)

EthHeader  == [kind : {"eth"}, next : Nets]
WifiHeader == [kind : {"wifi"}, next : Nets, type : {"DATA", "BACON", "OTHER"}]
IpHeader   == [kind : {"ip"}, next : {"TCP", "UDP", "ICMP", "NONE"}, ihl : Ihls]
Ip6Header  == [kind : {"ip6"}, next : {"TCP", "UDP", "ICMP6", "NONE"}, len : PayLens]
ArpHeader  == [kind : {"arp"}, next : {"NONE"}, lens : ArpLens]
TcpHeader  == [kind : {"tcp"}, next : {"DHCPD", "DHCPC", "NONE"}, off : Offs, syn : BOOLEAN]
UdpHeader  == [kind : {"udp"}, next : {"DHCPD", "DHCPC", "NONE"}]
IcmpHeader == [kind : {"icmp", "icmp6"}, next : {"NONE"}]
Header ==
  EthHeader \cup WifiHeader \cup IpHeader \cup Ip6Header \cup ArpHeader
    \cup TcpHeader \cup UdpHeader \cup IcmpHeader

\* The bytes that a header takes on the wire.
Size(h) ==
  CASE h.kind = "eth"  -> 14
    [] h.kind = "wifi" -> IF h.type = "DATA" THEN 24 + 8 ELSE 24
    [] h.kind = "ip"   -> 4 * h.ihl
    [] h.kind = "ip6"  -> 40
    [] h.kind = "arp"  -> 8 + 2 * h.lens
    [] h.kind = "tcp"  -> 4 * h.off
    [] OTHER           -> 8

\* The type number that announces a header, and the layer it belongs to.
TypeOf ==
  [eth |-> "EN10MB", wifi |-> "IEEE802_11", ip |-> "IP", ip6 |-> "IP6", arp |-> "ARP",
   tcp |-> "TCP", udp |-> "UDP", icmp |-> "ICMP", icmp6 |-> "ICMP6"]

\* The bytes before the i-th header, of at most three.
Start(hs, i) ==
  LET Before(j) == IF j < i THEN Size(hs[j]) ELSE 0
  IN  Before(1) + Before(2) + Before(3)

\* The decoders that the headers and the payload of a whole packet call for.
Layers(p) ==
  [i \in 1..Len(p.hs) |-> p.hs[i].kind]
    \o (IF p.payload > 0 /\ Last(p.hs).next = "DHCPD" THEN <<"dhcpd">>
        ELSE IF p.payload > 0 /\ Last(p.hs).next = "DHCPC" THEN <<"dhcpc">>
        ELSE << >>)

Full(p) == Start(p.hs, Len(p.hs) + 1) + p.payload

\* Headers as the protocols define them: every header announces the one that
\* follows, the lengths are right, and nothing else is announced that the
\* decoders know.
WellFormed(p) ==
  /\ \A i \in 1..Len(p.hs) - 1 : p.hs[i].next = TypeOf[p.hs[i + 1].kind]
  /\ Last(p.hs).kind \in {"eth", "wifi", "ip", "ip6"} => Last(p.hs).next = "NONE"
  /\ \A i \in 1..Len(p.hs) :
       LET h == p.hs[i] IN
       /\ h.kind = "ip" => h.ihl >= 5
       /\ h.kind = "tcp" => h.off >= 5
       /\ h.kind = "ip6" => h.len = Full(p) - Start(p.hs, i + 1)
       /\ h.kind = "wifi" /\ h.type # "DATA" => Len(p.hs) = 1

LinkHeader == EthHeader \cup WifiHeader
NetHeader == IpHeader \cup Ip6Header \cup ArpHeader
ProtoHeader == TcpHeader \cup UdpHeader \cup IcmpHeader

Packet ==
  {p \in [hs : {<<a>> : a \in LinkHeader}
               \cup {<<a, b>> : a \in LinkHeader, b \in NetHeader}
               \cup {<<a, b, c>> : a \in LinkHeader, b \in NetHeader, c \in ProtoHeader},
          payload : Payloads, cut : Cuts] :
     WellFormed(p) /\ p.cut <= Full(p)}

-----------------------------------------------------------------------------
(* The constructors, which run before main: add_decoder and register_stat *)

Entry(l, t, d) == [level |-> l, type |-> t, decoder |-> d]

EthInit   == [add |-> {Entry(2, "EN10MB", "eth")}, stat |-> "TOTAL"]
WifiInit  == [add |-> {Entry(2, "IEEE802_11", "wifi")}, stat |-> "TOTAL"]
IpInit    == [add |-> {Entry(3, "IP", "ip")}, stat |-> "IP"]
Ip6Init   == [add |-> {Entry(3, "IP6", "ip6")}, stat |-> "IP"]
ArpInit   == [add |-> {Entry(3, "ARP", "arp")}, stat |-> "ARP"]
TcpInit   == [add |-> {Entry(4, "TCP", "tcp")}, stat |-> "TCP"]
UdpInit   == [add |-> {Entry(4, "UDP", "udp")}, stat |-> "UDP"]
IcmpInit  == [add |-> {Entry(4, "ICMP", "icmp")}, stat |-> "ICMP"]
Icmp6Init == [add |-> {Entry(4, "ICMP6", "icmp6")}, stat |-> "ICMP"]
DhcpInit  ==
  [add |-> {Entry(5, "DHCPD", "dhcpd"), Entry(5, "DHCPC", "dhcpc")}, stat |-> "DHCP"]

Constructors ==
  {EthInit, WifiInit, IpInit, Ip6Init, ArpInit, TcpInit, UdpInit, IcmpInit, Icmp6Init, DhcpInit}

\* add_decoder: no two entries have one key, so their order does not matter.
DecodersTable == UNION {c.add : c \in Constructors}

Decoders == {e.decoder : e \in DecodersTable}

GetDecoder(level, type) ==
  LET found == {e \in DecodersTable : e.level = level /\ e.type = type}
  IN  IF found = {} THEN NULL ELSE (CHOOSE e \in found : TRUE).decoder

\* register_stat: two decoders that register one name share its counter.
StatNames == {c.stat : c \in Constructors}

VARIABLES
  pc,      \* where the capture engine is
  link,    \* l2_decoder
  pkt,     \* the packet being decoded
  dec,     \* decoder
  data,    \* the offset of data in the packet
  left,    \* datalen
  len,     \* len, as the last decoder set it
  nextdec, \* next_decoder
  opt,     \* opt_start, counted from the TCP header
  option,  \* the option at opt_start
  optend,  \* opt_end
  finger,  \* b->L4->fingerprint: the parameters pushed and the length pushed
  stat,    \* the counters
  ran,     \* the decoders that ran on this packet
  seen     \* how many packets pcap delivered

vars == <<pc, link, pkt, dec, data, left, len, nextdec, opt, option, optend,
          finger, stat, ran, seen>>

Init ==
  /\ pc = "init"
  /\ link = NULL /\ pkt = NULL /\ dec = NULL /\ nextdec = NULL
  /\ data = 0 /\ left = 0 /\ len = 0
  /\ opt = 0 /\ optend = 0 /\ option = NULL
  /\ finger = NULL
  /\ stat = [s \in StatNames |-> 0]
  /\ ran = << >>
  /\ seen = 0

-----------------------------------------------------------------------------
(* capture_init and lmap_decode *)

\* set_L2_decoder(dlt); a datalink type without a decoder is fatal.
SetL2Decoder(dlt) ==
  /\ pc = "init"
  /\ LET found == {e \in DecodersTable :
                     e.level = 2 /\ (e.type = dlt \/ (Raw /\ e.type = "NULL"))}
     IN  \/ found = {} /\ pc' = "fatal" /\ link' = NULL
         \/ \E e \in found : link' = e.decoder /\ pc' = "idle"
  /\ UNCHANGED <<pkt, dec, data, left, len, nextdec, opt, option, optend, finger, stat, ran, seen>>

\* pcap_loop calls lmap_decode, which allocates the bucket.
LmapDecode(p) ==
  /\ pc = "idle"
  /\ seen < MaxPackets
  /\ p.hs[1].kind = link
  /\ pkt' = p
  /\ dec' = link
  /\ data' = 0
  /\ left' = Full(p) - p.cut
  /\ finger' = NULL
  /\ ran' = << >>
  /\ seen' = seen + 1
  /\ pc' = "decode"
  /\ UNCHANGED <<link, len, nextdec, opt, option, optend, stat>>

\* db_bucket_alloc fails: ERROR_MSG ends the program.
NoMemory ==
  /\ MallocFails
  /\ pc = "idle" /\ seen < MaxPackets
  /\ pc' = "fatal"
  /\ UNCHANGED <<link, pkt, dec, data, left, len, nextdec, opt, option, optend, finger, stat, ran, seen>>

\* The captured file ends, and pcap_loop returns.
EndOfFile ==
  /\ pc = "idle"
  /\ pc' = "end"
  /\ UNCHANGED <<link, pkt, dec, data, left, len, nextdec, opt, option, optend, finger, stat, ran, seen>>

\* Mutant: the decoded bytes are skipped without looking what is left.
AdvanceAlways ==
  /\ pc = "advance"
  /\ left' = left - len
  /\ data' = data + len
  /\ dec' = nextdec
  /\ pc' = IF nextdec = NULL THEN "send" ELSE "decode"
  /\ UNCHANGED <<link, pkt, len, nextdec, opt, option, optend, finger, stat, ran, seen>>

\* The rest of the loop body, after the decoder returned.
Advance ==
  /\ pc = "advance"
  /\ left' = left - len
  /\ IF left' > 0
     THEN /\ data' = data + len
          /\ dec' = nextdec
          /\ pc' = IF nextdec = NULL THEN "send" ELSE "decode"
     ELSE /\ pc' = "send"
          /\ UNCHANGED <<data, dec>>
  /\ UNCHANGED <<link, pkt, len, nextdec, opt, option, optend, finger, stat, ran, seen>>

\* db_bucket_send frees what the bucket holds (all but L5), db_bucket_free the
\* bucket; lmap_decode returns, and its locals are gone.
DbBucketSend ==
  /\ pc = "send"
  /\ finger' = NULL /\ pkt' = NULL /\ dec' = NULL /\ nextdec' = NULL
  /\ data' = 0 /\ left' = 0 /\ len' = 0 /\ opt' = 0 /\ optend' = 0 /\ option' = NULL
  /\ ran' = << >>
  /\ pc' = "idle"
  /\ UNCHANGED <<link, stat, seen>>

\* The capture thread is cancelled, at lmap_thread_testcancel or anywhere.
Cancel ==
  /\ pc \in {"idle", "decode", "options", "advance", "send"}
  /\ pc' = "end"
  /\ UNCHANGED <<link, pkt, dec, data, left, len, nextdec, opt, option, optend, finger, stat, ran, seen>>

-----------------------------------------------------------------------------
(* The decoders *)

\* The headers that a decoder may read at data from the candidates hs.
Read(hs) ==
  LET there == {i \in 1..Len(pkt.hs) :
                  /\ Start(pkt.hs, i) = data
                  /\ data + Size(pkt.hs[i]) <= Full(pkt) - pkt.cut
                  /\ pkt.hs[i] \in hs}
  IN  IF there = {} THEN hs ELSE {pkt.hs[i] : i \in there}

UpdateStat(name) == stat' = [stat EXCEPT ![name] = @ + 1]

\* A decoder runs, decodes n bytes, names the next decoder and goes to l.
DecoderTo(d, n, nxt, l) ==
  /\ pc = "decode" /\ dec = d
  /\ len' = n
  /\ nextdec' = nxt
  /\ ran' = Append(ran, d)
  /\ pc' = l
  /\ UNCHANGED <<link, pkt, dec, data, left, seen>>

Decoder(d, n, nxt) == DecoderTo(d, n, nxt, "advance")

DecodeEth ==
  /\ pc = "decode" /\ dec = "eth"
  /\ \E h \in Read(EthHeader) : Decoder("eth", 14, GetDecoder(3, h.next))
  /\ UpdateStat("TOTAL")
  /\ UNCHANGED <<opt, option, optend, finger>>

\* Only "data" frames are decoded further; a beacon is skipped as a whole.
DecodeWifi ==
  /\ pc = "decode" /\ dec = "wifi"
  /\ \E h \in Read(WifiHeader) :
       \/ h.type = "DATA" /\ Decoder("wifi", 24 + 8, GetDecoder(3, h.next))
       \/ h.type = "BACON" /\ Decoder("wifi", left, NULL)
       \/ h.type = "OTHER" /\ Decoder("wifi", 24, NULL)
  /\ UpdateStat("TOTAL")
  /\ UNCHANGED <<opt, option, optend, finger>>

\* A fingerprint: the parameters pushed so far, and the length LT.
Parameter ==
  {"TTL", "DF", "LT", "WINDOW", "TCPFLAG", "EOL", "NOP", "SACK", "MSS", "WS", "TIMESTAMP"}

Finger == [set : SUBSET Parameter, lt : Nat]

ASSUME NullAssumption == NULL \notin Decoders \cup Finger

\* fingerprint_push of the parameters ps, with lt more bytes of length.
Push(ps, lt) == [set |-> finger.set \cup ps, lt |-> finger.lt + lt]

\* Mutant: the options are not skipped.
DecodeIpFixed ==
  /\ pc = "decode" /\ dec = "ip"
  /\ \E h \in Read(IpHeader) :
       /\ Decoder("ip", 20, GetDecoder(4, h.next))
       /\ finger' = IF h.next = "TCP"
                    THEN [set |-> {"TTL", "DF", "LT"}, lt |-> 4 * h.ihl]
                    ELSE finger
  /\ UpdateStat("IP")
  /\ UNCHANGED <<opt, option, optend>>

\* Mutant: a packet with options gets no fingerprint.
DecodeIpNoFinger ==
  /\ pc = "decode" /\ dec = "ip"
  /\ \E h \in Read(IpHeader) :
       /\ Decoder("ip", 4 * h.ihl, GetDecoder(4, h.next))
       /\ finger' = IF h.next = "TCP" /\ h.ihl = 5
                    THEN [set |-> {"TTL", "DF", "LT"}, lt |-> 4 * h.ihl]
                    ELSE finger
  /\ UpdateStat("IP")
  /\ UNCHANGED <<opt, option, optend>>

\* A TCP packet gets a new fingerprint with the parameters of the IP header.
DecodeIp ==
  /\ pc = "decode" /\ dec = "ip"
  /\ \E h \in Read(IpHeader) :
       /\ Decoder("ip", 4 * h.ihl, GetDecoder(4, h.next))
       /\ finger' = IF h.next = "TCP"
                    THEN [set |-> {"TTL", "DF", "LT"}, lt |-> 4 * h.ihl]
                    ELSE finger
  /\ UpdateStat("IP")
  /\ UNCHANGED <<opt, option, optend>>

\* fingerprint_alloc fails: ERROR_MSG ends the program.
DecodeIpNoMemory ==
  /\ MallocFails
  /\ pc = "decode" /\ dec = "ip"
  /\ \E h \in Read(IpHeader) :
       /\ h.next = "TCP"
       /\ DecoderTo("ip", 4 * h.ihl, nextdec, "fatal")
  /\ UpdateStat("IP")
  /\ UNCHANGED <<opt, option, optend, finger>>

\* A 16 bit value in network order, as a little-endian machine reads it.
Swap(n) == (n % 256) * 256 + n \div 256

\* Mutant: IPv6 packets are not counted.
DecodeIp6NoStat ==
  /\ pc = "decode" /\ dec = "ip6"
  /\ \E h \in Read(Ip6Header) :
       Decoder("ip6", IF h.len = 0 THEN 0 ELSE Swap(h.len) + 40, GetDecoder(4, h.next))
  /\ UNCHANGED <<opt, option, optend, finger, stat>>

\* payload_len is used as it is on the wire; a jumbogram decodes nothing.
DecodeIp6 ==
  /\ pc = "decode" /\ dec = "ip6"
  /\ \E h \in Read(Ip6Header) :
       Decoder("ip6", IF h.len = 0 THEN 0 ELSE Swap(h.len) + 40, GetDecoder(4, h.next))
  /\ UpdateStat("IP")
  /\ UNCHANGED <<opt, option, optend, finger>>

DecodeArp ==
  /\ pc = "decode" /\ dec = "arp"
  /\ \E h \in Read(ArpHeader) : Decoder("arp", 8 + 2 * h.lens, NULL)
  /\ UpdateStat("ARP")
  /\ UNCHANGED <<opt, option, optend, finger>>

\* The options, the parameter that each pushes and the bytes it takes.
EOL == [push |-> {"EOL"}, skip |-> 0]

Option ==
  {EOL, [push |-> {"NOP"}, skip |-> 1], [push |-> {"SACK"}, skip |-> 2],
   [push |-> {"MSS"}, skip |-> 4], [push |-> {"WS"}, skip |-> 3]}
    \cup {[push |-> {"TIMESTAMP"}, skip |-> n] : n \in OptLens}
    \cup {[push |-> {}, skip |-> n] : n \in OptLens}

\* Mutant: the fingerprint of a segment without SYN is not destroyed.
DecodeTcpKeeps ==
  /\ pc = "decode" /\ dec = "tcp"
  /\ \E h \in Read(TcpHeader) :
       \/ /\ h.syn /\ finger # NULL
          /\ DecoderTo("tcp", 4 * h.off, GetDecoder(5, h.next), "options")
          /\ opt' = 20
          /\ optend' = 4 * h.off
          /\ option' \in Option
          /\ finger' = Push({"WINDOW", "TCPFLAG", "LT"}, 4 * h.off)
       \/ /\ ~h.syn
          /\ Decoder("tcp", 4 * h.off, GetDecoder(5, h.next))
          /\ UNCHANGED <<opt, option, optend, finger>>
  /\ UpdateStat("TCP")

\* A SYN completes the fingerprint, starting with the options loop; any other
\* segment destroys it.
DecodeTcp ==
  /\ pc = "decode" /\ dec = "tcp"
  /\ \E h \in Read(TcpHeader) :
       \/ /\ h.syn /\ finger # NULL
          /\ DecoderTo("tcp", 4 * h.off, GetDecoder(5, h.next), "options")
          /\ opt' = 20
          /\ optend' = 4 * h.off
          /\ option' \in Option
          /\ finger' = Push({"WINDOW", "TCPFLAG", "LT"}, 4 * h.off)
       \/ /\ ~h.syn
          /\ Decoder("tcp", 4 * h.off, GetDecoder(5, h.next))
          /\ finger' = NULL
          /\ UNCHANGED <<opt, option, optend>>
  /\ UpdateStat("TCP")

\* fingerprint_push: "finger_push used on NULL string !!" ends the program.
DecodeTcpNoFinger ==
  /\ pc = "decode" /\ dec = "tcp"
  /\ finger = NULL
  /\ \E h \in Read(TcpHeader) :
       h.syn /\ DecoderTo("tcp", 4 * h.off, nextdec, "fatal")
  /\ UpdateStat("TCP")
  /\ UNCHANGED <<opt, option, optend, finger>>

\* Mutant: an option is pushed and not skipped.
TcpOptionStays ==
  /\ pc = "options" /\ opt < optend /\ option # EOL
  /\ finger' = Push(option.push, 0)
  /\ UNCHANGED <<pc, link, pkt, dec, data, left, len, nextdec, opt, option, optend, stat, ran, seen>>

\* One turn of the options loop; without a step forward it reads the same option.
TcpOption ==
  /\ pc = "options" /\ opt < optend /\ option # EOL
  /\ opt' = opt + option.skip
  /\ option' \in IF option.skip = 0 THEN {option} ELSE Option
  /\ finger' = Push(option.push, 0)
  /\ UNCHANGED <<pc, link, pkt, dec, data, left, len, nextdec, optend, stat, ran, seen>>

\* TCPOPT_EOL
TcpOptionEnd ==
  /\ pc = "options" /\ opt < optend /\ option = EOL
  /\ opt' = optend
  /\ UNCHANGED <<pc, link, pkt, dec, data, left, len, nextdec, option, optend, finger, stat, ran, seen>>

TcpReturn ==
  /\ pc = "options" /\ opt >= optend
  /\ pc' = "advance"
  /\ UNCHANGED <<link, pkt, dec, data, left, len, nextdec, opt, option, optend, finger, stat, ran, seen>>

DecodeUdp ==
  /\ pc = "decode" /\ dec = "udp"
  /\ \E h \in Read(UdpHeader) : Decoder("udp", 8, GetDecoder(5, h.next))
  /\ UpdateStat("UDP")
  /\ UNCHANGED <<opt, option, optend, finger>>

DecodeIcmp ==
  /\ Decoder("icmp", 8, NULL)
  /\ UpdateStat("ICMP")
  /\ UNCHANGED <<opt, option, optend, finger>>

DecodeIcmp6 ==
  /\ Decoder("icmp6", 8, NULL)
  /\ UpdateStat("ICMP")
  /\ UNCHANGED <<opt, option, optend, finger>>

\* The DHCP decoders decode nothing and count nothing.
DecodeDhcp ==
  /\ Decoder("dhcpd", 0, NULL) \/ Decoder("dhcpc", 0, NULL)
  /\ UNCHANGED <<opt, option, optend, finger, stat>>

-----------------------------------------------------------------------------
Over == pc \in {"end", "fatal"} /\ UNCHANGED vars

\* The steps that take a packet through the decoders.
Step ==
  \/ DecodeEth \/ DecodeWifi \/ DecodeIp \/ DecodeIp6 \/ DecodeArp
  \/ DecodeTcp \/ DecodeTcpNoFinger \/ TcpOption \/ TcpOptionEnd \/ TcpReturn
  \/ DecodeUdp \/ DecodeIcmp \/ DecodeIcmp6 \/ DecodeDhcp
  \/ Advance \/ DbBucketSend

Next ==
  \/ \E dlt \in Dlts : SetL2Decoder(dlt)
  \/ \E p \in Packet : LmapDecode(p)
  \/ Step
  \/ NoMemory \/ DecodeIpNoMemory \/ EndOfFile \/ Cancel \/ Over

Spec == Init /\ [][Next]_vars

\* The capture thread is scheduled while it has a packet.
FairSpec == Spec /\ WF_vars(Step)

-----------------------------------------------------------------------------
(* Properties *)

\* The type invariant of the capture engine.
TypeOK ==
  /\ pc \in {"init", "idle", "decode", "options", "advance", "send", "end", "fatal"}
  /\ link \in {"eth", "wifi", NULL}
  /\ pkt = NULL \/ (DOMAIN pkt = {"hs", "payload", "cut"} /\ pkt.hs \in Seq(Header))
  /\ {dec, nextdec} \subseteq Decoders \cup {NULL}
  /\ {data, opt, optend, len, seen} \subseteq Nat /\ left \in Int
  /\ option \in Option \cup {NULL}
  /\ finger \in Finger \cup {NULL}
  /\ stat \in [StatNames -> Nat]
  /\ ran \in Seq(Decoders)

\* The loop of lmap_decode calls a decoder only on bytes that were captured:
\* data and datalen always describe the rest of the packet, at most four decoders
\* run, and only the link decoder is called without looking what is left, on a
\* capture of no bytes.
DataInside ==
  pc = "decode" =>
    /\ left > 0 \/ (left = 0 /\ ran = << >>)
    /\ data + left = Full(pkt) - pkt.cut
    /\ Len(ran) < 4

\* When a complete packet has been decoded, exactly the decoders of its headers
\* ran, in the order of the headers: "it will return the next decoder", and
\* "the len of decoded data is also returned".
LayersDecoded ==
  pc = "send" /\ pkt.cut = 0 => ran = Layers(pkt)

\* The same for every packet that is not IPv6, with IP options, without payload
\* and with an ARP or a DHCP message.
OldLayersDecoded ==
  pc = "send" /\ (\A i \in 1..Len(pkt.hs) : pkt.hs[i].kind # "ip6") => LayersDecoded

\* The counters agree with the nesting of the protocols, whatever the decoders
\* read: every packet that was decoded is in TOTAL, at most one network
\* decoder runs on it, and a transport decoder runs only under IP.
StatsNested ==
  /\ stat["IP"] + stat["ARP"] <= stat["TOTAL"]
  /\ stat["TCP"] + stat["UDP"] + stat["ICMP"] <= stat["IP"]
  /\ pc \in {"idle", "send"} => stat["TOTAL"] = seen

\* The fingerprint that db_bucket_send shows: only under IPv4; completed by the
\* SYN if and only if decode_tcp ran, so that it is unfinished when the packet
\* ended before; for a packet captured whole it is complete, and its length is
\* that of both headers; always it fits the two digits it is kept in.
FingerprintShown ==
  pc = "send" /\ finger # NULL =>
    /\ "ip" \in Range(ran)
    /\ ("tcp" \in Range(ran)) <=> ("WINDOW" \in finger.set)
    /\ finger.lt < 256
    /\ pkt.cut = 0 /\ Len(pkt.hs) = 3 /\ pkt.hs[2].kind = "ip" =>
         /\ pkt.hs[3].kind = "tcp" /\ "WINDOW" \in finger.set
         /\ finger.lt = 4 * (pkt.hs[2].ihl + pkt.hs[3].off)

\* decode_tcp pushes on a fingerprint that does not exist, which ends the
\* program, only for a segment that decode_ip6 handed on: decode_ip always
\* allocates one.
FatalOnlyIp6 ==
  pc = "fatal" /\ ran # << >> /\ Last(ran) = "tcp" => "ip6" \in Range(ran)

\* Every packet that pcap delivers is sent to the database, unless the thread
\* is cancelled or the program ends: the decoder loop and the options loop
\* end, provided that no TCP option has the length 0.
EventuallySent == (pc = "decode") ~> (pc \in {"idle", "end", "fatal"})
=============================================================================
