---------------------------- MODULE DecodeProofs ----------------------------
(***************************************************************************)
(* Proofs about Decode, for all link types, header fields, packet lengths  *)
(* and numbers of packets.                                                 *)
(***************************************************************************)
EXTENDS Decode, TLAPS

\* The decoders of each layer; the n-th decoder of a packet is one of layer n.
AtLayer(d, n) ==
  \/ n = 1 /\ d \in {"eth", "wifi"}
  \/ n = 2 /\ d \in {"ip", "ip6", "arp"}
  \/ n = 3 /\ d \in {"tcp", "udp", "icmp", "icmp6"}
  \/ n = 4 /\ d \in {"dhcpd", "dhcpc"}

\* d may be the next decoder of the packet.
MayFollow(d) ==
  AtLayer(d, Len(ran) + 1) /\ (Len(ran) = 2 => ran[2] # "arp")

\* The decoders run layer by layer, and none above ARP.
ShapeInv ==
  /\ ran \in Seq(Decoders)
  /\ \A i \in 1..Len(ran) : AtLayer(ran[i], i)
  /\ Len(ran) > 2 => ran[2] # "arp"
  /\ pc = "decode" => MayFollow(dec)
  /\ pc \in {"options", "advance"} =>
       Len(ran) > 0 /\ dec = ran[Len(ran)] /\ (nextdec # NULL => MayFollow(nextdec))
  /\ pc = "options" => Len(ran) = 3 /\ dec = "tcp"
  /\ pc \in {"init", "idle"} => ran = << >>

\* While a packet is decoded, data and datalen describe its rest.
DataInv ==
  /\ data \in Int /\ left \in Int /\ len \in Int
  /\ pc \in {"decode", "options", "advance"} =>
       left >= 0 /\ data + left = Full(pkt) - pkt.cut
  /\ pc = "decode" /\ left = 0 => ran = << >>
  /\ pc \in {"decode", "options", "advance", "send"} => pkt \in Packet

\* What the packet in hand still owes to the counters.
StatInv ==
  /\ stat \in [StatNames -> Nat] /\ seen \in Nat
  /\ stat["IP"] + stat["ARP"] <= stat["TOTAL"]
  /\ Len(ran) = 1 => stat["IP"] + stat["ARP"] < stat["TOTAL"]
  /\ stat["TCP"] + stat["UDP"] + stat["ICMP"] <= stat["IP"]
  /\ Len(ran) = 2 /\ ran[2] # "arp" =>
       stat["TCP"] + stat["UDP"] + stat["ICMP"] < stat["IP"]
  /\ pc \in {"init", "idle", "options", "advance", "send"} => stat["TOTAL"] = seen
  /\ pc = "decode" => stat["TOTAL"] = IF ran = << >> THEN seen - 1 ELSE seen

\* A fingerprint lives from decode_ip to the end of the packet, and decode_tcp is
\* the only decoder that may follow it.
FingerInv ==
  /\ finger \in Finger \cup {NULL}
  /\ finger # NULL =>
       /\ Len(ran) > 1 /\ ran[2] = "ip"
       /\ Len(ran) > 2 => ran[3] = "tcp"
       /\ "WINDOW" \in finger.set <=> Len(ran) > 2
       /\ finger.lt <= IF Len(ran) > 2 THEN 120 ELSE 60
  /\ Len(ran) = 2 /\ ran[2] = "ip" =>
       /\ pc = "advance" => (finger # NULL <=> nextdec = "tcp")
       /\ pc = "decode" => (finger # NULL <=> dec = "tcp")
  /\ pc = "options" => finger # NULL /\ option \in Option
  /\ pc = "fatal" /\ Len(ran) > 2 => ran[2] = "ip6"

\* A packet that was captured whole and is not IPv6.
Exact == pkt.cut = 0 /\ \A i \in 1..Len(pkt.hs) : pkt.hs[i].kind # "ip6"

\* After the decoder of the k-th header, which decoded n of l bytes and named nxt:
\* the packet goes on with its next layer, or it has none.
Follows(p, k, l, n, nxt) ==
  IF l - n > 0 /\ nxt # NULL
  THEN /\ Start(p.hs, k) + n = Start(p.hs, k + 1)
       /\ k < Len(Layers(p)) /\ nxt = Layers(p)[k + 1]
  ELSE k = Len(Layers(p))

\* The decoders that ran on it are those of its first headers, the n-th one read
\* the n-th header, and the next one is the one that the packet calls for.
ExactInv ==
  pc \in {"decode", "options", "advance", "send"} /\ Exact =>
    /\ Len(ran) <= Len(Layers(pkt))
    /\ \A i \in 1..Len(ran) : ran[i] = Layers(pkt)[i]
    /\ pc = "decode" =>
         /\ data = Start(pkt.hs, Len(ran) + 1)
         /\ Len(ran) < Len(Layers(pkt)) /\ dec = Layers(pkt)[Len(ran) + 1]
    /\ pc \in {"options", "advance"} =>
         data = Start(pkt.hs, Len(ran)) /\ Follows(pkt, Len(ran), left, len, nextdec)
    /\ pc = "send" => Len(ran) = Len(Layers(pkt))

\* The length in its fingerprint is that of the two headers.
LengthInv ==
  pc \in {"decode", "options", "advance", "send"} /\ Exact /\ finger # NULL /\ Len(pkt.hs) > 1 =>
    /\ pkt.hs[2].kind = "ip" /\ pkt.hs[2].next = "TCP"
    /\ finger.lt = IF Len(ran) > 2 THEN 4 * (pkt.hs[2].ihl + pkt.hs[3].off) ELSE 4 * pkt.hs[2].ihl

EngineInv == ShapeInv /\ DataInv /\ StatInv /\ FingerInv /\ ExactInv /\ LengthInv

-----------------------------------------------------------------------------
(* The tables of decoders and counters *)

LEMMA Table ==
  DecodersTable =
    {Entry(2, "EN10MB", "eth"), Entry(2, "IEEE802_11", "wifi"), Entry(3, "IP", "ip"),
     Entry(3, "IP6", "ip6"), Entry(3, "ARP", "arp"), Entry(4, "TCP", "tcp"),
     Entry(4, "UDP", "udp"), Entry(4, "ICMP", "icmp"), Entry(4, "ICMP6", "icmp6"),
     Entry(5, "DHCPD", "dhcpd"), Entry(5, "DHCPC", "dhcpc")}
  <1>1. DecodersTable =
          EthInit.add \cup WifiInit.add \cup IpInit.add \cup Ip6Init.add \cup ArpInit.add
            \cup TcpInit.add \cup UdpInit.add \cup IcmpInit.add \cup Icmp6Init.add \cup DhcpInit.add
    BY DEF DecodersTable, Constructors
  <1> QED BY <1>1 DEF EthInit, WifiInit, IpInit, Ip6Init, ArpInit, TcpInit, UdpInit, IcmpInit,
                      Icmp6Init, DhcpInit

LEMMA DecoderNames ==
  Decoders = {"eth", "wifi", "ip", "ip6", "arp", "tcp", "udp", "icmp", "icmp6", "dhcpd", "dhcpc"}
  BY Table DEF Decoders, Entry

LEMMA Counters ==
  StatNames = {"TOTAL", "IP", "ARP", "TCP", "UDP", "ICMP", "DHCP"}
  BY DEF StatNames, Constructors, EthInit, WifiInit, IpInit, Ip6Init, ArpInit, TcpInit, UdpInit,
         IcmpInit, Icmp6Init, DhcpInit

\* get_decoder finds the decoder of every type that has one, and nothing else.
LEMMA FoundDecoder ==
  /\ GetDecoder(3, "IP") = "ip" /\ GetDecoder(3, "IP6") = "ip6" /\ GetDecoder(3, "ARP") = "arp"
  /\ GetDecoder(4, "TCP") = "tcp" /\ GetDecoder(4, "UDP") = "udp"
  /\ GetDecoder(4, "ICMP") = "icmp" /\ GetDecoder(4, "ICMP6") = "icmp6"
  /\ GetDecoder(5, "DHCPD") = "dhcpd" /\ GetDecoder(5, "DHCPC") = "dhcpc"
  <1>1. ASSUME NEW e \in DecodersTable PROVE GetDecoder(e.level, e.type) = e.decoder
    <2>1. {f \in DecodersTable : f.level = e.level /\ f.type = e.type} = {e}
      BY Table DEF Entry
    <2> QED BY <2>1 DEF GetDecoder
  <1>2. \A l, t, d : Entry(l, t, d) \in DecodersTable => GetDecoder(l, t) = d
    BY <1>1 DEF Entry
  <1> QED BY <1>2, Table

LEMMA NoDecoder ==
  /\ \A t : GetDecoder(3, t) \in {"ip", "ip6", "arp", NULL}
  /\ \A t : GetDecoder(4, t) \in {"tcp", "udp", "icmp", "icmp6", NULL}
  /\ \A t : GetDecoder(4, t) = "tcp" => t = "TCP"
  /\ \A t : GetDecoder(5, t) \in {"dhcpd", "dhcpc", NULL}
  /\ \A t : t \notin {"IP", "IP6", "ARP"} => GetDecoder(3, t) = NULL
  /\ \A t : t \notin {"TCP", "UDP", "ICMP", "ICMP6"} => GetDecoder(4, t) = NULL
  /\ \A t : t \notin {"DHCPD", "DHCPC"} => GetDecoder(5, t) = NULL
  <1>1. \A l, t : \/ GetDecoder(l, t) = NULL
                  \/ \E e \in DecodersTable : e.level = l /\ e.type = t /\ GetDecoder(l, t) = e.decoder
    BY DEF GetDecoder
  <1>2. NULL # "tcp"
    BY NullAssumption, DecoderNames
  <1> QED BY <1>1, <1>2, Table DEF Entry

-----------------------------------------------------------------------------
(* Packets *)

\* The fields of the headers are numbers.
LEMMA Fields ==
  /\ \A n \in Ihls : n \in Nat /\ n <= 15
  /\ \A n \in Offs : n \in Nat /\ n <= 15
  /\ \A n \in PayLens : n \in Nat
  /\ \A n \in ArpLens : n \in Nat
  /\ \A n \in Payloads : n \in Nat
  /\ \A n \in Cuts : n \in Nat
  /\ \A n \in OptLens : n \in Nat
  <1>1. \A n \in Nibble : n \in Nat /\ n <= 15
    BY DEF Nibble
  <1>2. \A n \in Word : n \in Nat
    BY DEF Word
  <1>3. \A n \in Byte : n \in Nat
    BY DEF Byte
  <1>4. (\A n \in Ihls : n \in Nibble) /\ (\A n \in Offs : n \in Nibble)
    BY DecodeAssumption
  <1>5. (\A n \in PayLens : n \in Word) /\ (\A n \in OptLens : n \in Byte)
    BY DecodeAssumption
  <1>6. \A n \in ArpLens : n \in Nat
    BY DecodeAssumption
  <1>7. (\A n \in Payloads : n \in Nat) /\ (\A n \in Cuts : n \in Nat)
    BY DecodeAssumption
  <1> QED BY <1>1, <1>2, <1>3, <1>4, <1>5, <1>6, <1>7

LEMMA Sizes ==
  /\ \A h \in EthHeader : h.kind = "eth" /\ Size(h) = 14
  /\ \A h \in WifiHeader : h.kind = "wifi" /\ Size(h) = IF h.type = "DATA" THEN 32 ELSE 24
  /\ \A h \in IpHeader : h.kind = "ip" /\ h.ihl \in Nat /\ h.ihl <= 15 /\ Size(h) = 4 * h.ihl
  /\ \A h \in Ip6Header : h.kind = "ip6" /\ h.len \in Nat /\ Size(h) = 40
  /\ \A h \in ArpHeader : h.kind = "arp" /\ h.next = "NONE" /\ h.lens \in Nat /\ Size(h) = 8 + 2 * h.lens
  /\ \A h \in TcpHeader : h.kind = "tcp" /\ h.off \in Nat /\ h.off <= 15 /\ Size(h) = 4 * h.off
  /\ \A h \in UdpHeader : h.kind = "udp" /\ Size(h) = 8
  /\ \A h \in IcmpHeader : h.kind \in {"icmp", "icmp6"} /\ h.next = "NONE" /\ Size(h) = 8
  <1>1. \A h \in EthHeader : h.kind = "eth" /\ Size(h) = 14
    BY DEF Size, EthHeader
  <1>2. \A h \in WifiHeader : h.kind = "wifi" /\ Size(h) = IF h.type = "DATA" THEN 32 ELSE 24
    BY DEF Size, WifiHeader
  <1>3. \A h \in IpHeader : h.kind = "ip" /\ h.ihl \in Nat /\ h.ihl <= 15 /\ Size(h) = 4 * h.ihl
    BY Fields DEF Size, IpHeader
  <1>4. \A h \in Ip6Header : h.kind = "ip6" /\ h.len \in Nat /\ Size(h) = 40
    BY Fields DEF Size, Ip6Header
  <1>5. \A h \in ArpHeader : h.kind = "arp" /\ h.next = "NONE" /\ h.lens \in Nat /\ Size(h) = 8 + 2 * h.lens
    BY Fields DEF Size, ArpHeader
  <1>6. \A h \in TcpHeader : h.kind = "tcp" /\ h.off \in Nat /\ h.off <= 15 /\ Size(h) = 4 * h.off
    BY Fields DEF Size, TcpHeader
  <1>7. \A h \in UdpHeader : h.kind = "udp" /\ Size(h) = 8
    BY DEF Size, UdpHeader
  <1>8. \A h \in IcmpHeader : h.kind \in {"icmp", "icmp6"} /\ h.next = "NONE" /\ Size(h) = 8
    BY DEF Size, IcmpHeader
  <1> QED BY <1>1, <1>2, <1>3, <1>4, <1>5, <1>6, <1>7, <1>8, Zenon

\* A packet has one header of each of its layers.
LEMMA Headers ==
  ASSUME NEW p \in Packet
  PROVE  /\ Len(p.hs) \in 1..3 /\ p.hs[1] \in LinkHeader
         /\ Len(p.hs) > 1 => p.hs[2] \in NetHeader
         /\ Len(p.hs) > 2 => p.hs[3] \in ProtoHeader
         /\ p.payload \in Nat /\ p.cut \in Nat
         /\ WellFormed(p) /\ p.cut <= Full(p)
  <1>1. /\ p.hs \in {<<a>> : a \in LinkHeader}
                    \cup {<<a, b>> : a \in LinkHeader, b \in NetHeader}
                    \cup {<<a, b, c>> : a \in LinkHeader, b \in NetHeader, c \in ProtoHeader}
        /\ p.payload \in Payloads /\ p.cut \in Cuts
        /\ WellFormed(p) /\ p.cut <= Full(p)
    BY DEF Packet
  <1>2. p.payload \in Nat /\ p.cut \in Nat
    BY <1>1, Fields
  <1> QED BY <1>1, <1>2

\* Its headers take up space, one after the other.
LEMMA Offsets ==
  ASSUME NEW p \in Packet
  PROVE  /\ \A i \in 1..Len(p.hs) : Size(p.hs[i]) \in Nat /\ Size(p.hs[i]) > 0
         /\ \A i \in 1..Len(p.hs) + 1 : Start(p.hs, i) \in Nat
         /\ Start(p.hs, 1) = 0
         /\ \A i \in 1..Len(p.hs) : Start(p.hs, i + 1) = Start(p.hs, i) + Size(p.hs[i])
         /\ Full(p) \in Nat
         /\ \A i \in 1..Len(p.hs) : Start(p.hs, i + 1) <= Full(p)
         /\ \A i \in 1..Len(p.hs) - 1 : Start(p.hs, i + 1) < Full(p)
  <1>1. /\ Len(p.hs) \in 1..3 /\ p.hs[1] \in LinkHeader
        /\ Len(p.hs) > 1 => p.hs[2] \in NetHeader
        /\ Len(p.hs) > 2 => p.hs[3] \in ProtoHeader
        /\ p.payload \in Nat /\ WellFormed(p)
    BY Headers
  <1>2. \A i \in 1..Len(p.hs) : (p.hs[i].kind = "ip" => p.hs[i].ihl >= 5) /\ (p.hs[i].kind = "tcp" => p.hs[i].off >= 5)
    BY <1>1 DEF WellFormed
  <1>3. \A i \in 1..Len(p.hs) : p.hs[i] \in LinkHeader \cup NetHeader \cup ProtoHeader
    BY <1>1
  <1>4. \A i \in 1..Len(p.hs) : Size(p.hs[i]) \in Nat /\ Size(p.hs[i]) > 0
    <2> SUFFICES ASSUME NEW i \in 1..Len(p.hs)
                 PROVE  Size(p.hs[i]) \in Nat /\ Size(p.hs[i]) > 0
      OBVIOUS
    <2> DEFINE h == p.hs[i]
    <2>1. h \in LinkHeader \cup NetHeader \cup ProtoHeader
      BY <1>3
    <2>2. (h.kind = "ip" => h.ihl >= 5) /\ (h.kind = "tcp" => h.off >= 5)
      BY <1>2
    <2> HIDE DEF h
    <2>3. CASE h \in IpHeader
      BY <2>2, <2>3, Sizes DEF h
    <2>4. CASE h \in TcpHeader
      BY <2>2, <2>4, Sizes DEF h
    <2>5. CASE h \in ArpHeader
      BY <2>5, Sizes DEF h
    <2>6. CASE h \in EthHeader \cup WifiHeader \cup Ip6Header \cup UdpHeader \cup IcmpHeader
      BY <2>6, Sizes DEF h
    <2> QED BY <2>1, <2>3, <2>4, <2>5, <2>6 DEF LinkHeader, NetHeader, ProtoHeader
  <1>5. /\ Start(p.hs, 1) = 0
        /\ Start(p.hs, 2) = Size(p.hs[1])
        /\ Len(p.hs) > 1 => Start(p.hs, 3) = Size(p.hs[1]) + Size(p.hs[2])
        /\ Len(p.hs) > 2 => Start(p.hs, 4) = Size(p.hs[1]) + Size(p.hs[2]) + Size(p.hs[3])
    BY <1>1, <1>4 DEF Start
  <1>6. Full(p) = Start(p.hs, Len(p.hs) + 1) + p.payload
    BY DEF Full
  <1>7. CASE Len(p.hs) = 1
    BY <1>1, <1>4, <1>5, <1>6, <1>7
  <1>8. CASE Len(p.hs) = 2
    BY <1>1, <1>4, <1>5, <1>6, <1>8
  <1>9. CASE Len(p.hs) = 3
    BY <1>1, <1>4, <1>5, <1>6, <1>9
  <1> QED BY <1>1, <1>7, <1>8, <1>9

-----------------------------------------------------------------------------
(* What all decoders have in common *)

DecoderStep ==
  \/ DecodeEth \/ DecodeWifi \/ DecodeIp \/ DecodeIpNoMemory \/ DecodeIp6 \/ DecodeArp
  \/ DecodeTcp \/ DecodeTcpNoFinger \/ DecodeUdp \/ DecodeIcmp \/ DecodeIcmp6 \/ DecodeDhcp

\* The counter of a decoder, which all but the DHCP decoders increment
Counter(d) ==
  CASE d \in {"eth", "wifi"} -> "TOTAL"
    [] d \in {"ip", "ip6"} -> "IP"
    [] d = "arp" -> "ARP"
    [] d = "tcp" -> "TCP"
    [] d = "udp" -> "UDP"
    [] OTHER -> "ICMP"

LEMMA ReadSub == \A H : Read(H) \subseteq H
  BY DEF Read

LEMMA SwapInt == \A n \in Nat : Swap(n) \in Int
  BY DEF Swap

\* A decoder appends itself, stays on its bytes and names a decoder of the next
\* layer or none.
LEMMA DecoderFact ==
  ASSUME left \in Int, DecoderStep
  PROVE  /\ pc = "decode" /\ ran' = Append(ran, dec) /\ len' \in Int
         /\ UNCHANGED <<link, pkt, dec, data, left, seen>>
         /\ pc' \in {"advance", "options", "fatal"}
         /\ pc' = "options" => dec = "tcp"
         /\ pc' # "fatal" /\ nextdec' # NULL =>
              \/ dec \in {"eth", "wifi"} /\ nextdec' \in {"ip", "ip6", "arp"}
              \/ dec \in {"ip", "ip6"} /\ nextdec' \in {"tcp", "udp", "icmp", "icmp6"}
              \/ dec \in {"tcp", "udp"} /\ nextdec' \in {"dhcpd", "dhcpc"}
         /\ IF dec \in {"dhcpd", "dhcpc"} THEN stat' = stat
            ELSE stat' = [stat EXCEPT ![Counter(dec)] = @ + 1]
  <1>1. CASE DecodeEth
    <2>1. PICK h \in EthHeader : Decoder("eth", 14, GetDecoder(3, h.next))
      BY <1>1, ReadSub DEF DecodeEth
    <2>2. stat' = [stat EXCEPT !["TOTAL"] = @ + 1]
      BY <1>1 DEF DecodeEth, UpdateStat
    <2> QED BY <2>1, <2>2, NoDecoder DEF Decoder, DecoderTo, Counter
  <1>2. CASE DecodeWifi
    <2>1. PICK h \in WifiHeader :
            \/ Decoder("wifi", 24 + 8, GetDecoder(3, h.next))
            \/ Decoder("wifi", left, NULL)
            \/ Decoder("wifi", 24, NULL)
      BY <1>2, ReadSub DEF DecodeWifi
    <2>2. stat' = [stat EXCEPT !["TOTAL"] = @ + 1]
      BY <1>2 DEF DecodeWifi, UpdateStat
    <2>3. /\ pc = "decode" /\ dec = "wifi" /\ ran' = Append(ran, dec) /\ pc' = "advance"
          /\ UNCHANGED <<link, pkt, dec, data, left, seen>>
          /\ len' \in {24 + 8, left, 24} /\ nextdec' \in {GetDecoder(3, h.next), NULL}
      BY <2>1 DEF Decoder, DecoderTo
    <2>4. nextdec' # NULL => nextdec' \in {"ip", "ip6", "arp"}
      BY <2>3, NoDecoder
    <2> QED BY <2>2, <2>3, <2>4 DEF Counter
  <1>3. CASE DecodeIp \/ DecodeIpNoMemory
    <2>1. PICK h \in IpHeader : \/ Decoder("ip", 4 * h.ihl, GetDecoder(4, h.next))
                                \/ DecoderTo("ip", 4 * h.ihl, nextdec, "fatal")
      BY <1>3, ReadSub DEF DecodeIp, DecodeIpNoMemory
    <2>2. stat' = [stat EXCEPT !["IP"] = @ + 1]
      BY <1>3 DEF DecodeIp, DecodeIpNoMemory, UpdateStat
    <2>3. 4 * h.ihl \in Int
      BY Sizes
    <2> QED BY <2>1, <2>2, <2>3, NoDecoder DEF Decoder, DecoderTo, Counter
  <1>4. CASE DecodeIp6
    <2>1. PICK h \in Ip6Header :
            Decoder("ip6", IF h.len = 0 THEN 0 ELSE Swap(h.len) + 40, GetDecoder(4, h.next))
      BY <1>4, ReadSub DEF DecodeIp6
    <2>2. stat' = [stat EXCEPT !["IP"] = @ + 1]
      BY <1>4 DEF DecodeIp6, UpdateStat
    <2>3. (IF h.len = 0 THEN 0 ELSE Swap(h.len) + 40) \in Int
      BY Sizes, SwapInt
    <2> QED BY <2>1, <2>2, <2>3, NoDecoder DEF Decoder, DecoderTo, Counter
  <1>5. CASE DecodeArp
    <2>1. PICK h \in ArpHeader : Decoder("arp", 8 + 2 * h.lens, NULL)
      BY <1>5, ReadSub DEF DecodeArp
    <2>2. stat' = [stat EXCEPT !["ARP"] = @ + 1]
      BY <1>5 DEF DecodeArp, UpdateStat
    <2>3. 8 + 2 * h.lens \in Int
      BY Sizes
    <2> QED BY <2>1, <2>2, <2>3 DEF Decoder, DecoderTo, Counter
  <1>6. CASE DecodeTcp \/ DecodeTcpNoFinger
    <2>1. PICK h \in TcpHeader :
            \/ DecoderTo("tcp", 4 * h.off, GetDecoder(5, h.next), "options")
            \/ Decoder("tcp", 4 * h.off, GetDecoder(5, h.next))
            \/ DecoderTo("tcp", 4 * h.off, nextdec, "fatal")
      BY <1>6, ReadSub DEF DecodeTcp, DecodeTcpNoFinger
    <2>2. stat' = [stat EXCEPT !["TCP"] = @ + 1]
      BY <1>6 DEF DecodeTcp, DecodeTcpNoFinger, UpdateStat
    <2>3. 4 * h.off \in Int
      BY Sizes
    <2> QED BY <2>1, <2>2, <2>3, NoDecoder DEF Decoder, DecoderTo, Counter
  <1>7. CASE DecodeUdp
    <2>1. PICK h \in UdpHeader : Decoder("udp", 8, GetDecoder(5, h.next))
      BY <1>7, ReadSub DEF DecodeUdp
    <2>2. stat' = [stat EXCEPT !["UDP"] = @ + 1]
      BY <1>7 DEF DecodeUdp, UpdateStat
    <2> QED BY <2>1, <2>2, NoDecoder DEF Decoder, DecoderTo, Counter
  <1>8. CASE DecodeIcmp \/ DecodeIcmp6
    BY <1>8 DEF DecodeIcmp, DecodeIcmp6, UpdateStat, Decoder, DecoderTo, Counter
  <1>9. CASE DecodeDhcp
    BY <1>9 DEF DecodeDhcp, Decoder, DecoderTo
  <1> QED BY <1>1, <1>2, <1>3, <1>4, <1>5, <1>6, <1>7, <1>8, <1>9 DEF DecoderStep

-----------------------------------------------------------------------------
(* The other steps *)

\* Outside a packet, and when the thread is cancelled, only pc and link change.
OuterStep ==
  \/ \E dlt \in Dlts : SetL2Decoder(dlt)
  \/ NoMemory \/ EndOfFile \/ Cancel \/ Over \/ UNCHANGED vars

OptionStep == TcpOption \/ TcpOptionEnd \/ TcpReturn

LEMMA OuterFact ==
  ASSUME OuterStep
  PROVE  /\ UNCHANGED <<pkt, dec, data, left, len, nextdec, finger, stat, ran, seen>>
         /\ \/ pc' = pc
            \/ pc = "init" /\ pc' \in {"idle", "fatal"}
            \/ pc = "idle" /\ pc' = "fatal"
            \/ pc' = "end"
  <1>1. CASE Over \/ UNCHANGED vars
    BY <1>1 DEF Over, vars
  <1>2. CASE NoMemory \/ EndOfFile \/ Cancel
    BY <1>2 DEF NoMemory, EndOfFile, Cancel
  <1>3. ASSUME NEW dlt \in Dlts, SetL2Decoder(dlt)
        PROVE  /\ UNCHANGED <<pkt, dec, data, left, len, nextdec, finger, stat, ran, seen>>
               /\ pc = "init" /\ pc' \in {"idle", "fatal"}
    BY <1>3 DEF SetL2Decoder
  <1> QED BY <1>1, <1>2, <1>3 DEF OuterStep

LEMMA OptionFact ==
  ASSUME OptionStep
  PROVE  /\ UNCHANGED <<pkt, dec, data, left, len, nextdec, stat, ran, seen>>
         /\ pc = "options" /\ pc' \in {"options", "advance"}
  BY DEF OptionStep, TcpOption, TcpOptionEnd, TcpReturn

LEMMA StepKinds ==
  ASSUME [Next]_vars
  PROVE  \/ DecoderStep \/ OptionStep \/ OuterStep
         \/ \E p \in Packet : LmapDecode(p)
         \/ Advance \/ DbBucketSend
  BY DEF Next, Step, DecoderStep, OptionStep, OuterStep

LEMMA LmapDecodeFact ==
  ASSUME NEW p \in Packet, LmapDecode(p)
  PROVE  /\ pc = "idle" /\ pc' = "decode" /\ pkt' = p /\ dec' = p.hs[1].kind
         /\ data' = 0 /\ left' = Full(p) - p.cut /\ finger' = NULL /\ ran' = << >>
         /\ seen' = seen + 1 /\ UNCHANGED <<len, stat>>
  BY DEF LmapDecode

LEMMA AdvanceFact ==
  ASSUME Advance
  PROVE  /\ pc = "advance" /\ UNCHANGED <<pkt, len, nextdec, finger, stat, ran, seen>>
         /\ left' = left - len
         /\ \/ /\ left' > 0 /\ nextdec # NULL
               /\ pc' = "decode" /\ data' = data + len /\ dec' = nextdec
            \/ /\ ~(left' > 0 /\ nextdec # NULL)
               /\ pc' = "send" /\ data' \in {data, data + len}
  BY DEF Advance

LEMMA SendFact ==
  ASSUME DbBucketSend
  PROVE  /\ pc = "send" /\ pc' = "idle" /\ ran' = << >> /\ finger' = NULL
         /\ data' = 0 /\ left' = 0 /\ len' = 0 /\ UNCHANGED <<stat, seen>>
  BY DEF DbBucketSend

\* A sequence and its extension by one element
LEMMA Extended ==
  ASSUME NEW S, NEW s \in Seq(S), NEW e \in S
  PROVE  /\ Append(s, e) \in Seq(S) /\ Len(Append(s, e)) = Len(s) + 1 /\ Len(s) \in Nat
         /\ Append(s, e)[Len(s) + 1] = e
         /\ \A i \in 1..Len(s) : Append(s, e)[i] = s[i]
  OBVIOUS

LEMMA LayerNames == \A d, n : AtLayer(d, n) => d \in Decoders /\ n \in 1..4
  BY DecoderNames DEF AtLayer

LEMMA ShapeStep ==
  ASSUME ShapeInv, DataInv, [Next]_vars
  PROVE  ShapeInv'
  <1>1. CASE DecoderStep
    <2>1. left \in Int
      BY DEF DataInv
    <2>2. /\ pc = "decode" /\ ran' = Append(ran, dec) /\ UNCHANGED dec
          /\ pc' \in {"advance", "options", "fatal"}
          /\ pc' = "options" => dec = "tcp"
          /\ pc' # "fatal" /\ nextdec' # NULL =>
               \/ dec \in {"eth", "wifi"} /\ nextdec' \in {"ip", "ip6", "arp"}
               \/ dec \in {"ip", "ip6"} /\ nextdec' \in {"tcp", "udp", "icmp", "icmp6"}
               \/ dec \in {"tcp", "udp"} /\ nextdec' \in {"dhcpd", "dhcpc"}
      BY <1>1, <2>1, DecoderFact
    <2>3. /\ AtLayer(dec, Len(ran) + 1) /\ (Len(ran) = 2 => ran[2] # "arp")
          /\ ran \in Seq(Decoders) /\ \A i \in 1..Len(ran) : AtLayer(ran[i], i)
          /\ Len(ran) > 2 => ran[2] # "arp"
      BY <2>2 DEF ShapeInv, MayFollow
    <2>4. dec \in Decoders
      BY <2>3, LayerNames
    <2>5. /\ ran' \in Seq(Decoders) /\ Len(ran') = Len(ran) + 1 /\ Len(ran) \in Nat
          /\ ran'[Len(ran) + 1] = dec /\ \A i \in 1..Len(ran) : ran'[i] = ran[i]
      BY <2>2, <2>3, <2>4, Extended
    <2>6. \A i \in 1..Len(ran') : AtLayer(ran'[i], i)
      BY <2>3, <2>5
    <2>7. Len(ran') > 2 => ran'[2] # "arp"
      <3>1. Len(ran) >= 2 => ran[2] # "arp"
        <4>1. Len(ran) \in Nat /\ (Len(ran) = 2 => ran[2] # "arp") /\ (Len(ran) > 2 => ran[2] # "arp")
          BY <2>3, <2>5
        <4>2. Len(ran) \in Nat
          BY <2>5
        <4>3. \A n \in Nat : n >= 2 => n = 2 \/ n > 2
          OBVIOUS
        <4>4. Len(ran) >= 2 => Len(ran) = 2 \/ Len(ran) > 2
          BY <4>2, <4>3
        <4> QED BY <4>1, <4>4, Zenon
      <3>2. Len(ran) >= 2 => ran'[2] = ran[2]
        BY <2>5
      <3> QED BY <2>5, <3>1, <3>2
    <2>8. pc' # "fatal" /\ nextdec' # NULL => MayFollow(nextdec)'
      BY <2>2, <2>3, <2>5 DEF MayFollow, AtLayer
    <2>9. pc' = "options" => Len(ran') = 3
      BY <2>2, <2>3, <2>5 DEF AtLayer
    <2>10. ran'[Len(ran')] = dec /\ Len(ran') > 0
      BY <2>5
    <2> QED BY <2>2, <2>5, <2>6, <2>7, <2>8, <2>9, <2>10 DEF ShapeInv
  <1>2. CASE OptionStep
    BY <1>2, OptionFact DEF ShapeInv, MayFollow
  <1>3. CASE OuterStep
    BY <1>3, OuterFact DEF ShapeInv, MayFollow
  <1>4. ASSUME NEW p \in Packet, LmapDecode(p) PROVE ShapeInv'
    <2>1. pc' = "decode" /\ dec' = p.hs[1].kind /\ ran' = << >>
      BY <1>4, LmapDecodeFact
    <2>2. dec' \in {"eth", "wifi"}
      BY <2>1, Headers, Sizes DEF LinkHeader
    <2> QED BY <2>1, <2>2 DEF ShapeInv, MayFollow, AtLayer
  <1>5. CASE Advance
    BY <1>5, AdvanceFact DEF ShapeInv, MayFollow
  <1>6. CASE DbBucketSend
    BY <1>6, SendFact DEF ShapeInv
  <1> QED BY <1>1, <1>2, <1>3, <1>4, <1>5, <1>6, StepKinds

LEMMA DataStep ==
  ASSUME DataInv, [Next]_vars
  PROVE  DataInv'
  <1>1. CASE DecoderStep
    <2>1. left \in Int
      BY DEF DataInv
    <2> QED BY <1>1, <2>1, DecoderFact DEF DataInv
  <1>2. CASE OptionStep
    BY <1>2, OptionFact DEF DataInv
  <1>3. CASE OuterStep
    BY <1>3, OuterFact DEF DataInv
  <1>4. ASSUME NEW p \in Packet, LmapDecode(p) PROVE DataInv'
    <2>1. Full(p) \in Nat /\ p.cut \in Nat /\ p.cut <= Full(p)
      BY Headers, Offsets
    <2> QED BY <1>4, <2>1, LmapDecodeFact DEF DataInv
  <1>5. CASE Advance
    <2>1. pkt \in Packet /\ data + left = Full(pkt) - pkt.cut /\ {data, left, len} \subseteq Int
      BY <1>5, AdvanceFact DEF DataInv
    <2> QED BY <1>5, <2>1, AdvanceFact DEF DataInv
  <1>6. CASE DbBucketSend
    BY <1>6, SendFact DEF DataInv
  <1> QED BY <1>1, <1>2, <1>3, <1>4, <1>5, <1>6, StepKinds

\* A decoder counts the packet once, in the counter of its layer.
LEMMA StatStep ==
  ASSUME ShapeInv, DataInv, StatInv, [Next]_vars
  PROVE  StatInv'
  <1>0. /\ stat \in [StatNames -> Nat] /\ seen \in Nat
        /\ stat["TOTAL"] \in Nat /\ stat["IP"] \in Nat /\ stat["ARP"] \in Nat
        /\ stat["TCP"] \in Nat /\ stat["UDP"] \in Nat /\ stat["ICMP"] \in Nat
    BY Counters DEF StatInv
  <1>1. CASE DecoderStep
    <2>1. left \in Int
      BY DEF DataInv
    <2>2. /\ pc = "decode" /\ ran' = Append(ran, dec) /\ seen' = seen
          /\ pc' \in {"advance", "options", "fatal"}
          /\ IF dec \in {"dhcpd", "dhcpc"} THEN stat' = stat
             ELSE stat' = [stat EXCEPT ![Counter(dec)] = @ + 1]
      BY <1>1, <2>1, DecoderFact
    <2>3. AtLayer(dec, Len(ran) + 1) /\ (Len(ran) = 2 => ran[2] # "arp") /\ ran \in Seq(Decoders)
      BY <2>2 DEF ShapeInv, MayFollow
    <2>4. dec \in Decoders
      BY <2>3, LayerNames
    <2>5. /\ Len(ran') = Len(ran) + 1 /\ ran'[Len(ran) + 1] = dec
          /\ \A i \in 1..Len(ran) : ran'[i] = ran[i]
      BY <2>2, <2>3, <2>4, Extended
    <2>6. Len(ran) \in Nat
      BY <2>3
    <2>7. CASE Len(ran) = 0
      <3>1. ran = << >>
        BY <2>3, <2>7
      <3>2. Counter(dec) = "TOTAL" /\ dec \notin {"dhcpd", "dhcpc"}
        BY <2>3, <2>7 DEF AtLayer, Counter
      <3>3. stat["TOTAL"] = seen - 1
        BY <2>2, <3>1 DEF StatInv
      <3>4. /\ stat' \in [StatNames -> Nat] /\ stat'["TOTAL"] = stat["TOTAL"] + 1
            /\ \A c \in StatNames \ {"TOTAL"} : stat'[c] = stat[c]
        BY <1>0, <2>2, <3>2, Counters
      <3>5. Len(ran') = 1
        BY <2>5, <2>7
      <3> QED BY <1>0, <2>2, <3>3, <3>4, <3>5, Counters DEF StatInv
    <2>8. CASE Len(ran) = 1
      <3>1. ran # << >>
        BY <2>8
      <3>2. /\ stat["TOTAL"] = seen
            /\ stat["IP"] + stat["ARP"] < stat["TOTAL"]
            /\ stat["TCP"] + stat["UDP"] + stat["ICMP"] <= stat["IP"]
        BY <2>2, <2>8, <3>1 DEF StatInv
      <3>3. Len(ran') = 2 /\ ran'[2] = dec
        BY <2>5, <2>8
      <3>4. CASE dec = "arp"
        <4>1. stat' = [stat EXCEPT !["ARP"] = @ + 1]
          BY <2>2, <3>4 DEF Counter
        <4>2. /\ stat' \in [StatNames -> Nat] /\ stat'["ARP"] = stat["ARP"] + 1
              /\ \A c \in StatNames \ {"ARP"} : stat'[c] = stat[c]
          BY <1>0, <4>1, Counters
        <4> QED BY <1>0, <2>2, <3>2, <3>3, <3>4, <4>2, Counters DEF StatInv
      <3>5. CASE dec \in {"ip", "ip6"}
        <4>1. stat' = [stat EXCEPT !["IP"] = @ + 1]
          BY <2>2, <3>5 DEF Counter
        <4>2. /\ stat' \in [StatNames -> Nat] /\ stat'["IP"] = stat["IP"] + 1
              /\ \A c \in StatNames \ {"IP"} : stat'[c] = stat[c]
          BY <1>0, <4>1, Counters
        <4> QED BY <1>0, <2>2, <3>2, <3>3, <4>2, Counters DEF StatInv
      <3> QED BY <2>3, <2>8, <3>4, <3>5 DEF AtLayer
    <2>9. CASE Len(ran) = 2
      <3>1. ran # << >>
        BY <2>9
      <3>2. /\ stat["TOTAL"] = seen
            /\ stat["IP"] + stat["ARP"] <= stat["TOTAL"]
            /\ stat["TCP"] + stat["UDP"] + stat["ICMP"] < stat["IP"]
        BY <2>2, <2>3, <2>9, <3>1 DEF StatInv
      <3>3. Counter(dec) \in {"TCP", "UDP", "ICMP"} /\ dec \notin {"dhcpd", "dhcpc"}
        BY <2>3, <2>9 DEF AtLayer, Counter
      <3>4. /\ stat' \in [StatNames -> Nat] /\ stat'[Counter(dec)] = stat[Counter(dec)] + 1
            /\ \A c \in StatNames \ {Counter(dec)} : stat'[c] = stat[c]
        BY <1>0, <2>2, <3>3, Counters
      <3>5. /\ stat'["IP"] = stat["IP"] /\ stat'["ARP"] = stat["ARP"] /\ stat'["TOTAL"] = stat["TOTAL"]
            /\ stat'["TCP"] + stat'["UDP"] + stat'["ICMP"] = stat["TCP"] + stat["UDP"] + stat["ICMP"] + 1
        BY <1>0, <3>3, <3>4, Counters
      <3>6. Len(ran') = 3
        BY <2>5, <2>9
      <3>7. stat'["TCP"] + stat'["UDP"] + stat'["ICMP"] <= stat'["IP"]
        BY <1>0, <3>2, <3>5
      <3>8. seen' \in Nat /\ stat'["TOTAL"] = seen' /\ stat'["IP"] + stat'["ARP"] <= stat'["TOTAL"]
        BY <1>0, <2>2, <3>2, <3>5
      <3>9. ran' # << >>
        BY <3>6
      <3> QED BY <3>4, <3>6, <3>7, <3>8, <3>9 DEF StatInv
    <2>10. CASE Len(ran) = 3
      <3>1. ran # << >>
        BY <2>10
      <3>2. dec \in {"dhcpd", "dhcpc"}
        BY <2>3, <2>10 DEF AtLayer
      <3>3. Len(ran') = 4
        BY <2>5, <2>10
      <3>4. stat' = stat
        BY <2>2, <3>2
      <3> QED BY <1>0, <2>2, <3>1, <3>3, <3>4 DEF StatInv
    <2>11. Len(ran) + 1 \in 1..4
      BY <2>3, LayerNames
    <2>12. Len(ran) \in {0, 1, 2, 3}
      <3>1. \A n \in Nat : n + 1 \in 1..4 => n \in {0, 1, 2, 3}
        OBVIOUS
      <3> QED BY <2>6, <2>11, <3>1
    <2> QED BY <2>7, <2>8, <2>9, <2>10, <2>12
  <1>2. CASE OptionStep
    BY <1>2, OptionFact DEF StatInv
  <1>3. CASE OuterStep
    BY <1>3, OuterFact DEF StatInv
  <1>4. ASSUME NEW p \in Packet, LmapDecode(p) PROVE StatInv'
    <2>1. /\ pc = "idle" /\ pc' = "decode" /\ ran' = << >> /\ seen' = seen + 1 /\ stat' = stat
      BY <1>4, LmapDecodeFact
    <2>2. stat["TOTAL"] = seen' - 1
      BY <1>0, <2>1 DEF StatInv
    <2> QED BY <1>0, <2>1, <2>2 DEF StatInv
  <1>5. CASE Advance
    <2>1. pc' = "decode" => ran # << >>
      BY <1>5, AdvanceFact DEF ShapeInv
    <2> QED BY <1>5, <2>1, AdvanceFact DEF StatInv
  <1>6. CASE DbBucketSend
    BY <1>6, SendFact DEF StatInv
  <1> QED BY <1>1, <1>2, <1>3, <1>4, <1>5, <1>6, StepKinds

\* Without a fingerprint there is little to keep.
LEMMA NoFingerprint ==
  ASSUME finger' = NULL, pc' \notin {"options", "fatal"},
         Len(ran') = 2 /\ ran'[2] = "ip" =>
           (pc' = "advance" => nextdec' # "tcp") /\ (pc' = "decode" => dec' # "tcp")
  PROVE  FingerInv'
  BY DEF FingerInv

LEMMA Pushes ==
  ASSUME finger \in Finger, NEW ps \in SUBSET Parameter, NEW n \in Nat
  PROVE  /\ Push(ps, n) \in Finger
         /\ Push(ps, n).set = finger.set \cup ps /\ Push(ps, n).lt = finger.lt + n
         /\ finger.lt \in Nat
  BY DEF Push, Finger

LEMMA FingerStep ==
  ASSUME ShapeInv, DataInv, FingerInv, [Next]_vars
  PROVE  FingerInv'
  <1>1. CASE DecoderStep
    <2>1. left \in Int
      BY DEF DataInv
    <2>2. pc = "decode" /\ ran' = Append(ran, dec)
      BY <1>1, <2>1, DecoderFact
    <2>3. AtLayer(dec, Len(ran) + 1) /\ (Len(ran) = 2 => ran[2] # "arp") /\ ran \in Seq(Decoders)
      BY <2>2 DEF ShapeInv, MayFollow
    <2>4. dec \in Decoders
      BY <2>3, LayerNames
    <2>5. /\ Len(ran') = Len(ran) + 1 /\ ran'[Len(ran) + 1] = dec
          /\ \A i \in 1..Len(ran) : ran'[i] = ran[i]
      BY <2>2, <2>3, <2>4, Extended
    <2>6. Len(ran) \in Nat
      BY <2>3
    <2>20. \A n \in Nat : /\ AtLayer("eth", n + 1) \/ AtLayer("wifi", n + 1) => n = 0
                          /\ AtLayer("ip", n + 1) \/ AtLayer("ip6", n + 1) \/ AtLayer("arp", n + 1) => n = 1
                          /\ \A d \in {"tcp", "udp", "icmp", "icmp6"} : AtLayer(d, n + 1) => n = 2
                          /\ AtLayer("dhcpd", n + 1) \/ AtLayer("dhcpc", n + 1) => n = 3
      BY DEF AtLayer
    <2>7. CASE DecodeIp
      <3>1. PICK h \in IpHeader :
              /\ Decoder("ip", 4 * h.ihl, GetDecoder(4, h.next))
              /\ finger' = IF h.next = "TCP" THEN [set |-> {"TTL", "DF", "LT"}, lt |-> 4 * h.ihl]
                           ELSE finger
        BY <2>7, ReadSub DEF DecodeIp
      <3>2. dec = "ip" /\ pc' = "advance" /\ nextdec' = GetDecoder(4, h.next)
        BY <3>1 DEF Decoder, DecoderTo
      <3>3. Len(ran) = 1
        BY <2>3, <2>6, <2>20, <3>2
      <3>4. Len(ran') = 2 /\ ran'[2] = "ip"
        BY <2>5, <3>2, <3>3
      <3>5. finger = NULL
        BY <3>3 DEF FingerInv
      <3>6. CASE h.next = "TCP"
        <4>1. finger' = [set |-> {"TTL", "DF", "LT"}, lt |-> 4 * h.ihl]
          BY <3>1, <3>6
        <4>2. 4 * h.ihl \in Nat /\ 4 * h.ihl <= 60
          BY Sizes
        <4>3. finger' \in Finger /\ "WINDOW" \notin finger'.set /\ finger'.lt <= 60
          BY <4>1, <4>2 DEF Finger, Parameter
        <4>4. finger' # NULL
          BY <4>3, NullAssumption
        <4>5. nextdec' = "tcp"
          BY <3>2, <3>6, FoundDecoder
        <4> QED BY <3>2, <3>4, <4>3, <4>4, <4>5 DEF FingerInv
      <3>7. CASE h.next # "TCP"
        <4>1. nextdec' # "tcp"
          BY <3>2, <3>7, NoDecoder
        <4> QED BY <3>1, <3>2, <3>5, <3>7, <4>1, NoFingerprint
      <3> QED BY <3>6, <3>7
    <2>8. CASE DecodeIpNoMemory
      <3>1. dec = "ip" /\ pc' = "fatal" /\ finger' = finger
        BY <2>8 DEF DecodeIpNoMemory, DecoderTo
      <3>2. Len(ran) = 1
        BY <2>3, <2>6, <2>20, <3>1
      <3>3. finger = NULL
        BY <3>2 DEF FingerInv
      <3>4. Len(ran') = 2
        BY <2>5, <3>2
      <3> QED BY <3>1, <3>3, <3>4 DEF FingerInv
    <2>9. CASE DecodeTcp
      <3>1. dec = "tcp"
        BY <2>9 DEF DecodeTcp
      <3>2. Len(ran) = 2
        BY <2>3, <2>6, <2>20, <3>1
      <3>3. Len(ran') = 3 /\ ran'[2] = ran[2] /\ ran'[3] = "tcp"
        BY <2>5, <3>1, <3>2
      <3>4. PICK h \in TcpHeader :
              \/ /\ finger # NULL /\ pc' = "options" /\ option' \in Option
                 /\ finger' = Push({"WINDOW", "TCPFLAG", "LT"}, 4 * h.off)
              \/ pc' = "advance" /\ finger' = NULL
        BY <2>9, ReadSub DEF DecodeTcp, Decoder, DecoderTo
      <3>5. CASE finger # NULL /\ pc' = "options"
        <4>1. finger' = Push({"WINDOW", "TCPFLAG", "LT"}, 4 * h.off) /\ option' \in Option
          BY <3>4, <3>5
        <4>2. 4 * h.off \in Nat /\ 4 * h.off <= 60
          BY Sizes
        <4>3. finger \in Finger /\ ran[2] = "ip" /\ finger.lt <= 60
          BY <3>2, <3>5 DEF FingerInv
        <4>4. {"WINDOW", "TCPFLAG", "LT"} \in SUBSET Parameter
          BY DEF Parameter
        <4>5. /\ finger' \in Finger /\ finger.lt \in Nat /\ finger'.lt = finger.lt + 4 * h.off
              /\ finger'.set = finger.set \cup {"WINDOW", "TCPFLAG", "LT"}
          BY <4>1, <4>2, <4>3, <4>4, Pushes
        <4>6. finger' # NULL
          BY <4>5, NullAssumption
        <4>7. finger'.lt <= 120
          BY <4>2, <4>3, <4>5
        <4> QED BY <3>3, <3>5, <4>1, <4>3, <4>5, <4>6, <4>7 DEF FingerInv
      <3>6. CASE pc' = "advance" /\ finger' = NULL
        BY <3>3, <3>6, NoFingerprint
      <3> QED BY <3>4, <3>5, <3>6
    <2>10. CASE DecodeTcpNoFinger
      <3>1. dec = "tcp" /\ finger = NULL /\ finger' = NULL /\ pc' = "fatal"
        BY <2>10 DEF DecodeTcpNoFinger, DecoderTo
      <3>2. Len(ran) = 2
        BY <2>3, <2>6, <2>20, <3>1
      <3>3. ran[2] # "ip" /\ ran[2] # "arp"
        BY <2>2, <2>3, <3>1, <3>2 DEF FingerInv
      <3>4. ran[2] \in {"ip", "ip6", "arp"}
        BY <3>2 DEF ShapeInv, AtLayer
      <3>5. Len(ran') = 3 /\ ran'[2] = "ip6"
        BY <2>5, <3>2, <3>3, <3>4
      <3> QED BY <3>1, <3>5 DEF FingerInv
    <2>11. CASE DecodeEth \/ DecodeWifi \/ DecodeIp6 \/ DecodeArp \/ DecodeUdp \/ DecodeIcmp \/ DecodeIcmp6
      <3>1. /\ finger' = finger /\ pc' = "advance"
            /\ dec \in {"eth", "wifi", "ip6", "arp", "udp", "icmp", "icmp6"}
        BY <2>11 DEF DecodeEth, DecodeWifi, DecodeIp6, DecodeArp, DecodeUdp, DecodeIcmp, DecodeIcmp6,
                     Decoder, DecoderTo
      <3>2. CASE dec \in {"eth", "wifi"}
        <4>1. Len(ran) = 0
          BY <2>3, <2>6, <2>20, <3>2
        <4>2. finger = NULL /\ Len(ran') = 1
          BY <2>5, <4>1 DEF FingerInv
        <4> QED BY <3>1, <4>2, NoFingerprint
      <3>3. CASE dec \in {"ip6", "arp"}
        <4>1. Len(ran) = 1
          BY <2>3, <2>6, <2>20, <3>3
        <4>2. finger = NULL /\ ran'[2] # "ip"
          BY <2>5, <3>3, <4>1 DEF FingerInv
        <4> QED BY <3>1, <4>2, NoFingerprint
      <3>4. CASE dec \in {"udp", "icmp", "icmp6"}
        <4>1. Len(ran) = 2
          BY <2>3, <2>6, <2>20, <3>4
        <4>2. finger = NULL
          BY <2>2, <3>4, <4>1 DEF FingerInv
        <4>3. Len(ran') = 3
          BY <2>5, <4>1
        <4> QED BY <3>1, <4>2, <4>3, NoFingerprint
      <3> QED BY <3>1, <3>2, <3>3, <3>4
    <2>12. CASE DecodeDhcp
      <3>1. finger' = finger /\ pc' = "advance" /\ dec \in {"dhcpd", "dhcpc"}
        BY <2>12 DEF DecodeDhcp, Decoder, DecoderTo
      <3>2. Len(ran) = 3
        BY <2>3, <2>6, <2>20, <3>1
      <3>3. Len(ran') = 4 /\ ran'[2] = ran[2] /\ ran'[3] = ran[3]
        BY <2>5, <3>2
      <3> QED BY <3>1, <3>2, <3>3 DEF FingerInv
    <2> QED BY <1>1, <2>7, <2>8, <2>9, <2>10, <2>11, <2>12 DEF DecoderStep
  <1>2. CASE OptionStep
    <2>1. /\ UNCHANGED <<dec, nextdec, ran>> /\ pc = "options" /\ pc' \in {"options", "advance"}
      BY <1>2, OptionFact
    <2>2. /\ finger # NULL /\ option \in Option /\ finger \in Finger
          /\ Len(ran) = 3
      BY <2>1 DEF FingerInv, ShapeInv
    <2>3. CASE TcpOption
      <3>1. finger' = Push(option.push, 0) /\ option' \in Option /\ pc' = "options"
        BY <2>2, <2>3 DEF TcpOption
      <3>2. option.push \in SUBSET Parameter /\ "WINDOW" \notin option.push
        BY <2>2 DEF Option, EOL, Parameter
      <3>3. /\ finger' \in Finger /\ finger'.lt = finger.lt + 0 /\ finger.lt \in Nat
            /\ finger'.set = finger.set \cup option.push
        BY <2>2, <3>1, <3>2, Pushes
      <3>4. finger' # NULL
        BY <3>3, NullAssumption
      <3>5. finger'.lt = finger.lt
        BY <3>3
      <3> QED BY <2>1, <2>2, <3>1, <3>2, <3>3, <3>4, <3>5 DEF FingerInv
    <2>4. CASE TcpOptionEnd \/ TcpReturn
      <3>1. UNCHANGED <<finger, option>>
        BY <2>4 DEF TcpOptionEnd, TcpReturn
      <3> QED BY <2>1, <2>2, <3>1 DEF FingerInv
    <2> QED BY <1>2, <2>3, <2>4 DEF OptionStep
  <1>3. CASE OuterStep
    <2>1. pc = "options" /\ pc' = pc => option' = option
      BY <1>3 DEF OuterStep, SetL2Decoder, NoMemory, EndOfFile, Cancel, Over, vars
    <2>2. pc' = "fatal" => pc = "fatal" \/ ran = << >>
      BY <1>3, OuterFact DEF ShapeInv
    <2> QED BY <1>3, <2>1, <2>2, OuterFact DEF FingerInv
  <1>4. ASSUME NEW p \in Packet, LmapDecode(p) PROVE FingerInv'
    <2>1. Len(ran') = 0
      BY <1>4, LmapDecodeFact
    <2> QED BY <1>4, <2>1, LmapDecodeFact, NoFingerprint
  <1>5. CASE Advance
    BY <1>5, AdvanceFact DEF FingerInv
  <1>6. CASE DbBucketSend
    BY <1>6, SendFact, NoFingerprint
  <1> QED BY <1>1, <1>2, <1>3, <1>4, <1>5, <1>6, StepKinds

-----------------------------------------------------------------------------
(* Packets that were captured whole *)

\* The i-th header of a packet is one of the i-th layer.
LEMMA HeaderLayers ==
  ASSUME NEW p \in Packet, NEW i \in 1..Len(p.hs)
  PROVE  /\ AtLayer(p.hs[i].kind, i)
         /\ p.hs[i].kind = "eth" => p.hs[i] \in EthHeader
         /\ p.hs[i].kind = "wifi" => p.hs[i] \in WifiHeader
         /\ p.hs[i].kind = "ip" => p.hs[i] \in IpHeader
         /\ p.hs[i].kind = "arp" => p.hs[i] \in ArpHeader
         /\ p.hs[i].kind = "tcp" => p.hs[i] \in TcpHeader
         /\ p.hs[i].kind = "udp" => p.hs[i] \in UdpHeader
         /\ p.hs[i].kind \in {"icmp", "icmp6"} => p.hs[i] \in IcmpHeader
  <1>1. /\ i = 1 => p.hs[i] \in LinkHeader
        /\ i = 2 => p.hs[i] \in NetHeader
        /\ i = 3 => p.hs[i] \in ProtoHeader
        /\ i \in {1, 2, 3}
    <2>1. Len(p.hs) \in 1..3
      BY Headers
    <2>2. \A n \in 1..3 : \A j \in 1..n : j \in {1, 2, 3} /\ (j = 2 => n > 1) /\ (j = 3 => n > 2)
      OBVIOUS
    <2>3. i \in {1, 2, 3} /\ (i = 2 => Len(p.hs) > 1) /\ (i = 3 => Len(p.hs) > 2)
      BY <2>1, <2>2
    <2> QED BY <2>3, Headers
  <1>2. CASE i = 1
    <2>1. p.hs[i] \in EthHeader \/ p.hs[i] \in WifiHeader
      BY <1>1, <1>2 DEF LinkHeader
    <2> QED BY <1>2, <2>1, Sizes DEF AtLayer
  <1>3. CASE i = 2
    <2>1. p.hs[i] \in IpHeader \/ p.hs[i] \in Ip6Header \/ p.hs[i] \in ArpHeader
      BY <1>1, <1>3 DEF NetHeader
    <2> QED BY <1>3, <2>1, Sizes DEF AtLayer
  <1>4. CASE i = 3
    <2>1. p.hs[i] \in TcpHeader \/ p.hs[i] \in UdpHeader \/ p.hs[i] \in IcmpHeader
      BY <1>1, <1>4 DEF ProtoHeader
    <2> QED BY <1>4, <2>1, Sizes DEF AtLayer
  <1> QED BY <1>1, <1>2, <1>3, <1>4

LEMMA LayerOnce == \A d, n, m : AtLayer(d, n) /\ AtLayer(d, m) => n = m
  BY DEF AtLayer

\* The layers of a packet: its headers, and a DHCP message in the payload.
LEMMA LayersFact ==
  ASSUME NEW p \in Packet
  PROVE  /\ Layers(p) \in Seq(Decoders)
         /\ \A i \in 1..Len(p.hs) : Layers(p)[i] = p.hs[i].kind
         /\ IF p.payload > 0 /\ p.hs[Len(p.hs)].next \in {"DHCPD", "DHCPC"}
            THEN /\ Len(Layers(p)) = Len(p.hs) + 1
                 /\ p.hs[Len(p.hs)].next = "DHCPD" => Layers(p)[Len(p.hs) + 1] = "dhcpd"
                 /\ p.hs[Len(p.hs)].next = "DHCPC" => Layers(p)[Len(p.hs) + 1] = "dhcpc"
            ELSE Len(Layers(p)) = Len(p.hs)
  <1> DEFINE K == [i \in 1..Len(p.hs) |-> p.hs[i].kind]
             D == IF p.payload > 0 /\ p.hs[Len(p.hs)].next = "DHCPD" THEN <<"dhcpd">>
                  ELSE IF p.payload > 0 /\ p.hs[Len(p.hs)].next = "DHCPC" THEN <<"dhcpc">>
                  ELSE << >>
  <1>1. Layers(p) = K \o D
    BY DEF Layers, Last
  <1>2. Len(p.hs) \in Nat
    BY Headers
  <1>3. \A i \in 1..Len(p.hs) : p.hs[i].kind \in Decoders
    BY HeaderLayers, LayerNames
  <1>4. K \in Seq(Decoders) /\ Len(K) = Len(p.hs)
    BY <1>2, <1>3
  <1>5. /\ D \in Seq(Decoders)
        /\ IF p.payload > 0 /\ p.hs[Len(p.hs)].next \in {"DHCPD", "DHCPC"}
           THEN /\ Len(D) = 1
                /\ p.hs[Len(p.hs)].next = "DHCPD" => D[1] = "dhcpd"
                /\ p.hs[Len(p.hs)].next = "DHCPC" => D[1] = "dhcpc"
           ELSE Len(D) = 0
    <2>1. CASE p.payload > 0 /\ p.hs[Len(p.hs)].next = "DHCPD"
      <3>1. D = <<"dhcpd">>
        BY <2>1
      <3>2. <<"dhcpd">> \in Seq(Decoders) /\ Len(<<"dhcpd">>) = 1 /\ <<"dhcpd">>[1] = "dhcpd"
        BY DecoderNames
      <3> HIDE DEF D
      <3> QED BY <2>1, <3>1, <3>2
    <2>2. CASE p.payload > 0 /\ p.hs[Len(p.hs)].next = "DHCPC"
      <3>1. D = <<"dhcpc">>
        BY <2>2
      <3>2. <<"dhcpc">> \in Seq(Decoders) /\ Len(<<"dhcpc">>) = 1 /\ <<"dhcpc">>[1] = "dhcpc"
        BY DecoderNames
      <3> HIDE DEF D
      <3> QED BY <2>2, <3>1, <3>2
    <2>3. CASE ~(p.payload > 0 /\ p.hs[Len(p.hs)].next \in {"DHCPD", "DHCPC"})
      BY <2>3
    <2> QED BY <2>1, <2>2, <2>3
  <1>6. \A i \in 1..Len(p.hs) : K[i] = p.hs[i].kind
    OBVIOUS
  <1> HIDE DEF K, D
  <1>7. /\ K \o D \in Seq(Decoders) /\ Len(K \o D) = Len(p.hs) + Len(D)
        /\ \A i \in 1..Len(p.hs) : (K \o D)[i] = K[i]
        /\ Len(D) = 1 => (K \o D)[Len(p.hs) + 1] = D[1]
    BY <1>2, <1>4, <1>5
  <1> QED BY <1>1, <1>2, <1>5, <1>6, <1>7

\* The sizes and the types of the headers lead from each layer to the next.
LEMMA Follow ==
  ASSUME NEW p \in Packet, p.cut = 0, \A i \in 1..Len(p.hs) : p.hs[i].kind # "ip6",
         NEW k \in 1..Len(p.hs)
  PROVE  Follows(p, k, Full(p) - Start(p.hs, k), Size(p.hs[k]), GetDecoder(k + 2, p.hs[k].next))
  <1> DEFINE h == p.hs[k]
             nxt == GetDecoder(k + 2, h.next)
             rest == Full(p) - Start(p.hs, k) - Size(h)
  <1>1. Len(p.hs) \in Nat /\ k \in {1, 2, 3} /\ k <= Len(p.hs)
    BY Headers
  <1>2. /\ Size(h) \in Nat /\ Start(p.hs, k) \in Nat /\ Full(p) \in Nat
        /\ Start(p.hs, k + 1) = Start(p.hs, k) + Size(h)
    <2>1. k \in 1..Len(p.hs) + 1
      BY <1>1
    <2> QED BY <2>1, Offsets
  <1>3. WellFormed(p) /\ p.payload \in Nat
    BY Headers
  <1>4. NULL \notin Decoders
    BY NullAssumption
  <1>5. CASE k < Len(p.hs)
    <2>1. k + 1 \in 1..Len(p.hs) /\ k \in 1..Len(p.hs) - 1
      BY <1>1, <1>5
    <2>2. Start(p.hs, k + 1) < Full(p)
      BY <2>1, Offsets
    <2>3. rest > 0
      BY <1>2, <2>2
    <2>4. h.next = TypeOf[p.hs[k + 1].kind]
      BY <1>3, <2>1 DEF WellFormed
    <2>5. AtLayer(p.hs[k + 1].kind, k + 1) /\ p.hs[k + 1].kind # "ip6"
      BY <2>1, HeaderLayers
    <2>6. nxt = p.hs[k + 1].kind
      <3>1. CASE k = 1
        <4>1. p.hs[k + 1].kind \in {"ip", "arp"}
          BY <2>5, <3>1 DEF AtLayer
        <4>2. nxt = GetDecoder(3, h.next)
          BY <3>1
        <4> QED BY <2>4, <4>1, <4>2, FoundDecoder DEF TypeOf
      <3>2. CASE k = 2
        <4>1. p.hs[k + 1].kind \in {"tcp", "udp", "icmp", "icmp6"}
          BY <2>5, <3>2 DEF AtLayer
        <4>2. nxt = GetDecoder(4, h.next)
          BY <3>2
        <4> QED BY <2>4, <4>1, <4>2, FoundDecoder DEF TypeOf
      <3>3. k # 3
        <4>1. \A n \in {1, 2, 3} : \A m \in 1..3 : n < m => n # 3
          OBVIOUS
        <4> QED BY <1>1, <1>5, <4>1, Headers
      <3> QED BY <1>1, <3>1, <3>2, <3>3
    <2>7. nxt # NULL
      BY <1>4, <2>5, <2>6, LayerNames
    <2>8. Layers(p)[k + 1] = p.hs[k + 1].kind /\ Len(Layers(p)) >= Len(p.hs)
      BY <1>1, <2>1, LayersFact
    <2>9. Len(Layers(p)) \in Nat
      BY LayersFact
    <2>10. k < Len(Layers(p))
      BY <1>1, <1>5, <2>8, <2>9
    <2> QED BY <1>2, <2>3, <2>6, <2>7, <2>8, <2>10 DEF Follows
  <1>6. CASE k = Len(p.hs)
    <2>1. rest = p.payload
      BY <1>2, <1>3, <1>6 DEF Full
    <2>2. AtLayer(h.kind, k)
      BY HeaderLayers
    <2>3. CASE k < 3
      <3>1. h.next = "NONE"
        <4>1. h.kind \in {"eth", "wifi", "ip", "arp"}
          BY <1>1, <2>2, <2>3 DEF AtLayer
        <4>2. h.kind = "arp" => h.next = "NONE"
          BY HeaderLayers, Sizes
        <4>3. h.kind \in {"eth", "wifi", "ip", "ip6"} => h.next = "NONE"
          BY <1>3, <1>6 DEF WellFormed, Last
        <4> QED BY <4>1, <4>2, <4>3
      <3>2. nxt = NULL
        BY <1>1, <2>3, <3>1, NoDecoder
      <3>3. k = Len(Layers(p))
        BY <1>6, <3>1, LayersFact
      <3> QED BY <3>2, <3>3 DEF Follows
    <2>4. CASE k = 3
      <3>1. nxt = GetDecoder(5, h.next)
        BY <2>4
      <3>2. CASE p.payload > 0 /\ h.next \in {"DHCPD", "DHCPC"}
        <4>1. nxt # NULL /\ rest > 0
          BY <1>4, <2>1, <3>1, <3>2, FoundDecoder, DecoderNames
        <4>2. Len(Layers(p)) = k + 1 /\ nxt = Layers(p)[k + 1]
          BY <1>6, <3>1, <3>2, LayersFact, FoundDecoder
        <4>3. k < Len(Layers(p))
          BY <1>1, <4>2
        <4> QED BY <1>2, <4>1, <4>2, <4>3 DEF Follows
      <3>3. CASE ~(p.payload > 0 /\ h.next \in {"DHCPD", "DHCPC"})
        <4>1. Len(Layers(p)) = k
          BY <1>6, <3>3, LayersFact
        <4>2. ~(rest > 0 /\ nxt # NULL)
          BY <2>1, <3>1, <3>3, NoDecoder
        <4> QED BY <4>1, <4>2 DEF Follows
      <3> QED BY <3>2, <3>3
    <2> QED BY <1>1, <2>3, <2>4
  <1> QED BY <1>1, <1>5, <1>6

\* A decoder that stands at the header of its layer reads that header.
LEMMA ReadExact ==
  ASSUME pkt \in Packet, pkt.cut = 0, NEW k \in 1..Len(pkt.hs), data = Start(pkt.hs, k),
         NEW H, pkt.hs[k] \in H, \A h \in H : AtLayer(h.kind, k)
  PROVE  Read(H) = {pkt.hs[k]}
  <1> DEFINE There(i) == /\ Start(pkt.hs, i) = data
                         /\ data + Size(pkt.hs[i]) <= Full(pkt) - pkt.cut
                         /\ pkt.hs[i] \in H
  <1>1. There(k)
    <2>1. /\ Start(pkt.hs, k + 1) = Start(pkt.hs, k) + Size(pkt.hs[k])
          /\ Start(pkt.hs, k + 1) <= Full(pkt)
      BY Offsets
    <2>2. Full(pkt) \in Nat
      BY Offsets
    <2> QED BY <2>1, <2>2
  <1>2. \A i \in 1..Len(pkt.hs) : There(i) => i = k
    BY HeaderLayers, LayerOnce
  <1> HIDE DEF There
  <1>3. {i \in 1..Len(pkt.hs) : There(i)} = {k}
    BY <1>1, <1>2
  <1>4. Read(H) = {pkt.hs[i] : i \in {i \in 1..Len(pkt.hs) : There(i)}}
    BY <1>3 DEF Read, There
  <1> QED BY <1>3, <1>4

\* Such a decoder stands at the header of its layer.
LEMMA AtHeader ==
  ASSUME ShapeInv, DataInv, ExactInv, pc = "decode", Exact, dec \notin {"dhcpd", "dhcpc"}
  PROVE  /\ Len(ran) + 1 \in 1..Len(pkt.hs) /\ pkt.hs[Len(ran) + 1].kind = dec
         /\ data = Start(pkt.hs, Len(ran) + 1)
         /\ left = Full(pkt) - Start(pkt.hs, Len(ran) + 1)
  <1>1. pkt \in Packet /\ data + left = Full(pkt) - pkt.cut
    BY DEF DataInv
  <1>2. /\ data = Start(pkt.hs, Len(ran) + 1)
        /\ Len(ran) < Len(Layers(pkt)) /\ dec = Layers(pkt)[Len(ran) + 1]
    BY DEF ExactInv
  <1>3. Len(ran) \in Nat
    BY DEF ShapeInv
  <1>4. Len(Layers(pkt)) \in Nat
    BY <1>1, LayersFact
  <1>5. Len(pkt.hs) \in Nat
    BY <1>1, Headers
  <1>6. Len(ran) + 1 \in 1..Len(pkt.hs)
    <2> SUFFICES ASSUME Len(ran) + 1 \notin 1..Len(pkt.hs) PROVE FALSE
      OBVIOUS
    <2>1. Len(Layers(pkt)) \in {Len(pkt.hs), Len(pkt.hs) + 1}
      BY <1>1, LayersFact
    <2>2. Len(ran) + 1 = Len(pkt.hs) + 1 /\ Len(Layers(pkt)) = Len(pkt.hs) + 1
      BY <1>2, <1>3, <1>4, <1>5, <2>1
    <2>3. Layers(pkt)[Len(pkt.hs) + 1] \in {"dhcpd", "dhcpc"}
      BY <1>1, <1>5, <2>2, LayersFact
    <2> QED BY <1>2, <2>2, <2>3
  <1>7. pkt.hs[Len(ran) + 1].kind = dec
    BY <1>1, <1>2, <1>6, LayersFact
  <1>8. left = Full(pkt) - Start(pkt.hs, Len(ran) + 1)
    <2>1. Full(pkt) \in Nat /\ data \in Int /\ left \in Int
      BY <1>1, Offsets DEF DataInv
    <2>2. pkt.cut = 0
      BY DEF Exact
    <2> QED BY <1>1, <1>2, <2>1, <2>2
  <1> QED BY <1>2, <1>6, <1>7, <1>8

\* It decodes that header and names the decoder of the next one.
LEMMA DecodedExact ==
  ASSUME ShapeInv, DataInv, ExactInv, DecoderStep, pc' # "fatal", Exact
  PROVE  Follows(pkt, Len(ran) + 1, left, len', nextdec')
  <1> DEFINE k == Len(ran) + 1
             h == pkt.hs[k]
  <1>1. pc = "decode" /\ pkt \in Packet /\ left \in Int
    BY DecoderFact DEF DataInv
  <1>2. pkt.cut = 0 /\ \A i \in 1..Len(pkt.hs) : pkt.hs[i].kind # "ip6"
    BY DEF Exact
  <1>3. CASE dec \in {"dhcpd", "dhcpc"}
    <2>1. nextdec' = NULL
      BY <1>1, <1>3, DecoderFact
    <2>2. k = Len(Layers(pkt))
      <3>1. k - 1 < Len(Layers(pkt)) /\ dec = Layers(pkt)[k]
        BY <1>1 DEF ExactInv
      <3>2. k \notin 1..Len(pkt.hs)
        <4> SUFFICES ASSUME k \in 1..Len(pkt.hs) PROVE FALSE
          OBVIOUS
        <4>1. AtLayer(dec, k)
          BY <1>1 DEF ShapeInv, MayFollow
        <4>2. k = 4
          BY <1>3, <4>1 DEF AtLayer
        <4>3. Len(pkt.hs) \in 1..3
          BY <1>1, Headers
        <4>4. \A n \in 1..3 : 4 \notin 1..n
          OBVIOUS
        <4> QED BY <4>2, <4>3, <4>4
      <3>3. Len(ran) \in Nat
        BY DEF ShapeInv
      <3>4. Len(pkt.hs) \in Nat
        BY <1>1, Headers
      <3>5. Len(Layers(pkt)) \in {Len(pkt.hs), Len(pkt.hs) + 1}
        BY <1>1, LayersFact
      <3> QED BY <3>1, <3>2, <3>3, <3>4, <3>5
    <2> QED BY <2>1, <2>2 DEF Follows
  <1>4. CASE dec \notin {"dhcpd", "dhcpc"}
    <2>1. /\ k \in 1..Len(pkt.hs) /\ h.kind = dec /\ data = Start(pkt.hs, k)
          /\ left = Full(pkt) - Start(pkt.hs, k)
      BY <1>1, <1>4, AtHeader
    <2>2. Follows(pkt, k, left, Size(h), GetDecoder(k + 2, h.next))
      BY <1>1, <1>2, <2>1, Follow
    <2>3. AtLayer(dec, k)
      BY <1>1, <2>1, HeaderLayers
    <2>4. ASSUME NEW H, h \in H, \A x \in H : AtLayer(x.kind, k) PROVE Read(H) = {h}
      BY <1>1, <1>2, <2>1, <2>4, ReadExact
    <2> HIDE DEF h, k
    <2>5. CASE DecodeEth
      <3>1. dec = "eth" /\ k = 1
        BY <2>3, <2>5 DEF DecodeEth, AtLayer
      <3>2. h \in EthHeader
        BY <1>1, <2>1, <3>1, HeaderLayers DEF h
      <3>3. Read(EthHeader) = {h}
        BY <2>4, <3>1, <3>2, Sizes DEF AtLayer
      <3>4. len' = 14 /\ nextdec' = GetDecoder(3, h.next)
        BY <2>5, <3>3 DEF DecodeEth, Decoder, DecoderTo
      <3>5. Size(h) = 14
        BY <3>2, Sizes
      <3> QED BY <2>2, <3>1, <3>4, <3>5 DEF k
    <2>6. CASE DecodeWifi
      <3>1. dec = "wifi" /\ k = 1
        BY <2>3, <2>6 DEF DecodeWifi, AtLayer
      <3>2. h \in WifiHeader
        BY <1>1, <2>1, <3>1, HeaderLayers DEF h
      <3>3. Read(WifiHeader) = {h}
        BY <2>4, <3>1, <3>2, Sizes DEF AtLayer
      <3>4. \/ h.type = "DATA" /\ len' = 24 + 8 /\ nextdec' = GetDecoder(3, h.next)
            \/ h.type # "DATA" /\ nextdec' = NULL
        BY <2>6, <3>3 DEF DecodeWifi, Decoder, DecoderTo
      <3>5. CASE h.type = "DATA"
        <4>1. Size(h) = 32
          BY <3>2, <3>5, Sizes
        <4> QED BY <2>2, <3>1, <3>4, <3>5, <4>1 DEF k
      <3>6. CASE h.type # "DATA"
        <4>1. Len(pkt.hs) = 1
          BY <1>1, <2>1, <3>1, <3>6, Headers DEF WellFormed, h
        <4>2. h.next = "NONE"
          BY <1>1, <2>1, <3>1, <4>1, Headers DEF WellFormed, Last, h
        <4>3. GetDecoder(3, h.next) = NULL
          BY <4>2, NoDecoder
        <4>4. k = Len(Layers(pkt))
          BY <2>2, <3>1, <4>3 DEF Follows
        <4> QED BY <3>4, <3>6, <4>4 DEF Follows, k
      <3> QED BY <3>5, <3>6
    <2>7. CASE DecodeIp
      <3>1. dec = "ip" /\ k = 2
        BY <2>3, <2>7 DEF DecodeIp, AtLayer
      <3>2. h \in IpHeader
        BY <1>1, <2>1, <3>1, HeaderLayers DEF h
      <3>3. Read(IpHeader) = {h}
        BY <2>4, <3>1, <3>2, Sizes DEF AtLayer
      <3>4. len' = 4 * h.ihl /\ nextdec' = GetDecoder(4, h.next)
        BY <2>7, <3>3 DEF DecodeIp, Decoder, DecoderTo
      <3>5. Size(h) = 4 * h.ihl
        BY <3>2, Sizes
      <3> QED BY <2>2, <3>1, <3>4, <3>5 DEF k
    <2>8. CASE DecodeArp
      <3>1. dec = "arp" /\ k = 2
        BY <2>3, <2>8 DEF DecodeArp, AtLayer
      <3>2. h \in ArpHeader
        BY <1>1, <2>1, <3>1, HeaderLayers DEF h
      <3>3. Read(ArpHeader) = {h}
        BY <2>4, <3>1, <3>2, Sizes DEF AtLayer
      <3>4. len' = 8 + 2 * h.lens /\ nextdec' = NULL
        BY <2>8, <3>3 DEF DecodeArp, Decoder, DecoderTo
      <3>5. Size(h) = 8 + 2 * h.lens /\ GetDecoder(4, h.next) = NULL
        BY <3>2, Sizes, NoDecoder
      <3> QED BY <2>2, <3>1, <3>4, <3>5 DEF k
    <2>9. CASE DecodeTcp
      <3>1. dec = "tcp" /\ k = 3
        BY <2>3, <2>9 DEF DecodeTcp, AtLayer
      <3>2. h \in TcpHeader
        BY <1>1, <2>1, <3>1, HeaderLayers DEF h
      <3>3. Read(TcpHeader) = {h}
        BY <2>4, <3>1, <3>2, Sizes DEF AtLayer
      <3>4. len' = 4 * h.off /\ nextdec' = GetDecoder(5, h.next)
        BY <2>9, <3>3 DEF DecodeTcp, Decoder, DecoderTo
      <3>5. Size(h) = 4 * h.off
        BY <3>2, Sizes
      <3> QED BY <2>2, <3>1, <3>4, <3>5 DEF k
    <2>10. CASE DecodeUdp
      <3>1. dec = "udp" /\ k = 3
        BY <2>3, <2>10 DEF DecodeUdp, AtLayer
      <3>2. h \in UdpHeader
        BY <1>1, <2>1, <3>1, HeaderLayers DEF h
      <3>3. Read(UdpHeader) = {h}
        BY <2>4, <3>1, <3>2, Sizes DEF AtLayer
      <3>4. len' = 8 /\ nextdec' = GetDecoder(5, h.next)
        BY <2>10, <3>3 DEF DecodeUdp, Decoder, DecoderTo
      <3>5. Size(h) = 8
        BY <3>2, Sizes
      <3> QED BY <2>2, <3>1, <3>4, <3>5 DEF k
    <2>11. CASE DecodeIcmp \/ DecodeIcmp6
      <3>1. dec \in {"icmp", "icmp6"} /\ k = 3
        BY <2>3, <2>11 DEF DecodeIcmp, DecodeIcmp6, Decoder, DecoderTo, AtLayer
      <3>2. h \in IcmpHeader
        BY <1>1, <2>1, <3>1, HeaderLayers DEF h
      <3>3. len' = 8 /\ nextdec' = NULL
        BY <2>11 DEF DecodeIcmp, DecodeIcmp6, Decoder, DecoderTo
      <3>4. Size(h) = 8 /\ GetDecoder(5, h.next) = NULL
        BY <3>2, Sizes, NoDecoder
      <3> QED BY <2>2, <3>1, <3>3, <3>4 DEF k
    <2>12. dec # "ip6"
      BY <1>2, <2>1 DEF h
    <2>13. CASE DecodeIp6 \/ DecodeDhcp \/ DecodeIpNoMemory \/ DecodeTcpNoFinger
      BY <1>4, <2>12, <2>13
         DEF DecodeIp6, DecodeDhcp, DecodeIpNoMemory, DecodeTcpNoFinger, Decoder, DecoderTo
    <2> QED BY <2>5, <2>6, <2>7, <2>8, <2>9, <2>10, <2>11, <2>13 DEF DecoderStep
  <1> QED BY <1>3, <1>4

LEMMA ExactStep ==
  ASSUME ShapeInv, DataInv, ExactInv, [Next]_vars
  PROVE  ExactInv'
  <1>1. CASE DecoderStep
    <2> SUFFICES ASSUME pc' # "fatal", Exact' PROVE ExactInv'
      BY DEF ExactInv
    <2>1. left \in Int
      BY DEF DataInv
    <2>2. /\ pc = "decode" /\ ran' = Append(ran, dec) /\ UNCHANGED <<pkt, data, left>>
          /\ pc' \in {"advance", "options"}
      BY <1>1, <2>1, DecoderFact
    <2>3. Exact
      BY <2>2 DEF Exact
    <2>4. Follows(pkt, Len(ran) + 1, left, len', nextdec')
      BY <1>1, <2>3, DecodedExact
    <2>5. /\ data = Start(pkt.hs, Len(ran) + 1)
          /\ Len(ran) < Len(Layers(pkt)) /\ dec = Layers(pkt)[Len(ran) + 1]
          /\ \A i \in 1..Len(ran) : ran[i] = Layers(pkt)[i]
      BY <2>2, <2>3 DEF ExactInv
    <2>6. ran \in Seq(Decoders) /\ dec \in Decoders
      BY <2>2, LayerNames DEF ShapeInv, MayFollow
    <2>7. /\ Len(ran') = Len(ran) + 1 /\ ran'[Len(ran) + 1] = dec
          /\ \A i \in 1..Len(ran) : ran'[i] = ran[i]
      BY <2>2, <2>6, Extended
    <2>8. Len(ran) \in Nat
      BY <2>6
    <2>9. pkt \in Packet
      BY <2>2 DEF DataInv
    <2>10. Len(Layers(pkt)) \in Nat
      BY <2>9, LayersFact
    <2>11. Len(ran') <= Len(Layers(pkt))
      BY <2>5, <2>7, <2>8, <2>10
    <2>12. \A i \in 1..Len(ran') : ran'[i] = Layers(pkt)[i]
      BY <2>5, <2>7, <2>8
    <2> QED BY <2>2, <2>4, <2>5, <2>7, <2>11, <2>12 DEF ExactInv
  <1>2. CASE OptionStep
    BY <1>2, OptionFact DEF ExactInv, Exact
  <1>3. CASE OuterStep
    BY <1>3, OuterFact DEF ExactInv, Exact
  <1>4. ASSUME NEW p \in Packet, LmapDecode(p) PROVE ExactInv'
    <2>1. /\ pc' = "decode" /\ pkt' = p /\ dec' = p.hs[1].kind /\ data' = 0 /\ ran' = << >>
      BY <1>4, LmapDecodeFact
    <2>2. Start(p.hs, 1) = 0 /\ Len(p.hs) \in 1..3
      BY Offsets, Headers
    <2>3. Layers(p)[1] = p.hs[1].kind
      BY <2>2, LayersFact
    <2>4. Len(Layers(p)) \in {Len(p.hs), Len(p.hs) + 1}
      BY LayersFact
    <2>5. 0 < Len(Layers(p)) /\ 0 <= Len(Layers(p))
      <3>1. \A n \in 1..3 : \A m \in {n, n + 1} : 0 < m /\ 0 <= m
        OBVIOUS
      <3> QED BY <2>2, <2>4, <3>1
    <2> QED BY <2>1, <2>2, <2>3, <2>5 DEF ExactInv
  <1>5. CASE Advance
    <2>1. /\ pc = "advance" /\ UNCHANGED <<pkt, ran>> /\ left' = left - len
          /\ \/ /\ left' > 0 /\ nextdec # NULL
                /\ pc' = "decode" /\ data' = data + len /\ dec' = nextdec
             \/ ~(left' > 0 /\ nextdec # NULL) /\ pc' = "send"
      BY <1>5, AdvanceFact
    <2> SUFFICES ASSUME Exact PROVE ExactInv'
      BY <2>1 DEF ExactInv, Exact
    <2>2. /\ Len(ran) <= Len(Layers(pkt)) /\ \A i \in 1..Len(ran) : ran[i] = Layers(pkt)[i]
          /\ data = Start(pkt.hs, Len(ran)) /\ Follows(pkt, Len(ran), left, len, nextdec)
      BY <2>1 DEF ExactInv
    <2> QED BY <2>1, <2>2 DEF ExactInv, Follows
  <1>6. CASE DbBucketSend
    BY <1>6, SendFact DEF ExactInv
  <1> QED BY <1>1, <1>2, <1>3, <1>4, <1>5, <1>6, StepKinds

LEMMA LengthStep ==
  ASSUME ShapeInv, DataInv, FingerInv, ExactInv, LengthInv, [Next]_vars, FingerInv'
  PROVE  LengthInv'
  <1>1. CASE DecoderStep
    <2> SUFFICES ASSUME pc' # "fatal", Exact', finger' # NULL, Len(pkt'.hs) > 1
                 PROVE  /\ pkt'.hs[2].kind = "ip" /\ pkt'.hs[2].next = "TCP"
                        /\ finger'.lt = IF Len(ran') > 2 THEN 4 * (pkt'.hs[2].ihl + pkt'.hs[3].off)
                                        ELSE 4 * pkt'.hs[2].ihl
      BY DEF LengthInv
    <2>1. left \in Int
      BY DEF DataInv
    <2>2. pc = "decode" /\ ran' = Append(ran, dec) /\ UNCHANGED pkt
      BY <1>1, <2>1, DecoderFact
    <2>3. Exact /\ pkt.cut = 0
      BY <2>2 DEF Exact
    <2>4. pkt \in Packet
      BY <2>2 DEF DataInv
    <2>5. AtLayer(dec, Len(ran) + 1) /\ ran \in Seq(Decoders) /\ dec \in Decoders
      BY <2>2, LayerNames DEF ShapeInv, MayFollow
    <2>6. Len(ran') = Len(ran) + 1
      BY <2>2, <2>5, Extended
    <2>7. Len(ran) \in Nat
      BY <2>5
    <2>8. CASE DecodeIp
      <3>1. dec = "ip"
        BY <2>8 DEF DecodeIp
      <3>2. Len(ran) + 1 = 2
        BY <2>5, <3>1 DEF AtLayer
      <3>3. 2 \in 1..Len(pkt.hs) /\ pkt.hs[2].kind = "ip" /\ data = Start(pkt.hs, 2)
        BY <2>2, <2>3, <3>1, <3>2, AtHeader
      <3>4. pkt.hs[2] \in IpHeader
        BY <2>4, <3>3, HeaderLayers
      <3>5. Read(IpHeader) = {pkt.hs[2]}
        BY <2>3, <2>4, <3>3, <3>4, Sizes, ReadExact DEF AtLayer
      <3>6. finger = NULL
        BY <2>7, <3>2 DEF FingerInv
      <3>7. finger' = IF pkt.hs[2].next = "TCP"
                      THEN [set |-> {"TTL", "DF", "LT"}, lt |-> 4 * pkt.hs[2].ihl] ELSE finger
        BY <2>8, <3>5 DEF DecodeIp
      <3>8. pkt.hs[2].next = "TCP" /\ finger'.lt = 4 * pkt.hs[2].ihl
        BY <3>6, <3>7
      <3>9. Len(ran') = 2
        BY <2>6, <3>2
      <3> QED BY <2>2, <3>3, <3>8, <3>9
    <2>9. CASE DecodeTcp
      <3>1. dec = "tcp"
        BY <2>9 DEF DecodeTcp
      <3>2. Len(ran) + 1 = 3
        BY <2>5, <3>1 DEF AtLayer
      <3>3. 3 \in 1..Len(pkt.hs) /\ pkt.hs[3].kind = "tcp" /\ data = Start(pkt.hs, 3)
        BY <2>2, <2>3, <3>1, <3>2, AtHeader
      <3>4. pkt.hs[3] \in TcpHeader
        BY <2>4, <3>3, HeaderLayers
      <3>5. Read(TcpHeader) = {pkt.hs[3]}
        BY <2>3, <2>4, <3>3, <3>4, Sizes, ReadExact DEF AtLayer
      <3>6. finger # NULL /\ finger' = Push({"WINDOW", "TCPFLAG", "LT"}, 4 * pkt.hs[3].off)
        BY <2>9, <3>5 DEF DecodeTcp
      <3>7. Len(ran) = 2
        <4>1. \A n \in Nat : n + 1 = 3 => n = 2
          OBVIOUS
        <4> QED BY <2>7, <3>2, <4>1
      <3>8. pkt.hs[2].kind = "ip" /\ pkt.hs[2].next = "TCP" /\ finger.lt = 4 * pkt.hs[2].ihl
        BY <2>2, <2>3, <3>6, <3>7 DEF LengthInv
      <3>9. finger'.lt = finger.lt + 4 * pkt.hs[3].off
        BY <3>6 DEF Push
      <3>10. pkt.hs[2].ihl \in Nat /\ pkt.hs[3].off \in Nat
        <4>1. Len(pkt.hs) \in 1..3
          BY <2>4, Headers
        <4>2. 2 \in 1..Len(pkt.hs)
          BY <3>3, <4>1
        <4>3. pkt.hs[2] \in IpHeader
          BY <2>4, <3>8, <4>2, HeaderLayers
        <4> QED BY <3>4, <4>3, Sizes
      <3>11. finger'.lt = 4 * (pkt.hs[2].ihl + pkt.hs[3].off)
        BY <3>8, <3>9, <3>10
      <3>12. Len(ran') = 3
        BY <2>6, <3>2
      <3> QED BY <2>2, <3>8, <3>11, <3>12
    <2>10. CASE ~DecodeIp /\ ~DecodeTcp
      <3>1. finger' = finger
        BY <1>1, <2>10 DEF DecoderStep, DecodeEth, DecodeWifi, DecodeIpNoMemory, DecodeIp6, DecodeArp,
             DecodeTcpNoFinger, DecodeUdp, DecodeIcmp, DecodeIcmp6, DecodeDhcp
      <3>2. Len(ran) > 1 /\ ("WINDOW" \in finger.set <=> Len(ran) > 2)
        BY <3>1 DEF FingerInv
      <3>3. "WINDOW" \in finger.set <=> Len(ran') > 2
        BY <3>1 DEF FingerInv
      <3>4. Len(ran) > 2 /\ Len(ran') > 2
        BY <2>6, <2>7, <3>2, <3>3
      <3> QED BY <2>2, <2>3, <3>1, <3>4 DEF LengthInv
    <2> QED BY <2>8, <2>9, <2>10
  <1>2. CASE OptionStep
    <2>1. /\ UNCHANGED <<pkt, ran>> /\ pc = "options" /\ finger # NULL /\ finger \in Finger
          /\ option \in Option
      BY <1>2, OptionFact DEF FingerInv
    <2>2. finger'.lt = finger.lt
      <3>1. CASE TcpOption
        <4>1. option.push \in SUBSET Parameter
          BY <2>1 DEF Option, EOL, Parameter
        <4>2. finger' = Push(option.push, 0)
          BY <3>1 DEF TcpOption
        <4>3. finger.lt \in Nat /\ finger'.lt = finger.lt + 0
          BY <2>1, <4>1, <4>2, Pushes
        <4> QED BY <4>3
      <3>2. CASE TcpOptionEnd \/ TcpReturn
        BY <3>2 DEF TcpOptionEnd, TcpReturn
      <3> QED BY <1>2, <3>1, <3>2 DEF OptionStep
    <2> QED BY <2>1, <2>2 DEF LengthInv, Exact
  <1>3. CASE OuterStep
    BY <1>3, OuterFact DEF LengthInv, Exact
  <1>4. ASSUME NEW p \in Packet, LmapDecode(p) PROVE LengthInv'
    BY <1>4, LmapDecodeFact DEF LengthInv
  <1>5. CASE Advance
    BY <1>5, AdvanceFact DEF LengthInv, Exact
  <1>6. CASE DbBucketSend
    BY <1>6, SendFact DEF LengthInv
  <1> QED BY <1>1, <1>2, <1>3, <1>4, <1>5, <1>6, StepKinds

-----------------------------------------------------------------------------
(* The theorems *)

LEMMA InitInv == Init => EngineInv
  <1> SUFFICES ASSUME Init PROVE EngineInv
    OBVIOUS
  <1>1. Len(ran) = 0 /\ ran \in Seq(Decoders)
    BY DEF Init
  <1>2. stat \in [StatNames -> Nat] /\ \A c \in StatNames : stat[c] = 0
    BY DEF Init
  <1> QED BY <1>1, <1>2, Counters
       DEF Init, EngineInv, ShapeInv, DataInv, StatInv, FingerInv, ExactInv, LengthInv

\* The inductive invariant of the capture engine, for every packet and for any
\* number of them.
THEOREM EngineInvariant == Spec => []EngineInv
  <1>1. Init => EngineInv
    BY InitInv
  <1>2. EngineInv /\ [Next]_vars => EngineInv'
    BY ShapeStep, DataStep, StatStep, FingerStep, ExactStep, LengthStep DEF EngineInv
  <1> QED BY <1>1, <1>2, PTL DEF Spec

\* Each decoder finds captured bytes at data, whatever lengths the headers
\* claim, but for the link decoder on a capture of no bytes, and at most four
\* decoders run.
THEOREM DecodersStayInside == Spec => []DataInside
  <1>1. EngineInv => DataInside
    <2> SUFFICES ASSUME EngineInv, pc = "decode"
                 PROVE  /\ left > 0 \/ (left = 0 /\ ran = << >>)
                        /\ data + left = Full(pkt) - pkt.cut
                        /\ Len(ran) < 4
      BY DEF DataInside
    <2>1. Len(ran) + 1 \in 1..4
      BY LayerNames DEF EngineInv, ShapeInv, MayFollow
    <2>2. Len(ran) \in Nat
      BY DEF EngineInv, ShapeInv
    <2>3. \A n \in Nat : n + 1 \in 1..4 => n < 4
      OBVIOUS
    <2>4. Len(ran) < 4
      BY <2>1, <2>2, <2>3
    <2> QED BY <2>4 DEF EngineInv, DataInv
  <1> QED BY <1>1, EngineInvariant, PTL

\* A packet that was captured whole and is not IPv6 is decoded by exactly the
\* decoders of its headers, in their order.
THEOREM WholePacketsDecoded == Spec => []OldLayersDecoded
  <1>1. EngineInv => OldLayersDecoded
    <2> SUFFICES ASSUME EngineInv, pc = "send", Exact PROVE ran = Layers(pkt)
      BY DEF OldLayersDecoded, LayersDecoded, Exact
    <2>1. ran \in Seq(Decoders)
      BY DEF EngineInv, ShapeInv
    <2>2. Layers(pkt) \in Seq(Decoders)
      BY LayersFact DEF EngineInv, DataInv
    <2>3. Len(ran) = Len(Layers(pkt)) /\ \A i \in 1..Len(ran) : ran[i] = Layers(pkt)[i]
      BY DEF EngineInv, ExactInv
    <2> QED BY <2>1, <2>2, <2>3
  <1> QED BY <1>1, EngineInvariant, PTL

\* The counters keep the nesting of the protocols, also when the thread was
\* cancelled or the program ended between two decoders.
THEOREM CountersNest == Spec => []StatsNested
  <1>1. EngineInv => StatsNested
    BY DEF EngineInv, StatInv, StatsNested
  <1> QED BY <1>1, EngineInvariant, PTL

\* decode_tcp misses a fingerprint only after decode_ip6.
THEOREM FingerprintMissing == Spec => []FatalOnlyIp6
  <1>1. EngineInv => FatalOnlyIp6
    <2> SUFFICES ASSUME EngineInv, pc = "fatal", ran # << >>, ran[Len(ran)] = "tcp"
                 PROVE  "ip6" \in Range(ran)
      BY DEF FatalOnlyIp6, Last
    <2>1. ran \in Seq(Decoders) /\ \A i \in 1..Len(ran) : AtLayer(ran[i], i)
      BY DEF EngineInv, ShapeInv
    <2>2. Len(ran) \in 1..Len(ran) /\ Len(ran) \in Nat
      BY <2>1
    <2>3. AtLayer("tcp", Len(ran))
      BY <2>1, <2>2
    <2>4. Len(ran) = 3
      BY <2>3 DEF AtLayer
    <2>5. ran[2] = "ip6"
      BY <2>4 DEF EngineInv, FingerInv
    <2>6. 2 \in DOMAIN ran
      BY <2>1, <2>4
    <2> QED BY <2>5, <2>6 DEF Range
  <1> QED BY <1>1, EngineInvariant, PTL

\* A fingerprint that db_bucket_send shows was begun by decode_ip; it is complete
\* if and only if decode_tcp ran.  If the packet was captured whole it is, and its
\* length is that of the packet's two headers.
THEOREM FingerprintIsOfPacket == Spec => []FingerprintShown
  <1>1. EngineInv => FingerprintShown
    <2> SUFFICES ASSUME EngineInv, pc = "send", finger # NULL
                 PROVE  /\ "ip" \in Range(ran)
                        /\ ("tcp" \in Range(ran)) <=> ("WINDOW" \in finger.set)
                        /\ finger.lt < 256
                        /\ pkt.cut = 0 /\ Len(pkt.hs) = 3 /\ pkt.hs[2].kind = "ip" =>
                             /\ pkt.hs[3].kind = "tcp" /\ "WINDOW" \in finger.set
                             /\ finger.lt = 4 * (pkt.hs[2].ihl + pkt.hs[3].off)
      BY DEF FingerprintShown
    <2>1. ran \in Seq(Decoders) /\ \A i \in 1..Len(ran) : AtLayer(ran[i], i)
      BY DEF EngineInv, ShapeInv
    <2>2. Len(ran) \in Nat
      BY <2>1
    <2>3. /\ finger \in Finger /\ Len(ran) > 1 /\ ran[2] = "ip"
          /\ Len(ran) > 2 => ran[3] = "tcp"
          /\ "WINDOW" \in finger.set <=> Len(ran) > 2
          /\ finger.lt <= IF Len(ran) > 2 THEN 120 ELSE 60
      BY DEF EngineInv, FingerInv
    <2>4. DOMAIN ran = 1..Len(ran)
      BY <2>1
    <2>5. "ip" \in Range(ran)
      <3>1. 2 \in DOMAIN ran
        BY <2>2, <2>3, <2>4
      <3> QED BY <2>3, <3>1 DEF Range
    <2>6. "tcp" \in Range(ran) => Len(ran) > 2
      <3> SUFFICES ASSUME "tcp" \in Range(ran) PROVE Len(ran) > 2
        OBVIOUS
      <3>1. PICK i \in 1..Len(ran) : ran[i] = "tcp"
        BY <2>4 DEF Range
      <3>2. i = 3
        BY <2>1, <3>1 DEF AtLayer
      <3> QED BY <2>2, <3>2
    <2>7. Len(ran) > 2 => "tcp" \in Range(ran)
      <3> SUFFICES ASSUME Len(ran) > 2 PROVE "tcp" \in Range(ran)
        OBVIOUS
      <3>1. 3 \in DOMAIN ran
        BY <2>2, <2>4
      <3> QED BY <2>3, <3>1 DEF Range
    <2>8. finger.lt < 256
      <3>1. finger.lt \in Nat
        BY <2>3 DEF Finger
      <3>2. finger.lt <= 120
        BY <2>3, <3>1
      <3> QED BY <3>1, <3>2
    <2>9. ASSUME pkt.cut = 0, Len(pkt.hs) = 3, pkt.hs[2].kind = "ip"
          PROVE  /\ pkt.hs[3].kind = "tcp" /\ "WINDOW" \in finger.set
                 /\ finger.lt = 4 * (pkt.hs[2].ihl + pkt.hs[3].off)
      <3>1. pkt \in Packet
        BY DEF EngineInv, DataInv
      <3>2. 1 \in 1..Len(pkt.hs) /\ 2 \in 1..Len(pkt.hs) /\ 3 \in 1..Len(pkt.hs)
        BY <2>9
      <3>3. AtLayer(pkt.hs[1].kind, 1) /\ AtLayer(pkt.hs[3].kind, 3)
        BY <3>1, <3>2, HeaderLayers
      <3>4. Exact
        <4>1. pkt.hs[1].kind # "ip6" /\ pkt.hs[3].kind # "ip6"
          BY <3>3 DEF AtLayer
        <4>2. \A i \in 1..Len(pkt.hs) : i \in {1, 2, 3}
          BY <2>9
        <4> QED BY <2>9, <4>1, <4>2 DEF Exact
      <3>5. Len(ran) > 2
        <4>1. Len(ran) = Len(Layers(pkt))
          BY <3>4 DEF EngineInv, ExactInv
        <4>2. Len(Layers(pkt)) \in {Len(pkt.hs), Len(pkt.hs) + 1}
          BY <3>1, LayersFact
        <4>3. Len(Layers(pkt)) \in {3, 4}
          BY <2>9, <4>2
        <4> QED BY <4>1, <4>3
      <3>6. /\ pkt.hs[2].next = "TCP"
            /\ finger.lt = IF Len(ran) > 2 THEN 4 * (pkt.hs[2].ihl + pkt.hs[3].off)
                           ELSE 4 * pkt.hs[2].ihl
        BY <2>9, <3>4 DEF EngineInv, LengthInv
      <3>7. pkt.hs[2].next = TypeOf[pkt.hs[3].kind]
        <4>1. 2 \in 1..Len(pkt.hs) - 1
          BY <2>9
        <4>2. WellFormed(pkt)
          BY <3>1, Headers
        <4>3. pkt.hs[2].next = TypeOf[pkt.hs[2 + 1].kind]
          BY <4>1, <4>2 DEF WellFormed
        <4> QED BY <4>3
      <3>8. pkt.hs[3].kind = "tcp"
        BY <3>3, <3>6, <3>7 DEF AtLayer, TypeOf
      <3> QED BY <2>3, <3>5, <3>6, <3>8
    <2> QED BY <2>3, <2>5, <2>6, <2>7, <2>8, <2>9
  <1> QED BY <1>1, EngineInvariant, PTL
=============================================================================
