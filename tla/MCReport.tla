------------------------------- MODULE MCReport -------------------------------
(* Report with small files and packets: the first three macs share a bucket. *)
EXTENDS Report

Mac(m, v) == [kind |-> "entry", mac |-> m, vendor |-> v]
Vendors ==
  {Mac(<<0, 1, 16>>, "Gotham"), Mac(<<0, 2, 233>>, "Cs"), Mac(<<0, 7, 202>>, "Creatix"),
   Mac(<<0, 0, 1>>, "Xerox"), Mac(<<0, 2, 233>>, "Csi"), [kind |-> "bad"]}
MCMacFiles ==
  {<<Mac(<<0, 1, 16>>, "Gotham"), Mac(<<0, 2, 233>>, "Cs"), c>> : c \in Vendors}
    \cup {<< >>}

Finger(ttl, flag, lt) ==
  <<"1", "6", "D", "0", ":", "0", "5", "B", "4", ":", "4", ttl, ":", "W", "S", ":",
    "0", ":", "0", ":", "1", ":", "0", ":", flag, ":", "2", lt>>
FingerLine(t, os) == [text |-> t \o <<":">>, os |-> os]
Comment == [text |-> << >>, os |-> "none"]
Blank == [text |-> <<EOL>>, os |-> "none"]
MCFingerFiles ==
  {<< >>,
   <<Comment, Blank, FingerLine(Finger("0", "S", "C"), "Linux")>>,
   <<FingerLine(Finger("0", "S", "C"), "Linux"), FingerLine(Finger("0", "A", "C"), "BSD"),
     Blank, FingerLine(Finger("0", "S", "C"), "Linux 2")>>}

MCJunk == {[i \in 1..FINGER_LEN |-> c] : c \in {NUL, "M"}}

MCOption ==
  {[param |-> "NOP", value |-> 1], [param |-> "SACK", value |-> 1],
   [param |-> "MSS", value |-> 1460], [param |-> "MSS", value |-> 65535],
   [param |-> "WS", value |-> 0], [param |-> "WS", value |-> 171],
   [param |-> "TIMESTAMP", value |-> 1], [param |-> "UNKNOWN", value |-> 0]}

OptionLists ==
  {<< >>} \cup {<<a>> : a \in MCOption} \cup {<<a, b>> : a \in MCOption, b \in MCOption}

Ipv4 == <<10, 0, 0, 1>>

TcpPackets ==
  [l3 : {"INET"}, src : {Ipv4}, dst : {<<10, 0, 0, 2>>}, tcp : {"SYN", "SYNACK"},
   ttl : {64}, df : BOOLEAN, ihl : {5, 15}, win : {44015}, opts : OptionLists]
    \cup
  [l3 : {"INET"}, src : {Ipv4}, dst : {<<10, 0, 0, 2>>}, tcp : {"NO", "CUT", "OTHER", "SYN"},
   ttl : {0, 1, 2, 3, 63, 64, 65, 128, 129, 255}, df : {TRUE}, ihl : {5}, win : {5840},
   opts : {<< >>}]

Words ==
  [1..8 -> {0, 1}]
    \cup {<<f, 0, 0, 0, 0, 0, 0, 1>> : f \in {65281, 65282, 65285, 65288, 65294, 65152, 65216}}
    \cup {<<0, 0, 0, 0, 0, 65535, a, 1>> : a \in {0, 258}}

MCPackets ==
  [l3 : {"NONE"}] \cup TcpPackets
    \cup [l3 : {"INET6"}, src : Words,
          dst : {<<0, 0, 0, 0, 0, 0, 0, 1>>, <<0, 0, 0, 0, 0, 65535, 258, 1>>, <<1, 0, 0, 1, 0, 0, 0, 1>>}]
==============================================================================
