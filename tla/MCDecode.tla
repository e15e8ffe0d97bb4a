------------------------------ MODULE MCDecode ------------------------------
(* Decode with both link layers and one that has no decoder.               *)
EXTENDS Decode

MCDlts == {"EN10MB", "IEEE802_11", "PPP"}
MCNets == {"IP", "IP6", "ARP", "NONE"}
=============================================================================
