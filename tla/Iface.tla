-------------------------------- MODULE Iface --------------------------------
(***************************************************************************)
(* The functions of src/lmap_if.c that the info screen asks for the        *)
(* configuration of the interface, each as the set of its results when o   *)
(* descriptors are open: what it returns and how many are open then.  The  *)
(* addresses they deliver are left out.  A program has at most FdLimit     *)
(* descriptors; socket and fopen fail beyond.                              *)
(***************************************************************************)
EXTENDS Integers

CONSTANT FdLimit

ASSUME IfaceAssumption == FdLimit \in Nat \ {0}

Result(r, o) == [ret |-> r, open |-> o]

\* Only with a descriptor of its own does a function get further than the
\* results in failed.
Needing(o, failed, results) == {r \in results : r.ret \in failed \/ o < FdLimit}

\* get_iface_ip for AF_INET; ioctl fails on a socket that could not be opened.
GetIfaceIp(o) ==
  Needing(o, {"ENOADDRESS"}, {Result("ENOADDRESS", o), Result("ESUCCESS", o)})

\* get_iface_ip for AF_INET6 does nothing, with success.
GetIfaceIp6(o) == {Result("ESUCCESS", o)}

GetIfaceMask(o) ==
  Needing(o, {"ENOADDRESS"}, {Result("ENOADDRESS", o), Result("ESUCCESS", o)})

\* The file is closed whether or not it names a gateway.
GetDefaultGw(o) ==
  Needing(o, {"EINVALID"},
          {Result("EINVALID", o), Result("ENOTFOUND", o), Result("ESUCCESS", o)})

\* A nameserver ends the search before the file is closed.  A line with nothing
\* but a blank after "nameserver" gives strtok nothing to return, and the program
\* follows a null pointer.
GetDefaultDns(o) ==
  Needing(o, {"EINVALID"},
          {Result("EINVALID", o), Result("ENOTFOUND", o), Result("ESUCCESS", o + 1),
           Result("SIGSEGV", o + 1)})

\* Without the hardware address the program ends in ERROR_MSG.
GetIfaceLl(o) ==
  Needing(o, {"ERROR"}, {Result("ERROR", o), Result("ESUCCESS", o)})

\* The results of one function after each result of another that returned.
Then(results, f(_)) ==
  {r \in results : r.ret = "SIGSEGV"}
    \cup UNION {f(r.open) : r \in {r \in results : r.ret # "SIGSEGV"}}

\* print_ifaceconfig asks in this order and draws the answers.
PrintIfaceconfig(o) ==
  Then(Then(Then(Then(Then(GetIfaceIp(o), GetIfaceIp6), GetIfaceMask), GetDefaultGw),
            GetDefaultDns), GetIfaceLl)
==============================================================================
