---------------------------- MODULE MC_PeerConfig ----------------------------
(***************************************************************************)
(* PeerConfig for TLC: every peer.address form over two ports and four    *)
(* hosts (both unspecified spellings, a name, an address), and every list *)
(* of up to two interface addresses over the four kinds getLocalIP tells   *)
(* apart, plus a failing InterfaceAddrs.                                   *)
(***************************************************************************)
EXTENDS PeerConfig

MCHosts == {"0.0.0.0", "::", "peer0", "10.0.0.9"}
MCUnspecified == {"0.0.0.0", "::"}
MCPorts == {7051, 7052}

MCSettings ==
  [form : {"unset", "noport"}, host : {""}, port : {0}]
    \cup [form : {"hostport"}, host : MCHosts, port : MCPorts]

\* Loopback IPv4, loopback IPv6, link-local IPv6, and a LAN IPv4 address.
IfAddrs ==
  { [ip |-> "127.0.0.1", loop |-> TRUE,  v4 |-> TRUE],
    [ip |-> "::1",       loop |-> TRUE,  v4 |-> FALSE],
    [ip |-> "fe80::1",   loop |-> FALSE, v4 |-> FALSE],
    [ip |-> "10.0.0.5",  loop |-> FALSE, v4 |-> TRUE] }

MCAddrs ==
  [failed : {TRUE}, list : {<<>>}]
    \cup [failed : {FALSE}, list : BoundedSeq(IfAddrs, 2)]
=============================================================================
