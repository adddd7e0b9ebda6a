----------------------------- MODULE PeerConfig -----------------------------
(***************************************************************************)
(* Config.load, getLocalAddress and getLocalIP of src/peer/config.go.      *)
(* The viper settings peer.address and peer.addressAutoDetect, and what    *)
(* net.InterfaceAddrs returns, are fixed for a behaviour; load then sets   *)
(* Config.PeerAddr.  An address is abstracted to its host and port: the   *)
(* string forms of net.SplitHostPort and net.JoinHostPort are a bijection *)
(* on these, and the model keeps the pair.                                 *)
(***************************************************************************)
EXTENDS Naturals, Sequences, SequencesExt

CONSTANTS
  Hosts,        \* hosts that peer.address may name
  Unspecified,  \* the hosts that net.ParseIP reads as IsUnspecified
  PortNums,     \* ports that peer.address may name
  Addrs,        \* results of net.InterfaceAddrs: [failed, list], list a
                \* sequence of [ip, loop, v4]
  Settings      \* values of peer.address: [form, host, port], form "unset"
                \* (empty), "noport" (not host:port), or "hostport"

ASSUME Unspecified \subseteq Hosts

VARIABLES
  address,      \* viper.GetString("peer.address")
  autoDetect,   \* viper.GetBool("peer.addressAutoDetect")
  ifaddrs,      \* what net.InterfaceAddrs() returns
  peerAddr,     \* Config.PeerAddr
  err,          \* load's error is non-nil
  loaded        \* load has been called

vars == <<address, autoDetect, ifaddrs, peerAddr, err, loaded>>

\* The empty string, returned with every error.
NoAddr == [host |-> "", port |-> 0]

(***************************************************************************)
(* getLocalIP, lines 75-89: the first address that is an *net.IPNet, not  *)
(* loopback, and IPv4 (To4 non-nil); else an error.                        *)
(***************************************************************************)
\* Mutant: the To4 check dropped, so an IPv6 address may be returned.
GetLocalIPAnyFamily(addrs) ==
  IF addrs.failed THEN [ok |-> FALSE, ip |-> ""]
  ELSE LET i == SelectInSeq(addrs.list, LAMBDA a : ~a.loop) IN
       IF i = 0 THEN [ok |-> FALSE, ip |-> ""]
       ELSE [ok |-> TRUE, ip |-> addrs.list[i].ip]

GetLocalIP(addrs) ==
  IF addrs.failed THEN [ok |-> FALSE, ip |-> ""]
  ELSE LET i == SelectInSeq(addrs.list, LAMBDA a : ~a.loop /\ a.v4) IN
       IF i = 0 THEN [ok |-> FALSE, ip |-> ""]
       ELSE [ok |-> TRUE, ip |-> addrs.list[i].ip]

(***************************************************************************)
(* getLocalAddress, lines 42-72, in the order of its early returns: unset *)
(* address; no host:port form; getLocalIP failing (whatever the rest);    *)
(* an unspecified host; the auto-detect flag; else peer.address itself.   *)
(***************************************************************************)
GetLocalAddress(addr, auto, addrs) ==
  IF addr.form # "hostport" THEN [ok |-> FALSE, addr |-> NoAddr]
  ELSE LET local == GetLocalIP(addrs)
           detected == [host |-> local.ip, port |-> addr.port]
       IN  IF ~local.ok THEN [ok |-> FALSE, addr |-> NoAddr]
           ELSE IF addr.host \in Unspecified \/ auto
                THEN [ok |-> TRUE, addr |-> detected]
                ELSE [ok |-> TRUE, addr |-> [host |-> addr.host, port |-> addr.port]]

Init ==
  /\ address \in Settings
  /\ autoDetect \in BOOLEAN
  /\ ifaddrs \in Addrs
  /\ peerAddr = NoAddr
  /\ err = FALSE
  /\ loaded = FALSE

\* Config.load, lines 35-39: PeerAddr is assigned even when err is non-nil.
Load ==
  LET r == GetLocalAddress(address, autoDetect, ifaddrs) IN
  /\ ~loaded
  /\ peerAddr' = r.addr
  /\ err' = ~r.ok
  /\ loaded' = TRUE
  /\ UNCHANGED <<address, autoDetect, ifaddrs>>

Next == Load

Spec == Init /\ [][Next]_vars

-----------------------------------------------------------------------------
\* The IPv4, non-loopback addresses of this machine.
LocalIPv4 ==
  IF ifaddrs.failed THEN {}
  ELSE {a.ip : a \in {a \in ToSet(ifaddrs.list) : ~a.loop /\ a.v4}}

(***************************************************************************)
(* A loaded peer address is one other peers can dial: it keeps the        *)
(* configured port, and its host is either the configured host (a         *)
(* specified one, with auto-detection off) or a non-loopback IPv4 address *)
(* of this machine, never an unspecified or loopback or IPv6 one.          *)
(***************************************************************************)
AddressIsUsable ==
  loaded /\ ~err =>
    /\ peerAddr.port = address.port
    /\ \/ /\ peerAddr.host = address.host
          /\ address.host \notin Unspecified
          /\ ~autoDetect
       \/ peerAddr.host \in LocalIPv4

(***************************************************************************)
(* An explicit, well-formed peer.address with a specified host and         *)
(* auto-detection off is used as it is (the function comment, line 41:    *)
(* only the auto-detect setting affects the result).                       *)
(***************************************************************************)
ExplicitAddressHonoured ==
  (loaded /\ address.form = "hostport"
          /\ address.host \notin Unspecified /\ ~autoDetect)
    => ~err /\ peerAddr = [host |-> address.host, port |-> address.port]

=============================================================================
