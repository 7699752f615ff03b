---------------------------- MODULE PacketPolicy ----------------------------
(***************************************************************************)
(* What the engine hands to fw_apply (FwPolicy, FwRule and FwApp of        *)
(* core/fw.h) and what a filter can see of a packet: the vocabulary of     *)
(* NftChains and WfpFilters.                                               *)
(*                                                                         *)
(* A packet is a record                                                    *)
(*   dir     "out" or "in"                                                 *)
(*   app     the program it belongs to                                     *)
(*   root    whether that program runs as root                             *)
(*   proto   "tcp", "udp" or "icmp"                                        *)
(*   port    its destination port, none for icmp                           *)
(*   remote  the address at the other end, Here for the loopback           *)
(*   known   it belongs to a connection that exists already                *)
(* and a port is one of those the filters tell apart, or another.          *)
(*                                                                         *)
(* Abstracted: IPv4 and IPv6 (a filter is added for either, or for the     *)
(* family of its address), prefixes (an address is listed or not), the     *)
(* text of the configuration: any default but allow refuses, any action    *)
(* but allow blocks, any direction but in and out is both.                 *)
(***************************************************************************)
EXTENDS Naturals, Sequences

CONSTANTS
  Apps,       \* programs the engine knows, other than itself
  Self,       \* WireCee, which is root on Linux
  Remotes,    \* addresses
  Here,       \* the loopback address
  Packets,    \* the packets looked at
  Any         \* no restriction: the remote, port or protocol of a rule

Dirs == {"out", "in"}

\* 53, 67 and 547 (DHCP server), 68 and 546 (DHCP client), 443, 853.
Ports == {"dns", "dhcpServer", "dhcp6Server", "dhcpClient", "dhcp6Client",
          "https", "dot", "other"}

Packet ==
  {c \in [dir : Dirs, app : Apps \cup {Self}, root : BOOLEAN, proto : {"tcp", "udp", "icmp"},
          port : Ports \cup {"none"}, remote : Remotes \cup {Here}, known : BOOLEAN] :
     (c.proto = "icmp" <=> c.port = "none") /\ (c.app = Self => c.root)}

ASSUME PacketAssumption ==
  /\ Self \notin Apps
  /\ Here \notin Remotes
  /\ Any \notin {"tcp", "udp", "icmp", "bad", "none"} \cup Ports
  /\ \A S \in SUBSET Remotes : S # Any
  /\ Packets \subseteq Packet

\* remote is Any or the listed addresses that could be read; port may be one
\* that is not a port.
Rule ==
  [action : {"allow", "block"}, dir : Dirs \cup {"both"},
   remote : {Any} \cup SUBSET Remotes, port : Ports \cup {Any, "bad"},
   proto : {"tcp", "udp", Any}]

\* Only enabled rules and programs with a path are handed over; "none" is a
\* program that is not.
Policy ==
  [posture : {"on", "lockdown", "off"}, default : [Dirs -> {"allow", "ask"}],
   app : [Apps -> {"allow", "block", "none"}], rules : Seq(Rule),
   guard : BOOLEAN, doh : BOOLEAN]

Lockdown(p) == p.posture = "lockdown"

\* default_out_block and default_in_block.
Refuses(p, dir) == Lockdown(p) \/ p.default[dir] # "allow"

Blocked(p, c) == c.app \in Apps /\ p.app[c.app] = "block"
Allowed(p, c) == c.app \in Apps /\ p.app[c.app] = "allow"

\* Encrypted DNS over TLS, or over HTTPS to one of the resolvers a build lists:
\* the lists of the two builds are not the same.
EncryptedDns(c, resolvers) == c.port = "dot" \/ (c.port = "https" /\ c.remote \in resolvers)

\* The packets a rule is about, in either build.
Covers(r, c) ==
  /\ r.dir \in {c.dir, "both"}
  /\ r.remote = Any \/ c.remote \in r.remote
  /\ r.port = Any \/ r.port = c.port
  /\ r.proto = Any \/ r.proto = c.proto
=============================================================================
