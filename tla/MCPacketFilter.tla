-------------------------- MODULE MCPacketFilter ---------------------------
(***************************************************************************)
(* A small instance of PacketFilter: a program, run by a user and by root, *)
(* a resolver both builds list, one only Windows lists and an address      *)
(* neither does, a rule that allows everything, one that blocks part of    *)
(* it, and one that cannot be expressed, two at a time in any order.       *)
(***************************************************************************)
EXTENDS PacketFilter

CONSTANTS a1, self, peer, doh, winDoh, here, any

OneApp     == {a1}
Addresses  == {peer, doh, winDoh}
LinuxList  == {doh}
WinList    == {doh, winDoh}

\* New packets of every kind, from the loopback and of connections that exist
\* only those whose kind makes a difference.
SomePackets ==
  {c \in Packet :
     /\ c.proto = "tcp" => c.port \notin {"dhcpClient", "dhcp6Server", "dhcp6Client"}
     /\ c.remote = here \/ c.known => c.proto = "tcp" /\ c.port \in {"dns", "other"}
     /\ c.known => c.remote = peer
     /\ c.remote = winDoh => c.proto # "icmp" /\ c.port = "https"
     /\ c.dir = "in" => c.remote \in {peer, here} /\ c.port \notin {"https", "dot"}}

Menu ==
  {[action |-> "allow", dir |-> "both", remote |-> any, port |-> any, proto |-> any],
   [action |-> "block", dir |-> "out", remote |-> {peer}, port |-> any, proto |-> "tcp"],
   [action |-> "block", dir |-> "both", remote |-> {}, port |-> "bad", proto |-> any]}
=============================================================================
