----------------------------- MODULE NftChains -----------------------------
(***************************************************************************)
(* The two chains fw_apply writes for nftables (linux/fw_nft.c), as one    *)
(* packet meets them: the verdicts of the lines that match it, in order.   *)
(* The first decides; a packet no line matches is accepted.                *)
(*                                                                         *)
(* A line the code leaves out for a policy matches nothing, and the two    *)
(* lines of a rule with addresses of both families are one.                *)
(*                                                                         *)
(* Abstracted: counters and comments; nft is asked to load the chains and  *)
(* does; the control groups exist and hold the processes of the programs   *)
(* they are for (sync_processes moves them, some time later).              *)
(***************************************************************************)
EXTENDS PacketPolicy

CONSTANT NftResolvers   \* DOH_V4 and DOH_V6 of linux/fw_nft.c

ASSUME NftResolversAssumption == NftResolvers \subseteq Remotes

Accept(matches) == IF matches THEN <<"accept">> ELSE <<>>
Drop(matches)   == IF matches THEN <<"drop">> ELSE <<>>

\* emit_rule: nothing for a rule whose port is no port, or none of whose
\* addresses could be read.
Emitted(r) == r.port # "bad" /\ r.remote # {}

\* _StopAtBad is a mutant that gives up at the first rule it cannot express.
Applies_StopAtBad(p, c) ==
  {i \in DOMAIN p.rules : Covers(p.rules[i], c) /\ \A j \in 1 .. i : Emitted(p.rules[j])}

\* The rules that match a packet.
Applies(p, c) == {i \in DOMAIN p.rules : Emitted(p.rules[i]) /\ Covers(p.rules[i], c)}

\* The verdict of the first of them.
Rules(p, c) ==
  LET first == {i \in Applies(p, c) : \A j \in Applies(p, c) : i <= j}
  IN Accept(\E i \in first : p.rules[i].action = "allow") \o
     Drop(\E i \in first : p.rules[i].action # "allow")

Loopback(c) == Accept(c.remote = Here)

\* The DNS guard: port 53 for root alone.
Guard(p, c) == Accept(p.guard /\ c.port = "dns" /\ c.root) \o Drop(p.guard /\ c.port = "dns")

\* emit_doh.
Doh(p, c) == Drop(p.doh /\ EncryptedDns(c, NftResolvers))

\* The control group wirecee-blocked.
BlockedApps(p, c) == Drop(Blocked(p, c))

DhcpPorts == [out |-> {"dhcpServer", "dhcpClient", "dhcp6Server", "dhcp6Client"},
              in  |-> {"dhcpClient", "dhcp6Client"}]

\* What a refusing default lets through all the same.
Essential(p, c) ==
  Accept(/\ Refuses(p, c.dir)
         /\ \/ c.known
            \/ c.proto = "icmp"
            \/ c.dir = "out" /\ c.port = "dns"
            \/ c.proto = "udp" /\ c.port \in DhcpPorts[c.dir])

\* The control group wirecee-allowed; _Lockdown is a mutant that forgets the posture.
AllowedApps_Lockdown(p, c) == Accept(Refuses(p, "out") /\ Allowed(p, c))

AllowedApps(p, c) == Accept(Refuses(p, "out") /\ ~Lockdown(p) /\ Allowed(p, c))

Default(p, c) == Drop(Refuses(p, c.dir))

\* _RulesFirst is a mutant.
Output_RulesFirst(p, c) ==
  Loopback(c) \o Rules(p, c) \o Guard(p, c) \o Doh(p, c) \o BlockedApps(p, c)
    \o Essential(p, c) \o AllowedApps(p, c) \o Default(p, c)

Output(p, c) ==
  Loopback(c) \o Guard(p, c) \o Doh(p, c) \o BlockedApps(p, c) \o Rules(p, c)
    \o Essential(p, c) \o AllowedApps(p, c) \o Default(p, c)

Input(p, c) ==
  Loopback(c) \o BlockedApps(p, c) \o Rules(p, c) \o Essential(p, c) \o Default(p, c)

\* The posture Off installs neither chain.
Verdicts(p, c) ==
  IF p.posture = "off" THEN <<>> ELSE IF c.dir = "out" THEN Output(p, c) ELSE Input(p, c)

NftPasses(p, c) == Verdicts(p, c) = <<>> \/ Head(Verdicts(p, c)) = "accept"
=============================================================================
