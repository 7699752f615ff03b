---------------------------- MODULE PacketFilter ----------------------------
(***************************************************************************)
(* Which packets get through: the two programs that turn a policy into     *)
(* filters, fw_apply of Linux and fw_apply of Windows, under the edits the *)
(* user makes.  The builds are two ways to say the same policy, one by the *)
(* order of lines, the other by weights, so they are given the same edits  *)
(* and compared.                                                           *)
(*                                                                         *)
(* Each edit is installed at once; the races between an edit and its       *)
(* installation are in module Enforcement.                                 *)
(***************************************************************************)
EXTENDS NftChains, WfpFilters

CONSTANTS
  RuleMenu,   \* the rules the user can make
  RuleBound   \* ENG_MAX_RULES

ASSUME MenuAssumption == RuleMenu \subseteq Rule /\ RuleBound \in 0 .. MaxRules

VARIABLES
  policy,   \* what was last handed to fw_apply
  nft,      \* the packets the table inet wirecee lets through
  wfp       \* the new connections the Windows filters let through

vars == <<policy, nft, wfp>>

TypeOK ==
  /\ policy \in Policy /\ Len(policy.rules) <= RuleBound
  /\ nft \subseteq Packets /\ wfp \subseteq Packets

NewPackets == {c \in Packets : ~c.known}

\* fw_apply of both builds.
Install(p) ==
  /\ policy' = p
  /\ nft' = {c \in Packets : NftPasses(p, c)}
  /\ wfp' = {c \in NewPackets : WfpPasses(p, c)}

\* seed: the settings of a first start, once its three rules are deleted.
FirstPolicy ==
  [posture |-> "on", default |-> [out |-> "allow", in |-> "allow"], app |-> [a \in Apps |-> "none"],
   rules |-> <<>>, guard |-> FALSE, doh |-> FALSE]

Init ==
  /\ policy = FirstPolicy
  /\ nft = {c \in Packets : NftPasses(policy, c)}
  /\ wfp = {c \in NewPackets : WfpPasses(policy, c)}

SetPosture(x) == x # policy.posture /\ Install([policy EXCEPT !.posture = x])

SetDefault(dir, x) == x # policy.default[dir] /\ Install([policy EXCEPT !.default[dir] = x])

SetPolicy(a, x) == x # policy.app[a] /\ Install([policy EXCEPT !.app[a] = x])

\* ENG_MAX_RULES
Room == Len(policy.rules) < RuleBound

\* A rule created goes last, one enabled to its place.
AddRule(i, r) ==
  /\ Room
  /\ Install([policy EXCEPT !.rules = SubSeq(@, 1, i - 1) \o <<r>> \o SubSeq(@, i, Len(@))])

\* A rule deleted or disabled.
DropRule(i) ==
  Install([policy EXCEPT !.rules = SubSeq(@, 1, i - 1) \o SubSeq(@, i + 1, Len(@))])

\* The DNS filter and the setting Block encrypted DNS.
SetGuard(x) == x # policy.guard /\ Install([policy EXCEPT !.guard = x])
SetDoh(x)   == x # policy.doh /\ Install([policy EXCEPT !.doh = x])

Next ==
  \/ \E x \in {"on", "lockdown", "off"} : SetPosture(x)
  \/ \E dir \in Dirs, x \in {"allow", "ask"} : SetDefault(dir, x)
  \/ \E a \in Apps, x \in {"allow", "block"} : SetPolicy(a, x)
  \/ \E i \in 1 .. Len(policy.rules) + 1, r \in RuleMenu : AddRule(i, r)
  \/ \E i \in DOMAIN policy.rules : DropRule(i)
  \/ \E x \in BOOLEAN : SetGuard(x)
  \/ \E x \in BOOLEAN : SetDoh(x)

Spec == Init /\ [][Next]_vars

-----------------------------------------------------------------------------
(***************************************************************************)
(* Properties.                                                             *)
(***************************************************************************)

\* What is in force is what the last policy says; the invariant the others
\* follow from.
Installed ==
  /\ nft = {c \in Packets : NftPasses(policy, c)}
  /\ wfp = {c \in NewPackets : WfpPasses(policy, c)}

Enforcing == policy.posture # "off"

\* Queries that go to the proxy's upstream servers, not to the proxy: with the
\* guard on, of root on Linux and of WireCee alone on Windows.
OwnQuery(p, c) == p.guard /\ c.dir = "out" /\ c.port = "dns" /\ c.root

\* A resolver that is on the list of one build alone: 1.1.1.3, 9.9.9.10 and ten
\* more are on that of Windows, which lists all that Linux does.
ListedOnce(remote) == (remote \in NftResolvers) # (remote \in WfpResolvers)

\* What the builds are known to differ in: ICMP and DHCPv6, which the Linux
\* chains let through, inbound connections of an allowed program, which the
\* Windows filters do, the queries of other programs of root, and encrypted DNS
\* to the resolvers one build does not list.
Differs(c) ==
  \/ c.proto = "icmp"
  \/ c.port \in {"dhcp6Server", "dhcp6Client"}
  \/ c.dir = "out" /\ c.port = "dhcpClient"
  \/ c.dir = "in" /\ Allowed(policy, c)
  \/ OwnQuery(policy, c)
  \/ policy.doh /\ c.dir = "out" /\ c.port = "https" /\ ListedOnce(c.remote)

\* In everything else the builds decide alike about a new connection.
SameDecision == \A c \in NewPackets : Differs(c) \/ (c \in nft <=> c \in wfp)

\* No two filters of the greatest weight contradict each other, so that the
\* decision is never the platform's.
WfpUnambiguous ==
  \A c \in NewPackets : \A f, g \in Heaviest(policy, c) : f.action = g.action

\* No rule, default or essential service opens the network to a blocked program,
\* nor keeps a connection of it open on Linux.
BlockedStaysBlocked ==
  \A c \in nft \cup wfp :
    Enforcing /\ Blocked(policy, c) => c.remote = Here \/ OwnQuery(policy, c)

\* With the DNS filter on no rule and no allowed program gets a query past the
\* proxy, and with encrypted DNS blocked none gets to a resolver its build lists.
GuardHolds ==
  Enforcing =>
    /\ \A c \in nft \cup wfp :
         policy.guard /\ c.dir = "out" /\ c.port = "dns" => c.remote = Here \/ OwnQuery(policy, c)
    /\ policy.doh =>
         /\ \A c \in nft : c.dir = "out" /\ EncryptedDns(c, NftResolvers) => c.remote = Here
         /\ \A c \in wfp : c.dir = "out" /\ EncryptedDns(c, WfpResolvers) => c.remote = Here

\* p refuses at least what q refuses: the posture, the defaults and the programs
\* are as strict or stricter, and p has q's rules and perhaps more that block.
RulesTighter(p, q) ==
  \/ p.rules = q.rules
  \/ \E i \in DOMAIN p.rules :
       /\ p.rules[i].action = "block"
       /\ q.rules = SubSeq(p.rules, 1, i - 1) \o SubSeq(p.rules, i + 1, Len(p.rules))

Strictness == [off |-> 0, on |-> 1, lockdown |-> 2]

Tighter(p, q) ==
  /\ Strictness[p.posture] >= Strictness[q.posture]
  /\ \A dir \in Dirs : p.default[dir] = q.default[dir] \/ p.default[dir] = "ask"
  /\ \A a \in Apps : p.app[a] = q.app[a] \/ p.app[a] = "block" \/ q.app[a] = "allow"
  /\ RulesTighter(p, q)
  /\ q.guard => p.guard
  /\ q.doh => p.doh

\* An edit that only forbids lets nothing through that was refused before, but
\* for the proxy's queries when it switches the DNS filter on.
Tightens ==
  [][Tighter(policy', policy) =>
       \A c \in (nft' \ nft) \cup (wfp' \ wfp) : OwnQuery(policy', c)]_vars

=============================================================================
