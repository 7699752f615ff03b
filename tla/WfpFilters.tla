----------------------------- MODULE WfpFilters -----------------------------
(***************************************************************************)
(* The filters fw_apply adds to the Windows Filtering Platform             *)
(* (windows/fw_wfp.c), as a connection meets them that is opened: the      *)
(* weights and actions of those that match it.  One of the greatest weight *)
(* decides; a connection none matches is permitted.  External: the         *)
(* platform does not say which one of two filters of the same weight it    *)
(* takes.                                                                  *)
(*                                                                         *)
(* The weights are 64-bit numbers of which the code uses the first byte,   *)
(* and for a rule the difference to its place; here the first byte counts  *)
(* Unit, more than there are rules.                                        *)
(*                                                                         *)
(* Abstracted: the platform adds every filter (a failure aborts the        *)
(* transaction, module Enforcement), and finds the file of every program.  *)
(***************************************************************************)
EXTENDS PacketPolicy

CONSTANTS
  MaxRules,      \* MAX_RULE_IDS
  WfpResolvers   \* DOH_V4 and DOH_V6 of windows/fw_wfp.c

ASSUME MaxRulesAssumption == MaxRules \in Nat \ {0}

ASSUME WfpResolversAssumption == WfpResolvers \subseteq Remotes

Unit == MaxRules

W_LOOPBACK  == 240 * Unit   \* 0xF0
W_SELF      == 238 * Unit   \* 0xEE
W_GUARD     == 236 * Unit   \* 0xEC
W_APP_BLOCK == 232 * Unit   \* 0xE8
W_RULE      == 224 * Unit   \* 0xE0
W_ESSENTIAL == 48 * Unit    \* 0x30
W_APP_ALLOW == 32 * Unit    \* 0x20
W_DEFAULT   == 16 * Unit    \* 0x10

Permit(weight, matches) == IF matches THEN {[weight |-> weight, action |-> "permit"]} ELSE {}
Block(weight, matches)  == IF matches THEN {[weight |-> weight, action |-> "block"]} ELSE {}

\* The guard lets WireCee itself through.
Guards(p, c) ==
  Permit(W_SELF, p.guard /\ c.dir = "out" /\ c.port = "dns" /\ c.app = Self) \cup
  Block(W_GUARD,
        /\ c.dir = "out"
        /\ \/ p.guard /\ c.port = "dns"
           \/ p.doh /\ EncryptedDns(c, WfpResolvers))

\* add_rule_one skips a rule whose port is no port.
Expressed(p) == {i \in DOMAIN p.rules : i <= MaxRules /\ p.rules[i].port # "bad"}

\* The first rule is the heaviest; _Same is a mutant.
RuleWeight_Same(i) == W_RULE

RuleWeight(i) == W_RULE - (i - 1)

RuleFilters(p, c) ==
  UNION {Permit(RuleWeight(i), Covers(p.rules[i], c) /\ p.rules[i].action = "allow") \cup
         Block(RuleWeight(i), Covers(p.rules[i], c) /\ p.rules[i].action # "allow") :
           i \in Expressed(p)}

Essentials(p, c) ==
  Permit(W_ESSENTIAL,
         /\ \E dir \in Dirs : Refuses(p, dir)
         /\ \/ c.dir = "out" /\ c.port = "dns"
            \/ c.dir = "out" /\ c.proto = "udp" /\ c.port = "dhcpServer"
            \/ c.dir = "in" /\ c.proto = "udp" /\ c.port = "dhcpClient")

\* The filters that match a new connection; the posture Off leaves none.
Filters(p, c) ==
  IF p.posture = "off" THEN {}
  ELSE Permit(W_LOOPBACK, c.remote = Here) \cup Guards(p, c)
         \cup Block(W_APP_BLOCK, Blocked(p, c)) \cup RuleFilters(p, c) \cup Essentials(p, c)
         \cup Permit(W_APP_ALLOW, ~Lockdown(p) /\ Refuses(p, c.dir) /\ Allowed(p, c))
         \cup Block(W_DEFAULT, Refuses(p, c.dir))

\* Those that may decide on it, and what they decide.
Heaviest(p, c) ==
  LET filters == Filters(p, c) IN {f \in filters : \A g \in filters : g.weight <= f.weight}

WfpPasses(p, c) == \A f \in Heaviest(p, c) : f.action = "permit"
=============================================================================
