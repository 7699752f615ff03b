------------------------ MODULE PacketFilter_proofs -------------------------
(***************************************************************************)
(* Theorems about PacketFilter, for any programs, addresses, rules and     *)
(* policies: what no rule, default or essential service can override, that *)
(* the two builds decide alike, and that a step that forbids more never    *)
(* lets more through.                                                      *)
(*                                                                         *)
(* Installed says that what is in force is computed from the policy, so it *)
(* is inductive alone; the properties are then facts about NftPasses and   *)
(* WfpPasses: the head of a chain decides before its rules are reached,    *)
(* and a weight above W_RULE before the weight of any rule.                *)
(*                                                                         *)
(* The last part is about the processes of blocked programs on Linux,     *)
(* which the filter finds by their control group: the theorems of          *)
(* NftRuntime.                                                             *)
(***************************************************************************)
EXTENDS PacketFilter, NftRuntime, FiniteSetTheorems, SequenceTheorems, WellFoundedInduction, TLAPS

LEMMA InstalledInvariant == Spec => []Installed
<1>1. Init => Installed BY DEF Init, Installed
<1>2. Installed /\ [Next]_vars => Installed'
  <2> SUFFICES ASSUME Installed, [Next]_vars PROVE Installed' OBVIOUS
  <2>1. ASSUME NEW p, Install(p) PROVE Installed' BY <2>1 DEF Install, Installed
  <2>2. CASE Next
    BY <2>1, <2>2 DEF Next, SetPosture, SetDefault, SetPolicy, AddRule, DropRule, SetGuard, SetDoh
  <2>3. CASE UNCHANGED vars BY <2>3 DEF vars, Installed
  <2> QED BY <2>2, <2>3
<1> QED BY <1>1, <1>2, PTL DEF Spec

-----------------------------------------------------------------------------
(***************************************************************************)
(* Chains.                                                                 *)
(***************************************************************************)

\* A chain that begins with a line that drops, whatever follows.
Refusing(s) == s \in Seq({"accept", "drop"}) /\ s # <<>> /\ Head(s) = "drop"

LEMMA RefusingPrefix ==
  ASSUME NEW s, Refusing(s), NEW t \in Seq({"accept", "drop"})
  PROVE  Refusing(s \o t)
<1>1. s \in Seq({"accept", "drop"}) /\ s # <<>> /\ Head(s) = "drop" BY DEF Refusing
<1>2. Len(s) \in Nat /\ Len(s) > 0 BY <1>1, HeadTailProperties, EmptySeq, LenProperties
<1>3. s \o t \in Seq({"accept", "drop"}) /\ Len(s \o t) = Len(s) + Len(t) BY <1>1
<1>4. Len(t) \in Nat BY LenProperties
<1>5. (s \o t)[1] = s[1] BY <1>1, <1>2, ConcatProperties
<1>6. s \o t # <<>> BY <1>2, <1>3, <1>4
<1>7. Head(s \o t) = (s \o t)[1] /\ Head(s) = s[1] BY <1>1, <1>3, <1>6, HeadTailProperties
<1> QED BY <1>1, <1>3, <1>5, <1>6, <1>7 DEF Refusing

LEMMA RefusingSuffix ==
  ASSUME NEW s \in Seq({"accept", "drop"}), s = <<>> \/ Refusing(s), NEW t, Refusing(t)
  PROVE  Refusing(s \o t)
<1>1. t \in Seq({"accept", "drop"}) BY DEF Refusing
<1>2. CASE s = <<>> BY <1>1, <1>2, ConcatEmptySeq
<1>3. CASE Refusing(s) BY <1>1, <1>3, RefusingPrefix
<1> QED BY <1>2, <1>3

LEMMA LineType ==
  ASSUME NEW b
  PROVE  /\ Accept(b) \in Seq({"accept", "drop"})
         /\ Drop(b) \in Seq({"accept", "drop"})
<1>1. <<>> \in Seq({"accept", "drop"}) OBVIOUS
<1>2. <<"accept">> \in Seq({"accept", "drop"}) OBVIOUS
<1>3. <<"drop">> \in Seq({"accept", "drop"}) OBVIOUS
<1> QED BY <1>1, <1>2, <1>3, Zenon DEF Accept, Drop

LEMMA PartTypes ==
  ASSUME NEW p, NEW c
  PROVE  /\ Loopback(c) \in Seq({"accept", "drop"})
         /\ Guard(p, c) \in Seq({"accept", "drop"})
         /\ Doh(p, c) \in Seq({"accept", "drop"})
         /\ BlockedApps(p, c) \in Seq({"accept", "drop"})
         /\ Rules(p, c) \in Seq({"accept", "drop"})
         /\ Essential(p, c) \in Seq({"accept", "drop"})
         /\ AllowedApps(p, c) \in Seq({"accept", "drop"})
         /\ Default(p, c) \in Seq({"accept", "drop"})
<1> DEFINE V == Seq({"accept", "drop"})
<1>0. \A s, t \in V : s \o t \in V OBVIOUS
<1>1. Loopback(c) \in V BY LineType DEF Loopback
<1>2. Guard(p, c) \in V BY <1>0, LineType DEF Guard
<1>3. Doh(p, c) \in V BY LineType DEF Doh
<1>4. BlockedApps(p, c) \in V BY LineType DEF BlockedApps
<1>5. Rules(p, c) \in V BY <1>0, LineType DEF Rules
<1>6. Essential(p, c) \in V BY LineType DEF Essential
<1>7. AllowedApps(p, c) \in V BY LineType DEF AllowedApps
<1>8. Default(p, c) \in V BY LineType DEF Default
<1> QED BY <1>1, <1>2, <1>3, <1>4, <1>5, <1>6, <1>7, <1>8

\* A line that drops.
LEMMA DropLine ==
  ASSUME NEW b
  PROVE  (b => Refusing(Drop(b))) /\ (~b => Drop(b) = <<>>) /\ (~b => Accept(b) = <<>>)
<1>1. <<"drop">> \in Seq({"accept", "drop"}) /\ <<"drop">> # <<>> /\ Head(<<"drop">>) = "drop"
  OBVIOUS
<1> QED BY <1>1, Zenon DEF Accept, Drop, Refusing

\* The proxy's own queries: of root with the guard on.
LEMMA GuardLine ==
  ASSUME NEW p, NEW c, ~(p.guard /\ c.port = "dns" /\ c.root)
  PROVE  /\ Guard(p, c) = <<>> \/ Refusing(Guard(p, c))
         /\ p.guard /\ c.port = "dns" => Refusing(Guard(p, c))
<1> DEFINE G == p.guard /\ c.port = "dns"
<1>1. Accept(p.guard /\ c.port = "dns" /\ c.root) = <<>> BY DropLine
<1>2. Drop(G) \in Seq({"accept", "drop"}) BY LineType
<1>3. Guard(p, c) = <<>> \o Drop(G) BY <1>1 DEF Guard
<1>4. Guard(p, c) = Drop(G) BY <1>2, <1>3, ConcatEmptySeq
<1>5. (G => Refusing(Drop(G))) /\ (~G => Drop(G) = <<>>) BY DropLine
<1> QED BY <1>4, <1>5, Zenon

\* What a packet of a blocked program, or against the guards, meets first in
\* the output chain.
LEMMA OutputRefuses ==
  ASSUME NEW p, NEW c, c.remote # Here, ~(p.guard /\ c.port = "dns" /\ c.root),
         \/ Blocked(p, c)
         \/ p.guard /\ c.port = "dns"
         \/ p.doh /\ EncryptedDns(c, NftResolvers)
  PROVE  Refusing(Output(p, c))
<1> DEFINE V == Seq({"accept", "drop"})
           Fine(s) == s = <<>> \/ Refusing(s)
           D == p.doh /\ EncryptedDns(c, NftResolvers)
           s1 == Loopback(c) \o Guard(p, c)
           s2 == s1 \o Doh(p, c)
           s3 == s2 \o BlockedApps(p, c)
<1>0. \A s, t \in V : s \o t \in V OBVIOUS
<1>1. Loopback(c) = <<>> BY DropLine DEF Loopback
<1>2. Guard(p, c) \in V /\ Doh(p, c) \in V /\ BlockedApps(p, c) \in V BY PartTypes
<1>3. s1 = Guard(p, c) BY <1>1, <1>2, ConcatEmptySeq
<1>4. Fine(Guard(p, c)) /\ (p.guard /\ c.port = "dns" => Refusing(Guard(p, c))) BY GuardLine
<1>5. Fine(Doh(p, c)) /\ (D => Refusing(Doh(p, c)))
  <2>1. (D => Refusing(Drop(D))) /\ (~D => Drop(D) = <<>>) BY DropLine
  <2> QED BY <2>1, Zenon DEF Doh
<1>6. Fine(BlockedApps(p, c)) /\ (Blocked(p, c) => Refusing(BlockedApps(p, c)))
  <2>1. /\ Blocked(p, c) => Refusing(Drop(Blocked(p, c)))
        /\ ~Blocked(p, c) => Drop(Blocked(p, c)) = <<>>
    BY DropLine
  <2> QED BY <2>1, Zenon DEF BlockedApps
<1>7. ASSUME NEW s \in V, NEW t \in V, Fine(s), Fine(t)
      PROVE  s \o t \in V /\ Fine(s \o t) /\ (Refusing(s) \/ Refusing(t) => Refusing(s \o t))
  <2>1. s \o t \in V BY <1>0
  <2>2. Refusing(s) => Refusing(s \o t) BY RefusingPrefix
  <2>3. Refusing(t) => Refusing(s \o t) BY <1>7, RefusingSuffix
  <2>4. s = <<>> => s \o t = t BY ConcatEmptySeq
  <2> QED BY <1>7, <2>1, <2>2, <2>3, <2>4
<1>8. /\ s2 \in V /\ Fine(s2)
      /\ (p.guard /\ c.port = "dns") \/ D => Refusing(s2)
  BY <1>2, <1>3, <1>4, <1>5, <1>7
<1>9. /\ s3 \in V
      /\ (p.guard /\ c.port = "dns") \/ D \/ Blocked(p, c) => Refusing(s3)
  BY <1>2, <1>6, <1>7, <1>8
<1> HIDE DEF s3, D
<1>10. Refusing(s3) BY <1>9 DEF D
<1>11. Refusing(s3 \o Rules(p, c)) BY <1>10, PartTypes, RefusingPrefix
<1>12. Refusing(s3 \o Rules(p, c) \o Essential(p, c)) BY <1>11, PartTypes, RefusingPrefix
<1>13. Refusing(s3 \o Rules(p, c) \o Essential(p, c) \o AllowedApps(p, c))
  BY <1>12, PartTypes, RefusingPrefix
<1>14. Refusing(s3 \o Rules(p, c) \o Essential(p, c) \o AllowedApps(p, c) \o Default(p, c))
  BY <1>13, PartTypes, RefusingPrefix
<1> QED BY <1>14 DEF Output, s3

LEMMA InputRefuses ==
  ASSUME NEW p, NEW c, c.remote # Here, Blocked(p, c)
  PROVE  Refusing(Input(p, c))
<1>1. Loopback(c) = <<>> BY DropLine DEF Loopback
<1>2. Refusing(BlockedApps(p, c))
  <2>1. Blocked(p, c) => Refusing(Drop(Blocked(p, c))) BY DropLine
  <2> QED BY <2>1, Zenon DEF BlockedApps
<1>3. Refusing(Loopback(c) \o BlockedApps(p, c)) BY <1>1, <1>2, PartTypes, RefusingSuffix
<1>4. Refusing(Loopback(c) \o BlockedApps(p, c) \o Rules(p, c))
  BY <1>3, PartTypes, RefusingPrefix
<1>5. Refusing(Loopback(c) \o BlockedApps(p, c) \o Rules(p, c) \o Essential(p, c))
  BY <1>4, PartTypes, RefusingPrefix
<1>6. Refusing(Loopback(c) \o BlockedApps(p, c) \o Rules(p, c) \o Essential(p, c) \o Default(p, c))
  BY <1>5, PartTypes, RefusingPrefix
<1> QED BY <1>6 DEF Input

LEMMA NftRefuses ==
  ASSUME NEW p, NEW c, p.posture # "off", c.remote # Here, c.dir \in Dirs,
         \/ c.dir = "out" /\ Refusing(Output(p, c))
         \/ c.dir # "out" /\ Refusing(Input(p, c))
  PROVE  ~NftPasses(p, c)
<1>1. Refusing(Verdicts(p, c)) BY DEF Verdicts
<1> QED BY <1>1 DEF Refusing, NftPasses

-----------------------------------------------------------------------------
(***************************************************************************)
(* Weights.                                                                *)
(***************************************************************************)

\* The guard and the blocked programs outweigh every rule, and a rule what the
\* defaults let through.
LEMMA Weights ==
  /\ \A w \in {W_LOOPBACK, W_SELF, W_GUARD, W_APP_BLOCK, W_RULE, W_ESSENTIAL, W_APP_ALLOW, W_DEFAULT} :
       w \in Int
  /\ \A i \in Nat \ {0} : RuleWeight(i) \in Int /\ RuleWeight(i) < W_APP_BLOCK
  /\ W_SELF > W_GUARD /\ W_GUARD > W_APP_BLOCK /\ W_APP_BLOCK > W_ESSENTIAL
  /\ W_APP_BLOCK > W_APP_ALLOW /\ W_APP_BLOCK > W_DEFAULT
BY MaxRulesAssumption DEF Unit, W_LOOPBACK, W_SELF, W_GUARD, W_APP_BLOCK, W_RULE, W_ESSENTIAL,
   W_APP_ALLOW, W_DEFAULT, RuleWeight

\* Nothing about a packet that is not of the loopback nor one of the proxy's own
\* queries outweighs the guard, and only the guard outweighs a blocked program.
LEMMA Outweighed ==
  ASSUME NEW p, p.rules \in Seq(Rule), NEW c, c.remote # Here,
         ~(p.guard /\ c.dir = "out" /\ c.port = "dns" /\ c.app = Self),
         NEW f \in Filters(p, c)
  PROVE  \/ f = [weight |-> W_GUARD, action |-> "block"]
         \/ f = [weight |-> W_APP_BLOCK, action |-> "block"]
         \/ f.weight \in Int /\ f.weight < W_APP_BLOCK
<1>1. p.posture # "off" BY DEF Filters
<1>2. CASE f \in Permit(W_LOOPBACK, c.remote = Here) BY <1>2 DEF Permit
<1>3. CASE f \in Guards(p, c) BY <1>3 DEF Guards, Permit, Block
<1>4. CASE f \in Block(W_APP_BLOCK, Blocked(p, c)) BY <1>4, Zenon DEF Block
<1>5. CASE f \in RuleFilters(p, c)
  <2>1. PICK i \in Expressed(p) :
          f \in Permit(RuleWeight(i), Covers(p.rules[i], c) /\ p.rules[i].action = "allow") \cup
               Block(RuleWeight(i), Covers(p.rules[i], c) /\ p.rules[i].action # "allow")
    BY <1>5, Zenon DEF RuleFilters
  <2>2. i \in Nat \ {0} BY DEF Expressed
  <2>3. f.weight = RuleWeight(i) BY <2>1 DEF Permit, Block
  <2> QED BY <2>2, <2>3, Weights
<1>6. CASE f \in Essentials(p, c)
  <2>1. f.weight = W_ESSENTIAL BY <1>6 DEF Essentials, Permit
  <2> QED BY <2>1, Weights
<1>7. CASE f \in Permit(W_APP_ALLOW, ~Lockdown(p) /\ Refuses(p, c.dir) /\ Allowed(p, c))
  <2>1. f.weight = W_APP_ALLOW BY <1>7 DEF Permit
  <2> QED BY <2>1, Weights
<1>8. CASE f \in Block(W_DEFAULT, Refuses(p, c.dir))
  <2>1. f.weight = W_DEFAULT BY <1>8 DEF Block
  <2> QED BY <2>1, Weights
<1> QED
  <2>1. f \in Permit(W_LOOPBACK, c.remote = Here) \cup Guards(p, c)
               \cup Block(W_APP_BLOCK, Blocked(p, c)) \cup RuleFilters(p, c) \cup Essentials(p, c)
               \cup Permit(W_APP_ALLOW, ~Lockdown(p) /\ Refuses(p, c.dir) /\ Allowed(p, c))
               \cup Block(W_DEFAULT, Refuses(p, c.dir))
    BY <1>1, Zenon DEF Filters
  <2> QED BY <2>1, <1>2, <1>3, <1>4, <1>5, <1>6, <1>7, <1>8, Zenon

LEMMA WfpRefuses ==
  ASSUME NEW p, p.rules \in Seq(Rule), p.posture # "off", NEW c, c.remote # Here,
         ~(p.guard /\ c.dir = "out" /\ c.port = "dns" /\ c.app = Self),
         \/ Blocked(p, c)
         \/ c.dir = "out" /\ p.guard /\ c.port = "dns"
         \/ c.dir = "out" /\ p.doh /\ EncryptedDns(c, WfpResolvers)
  PROVE  ~WfpPasses(p, c)
<1> DEFINE guard == [weight |-> W_GUARD, action |-> "block"]
           app == [weight |-> W_APP_BLOCK, action |-> "block"]
<1>1. \A f \in Filters(p, c) :
        f = guard \/ f = app \/ (f.weight \in Int /\ f.weight < W_APP_BLOCK)
  BY Outweighed
<1>2. W_GUARD \in Int /\ W_APP_BLOCK \in Int /\ W_GUARD > W_APP_BLOCK BY Weights
<1>3. CASE guard \in Filters(p, c)
  <2>1. \A g \in Filters(p, c) : g.weight <= guard.weight BY <1>1, <1>2
  <2>2. guard \in Heaviest(p, c) BY <1>3, <2>1 DEF Heaviest
  <2> QED BY <2>2 DEF WfpPasses
<1>4. CASE guard \notin Filters(p, c)
  <2>1. Blocked(p, c)
    <3>1. guard \in Guards(p, c) => guard \in Filters(p, c) BY Zenon DEF Filters
    <3>2. ~Blocked(p, c) => guard \in Guards(p, c) BY Zenon DEF Guards, Block
    <3> QED BY <1>4, <3>1, <3>2
  <2>2. app \in Block(W_APP_BLOCK, Blocked(p, c)) BY <2>1, Zenon DEF Block
  <2>3. app \in Filters(p, c) BY <2>2, Zenon DEF Filters
  <2>4. \A g \in Filters(p, c) : g.weight <= app.weight BY <1>1, <1>2, <1>4
  <2>5. app \in Heaviest(p, c) BY <2>3, <2>4 DEF Heaviest
  <2> QED BY <2>5 DEF WfpPasses
<1> QED BY <1>3, <1>4

-----------------------------------------------------------------------------
(***************************************************************************)
(* What the chains of Linux decide, as a formula.                          *)
(***************************************************************************)

\* The verdict of a chain: that of its first line, or none.
Says(s) == IF s = <<>> THEN "none" ELSE Head(s)

LEMMA SaysConcat ==
  ASSUME NEW s \in Seq({"accept", "drop"}), NEW t \in Seq({"accept", "drop"})
  PROVE  /\ s \o t \in Seq({"accept", "drop"})
         /\ Says(s \o t) = IF Says(s) # "none" THEN Says(s) ELSE Says(t)
<1>1. s \o t \in Seq({"accept", "drop"}) OBVIOUS
<1>2. CASE s = <<>> BY <1>1, <1>2, ConcatEmptySeq DEF Says
<1>3. CASE s # <<>>
  <2>1. Len(s) \in Nat /\ Len(s) > 0 BY <1>3, HeadTailProperties, EmptySeq, LenProperties
  <2>2. Len(s \o t) = Len(s) + Len(t) /\ Len(t) \in Nat BY LenProperties, ConcatProperties
  <2>3. s \o t # <<>> BY <2>1, <2>2
  <2>4. (s \o t)[1] = s[1] BY <2>1, ConcatProperties
  <2>5. Head(s \o t) = (s \o t)[1] /\ Head(s) = s[1] BY <1>1, <1>3, <2>3, HeadTailProperties
  <2>6. s[1] \in {"accept", "drop"} BY <2>1, ElementOfSeq
  <2> QED BY <1>1, <1>3, <2>3, <2>4, <2>5, <2>6 DEF Says
<1> QED BY <1>2, <1>3

LEMMA SaysLine ==
  ASSUME NEW b \in BOOLEAN
  PROVE  /\ Says(Accept(b)) = IF b THEN "accept" ELSE "none"
         /\ Says(Drop(b)) = IF b THEN "drop" ELSE "none"
<1>1. <<"drop">> # <<>> /\ Head(<<"drop">>) = "drop" OBVIOUS
<1>2. <<"accept">> # <<>> /\ Head(<<"accept">>) = "accept" OBVIOUS
<1> QED BY <1>1, <1>2 DEF Says, Accept, Drop

\* The first rule that matches a packet allows it, or blocks it.
RuleAllows(p, c) ==
  \E i \in Applies(p, c) : (\A j \in Applies(p, c) : i <= j) /\ p.rules[i].action = "allow"
RuleBlocks(p, c) ==
  \E i \in Applies(p, c) : (\A j \in Applies(p, c) : i <= j) /\ p.rules[i].action # "allow"

\* A set of numbers that is not empty has a least one.
LEMMA NatLeast ==
  ASSUME NEW T \in SUBSET Nat, T # {}
  PROVE  \E n \in T : \A m \in T : n <= m
<1>1. PICK n \in T : \A m \in T : ~(<<m, n>> \in OpToRel(<, Nat))
  BY NatLessThanWellFounded, WFMin
<1>2. \A m \in T : ~(m < n) BY <1>1 DEF OpToRel
<1> QED BY <1>2

\* Where some rule matches, one of them is the first, and it alone decides.
LEMMA FirstRule ==
  ASSUME NEW p, p.rules \in Seq(Rule), NEW c
  PROVE  /\ Applies(p, c) \subseteq Nat \ {0}
         /\ Applies(p, c) # {} => RuleAllows(p, c) \/ RuleBlocks(p, c)
         /\ ~(RuleAllows(p, c) /\ RuleBlocks(p, c))
<1>1. Applies(p, c) \subseteq Nat \ {0} BY LenProperties DEF Applies
<1>2. ASSUME Applies(p, c) # {} PROVE RuleAllows(p, c) \/ RuleBlocks(p, c)
  <2>1. PICK i \in Applies(p, c) : \A j \in Applies(p, c) : i <= j BY <1>1, <1>2, NatLeast
  <2> QED BY <2>1 DEF RuleAllows, RuleBlocks
<1>3. ~(RuleAllows(p, c) /\ RuleBlocks(p, c)) BY <1>1 DEF RuleAllows, RuleBlocks
<1> QED BY <1>1, <1>2, <1>3

\* The lines of a refusing default that let a packet through.
EssentialOf(p, c) ==
  /\ Refuses(p, c.dir)
  /\ \/ c.known
     \/ c.proto = "icmp"
     \/ c.dir = "out" /\ c.port = "dns"
     \/ c.proto = "udp" /\ c.port \in DhcpPorts[c.dir]

DohOf(p, c, resolvers) == p.doh /\ EncryptedDns(c, resolvers)

LEMMA SaysParts ==
  ASSUME NEW p, p.guard \in BOOLEAN, NEW c, c.root \in BOOLEAN, c.known \in BOOLEAN
  PROVE  /\ Says(Loopback(c)) = IF c.remote = Here THEN "accept" ELSE "none"
         /\ Says(Guard(p, c)) = IF p.guard /\ c.port = "dns"
                                THEN IF c.root THEN "accept" ELSE "drop" ELSE "none"
         /\ Says(Doh(p, c)) = IF DohOf(p, c, NftResolvers) THEN "drop" ELSE "none"
         /\ Says(BlockedApps(p, c)) = IF Blocked(p, c) THEN "drop" ELSE "none"
         /\ Says(Rules(p, c)) = IF RuleAllows(p, c) THEN "accept"
                                ELSE IF RuleBlocks(p, c) THEN "drop" ELSE "none"
         /\ Says(Essential(p, c)) = IF EssentialOf(p, c) THEN "accept" ELSE "none"
         /\ Says(AllowedApps(p, c)) =
              IF Refuses(p, "out") /\ ~Lockdown(p) /\ Allowed(p, c) THEN "accept" ELSE "none"
         /\ Says(Default(p, c)) = IF Refuses(p, c.dir) THEN "drop" ELSE "none"
<1>1. Says(Loopback(c)) = IF c.remote = Here THEN "accept" ELSE "none" BY SaysLine DEF Loopback
<1>2. Says(Guard(p, c)) = IF p.guard /\ c.port = "dns"
                          THEN IF c.root THEN "accept" ELSE "drop" ELSE "none"
  <2>1. Says(Accept(p.guard /\ c.port = "dns" /\ c.root)) =
          IF p.guard /\ c.port = "dns" /\ c.root THEN "accept" ELSE "none"
    BY SaysLine
  <2>2. Says(Drop(p.guard /\ c.port = "dns")) = IF p.guard /\ c.port = "dns" THEN "drop" ELSE "none"
    BY SaysLine
  <2>3. Says(Guard(p, c)) = IF Says(Accept(p.guard /\ c.port = "dns" /\ c.root)) # "none"
                            THEN Says(Accept(p.guard /\ c.port = "dns" /\ c.root))
                            ELSE Says(Drop(p.guard /\ c.port = "dns"))
    BY SaysConcat, LineType DEF Guard
  <2> QED BY <2>1, <2>2, <2>3
<1>3. Says(Doh(p, c)) = IF DohOf(p, c, NftResolvers) THEN "drop" ELSE "none"
  <2>1. DohOf(p, c, NftResolvers) \in BOOLEAN BY DEF DohOf
  <2>2. Doh(p, c) = Drop(DohOf(p, c, NftResolvers)) BY Zenon DEF Doh, DohOf
  <2> QED BY <2>1, <2>2, SaysLine
<1>4. Says(BlockedApps(p, c)) = IF Blocked(p, c) THEN "drop" ELSE "none"
  BY SaysLine DEF BlockedApps, Blocked
<1>5. Says(Rules(p, c)) = IF RuleAllows(p, c) THEN "accept"
                          ELSE IF RuleBlocks(p, c) THEN "drop" ELSE "none"
  <2>1. RuleAllows(p, c) \in BOOLEAN /\ RuleBlocks(p, c) \in BOOLEAN BY DEF RuleAllows, RuleBlocks
  <2> DEFINE first == {i \in Applies(p, c) : \A j \in Applies(p, c) : i <= j}
             A == \E i \in first : p.rules[i].action = "allow"
             B == \E i \in first : p.rules[i].action # "allow"
  <2>2. Rules(p, c) = Accept(A) \o Drop(B) BY Zenon DEF Rules
  <2>3. A <=> RuleAllows(p, c) BY DEF RuleAllows
  <2>4. B <=> RuleBlocks(p, c) BY DEF RuleBlocks
  <2>5. A \in BOOLEAN /\ B \in BOOLEAN OBVIOUS
  <2> HIDE DEF A, B
  <2>6. /\ Says(Accept(A)) = IF A THEN "accept" ELSE "none"
        /\ Says(Drop(B)) = IF B THEN "drop" ELSE "none"
    BY <2>5, SaysLine
  <2>7. Says(Rules(p, c)) = IF Says(Accept(A)) # "none" THEN Says(Accept(A)) ELSE Says(Drop(B))
    BY <2>2, SaysConcat, LineType
  <2> QED BY <2>3, <2>4, <2>6, <2>7
<1>6. Says(Essential(p, c)) = IF EssentialOf(p, c) THEN "accept" ELSE "none"
  <2>1. EssentialOf(p, c) \in BOOLEAN BY DEF EssentialOf
  <2>2. Essential(p, c) = Accept(EssentialOf(p, c)) BY Zenon DEF Essential, EssentialOf
  <2> QED BY <2>1, <2>2, SaysLine
<1>7. Says(AllowedApps(p, c)) =
        IF Refuses(p, "out") /\ ~Lockdown(p) /\ Allowed(p, c) THEN "accept" ELSE "none"
  BY SaysLine DEF AllowedApps
<1>8. Says(Default(p, c)) = IF Refuses(p, c.dir) THEN "drop" ELSE "none"
  BY SaysLine DEF Default, Refuses
<1> QED BY <1>1, <1>2, <1>3, <1>4, <1>5, <1>6, <1>7, <1>8

\* What the output chain and the input chain let through.
NftOut(p, c) ==
  \/ c.remote = Here
  \/ p.guard /\ c.port = "dns" /\ c.root
  \/ /\ ~(p.guard /\ c.port = "dns") /\ ~DohOf(p, c, NftResolvers) /\ ~Blocked(p, c)
     /\ \/ RuleAllows(p, c)
        \/ /\ ~RuleBlocks(p, c)
           /\ ~Refuses(p, "out") \/ EssentialOf(p, c) \/ (~Lockdown(p) /\ Allowed(p, c))

NftIn(p, c) ==
  \/ c.remote = Here
  \/ /\ ~Blocked(p, c)
     /\ \/ RuleAllows(p, c)
        \/ ~RuleBlocks(p, c) /\ (~Refuses(p, c.dir) \/ EssentialOf(p, c))

LEMMA NftDecides ==
  ASSUME NEW p, p.posture # "off", p.guard \in BOOLEAN, NEW c,
         c.root \in BOOLEAN, c.known \in BOOLEAN
  PROVE  NftPasses(p, c) <=> IF c.dir = "out" THEN NftOut(p, c) ELSE NftIn(p, c)
<1> DEFINE V == Seq({"accept", "drop"})
<1>1. NftPasses(p, c) <=> Says(Verdicts(p, c)) # "drop"
  <2>1. Verdicts(p, c) \in V BY PartTypes, SaysConcat DEF Verdicts, Output, Input
  <2>2. Verdicts(p, c) # <<>> => Head(Verdicts(p, c)) \in {"accept", "drop"}
    BY <2>1, HeadTailProperties
  <2> QED BY <2>2 DEF NftPasses, Says
<1>2. CASE c.dir = "out"
  <2> DEFINE s1 == Loopback(c) \o Guard(p, c)
             s2 == s1 \o Doh(p, c)
             s3 == s2 \o BlockedApps(p, c)
             s4 == s3 \o Rules(p, c)
             s5 == s4 \o Essential(p, c)
             s6 == s5 \o AllowedApps(p, c)
  <2>0. Verdicts(p, c) = s6 \o Default(p, c) BY <1>2 DEF Verdicts, Output
  <2>1. s1 \in V /\ Says(s1) = IF Says(Loopback(c)) # "none" THEN Says(Loopback(c)) ELSE Says(Guard(p, c))
    BY PartTypes, SaysConcat
  <2> HIDE DEF s1
  <2>2. s2 \in V /\ Says(s2) = IF Says(s1) # "none" THEN Says(s1) ELSE Says(Doh(p, c))
    BY <2>1, PartTypes, SaysConcat
  <2> HIDE DEF s2
  <2>3. s3 \in V /\ Says(s3) = IF Says(s2) # "none" THEN Says(s2) ELSE Says(BlockedApps(p, c))
    BY <2>2, PartTypes, SaysConcat
  <2> HIDE DEF s3
  <2>4. s4 \in V /\ Says(s4) = IF Says(s3) # "none" THEN Says(s3) ELSE Says(Rules(p, c))
    BY <2>3, PartTypes, SaysConcat
  <2> HIDE DEF s4
  <2>5. s5 \in V /\ Says(s5) = IF Says(s4) # "none" THEN Says(s4) ELSE Says(Essential(p, c))
    BY <2>4, PartTypes, SaysConcat
  <2> HIDE DEF s5
  <2>6. s6 \in V /\ Says(s6) = IF Says(s5) # "none" THEN Says(s5) ELSE Says(AllowedApps(p, c))
    BY <2>5, PartTypes, SaysConcat
  <2> HIDE DEF s6
  <2>7. Says(Verdicts(p, c)) = IF Says(s6) # "none" THEN Says(s6) ELSE Says(Default(p, c))
    BY <2>0, <2>6, PartTypes, SaysConcat
  <2>8. Says(Verdicts(p, c)) # "drop" <=> NftOut(p, c)
    <3>1. Says(s3) = IF c.remote = Here \/ (p.guard /\ c.port = "dns" /\ c.root) THEN "accept"
                     ELSE IF \/ p.guard /\ c.port = "dns"
                             \/ DohOf(p, c, NftResolvers)
                             \/ Blocked(p, c)
                          THEN "drop"
                     ELSE "none"
      BY <2>1, <2>2, <2>3, SaysParts
    <3>2. Says(s4) = IF Says(s3) # "none" THEN Says(s3)
                     ELSE IF RuleAllows(p, c) THEN "accept"
                     ELSE IF RuleBlocks(p, c) THEN "drop" ELSE "none"
      BY <2>4, SaysParts
    <3>3. Says(Verdicts(p, c)) = IF Says(s4) # "none" THEN Says(s4)
                                 ELSE IF \/ EssentialOf(p, c)
                                         \/ Refuses(p, "out") /\ ~Lockdown(p) /\ Allowed(p, c)
                                      THEN "accept"
                                      ELSE IF Refuses(p, "out") THEN "drop" ELSE "none"
      BY <1>2, <2>5, <2>6, <2>7, SaysParts
    <3> QED BY <3>1, <3>2, <3>3 DEF NftOut
  <2> QED BY <1>1, <1>2, <2>8
<1>3. CASE c.dir # "out"
  <2> DEFINE s1 == Loopback(c) \o BlockedApps(p, c)
             s2 == s1 \o Rules(p, c)
             s3 == s2 \o Essential(p, c)
  <2>0. Verdicts(p, c) = s3 \o Default(p, c) BY <1>3 DEF Verdicts, Input
  <2>1. s1 \in V /\ Says(s1) = IF Says(Loopback(c)) # "none" THEN Says(Loopback(c)) ELSE Says(BlockedApps(p, c))
    BY PartTypes, SaysConcat
  <2> HIDE DEF s1
  <2>2. s2 \in V /\ Says(s2) = IF Says(s1) # "none" THEN Says(s1) ELSE Says(Rules(p, c))
    BY <2>1, PartTypes, SaysConcat
  <2> HIDE DEF s2
  <2>3. s3 \in V /\ Says(s3) = IF Says(s2) # "none" THEN Says(s2) ELSE Says(Essential(p, c))
    BY <2>2, PartTypes, SaysConcat
  <2> HIDE DEF s3
  <2>4. Says(Verdicts(p, c)) = IF Says(s3) # "none" THEN Says(s3) ELSE Says(Default(p, c))
    BY <2>0, <2>3, PartTypes, SaysConcat
  <2>5. Says(Verdicts(p, c)) # "drop" <=> NftIn(p, c)
    <3>1. Says(s1) = IF c.remote = Here THEN "accept" ELSE IF Blocked(p, c) THEN "drop" ELSE "none"
      BY <2>1, SaysParts
    <3>2. Says(s2) = IF Says(s1) # "none" THEN Says(s1)
                     ELSE IF RuleAllows(p, c) THEN "accept"
                     ELSE IF RuleBlocks(p, c) THEN "drop" ELSE "none"
      BY <2>2, SaysParts
    <3>3. Says(Verdicts(p, c)) = IF Says(s2) # "none" THEN Says(s2)
                                 ELSE IF EssentialOf(p, c) THEN "accept"
                                 ELSE IF Refuses(p, c.dir) THEN "drop" ELSE "none"
      BY <2>3, <2>4, SaysParts
    <3> QED BY <3>1, <3>2, <3>3 DEF NftIn
  <2> QED BY <1>1, <1>3, <2>5
<1> QED BY <1>2, <1>3

-----------------------------------------------------------------------------
(***************************************************************************)
(* What the filters of Windows decide, as a formula.                       *)
(***************************************************************************)

\* Filters of one weight do the same, so that those of the greatest weight do.
LEMMA HeaviestAgree ==
  ASSUME NEW q, q.rules \in Seq(Rule), NEW d, NEW m \in Heaviest(q, d), NEW n \in Heaviest(q, d)
  PROVE  m.action = n.action
<1>1. ASSUME NEW p, NEW c, NEW f \in Filters(p, c)
      PROVE  \/ /\ f.weight \in {W_LOOPBACK, W_SELF, W_ESSENTIAL, W_APP_ALLOW}
                /\ f.action = "permit"
             \/ f.weight \in {W_GUARD, W_APP_BLOCK, W_DEFAULT} /\ f.action = "block"
             \/ \E i \in Expressed(p) :
                  /\ f.weight = RuleWeight(i)
                  /\ f.action = IF p.rules[i].action = "allow" THEN "permit" ELSE "block"
  <2>1. f \in Permit(W_LOOPBACK, c.remote = Here) \cup Guards(p, c)
               \cup Block(W_APP_BLOCK, Blocked(p, c)) \cup RuleFilters(p, c) \cup Essentials(p, c)
               \cup Permit(W_APP_ALLOW, ~Lockdown(p) /\ Refuses(p, c.dir) /\ Allowed(p, c))
               \cup Block(W_DEFAULT, Refuses(p, c.dir))
    BY Zenon DEF Filters
  <2>2. CASE f \in Permit(W_LOOPBACK, c.remote = Here) BY <2>2 DEF Permit
  <2>3. CASE f \in Guards(p, c) BY <2>3 DEF Guards, Permit, Block
  <2>4. CASE f \in Block(W_APP_BLOCK, Blocked(p, c)) BY <2>4 DEF Block
  <2>5. CASE f \in RuleFilters(p, c)
    <3>1. PICK i \in Expressed(p) :
            f \in Permit(RuleWeight(i), Covers(p.rules[i], c) /\ p.rules[i].action = "allow") \cup
                 Block(RuleWeight(i), Covers(p.rules[i], c) /\ p.rules[i].action # "allow")
      BY <2>5, Zenon DEF RuleFilters
    <3>2. /\ f.weight = RuleWeight(i)
          /\ f.action = IF p.rules[i].action = "allow" THEN "permit" ELSE "block"
      BY <3>1 DEF Permit, Block
    <3> QED BY <3>2
  <2>6. CASE f \in Essentials(p, c) BY <2>6 DEF Essentials, Permit
  <2>7. CASE f \in Permit(W_APP_ALLOW, ~Lockdown(p) /\ Refuses(p, c.dir) /\ Allowed(p, c))
    BY <2>7 DEF Permit
  <2>8. CASE f \in Block(W_DEFAULT, Refuses(p, c.dir)) BY <2>8 DEF Block
  <2> QED BY <2>1, <2>2, <2>3, <2>4, <2>5, <2>6, <2>7, <2>8, Zenon
<1>2. \A i, j \in 1 .. MaxRules :
        /\ RuleWeight(i) \notin {W_LOOPBACK, W_SELF, W_ESSENTIAL, W_APP_ALLOW,
                                 W_GUARD, W_APP_BLOCK, W_DEFAULT}
        /\ RuleWeight(i) = RuleWeight(j) => i = j
  BY MaxRulesAssumption DEF Unit, W_LOOPBACK, W_SELF, W_GUARD, W_APP_BLOCK, W_RULE, W_ESSENTIAL,
     W_APP_ALLOW, W_DEFAULT, RuleWeight
<1>3. {W_LOOPBACK, W_SELF, W_ESSENTIAL, W_APP_ALLOW} \cap {W_GUARD, W_APP_BLOCK, W_DEFAULT} = {}
  BY MaxRulesAssumption DEF Unit, W_LOOPBACK, W_SELF, W_GUARD, W_APP_BLOCK, W_ESSENTIAL,
     W_APP_ALLOW, W_DEFAULT
<1>4. ASSUME NEW p, p.rules \in Seq(Rule), NEW c,
             NEW f \in Filters(p, c), NEW g \in Filters(p, c), f.weight = g.weight
      PROVE  f.action = g.action
  <2>1. \A i \in Expressed(p) : i \in 1 .. MaxRules
    BY <1>4, LenProperties, MaxRulesAssumption DEF Expressed
  <2> DEFINE P(h) == h.weight \in {W_LOOPBACK, W_SELF, W_ESSENTIAL, W_APP_ALLOW} /\ h.action = "permit"
             B(h) == h.weight \in {W_GUARD, W_APP_BLOCK, W_DEFAULT} /\ h.action = "block"
             R(h, i) == /\ h.weight = RuleWeight(i)
                        /\ h.action = IF p.rules[i].action = "allow" THEN "permit" ELSE "block"
  <2>2. /\ P(f) \/ B(f) \/ \E i \in Expressed(p) : R(f, i)
        /\ P(g) \/ B(g) \/ \E i \in Expressed(p) : R(g, i)
    BY <1>1, Zenon
  <2>3. CASE (P(f) \/ B(f)) /\ (P(g) \/ B(g)) BY <1>3, <1>4, <2>3
  <2>4. ASSUME NEW i \in Expressed(p), R(f, i) PROVE f.action = g.action
    <3>1. ~(P(g) \/ B(g)) BY <1>2, <1>4, <2>1, <2>4
    <3>2. PICK j \in Expressed(p) : R(g, j) BY <2>2, <3>1
    <3>3. i = j BY <1>2, <1>4, <2>1, <2>4, <3>2
    <3> QED BY <2>4, <3>2, <3>3
  <2>5. ASSUME NEW i \in Expressed(p), R(g, i) PROVE P(f) \/ B(f) => FALSE
    BY <1>2, <1>4, <2>1, <2>5
  <2> QED BY <2>2, <2>3, <2>4, <2>5
<1>5. ASSUME NEW p, p.rules \in Seq(Rule), NEW c,
             NEW f \in Heaviest(p, c), NEW g \in Heaviest(p, c)
      PROVE  f.action = g.action
  <2>1. \A h \in Filters(p, c) : h.weight \in Int
    <3>1. \A i \in Expressed(p) : i \in Nat \ {0} BY <1>5 DEF Expressed
    <3> SUFFICES ASSUME NEW h \in Filters(p, c) PROVE h.weight \in Int OBVIOUS
    <3>2. \/ h.weight \in {W_LOOPBACK, W_SELF, W_ESSENTIAL, W_APP_ALLOW}
          \/ h.weight \in {W_GUARD, W_APP_BLOCK, W_DEFAULT}
          \/ \E i \in Expressed(p) : h.weight = RuleWeight(i)
      BY <1>1, Zenon
    <3> QED BY <3>1, <3>2, Weights
  <2>2. f \in Filters(p, c) /\ g \in Filters(p, c) /\ f.weight <= g.weight /\ g.weight <= f.weight
    BY DEF Heaviest
  <2>3. f.weight = g.weight BY <2>1, <2>2
  <2> QED BY <1>4, <1>5, <2>2, <2>3
<1> QED BY <1>5

\* A filter no other outweighs decides alone.
LEMMA HeavyDecides ==
  ASSUME NEW p, p.rules \in Seq(Rule), NEW c, NEW f \in Filters(p, c),
         \A g \in Filters(p, c) : g.weight <= f.weight
  PROVE  WfpPasses(p, c) <=> f.action = "permit"
<1>1. f \in Heaviest(p, c) BY DEF Heaviest
<1>2. \A g \in Heaviest(p, c) : g.action = f.action BY <1>1, HeaviestAgree
<1> QED BY <1>1, <1>2 DEF WfpPasses

SelfOf(p, c)  == p.guard /\ c.dir = "out" /\ c.port = "dns" /\ c.app = Self
GuardOf(p, c) == c.dir = "out" /\ ((p.guard /\ c.port = "dns") \/ DohOf(p, c, WfpResolvers))
WfpEssentialOf(p, c) ==
  /\ \E dir \in Dirs : Refuses(p, dir)
  /\ \/ c.dir = "out" /\ c.port = "dns"
     \/ c.dir = "out" /\ c.proto = "udp" /\ c.port = "dhcpServer"
     \/ c.dir = "in" /\ c.proto = "udp" /\ c.port = "dhcpClient"
WfpAllowedOf(p, c) == ~Lockdown(p) /\ Refuses(p, c.dir) /\ Allowed(p, c)

RuleAction(r) == IF r.action = "allow" THEN "permit" ELSE "block"

\* The filters one by one.
LEMMA FilterKinds ==
  ASSUME NEW p, p.posture # "off", NEW c, NEW f
  PROVE  f \in Filters(p, c) <=>
           \/ c.remote = Here /\ f = [weight |-> W_LOOPBACK, action |-> "permit"]
           \/ SelfOf(p, c) /\ f = [weight |-> W_SELF, action |-> "permit"]
           \/ GuardOf(p, c) /\ f = [weight |-> W_GUARD, action |-> "block"]
           \/ Blocked(p, c) /\ f = [weight |-> W_APP_BLOCK, action |-> "block"]
           \/ \E i \in Expressed(p) :
                Covers(p.rules[i], c) /\ f = [weight |-> RuleWeight(i), action |-> RuleAction(p.rules[i])]
           \/ WfpEssentialOf(p, c) /\ f = [weight |-> W_ESSENTIAL, action |-> "permit"]
           \/ WfpAllowedOf(p, c) /\ f = [weight |-> W_APP_ALLOW, action |-> "permit"]
           \/ Refuses(p, c.dir) /\ f = [weight |-> W_DEFAULT, action |-> "block"]
<1>1. ASSUME NEW w, NEW b, NEW x
      PROVE  /\ x \in Permit(w, b) <=> b /\ x = [weight |-> w, action |-> "permit"]
             /\ x \in Block(w, b) <=> b /\ x = [weight |-> w, action |-> "block"]
  BY Zenon DEF Permit, Block
<1>2. f \in Guards(p, c) <=>
        \/ SelfOf(p, c) /\ f = [weight |-> W_SELF, action |-> "permit"]
        \/ GuardOf(p, c) /\ f = [weight |-> W_GUARD, action |-> "block"]
  BY <1>1, Zenon DEF Guards, SelfOf, GuardOf, DohOf
<1>3. f \in RuleFilters(p, c) <=>
        \E i \in Expressed(p) :
          Covers(p.rules[i], c) /\ f = [weight |-> RuleWeight(i), action |-> RuleAction(p.rules[i])]
  <2> DEFINE P(i) == Permit(RuleWeight(i), Covers(p.rules[i], c) /\ p.rules[i].action = "allow")
             B(i) == Block(RuleWeight(i), Covers(p.rules[i], c) /\ p.rules[i].action # "allow")
  <2>1. ASSUME NEW i
        PROVE  f \in P(i) \cup B(i) <=>
                 Covers(p.rules[i], c) /\ f = [weight |-> RuleWeight(i), action |-> RuleAction(p.rules[i])]
    <3>1. f \in P(i) <=> Covers(p.rules[i], c) /\ p.rules[i].action = "allow"
                           /\ f = [weight |-> RuleWeight(i), action |-> "permit"]
      BY <1>1, Zenon
    <3>2. f \in B(i) <=> Covers(p.rules[i], c) /\ p.rules[i].action # "allow"
                           /\ f = [weight |-> RuleWeight(i), action |-> "block"]
      BY <1>1, Zenon
    <3> HIDE DEF P, B
    <3> QED BY <3>1, <3>2 DEF RuleAction
  <2>2. f \in RuleFilters(p, c) <=> \E i \in Expressed(p) : f \in P(i) \cup B(i)
    BY Zenon DEF RuleFilters
  <2> HIDE DEF P, B
  <2> QED BY <2>1, <2>2
<1>4. f \in Essentials(p, c) <=> WfpEssentialOf(p, c) /\ f = [weight |-> W_ESSENTIAL, action |-> "permit"]
  BY <1>1, Zenon DEF Essentials, WfpEssentialOf
<1>5. f \in Filters(p, c) <=>
        \/ f \in Permit(W_LOOPBACK, c.remote = Here)
        \/ f \in Guards(p, c)
        \/ f \in Block(W_APP_BLOCK, Blocked(p, c))
        \/ f \in RuleFilters(p, c)
        \/ f \in Essentials(p, c)
        \/ f \in Permit(W_APP_ALLOW, ~Lockdown(p) /\ Refuses(p, c.dir) /\ Allowed(p, c))
        \/ f \in Block(W_DEFAULT, Refuses(p, c.dir))
  BY Zenon DEF Filters
<1> QED BY <1>1, <1>2, <1>3, <1>4, <1>5, Zenon DEF WfpAllowedOf

\* The rules that have filters are those that have lines in the chains.
LEMMA SameRules ==
  ASSUME NEW p, p.rules \in Seq(Rule), Len(p.rules) <= MaxRules, NEW c,
         c.port # "bad", NEW i
  PROVE  i \in Applies(p, c) <=> i \in Expressed(p) /\ Covers(p.rules[i], c)
<1>1. DOMAIN p.rules = 1 .. Len(p.rules) /\ Len(p.rules) \in Nat BY LenProperties
<1>2. i \in DOMAIN p.rules => i <= MaxRules BY <1>1, MaxRulesAssumption
<1>3. ASSUME i \in DOMAIN p.rules, Covers(p.rules[i], c), p.rules[i].port # "bad"
      PROVE  p.rules[i].remote # {}
  <2>1. p.rules[i].remote = Any \/ c.remote \in p.rules[i].remote BY <1>3 DEF Covers
  <2>2. p.rules[i] \in Rule BY <1>1, <1>3, ElementOfSeq
  <2>3. Any # {} BY PacketAssumption
  <2> QED BY <2>1, <2>2, <2>3 DEF Rule
<1> QED BY <1>2, <1>3, Zenon DEF Applies, Expressed, Emitted

\* What the filters of Windows let through of the connections that are opened.
WfpLets(p, c) ==
  \/ c.remote = Here
  \/ SelfOf(p, c)
  \/ /\ ~GuardOf(p, c) /\ ~Blocked(p, c)
     /\ \/ RuleAllows(p, c)
        \/ /\ ~RuleBlocks(p, c)
           /\ ~Refuses(p, c.dir) \/ WfpEssentialOf(p, c) \/ WfpAllowedOf(p, c)

\* The weights in their order, with every rule between the blocked programs and
\* the essential services.
LEMMA WeightOrder ==
  /\ {W_LOOPBACK, W_SELF, W_GUARD, W_APP_BLOCK, W_ESSENTIAL, W_APP_ALLOW, W_DEFAULT} \subseteq Int
  /\ W_LOOPBACK > W_SELF /\ W_SELF > W_GUARD /\ W_GUARD > W_APP_BLOCK
  /\ W_APP_BLOCK > W_ESSENTIAL /\ W_ESSENTIAL > W_APP_ALLOW /\ W_APP_ALLOW > W_DEFAULT
  /\ \A i \in 1 .. MaxRules :
       RuleWeight(i) \in Int /\ W_APP_BLOCK > RuleWeight(i) /\ RuleWeight(i) > W_ESSENTIAL
  /\ \A i, j \in 1 .. MaxRules : i <= j => RuleWeight(j) <= RuleWeight(i)
BY MaxRulesAssumption DEF Unit, W_LOOPBACK, W_SELF, W_GUARD, W_APP_BLOCK, W_RULE, W_ESSENTIAL,
   W_APP_ALLOW, W_DEFAULT, RuleWeight

LEMMA WfpDecides ==
  ASSUME NEW p, p.posture # "off", p.rules \in Seq(Rule), Len(p.rules) <= MaxRules,
         NEW c, c.port # "bad"
  PROVE  WfpPasses(p, c) <=> WfpLets(p, c)
<1> DEFINE F(w, a) == [weight |-> w, action |-> a]
           ofRule(i) == F(RuleWeight(i), RuleAction(p.rules[i]))
           K(f) == \/ c.remote = Here /\ f = F(W_LOOPBACK, "permit")
                   \/ SelfOf(p, c) /\ f = F(W_SELF, "permit")
                   \/ GuardOf(p, c) /\ f = F(W_GUARD, "block")
                   \/ Blocked(p, c) /\ f = F(W_APP_BLOCK, "block")
                   \/ \E i \in Applies(p, c) : f = ofRule(i)
                   \/ WfpEssentialOf(p, c) /\ f = F(W_ESSENTIAL, "permit")
                   \/ WfpAllowedOf(p, c) /\ f = F(W_APP_ALLOW, "permit")
                   \/ Refuses(p, c.dir) /\ f = F(W_DEFAULT, "block")
<1>1. \A f : f \in Filters(p, c) <=> K(f)
  <2>1. \A i : i \in Applies(p, c) <=> i \in Expressed(p) /\ Covers(p.rules[i], c) BY SameRules
  <2> QED BY <2>1, FilterKinds
<1>2. Applies(p, c) \subseteq 1 .. MaxRules
  BY SameRules, LenProperties, MaxRulesAssumption DEF Expressed
<1>3. ASSUME NEW f, K(f), \A g : K(g) => g.weight <= f.weight
      PROVE  WfpPasses(p, c) <=> f.action = "permit"
  <2>1. f \in Filters(p, c) /\ \A g \in Filters(p, c) : g.weight <= f.weight BY <1>1, <1>3
  <2> QED BY <2>1, HeavyDecides
<1>4. \A w, a : F(w, a).weight = w /\ F(w, a).action = a OBVIOUS
<1>5. CASE c.remote = Here
  <2> DEFINE f == F(W_LOOPBACK, "permit")
  <2>1. K(f) BY <1>5
  <2>2. \A g : K(g) => g.weight <= f.weight BY <1>2, <1>4, WeightOrder
  <2>3. WfpPasses(p, c) <=> f.action = "permit" BY <1>3, <2>1, <2>2
  <2> QED BY <1>5, <2>3 DEF WfpLets
<1>6. CASE c.remote # Here /\ SelfOf(p, c)
  <2> DEFINE f == F(W_SELF, "permit")
  <2>1. K(f) BY <1>6
  <2>2. \A g : K(g) => g.weight <= f.weight BY <1>2, <1>4, <1>6, WeightOrder
  <2>3. WfpPasses(p, c) <=> f.action = "permit" BY <1>3, <2>1, <2>2
  <2> QED BY <1>6, <2>3 DEF WfpLets
<1>7. CASE c.remote # Here /\ ~SelfOf(p, c) /\ GuardOf(p, c)
  <2> DEFINE f == F(W_GUARD, "block")
  <2>1. K(f) BY <1>7
  <2>2. \A g : K(g) => g.weight <= f.weight BY <1>2, <1>4, <1>7, WeightOrder
  <2>3. WfpPasses(p, c) <=> f.action = "permit" BY <1>3, <2>1, <2>2
  <2> QED BY <1>7, <2>3 DEF WfpLets
<1>8. CASE c.remote # Here /\ ~SelfOf(p, c) /\ ~GuardOf(p, c) /\ Blocked(p, c)
  <2> DEFINE f == F(W_APP_BLOCK, "block")
  <2>1. K(f) BY <1>8
  <2>2. \A g : K(g) => g.weight <= f.weight BY <1>2, <1>4, <1>8, WeightOrder
  <2>3. WfpPasses(p, c) <=> f.action = "permit" BY <1>3, <2>1, <2>2
  <2> QED BY <1>8, <2>3 DEF WfpLets
<1> DEFINE Head0 == c.remote # Here /\ ~SelfOf(p, c) /\ ~GuardOf(p, c) /\ ~Blocked(p, c)
<1>9. CASE Head0 /\ Applies(p, c) # {}
  <2>1. RuleAllows(p, c) \/ RuleBlocks(p, c) BY <1>9, FirstRule
  <2>2. PICK i \in Applies(p, c) : \A j \in Applies(p, c) : i <= j
    BY <2>1 DEF RuleAllows, RuleBlocks
  <2> DEFINE f == ofRule(i)
  <2>3. K(f) OBVIOUS
  <2>4. \A g : K(g) => g.weight <= f.weight BY <1>2, <1>4, <1>9, <2>2, WeightOrder
  <2>5. WfpPasses(p, c) <=> f.action = "permit" BY <1>3, <2>3, <2>4
  <2>6. f.action = "permit" <=> p.rules[i].action = "allow" BY DEF RuleAction
  <2>7. p.rules[i].action = "allow" <=> RuleAllows(p, c)
    BY <2>2, FirstRule DEF RuleAllows, RuleBlocks
  <2> QED BY <1>9, <2>1, <2>5, <2>6, <2>7, FirstRule DEF WfpLets
<1>10. CASE Head0 /\ Applies(p, c) = {}
  <2>1. ~RuleAllows(p, c) /\ ~RuleBlocks(p, c) BY <1>10 DEF RuleAllows, RuleBlocks
  <2>2. CASE WfpEssentialOf(p, c)
    <3> DEFINE f == F(W_ESSENTIAL, "permit")
    <3>1. K(f) BY <2>2
    <3>2. \A g : K(g) => g.weight <= f.weight BY <1>4, <1>10, WeightOrder
    <3>3. WfpPasses(p, c) <=> f.action = "permit" BY <1>3, <3>1, <3>2
    <3> QED BY <1>10, <2>1, <2>2, <3>3 DEF WfpLets
  <2>3. CASE ~WfpEssentialOf(p, c) /\ WfpAllowedOf(p, c)
    <3> DEFINE f == F(W_APP_ALLOW, "permit")
    <3>1. K(f) BY <2>3
    <3>2. \A g : K(g) => g.weight <= f.weight BY <1>4, <1>10, <2>3, WeightOrder
    <3>3. WfpPasses(p, c) <=> f.action = "permit" BY <1>3, <3>1, <3>2
    <3> QED BY <1>10, <2>1, <2>3, <3>3 DEF WfpLets
  <2>4. CASE ~WfpEssentialOf(p, c) /\ ~WfpAllowedOf(p, c) /\ Refuses(p, c.dir)
    <3> DEFINE f == F(W_DEFAULT, "block")
    <3>1. K(f) BY <2>4
    <3>2. \A g : K(g) => g.weight <= f.weight BY <1>4, <1>10, <2>4, WeightOrder
    <3>3. WfpPasses(p, c) <=> f.action = "permit" BY <1>3, <3>1, <3>2
    <3> QED BY <1>10, <2>1, <2>4, <3>3 DEF WfpLets
  <2>5. CASE ~WfpEssentialOf(p, c) /\ ~WfpAllowedOf(p, c) /\ ~Refuses(p, c.dir)
    <3>1. \A f : ~K(f) BY <1>10, <2>5
    <3>2. Heaviest(p, c) = {} BY <1>1, <3>1 DEF Heaviest
    <3> QED BY <1>10, <2>1, <2>5, <3>2 DEF WfpLets, WfpPasses
  <2> QED BY <2>2, <2>3, <2>4, <2>5
<1> QED BY <1>5, <1>6, <1>7, <1>8, <1>9, <1>10

-----------------------------------------------------------------------------
(***************************************************************************)
(* The theorems.                                                           *)
(***************************************************************************)

\* The policy in force is one the engine can write down, with no more rules
\* than it has room for, however they are inserted and removed.
THEOREM TypeCorrect == Spec => []TypeOK
<1> DEFINE S == policy.rules
           T == /\ policy \in [posture : {"on", "lockdown", "off"},
                              default : [Dirs -> {"allow", "ask"}],
                              app : [Apps -> {"allow", "block", "none"}], rules : Seq(Rule),
                              guard : BOOLEAN, doh : BOOLEAN]
                /\ Len(policy.rules) <= RuleBound
<1>1. Init => T BY MenuAssumption DEF Init, FirstPolicy, Dirs
<1>2. T /\ [Next]_vars => T'
  <2> SUFFICES ASSUME T, [Next]_vars PROVE T' OBVIOUS
  <2>1. ASSUME NEW x \in {"on", "lockdown", "off"}, SetPosture(x) PROVE T'
    BY <2>1 DEF SetPosture, Install
  <2>2. ASSUME NEW dir \in Dirs, NEW x \in {"allow", "ask"}, SetDefault(dir, x) PROVE T'
    BY <2>2 DEF SetDefault, Install
  <2>3. ASSUME NEW a \in Apps, NEW x \in {"allow", "block"}, SetPolicy(a, x) PROVE T'
    BY <2>3 DEF SetPolicy, Install
  <2>4. ASSUME NEW i \in 1 .. Len(S) + 1, NEW r \in RuleMenu, AddRule(i, r) PROVE T'
    <3> DEFINE before == SubSeq(S, 1, i - 1)
               after == SubSeq(S, i, Len(S))
    <3>1. S \in Seq(Rule) /\ Len(S) \in Nat BY LenProperties
    <3>2. before \in Seq(Rule) /\ Len(before) = i - 1 BY <3>1, SubSeqProperties
    <3>3. after \in Seq(Rule) /\ Len(after) = Len(S) - i + 1 BY <3>1, SubSeqProperties
    <3> HIDE DEF before, after
    <3>4. <<r>> \in Seq(Rule) /\ Len(<<r>>) = 1 BY MenuAssumption
    <3>5. before \o <<r>> \in Seq(Rule) /\ Len(before \o <<r>>) = i
      BY <3>2, <3>4, ConcatProperties
    <3>6. before \o <<r>> \o after \in Seq(Rule) /\ Len(before \o <<r>> \o after) = Len(S) + 1
      <4> DEFINE begin == before \o <<r>>
      <4>1. begin \in Seq(Rule) /\ Len(begin) = i BY <3>5
      <4> HIDE DEF begin
      <4>2. begin \o after \in Seq(Rule) /\ Len(begin \o after) = Len(begin) + Len(after)
        BY <3>3, <4>1, ConcatProperties
      <4>3. Len(begin \o after) = Len(S) + 1 BY <3>1, <3>3, <4>1, <4>2
      <4> QED BY <4>2, <4>3 DEF begin
    <3>7. Len(S) + 1 <= RuleBound BY <2>4, <3>1, MenuAssumption, MaxRulesAssumption DEF AddRule, Room
    <3>8. policy' = [policy EXCEPT !.rules = before \o <<r>> \o after]
      BY <2>4 DEF AddRule, Install, before, after
    <3> QED BY <3>1, <3>6, <3>7, <3>8
  <2>5. ASSUME NEW i \in DOMAIN S, DropRule(i) PROVE T'
    <3> DEFINE before == SubSeq(S, 1, i - 1)
               after == SubSeq(S, i + 1, Len(S))
    <3>1. S \in Seq(Rule) /\ Len(S) \in Nat /\ i \in 1 .. Len(S) BY LenProperties
    <3>2. before \in Seq(Rule) /\ Len(before) = i - 1 BY <3>1, SubSeqProperties
    <3>3. after \in Seq(Rule) /\ Len(after) = Len(S) - i BY <3>1, SubSeqProperties
    <3> HIDE DEF before, after
    <3>4. before \o after \in Seq(Rule) /\ Len(before \o after) = Len(S) - 1
      BY <3>1, <3>2, <3>3, ConcatProperties
    <3>5. Len(S) - 1 <= RuleBound BY <3>1, MenuAssumption, MaxRulesAssumption
    <3>6. policy' = [policy EXCEPT !.rules = before \o after]
      BY <2>5 DEF DropRule, Install, before, after
    <3> QED BY <3>1, <3>4, <3>5, <3>6
  <2>6. ASSUME NEW x \in BOOLEAN, SetGuard(x) \/ SetDoh(x) PROVE T'
    BY <2>6 DEF SetGuard, SetDoh, Install
  <2>7. CASE UNCHANGED vars BY <2>7 DEF vars
  <2> QED BY <2>1, <2>2, <2>3, <2>4, <2>5, <2>6, <2>7 DEF Next
<1>3. T /\ Installed => TypeOK BY DEF TypeOK, Policy, Installed, NewPackets
<1> QED BY <1>1, <1>2, <1>3, InstalledInvariant, PTL DEF Spec

\* What the posture refuses outright no rule, default, essential service or
\* allowed program gives back: the connections of a blocked program.
THEOREM BlockedCorrect == Spec => []BlockedStaysBlocked
<1>1. Installed /\ policy.rules \in Seq(Rule) => BlockedStaysBlocked
  <2> SUFFICES ASSUME Installed, policy.rules \in Seq(Rule), NEW c \in nft \cup wfp,
                      Enforcing, Blocked(policy, c), c.remote # Here, ~OwnQuery(policy, c)
               PROVE  FALSE
    BY DEF BlockedStaysBlocked
  <2>1. c \in Packet BY PacketAssumption DEF Installed, NewPackets
  <2>2. c.dir \in Dirs /\ (c.app = Self => c.root) BY <2>1 DEF Packet
  <2>3. policy.posture # "off" BY DEF Enforcing
  <2>4. c.dir = "out" => Refusing(Output(policy, c)) BY OutputRefuses DEF OwnQuery
  <2>5. c.dir # "out" => Refusing(Input(policy, c)) BY InputRefuses
  <2>6. ~NftPasses(policy, c) BY <2>2, <2>3, <2>4, <2>5, NftRefuses
  <2>7. ~WfpPasses(policy, c) BY <2>2, <2>3, WfpRefuses DEF OwnQuery
  <2> QED BY <2>6, <2>7 DEF Installed
<1>2. TypeOK => policy.rules \in Seq(Rule) BY DEF TypeOK, Policy
<1> QED BY <1>1, <1>2, InstalledInvariant, TypeCorrect, PTL

\* Nor the queries that would pass the proxy, and encrypted DNS to the resolvers
\* the build lists.
THEOREM GuardCorrect == Spec => []GuardHolds
<1>1. Installed /\ policy.rules \in Seq(Rule) => GuardHolds
  <2> SUFFICES ASSUME Installed, policy.rules \in Seq(Rule), NEW c \in nft \cup wfp,
                      Enforcing, c.dir = "out", c.remote # Here
               PROVE  /\ policy.guard /\ c.port = "dns" => OwnQuery(policy, c)
                      /\ c \in nft => ~DohOf(policy, c, NftResolvers)
                      /\ c \in wfp => ~DohOf(policy, c, WfpResolvers)
    BY DEF GuardHolds, DohOf
  <2>1. c \in Packet BY PacketAssumption DEF Installed, NewPackets
  <2>2. c.dir \in Dirs /\ (c.app = Self => c.root) BY <2>1 DEF Packet
  <2>3. policy.posture # "off" BY DEF Enforcing
  <2>4. ASSUME ~OwnQuery(policy, c),
               (policy.guard /\ c.port = "dns") \/ DohOf(policy, c, NftResolvers)
        PROVE  c \notin nft
    <3>1. Refusing(Output(policy, c)) BY <2>4, OutputRefuses DEF OwnQuery, DohOf
    <3>2. ~NftPasses(policy, c) BY <2>2, <2>3, <3>1, NftRefuses
    <3> QED BY <3>2 DEF Installed
  <2>5. ASSUME ~OwnQuery(policy, c),
               (policy.guard /\ c.port = "dns") \/ DohOf(policy, c, WfpResolvers)
        PROVE  c \notin wfp
    <3>1. ~WfpPasses(policy, c) BY <2>2, <2>3, <2>5, WfpRefuses DEF OwnQuery, DohOf
    <3> QED BY <3>1 DEF Installed
  <2>6. DohOf(policy, c, NftResolvers) \/ DohOf(policy, c, WfpResolvers) => ~OwnQuery(policy, c)
    BY DEF OwnQuery, DohOf, EncryptedDns
  <2> QED BY <2>4, <2>5, <2>6
<1>2. TypeOK => policy.rules \in Seq(Rule) BY DEF TypeOK, Policy
<1> QED BY <1>1, <1>2, InstalledInvariant, TypeCorrect, PTL

\* No two filters that could decide on a connection contradict each other, for
\* any number of rules up to the number that has weights.
THEOREM UnambiguousCorrect == Spec => []WfpUnambiguous
<1>1. TypeOK => WfpUnambiguous BY HeaviestAgree DEF TypeOK, Policy, WfpUnambiguous
<1> QED BY <1>1, TypeCorrect, PTL

\* The posture Off lets everything through.
LEMMA OffPasses ==
  ASSUME NEW p, p.posture = "off", NEW c
  PROVE  NftPasses(p, c) /\ WfpPasses(p, c)
<1>1. NftPasses(p, c) BY DEF NftPasses, Verdicts
<1>2. Filters(p, c) = {} BY DEF Filters
<1> QED BY <1>1, <1>2 DEF WfpPasses, Heaviest

LEMMA PolicyFacts ==
  ASSUME TypeOK
  PROVE  /\ policy.posture \in {"on", "lockdown", "off"} /\ policy.guard \in BOOLEAN
         /\ policy.rules \in Seq(Rule) /\ Len(policy.rules) <= MaxRules
<1>1. policy \in Policy /\ Len(policy.rules) <= RuleBound /\ Len(policy.rules) \in Nat
  BY LenProperties DEF TypeOK, Policy
<1>2. RuleBound <= MaxRules /\ RuleBound \in Nat /\ MaxRules \in Nat
  BY MenuAssumption, MaxRulesAssumption
<1> QED BY <1>1, <1>2 DEF Policy

LEMMA PacketFacts ==
  ASSUME NEW c \in Packets
  PROVE  /\ c.dir \in {"out", "in"} /\ c.root \in BOOLEAN /\ c.known \in BOOLEAN
         /\ c.port # "bad" /\ (c.app = Self => c.root)
BY PacketAssumption DEF Packet, Dirs, Ports

\* A connection that is opened meets the same decision on both systems, by the
\* order of lines on one and by weights on the other, for any policy and any
\* rules; it may differ only in what Differs lists.
THEOREM SameDecisionCorrect == Spec => []SameDecision
<1>1. TypeOK /\ Installed => SameDecision
  <2> SUFFICES ASSUME TypeOK, Installed, NEW c \in NewPackets, ~Differs(c)
               PROVE  c \in nft <=> c \in wfp
    BY DEF SameDecision
  <2>1. c \in Packets /\ ~c.known BY DEF NewPackets
  <2>2. (c \in nft <=> NftPasses(policy, c)) /\ (c \in wfp <=> WfpPasses(policy, c))
    BY <2>1 DEF Installed
  <2>3. CASE policy.posture = "off" BY <2>2, <2>3, OffPasses
  <2>4. CASE policy.posture # "off"
    <3>1. NftPasses(policy, c) <=> IF c.dir = "out" THEN NftOut(policy, c) ELSE NftIn(policy, c)
      BY <2>1, <2>4, NftDecides, PolicyFacts, PacketFacts
    <3>2. WfpPasses(policy, c) <=> WfpLets(policy, c)
      BY <2>1, <2>4, WfpDecides, PolicyFacts, PacketFacts
    <3>3. ~SelfOf(policy, c) BY <2>1, PacketFacts DEF Differs, OwnQuery, SelfOf
    <3>4. Refuses(policy, c.dir) => \E dir \in Dirs : Refuses(policy, dir)
      BY <2>1, PacketFacts DEF Dirs
    <3>5. CASE c.dir = "out"
      <4>0. DohOf(policy, c, NftResolvers) <=> DohOf(policy, c, WfpResolvers)
        BY <3>5 DEF DohOf, EncryptedDns, Differs, ListedOnce
      <4>1. GuardOf(policy, c) <=>
              (policy.guard /\ c.port = "dns") \/ DohOf(policy, c, NftResolvers)
        BY <3>5, <4>0 DEF GuardOf
      <4>2. ~(policy.guard /\ c.port = "dns" /\ c.root) BY <3>5 DEF Differs, OwnQuery
      <4>3. Refuses(policy, "out") => (EssentialOf(policy, c) <=> WfpEssentialOf(policy, c))
        BY <2>1, <3>4, <3>5 DEF EssentialOf, WfpEssentialOf, DhcpPorts, Differs
      <4>4. Refuses(policy, "out") =>
              (WfpAllowedOf(policy, c) <=> ~Lockdown(policy) /\ Allowed(policy, c))
        BY <3>5 DEF WfpAllowedOf
      <4>5. NftOut(policy, c) <=> WfpLets(policy, c)
        BY <3>3, <3>5, <4>1, <4>2, <4>3, <4>4, Zenon DEF NftOut, WfpLets
      <4> QED BY <2>2, <3>1, <3>2, <3>5, <4>5
    <3>6. CASE c.dir = "in"
      <4>1. ~GuardOf(policy, c) BY <3>6 DEF GuardOf
      <4>2. Refuses(policy, c.dir) => (EssentialOf(policy, c) <=> WfpEssentialOf(policy, c))
        BY <2>1, <3>4, <3>6 DEF EssentialOf, WfpEssentialOf, DhcpPorts, Differs
      <4>3. ~WfpAllowedOf(policy, c) BY <3>6 DEF WfpAllowedOf, Differs
      <4>4. NftIn(policy, c) <=> WfpLets(policy, c)
        BY <3>3, <4>1, <4>2, <4>3, Zenon DEF NftIn, WfpLets
      <4> QED BY <2>2, <3>1, <3>2, <3>6, <4>4
    <3> QED BY <2>1, <3>5, <3>6, PacketFacts
  <2> QED BY <2>3, <2>4
<1> QED BY <1>1, TypeCorrect, InstalledInvariant, PTL

-----------------------------------------------------------------------------
(***************************************************************************)
(* Edits that only forbid.                                                 *)
(***************************************************************************)

LEMMA Shift ==
  ASSUME NEW k \in Int, NEW i \in Int, NEW n \in Int, k <= n - 1, ~(k < i)
  PROVE  /\ ~(k <= i - 1) /\ k - (i - 1) \in Int
         /\ 1 <= k - (i - 1) /\ k - (i - 1) <= n - i
         /\ i + (k - (i - 1)) = k + 1
OBVIOUS

\* A sequence without its i-th element.
LEMMA Removed ==
  ASSUME NEW s \in Seq(Rule), NEW i \in DOMAIN s,
         NEW t, t = SubSeq(s, 1, i - 1) \o SubSeq(s, i + 1, Len(s))
  PROVE  /\ t \in Seq(Rule) /\ Len(t) = Len(s) - 1
         /\ \A k \in DOMAIN t : t[k] = IF k < i THEN s[k] ELSE s[k + 1]
<1> DEFINE before == SubSeq(s, 1, i - 1)
           after == SubSeq(s, i + 1, Len(s))
<1>1. Len(s) \in Nat /\ i \in 1 .. Len(s) /\ \A k \in 1 .. Len(s) : s[k] \in Rule
  BY LenProperties, ElementOfSeq
<1>2. before \in Seq(Rule) /\ Len(before) = i - 1 /\ \A k \in 1 .. i - 1 : before[k] = s[k]
  <2>1. i - 1 \in Int /\ \A k \in 1 .. i - 1 : s[k] \in Rule BY <1>1
  <2>2. /\ before \in Seq(Rule)
        /\ Len(before) = IF 1 <= i - 1 THEN (i - 1) - 1 + 1 ELSE 0
        /\ \A k \in 1 .. (i - 1) - 1 + 1 : before[k] = s[1 + k - 1]
    BY <2>1, SubSeqProperties
  <2> HIDE DEF before
  <2> QED BY <1>1, <2>2
<1>3. after \in Seq(Rule) /\ Len(after) = Len(s) - i
        /\ \A k \in 1 .. Len(s) - i : after[k] = s[i + k]
  <2>1. i + 1 \in Int /\ Len(s) \in Int /\ \A k \in i + 1 .. Len(s) : s[k] \in Rule BY <1>1
  <2>2. /\ after \in Seq(Rule)
        /\ Len(after) = IF i + 1 <= Len(s) THEN Len(s) - (i + 1) + 1 ELSE 0
        /\ \A k \in 1 .. Len(s) - (i + 1) + 1 : after[k] = s[(i + 1) + k - 1]
    BY <2>1, SubSeqProperties
  <2> HIDE DEF after
  <2>3. Len(after) = Len(s) - i BY <1>1, <2>2
  <2>4. ASSUME NEW k \in 1 .. Len(s) - i PROVE after[k] = s[i + k]
    <3>1. k \in 1 .. Len(s) - (i + 1) + 1 /\ (i + 1) + k - 1 = i + k BY <1>1, <2>4
    <3> QED BY <2>2, <3>1
  <2> QED BY <2>2, <2>3, <2>4
<1> HIDE DEF before, after
<1>4. t = before \o after BY DEF before, after
<1>5. /\ t \in Seq(Rule) /\ Len(t) = Len(s) - 1
      /\ \A k \in 1 .. Len(s) - 1 : t[k] = IF k <= i - 1 THEN before[k] ELSE after[k - (i - 1)]
  <2>1. /\ before \o after \in Seq(Rule) /\ Len(before \o after) = Len(before) + Len(after)
        /\ \A k \in 1 .. Len(before) + Len(after) :
             (before \o after)[k] = IF k <= Len(before) THEN before[k] ELSE after[k - Len(before)]
    <3>1. before \in Seq(Rule) /\ after \in Seq(Rule) BY <1>2, <1>3
    <3> QED BY <3>1, ConcatProperties, Zenon
  <2>2. Len(before) = i - 1 /\ Len(before) + Len(after) = Len(s) - 1 BY <1>1, <1>2, <1>3
  <2> QED BY <1>4, <2>1, <2>2
<1>6. ASSUME NEW k \in 1 .. Len(s) - 1 PROVE t[k] = IF k < i THEN s[k] ELSE s[k + 1]
  <2>1. k \in Int /\ i \in Int /\ Len(s) \in Int /\ 1 <= k /\ k <= Len(s) - 1 /\ 1 <= i /\ i <= Len(s)
    BY <1>1
  <2>2. ASSUME k < i PROVE t[k] = s[k]
    <3>1. k <= i - 1 /\ k \in 1 .. i - 1 BY <2>1, <2>2
    <3> QED BY <1>2, <1>5, <3>1
  <2>3. ASSUME ~(k < i) PROVE t[k] = s[k + 1]
    <3> DEFINE d == k - (i - 1)
    <3>1. ~(k <= i - 1) /\ d \in Int /\ 1 <= d /\ d <= Len(s) - i /\ i + d = k + 1
      BY <2>1, <2>3, Shift
    <3> HIDE DEF d
    <3>2. t[k] = after[d] BY <1>5, <3>1 DEF d
    <3>3. after[d] = s[i + d] BY <1>3, <2>1, <3>1
    <3> QED BY <3>1, <3>2, <3>3
  <2> QED BY <2>2, <2>3
<1>7. DOMAIN t = 1 .. Len(s) - 1 BY <1>5, LenProperties
<1> QED BY <1>5, <1>6, <1>7

\* A rule that blocks, put anywhere among others, makes no packet meet a rule that
\* allows it first, and lets none escape a rule that blocks it.
LEMMA RulesMonotone ==
  ASSUME NEW p, p.rules \in Seq(Rule), NEW q, q.rules \in Seq(Rule), RulesTighter(p, q), NEW c
  PROVE  /\ RuleAllows(p, c) => RuleAllows(q, c)
         /\ RuleBlocks(q, c) => RuleBlocks(p, c)
<1>1. CASE p.rules = q.rules BY <1>1 DEF RuleAllows, RuleBlocks, Applies
<1>2. ASSUME NEW i \in DOMAIN p.rules, p.rules[i].action = "block",
             q.rules = SubSeq(p.rules, 1, i - 1) \o SubSeq(p.rules, i + 1, Len(p.rules))
      PROVE  /\ RuleAllows(p, c) => RuleAllows(q, c)
             /\ RuleBlocks(q, c) => RuleBlocks(p, c)
  <2> DEFINE place(k) == IF k < i THEN k ELSE k + 1
             was(j) == IF j < i THEN j ELSE j - 1
  <2>1. DOMAIN p.rules = 1 .. Len(p.rules) /\ Len(p.rules) \in Nat /\ i \in 1 .. Len(p.rules)
    BY LenProperties
  <2>2. /\ DOMAIN q.rules = 1 .. Len(p.rules) - 1
        /\ \A k \in DOMAIN q.rules : q.rules[k] = IF k < i THEN p.rules[k] ELSE p.rules[k + 1]
    <3> DEFINE s == p.rules
               t == q.rules
    <3>0. s \in Seq(Rule) /\ i \in DOMAIN s /\ t = SubSeq(s, 1, i - 1) \o SubSeq(s, i + 1, Len(s))
      BY <1>2
    <3> HIDE DEF s, t
    <3>1. /\ Len(t) = Len(s) - 1
          /\ \A k \in DOMAIN t : t[k] = IF k < i THEN s[k] ELSE s[k + 1]
      BY <3>0, Removed
    <3> USE DEF s, t
    <3> QED BY <3>1, LenProperties
  <2>3. ASSUME NEW k \in Applies(q, c)
        PROVE  place(k) \in Applies(p, c) /\ q.rules[k] = p.rules[place(k)] /\ place(k) # i
    BY <2>1, <2>2, <2>3 DEF Applies
  <2>4. ASSUME NEW j \in Applies(p, c), j # i
        PROVE  was(j) \in Applies(q, c) /\ place(was(j)) = j
    <3>1. was(j) \in DOMAIN q.rules /\ place(was(j)) = j BY <2>1, <2>2, <2>4 DEF Applies
    <3>2. q.rules[was(j)] = p.rules[j] BY <2>2, <3>1
    <3> QED BY <3>1, <3>2, <2>4 DEF Applies
  <2>5. Applies(p, c) \subseteq Nat /\ Applies(q, c) \subseteq Nat /\ i \in Nat
    BY <2>1, <2>2 DEF Applies
  <2>6. \A k, l \in Nat : (k <= l <=> place(k) <= place(l)) BY <2>5
  <2>7. ASSUME RuleAllows(p, c) PROVE RuleAllows(q, c)
    <3>1. PICK f \in Applies(p, c) :
            (\A j \in Applies(p, c) : f <= j) /\ p.rules[f].action = "allow"
      BY <2>7 DEF RuleAllows
    <3>2. f # i BY <1>2, <3>1
    <3>3. was(f) \in Applies(q, c) /\ place(was(f)) = f BY <2>4, <3>2
    <3>4. q.rules[was(f)].action = "allow" BY <2>3, <3>1, <3>3
    <3>5. \A k \in Applies(q, c) : was(f) <= k
      <4> SUFFICES ASSUME NEW k \in Applies(q, c) PROVE was(f) <= k OBVIOUS
      <4>1. place(was(f)) <= place(k) BY <2>3, <3>1, <3>3
      <4>2. was(f) \in Nat /\ k \in Nat BY <2>5, <3>3
      <4> QED BY <2>6, <4>1, <4>2
    <3> QED BY <3>3, <3>4, <3>5 DEF RuleAllows
  <2>8. ASSUME RuleBlocks(q, c) PROVE RuleBlocks(p, c)
    <3>1. PICK f \in Applies(q, c) :
            (\A k \in Applies(q, c) : f <= k) /\ q.rules[f].action # "allow"
      BY <2>8 DEF RuleBlocks
    <3>2. place(f) \in Applies(p, c) /\ p.rules[place(f)].action # "allow" BY <2>3, <3>1
    <3>3. \A j \in Applies(p, c) : j = i \/ place(f) <= j
      <4> SUFFICES ASSUME NEW j \in Applies(p, c), j # i PROVE place(f) <= j OBVIOUS
      <4>1. was(j) \in Applies(q, c) /\ place(was(j)) = j BY <2>4
      <4>2. f <= was(j) /\ f \in Nat /\ was(j) \in Nat BY <2>5, <3>1, <4>1
      <4> QED BY <2>6, <4>1, <4>2
    <3>4. CASE i \in Applies(p, c) /\ i < place(f)
      <4>1. \A j \in Applies(p, c) : i <= j BY <2>5, <3>2, <3>3, <3>4
      <4> QED BY <1>2, <3>4, <4>1 DEF RuleBlocks
    <3>5. CASE ~(i \in Applies(p, c) /\ i < place(f))
      <4>1. \A j \in Applies(p, c) : place(f) <= j BY <2>5, <3>2, <3>3, <3>5
      <4> QED BY <3>2, <4>1 DEF RuleBlocks
    <3> QED BY <3>4, <3>5
  <2> QED BY <2>7, <2>8
<1> QED BY <1>1, <1>2 DEF RulesTighter

\* A tighter policy lets through no packet the other refuses, but for the queries
\* of the proxy.
LEMMA TighterRefuses ==
  ASSUME NEW p \in Policy, Len(p.rules) <= MaxRules, NEW q \in Policy, Len(q.rules) <= MaxRules,
         Tighter(p, q), NEW c \in Packets, ~OwnQuery(p, c)
  PROVE  /\ NftPasses(p, c) => NftPasses(q, c)
         /\ WfpPasses(p, c) => WfpPasses(q, c)
<1>1. /\ p.posture \in {"on", "lockdown", "off"} /\ q.posture \in {"on", "lockdown", "off"}
      /\ p.guard \in BOOLEAN /\ q.guard \in BOOLEAN
      /\ p.rules \in Seq(Rule) /\ q.rules \in Seq(Rule)
  BY DEF Policy
<1>2. CASE q.posture = "off" BY <1>2, OffPasses
<1>3. CASE q.posture # "off"
  <2>1. p.posture # "off" /\ (Lockdown(q) => Lockdown(p))
    BY <1>1, <1>3 DEF Tighter, Strictness, Lockdown
  <2>2. \A dir \in Dirs : Refuses(q, dir) => Refuses(p, dir) BY <2>1 DEF Tighter, Refuses
  <2>3. (Blocked(q, c) => Blocked(p, c)) /\ (Allowed(p, c) => Allowed(q, c))
    BY DEF Tighter, Blocked, Allowed
  <2>4. (RuleAllows(p, c) => RuleAllows(q, c)) /\ (RuleBlocks(q, c) => RuleBlocks(p, c))
    BY <1>1, RulesMonotone DEF Tighter
  <2>5. (q.guard => p.guard) /\ \A list : DohOf(q, c, list) => DohOf(p, c, list)
    BY DEF Tighter, DohOf
  <2>6. c.dir \in Dirs /\ c.port # "bad" /\ c.root \in BOOLEAN /\ c.known \in BOOLEAN
          /\ (c.app = Self => c.root)
    BY PacketFacts DEF Dirs
  <2>7. NftPasses(p, c) => NftPasses(q, c)
    <3>1. /\ NftPasses(p, c) <=> IF c.dir = "out" THEN NftOut(p, c) ELSE NftIn(p, c)
          /\ NftPasses(q, c) <=> IF c.dir = "out" THEN NftOut(q, c) ELSE NftIn(q, c)
      BY <1>1, <1>3, <2>1, <2>6, NftDecides
    <3>2. EssentialOf(p, c) => ~Refuses(q, c.dir) \/ EssentialOf(q, c) BY DEF EssentialOf
    <3>3. CASE c.dir = "out"
      <4>1. ~(p.guard /\ c.port = "dns" /\ c.root) BY <3>3 DEF OwnQuery
      <4>2. NftOut(p, c) => NftOut(q, c)
        BY <2>1, <2>2, <2>3, <2>4, <2>5, <2>6, <3>2, <3>3, <4>1 DEF NftOut
      <4> QED BY <3>1, <3>3, <4>2
    <3>4. CASE c.dir # "out"
      <4>1. NftIn(p, c) => NftIn(q, c) BY <2>2, <2>3, <2>4, <2>6, <3>2 DEF NftIn
      <4> QED BY <3>1, <3>4, <4>1
    <3> QED BY <3>3, <3>4
  <2>8. WfpPasses(p, c) => WfpPasses(q, c)
    <3>1. (WfpPasses(p, c) <=> WfpLets(p, c)) /\ (WfpPasses(q, c) <=> WfpLets(q, c))
      BY <1>1, <1>3, <2>1, <2>6, WfpDecides
    <3>2. ~SelfOf(p, c) BY <2>6 DEF SelfOf, OwnQuery
    <3>3. GuardOf(q, c) => GuardOf(p, c) BY <2>5 DEF GuardOf
    <3>4. WfpEssentialOf(p, c) => ~Refuses(q, c.dir) \/ WfpEssentialOf(q, c)
      BY <2>6 DEF WfpEssentialOf
    <3>5. WfpAllowedOf(p, c) => ~Refuses(q, c.dir) \/ WfpAllowedOf(q, c)
      BY <2>1, <2>3 DEF WfpAllowedOf
    <3>6. WfpLets(p, c) => WfpLets(q, c)
      BY <2>2, <2>3, <2>4, <2>6, <3>2, <3>3, <3>4, <3>5 DEF WfpLets
    <3> QED BY <3>1, <3>6
  <2> QED BY <2>7, <2>8
<1> QED BY <1>2, <1>3

\* Forbidding more never opens the network: of all the edits of a policy, those
\* that only add restrictions let nothing through that was refused, on either
\* system and wherever a blocking rule is inserted.
THEOREM TightensCorrect == Spec => Tightens
<1> DEFINE T == Tighter(policy', policy) =>
                  \A c \in (nft' \ nft) \cup (wfp' \ wfp) : OwnQuery(policy', c)
<1>1. TypeOK /\ TypeOK' /\ Installed /\ Installed' /\ [Next]_vars => [T]_vars
  <2> SUFFICES ASSUME TypeOK, TypeOK', Installed, Installed', Tighter(policy', policy),
                      NEW c \in (nft' \ nft) \cup (wfp' \ wfp), ~OwnQuery(policy', c)
               PROVE  FALSE
    OBVIOUS
  <2>1. c \in Packets BY DEF Installed, NewPackets
  <2>2. policy \in Policy /\ Len(policy.rules) <= MaxRules BY PolicyFacts DEF TypeOK
  <2>3. policy' \in Policy /\ Len(policy'.rules) <= MaxRules
    <3>1. policy' \in Policy /\ Len(policy'.rules) <= RuleBound BY DEF TypeOK
    <3>2. Len(policy'.rules) \in Nat BY <3>1, LenProperties DEF Policy
    <3> QED BY <3>1, <3>2, MenuAssumption, MaxRulesAssumption
  <2>4. /\ NftPasses(policy', c) => NftPasses(policy, c)
        /\ WfpPasses(policy', c) => WfpPasses(policy, c)
    BY <2>1, <2>2, <2>3, TighterRefuses
  <2>5. /\ c \in nft' => NftPasses(policy', c)
        /\ c \in wfp' => WfpPasses(policy', c) /\ ~c.known
    BY DEF Installed, NewPackets
  <2>6. /\ NftPasses(policy, c) => c \in nft
        /\ WfpPasses(policy, c) /\ ~c.known => c \in wfp
    BY <2>1 DEF Installed, NewPackets
  <2> QED BY <2>4, <2>5, <2>6
<1> QED BY <1>1, TypeCorrect, InstalledInvariant, PTL DEF Spec, Tightens

-----------------------------------------------------------------------------
(***************************************************************************)
(* NftRuntime, for any processes, programs, sockets and policies: no       *)
(* process that was blocked keeps a connection it had before.              *)
(*                                                                         *)
(* The connections are reset some time after the process was moved, so the *)
(* property holds only when no thread is in between.  What holds always is *)
(* that somebody is still after each connection that escapes: a thread has *)
(* its process among the moved ones, and from the moment it has looked at  *)
(* their sockets, the connection among the sockets it found.               *)
(***************************************************************************)

USE DEF Threads, Groups, Kinds

\* A number without a process has no sockets.
HeldByLiving == \A s \in Socks : \A p \in holders[s] : Alive(p)

\* A thread that is about to move a process knows which one.
LooksAtProcess == \A t \in Threads : pc[t] = "move" => look[t].pid \in Pids

\* The table names the sockets a thread has found, while no other thread uses it.
TableFilled == ~overlap => \A t \in Threads : found[t] \subseteq Named(t)

\* The connections somebody has to be after.
Owed(p, s) == kind[s] = "connected" /\ s \notin handed \cup spared /\ Escapes(p, s)

\* Thread t will reset the connection s of process p.
After(t, p, s) ==
  /\ p \in moved[t]
  /\ pc[t] \in {"pass", "move", "collect"} \/ (pc[t] = "kill" /\ s \in found[t])

Pursued ==
  ~overlap =>
    \A p \in Pids, s \in Socks : Owed(p, s) => \E t \in Threads : After(t, p, s)

Chased == HeldByLiving /\ LooksAtProcess /\ TableFilled /\ Pursued

-----------------------------------------------------------------------------
(***************************************************************************)
(* Type correctness.                                                       *)
(***************************************************************************)

LEMMA TypeInit ==
  RuntimeInit => RuntimeTypeOK /\ LooksAtProcess
<1> SUFFICES ASSUME RuntimeInit PROVE RuntimeTypeOK /\ LooksAtProcess OBVIOUS
<1>1. exe \in [Pids -> Programs \cup {None}] BY NftAssumption DEF RuntimeInit
<1>2. holders \in [Socks -> SUBSET Pids]
  <2>1. holders \in [Socks -> {{}} \cup {{p} : p \in Pids}] BY NftAssumption DEF RuntimeInit
  <2>2. {{}} \cup {{p} : p \in Pids} \subseteq SUBSET Pids OBVIOUS
  <2> QED BY <2>1, <2>2
<1>3. /\ changes \in 0 .. MaxChanges /\ applies \in 0 .. MaxApplies
      /\ failures \in 0 .. MaxFailures
  BY NftAssumption DEF RuntimeInit
<1> QED BY <1>1, <1>2, <1>3 DEF RuntimeInit, RuntimeTypeOK, Nowhere, LooksAtProcess

\* A policy lists programs.
LEMMA PolicyType ==
  ASSUME NEW choice \in Policies
  PROVE  choice.block \subseteq Programs /\ choice.allow \subseteq Programs
<1> DEFINE All == {[block |-> B, allow |-> A \ B] : B, A \in SUBSET Programs}
<1>0. choice \in All
  <2>1. Policies \subseteq All BY NftAssumption
  <2> HIDE DEF All
  <2> QED BY <2>1
<1>1. PICK B \in SUBSET Programs, A \in SUBSET Programs : choice = [block |-> B, allow |-> A \ B]
  BY <1>0
<1> QED BY <1>1

LEMMA ProcessesType ==
  ASSUME RuntimeTypeOK, LooksAtProcess, Processes
  PROVE  RuntimeTypeOK' /\ LooksAtProcess'
<1> USE DEF RuntimeTypeOK, LooksAtProcess, Change, Alive, socks, procs, lists, locals, ghost, bounds
<1>1. changes < MaxChanges => changes + 1 \in 0 .. MaxChanges BY NftAssumption
<1>2. ASSUME NEW p \in Pids, NEW c \in Pids, Fork(p, c) PROVE RuntimeTypeOK' /\ LooksAtProcess'
  BY <1>1, <1>2 DEF Fork
<1>3. ASSUME NEW p \in Pids, NEW a \in Programs, Exec(p, a) PROVE RuntimeTypeOK' /\ LooksAtProcess'
  BY <1>1, <1>3 DEF Exec
<1>4. ASSUME NEW p \in Pids, Exit(p) PROVE RuntimeTypeOK' /\ LooksAtProcess'
  BY <1>1, <1>4 DEF Exit
<1>5. ASSUME NEW p \in Pids, NEW s \in Socks, NEW k \in Kinds, Open(p, s, k)
      PROVE  RuntimeTypeOK' /\ LooksAtProcess'
  BY <1>1, <1>5 DEF Open
<1> QED BY <1>2, <1>3, <1>4, <1>5 DEF Processes

\* There is a slot for one more socket.
LEMMA SlotFor ==
  ASSUME RuntimeTypeOK, NEW t \in Threads, NEW s \in Socks \ found[t], ~Full(t)
  PROVE  /\ Cardinality(found[t]) \in Nat
         /\ Cardinality(found[t]) + 1 \in Slots
         /\ Cardinality(found[t] \cup {s}) = Cardinality(found[t]) + 1
<1>1. IsFiniteSet(Socks) /\ found[t] \subseteq Socks
  BY NftAssumption DEF RuntimeTypeOK
<1>2. IsFiniteSet(found[t]) BY <1>1, FS_Subset
<1>3. Cardinality(found[t] \cup {s}) = Cardinality(found[t]) + 1 BY <1>2, FS_AddElement
<1>4. Cardinality(found[t]) \in Nat BY <1>2, FS_CardinalityType
<1>5. Cardinality(found[t]) + 1 \in 1 .. MaxInodes BY <1>4, NftAssumption DEF Full
<1> QED BY <1>3, <1>4, <1>5 DEF Slots

LEMMA RunType ==
  ASSUME RuntimeTypeOK, LooksAtProcess, NEW t \in Threads, Run(t)
  PROVE  RuntimeTypeOK' /\ LooksAtProcess'
<1> USE DEF RuntimeTypeOK, LooksAtProcess, Goto, socks, procs, lists, locals, ghost, bounds
<1>0. Failure => failures' \in 0 .. MaxFailures BY NftAssumption DEF Failure
<1>1. CASE TickSync(t) BY <1>1 DEF TickSync
<1>2. CASE TickSkip(t) BY <1>2 DEF TickSkip
<1>3. CASE TickCount(t) BY <1>3 DEF TickCount
<1>4. CASE SyncLock(t) BY <1>4 DEF SyncLock
<1>5. ASSUME NEW p \in Pids, SyncLook(t, p) PROVE RuntimeTypeOK' /\ LooksAtProcess'
  BY <1>5 DEF SyncLook, Wanted
<1>6. CASE SyncMove(t) BY <1>6, <1>0 DEF SyncMove, Nowhere, Held
<1>7. CASE SyncUnlock(t) BY <1>7 DEF SyncUnlock
<1>8. ASSUME NEW s \in Socks, Collect(t, s) PROVE RuntimeTypeOK' /\ LooksAtProcess'
  <2>1. s \in Socks \ found[t] /\ ~Full(t) BY <1>8 DEF Collect
  <2>2. Cardinality(found[t]) + 1 \in Slots BY <2>1, SlotFor, Zenon
  <2> QED BY <1>8, <2>2 DEF Collect
<1>9. CASE CollectDone(t) BY <1>9, <1>0 DEF CollectDone, Held
<1>10. CASE Kill(t)
  <2>1. PICK kept \in SUBSET {s \in Socks : s \in Named(t) /\ kind[s] = "connected"} :
          /\ (kept = {} /\ UNCHANGED failures) \/ (kept # {} /\ Failure)
          /\ holders' = [s \in Socks |-> IF s \in Named(t) \ kept /\ kind[s] = "connected" THEN {}
                                        ELSE holders[s]]
          /\ spared' = spared \cup kept
    BY <1>10 DEF Kill
  <2>2. holders' \in [Socks -> SUBSET Pids] BY <2>1
  <2>3. spared' \subseteq Socks BY <2>1
  <2> QED BY <1>10, <2>1, <2>2, <2>3, <1>0 DEF Kill
<1>11. CASE SyncFail(t) BY <1>11, <1>0 DEF SyncFail
<1> QED BY <1>1, <1>2, <1>3, <1>4, <1>5, <1>6, <1>7, <1>8, <1>9, <1>10, <1>11 DEF Run

LEMMA TypeStep ==
  RuntimeTypeOK /\ LooksAtProcess /\ [RuntimeNext]_runtimeVars => RuntimeTypeOK' /\ LooksAtProcess'
<1> SUFFICES ASSUME RuntimeTypeOK, LooksAtProcess, [RuntimeNext]_runtimeVars
             PROVE  RuntimeTypeOK' /\ LooksAtProcess' OBVIOUS
<1> USE DEF socks, procs, lists, locals, ghost, bounds
<1>1. CASE UNCHANGED runtimeVars BY <1>1 DEF runtimeVars, RuntimeTypeOK, LooksAtProcess
<1>2. CASE Tick BY <1>2 DEF Tick, RuntimeTypeOK, LooksAtProcess, Goto
<1>3. ASSUME NEW choice \in Policies, Apply(choice) PROVE RuntimeTypeOK' /\ LooksAtProcess'
  <2>1. applies + 1 \in 0 .. MaxApplies BY <1>3, NftAssumption DEF Apply, RuntimeTypeOK
  <2>2. choice.block \subseteq Programs /\ choice.allow \subseteq Programs BY PolicyType, Zenon
  <2> QED BY <1>3, <2>1, <2>2 DEF Apply, RuntimeTypeOK, LooksAtProcess, Goto
<1> QED BY <1>1, <1>2, <1>3, ProcessesType, RunType DEF RuntimeNext

\* Groups, lists, sockets and the table of inodes keep their form, whatever the
\* two threads that share fw_tick do.
THEOREM RuntimeTypeCorrect ==
  RuntimeSpec => []RuntimeTypeOK
<1>1. RuntimeSpec => [](RuntimeTypeOK /\ LooksAtProcess)
  <2>1. RuntimeInit => RuntimeTypeOK /\ LooksAtProcess BY TypeInit
  <2>2. RuntimeTypeOK /\ LooksAtProcess /\ [RuntimeNext]_runtimeVars => RuntimeTypeOK' /\ LooksAtProcess'
    BY TypeStep
  <2> QED BY <2>1, <2>2, PTL DEF RuntimeSpec
<1> QED BY <1>1, PTL

-----------------------------------------------------------------------------
(***************************************************************************)
(* Every connection that escapes and was not spared is pursued.            *)
(***************************************************************************)

LEMMA PursuitInit ==
  RuntimeInit => Chased
<1> SUFFICES ASSUME RuntimeInit PROVE Chased OBVIOUS
<1>1. HeldByLiving BY DEF RuntimeInit, HeldByLiving, Alive
<1>2. LooksAtProcess BY DEF RuntimeInit, LooksAtProcess
<1>3. TableFilled BY DEF RuntimeInit, TableFilled
<1>4. Pursued BY DEF RuntimeInit, Pursued, Owed, Escapes
<1> QED BY <1>1, <1>2, <1>3, <1>4 DEF Chased

\* The table stays filled while it, and what was found, stay as they are.
LEMMA TableStays ==
  ASSUME TableFilled, UNCHANGED <<inodes, found, overlap>>
  PROVE  TableFilled'
BY DEF TableFilled, Named

LEMMA ForkPursued ==
  ASSUME RuntimeTypeOK, Chased, NEW p \in Pids, NEW c \in Pids, Fork(p, c)
  PROVE  HeldByLiving' /\ Pursued'
<1> USE DEF Fork, locals
<1>1. c # p /\ \A s \in Socks : c \notin holders[s]
  BY DEF Chased, HeldByLiving, Alive
<1>2. \A q \in Pids : Alive(q)' <=> Alive(q) \/ q = c
  BY DEF RuntimeTypeOK, Alive
<1>3. HeldByLiving'
  BY <1>2 DEF Chased, HeldByLiving, RuntimeTypeOK
<1>4. \A t \in Threads, q \in Pids, s \in Socks : After(t, q, s) => After(t, q, s)'
  BY DEF After
<1>5. ASSUME NEW q \in Pids, NEW s \in Socks, ~overlap, Owed(q, s)'
      PROVE  \E t \in Threads : After(t, q, s)'
  <2>1. CASE q = c
    <3>1. p \in holders[s] /\ group[p] = "blocked" /\ made[s] # "blocked" /\ Alive(p)
      BY <1>1, <1>5, <2>1 DEF Owed, Escapes, RuntimeTypeOK
    <3>2. s \notin handed \cup spared /\ kind[s] = "connected" BY <1>5 DEF Owed
    <3>3. PICK t \in Threads : After(t, p, s)
      BY <1>5, <3>1, <3>2 DEF Chased, Pursued, Owed, Escapes
    <3>4. s \in handed' BY <3>1, <3>3 DEF After
    <3> QED BY <1>5, <3>4 DEF Owed
  <2>2. CASE q # c
    <3>1. Owed(q, s) BY <1>2, <1>5, <2>2 DEF Owed, Escapes, RuntimeTypeOK
    <3> QED BY <1>4, <1>5, <3>1 DEF Chased, Pursued
  <2> QED BY <2>1, <2>2
<1> QED BY <1>3, <1>5 DEF Pursued

LEMMA ProcessesPursued ==
  ASSUME RuntimeTypeOK, Chased, Processes
  PROVE  HeldByLiving' /\ TableFilled' /\ Pursued'
<1> USE DEF locals, ghost, socks, procs
<1>1. UNCHANGED <<inodes, found, overlap>>
  BY DEF Processes, Fork, Exec, Exit, Open
<1>2. TableFilled' BY <1>1, TableStays DEF Chased
<1>3. ASSUME NEW p \in Pids, NEW a \in Programs, Exec(p, a) PROVE HeldByLiving' /\ Pursued'
  <2>1. \A q \in Pids : Alive(q)' <=> Alive(q)
    BY <1>3, NftAssumption DEF Exec, Alive, RuntimeTypeOK
  <2>2. HeldByLiving' BY <1>3, <2>1 DEF Exec, Chased, HeldByLiving, RuntimeTypeOK
  <2>3. Pursued' BY <1>3, <2>1 DEF Exec, Chased, Pursued, Owed, Escapes, After
  <2> QED BY <2>2, <2>3
<1>4. ASSUME NEW p \in Pids, Exit(p) PROVE HeldByLiving' /\ Pursued'
  BY <1>4 DEF Exit, Chased, HeldByLiving, Pursued, Owed, Escapes, After, Alive, RuntimeTypeOK
<1>5. ASSUME NEW p \in Pids, NEW s \in Socks, NEW k \in Kinds, Open(p, s, k)
      PROVE  HeldByLiving' /\ Pursued'
  BY <1>5 DEF Open, Chased, HeldByLiving, Pursued, Owed, Escapes, After, Alive, RuntimeTypeOK
<1> QED BY <1>2, <1>3, <1>4, <1>5, ForkPursued DEF Processes

\* The calls of fw_tick that come before and after sync_processes.
LEMMA Elsewhere ==
  ASSUME Chased, NEW t \in Threads, pc[t] \notin {"pass", "move", "collect", "kill"},
         \A u \in Threads \ {t} : pc'[u] = pc[u],
         UNCHANGED <<procs, socks, inodes, moved, found, ghost>>
  PROVE  HeldByLiving' /\ TableFilled' /\ Pursued'
<1> USE DEF procs, socks, ghost
<1>1. TableFilled' BY TableStays DEF Chased
<1>2. HeldByLiving' BY DEF Chased, HeldByLiving, Alive
<1>3. \A u \in Threads, p \in Pids, s \in Socks : After(u, p, s) => After(u, p, s)' BY DEF After
<1>4. Pursued' BY <1>3 DEF Chased, Pursued, Owed, Escapes, Alive
<1> QED BY <1>1, <1>2, <1>4

\* A process that is blocked is noted, or there was no room and its sockets are
\* spared.
LEMMA MovePursued ==
  ASSUME RuntimeTypeOK, Chased, NEW t \in Threads, SyncMove(t)
  PROVE  HeldByLiving' /\ Pursued'
<1> DEFINE p == look[t].pid
<1> USE DEF SyncMove, Goto, socks, ghost
<1>1. p \in Pids BY DEF Chased, LooksAtProcess
<1>2. HeldByLiving' BY DEF Chased, HeldByLiving, Alive
<1>3. look[t].to = "blocked" => p \in moved'[t] \/ \A s \in Socks : p \in holders[s] => s \in spared'
  BY <1>1 DEF RuntimeTypeOK, Cuts, Held
<1>8. spared \subseteq spared' OBVIOUS
<1>4. pc'[t] = "pass" /\ \A u \in Threads \ {t} : pc'[u] = pc[u] BY DEF RuntimeTypeOK
<1>5. \A u \in Threads : moved[u] \subseteq moved'[u] BY DEF RuntimeTypeOK
<1>6. \A u \in Threads, q \in Pids, s \in Socks : After(u, q, s) => After(u, q, s)'
  BY <1>4, <1>5 DEF After
<1>7. ASSUME NEW q \in Pids, NEW s \in Socks, ~overlap, Owed(q, s)'
      PROVE  \E u \in Threads : After(u, q, s)'
  <2>1. CASE q = p
    <3>1. CASE look[t].to = "blocked"
      <4>1. p \in moved'[t] BY <1>3, <1>7, <2>1, <3>1 DEF Owed, Escapes
      <4> QED BY <1>4, <2>1, <4>1 DEF After
    <3>2. CASE look[t].to # "blocked"
      <4>1. group' = group
        BY <1>1, <1>7, <2>1, <3>2 DEF Owed, Escapes, Alive, RuntimeTypeOK
      <4>2. Owed(q, s) BY <1>7, <1>8, <4>1 DEF Owed, Escapes, Alive
      <4> QED BY <1>6, <1>7, <4>2 DEF Chased, Pursued
    <3> QED BY <3>1, <3>2
  <2>2. CASE q # p
    <3>1. Owed(q, s) BY <1>1, <1>7, <1>8, <2>2 DEF Owed, Escapes, Alive, RuntimeTypeOK
    <3> QED BY <1>6, <1>7, <3>1 DEF Chased, Pursued
  <2> QED BY <2>1, <2>2
<1> QED BY <1>2, <1>7 DEF Pursued

LEMMA CollectPursued ==
  ASSUME RuntimeTypeOK, Chased, NEW t \in Threads, NEW s \in Socks,
         Collect(t, s)
  PROVE  HeldByLiving' /\ TableFilled' /\ Pursued'
<1> DEFINE n == Cardinality(found[t])
<1> USE DEF Collect, socks, procs, bounds
<1>1. n \in Nat /\ n + 1 \in Slots /\ Cardinality(found'[t]) = n + 1
  <2>1. s \in Socks \ found[t] /\ ~Full(t) /\ found'[t] = found[t] \cup {s} BY DEF RuntimeTypeOK
  <2>2. /\ Cardinality(found[t]) \in Nat /\ Cardinality(found[t]) + 1 \in Slots
        /\ Cardinality(found[t] \cup {s}) = Cardinality(found[t]) + 1
    BY <2>1, SlotFor, Zenon
  <2> QED BY <2>1, <2>2
<1>2. HeldByLiving' BY DEF Chased, HeldByLiving, Alive
<1>3. ASSUME ~overlap', NEW u \in Threads PROVE found'[u] \subseteq Named(u)'
  <2>1. CASE u = t
    <3>1. inodes'[n + 1] = s BY <1>1 DEF RuntimeTypeOK
    <3>2. \A i \in 1 .. n : inodes'[i] = inodes[i] BY <1>1 DEF RuntimeTypeOK
    <3>3. found'[t] = found[t] \cup {s} BY DEF RuntimeTypeOK
    <3>4. Named(t)' = {inodes'[i] : i \in 1 .. n + 1} BY <1>1 DEF Named
    <3>5. s \in Named(t)' BY <1>1, <3>1, <3>4
    <3>6. ASSUME NEW x \in found[t] PROVE x \in Named(t)'
      <4>1. PICK i \in 1 .. n : inodes[i] = x BY <1>3 DEF Chased, TableFilled, Named
      <4>2. i \in 1 .. n + 1 /\ inodes'[i] = x BY <1>1, <3>2, <4>1
      <4> QED BY <3>4, <4>2
    <3> QED BY <2>1, <3>3, <3>5, <3>6
  <2>2. CASE u # t
    <3>1. found'[u] = found[u] BY <2>2 DEF RuntimeTypeOK
    <3>2. found[u] = {} BY <1>3, <2>2
    <3> QED BY <3>1, <3>2
  <2> QED BY <2>1, <2>2
<1>4. \A u \in Threads, p \in Pids, x \in Socks : After(u, p, x) => After(u, p, x)'
  BY DEF After, RuntimeTypeOK
<1>5. Pursued' BY <1>4 DEF Chased, Pursued, Owed, Escapes, Alive
<1> QED BY <1>2, <1>3, <1>5 DEF TableFilled

LEMMA KillPursued ==
  ASSUME RuntimeTypeOK, Chased, NEW t \in Threads, Kill(t)
  PROVE  HeldByLiving' /\ TableFilled' /\ Pursued'
<1> USE DEF Kill, Goto, procs
<1>0. PICK kept : /\ holders' = [s \in Socks |-> IF s \in Named(t) \ kept /\ kind[s] = "connected"
                                              THEN {} ELSE holders[s]]
                  /\ spared' = spared \cup kept
  OBVIOUS
<1>1. \A s \in Socks : holders'[s] \subseteq holders[s] BY <1>0 DEF RuntimeTypeOK
<1>2. HeldByLiving' BY <1>1 DEF Chased, HeldByLiving, Alive
<1>3. found'[t] = {} BY DEF RuntimeTypeOK
<1>4. \A u \in Threads \ {t} : found'[u] = found[u] /\ moved'[u] = moved[u] /\ pc'[u] = pc[u]
  BY DEF RuntimeTypeOK
<1>5. TableFilled' BY <1>3, <1>4 DEF Chased, TableFilled, Named
<1>6. ASSUME NEW p \in Pids, NEW s \in Socks, ~overlap, Owed(p, s)'
      PROVE  \E u \in Threads : After(u, p, s)'
  <2>1. s \notin Named(t) /\ Owed(p, s)
    BY <1>0, <1>1, <1>6 DEF Owed, Escapes, Alive, RuntimeTypeOK
  <2>2. PICK u \in Threads : After(u, p, s) BY <1>6, <2>1 DEF Chased, Pursued
  <2>3. s \notin found[t] BY <1>6, <2>1 DEF Chased, TableFilled
  <2>4. u # t BY <2>2, <2>3 DEF After
  <2> QED BY <1>4, <2>2, <2>4 DEF After
<1> QED BY <1>2, <1>5, <1>6 DEF Pursued

LEMMA RunPursued ==
  ASSUME RuntimeTypeOK, Chased, NEW t \in Threads, Run(t)
  PROVE  HeldByLiving' /\ TableFilled' /\ Pursued'
<1> USE DEF Goto, locals, ghost, lists, bounds
<1>1. CASE TickSync(t) BY <1>1, Elsewhere DEF TickSync, RuntimeTypeOK
<1>2. CASE TickSkip(t) BY <1>2, Elsewhere DEF TickSkip, RuntimeTypeOK
<1>3. CASE TickCount(t) BY <1>3, Elsewhere DEF TickCount, RuntimeTypeOK
<1>4. CASE SyncLock(t) BY <1>4, Elsewhere DEF SyncLock, RuntimeTypeOK
<1>8. CASE SyncFail(t) BY <1>8, Elsewhere DEF SyncFail, RuntimeTypeOK
<1>5. ASSUME NEW p \in Pids, SyncLook(t, p) PROVE HeldByLiving' /\ TableFilled' /\ Pursued'
  <2> USE <1>5 DEF SyncLook, procs, socks
  <2>1. TableFilled' BY TableStays DEF Chased
  <2>2. HeldByLiving' BY DEF Chased, HeldByLiving, Alive
  <2>3. \A u \in Threads, q \in Pids, s \in Socks : After(u, q, s) => After(u, q, s)'
    BY DEF After, RuntimeTypeOK
  <2>4. Pursued' BY <2>3 DEF Chased, Pursued, Owed, Escapes, Alive
  <2> QED BY <2>1, <2>2, <2>4
<1>6. CASE SyncMove(t)
  <2>1. UNCHANGED <<inodes, found, overlap>> BY <1>6 DEF SyncMove
  <2> QED BY <1>6, <2>1, TableStays, MovePursued DEF Chased
<1>7. CASE SyncUnlock(t)
  <2> USE <1>7 DEF SyncUnlock, procs, socks
  <2>1. TableFilled' BY TableStays DEF Chased
  <2>2. HeldByLiving' BY DEF Chased, HeldByLiving, Alive
  <2>3. \A u \in Threads, q \in Pids, s \in Socks : After(u, q, s) => After(u, q, s)'
    BY DEF After, RuntimeTypeOK
  <2>4. Pursued' BY <2>3 DEF Chased, Pursued, Owed, Escapes, Alive
  <2> QED BY <2>1, <2>2, <2>4
<1>9. CASE CollectDone(t)
  <2> USE <1>9 DEF CollectDone, procs, socks
  <2>1. TableFilled' BY TableStays DEF Chased
  <2>2. HeldByLiving' BY DEF Chased, HeldByLiving, Alive
  <2>3. \A u \in Threads, q \in Pids, s \in Socks :
          Owed(q, s)' /\ After(u, q, s) => After(u, q, s)'
    BY DEF After, Held, Owed, Escapes, RuntimeTypeOK
  <2>4. Pursued' BY <2>3 DEF Chased, Pursued, Owed, Escapes, Alive
  <2> QED BY <2>1, <2>2, <2>4
<1> QED BY <1>1, <1>2, <1>3, <1>4, <1>5, <1>6, <1>7, <1>8, <1>9, CollectPursued, KillPursued DEF Run

LEMMA PursuitStep ==
  ASSUME RuntimeTypeOK, Chased, [RuntimeNext]_runtimeVars
  PROVE  RuntimeTypeOK' /\ Chased'
<1> USE DEF Goto, locals, ghost, procs, socks, bounds
<1>1. RuntimeTypeOK' /\ LooksAtProcess' BY TypeStep DEF Chased
<1>2. CASE UNCHANGED runtimeVars
  BY <1>1, <1>2 DEF runtimeVars, Chased, HeldByLiving, TableFilled, Named, Pursued, Owed, Escapes, After, Alive
<1>3. CASE Tick
  <2>1. HeldByLiving' /\ TableFilled' /\ Pursued' BY <1>3, Elsewhere DEF Tick, RuntimeTypeOK
  <2> QED BY <1>1, <2>1 DEF Chased
<1>4. ASSUME NEW choice \in Policies, Apply(choice) PROVE RuntimeTypeOK' /\ Chased'
  <2>1. HeldByLiving' /\ TableFilled' /\ Pursued' BY <1>4, Elsewhere DEF Apply, RuntimeTypeOK
  <2> QED BY <1>1, <2>1 DEF Chased
<1> QED BY <1>1, <1>2, <1>3, <1>4, ProcessesPursued, RunPursued DEF RuntimeNext, Chased

\* When no thread is resetting connections, none is left that escapes.
LEMMA PursuedSuffices == RuntimeTypeOK /\ Pursued => ConnectionsCut
BY DEF RuntimeTypeOK, Pursued, Owed, ConnectionsCut, Cutting, After

\* Whatever programs run, fork, exec, end and reuse numbers while ticks and
\* changes of the lists interleave, a process that is blocked keeps no
\* connection it made before, once no thread is resetting connections any more;
\* except those ConnectionsCut names: handed on, or spared by a call that failed,
\* a pass that had no room for its process, or a full table.
THEOREM ConnectionsCutCorrect == RuntimeSpec => []Inv
<1>1. RuntimeInit => RuntimeTypeOK /\ Chased BY TypeInit, PursuitInit
<1>2. RuntimeTypeOK /\ Chased /\ [RuntimeNext]_runtimeVars => RuntimeTypeOK' /\ Chased'
  BY PursuitStep
<1>3. RuntimeTypeOK /\ Chased => Inv BY PursuedSuffices DEF Chased, Inv
<1> QED BY <1>1, <1>2, <1>3, PTL DEF RuntimeSpec

=============================================================================
