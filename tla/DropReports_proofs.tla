------------------------- MODULE DropReports_proofs -------------------------
(***************************************************************************)
(* Theorems about DropReports, for any rules, rooms and numbers of         *)
(* packets: on either system every packet that was refused is counted,     *)
(* waits, or was missed where the code misses it, and every one that was   *)
(* counted is told in the log.                                             *)
(*                                                                         *)
(* The number of packets in a list of reports is defined by recursion on   *)
(* its length; what a proof needs of it is that there is one function of   *)
(* the lengths up to it that grows as it should, and only one.  Both are   *)
(* shown by the least length at which they fail.                           *)
(***************************************************************************)
EXTENDS DropReports, FiniteSetTheorems, SequenceTheorems, WellFoundedInduction, TLAPS

Threads == {Ticker, Handler}

Report == [rule : Rules, count : 1 .. MaxPackets]

-----------------------------------------------------------------------------
(***************************************************************************)
(* The inductive invariant.                                                *)
(***************************************************************************)

\* What a thread has listed of the installed table, the table has counted.
ListingsPast ==
  \A t \in Threads :
    /\ listing[t].table <= table
    /\ listing[t].table = table => \A i \in DOMAIN Lines : listing[t].count[i] <= count[i]

\* No counter and no listing of one is ahead of what its rule has matched, so that
\* what is reported of a rule was matched at least once.
OnlyMatched ==
  /\ \A i \in DOMAIN Lines : count[i] <= matched[Lines[i]]
  /\ \A t \in Threads, i \in DOMAIN Lines : listing[t].count[i] <= matched[Lines[i]]
  /\ \A r \in Rules : Reported[r] > 0 => matched[r] > 0

\* What the installed table has counted of a tag of one line.
Counted(r) == count[Nft!LineOf(r)]

\* Packets are missed with a table, once it is not the one that was read.
LinuxAccount ==
  \A r \in Nft!Single :
    IF read = table
    THEN /\ stored[r] = None \/ stored[r] <= Counted(r)
         /\ matched[r] = Reported[r] + Nft!Unread(r) + missed[r]
    ELSE matched[r] = Reported[r] + Counted(r) + missed[r]

LinuxInv ==
  /\ OnlyMatched
  /\ IF pc[Handler] = "reset" THEN read < table ELSE read = table
  /\ ListingsPast
  /\ ~crossed => LinuxAccount

\* The rule a policy has at the place of an event is the one that refused it.
NamedBy(policy, e) == e.place \in DOMAIN policy.rules /\ policy.rules[e.place] = e.rule

\* Which policy is known, and which events it can tell.
WindowsInv ==
  /\ (pending = None /\ known = filters) \/ (pending = filters /\ known.number < filters.number)
  /\ \A i \in DOMAIN events :
       /\ events[i].number <= filters.number
       /\ events[i].number = filters.number => NamedBy(filters, events[i])
       /\ events[i].number = known.number => NamedBy(known, events[i])
  /\ Wfp!WfpAccounted(Reported)

IInv ==
  /\ TypeOK /\ Told
  /\ platform = "linux" => LinuxInv
  /\ platform = "windows" => WindowsInv

-----------------------------------------------------------------------------
(***************************************************************************)
(* The packets of a list of reports.                                       *)
(***************************************************************************)

\* A set of numbers that is not empty has a least one.
LEMMA NatLeast ==
  ASSUME NEW T \in SUBSET Nat, T # {}
  PROVE  \E n \in T : \A m \in T : n <= m
<1>1. PICK n \in T : \A m \in T : ~(<<m, n>> \in OpToRel(<, Nat))
  BY NatLessThanWellFounded, WFMin
<1>2. \A m \in T : ~(m < n) BY <1>1 DEF OpToRel
<1> QED BY <1>2

Weight(d, R) == IF d.rule \in R THEN d.count ELSE 0

\* f says how many packets of R the first i reports have, for i up to n.
Tallies(f, reports, R, n) ==
  /\ f \in [0 .. n -> Nat] /\ f[0] = 0
  /\ \A i \in 1 .. n : f[i] = f[i - 1] + Weight(reports[i], R)

LEMMA WeightType ==
  ASSUME NEW d \in Report, NEW R
  PROVE  Weight(d, R) \in Nat
<1>1. d.count \in Nat BY DEF Report
<1> QED BY <1>1 DEF Weight

LEMMA TallyExists ==
  ASSUME NEW reports \in Seq(Report), NEW R
  PROVE  \E f : Tallies(f, reports, R, Len(reports))
<1> DEFINE T == {n \in Nat : n <= Len(reports) /\ ~\E f : Tallies(f, reports, R, n)}
<1>1. Len(reports) \in Nat BY LenProperties
<1>2. SUFFICES T = {} BY <1>1
<1>3. SUFFICES ASSUME T # {} PROVE FALSE OBVIOUS
<1>4. PICK n \in T : \A m \in T : n <= m BY <1>3, NatLeast
<1>5. n # 0
  <2> DEFINE f == [i \in 0 .. 0 |-> 0]
  <2>1. Tallies(f, reports, R, 0) BY DEF Tallies
  <2> QED BY <1>4, <2>1
<1>6. n - 1 \in Nat /\ n - 1 <= Len(reports) /\ n - 1 \notin T BY <1>1, <1>4, <1>5
<1>7. PICK f : Tallies(f, reports, R, n - 1) BY <1>6
<1> DEFINE g == [i \in 0 .. n |-> IF i = n THEN f[n - 1] + Weight(reports[n], R) ELSE f[i]]
<1>8. Weight(reports[n], R) \in Nat
  BY <1>1, <1>4, <1>5, WeightType, ElementOfSeq
<1>9. Tallies(g, reports, R, n)
  BY <1>4, <1>5, <1>6, <1>7, <1>8 DEF Tallies
<1> QED BY <1>4, <1>9

LEMMA TallyUnique ==
  ASSUME NEW reports, NEW R, NEW n \in Nat, NEW f, NEW g,
         Tallies(f, reports, R, n), Tallies(g, reports, R, n)
  PROVE  f[n] = g[n]
<1> DEFINE T == {i \in Nat : i <= n /\ f[i] # g[i]}
<1>1. SUFFICES ASSUME T # {} PROVE FALSE OBVIOUS
<1>2. PICK i \in T : \A m \in T : i <= m BY <1>1, NatLeast
<1>3. i # 0 BY <1>2 DEF Tallies
<1>4. i - 1 \in Nat /\ i - 1 <= n /\ i - 1 \notin T /\ i \in 1 .. n BY <1>2, <1>3
<1>5. f[i - 1] = g[i - 1] BY <1>4
<1>6. f[i] = g[i] BY <1>4, <1>5 DEF Tallies
<1> QED BY <1>2, <1>6

\* Packets is what every such function says of the whole list.
LEMMA PacketsTally ==
  ASSUME NEW reports \in Seq(Report), NEW R
  PROVE  \E f : Tallies(f, reports, R, Len(reports)) /\ Packets(reports, R) = f[Len(reports)]
<1> DEFINE P(g) == g = [i \in 0 .. Len(reports) |->
             IF i = 0 THEN 0
             ELSE g[i - 1] + (IF reports[i].rule \in R THEN reports[i].count ELSE 0)]
<1>1. PICK f : Tallies(f, reports, R, Len(reports)) BY TallyExists
<1>2. Len(reports) \in Nat BY LenProperties
<1>3. P(f) BY <1>1, <1>2 DEF Tallies, Weight
<1>4. P(CHOOSE g : P(g)) BY <1>3, Zenon
<1>5. Packets(reports, R) = (CHOOSE g : P(g))[Len(reports)] BY DEF Packets
<1> DEFINE h == CHOOSE g : P(g)
<1> HIDE DEF h
<1>6. P(h) /\ Packets(reports, R) = h[Len(reports)] BY <1>4, <1>5 DEF h
<1>7. DOMAIN h = 0 .. Len(reports) /\ h[0] = 0 BY <1>2, <1>6
<1>8. \A i \in 1 .. Len(reports) : h[i] = h[i - 1] + Weight(reports[i], R)
  BY <1>2, <1>6 DEF Weight
<1>9. \A i \in 0 .. Len(reports) : h[i] = f[i]
  <2> DEFINE T == {i \in Nat : i <= Len(reports) /\ h[i] # f[i]}
  <2>1. SUFFICES ASSUME T # {} PROVE FALSE BY <1>2
  <2>2. PICK i \in T : \A m \in T : i <= m BY <2>1, NatLeast
  <2>3. i # 0 BY <1>1, <1>7, <2>2 DEF Tallies
  <2>4. i - 1 \in Nat /\ i - 1 <= Len(reports) /\ i - 1 \notin T /\ i \in 1 .. Len(reports)
    BY <1>2, <2>2, <2>3
  <2>5. h[i - 1] = f[i - 1] BY <2>4
  <2>6. h[i] = f[i] BY <1>1, <1>8, <2>4, <2>5 DEF Tallies
  <2> QED BY <2>2, <2>6
<1> QED BY <1>1, <1>2, <1>6, <1>9

LEMMA PacketsIs ==
  ASSUME NEW reports \in Seq(Report), NEW R, NEW f, Tallies(f, reports, R, Len(reports))
  PROVE  Packets(reports, R) = f[Len(reports)]
BY PacketsTally, TallyUnique, LenProperties

LEMMA PacketsType ==
  ASSUME NEW reports \in Seq(Report), NEW R
  PROVE  Packets(reports, R) \in Nat
<1>1. Len(reports) \in Nat BY LenProperties
<1> QED BY <1>1, PacketsTally DEF Tallies

LEMMA PacketsNone ==
  ASSUME NEW R
  PROVE  Packets(<<>>, R) = 0
<1>1. <<>> \in Seq(Report) /\ Len(<<>>) = 0 BY EmptySeq
<1>2. PICK f : Tallies(f, <<>>, R, 0) /\ Packets(<<>>, R) = f[0] BY <1>1, PacketsTally
<1> QED BY <1>2 DEF Tallies

LEMMA PacketsOne ==
  ASSUME NEW d \in Report, NEW R
  PROVE  Packets(<<d>>, R) = Weight(d, R)
<1>1. <<d>> \in Seq(Report) /\ Len(<<d>>) = 1 /\ <<d>>[1] = d OBVIOUS
<1>2. PICK f : Tallies(f, <<d>>, R, 1) /\ Packets(<<d>>, R) = f[1] BY <1>1, PacketsTally
<1>3. f[1] = f[0] + Weight(d, R) /\ f[0] = 0 BY <1>1, <1>2 DEF Tallies
<1> QED BY <1>2, <1>3, WeightType

LEMMA PacketsConcat ==
  ASSUME NEW before \in Seq(Report), NEW after \in Seq(Report), NEW R
  PROVE  Packets(before \o after, R) = Packets(before, R) + Packets(after, R)
<1> DEFINE a == Len(before)
           b == Len(after)
           all == before \o after
<1>1. a \in Nat /\ b \in Nat BY LenProperties
<1>2. /\ all \in Seq(Report) /\ Len(all) = a + b
      /\ \A i \in 1 .. a + b : all[i] = IF i <= a THEN before[i] ELSE after[i - a]
  BY ConcatProperties
<1>3. PICK f : Tallies(f, before, R, a) /\ Packets(before, R) = f[a] BY PacketsTally
<1>4. PICK g : Tallies(g, after, R, b) /\ Packets(after, R) = g[b] BY PacketsTally
<1> HIDE DEF a, b, all
<1> DEFINE h == [i \in 0 .. a + b |-> IF i <= a THEN f[i] ELSE f[a] + g[i - a]]
<1>5. h \in [0 .. a + b -> Nat] /\ h[0] = 0 BY <1>1, <1>3, <1>4 DEF Tallies
<1>6. ASSUME NEW i \in 1 .. a + b PROVE h[i] = h[i - 1] + Weight(all[i], R)
  <2>1. CASE i <= a
    <3>1. i \in 1 .. a /\ all[i] = before[i] BY <1>1, <1>2, <2>1
    <3>2. f[i] = f[i - 1] + Weight(all[i], R) BY <1>3, <3>1 DEF Tallies
    <3>3. h[i] = f[i] /\ h[i - 1] = f[i - 1] BY <1>1, <3>1
    <3> QED BY <3>2, <3>3
  <2>2. CASE i > a
    <3>1. i - a \in 1 .. b /\ all[i] = after[i - a] BY <1>1, <1>2, <2>2
    <3>2. g[i - a] = g[i - a - 1] + Weight(all[i], R) BY <1>4, <3>1 DEF Tallies
    <3>3. h[i] = f[a] + g[i - a] BY <1>1, <2>2
    <3>4. h[i - 1] = f[a] + g[i - a - 1]
      <4>1. CASE i - 1 = a BY <1>1, <1>3, <1>4, <4>1 DEF Tallies
      <4>2. CASE i - 1 # a BY <1>1, <2>2, <4>2
      <4> QED BY <4>1, <4>2
    <3>5. f[a] \in Nat /\ g[i - a - 1] \in Nat
      <4>1. a \in 0 .. a /\ i - a - 1 \in 0 .. b BY <1>1, <3>1
      <4> QED BY <1>3, <1>4, <4>1 DEF Tallies
    <3>6. Weight(all[i], R) \in Nat BY <1>2, WeightType, ElementOfSeq
    <3> QED BY <3>2, <3>3, <3>4, <3>5, <3>6
  <2> QED BY <1>1, <2>1, <2>2
<1>7. Tallies(h, all, R, Len(all)) BY <1>2, <1>5, <1>6 DEF Tallies
<1>8. Packets(all, R) = h[a + b] BY <1>2, <1>7, PacketsIs
<1>9. h[a + b] = f[a] + g[b]
  <2>1. CASE b = 0
    <3>1. g[b] = 0 /\ f[a] \in Nat /\ a + b = a BY <1>1, <1>3, <1>4, <2>1 DEF Tallies
    <3>2. h[a] = f[a] BY <1>1
    <3> QED BY <3>1, <3>2
  <2>2. CASE b # 0
    <3>1. a + b \in 0 .. a + b /\ ~(a + b <= a) /\ (a + b) - a = b BY <1>1, <2>2
    <3> QED BY <3>1
  <2> QED BY <2>1, <2>2
<1> QED BY <1>3, <1>4, <1>8, <1>9 DEF all

\* The packets of rules that are told apart are the packets of all of them.
LEMMA PacketsApart ==
  ASSUME NEW reports \in Seq(Report), NEW R, NEW S, R \cap S = {}
  PROVE  Packets(reports, R \cup S) = Packets(reports, R) + Packets(reports, S)
<1> DEFINE n == Len(reports)
<1>1. n \in Nat BY LenProperties
<1>2. PICK f : Tallies(f, reports, R, n) /\ Packets(reports, R) = f[n] BY PacketsTally
<1>3. PICK g : Tallies(g, reports, S, n) /\ Packets(reports, S) = g[n] BY PacketsTally
<1> HIDE DEF n
<1> DEFINE h == [i \in 0 .. n |-> f[i] + g[i]]
<1>4. \A i \in 1 .. n : Weight(reports[i], R \cup S) = Weight(reports[i], R) + Weight(reports[i], S)
  <2>1. SUFFICES ASSUME NEW i \in 1 .. n
                 PROVE  Weight(reports[i], R \cup S) = Weight(reports[i], R) + Weight(reports[i], S)
    OBVIOUS
  <2>2. reports[i] \in Report BY ElementOfSeq DEF n
  <2>3. reports[i].count \in Nat BY <2>2 DEF Report
  <2> QED BY <2>3 DEF Weight
<1>5. \A i \in 1 .. n : Weight(reports[i], R) \in Nat /\ Weight(reports[i], S) \in Nat
  BY WeightType, ElementOfSeq DEF n
<1>6. Tallies(h, reports, R \cup S, n)
  <2>1. h \in [0 .. n -> Nat] /\ h[0] = 0 BY <1>1, <1>2, <1>3 DEF Tallies
  <2>2. ASSUME NEW i \in 1 .. n PROVE h[i] = h[i - 1] + Weight(reports[i], R \cup S)
    <3>1. i \in 0 .. n /\ i - 1 \in 0 .. n BY <1>1
    <3>2. h[i] = f[i] + g[i] /\ h[i - 1] = f[i - 1] + g[i - 1] BY <3>1
    <3>3. f[i - 1] \in Nat /\ g[i - 1] \in Nat BY <1>2, <1>3, <3>1 DEF Tallies
    <3>4. f[i] = f[i - 1] + Weight(reports[i], R) /\ g[i] = g[i - 1] + Weight(reports[i], S)
      BY <1>2, <1>3 DEF Tallies
    <3>5. /\ Weight(reports[i], R) \in Nat /\ Weight(reports[i], S) \in Nat
          /\ Weight(reports[i], R \cup S) = Weight(reports[i], R) + Weight(reports[i], S)
      BY <1>4, <1>5
    <3> HIDE DEF h
    <3> QED BY <3>2, <3>3, <3>4, <3>5
  <2> QED BY <2>1, <2>2 DEF Tallies
<1>7. Packets(reports, R \cup S) = h[n] BY <1>6, PacketsIs DEF n
<1> QED BY <1>1, <1>2, <1>3, <1>7

LEMMA CardinalityUpTo ==
  ASSUME NEW n \in Nat
  PROVE  IsFiniteSet(1 .. n) /\ Cardinality(1 .. n) = n
<1>1. 1 \in Int /\ n \in Int OBVIOUS
<1>2. IsFiniteSet(1 .. n) BY <1>1, FS_Interval
<1>3. Cardinality(1 .. n) = IF 1 > n THEN 0 ELSE n - 1 + 1 BY <1>1, FS_Interval
<1> QED BY <1>2, <1>3

\* A queue is its first reports and the rest.
LEMMA PacketsSplit ==
  ASSUME NEW reports \in Seq(Report), NEW n \in 0 .. Len(reports), NEW R
  PROVE  LET taken == SubSeq(reports, 1, n)
             rest  == SubSeq(reports, n + 1, Len(reports))
         IN /\ taken \in Seq(Report) /\ Len(taken) = n
            /\ rest \in Seq(Report) /\ Len(rest) <= Len(reports)
            /\ Packets(reports, R) = Packets(taken, R) + Packets(rest, R)
<1> DEFINE m == Len(reports)
           taken == SubSeq(reports, 1, n)
           rest  == SubSeq(reports, n + 1, m)
<1>1. m \in Nat /\ n \in Nat BY LenProperties
<1>2. taken \in Seq(Report) /\ Len(taken) = n
  BY <1>1, SubSeqProperties, ElementOfSeq
<1>3. rest \in Seq(Report) /\ Len(rest) <= m
  BY <1>1, SubSeqProperties, ElementOfSeq
<1>4. taken \o rest = reports
  <2>1. 1 \in 1 .. m + 1 /\ n \in 1 - 1 .. m /\ m \in n .. m BY <1>1
  <2>2. SubSeq(reports, 1, n) \o SubSeq(reports, n + 1, m) = SubSeq(reports, 1, m)
    BY <2>1, ConcatAdjacentSubSeq
  <2> QED BY <2>2, SubSeqFull
<1> HIDE DEF taken, rest
<1>5. Packets(taken \o rest, R) = Packets(taken, R) + Packets(rest, R)
  BY <1>2, <1>3, PacketsConcat, Zenon
<1> QED BY <1>2, <1>3, <1>4, <1>5 DEF taken, rest

\* A queue is its oldest report and the others.
LEMMA PacketsTail ==
  ASSUME NEW reports \in Seq(Report), reports # <<>>, NEW R
  PROVE  /\ Tail(reports) \in Seq(Report) /\ Head(reports) \in Report
         /\ Packets(reports, R) = Weight(Head(reports), R) + Packets(Tail(reports), R)
<1> DEFINE first == Head(reports)
           rest == Tail(reports)
<1>1. first \in Report /\ rest \in Seq(Report) BY HeadTailProperties
<1>2. <<first>> \in Seq(Report) BY <1>1
<1>3. <<first>> \o rest = reports OBVIOUS
<1> HIDE DEF first, rest
<1>4. Packets(<<first>> \o rest, R) = Packets(<<first>>, R) + Packets(rest, R)
  BY <1>1, <1>2, PacketsConcat, Zenon
<1>5. Packets(<<first>>, R) = Weight(first, R) BY <1>1, PacketsOne
<1> QED BY <1>1, <1>3, <1>4, <1>5 DEF first, rest

LEMMA PacketsAppend ==
  ASSUME NEW reports \in Seq(Report), NEW d \in Report, NEW R
  PROVE  Packets(Append(reports, d), R) = Packets(reports, R) + Weight(d, R)
<1>1. <<d>> \in Seq(Report) OBVIOUS
<1>2. Append(reports, d) = reports \o <<d>> BY AppendIsConcat
<1>3. Packets(reports \o <<d>>, R) = Packets(reports, R) + Packets(<<d>>, R)
  BY <1>1, PacketsConcat, Zenon
<1> QED BY <1>2, <1>3, PacketsOne

-----------------------------------------------------------------------------
(***************************************************************************)
(* Linux: counters, listings and reports.                                  *)
(***************************************************************************)

LEMMA Caps ==
  /\ QueueCap \in Nat \ {0} /\ RingCap \in Nat \ {0} /\ DrainCap \in Nat \ {0}
  /\ MaxPackets \in Nat \ {0} /\ MaxApplies \in Nat /\ MaxReadings \in Nat
BY DropsAssumption

\* The modules of the filters count as this one does.
LEMMA SameCardinality ==
  ASSUME NEW S
  PROVE  Nft!Cardinality(S) = Cardinality(S) /\ Wfp!Cardinality(S) = Cardinality(S)
<1>1. Nft!Cardinality(S) = Cardinality(S)
  BY Zenon DEF Nft!Cardinality, Nft!IsFiniteSet, Cardinality, IsFiniteSet
<1>2. Wfp!Cardinality(S) = Cardinality(S)
  BY Zenon DEF Wfp!Cardinality, Wfp!IsFiniteSet, Cardinality, IsFiniteSet
<1> QED BY <1>1, <1>2

\* A step of the filter of Linux.
LinuxStep == platform = "linux" /\ Nft!NftNext /\ UNCHANGED <<platform, wfpOnly, engine>>

LEMMA QueueType ==
  ASSUME TypeOK
  PROVE  queue \in Seq(Report) /\ Len(queue) \in Nat
<1>1. queue \in Seq(Report) BY DEF TypeOK, Report
<1> QED BY <1>1, LenProperties

LEMMA ReportedType ==
  ASSUME TypeOK, NEW r \in Rules
  PROVE  /\ Reported[r] = hits[r] + Packets(queue, {r})
         /\ hits[r] \in Nat /\ Packets(queue, {r}) \in Nat /\ Reported[r] \in Nat
<1>1. Packets(queue, {r}) \in Nat BY QueueType, PacketsType
<1>2. hits[r] \in Nat BY DEF TypeOK
<1> QED BY <1>1, <1>2 DEF Reported

LEMMA LinesType ==
  /\ Len(Lines) \in Nat /\ DOMAIN Lines = 1 .. Len(Lines)
  /\ \A i \in DOMAIN Lines : Lines[i] \in Rules
<1>1. Lines \in Seq(Rules) BY DropsAssumption
<1> QED BY <1>1, LenProperties, ElementOfSeq

\* The line of a tag of one line.
LEMMA SingleLine ==
  ASSUME NEW r \in Nft!Single
  PROVE  /\ r \in Rules /\ Nft!LineOf(r) \in DOMAIN Lines
         /\ \A j \in DOMAIN Lines : Lines[j] = r <=> j = Nft!LineOf(r)
<1>1. PICK i \in DOMAIN Lines : \A j \in DOMAIN Lines : Lines[j] = r <=> j = i
  BY DEF Nft!Single
<1>2. Lines[i] = r BY <1>1
<1>3. Nft!LineOf(r) \in DOMAIN Lines /\ Lines[Nft!LineOf(r)] = r BY <1>2 DEF Nft!LineOf
<1>4. Nft!LineOf(r) = i BY <1>1, <1>3
<1> QED BY <1>1, <1>3, <1>4 DEF Nft!Single

LEMMA CountType ==
  ASSUME TypeOK
  PROVE  /\ table \in Nat /\ read \in Nat
         /\ \A i \in DOMAIN Lines : count[i] \in Nat
         /\ \A r \in Rules : /\ missed[r] \in Nat /\ matched[r] \in Nat
                             /\ stored[r] = None \/ stored[r] \in Nat
         /\ \A t \in Threads, i \in DOMAIN Lines : listing[t].count[i] \in 0 .. MaxPackets
         /\ \A t \in Threads : listing[t].table \in Nat
<1>1. \A r \in Rules : matched[r] \in 0 .. MaxPackets /\ missed[r] \in Nat BY DEF TypeOK
<1>2. \A i \in DOMAIN Lines : count[i] \in 0 .. MaxPackets BY DEF TypeOK, Nft!NftTypeOK
<1>3. \A r \in Rules : stored[r] \in (0 .. MaxPackets) \cup {None} BY DEF TypeOK, Nft!NftTypeOK
<1>4. table \in 0 .. MaxApplies /\ read \in 0 .. MaxApplies BY DEF TypeOK, Nft!NftTypeOK
<1>5. ASSUME NEW t \in Threads
      PROVE  /\ \A i \in DOMAIN Lines : listing[t].count[i] \in 0 .. MaxPackets
             /\ listing[t].table \in 0 .. MaxApplies
  <2>1. listing[t] \in [count : [DOMAIN Lines -> 0 .. MaxPackets], table : 0 .. MaxApplies]
    BY DEF TypeOK, Nft!NftTypeOK, Threads, Nft!Threads
  <2> QED BY <2>1
<1> QED BY <1>1, <1>2, <1>3, <1>4, <1>5

\* The same of a tag of one line.
LEMMA SingleType ==
  ASSUME TypeOK, NEW r \in Nft!Single
  PROVE  /\ Counted(r) \in Nat /\ Nft!Unread(r) \in Nat
         /\ Nft!Unread(r) = IF stored[r] = None THEN Counted(r)
                            ELSE IF Counted(r) > stored[r] THEN Counted(r) - stored[r] ELSE 0
         /\ Reported[r] \in Nat /\ missed[r] \in Nat /\ matched[r] \in Nat
         /\ stored[r] = None \/ stored[r] \in Nat
<1>1. r \in Rules /\ Nft!LineOf(r) \in DOMAIN Lines BY SingleLine
<1>2. /\ Counted(r) \in Nat /\ missed[r] \in Nat /\ matched[r] \in Nat
      /\ stored[r] = None \/ stored[r] \in Nat
  BY <1>1, CountType DEF Counted
<1>3. Nft!Unread(r) = IF stored[r] = None THEN Counted(r)
                      ELSE IF Counted(r) > stored[r] THEN Counted(r) - stored[r] ELSE 0
  BY DEF Nft!Unread, Counted
<1>4. Nft!Unread(r) \in Nat BY <1>2, <1>3
<1> QED BY <1>1, <1>2, <1>3, <1>4, ReportedType

\* What is reported changes with the queue and the hits only.
LEMMA ReportedSame ==
  ASSUME UNCHANGED <<queue, hits>>
  PROVE  Reported' = Reported
BY DEF Reported

LEMMA MatchStep ==
  ASSUME IInv, LinuxStep, NEW i \in DOMAIN Lines, Nft!Match(i)
  PROVE  TypeOK' /\ LinuxInv'
<1> DEFINE r == Lines[i]
<1> USE DEF LinuxStep, IInv, wfpOnly, engine
<1>1. LinuxInv /\ TypeOK OBVIOUS
<1>2. /\ matched[r] < MaxPackets
      /\ count' = [count EXCEPT ![i] = @ + 1] /\ matched' = [matched EXCEPT ![r] = @ + 1]
      /\ UNCHANGED <<table, stored, read, queue, pc, listing, lock, at, readings, missed, crossed>>
  BY DEF Nft!Match
<1>3. r \in Rules BY LinesType
<1> HIDE DEF r
<1>4. matched[r] \in Nat /\ count[i] \in Nat /\ count[i] <= matched[r]
  BY <1>1, <1>3, CountType DEF LinuxInv, OnlyMatched, r
<1>5. count'[i] = count[i] + 1 /\ matched'[r] = matched[r] + 1
  BY <1>1, <1>2, <1>3 DEF TypeOK, Nft!NftTypeOK
<1>6. /\ \A j \in DOMAIN Lines \ {i} : count'[j] = count[j]
      /\ \A q \in Rules \ {r} : matched'[q] = matched[q]
  BY <1>1, <1>2 DEF TypeOK, Nft!NftTypeOK
<1>7. count[i] + 1 \in 0 .. MaxPackets /\ matched[r] + 1 \in 0 .. MaxPackets
  BY <1>2, <1>4, Caps
<1>8. TypeOK'
  BY <1>1, <1>2, <1>7 DEF TypeOK, Nft!NftTypeOK, Wfp!WfpTypeOK
<1>9. (\A j \in DOMAIN Lines : count[j] <= count'[j]) /\ (\A q \in Rules : matched[q] <= matched'[q])
  BY <1>1, <1>3, <1>4, <1>5, <1>6, CountType
<1>10. ListingsPast'
  <2>1. SUFFICES ASSUME NEW t \in Threads, listing[t].table = table, NEW j \in DOMAIN Lines
                 PROVE  listing[t].count[j] <= count'[j]
    BY <1>1, <1>2 DEF LinuxInv, ListingsPast
  <2>2. listing[t].count[j] <= count[j] /\ count[j] <= count'[j]
    BY <1>1, <1>9, <2>1 DEF LinuxInv, ListingsPast
  <2>3. listing[t].count[j] \in 0 .. MaxPackets /\ count[j] \in Nat BY <1>1, <2>1, CountType
  <2>4. count'[j] \in Nat BY <1>4, <1>5, <1>6, <2>3
  <2> QED BY <2>2, <2>3, <2>4, Caps
<1>11. \A q \in Rules : matched[q] \in Nat /\ matched'[q] \in Nat
  BY <1>1, <1>4, <1>5, <1>6, CountType
<1>12. OnlyMatched'
  <2>1. ASSUME NEW j \in DOMAIN Lines PROVE count'[j] <= matched'[Lines[j]]
    <3>1. /\ Lines[j] \in Rules /\ count[j] \in Nat /\ count[j] <= matched[Lines[j]]
          /\ matched[Lines[j]] <= matched'[Lines[j]]
      BY <1>1, <1>9, <2>1, LinesType, CountType DEF LinuxInv, OnlyMatched
    <3>2. matched[Lines[j]] \in Nat /\ matched'[Lines[j]] \in Nat BY <1>11, <3>1
    <3>3. CASE j = i BY <1>4, <1>5, <3>3 DEF r
    <3>4. CASE j # i BY <1>6, <3>1, <3>2, <3>4
    <3> QED BY <3>3, <3>4
  <2>2. ASSUME NEW t \in Threads, NEW j \in DOMAIN Lines
        PROVE  listing'[t].count[j] <= matched'[Lines[j]]
    <3>1. /\ Lines[j] \in Rules /\ listing[t].count[j] \in 0 .. MaxPackets
          /\ listing[t].count[j] <= matched[Lines[j]]
          /\ matched[Lines[j]] <= matched'[Lines[j]]
      BY <1>1, <1>9, <2>2, LinesType, CountType DEF LinuxInv, OnlyMatched
    <3>2. matched[Lines[j]] \in Nat /\ matched'[Lines[j]] \in Nat BY <1>11, <3>1
    <3> QED BY <1>2, <3>1, <3>2, Caps
  <2>3. ASSUME NEW q \in Rules, Reported'[q] > 0 PROVE matched'[q] > 0
    <3>1. Reported[q] > 0 BY <1>2, <2>3, ReportedSame
    <3>2. matched[q] > 0 /\ matched[q] <= matched'[q] BY <1>1, <1>9, <3>1 DEF LinuxInv, OnlyMatched
    <3> QED BY <1>11, <3>2
  <2> QED BY <2>1, <2>2, <2>3 DEF OnlyMatched
<1>13. ASSUME ~crossed PROVE LinuxAccount'
  <2>1. SUFFICES ASSUME NEW q \in Nft!Single
                 PROVE  IF read = table
                        THEN /\ stored[q] = None \/ stored[q] <= Counted(q)'
                             /\ matched'[q] = Reported[q] + Nft!Unread(q)' + missed[q]
                        ELSE matched'[q] = Reported[q] + Counted(q)' + missed[q]
    BY <1>2, ReportedSame DEF LinuxAccount
  <2>2. IF read = table
        THEN /\ stored[q] = None \/ stored[q] <= Counted(q)
             /\ matched[q] = Reported[q] + Nft!Unread(q) + missed[q]
        ELSE matched[q] = Reported[q] + Counted(q) + missed[q]
    BY <1>1, <1>13 DEF LinuxInv, LinuxAccount
  <2>3. /\ q \in Rules /\ Nft!LineOf(q) \in DOMAIN Lines
        /\ \A j \in DOMAIN Lines : Lines[j] = q <=> j = Nft!LineOf(q)
    BY SingleLine
  <2>4. /\ Counted(q) \in Nat /\ Reported[q] \in Nat /\ missed[q] \in Nat /\ matched[q] \in Nat
        /\ stored[q] = None \/ stored[q] \in Nat
        /\ Nft!Unread(q) = IF stored[q] = None THEN Counted(q)
                           ELSE IF Counted(q) > stored[q] THEN Counted(q) - stored[q] ELSE 0
    BY <1>1, SingleType
  <2>5. Nft!Unread(q)' = IF stored[q] = None THEN Counted(q)'
                         ELSE IF Counted(q)' > stored[q] THEN Counted(q)' - stored[q] ELSE 0
    BY <1>2 DEF Nft!Unread, Counted
  <2>6. \/ Counted(q)' = Counted(q) + 1 /\ matched'[q] = matched[q] + 1
        \/ Counted(q)' = Counted(q) /\ matched'[q] = matched[q]
    <3>1. CASE q = r
      <4>1. i = Nft!LineOf(q) BY <2>3, <3>1 DEF r
      <4> QED BY <1>5, <3>1, <4>1 DEF Counted
    <3>2. CASE q # r
      <4>1. i # Nft!LineOf(q) BY <2>3, <3>2 DEF r
      <4> QED BY <1>6, <2>3, <3>2, <4>1 DEF Counted
    <3> QED BY <3>1, <3>2
  <2> DEFINE c == Counted(q)
             d == Counted(q)'
             u == Nft!Unread(q)
             v == Nft!Unread(q)'
             m == Reported[q]
  <2>7. /\ c \in Nat /\ m \in Nat /\ missed[q] \in Nat /\ matched[q] \in Nat
        /\ stored[q] = None \/ stored[q] \in Nat
        /\ u = IF stored[q] = None THEN c ELSE IF c > stored[q] THEN c - stored[q] ELSE 0
        /\ v = IF stored[q] = None THEN d ELSE IF d > stored[q] THEN d - stored[q] ELSE 0
        /\ (d = c + 1 /\ matched'[q] = matched[q] + 1) \/ (d = c /\ matched'[q] = matched[q])
        /\ IF read = table
           THEN (stored[q] = None \/ stored[q] <= c) /\ matched[q] = m + u + missed[q]
           ELSE matched[q] = m + c + missed[q]
    BY <2>2, <2>4, <2>5, <2>6
  <2> HIDE DEF c, d, u, v, m
  <2>8. IF read = table
        THEN (stored[q] = None \/ stored[q] <= d) /\ matched'[q] = m + v + missed[q]
        ELSE matched'[q] = m + d + missed[q]
    <3>1. CASE read # table BY <2>7, <3>1
    <3>2. CASE read = table /\ stored[q] = None BY <2>7, <3>2
    <3>3. CASE read = table /\ stored[q] # None BY <2>7, <3>3
    <3> QED BY <3>1, <3>2, <3>3
  <2> QED BY <2>8 DEF d, v, m
<1>14. IF pc'[Handler] = "reset" THEN read' < table' ELSE read' = table'
  BY <1>1, <1>2 DEF LinuxInv
<1> QED BY <1>2, <1>8, <1>10, <1>12, <1>13, <1>14 DEF LinuxInv

LEMMA InstallStep ==
  ASSUME IInv, LinuxStep, Nft!Install
  PROVE  TypeOK' /\ LinuxInv'
<1> USE DEF LinuxStep, IInv, Nft!Install, Nft!Goto, Nft!Zero, wfpOnly, engine
<1>1. LinuxInv /\ TypeOK OBVIOUS
<1>2. /\ \A r \in Rules : missed[r] \in Nat /\ matched[r] \in Nat
      /\ \A r \in Nft!Single : Nft!Unread(r) \in Nat /\ Reported[r] \in Nat
  BY <1>1, CountType, SingleType
<1>3. table \in Nat /\ read \in Nat /\ table + 1 \in 0 .. MaxApplies
  BY <1>1, Caps DEF TypeOK, Nft!NftTypeOK
<1>4. TypeOK'
  <2>1. count' \in [DOMAIN Lines -> 0 .. MaxPackets] BY Caps
  <2>2. missed' \in [Rules -> Nat] BY <1>2
  <2> QED BY <1>1, <1>3, <2>1, <2>2 DEF TypeOK, Nft!NftTypeOK, Wfp!WfpTypeOK
<1>5. read = table /\ pc'[Handler] = "reset"
  BY <1>1 DEF LinuxInv, TypeOK, Nft!NftTypeOK, Nft!Threads
<1>6. ListingsPast'
  <2>1. SUFFICES ASSUME NEW t \in Threads PROVE listing[t].table <= table + 1 /\ listing[t].table # table + 1
    BY DEF ListingsPast
  <2>2. listing[t].table \in Nat BY <1>1, CountType
  <2> QED BY <1>1, <1>3, <2>2 DEF LinuxInv, ListingsPast
<1>7. ASSUME ~crossed PROVE LinuxAccount'
  <2>1. SUFFICES ASSUME NEW r \in Nft!Single
                 PROVE  matched[r] = Reported[r] + Counted(r)' + missed'[r]
    BY <1>3, <1>5, ReportedSame DEF LinuxAccount
  <2>2. r \in Rules /\ Counted(r)' = 0 BY SingleLine DEF Counted
  <2>3. missed'[r] = missed[r] + Nft!Unread(r) BY <2>2
  <2>4. matched[r] = Reported[r] + Nft!Unread(r) + missed[r]
    BY <1>1, <1>5, <1>7 DEF LinuxInv, LinuxAccount
  <2> QED BY <1>2, <2>2, <2>3, <2>4
<1>8. OnlyMatched'
  <2>1. \A i \in DOMAIN Lines : count'[i] <= matched'[Lines[i]] BY <1>2, LinesType
  <2> QED BY <1>1, <2>1, ReportedSame DEF LinuxInv, OnlyMatched
<1> QED BY <1>3, <1>4, <1>5, <1>6, <1>7, <1>8 DEF LinuxInv

LEMMA ResetStep ==
  ASSUME IInv, LinuxStep, Nft!Reset
  PROVE  TypeOK' /\ LinuxInv'
<1> USE DEF LinuxStep, IInv, Nft!Reset, Nft!Goto, Nft!Forgotten, wfpOnly, engine
<1>1. LinuxInv /\ TypeOK OBVIOUS
<1>2. TypeOK' BY <1>1 DEF TypeOK, Nft!NftTypeOK, Wfp!WfpTypeOK
<1>3. ListingsPast' BY <1>1 DEF LinuxInv, ListingsPast
<1>4. read < table /\ read # table
  <2>1. read < table BY <1>1 DEF LinuxInv
  <2> QED BY <1>1, <2>1, CountType
<1>5. read' = table' /\ pc'[Handler] = "list"
  BY <1>1 DEF TypeOK, Nft!NftTypeOK, Nft!Threads
<1>6. ASSUME ~crossed PROVE LinuxAccount'
  <2>1. SUFFICES ASSUME NEW r \in Nft!Single
                 PROVE  stored'[r] = None /\ matched[r] = Reported[r] + Nft!Unread(r)' + missed[r]
    BY <1>5, ReportedSame DEF LinuxAccount
  <2>2. stored'[r] = None BY SingleLine
  <2>3. Nft!Unread(r)' = Counted(r) BY <2>2 DEF Nft!Unread, Counted
  <2> QED BY <1>1, <1>4, <1>6, <2>2, <2>3 DEF LinuxInv, LinuxAccount
<1>7. OnlyMatched' BY <1>1, ReportedSame DEF LinuxInv, OnlyMatched
<1> QED BY <1>1, <1>2, <1>3, <1>5, <1>6, <1>7 DEF LinuxInv

LEMMA ListStep ==
  ASSUME IInv, LinuxStep, NEW t \in Threads, Nft!List(t)
  PROVE  TypeOK' /\ LinuxInv'
<1> USE DEF LinuxStep, IInv, Nft!List, Nft!Goto, wfpOnly, engine
<1>1. LinuxInv /\ TypeOK OBVIOUS
<1>2. listing'[t] = [count |-> count, table |-> table] /\ \A u \in Threads \ {t} : listing'[u] = listing[u]
  BY <1>1 DEF TypeOK, Nft!NftTypeOK, Threads, Nft!Threads
<1>3. TypeOK'
  BY <1>1 DEF TypeOK, Nft!NftTypeOK, Wfp!WfpTypeOK, Threads, Nft!Threads
<1>4. ListingsPast'
  <2>1. \A i \in DOMAIN Lines : count[i] <= count[i] BY <1>1, CountType
  <2>2. table <= table BY <1>1, CountType
  <2> QED BY <1>1, <1>2, <2>1, <2>2 DEF LinuxInv, ListingsPast
<1>5. IF pc'[Handler] = "reset" THEN read < table ELSE read = table
  BY <1>1 DEF LinuxInv, TypeOK, Nft!NftTypeOK, Threads, Nft!Threads
<1>6. LinuxAccount => LinuxAccount' BY ReportedSame DEF LinuxAccount, Nft!Unread, Counted
<1>7. OnlyMatched' BY <1>1, <1>2, ReportedSame DEF LinuxInv, OnlyMatched
<1> QED BY <1>1, <1>3, <1>4, <1>5, <1>6, <1>7 DEF LinuxInv

LEMMA ReadStartStep ==
  ASSUME IInv, LinuxStep, Nft!ReadStart
  PROVE  TypeOK' /\ LinuxInv'
<1> USE DEF LinuxStep, IInv, Nft!ReadStart, Nft!Goto, wfpOnly, engine
<1>1. LinuxInv /\ TypeOK OBVIOUS
<1>2. readings + 1 \in 0 .. MaxReadings BY <1>1, Caps DEF TypeOK, Nft!NftTypeOK
<1>3. TypeOK' BY <1>1, <1>2 DEF TypeOK, Nft!NftTypeOK, Wfp!WfpTypeOK
<1>4. IF pc'[Handler] = "reset" THEN read < table ELSE read = table
  BY <1>1, DropsAssumption DEF LinuxInv, TypeOK, Nft!NftTypeOK, Threads, Nft!Threads
<1>5. ListingsPast' BY <1>1 DEF LinuxInv, ListingsPast
<1>6. LinuxAccount => LinuxAccount' BY ReportedSame DEF LinuxAccount, Nft!Unread, Counted
<1>7. OnlyMatched' BY <1>1, ReportedSame DEF LinuxInv, OnlyMatched
<1> QED BY <1>1, <1>3, <1>4, <1>5, <1>6, <1>7 DEF LinuxInv

LEMMA ListFailsStep ==
  ASSUME IInv, LinuxStep, NEW t \in Threads, Nft!ListFails(t)
  PROVE  TypeOK' /\ LinuxInv'
<1> USE DEF LinuxStep, IInv, Nft!ListFails, Nft!Goto, wfpOnly, engine
<1>1. LinuxInv /\ TypeOK OBVIOUS
<1>2. TypeOK' BY <1>1 DEF TypeOK, Nft!NftTypeOK, Wfp!WfpTypeOK, Threads, Nft!Threads
<1>3. IF pc'[Handler] = "reset" THEN read < table ELSE read = table
  BY <1>1 DEF LinuxInv, TypeOK, Nft!NftTypeOK, Threads, Nft!Threads
<1>4. ListingsPast' BY <1>1 DEF LinuxInv, ListingsPast
<1>5. LinuxAccount => LinuxAccount' BY ReportedSame DEF LinuxAccount, Nft!Unread, Counted
<1>6. OnlyMatched' BY <1>1, ReportedSame DEF LinuxInv, OnlyMatched
<1> QED BY <1>1, <1>2, <1>3, <1>4, <1>5, <1>6 DEF LinuxInv

LEMMA ScanLockStep ==
  ASSUME IInv, LinuxStep, NEW t \in Threads, Nft!ScanLock(t)
  PROVE  TypeOK' /\ LinuxInv'
<1> USE DEF LinuxStep, IInv, Nft!ScanLock, Nft!Goto, wfpOnly, engine
<1>1. LinuxInv /\ TypeOK OBVIOUS
<1>2. TypeOK' BY <1>1 DEF TypeOK, Nft!NftTypeOK, Wfp!WfpTypeOK, Threads, Nft!Threads
<1>3. IF pc'[Handler] = "reset" THEN read < table ELSE read = table
  BY <1>1 DEF LinuxInv, TypeOK, Nft!NftTypeOK, Threads, Nft!Threads
<1>4. ListingsPast' BY <1>1 DEF LinuxInv, ListingsPast
<1>5. LinuxAccount => LinuxAccount' BY ReportedSame DEF LinuxAccount, Nft!Unread, Counted
<1>6. OnlyMatched' BY <1>1, ReportedSame DEF LinuxInv, OnlyMatched
<1> QED BY <1>1, <1>2, <1>3, <1>4, <1>5, <1>6 DEF LinuxInv

LEMMA ScanUnlockStep ==
  ASSUME IInv, LinuxStep, NEW t \in Threads, Nft!ScanUnlock(t)
  PROVE  TypeOK' /\ LinuxInv'
<1> USE DEF LinuxStep, IInv, Nft!ScanUnlock, Nft!Goto, Nft!Zero, wfpOnly, engine
<1>1. LinuxInv /\ TypeOK OBVIOUS
<1>2. listing'[t] = [count |-> Nft!Zero, table |-> 0] /\ \A u \in Threads \ {t} : listing'[u] = listing[u]
  BY <1>1 DEF TypeOK, Nft!NftTypeOK, Threads, Nft!Threads
<1>3. TypeOK'
  <2>1. [count |-> Nft!Zero, table |-> 0] \in
          [count : [DOMAIN Lines -> 0 .. MaxPackets], table : 0 .. MaxApplies]
    BY Caps
  <2>2. listing' \in [Threads -> [count : [DOMAIN Lines -> 0 .. MaxPackets], table : 0 .. MaxApplies]]
    BY <1>1, <2>1 DEF TypeOK, Nft!NftTypeOK, Threads, Nft!Threads
  <2>3. 1 \in 1 .. Len(Lines) + 1 BY LinesType
  <2> QED BY <1>1, <2>2, <2>3 DEF TypeOK, Nft!NftTypeOK, Wfp!WfpTypeOK, Threads, Nft!Threads
<1>4. IF pc'[Handler] = "reset" THEN read < table ELSE read = table
  BY <1>1 DEF LinuxInv, TypeOK, Nft!NftTypeOK, Threads, Nft!Threads
<1>5. \A i \in DOMAIN Lines : /\ listing'[t].count[i] = 0 /\ 0 <= count[i]
                              /\ 0 <= matched[Lines[i]]
  BY <1>1, <1>2, CountType, LinesType
<1>6. ListingsPast'
  <2>1. listing'[t].table = 0 /\ 0 <= table BY <1>1, <1>2, CountType
  <2> QED BY <1>1, <1>2, <1>5, <2>1 DEF LinuxInv, ListingsPast
<1>7. LinuxAccount => LinuxAccount' BY ReportedSame DEF LinuxAccount, Nft!Unread, Counted
<1>8. OnlyMatched' BY <1>1, <1>2, <1>5, ReportedSame DEF LinuxInv, OnlyMatched
<1> QED BY <1>1, <1>3, <1>4, <1>6, <1>7, <1>8 DEF LinuxInv

\* The growth of a line goes to the queue or is missed.
LEMMA LineRecorded ==
  ASSUME TypeOK, NEW r \in Rules, NEW n \in 0 .. MaxPackets, Nft!Recorded(r, n), UNCHANGED hits,
         platform = "linux"
  PROVE  /\ queue' \in Seq(Report) /\ Len(queue') <= QueueCap
         /\ missed' \in [Rules -> Nat]
         /\ \A q \in Rules \ {r} : Reported'[q] = Reported[q] /\ missed'[q] = missed[q]
         /\ IF stored[r] = None
            THEN Reported'[r] = Reported[r] /\ missed'[r] = missed[r] + n
            ELSE IF n > stored[r]
            THEN \/ Reported'[r] = Reported[r] + (n - stored[r]) /\ missed'[r] = missed[r]
                 \/ Reported'[r] = Reported[r] /\ missed'[r] = missed[r] + (n - stored[r])
            ELSE Reported'[r] = Reported[r] /\ missed'[r] = missed[r]
<1>1. queue \in Seq(Report) /\ Len(queue) \in Nat BY QueueType
<1>2. /\ n \in Nat /\ missed[r] \in Nat /\ missed \in [Rules -> Nat]
      /\ stored[r] = None \/ stored[r] \in Nat
  BY CountType, Caps DEF TypeOK
<1>3. Len(queue) <= QueueCap BY DEF TypeOK
<1>4. CASE stored[r] # None /\ n > stored[r] /\ Len(queue) < QueueCap
  <2> DEFINE d == [rule |-> r, count |-> n - stored[r]]
  <2>1. queue' = Append(queue, d) /\ missed' = missed BY <1>4 DEF Nft!Recorded
  <2>2. n - stored[r] \in 1 .. MaxPackets BY <1>2, <1>4, Caps
  <2>3. d \in Report /\ d.rule = r /\ d.count = n - stored[r] BY <2>2 DEF Report
  <2> HIDE DEF d
  <2>4. queue' \in Seq(Report) /\ Len(queue') = Len(queue) + 1
    BY <1>1, <2>1, <2>3, AppendProperties
  <2>5. Len(queue') <= QueueCap BY <1>1, <1>4, <2>4, Caps
  <2>6. ASSUME NEW q \in Rules PROVE Reported'[q] = Reported[q] + Weight(d, {q})
    <3>1. Packets(queue', {q}) = Packets(queue, {q}) + Weight(d, {q})
      BY <1>1, <2>1, <2>3, PacketsAppend
    <3>2. Reported'[q] = hits[q] + Packets(queue', {q}) BY DEF Reported
    <3>3. Weight(d, {q}) \in Nat BY <2>3, WeightType
    <3>4. /\ Reported[q] = hits[q] + Packets(queue, {q})
          /\ hits[q] \in Nat /\ Packets(queue, {q}) \in Nat
      BY ReportedType
    <3> QED BY <3>1, <3>2, <3>3, <3>4
  <2>7. Weight(d, {r}) = n - stored[r] /\ \A q \in Rules \ {r} : Weight(d, {q}) = 0
    BY <2>3 DEF Weight
  <2>8. \A q \in Rules : Reported[q] \in Nat BY ReportedType
  <2>9. ASSUME NEW q \in Rules \ {r} PROVE Reported'[q] = Reported[q]
    <3>1. Reported'[q] = Reported[q] + Weight(d, {q}) /\ Weight(d, {q}) = 0 BY <2>6, <2>7
    <3>2. Reported[q] \in Nat BY <2>8
    <3> QED BY <3>1, <3>2
  <2> QED BY <1>2, <1>4, <2>1, <2>4, <2>5, <2>6, <2>7, <2>9
<1>5. CASE ~(stored[r] # None /\ n > stored[r] /\ Len(queue) < QueueCap)
  <2> DEFINE m == IF stored[r] = None THEN n ELSE IF n > stored[r] THEN n - stored[r] ELSE 0
  <2>1. queue' = queue /\ missed' = [missed EXCEPT ![r] = @ + m] BY <1>5 DEF Nft!Recorded
  <2>2. m \in Nat BY <1>2
  <2>3. Reported' = Reported BY <2>1, ReportedSame
  <2>4. missed'[r] = missed[r] + m /\ \A q \in Rules \ {r} : missed'[q] = missed[q]
    BY <1>2, <2>1
  <2>5. missed' \in [Rules -> Nat] BY <1>2, <2>1, <2>2
  <2>6. m = IF stored[r] = None THEN n ELSE IF n > stored[r] THEN n - stored[r] ELSE 0 OBVIOUS
  <2> HIDE DEF m
  <2> QED BY <1>1, <1>2, <1>3, <2>1, <2>3, <2>4, <2>5, <2>6
<1> QED BY <1>4, <1>5

LEMMA ScanLineStep ==
  ASSUME IInv, LinuxStep, NEW t \in Threads, Nft!ScanLine(t)
  PROVE  TypeOK' /\ LinuxInv'
<1> DEFINE r == Lines[at]
           n == listing[t].count[at]
<1> USE DEF LinuxStep, IInv, wfpOnly, engine
<1>1. LinuxInv /\ TypeOK /\ platform = "linux" /\ UNCHANGED hits OBVIOUS
<1>2. /\ at \in DOMAIN Lines /\ at' = at + 1
      /\ Nft!Recorded(r, n) /\ stored' = [stored EXCEPT ![r] = n]
      /\ crossed' = \/ crossed \/ listing[t].table # read \/ table # read
                    \/ r \in Nft!Single /\ stored[r] # None /\ n < stored[r]
      /\ UNCHANGED <<count, table, read, pc, listing, lock, readings, matched>>
  BY DEF Nft!ScanLine
<1>3. r \in Rules /\ n \in 0 .. MaxPackets BY <1>1, <1>2, LinesType, CountType
<1>4. n <= matched[r] BY <1>1, <1>2 DEF LinuxInv, OnlyMatched
<1>5. listing[t].table = table => n <= count[at] BY <1>1, <1>2 DEF LinuxInv, ListingsPast
<1>6. \A q \in Nft!Single : /\ q # r => at # Nft!LineOf(q)
                            /\ q = r => at = Nft!LineOf(q)
  BY <1>2, SingleLine
<1> DEFINE listed == listing[t].table
<1> HIDE DEF r, n
<1>7. /\ queue' \in Seq(Report) /\ Len(queue') <= QueueCap
      /\ missed' \in [Rules -> Nat]
      /\ \A q \in Rules \ {r} : Reported'[q] = Reported[q] /\ missed'[q] = missed[q]
      /\ IF stored[r] = None
         THEN Reported'[r] = Reported[r] /\ missed'[r] = missed[r] + n
         ELSE IF n > stored[r]
         THEN \/ Reported'[r] = Reported[r] + (n - stored[r]) /\ missed'[r] = missed[r]
              \/ Reported'[r] = Reported[r] /\ missed'[r] = missed[r] + (n - stored[r])
         ELSE Reported'[r] = Reported[r] /\ missed'[r] = missed[r]
  BY <1>1, <1>2, <1>3, LineRecorded
<1>8. stored'[r] = n /\ \A q \in Rules \ {r} : stored'[q] = stored[q]
  BY <1>1, <1>2, <1>3 DEF TypeOK, Nft!NftTypeOK
<1>9. TypeOK'
  <2>1. stored' \in [Rules -> (0 .. MaxPackets) \cup {None}]
    BY <1>1, <1>2, <1>3 DEF TypeOK, Nft!NftTypeOK
  <2>2. at' \in 1 .. Len(Lines) + 1 BY <1>2, LinesType
  <2>3. crossed \in BOOLEAN BY <1>1 DEF TypeOK, Nft!NftTypeOK
  <2>4. crossed' \in BOOLEAN BY <1>2, <2>3
  <2>5. Nft!NftTypeOK' BY <1>1, <1>2, <2>1, <2>2, <2>4 DEF TypeOK, Nft!NftTypeOK
  <2> QED BY <1>1, <1>2, <1>7, <2>5 DEF TypeOK, Wfp!WfpTypeOK, Report
<1>10. n \in Nat /\ matched[r] \in Nat /\ Reported[r] \in Nat /\ missed[r] \in Nat
       /\ (stored[r] = None \/ stored[r] \in Nat)
  <2>1. /\ matched[r] \in Nat /\ missed[r] \in Nat
        /\ stored[r] = None \/ stored[r] \in Nat
    BY <1>1, <1>3, CountType
  <2>2. Reported[r] \in Nat BY <1>1, <1>3, ReportedType
  <2>3. n \in Nat BY <1>3, Caps
  <2> QED BY <2>1, <2>2, <2>3
<1>11. OnlyMatched'
  <2>1. ASSUME NEW q \in Rules, Reported'[q] > 0 PROVE matched[q] > 0
    <3>1. Reported[q] > 0 => matched[q] > 0 BY <1>1 DEF LinuxInv, OnlyMatched
    <3>2. CASE q # r BY <1>7, <2>1, <3>1, <3>2
    <3>3. CASE q = r
      <4>1. CASE Reported'[r] = Reported[r] BY <2>1, <3>1, <3>3, <4>1
      <4>2. CASE Reported'[r] # Reported[r]
        <5>1. stored[r] # None /\ n > stored[r] BY <1>7, <4>2
        <5> QED BY <1>4, <1>10, <3>3, <5>1
      <4> QED BY <4>1, <4>2
    <3> QED BY <3>2, <3>3
  <2> QED BY <1>1, <1>2, <2>1 DEF LinuxInv, OnlyMatched
<1>12. ASSUME ~crossed' PROVE LinuxAccount'
  <2>1. /\ ~crossed /\ listing[t].table = read /\ table = read
        /\ r \in Nft!Single => stored[r] = None \/ ~(n < stored[r])
    BY <1>2, <1>12
  <2>2. SUFFICES ASSUME NEW q \in Nft!Single
                 PROVE  /\ stored'[q] = None \/ stored'[q] <= Counted(q)
                        /\ matched[q] = Reported'[q] + Nft!Unread(q)' + missed'[q]
    BY <1>2, <2>1 DEF LinuxAccount, Counted
  <2>3. /\ stored[q] = None \/ stored[q] <= Counted(q)
        /\ matched[q] = Reported[q] + Nft!Unread(q) + missed[q]
    BY <1>1, <2>1 DEF LinuxInv, LinuxAccount
  <2>4. Nft!Unread(q)' = IF stored'[q] = None THEN Counted(q)
                         ELSE IF Counted(q) > stored'[q] THEN Counted(q) - stored'[q] ELSE 0
    BY <1>2 DEF Nft!Unread, Counted
  <2>5. /\ Counted(q) \in Nat /\ Nft!Unread(q) \in Nat
        /\ Nft!Unread(q) = IF stored[q] = None THEN Counted(q)
                           ELSE IF Counted(q) > stored[q] THEN Counted(q) - stored[q] ELSE 0
    BY <1>1, SingleType
  <2>6. CASE q # r
    <3>1. q \in Rules BY SingleLine
    <3>2. stored'[q] = stored[q] /\ Reported'[q] = Reported[q] /\ missed'[q] = missed[q]
      BY <1>7, <1>8, <2>6, <3>1
    <3> QED BY <2>3, <2>4, <2>5, <3>2
  <2>7. CASE q = r
    <3>1. n <= Counted(q) BY <1>5, <1>6, <2>1, <2>7 DEF Counted
    <3>2. Nft!Unread(q)' = Counted(q) - n /\ stored'[q] = n
      BY <1>8, <1>10, <2>4, <2>5, <2>7, <3>1, DropsAssumption
    <3>3. CASE stored[r] = None
      <4>1. Reported'[q] = Reported[q] /\ missed'[q] = missed[q] + n BY <1>7, <2>7, <3>3
      <4>2. Nft!Unread(q) = Counted(q) BY <2>5, <2>7, <3>3
      <4> QED BY <1>10, <2>3, <2>5, <2>7, <3>1, <3>2, <4>1, <4>2
    <3>4. CASE stored[r] # None
      <4>1. /\ stored[q] \in Nat /\ ~(n < stored[q]) /\ stored[q] <= Counted(q)
            /\ Nft!Unread(q) = Counted(q) - stored[q]
        BY <1>10, <2>1, <2>2, <2>3, <2>5, <2>7, <3>4
      <4>2. Reported'[q] + missed'[q] = Reported[q] + missed[q] + (n - stored[q])
            /\ Reported'[q] \in Nat /\ missed'[q] \in Nat
        <5>1. n - stored[q] \in Nat /\ Reported[q] \in Nat /\ missed[q] \in Nat
          BY <1>10, <2>7, <4>1
        <5>2. CASE n > stored[q]
          <6>1. \/ Reported'[q] = Reported[q] + (n - stored[q]) /\ missed'[q] = missed[q]
                \/ Reported'[q] = Reported[q] /\ missed'[q] = missed[q] + (n - stored[q])
            BY <1>7, <2>7, <3>4, <5>2
          <6> QED BY <5>1, <6>1
        <5>3. CASE ~(n > stored[q])
          <6>1. n - stored[q] = 0 BY <1>10, <4>1, <5>3
          <6>2. Reported'[q] = Reported[q] /\ missed'[q] = missed[q] BY <1>7, <2>7, <3>4, <5>3
          <6> QED BY <5>1, <6>1, <6>2
        <5> QED BY <5>2, <5>3
      <4> QED BY <1>10, <2>3, <2>5, <2>7, <3>1, <3>2, <4>1, <4>2
    <3> QED BY <3>3, <3>4
  <2> QED BY <2>6, <2>7
<1>13. ListingsPast' BY <1>1, <1>2 DEF LinuxInv, ListingsPast
<1>14. IF pc'[Handler] = "reset" THEN read' < table' ELSE read' = table'
  BY <1>1, <1>2 DEF LinuxInv
<1> QED BY <1>9, <1>11, <1>12, <1>13, <1>14 DEF LinuxInv

LEMMA LinuxStepKeeps ==
  ASSUME IInv, LinuxStep
  PROVE  IInv'
<1>1. Told' /\ platform' = "linux" BY DEF LinuxStep, IInv, Told, engine
<1>2. TypeOK' /\ LinuxInv'
  <2>1. CASE \E i \in DOMAIN Lines : Nft!Match(i) BY <2>1, MatchStep
  <2>2. CASE Nft!Install \/ Nft!Reset \/ Nft!ReadStart
    BY <2>2, InstallStep, ResetStep, ReadStartStep
  <2>3. CASE \E t \in Threads : \/ Nft!List(t) \/ Nft!ListFails(t) \/ Nft!ScanLock(t)
                                \/ Nft!ScanLine(t) \/ Nft!ScanUnlock(t)
    BY <2>3, ListStep, ListFailsStep, ScanLockStep, ScanLineStep, ScanUnlockStep
  <2> QED BY <2>1, <2>2, <2>3 DEF LinuxStep, Nft!NftNext, Threads, Nft!Threads
<1> QED BY <1>1, <1>2 DEF IInv

-----------------------------------------------------------------------------
(***************************************************************************)
(* Windows: filters, events and reports.                                   *)
(***************************************************************************)

\* A step of the filter of Windows.
WindowsStep == platform = "windows" /\ Wfp!WfpNext /\ UNCHANGED <<platform, nftOnly, engine>>

Dropped == [number : 0 .. MaxApplies, place : 1 .. Cardinality(Rules), rule : Rules]

\* The events of rule r that wait to be told.
Waiting(s, r) == {i \in DOMAIN s : s[i].rule = r}

LEMMA WaitingFinite ==
  ASSUME NEW S, NEW s \in Seq(S), NEW r
  PROVE  IsFiniteSet(Waiting(s, r)) /\ Cardinality(Waiting(s, r)) \in Nat
<1>1. Len(s) \in Nat /\ Waiting(s, r) \subseteq 1 .. Len(s) BY LenProperties DEF Waiting
<1>2. IsFiniteSet(1 .. Len(s)) BY <1>1, CardinalityUpTo
<1> QED BY <1>1, <1>2, FS_Subset, FS_CardinalityType

LEMMA WaitingAppend ==
  ASSUME NEW S, NEW s \in Seq(S), NEW e \in S, NEW r
  PROVE  Cardinality(Waiting(Append(s, e), r)) =
           Cardinality(Waiting(s, r)) + (IF e.rule = r THEN 1 ELSE 0)
<1> DEFINE n == Len(s)
           t == Append(s, e)
<1>1. n \in Nat /\ DOMAIN s = 1 .. n BY LenProperties
<1>2. t \in Seq(S) /\ Len(t) = n + 1 /\ (\A i \in 1 .. n : t[i] = s[i]) /\ t[n + 1] = e
  BY AppendProperties
<1>3. DOMAIN t = 1 .. n + 1 BY <1>2, LenProperties
<1> HIDE DEF n, t
<1>4. n + 1 \notin Waiting(s, r) BY <1>1 DEF Waiting
<1>5. Waiting(t, r) = IF e.rule = r THEN Waiting(s, r) \cup {n + 1} ELSE Waiting(s, r)
  BY <1>1, <1>2, <1>3 DEF Waiting
<1>6. CASE e.rule = r BY <1>4, <1>5, <1>6, WaitingFinite, FS_AddElement DEF t
<1>7. CASE e.rule # r BY <1>5, <1>7, WaitingFinite DEF t
<1> QED BY <1>6, <1>7

LEMMA WaitingTail ==
  ASSUME NEW S, NEW s \in Seq(S), s # <<>>, NEW r
  PROVE  Cardinality(Waiting(s, r)) =
           Cardinality(Waiting(Tail(s), r)) + (IF Head(s).rule = r THEN 1 ELSE 0)
<1> DEFINE t == Tail(s)
           n == Len(t)
           A == Waiting(t, r)
           B == Waiting(s, r) \ {1}
           f == [i \in A |-> i + 1]
<1>1. /\ t \in Seq(S) /\ n \in Nat /\ Len(s) = n + 1
      /\ DOMAIN t = 1 .. n /\ DOMAIN s = 1 .. n + 1
      /\ \A i \in 1 .. n : t[i] = s[i + 1]
  BY HeadTailProperties, LenProperties
<1>2. Head(s) = s[1] OBVIOUS
<1> HIDE DEF t, n
<1>3. A \subseteq Nat /\ \A i \in A : i + 1 \in B BY <1>1 DEF Waiting
<1>4. ASSUME NEW j \in B PROVE j - 1 \in A /\ j = (j - 1) + 1
  <2>1. j \in 2 .. n + 1 /\ s[j].rule = r BY <1>1 DEF Waiting
  <2>2. j - 1 \in 1 .. n /\ t[j - 1] = s[j] BY <1>1, <2>1
  <2> QED BY <1>1, <2>1, <2>2 DEF Waiting
<1>5. IsFiniteSet(A) /\ Cardinality(A) \in Nat BY <1>1, WaitingFinite
<1>6. f \in Bijection(A, B)
  <2>1. f \in [A -> B] BY <1>3
  <2>2. \A a, b \in A : f[a] = f[b] => a = b BY <1>3
  <2>3. \A j \in B : \E a \in A : f[a] = j BY <1>4
  <2> HIDE DEF A, B, f
  <2> QED BY <2>1, <2>2, <2>3 DEF Bijection, Injection, IsInjective, Surjection
<1>7. IsFiniteSet(B) /\ Cardinality(B) = Cardinality(A)
  <2>1. ExistsBijection(A, B) BY <1>6 DEF ExistsBijection
  <2> HIDE DEF A, B
  <2> QED BY <1>5, <2>1, FS_Bijection
<1>8. Waiting(s, r) = IF Head(s).rule = r THEN B \cup {1} ELSE B
  BY <1>1, <1>2 DEF Waiting
<1> HIDE DEF B
<1>9. CASE Head(s).rule = r
  <2>1. 1 \notin B BY DEF B
  <2> QED BY <1>5, <1>7, <1>8, <1>9, <2>1, FS_AddElement DEF t
<1>10. CASE Head(s).rule # r BY <1>5, <1>7, <1>8, <1>10 DEF t
<1> QED BY <1>9, <1>10

LEMMA WindowsTypes ==
  ASSUME TypeOK
  PROVE  /\ filters \in Wfp!Policies /\ known \in Wfp!Policies
         /\ events \in Seq(Dropped)
         /\ \A r \in Rules : matched[r] \in Nat /\ missed[r] \in Nat
<1>1. events \in Seq(Dropped) BY SameCardinality DEF TypeOK, Wfp!WfpTypeOK, Dropped
<1>2. \A r \in Rules : matched[r] \in 0 .. MaxPackets /\ missed[r] \in Nat BY DEF TypeOK
<1> QED BY <1>1, <1>2 DEF TypeOK, Wfp!WfpTypeOK

LEMMA PolicyFields ==
  ASSUME NEW policy \in Wfp!Policies
  PROVE  /\ policy.number \in 0 .. MaxApplies /\ policy.number \in Nat
         /\ \E n \in 0 .. Cardinality(Rules) : policy.rules \in [1 .. n -> Rules]
<1>1. policy.number \in 0 .. MaxApplies /\ policy.number \in Nat BY Caps DEF Wfp!Policies
<1>2. policy.rules \in UNION {[1 .. n -> Rules] : n \in 0 .. Cardinality(Rules)}
  BY SameCardinality DEF Wfp!Policies
<1> QED BY <1>1, <1>2

\* What is accounted, in terms of the events that wait.
LEMMA WindowsAccount ==
  Wfp!WfpAccounted(Reported) <=>
    \A r \in Rules : matched[r] = Reported[r] + missed[r] + Cardinality(Waiting(events, r))
BY SameCardinality DEF Wfp!WfpAccounted, Waiting

EventsNamed ==
  \A i \in DOMAIN events :
    /\ events[i].number <= filters.number
    /\ events[i].number = filters.number => NamedBy(filters, events[i])
    /\ events[i].number = known.number => NamedBy(known, events[i])

KnownPolicy ==
  (pending = None /\ known = filters) \/ (pending = filters /\ known.number < filters.number)

LEMMA CommitStep ==
  ASSUME IInv, WindowsStep, NEW order \in Wfp!Orders, Wfp!Commit(order)
  PROVE  TypeOK' /\ WindowsInv'
<1> USE DEF WindowsStep, IInv, Wfp!Commit, nftOnly, engine
<1>1. WindowsInv /\ TypeOK OBVIOUS
<1> DEFINE policy == [number |-> filters.number + 1, rules |-> order]
<1>2. filters.number \in Nat /\ known.number \in Nat /\ filters.number + 1 \in 0 .. MaxApplies
  BY <1>1, WindowsTypes, PolicyFields, Caps
<1>3. policy \in Wfp!Policies
  <2>1. order \in UNION {[1 .. n -> Rules] : n \in 0 .. Wfp!Cardinality(Rules)} BY DEF Wfp!Orders
  <2> QED BY <1>2, <2>1 DEF Wfp!Policies
<1>4. pending' = policy /\ filters' = policy OBVIOUS
<1>5. TypeOK' BY <1>1, <1>3, <1>4 DEF TypeOK, Nft!NftTypeOK, Wfp!WfpTypeOK
<1>6. KnownPolicy'
  <2>1. known.number < filters.number + 1 BY <1>1, <1>2 DEF WindowsInv
  <2> QED BY <1>4, <2>1 DEF KnownPolicy
<1>7. EventsNamed'
  <2>1. SUFFICES ASSUME NEW i \in DOMAIN events
                 PROVE  /\ events[i].number <= filters.number + 1
                        /\ events[i].number # filters.number + 1
                        /\ events[i].number = known.number => NamedBy(known, events[i])
    BY <1>4 DEF EventsNamed
  <2>2. events[i] \in Dropped BY <1>1, WindowsTypes, ElementOfSeq, LenProperties
  <2>3. events[i].number \in Nat BY <2>2, Caps DEF Dropped
  <2> QED BY <1>1, <1>2, <2>3 DEF WindowsInv
<1>8. Wfp!WfpAccounted(Reported)'
  BY <1>1, ReportedSame DEF WindowsInv, Wfp!WfpAccounted
<1> QED BY <1>5, <1>6, <1>7, <1>8 DEF WindowsInv, EventsNamed, KnownPolicy

LEMMA PublishStep ==
  ASSUME IInv, WindowsStep, Wfp!Publish
  PROVE  TypeOK' /\ WindowsInv'
<1> USE DEF WindowsStep, IInv, Wfp!Publish, nftOnly, engine
<1>1. WindowsInv /\ TypeOK OBVIOUS
<1>2. known' = filters /\ pending' = None BY <1>1 DEF WindowsInv
<1>3. TypeOK' BY <1>1, <1>2 DEF TypeOK, Nft!NftTypeOK, Wfp!WfpTypeOK
<1>4. KnownPolicy' BY <1>2 DEF KnownPolicy
<1>5. EventsNamed' BY <1>1, <1>2 DEF WindowsInv, EventsNamed
<1>6. Wfp!WfpAccounted(Reported)'
  BY <1>1, ReportedSame DEF WindowsInv, Wfp!WfpAccounted
<1> QED BY <1>3, <1>4, <1>5, <1>6 DEF WindowsInv, EventsNamed, KnownPolicy

LEMMA RefuseStep ==
  ASSUME IInv, WindowsStep, NEW i, Wfp!Refuse(i)
  PROVE  TypeOK' /\ WindowsInv'
<1> USE DEF WindowsStep, IInv, nftOnly, engine
<1>1. WindowsInv /\ TypeOK OBVIOUS
<1> DEFINE r == filters.rules[i]
           e == [number |-> filters.number, place |-> i, rule |-> r]
<1>2. /\ i \in DOMAIN filters.rules /\ matched[r] < MaxPackets
      /\ matched' = [matched EXCEPT ![r] = @ + 1]
      /\ events' = Append(events, e)
      /\ UNCHANGED <<filters, known, pending, queue, missed>>
  BY DEF Wfp!Refuse
<1>3. PICK n \in 0 .. Cardinality(Rules) : filters.rules \in [1 .. n -> Rules]
  BY <1>1, WindowsTypes, PolicyFields
<1>4. Cardinality(Rules) \in Nat BY DropsAssumption, FS_CardinalityType
<1>5. filters.number \in 0 .. MaxApplies BY <1>1, WindowsTypes, PolicyFields
<1>6. r \in Rules /\ i \in 1 .. Cardinality(Rules) BY <1>2, <1>3, <1>4
<1>7. e \in Dropped BY <1>5, <1>6 DEF Dropped
<1>8. e.number = filters.number /\ e.place = i /\ e.rule = filters.rules[i] OBVIOUS
<1> HIDE DEF e
<1>9. events \in Seq(Dropped) /\ matched[r] \in Nat /\ MaxPackets \in Nat
  BY <1>1, <1>6, WindowsTypes, Caps
<1>10. /\ events' \in Seq(Dropped) /\ Len(events') = Len(events) + 1 /\ Len(events) \in Nat
       /\ DOMAIN events = 1 .. Len(events) /\ DOMAIN events' = 1 .. Len(events) + 1
       /\ \A j \in 1 .. Len(events) : events'[j] = events[j]
       /\ events'[Len(events) + 1] = e
  BY <1>2, <1>7, <1>9, AppendProperties, LenProperties
<1> HIDE DEF r
<1>11. TypeOK'
  <2>1. matched[r] + 1 \in 0 .. MaxPackets BY <1>2, <1>9
  <2>2. matched' \in [Rules -> 0 .. MaxPackets] BY <1>1, <1>2, <2>1 DEF TypeOK
  <2>3. events' \in Seq([number : 0 .. MaxApplies, place : 1 .. Wfp!Cardinality(Rules), rule : Rules])
    BY <1>10, SameCardinality DEF Dropped
  <2> QED BY <1>1, <1>2, <2>2, <2>3 DEF TypeOK, Nft!NftTypeOK, Wfp!WfpTypeOK
<1>12. KnownPolicy' BY <1>1, <1>2 DEF WindowsInv, KnownPolicy
<1>13. EventsNamed'
  <2>1. SUFFICES ASSUME NEW j \in DOMAIN events'
                 PROVE  /\ events'[j].number <= filters.number
                        /\ events'[j].number = filters.number => NamedBy(filters, events'[j])
                        /\ events'[j].number = known.number => NamedBy(known, events'[j])
    BY <1>2 DEF EventsNamed, NamedBy
  <2>2. CASE j \in DOMAIN events BY <1>1, <1>10, <2>2 DEF WindowsInv
  <2>3. CASE j \notin DOMAIN events
    <3>1. events'[j] = e BY <1>10, <2>3
    <3>2. NamedBy(filters, e) BY <1>2, <1>8 DEF NamedBy
    <3>3. known.number \in Nat /\ filters.number \in Nat BY <1>1, WindowsTypes, PolicyFields
    <3>4. e.number = known.number => known = filters
      BY <1>1, <1>8, <3>3 DEF WindowsInv
    <3>5. e.number <= filters.number BY <1>8, <3>3
    <3> QED BY <3>1, <3>2, <3>4, <3>5
  <2> QED BY <2>2, <2>3
<1>14. ASSUME NEW q \in Rules
       PROVE  matched'[q] = Reported'[q] + missed'[q] + Cardinality(Waiting(events', q))
  <2>1. Reported'[q] = Reported[q] /\ missed'[q] = missed[q] BY <1>2, ReportedSame
  <2>2. matched[q] = Reported[q] + missed[q] + Cardinality(Waiting(events, q))
    BY <1>1, WindowsAccount DEF WindowsInv
  <2>3. Cardinality(Waiting(events', q)) =
          Cardinality(Waiting(events, q)) + (IF e.rule = q THEN 1 ELSE 0)
    BY <1>2, <1>7, <1>9, WaitingAppend
  <2>4. Cardinality(Waiting(events, q)) \in Nat BY <1>9, WaitingFinite
  <2>5. Reported[q] \in Nat /\ missed[q] \in Nat BY <1>1, ReportedType, WindowsTypes
  <2>6. matched'[q] = IF e.rule = q THEN matched[q] + 1 ELSE matched[q]
    BY <1>1, <1>2, <1>6, <1>8 DEF TypeOK, r
  <2> QED BY <2>1, <2>2, <2>3, <2>4, <2>5, <2>6
<1>15. Wfp!WfpAccounted(Reported)' BY <1>14, SameCardinality DEF Wfp!WfpAccounted, Waiting
<1> QED BY <1>11, <1>12, <1>13, <1>15 DEF WindowsInv, EventsNamed, KnownPolicy

LEMMA EventStep ==
  ASSUME IInv, WindowsStep, Wfp!Event
  PROVE  TypeOK' /\ WindowsInv'
<1> USE DEF WindowsStep, IInv, nftOnly, engine
<1>1. WindowsInv /\ TypeOK OBVIOUS
<1> DEFINE e == Head(events)
           d == [rule |-> known.rules[e.place], count |-> 1]
<1>2. /\ events # <<>> /\ events' = Tail(events)
      /\ IF e.number = known.number
         THEN /\ queue' = Append(IF Len(queue) < RingCap THEN queue ELSE Tail(queue), d)
              /\ missed' = IF Len(queue) < RingCap THEN missed
                           ELSE [missed EXCEPT ![Head(queue).rule] = @ + Head(queue).count]
         ELSE missed' = [missed EXCEPT ![e.rule] = @ + 1] /\ UNCHANGED queue
      /\ UNCHANGED <<filters, known, pending, matched>>
  BY DEF Wfp!Event, Wfp!Finds, Wfp!Pushed
<1>3. events \in Seq(Dropped) BY <1>1, WindowsTypes
<1>4. /\ e \in Dropped /\ events' \in Seq(Dropped)
      /\ Len(events') = Len(events) - 1 /\ Len(events) \in Nat \ {0}
      /\ DOMAIN events = 1 .. Len(events) /\ DOMAIN events' = 1 .. Len(events')
      /\ \A i \in 1 .. Len(events') : events'[i] = events[i + 1]
      /\ e = events[1]
  BY <1>2, <1>3, HeadTailProperties, LenProperties, EmptySeq
<1>5. e.rule \in Rules BY <1>4 DEF Dropped
<1>6. e.number = known.number => d = [rule |-> e.rule, count |-> 1]
  <2>1. 1 \in DOMAIN events BY <1>4
  <2> QED BY <1>1, <1>4, <2>1 DEF WindowsInv, NamedBy
<1>7. [rule |-> e.rule, count |-> 1] \in Report BY <1>5, Caps DEF Report
<1> HIDE DEF e, d
<1>8. queue \in Seq(Report) /\ Len(queue) \in Nat BY <1>1, QueueType
<1>9. \A r \in Rules :
        /\ hits[r] \in Nat /\ missed[r] \in Nat /\ Reported[r] \in Nat
        /\ Packets(queue, {r}) \in Nat
        /\ Reported[r] = hits[r] + Packets(queue, {r})
        /\ Reported'[r] = hits[r] + Packets(queue', {r})
  BY <1>1, ReportedType, WindowsTypes DEF Reported
<1>10. /\ queue' \in Seq(Report) /\ Len(queue') <= RingCap /\ missed' \in [Rules -> Nat]
       /\ \A r \in Rules : Reported'[r] + missed'[r] =
             Reported[r] + missed[r] + (IF e.rule = r THEN 1 ELSE 0)
  <2>1. CASE e.number # known.number
    <3>1. queue' = queue /\ missed' = [missed EXCEPT ![e.rule] = @ + 1] BY <1>2, <2>1
    <3>2. missed' \in [Rules -> Nat] BY <1>1, <1>5, <3>1 DEF TypeOK
    <3>3. ASSUME NEW r \in Rules
          PROVE  Reported'[r] + missed'[r] = Reported[r] + missed[r] + (IF e.rule = r THEN 1 ELSE 0)
      <4>1. Reported'[r] = Reported[r] /\ Reported[r] \in Nat /\ missed[r] \in Nat BY <1>9, <3>1
      <4>2. missed'[r] = missed[r] + (IF e.rule = r THEN 1 ELSE 0)
        BY <1>1, <1>5, <3>1, <4>1 DEF TypeOK
      <4> QED BY <4>1, <4>2
    <3>4. Len(queue) <= RingCap BY <1>1 DEF TypeOK
    <3> QED BY <1>8, <3>1, <3>2, <3>3, <3>4
  <2>2. CASE e.number = known.number /\ Len(queue) < RingCap
    <3>1. queue' = Append(queue, d) /\ missed' = missed BY <1>2, <2>2
    <3>2. d \in Report /\ d.rule = e.rule /\ d.count = 1 BY <1>6, <1>7, <2>2
    <3>3. queue' \in Seq(Report) /\ Len(queue') = Len(queue) + 1
      BY <1>8, <3>1, <3>2, AppendProperties
    <3>4. Len(queue') <= RingCap BY <1>8, <2>2, <3>3, Caps
    <3>5. ASSUME NEW r \in Rules
          PROVE  Reported'[r] + missed'[r] = Reported[r] + missed[r] + (IF e.rule = r THEN 1 ELSE 0)
      <4>1. Packets(queue', {r}) = Packets(queue, {r}) + Weight(d, {r})
        BY <1>8, <3>1, <3>2, PacketsAppend
      <4>2. Weight(d, {r}) = IF e.rule = r THEN 1 ELSE 0 BY <3>2 DEF Weight
      <4>3. /\ Reported'[r] = hits[r] + Packets(queue', {r})
            /\ Reported[r] = hits[r] + Packets(queue, {r})
            /\ hits[r] \in Nat /\ missed[r] \in Nat /\ Packets(queue, {r}) \in Nat
        BY <1>9
      <4>4. missed'[r] = missed[r] BY <3>1
      <4> QED BY <4>1, <4>2, <4>3, <4>4
    <3> QED BY <1>1, <3>1, <3>3, <3>4, <3>5 DEF TypeOK
  <2>3. CASE e.number = known.number /\ ~(Len(queue) < RingCap)
    <3> DEFINE first == Head(queue)
               rest == Tail(queue)
    <3>1. queue' = Append(rest, d) /\ missed' = [missed EXCEPT ![first.rule] = @ + first.count]
      BY <1>2, <2>3
    <3>2. d \in Report /\ d.rule = e.rule /\ d.count = 1 BY <1>6, <1>7, <2>3
    <3>3. queue # <<>> BY <1>8, <2>3, Caps, EmptySeq
    <3>4. first \in Report /\ rest \in Seq(Report) /\ Len(rest) = Len(queue) - 1
      BY <1>8, <3>3, HeadTailProperties
    <3>5. Len(queue) <= RingCap BY <1>1 DEF TypeOK
    <3>6. \A r \in Rules : Packets(queue, {r}) = Weight(first, {r}) + Packets(rest, {r})
      BY <1>8, <3>3, PacketsTail
    <3> HIDE DEF first, rest
    <3>7. queue' \in Seq(Report) /\ Len(queue') = Len(rest) + 1
      BY <3>1, <3>2, <3>4, AppendProperties
    <3>8. Len(queue') <= RingCap BY <1>8, <3>4, <3>5, <3>7, Caps
    <3>9. first.rule \in Rules /\ first.count \in Nat BY <3>4, Caps DEF Report
    <3>10. missed' \in [Rules -> Nat] BY <1>1, <1>9, <3>1, <3>9 DEF TypeOK
    <3>11. ASSUME NEW r \in Rules
          PROVE  Reported'[r] + missed'[r] = Reported[r] + missed[r] + (IF e.rule = r THEN 1 ELSE 0)
      <4>1. Packets(queue', {r}) = Packets(rest, {r}) + Weight(d, {r})
        BY <3>1, <3>2, <3>4, PacketsAppend
      <4>2. Weight(d, {r}) = IF e.rule = r THEN 1 ELSE 0 BY <3>2 DEF Weight
      <4>3. missed'[r] = missed[r] + Weight(first, {r})
        BY <1>1, <1>9, <3>1, <3>9 DEF TypeOK, Weight
      <4>4. Packets(rest, {r}) \in Nat /\ Weight(first, {r}) \in Nat
        BY <3>4, PacketsType, WeightType
      <4>5. /\ Reported'[r] = hits[r] + Packets(queue', {r})
            /\ Reported[r] = hits[r] + Packets(queue, {r})
            /\ hits[r] \in Nat /\ missed[r] \in Nat
        BY <1>9
      <4>6. Packets(queue, {r}) = Weight(first, {r}) + Packets(rest, {r}) BY <3>6
      <4> QED BY <4>1, <4>2, <4>3, <4>4, <4>5, <4>6
    <3> QED BY <3>7, <3>8, <3>10, <3>11
  <2> QED BY <2>1, <2>2, <2>3
<1>11. TypeOK'
  <2>1. events' \in Seq([number : 0 .. MaxApplies, place : 1 .. Wfp!Cardinality(Rules), rule : Rules])
    BY <1>4, SameCardinality DEF Dropped
  <2> QED BY <1>1, <1>2, <1>10, <2>1 DEF TypeOK, Nft!NftTypeOK, Wfp!WfpTypeOK, Report
<1>12. KnownPolicy' BY <1>1, <1>2 DEF WindowsInv, KnownPolicy
<1>13. EventsNamed'
  <2>1. SUFFICES ASSUME NEW j \in DOMAIN events'
                 PROVE  /\ events'[j].number <= filters.number
                        /\ events'[j].number = filters.number => NamedBy(filters, events'[j])
                        /\ events'[j].number = known.number => NamedBy(known, events'[j])
    BY <1>2 DEF EventsNamed, NamedBy
  <2>2. j + 1 \in DOMAIN events /\ events'[j] = events[j + 1] BY <1>4
  <2> QED BY <1>1, <2>2 DEF WindowsInv
<1>14. ASSUME NEW q \in Rules
       PROVE  matched'[q] = Reported'[q] + missed'[q] + Cardinality(Waiting(events', q))
  <2>1. matched[q] = Reported[q] + missed[q] + Cardinality(Waiting(events, q)) /\ matched' = matched
    BY <1>1, <1>2, WindowsAccount DEF WindowsInv
  <2>2. Cardinality(Waiting(events, q)) =
          Cardinality(Waiting(events', q)) + (IF e.rule = q THEN 1 ELSE 0)
    BY <1>2, <1>3, WaitingTail DEF e
  <2>3. Cardinality(Waiting(events', q)) \in Nat BY <1>4, WaitingFinite
  <2>4. Reported'[q] + missed'[q] = Reported[q] + missed[q] + (IF e.rule = q THEN 1 ELSE 0)
    BY <1>10
  <2>5. Reported[q] \in Nat /\ missed[q] \in Nat BY <1>9
  <2> QED BY <2>1, <2>2, <2>3, <2>4, <2>5
<1>15. Wfp!WfpAccounted(Reported)' BY <1>14, SameCardinality DEF Wfp!WfpAccounted, Waiting
<1> QED BY <1>11, <1>12, <1>13, <1>15 DEF WindowsInv, EventsNamed, KnownPolicy

LEMMA WindowsStepKeeps ==
  ASSUME IInv, WindowsStep
  PROVE  IInv'
<1>1. Told' /\ platform' = "windows" BY DEF WindowsStep, IInv, Told, engine
<1>2. TypeOK' /\ WindowsInv'
  BY CommitStep, PublishStep, RefuseStep, EventStep DEF WindowsStep, Wfp!WfpNext
<1> QED BY <1>1, <1>2 DEF IInv

-----------------------------------------------------------------------------
(***************************************************************************)
(* The tick thread takes the reports.                                      *)
(***************************************************************************)

LEMMA DrainStep ==
  ASSUME IInv, Drain
  PROVE  IInv'
<1> USE DEF IInv
<1>1. TypeOK /\ Told OBVIOUS
<1> DEFINE many == IF Len(queue) < DrainCap THEN Len(queue) ELSE DrainCap
           reports == SubSeq(queue, 1, many)
           rest == SubSeq(queue, many + 1, Len(queue))
<1>2. queue \in Seq(Report) /\ Len(queue) \in Nat /\ many \in 0 .. Len(queue)
  BY <1>1, QueueType, Caps
<1>3. /\ reports \in Seq(Report) /\ Len(reports) = many
      /\ rest \in Seq(Report) /\ Len(rest) <= Len(queue)
  <2> HIDE DEF many
  <2> QED BY <1>2, PacketsSplit
<1>4. \A R : Packets(queue, R) = Packets(reports, R) + Packets(rest, R)
  <2> HIDE DEF many
  <2> QED BY <1>2, PacketsSplit
<1>5. PICK named \in SUBSET Rules, guarded \in SUBSET Rules, due \in BOOLEAN :
        /\ guarded \subseteq named
        /\ queue' = Rest(reports)
        /\ missed' = IF platform = "linux"
                     THEN [r \in Rules |-> missed[r] +
                             Packets(SubSeq(queue, Len(reports) + 1, Len(queue)), {r})]
                     ELSE missed
        /\ hits' = [r \in Rules |-> hits[r] + Packets(reports, {r})]
        /\ blocked' = blocked + Packets(reports, Rules)
        /\ untold' = untold + Packets(reports, Rules \ named)
        /\ held' = Held(Packets(reports, guarded), due)
        /\ logged' = logged + Packets(reports, named \ guarded)
                        + (IF due THEN held + Packets(reports, guarded) ELSE 0)
        /\ UNCHANGED <<platform, nftOnly, wfpOnly, matched>>
  <2> DEFINE told == {r \in Rules : Name[r] \in Names(reports)}
  <2>1. PICK active \in BOOLEAN, due \in BOOLEAN :
          LET guarded == {r \in told : active /\ ToGuard(reports, Name[r])}
          IN /\ held' = Held(Packets(reports, guarded), due)
             /\ logged' = logged + Packets(reports, told \ guarded)
                             + (IF due THEN held + Packets(reports, guarded) ELSE 0)
    BY DEF Drain
  <2> DEFINE guarded == {r \in told : active /\ ToGuard(reports, Name[r])}
  <2>2. told \in SUBSET Rules /\ guarded \in SUBSET Rules /\ guarded \subseteq told OBVIOUS
  <2>3. /\ queue' = Rest(reports)
        /\ missed' = IF platform = "linux"
                     THEN [r \in Rules |-> missed[r] +
                             Packets(SubSeq(queue, Len(reports) + 1, Len(queue)), {r})]
                     ELSE missed
        /\ hits' = [r \in Rules |-> hits[r] + Packets(reports, {r})]
        /\ blocked' = blocked + Packets(reports, Rules)
        /\ untold' = untold + Packets(reports, Rules \ told)
        /\ UNCHANGED <<platform, nftOnly, wfpOnly, matched>>
    BY DEF Drain
  <2> HIDE DEF reports
  <2>4. /\ held' = Held(Packets(reports, guarded), due)
        /\ logged' = logged + Packets(reports, told \ guarded)
                        + (IF due THEN held + Packets(reports, guarded) ELSE 0)
    BY <2>1
  <2> HIDE DEF told, guarded
  <2> QED BY <2>2, <2>3, <2>4
<1>6. SubSeq(queue, Len(reports) + 1, Len(queue)) = rest BY <1>3
<1>7. queue' = IF platform = "linux" THEN <<>> ELSE rest BY <1>5, <1>6 DEF Rest
<1> HIDE DEF reports, rest, many
<1>8. \A R : Packets(reports, R) \in Nat /\ Packets(rest, R) \in Nat BY <1>3, PacketsType
<1>9. \A r \in Rules :
        Reported[r] = hits[r] + Packets(queue, {r}) /\ hits[r] \in Nat /\ missed[r] \in Nat
  BY <1>1, ReportedType DEF TypeOK
<1>10. ASSUME NEW r \in Rules
       PROVE  Reported'[r] + missed'[r] = Reported[r] + missed[r] /\ Reported'[r] <= Reported[r]
  <2>1. Reported'[r] = hits[r] + Packets(reports, {r}) + Packets(queue', {r})
    BY <1>5 DEF Reported
  <2>2. Reported[r] = hits[r] + Packets(reports, {r}) + Packets(rest, {r}) BY <1>4, <1>8, <1>9
  <2>3. /\ hits[r] \in Nat /\ missed[r] \in Nat
        /\ Packets(reports, {r}) \in Nat /\ Packets(rest, {r}) \in Nat
    BY <1>8, <1>9
  <2>4. CASE platform = "linux"
    <3>1. Packets(queue', {r}) = 0 BY <1>7, <2>4, PacketsNone
    <3>2. missed'[r] = missed[r] + Packets(rest, {r}) BY <1>5, <1>6, <2>4
    <3> QED BY <2>1, <2>2, <2>3, <3>1, <3>2
  <2>5. CASE platform # "linux"
    <3>1. queue' = rest /\ missed' = missed BY <1>5, <1>7, <2>5
    <3> QED BY <2>1, <2>2, <2>3, <3>1
  <2> QED BY <2>4, <2>5
<1>11. Told' /\ {blocked', logged', held', untold'} \subseteq Nat
  <2> DEFINE a == Packets(reports, Rules \ named)
             b == Packets(reports, named \ guarded)
             c == Packets(reports, guarded)
  <2>1. Packets(reports, Rules) = a + b + c
    <3>1. (Rules \ named) \cup named = Rules /\ (Rules \ named) \cap named = {} OBVIOUS
    <3>2. (named \ guarded) \cup guarded = named /\ (named \ guarded) \cap guarded = {} BY <1>5
    <3>3. Packets(reports, (Rules \ named) \cup named) = a + Packets(reports, named)
      BY <1>3, <3>1, PacketsApart
    <3>4. Packets(reports, (named \ guarded) \cup guarded) = b + c
      BY <1>3, <3>2, PacketsApart
    <3>5. a \in Nat /\ b \in Nat /\ c \in Nat BY <1>8
    <3> HIDE DEF a, b, c
    <3>6. Packets(reports, Rules) = a + Packets(reports, named) BY <3>1, <3>3, Zenon
    <3>7. Packets(reports, named) = b + c BY <3>2, <3>4, Zenon
    <3> QED BY <3>5, <3>6, <3>7
  <2>2. a \in Nat /\ b \in Nat /\ c \in Nat BY <1>8
  <2>3. /\ blocked \in Nat /\ logged \in Nat /\ held \in Nat /\ untold \in Nat
        /\ blocked = logged + held + untold
    BY <1>1 DEF TypeOK, Told
  <2>4. /\ blocked' = blocked + Packets(reports, Rules) /\ untold' = untold + a
        /\ held' = IF due THEN 0 ELSE held + c
        /\ logged' = logged + b + (IF due THEN held + c ELSE 0)
    BY <1>5 DEF Held
  <2> HIDE DEF a, b, c
  <2>5. CASE due
    <3>1. held' = 0 /\ logged' = logged + b + (held + c) BY <2>4, <2>5
    <3> QED BY <2>1, <2>2, <2>3, <2>4, <3>1 DEF Told
  <2>6. CASE ~due
    <3>1. held' = held + c /\ logged' = logged + b BY <2>2, <2>3, <2>4, <2>6
    <3> QED BY <2>1, <2>2, <2>3, <2>4, <3>1 DEF Told
  <2> QED BY <2>5, <2>6
<1>12. TypeOK'
  <2>1. missed' \in [Rules -> Nat]
    <3>1. CASE platform = "linux"
      <4>1. missed' = [r \in Rules |-> missed[r] + Packets(rest, {r})] BY <1>5, <1>6, <3>1
      <4>2. ASSUME NEW r \in Rules PROVE missed[r] + Packets(rest, {r}) \in Nat
        <5>1. missed[r] \in Nat /\ Packets(rest, {r}) \in Nat BY <1>8, <1>9
        <5> QED BY <5>1
      <4> QED BY <4>1, <4>2
    <3>2. CASE platform # "linux" BY <1>1, <1>5, <3>2 DEF TypeOK
    <3> QED BY <3>1, <3>2
  <2>2. hits' \in [Rules -> Nat]
    <3>1. ASSUME NEW r \in Rules PROVE hits[r] + Packets(reports, {r}) \in Nat
      <4>1. hits[r] \in Nat /\ Packets(reports, {r}) \in Nat BY <1>8, <1>9
      <4> QED BY <4>1
    <3> QED BY <1>5, <3>1
  <2>3. queue' \in Seq(Report) /\ Len(queue') <= Len(queue)
    <3>1. CASE platform = "linux" BY <1>2, <1>7, <3>1, EmptySeq
    <3>2. CASE platform # "linux" BY <1>3, <1>7, <3>2
    <3> QED BY <3>1, <3>2
  <2>4. Len(queue') <= IF platform = "linux" THEN QueueCap ELSE RingCap
    <3>1. Len(queue') \in Nat BY <2>3, LenProperties
    <3>2. Len(queue) <= IF platform = "linux" THEN QueueCap ELSE RingCap BY <1>1 DEF TypeOK
    <3> QED BY <1>2, <2>3, <3>1, <3>2, Caps
  <2> QED BY <1>1, <1>5, <1>11, <2>1, <2>2, <2>3, <2>4
      DEF TypeOK, Nft!NftTypeOK, Wfp!WfpTypeOK, nftOnly, wfpOnly, Report
<1>13. \A r \in Rules :
         /\ missed[r] \in Nat /\ missed'[r] \in Nat
         /\ Reported[r] \in Nat /\ Reported'[r] \in Nat
  <2>1. \A r \in Rules : missed[r] \in Nat /\ missed'[r] \in Nat BY <1>1, <1>12 DEF TypeOK
  <2>2. \A r \in Rules : Reported[r] \in Nat BY <1>1, ReportedType
  <2>3. ASSUME NEW r \in Rules PROVE Reported'[r] \in Nat
    <3>1. queue' \in Seq(Report) /\ hits'[r] \in Nat BY <1>12 DEF TypeOK, Report
    <3>2. Packets(queue', {r}) \in Nat BY <3>1, PacketsType
    <3> QED BY <3>1, <3>2 DEF Reported
  <2> QED BY <2>1, <2>2, <2>3
<1>14. ASSUME platform = "linux" PROVE LinuxInv'
  <2>1. LinuxInv BY <1>14
  <2>2. UNCHANGED <<count, table, stored, read, pc, listing, crossed, matched>>
    BY <1>5 DEF nftOnly
  <2>3. ASSUME ~crossed PROVE LinuxAccount'
    <3>1. SUFFICES ASSUME NEW r \in Nft!Single
                   PROVE  IF read = table
                          THEN /\ stored[r] = None \/ stored[r] <= Counted(r)
                               /\ matched[r] = Reported'[r] + Nft!Unread(r) + missed'[r]
                          ELSE matched[r] = Reported'[r] + Counted(r) + missed'[r]
      BY <2>2 DEF LinuxAccount, Nft!Unread, Counted
    <3>2. IF read = table
          THEN /\ stored[r] = None \/ stored[r] <= Counted(r)
               /\ matched[r] = Reported[r] + Nft!Unread(r) + missed[r]
          ELSE matched[r] = Reported[r] + Counted(r) + missed[r]
      BY <2>1, <2>3 DEF LinuxInv, LinuxAccount
    <3>3. r \in Rules /\ Counted(r) \in Nat /\ Nft!Unread(r) \in Nat
      BY <1>1, SingleType, SingleLine
    <3>4. /\ missed[r] \in Nat /\ missed'[r] \in Nat /\ Reported[r] \in Nat /\ Reported'[r] \in Nat
          /\ Reported'[r] + missed'[r] = Reported[r] + missed[r]
      BY <1>10, <1>13, <3>3
    <3> QED BY <3>2, <3>3, <3>4
  <2>4. OnlyMatched'
    <3>1. ASSUME NEW r \in Rules, Reported'[r] > 0 PROVE matched[r] > 0
      <4>1. Reported'[r] <= Reported[r] BY <1>10, <3>1
      <4>2. Reported[r] > 0 BY <1>13, <3>1, <4>1
      <4> QED BY <2>1, <4>2 DEF LinuxInv, OnlyMatched
    <3> QED BY <2>1, <2>2, <3>1 DEF LinuxInv, OnlyMatched
  <2> QED BY <2>1, <2>2, <2>3, <2>4 DEF LinuxInv, ListingsPast
<1>15. ASSUME platform = "windows" PROVE WindowsInv'
  <2>1. WindowsInv BY <1>15
  <2>2. UNCHANGED <<filters, known, pending, events, matched>> BY <1>5 DEF wfpOnly
  <2>3. ASSUME NEW r \in Rules
        PROVE  matched[r] = Reported'[r] + missed'[r] + Cardinality(Waiting(events, r))
    <3>1. matched[r] = Reported[r] + missed[r] + Cardinality(Waiting(events, r))
      BY <2>1, WindowsAccount DEF WindowsInv
    <3>2. /\ missed[r] \in Nat /\ missed'[r] \in Nat /\ Reported[r] \in Nat /\ Reported'[r] \in Nat
          /\ Reported'[r] + missed'[r] = Reported[r] + missed[r]
      BY <1>10, <1>13
    <3>3. Cardinality(Waiting(events, r)) \in Nat BY <1>1, WindowsTypes, WaitingFinite
    <3> QED BY <3>1, <3>2, <3>3
  <2>4. Wfp!WfpAccounted(Reported)' BY <2>2, <2>3, SameCardinality DEF Wfp!WfpAccounted, Waiting
  <2> QED BY <2>1, <2>2, <2>4 DEF WindowsInv, NamedBy
<1>16. platform' = platform BY <1>5
<1> QED BY <1>11, <1>12, <1>14, <1>15, <1>16

-----------------------------------------------------------------------------
(***************************************************************************)
(* The theorems.                                                           *)
(***************************************************************************)

LEMMA DropsInit == Init => IInv
<1> SUFFICES ASSUME Init PROVE IInv OBVIOUS
<1>1. 0 \in 0 .. MaxPackets /\ 0 \in 0 .. MaxApplies BY Caps
<1>2. TypeOK
  <2>1. Nft!NftTypeOK
    <3>1. 1 \in 1 .. Len(Lines) + 1 /\ 0 \in 0 .. MaxReadings BY LinesType, Caps
    <3> QED BY <1>1, <3>1 DEF Init, Nft!NftInit, Nft!NftTypeOK, Nft!Zero
  <2>2. Wfp!WfpTypeOK
    <3>1. Cardinality(Rules) \in Nat BY DropsAssumption, FS_CardinalityType
    <3>2. <<>> \in [1 .. 0 -> Rules] OBVIOUS
    <3>3. 0 \in 0 .. Wfp!Cardinality(Rules) BY <3>1, SameCardinality
    <3>4. Wfp!NoPolicy \in Wfp!Policies BY <1>1, <3>2, <3>3 DEF Wfp!NoPolicy, Wfp!Policies
    <3> QED BY <3>4 DEF Init, Wfp!WfpInit, Wfp!WfpTypeOK
  <2>3. queue = <<>> /\ Len(queue) = 0 BY EmptySeq DEF Init
  <2> QED BY <1>1, <2>1, <2>2, <2>3, Caps, EmptySeq DEF Init, Zero, TypeOK
<1>3. \A r \in Rules : Reported[r] = 0 /\ matched[r] = 0 /\ missed[r] = 0
  BY PacketsNone DEF Init, Zero, Reported
<1>4. Told BY DEF Init, Told
<1>5. LinuxInv
  <2>1. ListingsPast BY DEF Init, Nft!NftInit, Nft!Zero, ListingsPast, Threads, Nft!Threads
  <2>2. LinuxAccount
    <3>1. SUFFICES ASSUME NEW r \in Nft!Single
                   PROVE  stored[r] = None /\ matched[r] = Reported[r] + Nft!Unread(r) + missed[r]
      BY DEF LinuxAccount, Init, Nft!NftInit
    <3>2. r \in Rules /\ Nft!LineOf(r) \in DOMAIN Lines BY SingleLine
    <3>3. stored[r] = None /\ Nft!Unread(r) = 0
      BY <3>2 DEF Init, Nft!NftInit, Nft!Zero, Nft!Unread
    <3> QED BY <1>3, <3>2, <3>3
  <2>3. OnlyMatched
    BY <1>3, LinesType DEF Init, Nft!NftInit, Nft!Zero, OnlyMatched, Threads, Nft!Threads
  <2> QED BY <2>1, <2>2, <2>3, DropsAssumption DEF Init, Nft!NftInit, LinuxInv, Nft!Threads
<1>6. WindowsInv
  <2>1. ASSUME NEW r \in Rules
        PROVE  matched[r] = Reported[r] + missed[r] + Cardinality(Waiting(events, r))
    <3>1. Waiting(events, r) = {} BY DEF Init, Wfp!WfpInit, Waiting
    <3> QED BY <1>3, <3>1, FS_EmptySet
  <2>2. Wfp!WfpAccounted(Reported) BY <2>1, WindowsAccount
  <2> QED BY <2>2 DEF Init, Wfp!WfpInit, WindowsInv
<1> QED BY <1>2, <1>4, <1>5, <1>6 DEF IInv

LEMMA DropsStep == IInv /\ [Next]_vars => IInv'
<1> SUFFICES ASSUME IInv, [Next]_vars PROVE IInv' OBVIOUS
<1>1. CASE UNCHANGED vars
  <2>1. TypeOK' BY <1>1 DEF IInv, vars, nftOnly, wfpOnly, engine, TypeOK, Nft!NftTypeOK, Wfp!WfpTypeOK
  <2>2. LinuxInv => LinuxInv'
    BY <1>1, ReportedSame 
    DEF vars, nftOnly, engine, LinuxInv, OnlyMatched, ListingsPast, LinuxAccount, Nft!Unread, Counted
  <2>3. WindowsInv => WindowsInv'
    BY <1>1, ReportedSame DEF vars, wfpOnly, engine, WindowsInv, NamedBy, Wfp!WfpAccounted
  <2>4. Told' /\ platform' = platform BY <1>1 DEF IInv, vars, engine, Told
  <2> QED BY <2>1, <2>2, <2>3, <2>4 DEF IInv
<1>2. CASE Next
  BY <1>2, LinuxStepKeeps, WindowsStepKeeps, DrainStep DEF Next, LinuxStep, WindowsStep
<1> QED BY <1>1, <1>2

LEMMA DropsInvariant == Spec => []IInv
BY DropsInit, DropsStep, PTL DEF Spec

\* However listings of the counters, changes of the policy, events and ticks
\* interleave, every packet a rule matched is in its hits, waits to be counted,
\* or was missed where the code misses it: with a table that was replaced, a
\* first reading, a full queue or ring, or a filter no longer known.  On Linux
\* that is so of the rules of one line, until two listings cross.
THEOREM AccountedCorrect == Spec => []Accounted
<1>1. IInv => Accounted
  <2> SUFFICES ASSUME IInv PROVE Accounted OBVIOUS
  <2>1. CASE platform = "linux"
    <3>1. LinuxInv BY <2>1 DEF IInv
    <3> QED BY <2>1, <3>1 DEF LinuxInv, LinuxAccount, Accounted, Nft!NftAccounted
  <2>2. CASE platform # "linux"
    BY <2>2 DEF IInv, TypeOK, WindowsInv, Accounted
  <2> QED BY <2>1, <2>2
<1> QED BY <1>1, DropsInvariant, PTL

\* No queue holds more than its room, no rule is given a packet when it matched
\* none, nor more than it matched where the code can tell its lines apart, and
\* every blocked packet is told, held for the line of the minute, or of a name
\* too many.
THEOREM InvCorrect == Spec => []Inv
<1>1. IInv => HitsMatched
  <2> SUFFICES ASSUME IInv PROVE HitsMatched OBVIOUS
  <2>1. TypeOK BY DEF IInv
  <2>2. CASE platform = "linux"
    <3>1. LinuxInv BY <2>2 DEF IInv
    <3>2. ASSUME ~crossed, NEW r \in Nft!Single PROVE Reported[r] <= matched[r]
      <4>1. \/ matched[r] = Reported[r] + Nft!Unread(r) + missed[r]
            \/ matched[r] = Reported[r] + Counted(r) + missed[r]
        BY <3>1, <3>2 DEF LinuxInv, LinuxAccount
      <4>2. /\ Reported[r] \in Nat /\ missed[r] \in Nat
            /\ Nft!Unread(r) \in Nat /\ Counted(r) \in Nat
        BY <2>1, SingleType
      <4> QED BY <4>1, <4>2
    <3> QED BY <2>2, <3>1, <3>2 DEF LinuxInv, OnlyMatched, HitsMatched, Nft!NftMatched
  <2>3. CASE platform # "linux"
    <3>1. ASSUME NEW r \in Rules PROVE Reported[r] <= matched[r]
      <4>1. matched[r] = Reported[r] + missed[r] + Cardinality(Waiting(events, r))
        BY <2>1, <2>3, WindowsAccount DEF IInv, TypeOK, WindowsInv
      <4>2. Cardinality(Waiting(events, r)) \in Nat BY <2>1, WindowsTypes, WaitingFinite
      <4>3. Reported[r] \in Nat /\ missed[r] \in Nat BY <2>1, ReportedType, WindowsTypes
      <4> QED BY <4>1, <4>2, <4>3
    <3> QED BY <2>3, <3>1 DEF HitsMatched
  <2> QED BY <2>2, <2>3
<1>2. IInv => Inv BY <1>1 DEF IInv, Inv
<1> QED BY <1>2, DropsInvariant, PTL

=============================================================================
