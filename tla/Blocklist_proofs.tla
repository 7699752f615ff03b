-------------------------- MODULE Blocklist_proofs --------------------------
(***************************************************************************)
(* Theorems about Blocklist, for any names, hashes, sizes of the index,    *)
(* files to import and handlers: probes find every name of the list and no *)
(* other, and unless saves overlap, fail or fill the disk, the file on the *)
(* disk is always whole.                                                   *)
(*                                                                         *)
(* The first half is about the index alone.  The functions that fill it    *)
(* are recursive, so that they have the values their definitions give is   *)
(* shown first (Recursion), and what they preserve by the first place at   *)
(* which it fails (FirstFailure).  The key is Reached: between the slot a  *)
(* name hashes to and the slot it is in, none is empty.                    *)
(*                                                                         *)
(* The second half is about the saves.  Until two of them overlap, one     *)
(* handler at a time has a file open, it is the one with the temporary     *)
(* name, and what is in it or about to be, unless the disk was full, was   *)
(* the list at some moment of the calls that go on (Kept).                 *)
(***************************************************************************)
EXTENDS Blocklist, FiniteSetTheorems, SequenceTheorems, WellFoundedInduction, TLAPS

-----------------------------------------------------------------------------
(***************************************************************************)
(* Numbers, and functions by recursion.                                    *)
(***************************************************************************)

\* A set of numbers has a least one.
LEMMA NatLeast ==
  ASSUME NEW T \in SUBSET Nat, T # {}
  PROVE  \E n \in T : \A m \in T : n <= m
<1>1. PICK n \in T : \A m \in T : ~(<<m, n>> \in OpToRel(<, Nat))
  BY NatLessThanWellFounded, WFMin
<1>2. \A m \in T : ~(m < n) BY <1>1 DEF OpToRel
<1> QED BY <1>2

\* Induction: what holds of 0 and fails somewhere fails for the first time.
LEMMA FirstFailure ==
  ASSUME NEW T \in SUBSET Nat, T # {}, 0 \notin T
  PROVE  \E n \in T : n \in Nat \ {0} /\ n - 1 \in Nat /\ n - 1 \notin T
<1>1. PICK n \in T : \A m \in T : n <= m BY NatLeast
<1>2. n \in Nat /\ n # 0 BY <1>1
<1>3. n - 1 \in Nat /\ ~(n <= n - 1) BY <1>2
<1> QED BY <1>1, <1>2, <1>3

\* Least is what it says.
LEMMA LeastIs ==
  ASSUME NEW T \in SUBSET Nat, T # {}
  PROVE  Least(T) \in T /\ \A m \in T : Least(T) <= m
<1>1. \E n \in T : \A m \in T : n <= m BY NatLeast
<1> QED BY <1>1 DEF Least

\* What the provers need of quotients and remainders, one fact at a time.
LEMMA Division ==
  ASSUME NEW h \in Nat, NEW n \in Nat \ {0}
  PROVE  h = n * (h \div n) + (h % n) /\ h \div n \in Nat /\ h % n \in 0 .. n - 1
OBVIOUS

LEMMA NoMultiple ==
  ASSUME NEW m \in Int, NEW n \in Nat \ {0}, n * m < n, 0 - n < n * m
  PROVE  m = 0
OBVIOUS

LEMMA SameRest ==
  ASSUME NEW n \in Nat \ {0}, NEW q \in Int, NEW r \in 0 .. n - 1, NEW p \in Int, NEW s \in 0 .. n - 1,
         n * q + r = n * p + s
  PROVE  r = s
<1>1. n * (q - p) = s - r OBVIOUS
<1>2. q - p = 0 BY <1>1, NoMultiple
<1> QED BY <1>1, <1>2

\* Once around is back.
LEMMA Around ==
  ASSUME NEW h \in Nat, NEW n \in Nat \ {0}
  PROVE  (h + n) % n = h % n
<1> DEFINE q == h \div n
           r == h % n
           p == (h + n) \div n
           s == (h + n) % n
<1>1. h = n * q + r /\ q \in Nat /\ r \in 0 .. n - 1 BY Division
<1>2. h + n \in Nat OBVIOUS
<1>3. h + n = n * p + s /\ p \in Nat /\ s \in 0 .. n - 1 BY <1>2, Division
<1> HIDE DEF q, r, p, s
<1>4. n * (q + 1) + r = n * p + s BY <1>1, <1>3
<1>5. q + 1 \in Int /\ p \in Int BY <1>1, <1>3
<1>6. r = s BY <1>1, <1>3, <1>4, <1>5, SameRest
<1> QED BY <1>6 DEF r, s

\* From any slot every slot is reached.
LEMMA EverySlot ==
  ASSUME NEW h \in Nat, NEW n \in Nat \ {0}, NEW s \in 0 .. n - 1
  PROVE  \E k \in 0 .. n - 1 : (h + k) % n = s
<1> DEFINE T == {g \in Nat : ~\E k \in 0 .. n - 1 : (g + k) % n = s}
<1>1. SUFFICES ASSUME T # {} PROVE FALSE OBVIOUS
<1>2. 0 \notin T
  <2>1. (0 + s) % n = s OBVIOUS
  <2> QED BY <2>1
<1>3. PICK g \in T : g \in Nat \ {0} /\ g - 1 \in Nat /\ g - 1 \notin T
  <2> HIDE DEF T
  <2>1. T \in SUBSET Nat BY DEF T
  <2> QED BY <1>1, <1>2, <2>1, FirstFailure
<1>4. g - 1 \in Nat /\ g - 1 \notin T BY <1>3
<1>5. PICK k \in 0 .. n - 1 : ((g - 1) + k) % n = s BY <1>4
<1>6. CASE k = 0
  <2>1. ((g - 1) + n) % n = (g - 1) % n BY <1>4, Around
  <2>2. (g - 1) + n = g + (n - 1) /\ (g - 1) + 0 = g - 1 BY <1>4
  <2>3. (g + (n - 1)) % n = s BY <1>5, <1>6, <2>1, <2>2
  <2> QED BY <1>3, <2>3
<1>7. CASE k # 0
  <2>1. (g - 1) + k = g + (k - 1) /\ k - 1 \in 0 .. n - 1 BY <1>4, <1>7
  <2>2. (g + (k - 1)) % n = s BY <1>5, <2>1
  <2> QED BY <1>3, <2>1, <2>2
<1> QED BY <1>6, <1>7

\* f begins with a and goes on by the steps.
Repeats(f, S, a, n, step) ==
  f \in [0 .. n -> S] /\ f[0] = a /\ \A i \in 1 .. n : f[i] = step[i][f[i - 1]]

StaysIn(S, n, step) == \A i \in 1 .. n : \A x \in S : step[i][x] \in S

\* A step that stays in a set can be repeated.
LEMMA Recursion ==
  ASSUME NEW S, NEW a \in S, NEW n \in Nat, NEW step, StaysIn(S, n, step)
  PROVE  \E f : Repeats(f, S, a, n, step)
<1> DEFINE T == {m \in Nat : m <= n /\ ~\E f : Repeats(f, S, a, m, step)}
<1>1. SUFFICES ASSUME T # {} PROVE FALSE OBVIOUS
<1>2. 0 \notin T
  <2> DEFINE f == [i \in 0 .. 0 |-> a]
  <2>1. Repeats(f, S, a, 0, step) BY DEF Repeats
  <2> QED BY <2>1
<1>3. PICK m \in T : m \in Nat \ {0} /\ m - 1 \in Nat /\ m - 1 \notin T
  <2> HIDE DEF T
  <2>1. T \in SUBSET Nat BY DEF T
  <2> QED BY <1>1, <1>2, <2>1, FirstFailure
<1>4. m - 1 \in Nat /\ m - 1 <= n /\ m <= n /\ m - 1 \notin T BY <1>3
<1>5. PICK f : Repeats(f, S, a, m - 1, step) BY <1>4
<1> DEFINE g == [i \in 0 .. m |-> IF i = m THEN step[m][f[m - 1]] ELSE f[i]]
<1>6. f[m - 1] \in S /\ m \in 1 .. n BY <1>3, <1>4, <1>5 DEF Repeats
<1>7. step[m][f[m - 1]] \in S BY <1>6 DEF StaysIn
<1>8. Repeats(g, S, a, m, step) BY <1>3, <1>4, <1>5, <1>7 DEF Repeats
<1> QED BY <1>3, <1>8

-----------------------------------------------------------------------------
(***************************************************************************)
(* The index.                                                              *)
(***************************************************************************)

Slot(c, d, k) == (Hash[d] + k) % c

\* A probe for the domain in place i of the list comes to it, past no empty slot.
Reached(ix, l, c, i) ==
  \E k \in 0 .. c - 1 :
    /\ ix[Slot(c, l[i], k)] = i
    /\ \A j \in 0 .. k - 1 : ix[Slot(c, l[i], j)] # 0

\* ix is an index of c slots over the first n domains of l.
Indexed(ix, l, c, n) ==
  /\ ix \in [0 .. c - 1 -> 0 .. n]
  /\ \A s, t \in 0 .. c - 1 : ix[s] # 0 /\ ix[s] = ix[t] => s = t
  /\ \A i \in 1 .. n : Reached(ix, l, c, i)

\* A probe looks at slots of the index.
LEMMA SlotType ==
  ASSUME NEW c \in Nat \ {0}, NEW d \in Domains, NEW k \in Nat
  PROVE  Slot(c, d, k) \in 0 .. c - 1
<1>1. Hash[d] + k \in Nat BY BlocklistAssumption
<1> QED BY <1>1, Division DEF Slot

\* How many slots, and how many places in a list, there are.
LEMMA NumbersTo ==
  ASSUME NEW c \in Nat
  PROVE  /\ IsFiniteSet(0 .. c - 1) /\ Cardinality(0 .. c - 1) = c
         /\ IsFiniteSet(1 .. c) /\ Cardinality(1 .. c) = c
<1>1. 0 \in Int /\ 1 \in Int /\ c - 1 \in Int /\ c \in Int OBVIOUS
<1>2. IsFiniteSet(0 .. c - 1) /\ Cardinality(0 .. c - 1) = (IF 0 > c - 1 THEN 0 ELSE (c - 1) - 0 + 1)
  BY <1>1, FS_Interval
<1>3. IsFiniteSet(1 .. c) /\ Cardinality(1 .. c) = (IF 1 > c THEN 0 ELSE c - 1 + 1)
  BY <1>1, FS_Interval
<1> QED BY <1>2, <1>3

\* The operators of the model in the terms used here.
LEMMA CapIs ==
  ASSUME NEW c \in Nat, NEW ix, DOMAIN ix = 0 .. c - 1
  PROVE  Cap(ix) = c
BY NumbersTo DEF Cap

LEMMA ProbeIs ==
  ASSUME NEW c \in Nat, NEW ix, DOMAIN ix = 0 .. c - 1, NEW d, NEW k
  PROVE  Probe(ix, d, k) = Slot(c, d, k)
BY CapIs DEF Probe, Slot

\* An index with more slots than domains has an empty one.
LEMMA EmptySlot ==
  ASSUME NEW c \in Nat, NEW n \in Nat, n < c, NEW ix, NEW l, Indexed(ix, l, c, n)
  PROVE  \E s \in 0 .. c - 1 : ix[s] = 0
<1>1. SUFFICES ASSUME \A s \in 0 .. c - 1 : ix[s] # 0 PROVE FALSE OBVIOUS
<1>2. ix \in [0 .. c - 1 -> 1 .. n] BY <1>1 DEF Indexed
<1>3. PICK s, t \in 0 .. c - 1 : s # t /\ ix[s] = ix[t]
  BY <1>2, NumbersTo, FS_PigeonHole
<1> QED BY <1>1, <1>3 DEF Indexed

\* index_insert puts the next domain where a probe for it finds it, and no other
\* out of reach.
LEMMA InsertedIndexed ==
  ASSUME NEW c \in Nat, NEW n \in Nat \ {0}, n <= c, NEW l, \A i \in 1 .. n : l[i] \in Domains,
         NEW ix, Indexed(ix, l, c, n - 1)
  PROVE  Indexed(Inserted(ix, l, n), l, c, n)
<1> DEFINE d == l[n]
           free == {k \in 0 .. Cap(ix) - 1 : ix[Probe(ix, d, k)] = 0}
           first == Least(free)
           slot == Slot(c, d, first)
           new == [ix EXCEPT ![slot] = n]
<1>1. ix \in [0 .. c - 1 -> 0 .. n - 1] /\ DOMAIN ix = 0 .. c - 1 /\ Cap(ix) = c
  BY CapIs DEF Indexed
<1>2. free = {k \in 0 .. c - 1 : ix[Slot(c, d, k)] = 0} BY <1>1, ProbeIs
<1>3. d \in Domains /\ c \in Nat \ {0} /\ Hash[d] \in Nat BY BlocklistAssumption
<1>4. free # {}
  <2>1. n - 1 \in Nat /\ n - 1 < c OBVIOUS
  <2>2. PICK s \in 0 .. c - 1 : ix[s] = 0 BY <2>1, EmptySlot
  <2>3. PICK k \in 0 .. c - 1 : (Hash[d] + k) % c = s BY <1>3, EverySlot
  <2>4. k \in free BY <1>2, <2>2, <2>3 DEF Slot
  <2> QED BY <2>4
<1>5. first \in free /\ \A k \in free : first <= k
  <2>1. free \in SUBSET Nat BY <1>2
  <2> HIDE DEF free
  <2> QED BY <1>4, <2>1, LeastIs
<1>6. Inserted(ix, l, n) = new
  <2>1. Probe(ix, l[n], first) = slot BY <1>1, ProbeIs
  <2> QED BY <1>4, <2>1 DEF Inserted
<1> HIDE DEF first
<1>7. first \in 0 .. c - 1 /\ ix[slot] = 0 /\ \A k \in 0 .. first - 1 : ix[Slot(c, d, k)] # 0
  <2>1. first \in 0 .. c - 1 /\ ix[slot] = 0 BY <1>2, <1>5
  <2>2. ASSUME NEW k \in 0 .. first - 1 PROVE ix[Slot(c, d, k)] # 0
    <3>1. k \in 0 .. c - 1 /\ ~(first <= k) BY <2>1
    <3> QED BY <1>2, <1>5, <3>1
  <2> QED BY <2>1, <2>2
<1>8. slot \in 0 .. c - 1
  <2>1. first \in Nat BY <1>7
  <2> QED BY <1>3, <2>1, SlotType
<1> HIDE DEF slot, free
<1>9. new \in [0 .. c - 1 -> 0 .. n] /\ new[slot] = n
  BY <1>1, <1>8
<1>10. \A s \in 0 .. c - 1 : s # slot => new[s] = ix[s] BY <1>1, <1>8
<1>11. \A s \in 0 .. c - 1 : ix[s] # 0 => new[s] = ix[s] BY <1>7, <1>10
<1>12. \A s, t \in 0 .. c - 1 : new[s] # 0 /\ new[s] = new[t] => s = t
  BY <1>1, <1>9, <1>10 DEF Indexed
<1> HIDE DEF new
<1>13. ASSUME NEW i \in 1 .. n PROVE Reached(new, l, c, i)
  <2>1. CASE i = n
    <3>1. new[Slot(c, l[i], first)] = i BY <1>9, <2>1 DEF slot
    <3>2. ASSUME NEW j \in 0 .. first - 1 PROVE new[Slot(c, l[i], j)] # 0
      <4>1. Slot(c, d, j) \in 0 .. c - 1 BY <1>3, <1>7, SlotType
      <4> QED BY <1>7, <1>11, <2>1, <4>1
    <3> QED BY <1>7, <3>1, <3>2 DEF Reached
  <2>2. CASE i # n
    <3>1. i \in 1 .. n - 1 /\ l[i] \in Domains BY <2>2
    <3>2. PICK k \in 0 .. c - 1 : /\ ix[Slot(c, l[i], k)] = i
                                  /\ \A j \in 0 .. k - 1 : ix[Slot(c, l[i], j)] # 0
      BY <3>1 DEF Indexed, Reached
    <3>3. new[Slot(c, l[i], k)] = i
      <4>1. k \in Nat OBVIOUS
      <4>2. Slot(c, l[i], k) \in 0 .. c - 1 BY <1>3, <3>1, <4>1, SlotType
      <4> QED BY <1>11, <3>2, <4>2
    <3>4. ASSUME NEW j \in 0 .. k - 1 PROVE new[Slot(c, l[i], j)] # 0
      <4>1. j \in Nat OBVIOUS
      <4>2. Slot(c, l[i], j) \in 0 .. c - 1 BY <1>3, <3>1, <4>1, SlotType
      <4> QED BY <1>11, <3>2, <4>2
    <3> QED BY <3>3, <3>4 DEF Reached
  <2> QED BY <2>1, <2>2
<1> QED BY <1>6, <1>9, <1>12, <1>13 DEF Indexed

\* The sizes double, so one of the first n + 1 is large enough for n domains.
LEMMA SizesType ==
  ASSUME NEW n \in Nat
  PROVE  Sizes(n) \subseteq Nat /\ \E c \in Sizes(n) : c >= 2 * n
<1> DEFINE P(f) == f = [k \in 0 .. n |-> IF k = 0 THEN FirstCap ELSE 2 * f[k - 1]]
           double == [i \in 1 .. n |-> [c \in Nat |-> 2 * c]]
<1>1. \E f : P(f)
  <2>1. StaysIn(Nat, n, double) BY DEF StaysIn
  <2> HIDE DEF double
  <2>2. FirstCap \in Nat BY BlocklistAssumption
  <2>3. PICK f : Repeats(f, Nat, FirstCap, n, double)
    BY <2>1, <2>2, Recursion, Zenon
  <2>4. ASSUME NEW i \in 1 .. n PROVE f[i] = 2 * f[i - 1]
    <3>1. f[i - 1] \in Nat BY <2>3 DEF Repeats
    <3> QED BY <2>3, <3>1 DEF double, Repeats
  <2>5. P(f) BY <2>3, <2>4 DEF Repeats
  <2> QED BY <2>5
<1>2. P(CHOOSE g : P(g)) BY <1>1, Zenon
<1> DEFINE doubled == CHOOSE g : P(g)
<1>3. Sizes(n) = {doubled[k] : k \in 0 .. n} BY DEF Sizes
<1> HIDE DEF doubled
<1>4. P(doubled) BY <1>2 DEF doubled
<1>5. doubled[0] = FirstCap /\ \A k \in 1 .. n : doubled[k] = 2 * doubled[k - 1] BY <1>4
<1>6. \A k \in 0 .. n : doubled[k] \in Nat /\ doubled[k] >= 1 /\ doubled[k] >= 2 * k
  <2> DEFINE T == {k \in Nat : k <= n /\ ~(doubled[k] \in Nat /\ doubled[k] >= 1 /\ doubled[k] >= 2 * k)}
  <2>1. SUFFICES ASSUME T # {} PROVE FALSE OBVIOUS
  <2>2. 0 \notin T BY <1>5, BlocklistAssumption
  <2>3. PICK k \in T : k \in Nat \ {0} /\ k - 1 \in Nat /\ k - 1 \notin T
    <3> HIDE DEF T
    <3>1. T \in SUBSET Nat BY DEF T
    <3> QED BY <2>1, <2>2, <3>1, FirstFailure
  <2>4. k \in 1 .. n /\ doubled[k - 1] \in Nat /\ doubled[k - 1] >= 1 /\ doubled[k - 1] >= 2 * (k - 1)
    BY <2>3
  <2>5. doubled[k] = 2 * doubled[k - 1] BY <1>5, <2>4
  <2>6. doubled[k] \in Nat /\ doubled[k] >= 1 /\ doubled[k] >= 2 * k BY <2>4, <2>5
  <2> QED BY <2>3, <2>6
<1>7. doubled[n] \in Sizes(n) /\ doubled[n] >= 2 * n BY <1>3, <1>6
<1> QED BY <1>3, <1>6, <1>7

\* index_rebuild takes a size of more than twice the names.
LEMMA SizeIs ==
  ASSUME NEW n \in Nat
  PROVE  Size(n) \in Nat /\ Size(n) >= 2 * n + 2
<1> DEFINE T == {c \in Sizes(n + 1) : c >= 2 * n + 2}
<1>1. n + 1 \in Nat OBVIOUS
<1>2. T \in SUBSET Nat /\ T # {}
  <2>1. Sizes(n + 1) \subseteq Nat BY <1>1, SizesType
  <2>2. PICK c \in Sizes(n + 1) : c >= 2 * (n + 1) BY <1>1, SizesType
  <2>3. c \in Nat /\ c >= 2 * n + 2 BY <2>1, <2>2
  <2> QED BY <2>1, <2>3
<1>3. Least(T) \in T
  <2> HIDE DEF T
  <2> QED BY <1>2, LeastIs
<1>4. Size(n) = Least(T) BY DEF Size
<1> HIDE DEF T
<1>5. Size(n) \in T BY <1>3, <1>4
<1> QED BY <1>2, <1>5 DEF T

\* index_rebuild: the index is one of the whole list, and less than half full.
LEMMA RebuiltIndexed ==
  ASSUME NEW l \in Seq(Domains)
  PROVE  Indexed(Rebuilt(l), l, Size(Len(l)), Len(l))
<1> DEFINE n == Len(l)
           c == Size(n)
           empty == [s \in 0 .. c - 1 |-> 0]
           Tables == [0 .. c - 1 -> Nat]
           insert == [i \in 1 .. n |-> [ix \in Tables |-> Inserted(ix, l, i)]]
           P(f) == f = [i \in 0 .. n |-> IF i = 0 THEN empty ELSE Inserted(f[i - 1], l, i)]
<1>1. n \in Nat /\ c \in Nat /\ c >= 2 * n + 2 /\ \A i \in 1 .. n : l[i] \in Domains
  BY SizeIs, LenProperties, ElementOfSeq
<1>2. Rebuilt(l) = (CHOOSE g : P(g))[n] BY DEF Rebuilt
<1> HIDE DEF n, c
<1>3. \E f : P(f)
  <2>1. ASSUME NEW i \in 1 .. n, NEW ix \in Tables PROVE Inserted(ix, l, i) \in Tables
    <3>1. i \in Nat BY <1>1
    <3>2. \A s : [ix EXCEPT ![s] = i] \in Tables BY <3>1
    <3> HIDE DEF Tables
    <3> QED BY <3>2 DEF Inserted
  <2>2. StaysIn(Tables, n, insert) BY <2>1 DEF StaysIn
  <2>3. empty \in Tables OBVIOUS
  <2> HIDE DEF insert, Tables, empty
  <2>4. PICK f : Repeats(f, Tables, empty, n, insert)
    BY <1>1, <2>2, <2>3, Recursion, Zenon
  <2>5. ASSUME NEW i \in 1 .. n PROVE f[i] = Inserted(f[i - 1], l, i)
    <3>1. i - 1 \in 0 .. n /\ f[i - 1] \in Tables BY <1>1, <2>4 DEF Repeats
    <3> QED BY <2>4, <3>1 DEF insert, Repeats
  <2>6. P(f) BY <1>1, <2>4, <2>5 DEF Repeats
  <2> QED BY <2>6
<1>4. P(CHOOSE g : P(g)) BY <1>3, Zenon
<1> DEFINE upTo == CHOOSE g : P(g)
<1> HIDE DEF upTo
<1>5. P(upTo) /\ Rebuilt(l) = upTo[n] BY <1>2, <1>4 DEF upTo
<1>6. upTo[0] = empty /\ \A i \in 1 .. n : upTo[i] = Inserted(upTo[i - 1], l, i)
  <2> HIDE DEF empty
  <2>1. 0 \in 0 .. n /\ \A i \in 1 .. n : i \in 0 .. n /\ i # 0 BY <1>1
  <2>2. \A i \in 0 .. n : upTo[i] = IF i = 0 THEN empty ELSE Inserted(upTo[i - 1], l, i) BY <1>5
  <2> QED BY <2>1, <2>2
<1>7. \A i \in 0 .. n : Indexed(upTo[i], l, c, i)
  <2> DEFINE T == {i \in Nat : i <= n /\ ~Indexed(upTo[i], l, c, i)}
  <2>1. SUFFICES ASSUME T # {} PROVE FALSE BY <1>1
  <2>2. 0 \notin T BY <1>1, <1>6 DEF Indexed
  <2>3. PICK i \in T : i \in Nat \ {0} /\ i - 1 \in Nat /\ i - 1 \notin T
    <3> HIDE DEF T
    <3>1. T \in SUBSET Nat BY DEF T
    <3> QED BY <2>1, <2>2, <3>1, FirstFailure
  <2>4. i \in 1 .. n /\ i <= c /\ Indexed(upTo[i - 1], l, c, i - 1) BY <1>1, <2>3
  <2>5. \A j \in 1 .. i : l[j] \in Domains BY <1>1, <2>4
  <2>6. Indexed(Inserted(upTo[i - 1], l, i), l, c, i) BY <1>1, <2>3, <2>4, <2>5, InsertedIndexed
  <2>7. Indexed(upTo[i], l, c, i) BY <1>6, <2>4, <2>6
  <2> QED BY <2>3, <2>7
<1>8. Indexed(Rebuilt(l), l, c, n) BY <1>1, <1>5, <1>7
<1> QED BY <1>8 DEF n, c

\* index_find: the place of a domain, or 0 if it is not listed.
LEMMA FindIs ==
  ASSUME NEW l \in Seq(Domains), NEW c \in Nat \ {0}, NEW ix, Indexed(ix, l, c, Len(l)), NEW d \in Domains
  PROVE  /\ Find(ix, l, d) \in 0 .. Len(l)
         /\ Find(ix, l, d) # 0 => l[Find(ix, l, d)] = d
         /\ Find(ix, l, d) = 0 => d \notin Elems(l)
<1> DEFINE n == Len(l)
           stops == {k \in 0 .. Cap(ix) - 1 : LET i == ix[Probe(ix, d, k)] IN i = 0 \/ l[i] = d}
           first == Least(stops)
           place == ix[Slot(c, d, first)]
<1>1. n \in Nat /\ DOMAIN l = 1 .. n BY LenProperties
<1>2. ix \in [0 .. c - 1 -> 0 .. n] /\ DOMAIN ix = 0 .. c - 1 /\ Cap(ix) = c
  BY CapIs DEF Indexed
<1>3. stops = {k \in 0 .. c - 1 : ix[Slot(c, d, k)] = 0 \/ l[ix[Slot(c, d, k)]] = d}
  BY <1>2, ProbeIs
<1>4. Find(ix, l, d) = IF stops = {} THEN 0 ELSE place
  <2>1. Probe(ix, d, first) = Slot(c, d, first) BY <1>2, ProbeIs
  <2> QED BY <2>1 DEF Find
<1>5. ASSUME NEW i \in 1 .. n, l[i] = d PROVE stops # {} /\ place # 0
  <2>0. Reached(ix, l, c, i) BY DEF Indexed
  <2>1. PICK k \in 0 .. c - 1 : ix[Slot(c, d, k)] = i /\ \A j \in 0 .. k - 1 : ix[Slot(c, d, j)] # 0
    BY <1>5, <2>0, Zenon DEF Reached
  <2>2. k \in stops BY <1>3, <1>5, <2>1
  <2>3. stops \in SUBSET Nat BY <1>3
  <2>4. first \in stops /\ first <= k
    <3> HIDE DEF stops
    <3> QED BY <2>2, <2>3, LeastIs
  <2> HIDE DEF first
  <2>5. first \in 0 .. c - 1 BY <1>3, <2>4
  <2>6. CASE first = k BY <2>1, <2>2, <2>6
  <2>7. CASE first # k
    <3>1. first \in 0 .. k - 1 BY <2>4, <2>5, <2>7
    <3> QED BY <2>1, <2>2, <3>1
  <2> QED BY <2>6, <2>7
<1>6. CASE stops = {}
  <2> HIDE DEF stops
  <2>1. Find(ix, l, d) = 0 BY <1>4, <1>6
  <2> QED BY <1>1, <1>5, <1>6, <2>1 DEF Elems
<1>7. CASE stops # {}
  <2>1. first \in stops
    <3>1. stops \in SUBSET Nat BY <1>3
    <3> HIDE DEF stops
    <3> QED BY <1>7, <3>1, LeastIs
  <2> HIDE DEF first
  <2>2. first \in 0 .. c - 1 /\ (place = 0 \/ l[place] = d) BY <1>3, <2>1
  <2> HIDE DEF stops
  <2>3. place \in 0 .. n
    <3>1. first \in Nat BY <2>2
    <3>2. Slot(c, d, first) \in 0 .. c - 1 BY <3>1, SlotType
    <3> QED BY <1>2, <3>2
  <2> HIDE DEF place
  <2>4. Find(ix, l, d) = place BY <1>4, <1>7
  <2> QED BY <1>1, <1>5, <2>2, <2>3, <2>4 DEF Elems
<1> QED BY <1>6, <1>7

-----------------------------------------------------------------------------
(***************************************************************************)
(* The list and its index.                                                 *)
(***************************************************************************)

Once(l) == \A i, j \in DOMAIN l : l[i] = l[j] => i = j

\* ix is an index of l, less than half full.
IndexOf(ix, l) == \E c \in Nat : c > 2 * Len(l) /\ Indexed(ix, l, c, Len(l))

Tables == UNION {[0 .. c - 1 -> Nat] : c \in Nat}

\* What add, remove, import and load make of one another.
Memories == {m \in [list : Seq(Domains), index : Tables] : Once(m.list) /\ IndexOf(m.index, m.list)}

\* How a list and its index are put together again.
LEMMA MemoryOf ==
  ASSUME NEW l \in Seq(Domains), NEW ix, Once(l), IndexOf(ix, l)
  PROVE  [list |-> l, index |-> ix] \in Memories
<1>1. PICK c \in Nat : Indexed(ix, l, c, Len(l)) BY DEF IndexOf
<1>2. 0 .. Len(l) \subseteq Nat BY LenProperties
<1>3. ix \in [0 .. c - 1 -> Nat] BY <1>1, <1>2 DEF Indexed
<1>4. ix \in Tables BY <1>3 DEF Tables
<1> QED BY <1>4 DEF Memories

\* index_rebuild, of any list that names nothing twice.
LEMMA RebuiltMemory ==
  ASSUME NEW l \in Seq(Domains), Once(l)
  PROVE  [list |-> l, index |-> Rebuilt(l)] \in Memories
<1>1. Len(l) \in Nat BY LenProperties
<1>2. Size(Len(l)) \in Nat /\ Size(Len(l)) > 2 * Len(l) BY <1>1, SizeIs
<1>3. IndexOf(Rebuilt(l), l) BY <1>2, RebuiltIndexed DEF IndexOf
<1> QED BY <1>3, MemoryOf

\* index_find, of a list and its index.
LEMMA FindInMemory ==
  ASSUME NEW m \in Memories, NEW d \in Domains
  PROVE  /\ Find(m.index, m.list, d) \in 0 .. Len(m.list)
         /\ Find(m.index, m.list, d) # 0 <=> d \in Elems(m.list)
         /\ Find(m.index, m.list, d) # 0 => m.list[Find(m.index, m.list, d)] = d
<1> DEFINE l == m.list
           f == Find(m.index, l, d)
<1>1. l \in Seq(Domains) /\ IndexOf(m.index, l) BY DEF Memories
<1>2. Len(l) \in Nat /\ DOMAIN l = 1 .. Len(l) BY <1>1, LenProperties
<1>3. PICK c \in Nat \ {0} : Indexed(m.index, l, c, Len(l)) BY <1>1, <1>2 DEF IndexOf
<1> HIDE DEF l
<1>4. f \in 0 .. Len(l) /\ (f # 0 => l[f] = d) /\ (f = 0 => d \notin Elems(l))
  BY <1>1, <1>3, FindIs
<1> HIDE DEF f
<1>5. f # 0 => d \in Elems(l) BY <1>2, <1>4 DEF Elems
<1> QED BY <1>4, <1>5 DEF f, l

\* add_locked lists the name of the text, if it has one and it is new.
LEMMA AddedMemory ==
  ASSUME NEW m \in Memories, NEW text \in Texts
  PROVE  /\ Added(m, text) \in Memories
         /\ Elems(Added(m, text).list) = Elems(m.list) \cup ({Norm[text]} \ {Bad})
<1> DEFINE d == Norm[text]
           l == Append(m.list, d)
           n == Len(m.list) + 1
           new == [list |-> l,
                   index |-> IF 2 * n >= Cap(m.index) THEN Rebuilt(l) ELSE Inserted(m.index, l, n)]
<1>1. CASE d = Bad BY <1>1 DEF Added
<1>2. CASE d # Bad
  <2>1. d \in Domains /\ m.list \in Seq(Domains) /\ Once(m.list)
    BY <1>2, BlocklistAssumption DEF Memories
  <2>2. CASE Find(m.index, m.list, d) # 0
    <3>1. Added(m, text) = m BY <2>2 DEF Added
    <3>2. d \in Elems(m.list) BY <2>1, <2>2, FindInMemory
    <3> QED BY <3>1, <3>2
  <2>3. CASE Find(m.index, m.list, d) = 0
    <3>1. d \notin Elems(m.list) BY <2>1, <2>3, FindInMemory
    <3>2. /\ l \in Seq(Domains) /\ Len(l) = n /\ Len(m.list) \in Nat /\ l[n] = d
          /\ \A i \in 1 .. Len(m.list) : l[i] = m.list[i]
          /\ DOMAIN l = 1 .. n /\ DOMAIN m.list = 1 .. Len(m.list)
      BY <2>1, AppendProperties, LenProperties
    <3>3. Added(m, text) = new
      <4>1. Len(Append(m.list, Norm[text])) = n BY <3>2
      <4> QED BY <1>2, <2>3, <4>1 DEF Added
    <3> HIDE DEF l, d
    <3>4. DOMAIN l = DOMAIN m.list \cup {n} /\ n \notin DOMAIN m.list BY <3>2
    <3>5. Once(l) BY <2>1, <3>1, <3>2, <3>4 DEF Once, Elems
    <3>6. Elems(l) = Elems(m.list) \cup {d} BY <3>2, <3>4 DEF Elems
    <3>7. new \in Memories
      <4>1. CASE 2 * n >= Cap(m.index)
        <5>1. new = [list |-> l, index |-> Rebuilt(l)] BY <4>1
        <5> QED BY <3>2, <3>5, <5>1, RebuiltMemory
      <4>2. CASE ~(2 * n >= Cap(m.index))
        <5>1. PICK c \in Nat : Indexed(m.index, m.list, c, Len(m.list))
          BY DEF Memories, IndexOf
        <5>2. Cap(m.index) = c BY <5>1, CapIs DEF Indexed
        <5>3. n \in Nat \ {0} /\ n - 1 = Len(m.list) /\ c > 2 * n /\ n <= c BY <3>2, <4>2, <5>2
        <5>4. ASSUME NEW i \in 1 .. n - 1 PROVE Reached(m.index, l, c, i)
          <6>1. Reached(m.index, m.list, c, i) /\ l[i] = m.list[i] BY <3>2, <5>1, <5>3 DEF Indexed
          <6> QED BY <6>1 DEF Reached
        <5>5. Indexed(m.index, l, c, n - 1) BY <5>1, <5>3, <5>4 DEF Indexed
        <5>6. \A i \in 1 .. n : l[i] \in Domains BY <3>2
        <5>7. Indexed(Inserted(m.index, l, n), l, c, n) BY <5>3, <5>5, <5>6, InsertedIndexed
        <5>8. IndexOf(Inserted(m.index, l, n), l) BY <3>2, <5>3, <5>7 DEF IndexOf
        <5>9. new = [list |-> l, index |-> Inserted(m.index, l, n)] BY <4>2
        <5> QED BY <3>2, <3>5, <5>8, <5>9, MemoryOf
      <4> QED BY <4>1, <4>2
    <3> QED BY <1>2, <3>3, <3>6, <3>7 DEF d
  <2> QED BY <2>2, <2>3
<1> QED BY <1>1, <1>2

\* A name taken out leaves the others where they are, but for the last.
LEMMA WithoutOnce ==
  ASSUME NEW l \in Seq(Domains), Once(l), NEW i \in 1 .. Len(l)
  PROVE  Without(l, i) \in Seq(Domains) /\ Once(Without(l, i))
<1> DEFINE n == Len(l)
<1>1. n \in Nat /\ DOMAIN l = 1 .. n /\ \A k \in 1 .. n : l[k] \in Domains
  BY LenProperties, ElementOfSeq
<1>2. n - 1 \in Nat /\ n \in 1 .. n BY <1>1
<1>3. Without(l, i) = [k \in 1 .. n - 1 |-> IF k = i THEN l[n] ELSE l[k]] BY DEF Without
<1> HIDE DEF n
<1>4. Without(l, i) \in [1 .. n - 1 -> Domains] BY <1>1, <1>2, <1>3
<1>5. Without(l, i) \in Seq(Domains) BY <1>2, <1>4, SeqDef
<1>6. Once(Without(l, i)) BY <1>1, <1>2, <1>3 DEF Once
<1> QED BY <1>5, <1>6

\* dnsd_block_remove.
LEMMA RemovedMemory ==
  ASSUME NEW m \in Memories, NEW text \in Texts
  PROVE  Removed(m, text) \in Memories
<1> DEFINE d == Norm[text]
           i == IF d = Bad THEN 0 ELSE Find(m.index, m.list, d)
<1>1. CASE i = 0 BY <1>1 DEF Removed
<1>2. CASE i # 0
  <2>1. d \in Domains /\ i = Find(m.index, m.list, d) BY <1>2, BlocklistAssumption
  <2>2. m.list \in Seq(Domains) /\ Once(m.list) BY DEF Memories
  <2>3. i \in 1 .. Len(m.list)
    <3> HIDE DEF d, i
    <3>1. i \in 0 .. Len(m.list) BY <2>1, FindInMemory
    <3> QED BY <1>2, <2>2, <3>1, LenProperties
  <2>4. Removed(m, text) = [list |-> Without(m.list, i), index |-> Rebuilt(Without(m.list, i))]
    BY <1>2 DEF Removed, Reindexed
  <2> HIDE DEF i
  <2> QED BY <2>2, <2>3, <2>4, WithoutOnce, RebuiltMemory
<1> QED BY <1>1, <1>2

\* dnsd_block_import and dnsd_block_load list every name among the texts.
LEMMA AllAddedMemory ==
  ASSUME NEW m \in Memories, NEW texts \in Seq(Texts)
  PROVE  /\ AllAdded(m, texts) \in Memories
         /\ Elems(AllAdded(m, texts).list) = Elems(m.list) \cup ({Norm[t] : t \in Elems(texts)} \ {Bad})
<1> DEFINE n == Len(texts)
           add == [i \in 1 .. n |-> [x \in Memories |-> Added(x, texts[i])]]
           P(f) == f = [i \in 0 .. n |-> IF i = 0 THEN m ELSE Added(f[i - 1], texts[i])]
<1>1. n \in Nat /\ DOMAIN texts = 1 .. n /\ \A i \in 1 .. n : texts[i] \in Texts
  BY LenProperties, ElementOfSeq
<1>2. AllAdded(m, texts) = (CHOOSE g : P(g))[n] BY DEF AllAdded
<1> HIDE DEF n
<1>3. \E f : P(f)
  <2>1. StaysIn(Memories, n, add) BY <1>1, AddedMemory DEF StaysIn
  <2> HIDE DEF add
  <2>2. PICK f : Repeats(f, Memories, m, n, add)
    BY <1>1, <2>1, Recursion, Zenon
  <2>3. ASSUME NEW i \in 1 .. n PROVE f[i] = Added(f[i - 1], texts[i])
    <3>1. i - 1 \in 0 .. n /\ f[i - 1] \in Memories BY <1>1, <2>2 DEF Repeats
    <3> QED BY <2>2, <3>1 DEF add, Repeats
  <2>4. P(f) BY <1>1, <2>2, <2>3 DEF Repeats
  <2> QED BY <2>4
<1>4. P(CHOOSE g : P(g)) BY <1>3, Zenon
<1> DEFINE upTo == CHOOSE g : P(g)
           Names(i) == {Norm[texts[j]] : j \in 1 .. i} \ {Bad}
           Ok(i) == upTo[i] \in Memories /\ Elems(upTo[i].list) = Elems(m.list) \cup Names(i)
<1> HIDE DEF upTo
<1>5. P(upTo) /\ AllAdded(m, texts) = upTo[n] BY <1>2, <1>4 DEF upTo
<1>6. upTo[0] = m /\ \A i \in 1 .. n : upTo[i] = Added(upTo[i - 1], texts[i])
  <2>1. 0 \in 0 .. n /\ \A i \in 1 .. n : i \in 0 .. n /\ i # 0 BY <1>1
  <2>2. \A i \in 0 .. n : upTo[i] = IF i = 0 THEN m ELSE Added(upTo[i - 1], texts[i]) BY <1>5
  <2> QED BY <2>1, <2>2
<1>7. \A i \in 0 .. n : Ok(i)
  <2> DEFINE T == {i \in Nat : i <= n /\ ~Ok(i)}
  <2>1. SUFFICES ASSUME T # {} PROVE FALSE BY <1>1
  <2>2. 0 \notin T
    <3>1. Names(0) = {} OBVIOUS
    <3> QED BY <1>6, <3>1
  <2>3. PICK i \in T : i \in Nat \ {0} /\ i - 1 \in Nat /\ i - 1 \notin T
    <3> HIDE DEF T
    <3>1. T \in SUBSET Nat BY DEF T
    <3> QED BY <2>1, <2>2, <3>1, FirstFailure
  <2>4. i \in 1 .. n /\ Ok(i - 1) BY <1>1, <2>3
  <2>5. texts[i] \in Texts BY <1>1, <2>4
  <2>6. upTo[i] = Added(upTo[i - 1], texts[i]) BY <1>6, <2>4
  <2>7. /\ upTo[i] \in Memories
        /\ Elems(upTo[i].list) = Elems(upTo[i - 1].list) \cup ({Norm[texts[i]]} \ {Bad})
    <3>1. upTo[i - 1] \in Memories BY <2>4
    <3> QED BY <2>5, <2>6, <3>1, AddedMemory, Zenon
  <2>8. Names(i) = Names(i - 1) \cup ({Norm[texts[i]]} \ {Bad})
    <3>1. 1 .. i = (1 .. i - 1) \cup {i} BY <2>4
    <3> QED BY <3>1
  <2>9. Ok(i) BY <2>4, <2>7, <2>8
  <2> QED BY <2>3, <2>9
<1>8. Ok(n) BY <1>1, <1>7
<1>9. Names(n) = {Norm[t] : t \in Elems(texts)} \ {Bad} BY <1>1 DEF Elems
<1> QED BY <1>5, <1>8, <1>9

\* The list of a first start.
LEMMA NothingMemory == Nothing \in Memories /\ Elems(Nothing.list) = {}
<1>1. <<>> \in Seq(Domains) /\ Once(<<>>) BY DEF Once
<1>2. Nothing \in Memories BY <1>1, RebuiltMemory DEF Nothing
<1>3. Nothing.list = <<>> BY DEF Nothing
<1>4. Elems(<<>>) = {} BY DEF Elems
<1> QED BY <1>2, <1>3, <1>4

\* dnsd_block_load: a file that was written is read back whole.
LEMMA LoadedReadable ==
  ASSUME NEW l \in Seq(Domains)
  PROVE  /\ AllAdded(Nothing, l) \in Memories
         /\ Readable(AllAdded(Nothing, l).list) = Readable(l)
<1>1. l \in Seq(Texts) /\ Elems(l) \subseteq Domains
  <2>1. DOMAIN l = 1 .. Len(l) /\ \A i \in 1 .. Len(l) : l[i] \in Domains
    BY LenProperties, ElementOfSeq
  <2>2. Domains \subseteq Texts BY BlocklistAssumption
  <2>3. l \in Seq(Texts) BY <2>2, SeqDef
  <2> QED BY <2>1, <2>3 DEF Elems
<1>2. /\ AllAdded(Nothing, l) \in Memories
      /\ Elems(AllAdded(Nothing, l).list) = {Norm[t] : t \in Elems(l)} \ {Bad}
  BY <1>1, NothingMemory, AllAddedMemory
<1>3. \A d \in Domains : Norm[d] \in {d, Bad} /\ d # Bad BY BlocklistAssumption
<1> DEFINE E == Elems(l)
<1>4. {Norm[t] : t \in E} \ {Bad} = Readable(l)
  <2>1. Readable(l) = {d \in E : Norm[d] # Bad} BY DEF Readable
  <2>2. E \subseteq Domains BY <1>1
  <2> HIDE DEF E
  <2> QED BY <1>3, <2>1, <2>2
<1> QED BY <1>1, <1>2, <1>3, <1>4 DEF Readable

\* A list that names nothing twice is no longer than there are names.
LEMMA OnceLength ==
  ASSUME NEW l \in Seq(Domains), Once(l)
  PROVE  Len(l) <= Cardinality(Domains)
<1>1. Len(l) \in Nat /\ DOMAIN l = 1 .. Len(l) /\ \A i \in 1 .. Len(l) : l[i] \in Domains
  BY LenProperties, ElementOfSeq
<1>2. l \in Injection(1 .. Len(l), Domains)
  BY <1>1, LenProperties DEF Once, Injection, IsInjective
<1>3. IsFiniteSet(Domains) BY BlocklistAssumption
<1>4. Cardinality(1 .. Len(l)) <= Cardinality(Domains) BY <1>2, <1>3, FS_Injection
<1> QED BY <1>1, <1>4, NumbersTo

-----------------------------------------------------------------------------
(***************************************************************************)
(* The inductive invariant.                                                *)
(***************************************************************************)

Steps == {"ready", "open", "write", "close", "replace", "cut"}

Kinds ==
  /\ disk \in [Inodes -> Seq(Domains)] /\ path \in Inodes /\ tmp \in Inodes \cup {NoFile}
  /\ running \in BOOLEAN /\ clash \in BOOLEAN /\ lost \in BOOLEAN
  /\ pc \in [Handlers -> Steps]
  /\ at \in [Handlers -> Inodes \cup {NoFile}] /\ buffer \in [Handlers -> Seq(Domains)]
  /\ since \subseteq SUBSET Domains /\ calls \in 0 .. MaxCalls

Shape == Memory \in Memories

\* A handler has a file open exactly while it saves.
Opened == \A h \in Handlers : IF Saving(h) THEN at[h] \in Inodes ELSE at[h] = NoFile

Stopped == ~running => ~clash /\ \A h \in Handlers : pc[h] = "ready"

Apart == tmp # path

Listed == Readable(list) \in since

\* What a handler has written can be read back, and is the list if no other
\* handler is in a call.
Kept(h, l) ==
  /\ Readable(l) \in since
  /\ (\A g \in Handlers \ {h} : pc[g] = "ready") => Readable(l) = Readable(list)

\* Without an overlap one handler saves, to the file with the temporary name.
Alone ==
  ~clash => \A h \in Handlers : Saving(h) => at[h] = tmp /\ \A g \in Handlers \ {h} : ~Saving(g)

Written ==
  ~clash => \A h \in Handlers :
    /\ pc[h] \in {"write", "close"} => disk[tmp] = <<>>
    /\ pc[h] = "close" => Kept(h, buffer[h])
    /\ pc[h] = "replace" => Kept(h, disk[tmp])

IInv == Kinds /\ Shape /\ Opened /\ Stopped /\ Apart /\ Listed /\ Alone /\ Written /\ FileWhole

\* What is read back are names.
LEMMA NamesRead ==
  ASSUME NEW l \in Seq(Domains)
  PROVE  Readable(l) \in SUBSET Domains
<1>1. DOMAIN l = 1 .. Len(l) /\ \A i \in 1 .. Len(l) : l[i] \in Domains
  BY LenProperties, ElementOfSeq
<1> QED BY <1>1 DEF Readable, Elems

\* What the invariant says of the list and its index.
LEMMA MemoryTyped ==
  ASSUME Shape
  PROVE  list \in Seq(Domains) /\ Once(list) /\ IndexOf(index, list)
BY DEF Shape, Memory, Memories

\* There is always an inode for a new temporary file.
LEMMA InodeLeft ==
  ASSUME Kinds
  PROVE  Inodes \ ({path} \cup {at[g] : g \in Handlers}) # {}
<1> DEFINE A == {at[g] : g \in Handlers}
           N == Cardinality(Handlers)
           B == {path} \cup A
<1>1. IsFiniteSet(Handlers) BY BlocklistAssumption
<1>2. N \in Nat BY <1>1, FS_CardinalityType
<1>3. IsFiniteSet(A) /\ Cardinality(A) <= N
  <2>1. at \in [Handlers -> A] /\ at \in Surjection(Handlers, A)
    BY DEF Kinds, Surjection
  <2> HIDE DEF A
  <2> QED BY <1>1, <2>1, FS_Surjection
<1>4. IsFiniteSet(B) /\ Cardinality(B) <= N + 1
  <2>1. IsFiniteSet(A \cup {path}) /\ Cardinality(A \cup {path}) \in {Cardinality(A), Cardinality(A) + 1}
    <3> HIDE DEF A
    <3>1. Cardinality(A) \in Nat BY <1>3, FS_CardinalityType
    <3> QED BY <1>3, <3>1, FS_AddElement
  <2>2. B = A \cup {path} OBVIOUS
  <2> HIDE DEF A, B, N
  <2>3. Cardinality(A) \in Nat BY <1>3, FS_CardinalityType
  <2> QED BY <1>2, <1>3, <2>1, <2>2, <2>3
<1>5. IsFiniteSet(Inodes) /\ Cardinality(Inodes) = N + 2
  <2> HIDE DEF N
  <2>1. N + 2 \in Nat BY <1>2
  <2>2. Inodes = 1 .. N + 2 BY DEF Inodes, N
  <2> QED BY <2>1, <2>2, NumbersTo
<1>6. ~(Inodes \subseteq B)
  <2> HIDE DEF A, B, N
  <2>1. SUFFICES ASSUME Inodes \subseteq B PROVE FALSE OBVIOUS
  <2>2. Cardinality(Inodes) <= Cardinality(B) BY <1>4, <2>1, FS_Subset
  <2>3. Cardinality(B) \in Nat BY <1>4, FS_CardinalityType
  <2> QED BY <1>2, <1>4, <1>5, <2>2, <2>3
<1> QED BY <1>6

\* A save never opens the file itself.
LEMMA TargetIs ==
  ASSUME Kinds, Apart, NEW h \in Handlers
  PROVE  Target(h) \in Inodes /\ Target(h) # path
<1> DEFINE free == Inodes \ ({path} \cup {at[g] : g \in Handlers})
<1>1. free # {} BY InodeLeft
<1>2. free \in SUBSET Nat BY DEF Inodes
<1>3. Least(free) \in free
  <2> HIDE DEF free
  <2> QED BY <1>1, <1>2, LeastIs
<1>4. Target(h) = IF tmp # NoFile THEN tmp ELSE Least(free) BY DEF Target
<1> HIDE DEF free
<1>5. CASE tmp # NoFile BY <1>4, <1>5 DEF Kinds, Apart
<1>6. CASE tmp = NoFile
  <2>1. Target(h) \in free BY <1>3, <1>4, <1>6
  <2> QED BY <2>1 DEF free
<1> QED BY <1>5, <1>6

\* Whatever made a handler return: if no overlap goes on, nobody saves.
LEMMA Returned ==
  ASSUME IInv, NEW h \in Handlers, NEW from, NEW ok \in BOOLEAN,
         Step(h, from, "ready"), Return(h, ok), UNCHANGED <<list, running>>,
         ok => from = "replace" /\ path' = tmp /\ disk'[path'] = disk[tmp]
  PROVE  Opened' /\ Stopped' /\ Listed' /\ Alone' /\ Written' /\ FileWhole'
<1>1. /\ pc \in [Handlers -> Steps] /\ at \in [Handlers -> Inodes \cup {NoFile}]
      /\ running /\ running' /\ pc[h] = from /\ pc'[h] = "ready"
      /\ at'[h] = NoFile /\ \A g \in Handlers \ {h} : pc'[g] = pc[g] /\ at'[g] = at[g]
  BY DEF IInv, Kinds, Step, Return
<1>2. Opened' BY <1>1 DEF IInv, Opened, Saving
<1>3. Stopped' BY <1>1 DEF Stopped
<1>4. Listed' BY DEF IInv, Listed, Return, Readable, Elems
<1>5. ASSUME ~clash' PROVE \A g \in Handlers : ~Saving(g)'
  <2>1. CASE \E g \in Handlers \ {h} : Saving(g)
    <3>1. ~clash /\ ok BY <1>5, <2>1 DEF Return
    <3>2. Saving(h) BY <1>1, <3>1 DEF Saving
    <3> QED BY <2>1, <3>1, <3>2 DEF IInv, Alone
  <2>2. CASE ~\E g \in Handlers \ {h} : Saving(g)
    BY <1>1, <2>2 DEF Saving
  <2> QED BY <2>1, <2>2
<1>6. Alone' /\ Written' BY <1>5 DEF Alone, Written, Saving
<1>7. FileWhole'
  <2>1. SUFFICES ASSUME ~lost' PROVE Readable(disk'[path']) \in since' BY DEF FileWhole, Readable, Elems
  <2>2. ~clash /\ ok BY <2>1 DEF Return
  <2>3. Kept(h, disk[tmp]) BY <1>1, <2>2 DEF IInv, Written
  <2>4. CASE \A g \in Handlers : pc'[g] = "ready"
    <3>1. Readable(disk[tmp]) = Readable(list) BY <1>1, <2>3, <2>4 DEF Kept
    <3> QED BY <2>2, <2>4, <3>1 DEF Return
  <2>5. CASE ~\A g \in Handlers : pc'[g] = "ready"
    BY <2>2, <2>3, <2>5 DEF Return, Kept
  <2> QED BY <2>4, <2>5
<1> QED BY <1>2, <1>3, <1>4, <1>6, <1>7

\* Nothing is listed, written or open at first.
LEMMA Initially == Init => IInv
<1> SUFFICES ASSUME Init PROVE IInv OBVIOUS
<1>1. Memory = Nothing BY DEF Init, Memory, Nothing
<1>2. Shape BY <1>1, NothingMemory DEF Shape
<1>3. IsFiniteSet(Handlers) /\ MaxCalls \in Nat /\ NoFile \notin Inodes BY BlocklistAssumption
<1>4. 1 \in Inodes
  <2>1. Cardinality(Handlers) \in Nat BY <1>3, FS_CardinalityType
  <2> QED BY <2>1 DEF Inodes
<1>5. <<>> \in Seq(Domains) OBVIOUS
<1>6. Kinds
  <2>1. disk \in [Inodes -> Seq(Domains)] /\ buffer \in [Handlers -> Seq(Domains)]
    BY <1>5 DEF Init
  <2>2. since \subseteq SUBSET Domains BY DEF Init
  <2>3. calls \in 0 .. MaxCalls BY <1>3 DEF Init
  <2>4. pc \in [Handlers -> Steps] /\ at \in [Handlers -> Inodes \cup {NoFile}] BY DEF Init, Steps
  <2> QED BY <1>4, <2>1, <2>2, <2>3, <2>4 DEF Init, Kinds
<1>7. Readable(<<>>) = {} BY DEF Readable, Elems
<1>8. Opened /\ Stopped /\ Apart /\ Listed /\ Alone /\ Written /\ FileWhole
  BY <1>3, <1>4, <1>7
  DEF Init, Opened, Stopped, Apart, Listed, Alone, Written, FileWhole, Saving
<1> QED BY <1>2, <1>6, <1>8 DEF IInv

\* A call that changes the list: the others go on with what they have.
LEMMA Changed ==
  ASSUME IInv, NEW h \in Handlers, NEW m \in Memories, Change(h, m)
  PROVE  IInv'
<1>1. Shape'
  <2>1. [list |-> m.list, index |-> m.index] = m BY DEF Memories
  <2> QED BY <2>1 DEF Change, Shape, Memory
<1>2. Readable(list)' = Readable(m.list) BY DEF Change, Readable, Elems
<1>3. m.list \in Seq(Domains) BY DEF Memories
<1>4. Kinds'
  <2>1. Readable(m.list) \in SUBSET Domains BY <1>3, NamesRead
  <2>2. calls' \in 0 .. MaxCalls BY BlocklistAssumption DEF IInv, Kinds, Change
  <2> QED BY <2>1, <2>2 DEF IInv, Kinds, Change, Step, Steps, files
<1>5. /\ pc \in [Handlers -> Steps] /\ pc[h] = "ready" /\ pc'[h] = "open"
      /\ \A g \in Handlers \ {h} : pc'[g] = pc[g]
  BY DEF IInv, Kinds, Change, Step
<1>6. Opened' BY <1>5 DEF IInv, Opened, Change, Saving
<1>7. Stopped' /\ Apart' BY DEF IInv, Stopped, Apart, Change, Step, files
<1>8. Listed' BY <1>2 DEF Listed, Change
<1>9. Alone' BY <1>5 DEF IInv, Alone, Change, Saving, files
<1>10. Written'
  <2>1. ASSUME NEW g \in Handlers \ {h}, NEW l \in Seq(Domains), Kept(g, l) PROVE Kept(g, l)'
    <3>1. Readable(l)' = Readable(l) BY DEF Readable, Elems
    <3>2. Readable(l) \in since' BY <2>1 DEF Kept, Change
    <3>3. h \in Handlers \ {g} BY <2>1
    <3> QED BY <1>5, <3>1, <3>2, <3>3 DEF Kept
  <2>2. SUFFICES ASSUME ~clash', NEW g \in Handlers
                 PROVE  /\ pc'[g] \in {"write", "close"} => disk'[tmp'] = <<>>
                        /\ pc'[g] = "close" => Kept(g, buffer[g])'
                        /\ pc'[g] = "replace" => Kept(g, disk[tmp])'
    BY DEF Written
  <2>3. CASE g = h BY <1>5, <2>3
  <2>4. CASE g # h
    <3>1. /\ ~clash /\ pc'[g] = pc[g] /\ buffer' = buffer /\ disk' = disk /\ tmp' = tmp
      BY <1>5, <2>2, <2>4 DEF Change, files
    <3>2. pc[g] \in {"write", "close"} => disk[tmp] = <<>> BY <3>1 DEF IInv, Written
    <3>3. ASSUME pc[g] = "close" PROVE Kept(g, buffer[g])'
      <4>1. buffer[g] \in Seq(Domains) /\ Kept(g, buffer[g]) BY <3>1, <3>3 DEF IInv, Kinds, Written
      <4>2. (buffer[g])' = buffer[g] BY <3>1
      <4> QED BY <2>1, <2>4, <4>1, <4>2 DEF Kept, Readable, Elems
    <3>4. ASSUME pc[g] = "replace" PROVE Kept(g, disk[tmp])'
      <4>1. Saving(g) BY <3>4 DEF Saving
      <4>2. tmp \in Inodes BY <3>1, <4>1 DEF IInv, Alone, Opened
      <4>3. disk[tmp] \in Seq(Domains) /\ Kept(g, disk[tmp]) BY <3>1, <3>4, <4>2 DEF IInv, Kinds, Written
      <4>4. (disk[tmp])' = disk[tmp] BY <3>1
      <4> QED BY <2>1, <2>4, <4>3, <4>4 DEF Kept, Readable, Elems
    <3> QED BY <3>1, <3>2, <3>3, <3>4
  <2> QED BY <2>3, <2>4
<1>11. FileWhole' BY DEF IInv, FileWhole, Change, files, Readable, Elems
<1> QED BY <1>1, <1>4, <1>6, <1>7, <1>8, <1>9, <1>10, <1>11 DEF IInv

\* The three calls.
LEMMA Called ==
  ASSUME IInv, NEW h \in Handlers, Call(h)
  PROVE  IInv'
<1>1. Memory \in Memories BY DEF IInv, Shape
<1>2. CASE \E text \in Texts : BlockAdd(h, text)
  <2>1. PICK text \in Texts : Change(h, Added(Memory, text)) BY <1>2 DEF BlockAdd
  <2>2. Added(Memory, text) \in Memories BY <1>1, AddedMemory
  <2> QED BY <2>1, <2>2, Changed
<1>3. CASE \E text \in Texts : BlockRemove(h, text)
  <2>1. PICK text \in Texts : Change(h, Removed(Memory, text)) BY <1>3 DEF BlockRemove
  <2>2. Removed(Memory, text) \in Memories BY <1>1, RemovedMemory
  <2> QED BY <2>1, <2>2, Changed
<1>4. CASE \E texts \in Imports : BlockImport(h, texts)
  <2>1. PICK texts \in Imports : Change(h, AllAdded(Memory, texts)) BY <1>4 DEF BlockImport
  <2>2. texts \in Seq(Texts) BY BlocklistAssumption
  <2>3. AllAdded(Memory, texts) \in Memories BY <1>1, <2>2, AllAddedMemory
  <2> QED BY <2>1, <2>3, Changed
<1> QED BY <1>2, <1>3, <1>4 DEF Call

\* fopen_s: the file is empty, and overlaps are noted.
LEMMA OpenKept ==
  ASSUME IInv, NEW h \in Handlers, SaveOpen(h)
  PROVE  IInv'
<1> DEFINE t == Target(h)
<1>1. t \in Inodes /\ t # path BY TargetIs DEF IInv
<1> HIDE DEF t
<1>2. /\ running /\ running' /\ pc[h] = "open" /\ pc' = [pc EXCEPT ![h] = "write"]
      /\ at' = [at EXCEPT ![h] = t] /\ disk' = [disk EXCEPT ![t] = <<>>] /\ tmp' = t
      /\ clash' = (clash \/ \E g \in Handlers : Saving(g))
      /\ UNCHANGED <<list, index, path, buffer, lost, since, calls>>
  BY <1>1 DEF SaveOpen, Step, t, mem
<1>3. /\ disk \in [Inodes -> Seq(Domains)] /\ pc \in [Handlers -> Steps]
      /\ at \in [Handlers -> Inodes \cup {NoFile}]
  BY DEF IInv, Kinds
<1>4. /\ pc'[h] = "write" /\ at'[h] = t /\ disk'[t] = <<>> /\ disk'[path] = disk[path]
      /\ \A g \in Handlers \ {h} : pc'[g] = pc[g] /\ at'[g] = at[g]
  BY <1>1, <1>2, <1>3 DEF IInv, Kinds
<1>5. Kinds'
  <2>1. <<>> \in Seq(Domains) OBVIOUS
  <2>2. disk' \in [Inodes -> Seq(Domains)] BY <1>2, <1>3, <2>1
  <2>3. pc' \in [Handlers -> Steps] BY <1>2, <1>3 DEF Steps
  <2>4. at' \in [Handlers -> Inodes \cup {NoFile}] BY <1>1, <1>2, <1>3
  <2>5. clash' \in BOOLEAN BY <1>2 DEF IInv, Kinds, Saving
  <2> QED BY <1>1, <1>2, <2>2, <2>3, <2>4, <2>5 DEF IInv, Kinds
<1>6. Shape' /\ Listed' BY <1>2 DEF IInv, Shape, Listed, Memory, Readable, Elems
<1>7. Opened' BY <1>1, <1>4 DEF IInv, Opened, Saving
<1>8. Stopped' /\ Apart' BY <1>1, <1>2 DEF Stopped, Apart
<1>9. Alone' BY <1>2, <1>4 DEF Alone, Saving
<1>10. Written'
  <2>1. SUFFICES ASSUME ~clash', NEW g \in Handlers
                 PROVE  /\ pc'[g] \in {"write", "close"} => disk'[tmp'] = <<>>
                        /\ pc'[g] = "close" => Kept(g, buffer[g])'
                        /\ pc'[g] = "replace" => Kept(g, disk[tmp])'
    BY DEF Written
  <2>2. CASE g = h BY <1>2, <1>4, <2>2
  <2>3. CASE g # h
    <3>1. pc'[g] = pc[g] /\ ~Saving(g) BY <1>2, <1>4, <2>1, <2>3
    <3> QED BY <3>1 DEF Saving
  <2> QED BY <2>2, <2>3
<1>11. FileWhole'
  <2>1. disk'[path'] = disk[path] /\ (~clash' => ~clash) BY <1>2, <1>4
  <2>2. Readable(disk[path])' = Readable(disk[path]) BY <2>1 DEF Readable, Elems
  <2> QED BY <1>2, <2>1, <2>2 DEF IInv, FileWhole
<1> QED BY <1>5, <1>6, <1>7, <1>8, <1>9, <1>10, <1>11 DEF IInv

\* dnsd_block_each: the buffer is the list.
LEMMA WriteKept ==
  ASSUME IInv, NEW h \in Handlers, SaveWrite(h)
  PROVE  IInv'
<1>1. /\ running /\ running' /\ pc[h] = "write" /\ pc' = [pc EXCEPT ![h] = "close"]
      /\ buffer' = [buffer EXCEPT ![h] = list]
      /\ UNCHANGED <<list, index, disk, path, tmp, at, clash, lost, since, calls>>
  BY DEF SaveWrite, Step, mem, files, ghost
<1>2. /\ pc \in [Handlers -> Steps] /\ buffer \in [Handlers -> Seq(Domains)]
      /\ list \in Seq(Domains)
  BY MemoryTyped DEF IInv, Kinds
<1>3. /\ pc'[h] = "close" /\ buffer'[h] = list
      /\ \A g \in Handlers \ {h} : pc'[g] = pc[g] /\ buffer'[g] = buffer[g]
  BY <1>1, <1>2
<1>4. Kinds'
  <2>1. pc' \in [Handlers -> Steps] BY <1>1, <1>2 DEF Steps
  <2>2. buffer' \in [Handlers -> Seq(Domains)] BY <1>1, <1>2
  <2> QED BY <1>1, <2>1, <2>2 DEF IInv, Kinds
<1>5. Shape' /\ Listed' /\ FileWhole'
  BY <1>1 DEF IInv, Shape, Listed, FileWhole, Memory, Readable, Elems
<1>6. Opened' BY <1>1, <1>3 DEF IInv, Opened, Saving
<1>7. Stopped' /\ Apart' BY <1>1 DEF IInv, Stopped, Apart
<1>8. Alone' BY <1>1, <1>3 DEF IInv, Alone, Saving
<1>9. Written'
  <2>1. SUFFICES ASSUME ~clash', NEW g \in Handlers
                 PROVE  /\ pc'[g] \in {"write", "close"} => disk'[tmp'] = <<>>
                        /\ pc'[g] = "close" => Kept(g, buffer[g])'
                        /\ pc'[g] = "replace" => Kept(g, disk[tmp])'
    BY DEF Written
  <2>2. CASE g = h
    <3>1. disk[tmp] = <<>> BY <1>1, <2>1 DEF IInv, Written
    <3>2. Kept(h, buffer[h])'
      <4>1. Readable(list) \in since BY DEF IInv, Listed
      <4> QED BY <1>1, <1>3, <4>1 DEF Kept, Readable, Elems
    <3> QED BY <1>1, <1>3, <2>2, <3>1, <3>2
  <2>3. CASE g # h
    <3>1. pc'[g] = pc[g] BY <1>3, <2>3
    <3>2. ~Saving(g) BY <1>1, <2>1, <2>3 DEF IInv, Alone, Saving
    <3> QED BY <3>1, <3>2 DEF Saving
  <2> QED BY <2>2, <2>3
<1> QED BY <1>4, <1>5, <1>6, <1>7, <1>8, <1>9 DEF IInv

\* What is written over an empty file is the file.
LEMMA OverNothing ==
  ASSUME NEW l \in Seq(Domains)
  PROVE  Over(l, <<>>) = l
<1>1. Len(l) \in Nat /\ Len(l) + 1 \in Nat /\ Len(<<>>) = 0 BY LenProperties
<1>2. SubSeq(<<>>, Len(l) + 1, Len(<<>>)) = <<>> BY <1>1
<1>3. l \o <<>> = l BY ConcatEmptySeq
<1> QED BY <1>2, <1>3 DEF Over

\* What is in a file are names, also when two handlers wrote it.
LEMMA OverTyped ==
  ASSUME NEW new \in Seq(Domains), NEW old \in Seq(Domains)
  PROVE  Over(new, old) \in Seq(Domains)
<1>1. Len(new) + 1 \in 1 .. Len(old) + 1 \/ Len(new) >= Len(old) + 1 BY LenProperties
<1>2. SubSeq(old, Len(new) + 1, Len(old)) \in Seq(Domains)
  <2>1. Len(new) \in Nat /\ Len(old) \in Nat BY LenProperties
  <2>2. \A k \in 1 .. Len(old) : old[k] \in Domains BY ElementOfSeq
  <2> QED BY <2>1, <2>2
<1> QED BY <1>2, ConcatProperties DEF Over

\* The buffer goes to the file, which is empty unless saves overlapped.
LEMMA CloseKept ==
  ASSUME IInv, NEW h \in Handlers, SaveClose(h)
  PROVE  IInv'
<1> DEFINE t == at[h]
           text == Over(buffer[h], disk[t])
<1>1. /\ running /\ running' /\ pc[h] = "close" /\ pc' = [pc EXCEPT ![h] = "replace"]
      /\ disk' = [disk EXCEPT ![t] = text]
      /\ UNCHANGED <<list, index, path, tmp, at, buffer, clash, lost, since, calls>>
  BY DEF SaveClose, Step, mem, ghost
<1>2. /\ pc \in [Handlers -> Steps] /\ buffer \in [Handlers -> Seq(Domains)]
      /\ disk \in [Inodes -> Seq(Domains)]
  BY DEF IInv, Kinds
<1>3. t \in Inodes BY <1>1 DEF IInv, Opened, Saving
<1>4. text \in Seq(Domains) BY <1>2, <1>3, OverTyped
<1>5. ~clash => t = tmp /\ t # path /\ text = buffer[h]
  <2>1. SUFFICES ASSUME ~clash PROVE t = tmp /\ t # path /\ text = buffer[h] OBVIOUS
  <2>2. t = tmp /\ t # path BY <1>1, <2>1 DEF IInv, Alone, Apart, Saving
  <2>3. disk[t] = <<>> BY <1>1, <2>1, <2>2 DEF IInv, Written
  <2> QED BY <1>2, <2>2, <2>3, OverNothing
<1> HIDE DEF t, text
<1>6. /\ pc'[h] = "replace" /\ disk'[t] = text
      /\ \A g \in Handlers \ {h} : pc'[g] = pc[g]
  BY <1>1, <1>2, <1>3
<1>7. Kinds'
  <2>1. pc' \in [Handlers -> Steps] BY <1>1, <1>2 DEF Steps
  <2>2. disk' \in [Inodes -> Seq(Domains)] BY <1>1, <1>2, <1>4
  <2> QED BY <1>1, <2>1, <2>2 DEF IInv, Kinds
<1>8. Shape' /\ Listed' BY <1>1 DEF IInv, Shape, Listed, Memory, Readable, Elems
<1>9. Opened' BY <1>1, <1>6 DEF IInv, Opened, Saving
<1>10. Stopped' /\ Apart' BY <1>1 DEF IInv, Stopped, Apart
<1>11. Alone' BY <1>1, <1>6 DEF IInv, Alone, Saving
<1>12. Written'
  <2>1. SUFFICES ASSUME ~clash', NEW g \in Handlers
                 PROVE  /\ pc'[g] \in {"write", "close"} => disk'[tmp'] = <<>>
                        /\ pc'[g] = "close" => Kept(g, buffer[g])'
                        /\ pc'[g] = "replace" => Kept(g, disk[tmp])'
    BY DEF Written
  <2>2. CASE g = h
    <3>1. disk'[tmp'] = buffer[h] BY <1>1, <1>5, <1>6, <2>1
    <3>2. Kept(h, buffer[h]) BY <1>1, <2>1 DEF IInv, Written
    <3>3. Kept(h, disk[tmp])' BY <1>1, <1>6, <3>1, <3>2 DEF Kept, Readable, Elems
    <3> QED BY <1>6, <2>2, <3>3
  <2>3. CASE g # h
    <3>1. pc'[g] = pc[g] BY <1>6, <2>3
    <3>2. ~Saving(g) BY <1>1, <2>1, <2>3 DEF IInv, Alone, Saving
    <3> QED BY <3>1, <3>2 DEF Saving
  <2> QED BY <2>2, <2>3
<1>13. FileWhole'
  <2>1. SUFFICES ASSUME ~lost', ~clash' PROVE Readable(disk'[path']) \in since'
    BY DEF FileWhole, Readable, Elems
  <2>2. disk'[path'] = disk[path] BY <1>1, <1>2, <1>5, <2>1 DEF IInv, Kinds
  <2> QED BY <1>1, <2>1, <2>2 DEF IInv, FileWhole
<1> QED BY <1>7, <1>8, <1>9, <1>10, <1>11, <1>12, <1>13 DEF IInv

\* A full disk takes a part of the buffer, which no invariant speaks of.
LEMMA CutKept ==
  ASSUME IInv, NEW h \in Handlers, SaveCut(h)
  PROVE  IInv'
<1>1. PICK n \in 0 .. Len(buffer[h]) - 1 :
        disk' = [disk EXCEPT ![at[h]] = Over(SubSeq(buffer[h], 1, n), @)]
  BY DEF SaveCut
<1> DEFINE t == at[h]
           text == Over(SubSeq(buffer[h], 1, n), disk[t])
<1>2. /\ running /\ running' /\ pc[h] = "close" /\ pc' = [pc EXCEPT ![h] = "cut"]
      /\ disk' = [disk EXCEPT ![t] = text]
      /\ UNCHANGED <<list, index, path, tmp, at, buffer, clash, lost, since, calls>>
  BY <1>1 DEF SaveCut, Step, mem, ghost
<1>3. /\ pc \in [Handlers -> Steps] /\ buffer \in [Handlers -> Seq(Domains)]
      /\ disk \in [Inodes -> Seq(Domains)]
  BY DEF IInv, Kinds
<1>4. t \in Inodes BY <1>2 DEF IInv, Opened, Saving
<1>5. SubSeq(buffer[h], 1, n) \in Seq(Domains)
  <2>1. buffer[h] \in Seq(Domains) /\ Len(buffer[h]) \in Nat BY <1>3, LenProperties
  <2>2. \A k \in 1 .. Len(buffer[h]) : buffer[h][k] \in Domains BY <2>1, ElementOfSeq
  <2> QED BY <2>1, <2>2
<1>6. text \in Seq(Domains) BY <1>3, <1>4, <1>5, OverTyped
<1>7. ~clash => t = tmp /\ t # path BY <1>2 DEF IInv, Alone, Apart, Saving
<1> HIDE DEF t, text
<1>8. pc'[h] = "cut" /\ \A g \in Handlers \ {h} : pc'[g] = pc[g] BY <1>2, <1>3
<1>9. Kinds'
  <2>1. pc' \in [Handlers -> Steps] BY <1>2, <1>3 DEF Steps
  <2>2. disk' \in [Inodes -> Seq(Domains)] BY <1>2, <1>3, <1>6
  <2> QED BY <1>2, <2>1, <2>2 DEF IInv, Kinds
<1>10. Shape' /\ Listed' BY <1>2 DEF IInv, Shape, Listed, Memory, Readable, Elems
<1>11. Opened' BY <1>2, <1>8 DEF IInv, Opened, Saving
<1>12. Stopped' /\ Apart' BY <1>2 DEF IInv, Stopped, Apart
<1>13. Alone' BY <1>2, <1>8 DEF IInv, Alone, Saving
<1>14. Written'
  <2>1. SUFFICES ASSUME ~clash', NEW g \in Handlers
                 PROVE  pc'[g] \notin {"write", "close", "replace"}
    BY DEF Written
  <2>2. CASE g = h BY <1>8, <2>2
  <2>3. CASE g # h
    <3>1. pc'[g] = pc[g] BY <1>8, <2>3
    <3>2. ~Saving(g) BY <1>2, <2>1, <2>3 DEF IInv, Alone, Saving
    <3> QED BY <3>1, <3>2 DEF Saving
  <2> QED BY <2>2, <2>3
<1>15. FileWhole'
  <2>1. SUFFICES ASSUME ~lost', ~clash' PROVE Readable(disk'[path']) \in since'
    BY DEF FileWhole, Readable, Elems
  <2>2. disk'[path'] = disk[path] BY <1>2, <1>3, <1>7, <2>1 DEF IInv, Kinds
  <2> QED BY <1>2, <2>1, <2>2 DEF IInv, FileWhole
<1> QED BY <1>9, <1>10, <1>11, <1>12, <1>13, <1>14, <1>15 DEF IInv

\* The types after a save that ended.
LEMMA ReturnTyped ==
  ASSUME IInv, NEW h \in Handlers, NEW from, NEW ok \in BOOLEAN,
         Step(h, from, "ready"), Return(h, ok), UNCHANGED <<mem, running, calls>>,
         disk' \in [Inodes -> Seq(Domains)], path' \in Inodes, tmp' \in Inodes \cup {NoFile}
  PROVE  Kinds' /\ Shape'
<1>1. pc' \in [Handlers -> Steps] BY DEF IInv, Kinds, Step, Steps
<1>2. at' \in [Handlers -> Inodes \cup {NoFile}] BY DEF IInv, Kinds, Return
<1>3. buffer' \in [Handlers -> Seq(Domains)]
  <2>1. <<>> \in Seq(Domains) OBVIOUS
  <2> QED BY <2>1 DEF IInv, Kinds, Return
<1>4. clash' \in BOOLEAN /\ lost' \in BOOLEAN BY DEF IInv, Kinds, Return, Saving
<1>5. since' \subseteq SUBSET Domains
  <2>1. Readable(list) \in SUBSET Domains BY MemoryTyped, NamesRead DEF IInv
  <2> QED BY <2>1 DEF IInv, Kinds, Return
<1>6. Kinds' BY <1>1, <1>2, <1>3, <1>4, <1>5 DEF IInv, Kinds
<1>7. Shape' BY DEF IInv, Shape, Memory, mem
<1> QED BY <1>6, <1>7

\* A save that is refused, or fails at its end.
LEMMA Failed ==
  ASSUME IInv, NEW h \in Handlers, NEW from, Step(h, from, "ready"), Return(h, FALSE),
         UNCHANGED <<mem, files, running, calls>>
  PROVE  IInv'
<1>1. UNCHANGED <<list, running>> /\ UNCHANGED <<mem, running, calls>> BY DEF mem
<1>2. Opened' /\ Stopped' /\ Listed' /\ Alone' /\ Written' /\ FileWhole'
  BY <1>1, Returned
<1>3. /\ disk' \in [Inodes -> Seq(Domains)] /\ path' \in Inodes /\ tmp' \in Inodes \cup {NoFile}
      /\ Apart'
  BY DEF IInv, Kinds, files, Apart
<1>4. Kinds' /\ Shape' BY <1>1, <1>3, ReturnTyped
<1> QED BY <1>2, <1>3, <1>4 DEF IInv

\* The file that has the name keeps what is in it.
LEMMA LeftTyped ==
  ASSUME Kinds, disk' = Left(disk)
  PROVE  /\ disk' \in [Inodes -> Seq(Domains)]
         /\ path' \in Inodes => disk'[path'] = disk[path']
<1>1. <<>> \in Seq(Domains) OBVIOUS
<1> QED BY <1>1 DEF Kinds, Left

\* plat_replace_file.
LEMMA ReplaceKept ==
  ASSUME IInv, NEW h \in Handlers, SaveReplace(h)
  PROVE  IInv'
<1>0. PICK from \in {"replace", "cut"} :
        Step(h, from, "ready") /\ Return(h, tmp # NoFile /\ from = "replace")
  BY DEF SaveReplace
<1> DEFINE ok == tmp # NoFile /\ from = "replace"
<1>1. /\ Step(h, from, "ready") /\ Return(h, ok) /\ UNCHANGED <<mem, running, calls>>
      /\ UNCHANGED <<list, running>> /\ ok \in BOOLEAN
      /\ path' = (IF tmp # NoFile THEN tmp ELSE path) /\ tmp' = NoFile
      /\ disk' = Left(disk)
  BY <1>0 DEF SaveReplace, mem
<1>2. NoFile \notin Inodes BY BlocklistAssumption
<1>3. path' \in Inodes /\ tmp' \in Inodes \cup {NoFile} /\ Apart'
  BY <1>1, <1>2 DEF IInv, Kinds, Apart
<1>4. disk' \in [Inodes -> Seq(Domains)] /\ disk'[path'] = disk[path']
  BY <1>1, <1>3, LeftTyped DEF IInv
<1>5. ok => from = "replace" /\ path' = tmp /\ disk'[path'] = disk[tmp] BY <1>1, <1>4
<1> HIDE DEF ok
<1>6. Kinds' /\ Shape' BY <1>1, <1>3, <1>4, ReturnTyped
<1>7. Opened' /\ Stopped' /\ Listed' /\ Alone' /\ Written' /\ FileWhole'
  BY <1>1, <1>5, Returned
<1> QED BY <1>3, <1>6, <1>7 DEF IInv

\* A crash leaves the file as it was.
LEMMA Crashed ==
  ASSUME IInv, Crash
  PROVE  IInv'
<1>1. /\ ~running' /\ pc' = [h \in Handlers |-> "ready"] /\ at' = [h \in Handlers |-> NoFile]
      /\ buffer' = [h \in Handlers |-> <<>>] /\ lost' = (lost \/ clash) /\ ~clash'
      /\ UNCHANGED <<list, index, path, tmp, since, calls>> /\ disk' = Left(disk)
      /\ running' \in BOOLEAN /\ clash' \in BOOLEAN
  BY DEF Crash, mem
<1>2. path' \in Inodes BY <1>1 DEF IInv, Kinds
<1>3. disk' \in [Inodes -> Seq(Domains)] /\ disk'[path'] = disk[path]
  BY <1>1, <1>2, LeftTyped DEF IInv
<1>4. Kinds'
  <2>1. <<>> \in Seq(Domains) OBVIOUS
  <2>2. buffer' \in [Handlers -> Seq(Domains)] BY <1>1, <2>1
  <2>3. pc' \in [Handlers -> Steps] BY <1>1 DEF Steps
  <2>4. at' \in [Handlers -> Inodes \cup {NoFile}] BY <1>1
  <2> QED BY <1>1, <1>3, <2>2, <2>3, <2>4 DEF IInv, Kinds
<1>5. Shape' /\ Listed' BY <1>1 DEF IInv, Shape, Listed, Memory, Readable, Elems
<1>6. \A h \in Handlers : pc'[h] = "ready" /\ at'[h] = NoFile /\ ~Saving(h)'
  BY <1>1 DEF Saving
<1>7. Opened' /\ Stopped' /\ Alone' /\ Written'
  BY <1>1, <1>6 DEF Opened, Stopped, Alone, Written, Saving
<1>8. Apart' BY <1>1 DEF IInv, Apart
<1>9. FileWhole'
  <2>1. Readable(disk[path])' = Readable(disk[path]) BY <1>3 DEF Readable, Elems
  <2> QED BY <1>1, <1>3, <2>1 DEF IInv, FileWhole
<1> QED BY <1>4, <1>5, <1>7, <1>8, <1>9 DEF IInv

\* A start reads back what the file has.
LEMMA Loaded ==
  ASSUME IInv, Load
  PROVE  IInv'
<1> DEFINE m == AllAdded(Nothing, disk[path])
<1>1. disk[path] \in Seq(Domains) BY DEF IInv, Kinds
<1>2. m \in Memories /\ Readable(m.list) = Readable(disk[path]) BY <1>1, LoadedReadable
<1> HIDE DEF m
<1>3. /\ ~running /\ running' = TRUE /\ list' = m.list /\ index' = m.index
      /\ since' = {Readable(m.list)} /\ lost' = FALSE
      /\ UNCHANGED <<disk, path, tmp, pc, at, buffer, clash, calls>>
  BY DEF Load, m, files, saves
<1>4. Shape'
  <2>1. [list |-> m.list, index |-> m.index] = m BY <1>2 DEF Memories
  <2> QED BY <1>2, <1>3, <2>1 DEF Shape, Memory
<1>5. m.list \in Seq(Domains) BY <1>2 DEF Memories
<1>6. Kinds'
  <2>1. Readable(m.list) \in SUBSET Domains BY <1>5, NamesRead
  <2>2. running' \in BOOLEAN /\ lost' \in BOOLEAN BY <1>3
  <2> QED BY <1>3, <2>1, <2>2 DEF IInv, Kinds
<1>7. Listed' BY <1>3 DEF Listed, Readable, Elems
<1>8. Opened' /\ Apart' BY <1>3 DEF IInv, Opened, Apart, Saving
<1>9. ~clash /\ \A h \in Handlers : pc[h] = "ready" BY <1>3 DEF IInv, Stopped
<1>10. Stopped' /\ Alone' /\ Written'
  BY <1>3, <1>9 DEF Stopped, Alone, Written, Saving
<1>11. FileWhole'
  <2>1. Readable(disk[path])' = Readable(disk[path]) BY <1>3 DEF Readable, Elems
  <2> QED BY <1>2, <1>3, <2>1 DEF FileWhole
<1> QED BY <1>4, <1>6, <1>7, <1>8, <1>10, <1>11 DEF IInv

\* Steps of nobody.
LEMMA Stutters ==
  ASSUME IInv, UNCHANGED vars
  PROVE  IInv'
<1>1. UNCHANGED <<list, index, disk, path, tmp, running, pc, at, buffer, clash, lost, since, calls>>
  BY DEF vars, mem, files, saves, ghost
<1>2. Kinds' /\ Shape' /\ Opened' /\ Stopped' /\ Apart'
  BY <1>1 DEF IInv, Kinds, Shape, Memory, Opened, Stopped, Apart, Saving
<1>3. Listed' /\ Alone' BY <1>1 DEF IInv, Listed, Alone, Saving, Readable, Elems
<1>4. Written'
  <2>1. ASSUME NEW h \in Handlers PROVE (buffer[h])' = buffer[h] /\ (disk[tmp])' = disk[tmp] BY <1>1
  <2>2. \A h \in Handlers : Kept(h, buffer[h])' <=> Kept(h, buffer[h])
    BY <1>1 DEF Kept, Readable, Elems
  <2>3. \A h \in Handlers : Kept(h, disk[tmp])' <=> Kept(h, disk[tmp])
    BY <1>1 DEF Kept, Readable, Elems
  <2> QED BY <1>1, <2>2, <2>3 DEF IInv, Written
<1>5. FileWhole' BY <1>1 DEF IInv, FileWhole, Readable, Elems
<1> QED BY <1>2, <1>3, <1>4, <1>5 DEF IInv

\* The inductive invariant, of every behaviour.
THEOREM IInvCorrect == Spec => []IInv
<1>1. IInv /\ [Next]_vars => IInv'
  <2> SUFFICES ASSUME IInv, [Next]_vars PROVE IInv' OBVIOUS
  <2>1. ASSUME NEW h \in Handlers, Call(h) PROVE IInv' BY <2>1, Called
  <2>2. ASSUME NEW h \in Handlers, Save(h) PROVE IInv'
    <3>1. CASE SaveOpen(h) BY <3>1, OpenKept
    <3>2. CASE SaveRefused(h) BY <3>2, Failed DEF SaveRefused
    <3>3. CASE SaveWrite(h) BY <3>3, WriteKept
    <3>4. CASE SaveClose(h) BY <3>4, CloseKept
    <3>5. CASE SaveCut(h) BY <3>5, CutKept
    <3>6. CASE SaveReplace(h) BY <3>6, ReplaceKept
    <3>7. CASE SaveUnnamed(h)
      <4>1. PICK from \in {"replace", "cut"} : Step(h, from, "ready") BY <3>7 DEF SaveUnnamed
      <4> QED BY <3>7, <4>1, Failed DEF SaveUnnamed
    <3> QED BY <2>2, <3>1, <3>2, <3>3, <3>4, <3>5, <3>6, <3>7 DEF Save
  <2>3. CASE Crash BY <2>3, Crashed
  <2>4. CASE Load BY <2>4, Loaded
  <2>5. CASE UNCHANGED vars BY <2>5, Stutters
  <2> QED BY <2>1, <2>2, <2>3, <2>4, <2>5 DEF Next
<1> QED BY <1>1, Initially, PTL DEF Spec

\* What the list and its index promise follows from their shape.
LEMMA ShapeIs ==
  ASSUME IInv
  PROVE  Inv
<1>1. list \in Seq(Domains) /\ Once(list) /\ IndexOf(index, list) BY MemoryTyped DEF IInv
<1>2. Len(list) \in Nat /\ Len(list) <= Cardinality(Domains) BY <1>1, OnceLength, LenProperties
<1>3. PICK c \in Nat : c > 2 * Len(list) /\ Indexed(index, list, c, Len(list)) BY <1>1 DEF IndexOf
<1>4. index \in [0 .. c - 1 -> 0 .. Len(list)] BY <1>3 DEF Indexed
<1>5. Cap(index) = c BY <1>4, CapIs
<1>6. \E s \in 0 .. c - 1 : index[s] = 0
  <2>1. Len(list) < c BY <1>2, <1>3
  <2> QED BY <1>2, <1>3, <2>1, EmptySlot
<1>7. RoomInIndex BY <1>4, <1>6 DEF RoomInIndex
<1>8. ListedOnce BY <1>1 DEF Once, ListedOnce
<1>9. TypeOK BY <1>1, <1>2, <1>4, <1>5 DEF IInv, Kinds, Steps, TypeOK
<1> QED BY <1>7, <1>8, <1>9 DEF Inv

\* dnsd_is_blocked probes for each domain the query is in.
LEMMA ListedBlocked ==
  ASSUME IInv
  PROVE  BlocksListed
<1>1. SUFFICES ASSUME NEW d \in Domains, Norm[d] # Bad
               PROVE  IsBlocked(d) <=> Suffixes[d] \cap Elems(list) # {}
  BY DEF BlocksListed
<1>2. Norm[d] = d /\ Suffixes[d] \in SUBSET Domains BY <1>1, BlocklistAssumption
<1>3. ASSUME NEW e \in Domains PROVE Find(index, list, e) # 0 <=> e \in Elems(list)
  <2>1. Memory \in Memories /\ Memory.list = list /\ Memory.index = index
    BY DEF IInv, Shape, Memory
  <2> QED BY <2>1, FindInMemory
<1> QED BY <1>1, <1>2, <1>3 DEF IsBlocked

\* No domain is listed twice and the index has an empty slot, whatever the
\* names and hashes and after any calls, crashes and restarts.
THEOREM InvCorrect == Spec => []Inv
BY IInvCorrect, ShapeIs, PTL

\* A query is refused exactly if its domain, or one it is in, is listed: the
\* probes of core/dnsd.c find every domain of the list and no other.
THEOREM BlocksListedCorrect == Spec => []BlocksListed
BY IInvCorrect, ListedBlocked, PTL

\* The file on the disk has the names of a list there was, with any number of
\* handlers that save and a crash between any two of their steps, unless saves
\* overlapped or the last of them failed or met a full disk.
THEOREM FileWholeCorrect == Spec => []FileWhole
<1>1. IInv => FileWhole BY DEF IInv
<1> QED BY <1>1, IInvCorrect, PTL

=============================================================================
