---------------------------- MODULE Usage_proofs ----------------------------
(***************************************************************************)
(* Theorems about Usage, for any sets of sockets and programs, any sizes   *)
(* of the tables, any dates, any traffic and whatever goes wrong.          *)
(*                                                                         *)
(* First come functions by recursion and what they say of the rows: a sum  *)
(* grows with a row, shrinks with the first and follows a change, of a     *)
(* table in the order of its days the rows that are not old are read back, *)
(* and a sum over connections compares as they do.  Between them are the   *)
(* dates, which are counted and found again (DatesBack, RecentIs).  Then   *)
(* what a pass does to the tables (RefreshIs), and one part of IInv after  *)
(* the other: the types, OctetsOnce, DaysOrdered, OctetsAll, LimitsKnown,  *)
(* and AppsCounted with AppsOwed, each by cases on the actions.            *)
(***************************************************************************)
EXTENDS Usage, FiniteSetTheorems, SequenceTheorems, WellFoundedInduction, TLAPS

-----------------------------------------------------------------------------
(***************************************************************************)
(* Functions by recursion.                                                 *)
(***************************************************************************)

\* A set of numbers has a least one.
LEMMA NatLeast ==
  ASSUME NEW T \in SUBSET Nat, T # {}
  PROVE  \E least \in T : \A m \in T : least <= m
<1>1. PICK least \in T : \A m \in T : ~(<<m, least>> \in OpToRel(<, Nat))
  BY NatLessThanWellFounded, WFMin
<1>2. \A m \in T : ~(m < least) BY <1>1 DEF OpToRel
<1> QED BY <1>2

\* What holds of 0 and goes on from each number to the next holds up to z.
LEMMA Upward ==
  ASSUME NEW z \in Nat, NEW G, 0 \in G, \A i \in 1 .. z : i - 1 \in G => i \in G
  PROVE  \A i \in 0 .. z : i \in G
<1> DEFINE T == (0 .. z) \ G
<1>1. SUFFICES ASSUME T # {} PROVE FALSE OBVIOUS
<1>2. PICK k \in T : \A m \in T : k <= m
  <2>1. T \in SUBSET Nat OBVIOUS
  <2> HIDE DEF T
  <2> QED BY <1>1, <2>1, NatLeast
<1>3. k \in 1 .. z /\ k - 1 \in 0 .. z /\ ~(k <= k - 1) BY <1>2
<1>4. k - 1 \in G BY <1>2, <1>3
<1> QED BY <1>2, <1>3, <1>4

\* f begins with a and goes on by the steps.
Repeats(f, S, a, z, step) ==
  f \in [0 .. z -> S] /\ f[0] = a /\ \A i \in 1 .. z : f[i] = step[i][f[i - 1]]

StaysIn(S, z, step) == \A i \in 1 .. z : \A x \in S : step[i][x] \in S

\* A step that stays in a set can be repeated.
LEMMA Recursion ==
  ASSUME NEW S, NEW a \in S, NEW z \in Nat, NEW step, StaysIn(S, z, step)
  PROVE  \E f : Repeats(f, S, a, z, step)
<1> DEFINE G == {m \in 0 .. z : \E f : Repeats(f, S, a, m, step)}
<1>1. 0 \in G
  <2> DEFINE f == [i \in 0 .. 0 |-> a]
  <2>1. Repeats(f, S, a, 0, step) BY DEF Repeats
  <2> QED BY <2>1
<1>2. ASSUME NEW m \in 1 .. z, m - 1 \in G PROVE m \in G
  <2>1. PICK f : Repeats(f, S, a, m - 1, step) BY <1>2
  <2> DEFINE g == [i \in 0 .. m |-> IF i = m THEN step[m][f[m - 1]] ELSE f[i]]
  <2>2. f[m - 1] \in S BY <2>1 DEF Repeats
  <2>3. step[m][f[m - 1]] \in S BY <2>2 DEF StaysIn
  <2>4. Repeats(g, S, a, m, step) BY <2>1, <2>3 DEF Repeats
  <2> QED BY <2>4
<1>3. z \in G
  <2> HIDE DEF G
  <2>1. \A i \in 0 .. z : i \in G BY <1>1, <1>2, Upward
  <2> QED BY <2>1
<1> QED BY <1>3

\* f[T] comes from f[T without its choice], down to the empty set.
Choice(T) == CHOOSE c \in T : TRUE
Unfolds(f, D, V, a, step) ==
  /\ f \in [D -> V]
  /\ \A T \in D : f[T] = IF T = {} THEN a ELSE step[T][f[T \ {Choice(T)}]]

LEMMA ChoiceIn == ASSUME NEW T, T # {} PROVE Choice(T) \in T
  BY DEF Choice

\* Such a function exists for the subsets of a finite set.
LEMMA SetRecursion ==
  ASSUME NEW S, IsFiniteSet(S), NEW V, NEW a \in V, NEW step,
         \A T \in SUBSET S : \A x \in V : step[T][x] \in V
  PROVE  \E f : Unfolds(f, SUBSET S, V, a, step)
<1> DEFINE D(k) == {T \in SUBSET S : Cardinality(T) <= k}
           z == Cardinality(S)
           G == {k \in 0 .. z : \E f : Unfolds(f, D(k), V, a, step)}
<1>1. z \in Nat /\ \A T \in SUBSET S : IsFiniteSet(T) /\ Cardinality(T) \in 0 .. z
  BY FS_Subset, FS_CardinalityType
<1>2. \A T \in SUBSET S : Cardinality(T) = 0 <=> T = {} BY <1>1, FS_EmptySet
<1>3. \A T \in SUBSET S : T # {} => /\ T \ {Choice(T)} \in SUBSET S
                                    /\ Cardinality(T \ {Choice(T)}) = Cardinality(T) - 1
  BY <1>1, ChoiceIn, FS_RemoveElement
<1> HIDE DEF z
<1>4. 0 \in G
  <2> DEFINE f == [T \in D(0) |-> a]
  <2>1. Unfolds(f, D(0), V, a, step) BY <1>1, <1>2 DEF Unfolds
  <2> HIDE DEF f, D
  <2>2. \E h : Unfolds(h, D(0), V, a, step) BY <2>1
  <2> QED BY <1>1, <2>2
<1>5. ASSUME NEW k \in 1 .. z, k - 1 \in G PROVE k \in G
  <2>1. PICK f : Unfolds(f, D(k - 1), V, a, step) BY <1>5
  <2> DEFINE g == [T \in D(k) |-> IF T = {} THEN a ELSE step[T][f[T \ {Choice(T)}]]]
  <2>2. \A T \in D(k) : T # {} => T \ {Choice(T)} \in D(k - 1) /\ T \ {Choice(T)} \in D(k)
    BY <1>1, <1>3
  <2>3. \A T \in D(k - 1) : T \in D(k) /\ g[T] = f[T] BY <1>1, <2>1 DEF Unfolds
  <2>4. \A T \in D(k) : g[T] \in V BY <2>1, <2>2 DEF Unfolds
  <2>5. Unfolds(g, D(k), V, a, step) BY <2>2, <2>3, <2>4 DEF Unfolds
  <2> HIDE DEF g, D
  <2>6. \E h : Unfolds(h, D(k), V, a, step) BY <2>5
  <2> QED BY <2>6
<1>6. z \in G
  <2> HIDE DEF G
  <2>1. \A k \in 0 .. z : k \in G BY <1>1, <1>4, <1>5, Upward
  <2> QED BY <1>1, <2>1
<1>7. D(z) = SUBSET S BY <1>1
<1> QED BY <1>6, <1>7

\* What holds of the empty set, and of a set if it holds of all that lack one
\* member of it, holds of the subsets of a finite set.
LEMMA Inward ==
  ASSUME NEW S, IsFiniteSet(S), NEW G, {} \in G,
         \A T \in SUBSET S : T # {} /\ (\A c \in T : T \ {c} \in G) => T \in G
  PROVE  \A T \in SUBSET S : T \in G
<1> DEFINE D(k) == {T \in SUBSET S : Cardinality(T) = k}
           z == Cardinality(S)
           H == {k \in 0 .. z : \A T \in D(k) : T \in G}
<1>1. z \in Nat /\ \A T \in SUBSET S : IsFiniteSet(T) /\ Cardinality(T) \in 0 .. z
  BY FS_Subset, FS_CardinalityType
<1>2. 0 \in H
  <2>1. \A T \in D(0) : T = {} BY <1>1, FS_EmptySet
  <2>2. \A T \in D(0) : T \in G BY <2>1
  <2>3. 0 \in 0 .. z BY <1>1
  <2> QED BY <2>2, <2>3
<1>3. ASSUME NEW k \in 1 .. z, k - 1 \in H PROVE k \in H
  <2>1. ASSUME NEW T \in D(k) PROVE T \in G
    <3>1. T # {} BY <1>1, FS_EmptySet
    <3>2. \A c \in T : T \ {c} \in D(k - 1) BY <1>1, FS_RemoveElement
    <3>3. \A c \in T : T \ {c} \in G BY <1>3, <3>2
    <3> QED BY <3>1, <3>3
  <2> QED BY <1>1, <2>1
<1>4. \A k \in 0 .. z : k \in H
  <2> HIDE DEF H
  <2> QED BY <1>1, <1>2, <1>3, Upward
<1> QED BY <1>1, <1>4

-----------------------------------------------------------------------------
(***************************************************************************)
(* Sums of rows.                                                           *)
(***************************************************************************)
Weighs(V) == \A x \in V : x.bytes \in Nat

\* f[i] is what the first i rows have at the places P.
AddsUp(f, t, P) ==
  /\ f \in [0 .. Len(t) -> Nat] /\ f[0] = 0
  /\ \A i \in 1 .. Len(t) : f[i] = f[i - 1] + (IF i \in P THEN t[i].bytes ELSE 0)

LEMMA BytesAtIs ==
  ASSUME NEW V, Weighs(V), NEW t \in Seq(V), NEW P
  PROVE  \E f : AddsUp(f, t, P) /\ BytesAt(t, P) = f[Len(t)]
<1> DEFINE z == Len(t)
           Next1(i, x) == x + (IF i \in P THEN t[i].bytes ELSE 0)
           step == [i \in 1 .. z |-> [x \in Nat |-> Next1(i, x)]]
           IsSum(f) == f = [i \in 0 .. z |-> IF i = 0 THEN 0 ELSE Next1(i, f[i - 1])]
<1>1. z \in Nat /\ \A i \in 1 .. z : t[i].bytes \in Nat BY LenProperties, ElementOfSeq DEF Weighs
<1>2. BytesAt(t, P) = (CHOOSE g : IsSum(g))[z] BY DEF BytesAt
<1>3. \A i \in 1 .. z : \A x \in Nat : Next1(i, x) \in Nat BY <1>1
<1> HIDE DEF z, Next1
<1>4. PICK f : Repeats(f, Nat, 0, z, step)
  <2>1. StaysIn(Nat, z, step) BY <1>3 DEF StaysIn
  <2> HIDE DEF step
  <2>2. 0 \in Nat OBVIOUS
  <2> QED BY <1>1, <2>1, <2>2, Recursion, Zenon
<1>5. IsSum(f)
  <2>1. ASSUME NEW i \in 1 .. z PROVE f[i] = Next1(i, f[i - 1])
    <3>1. f[i - 1] \in Nat BY <1>1, <1>4 DEF Repeats
    <3> QED BY <1>4, <3>1 DEF Repeats
  <2> QED BY <1>1, <1>4, <2>1 DEF Repeats
<1>6. IsSum(CHOOSE g : IsSum(g)) BY <1>5, Zenon
<1> DEFINE g == CHOOSE h : IsSum(h)
<1> HIDE DEF g
<1>7. IsSum(g) /\ BytesAt(t, P) = g[z] BY <1>2, <1>6 DEF g
<1>8. g[0] = 0 /\ \A i \in 1 .. z : g[i] = Next1(i, g[i - 1])
  <2>1. 0 \in 0 .. z /\ \A i \in 1 .. z : i \in 0 .. z /\ i # 0 BY <1>1
  <2>2. \A i \in 0 .. z : g[i] = IF i = 0 THEN 0 ELSE Next1(i, g[i - 1]) BY <1>7
  <2> QED BY <2>1, <2>2
<1>9. \A i \in 0 .. z : g[i] \in Nat
  <2> DEFINE G == {j \in 0 .. z : g[j] \in Nat}
  <2>1. 0 \in G BY <1>1, <1>8
  <2>2. ASSUME NEW i \in 1 .. z, i - 1 \in G PROVE i \in G
    <3>1. Next1(i, g[i - 1]) \in Nat BY <1>3, <2>2
    <3> QED BY <1>1, <1>8, <3>1
  <2> HIDE DEF G
  <2>3. \A i \in 0 .. z : i \in G BY <1>1, <2>1, <2>2, Upward
  <2> QED BY <2>3 DEF G
<1>10. g \in [0 .. z -> Nat] BY <1>7, <1>9
<1>11. AddsUp(g, t, P) BY <1>8, <1>10 DEF AddsUp, z, Next1
<1> QED BY <1>7, <1>11 DEF z

\* f[i] is what the first i rows have.
Sums(f, t) ==
  /\ f \in [0 .. Len(t) -> Nat] /\ f[0] = 0
  /\ \A i \in 1 .. Len(t) : f[i] = f[i - 1] + t[i].bytes

LEMMA BytesIs ==
  ASSUME NEW V, Weighs(V), NEW t \in Seq(V)
  PROVE  \E f : Sums(f, t) /\ Bytes(t) = f[Len(t)]
<1>1. PICK f : AddsUp(f, t, DOMAIN t) /\ BytesAt(t, DOMAIN t) = f[Len(t)] BY BytesAtIs
<1>2. DOMAIN t = 1 .. Len(t) BY LenProperties
<1>3. Sums(f, t) BY <1>1, <1>2 DEF AddsUp, Sums
<1> QED BY <1>1, <1>3 DEF Bytes

\* The sums of two tables that begin alike are alike so far.
LEMMA SumsAlike ==
  ASSUME NEW V, Weighs(V), NEW t \in Seq(V), NEW u \in Seq(V), NEW f, NEW g, Sums(f, t), Sums(g, u),
         NEW k \in Nat, k <= Len(t), k <= Len(u), \A i \in 1 .. k : t[i] = u[i]
  PROVE  \A i \in 0 .. k : f[i] = g[i]
<1> DEFINE G == {i \in 0 .. k : f[i] = g[i]}
<1>1. Len(t) \in Nat /\ Len(u) \in Nat BY LenProperties
<1>2. 0 \in G BY DEF Sums
<1>3. ASSUME NEW i \in 1 .. k, i - 1 \in G PROVE i \in G
  <2>1. i \in 1 .. Len(t) /\ i \in 1 .. Len(u) /\ t[i] = u[i] BY <1>1
  <2>2. f[i] = f[i - 1] + t[i].bytes /\ g[i] = g[i - 1] + u[i].bytes BY <2>1 DEF Sums
  <2>3. f[i - 1] = g[i - 1] BY <1>3
  <2> QED BY <2>1, <2>2, <2>3
<1> HIDE DEF G
<1>4. \A i \in 0 .. k : i \in G BY <1>2, <1>3, Upward
<1> QED BY <1>4 DEF G

LEMMA BytesType ==
  ASSUME NEW V, Weighs(V), NEW t \in Seq(V)
  PROVE  Bytes(t) \in Nat
<1>1. PICK f : Sums(f, t) /\ Bytes(t) = f[Len(t)] BY BytesIs
<1>2. Len(t) \in 0 .. Len(t) BY LenProperties
<1> QED BY <1>1, <1>2 DEF Sums

LEMMA BytesNone == Bytes(<<>>) = 0
<1>1. <<>> \in Seq({}) /\ Weighs({}) /\ Len(<<>>) = 0 BY DEF Weighs
<1> QED BY <1>1, BytesIs DEF Sums

LEMMA BytesAppend ==
  ASSUME NEW V, Weighs(V), NEW t \in Seq(V), NEW x \in V
  PROVE  Bytes(Append(t, x)) = Bytes(t) + x.bytes
<1> DEFINE u == Append(t, x)
           z == Len(t)
<1>1. u \in Seq(V) /\ Len(u) = z + 1 /\ u[z + 1] = x /\ \A i \in 1 .. z : u[i] = t[i]
  BY AppendProperties
<1>2. z \in Nat BY LenProperties
<1> HIDE DEF u
<1>3. PICK f : Sums(f, t) /\ Bytes(t) = f[z] BY BytesIs
<1>4. PICK g : Sums(g, u) /\ Bytes(u) = g[z + 1] BY <1>1, BytesIs
<1>5. f[z] = g[z]
  <2>1. \A i \in 1 .. z : t[i] = u[i] BY <1>1
  <2>2. z <= Len(t) /\ z <= Len(u) /\ z \in 0 .. z BY <1>1, <1>2
  <2> HIDE DEF z
  <2> QED BY <1>1, <1>2, <1>3, <1>4, <2>1, <2>2, SumsAlike
<1>6. g[z + 1] = g[z] + x.bytes
  <2>1. z + 1 \in 1 .. Len(u) /\ (z + 1) - 1 = z BY <1>1, <1>2
  <2> QED BY <1>1, <1>4, <2>1 DEF Sums
<1> QED BY <1>3, <1>4, <1>5, <1>6 DEF u

\* A table without its first k rows has no more.
LEMMA BytesRest ==
  ASSUME NEW V, Weighs(V), NEW t \in Seq(V), NEW u \in Seq(V), NEW k \in Nat, Len(t) = Len(u) + k,
         \A i \in 1 .. Len(u) : u[i].bytes = t[i + k].bytes
  PROVE  Bytes(u) <= Bytes(t)
<1> DEFINE z == Len(u)
<1>1. Len(t) = z + k /\ z \in Nat BY LenProperties
<1>2. PICK f : Sums(f, t) /\ Bytes(t) = f[z + k] BY <1>1, BytesIs
<1>3. PICK g : Sums(g, u) /\ Bytes(u) = g[z] BY BytesIs
<1> DEFINE G == {i \in 0 .. z : g[i] <= f[i + k]}
<1>4. \A i \in 0 .. z : g[i] \in Nat /\ f[i + k] \in Nat
  <2> TAKE i \in 0 .. z
  <2>1. i + k \in 0 .. Len(t) BY <1>1
  <2> QED BY <1>2, <1>3, <2>1 DEF Sums
<1>5. 0 \in G
  <2>1. g[0] = 0 /\ 0 \in 0 .. z BY <1>1, <1>3 DEF Sums
  <2> QED BY <1>4, <2>1
<1>6. ASSUME NEW i \in 1 .. z, i - 1 \in G PROVE i \in G
  <2>1. g[i] = g[i - 1] + u[i].bytes BY <1>3 DEF Sums
  <2>2. f[i + k] = f[(i - 1) + k] + t[i + k].bytes
    <3>1. i + k \in 1 .. Len(t) /\ (i + k) - 1 = (i - 1) + k BY <1>1
    <3> QED BY <1>2, <3>1 DEF Sums
  <2>3. g[i - 1] <= f[(i - 1) + k] /\ i \in 0 .. z /\ i - 1 \in 0 .. z BY <1>1, <1>6
  <2>4. u[i].bytes = t[i + k].bytes /\ u[i].bytes \in Nat BY ElementOfSeq DEF Weighs
  <2>5. g[i - 1] \in Nat /\ f[(i - 1) + k] \in Nat BY <1>4, <2>3
  <2>6. g[i] <= f[i + k] BY <2>1, <2>2, <2>3, <2>4, <2>5
  <2> QED BY <2>3, <2>6
<1>7. z \in G
  <2> HIDE DEF G
  <2>1. \A i \in 0 .. z : i \in G BY <1>1, <1>5, <1>6, Upward
  <2> QED BY <1>1, <2>1
<1> QED BY <1>1, <1>2, <1>3, <1>7

LEMMA BytesTail ==
  ASSUME NEW V, Weighs(V), NEW t \in Seq(V), t # <<>>
  PROVE  Tail(t) \in Seq(V) /\ Bytes(Tail(t)) <= Bytes(t)
<1> DEFINE u == Tail(t)
<1>1. u \in Seq(V) /\ Len(t) = Len(u) + 1 /\ \A i \in 1 .. Len(u) : u[i] = t[i + 1]
  BY HeadTailProperties, LenProperties
<1> HIDE DEF u
<1>2. Bytes(u) <= Bytes(t) BY <1>1, BytesRest
<1> QED BY <1>1, <1>2 DEF u

\* A row that changes adds what it gains.
LEMMA BytesSet ==
  ASSUME NEW V, Weighs(V), NEW t \in Seq(V), NEW u \in Seq(V), NEW k \in 1 .. Len(t), Len(u) = Len(t),
         \A i \in 1 .. Len(t) : i # k => u[i].bytes = t[i].bytes
  PROVE  Bytes(u) = Bytes(t) - t[k].bytes + u[k].bytes
<1> DEFINE z == Len(t)
<1>1. z \in Nat /\ \A i \in 1 .. z : t[i].bytes \in Nat /\ u[i].bytes \in Nat
  BY LenProperties, ElementOfSeq DEF Weighs
<1>2. PICK f : Sums(f, t) /\ Bytes(t) = f[z] BY BytesIs
<1>3. PICK g : Sums(g, u) /\ Bytes(u) = g[z] BY BytesIs
<1> DEFINE G == {i \in 0 .. z : g[i] = f[i] + (IF i < k THEN 0 ELSE u[k].bytes - t[k].bytes)}
<1>4. 0 \in G BY <1>1, <1>2, <1>3 DEF Sums
<1>5. ASSUME NEW i \in 1 .. z, i - 1 \in G PROVE i \in G
  <2>1. g[i] = g[i - 1] + u[i].bytes /\ f[i] = f[i - 1] + t[i].bytes BY <1>2, <1>3 DEF Sums
  <2>2. f[i - 1] \in Nat /\ i \in 0 .. z BY <1>1, <1>2 DEF Sums
  <2>3. g[i - 1] = f[i - 1] + (IF i - 1 < k THEN 0 ELSE u[k].bytes - t[k].bytes) BY <1>5
  <2> QED BY <1>1, <2>1, <2>2, <2>3
<1>6. z \in G
  <2> HIDE DEF G
  <2>1. \A i \in 0 .. z : i \in G BY <1>1, <1>4, <1>5, Upward
  <2> QED BY <1>1, <2>1
<1>7. g[z] = f[z] + (u[k].bytes - t[k].bytes) BY <1>1, <1>6
<1>8. f[z] \in Nat BY <1>1, <1>2 DEF Sums
<1> QED BY <1>1, <1>2, <1>3, <1>7, <1>8

-----------------------------------------------------------------------------
(***************************************************************************)
(* Sums of connections.                                                    *)
(***************************************************************************)
WeighsIn(f, S) == IsFiniteSet(S) /\ \A c \in S : f[c].bytes \in Nat

\* h[T] is what the members of T have.
OverAll(h, f, S) ==
  \A T \in SUBSET S : /\ h[T] \in Nat
                      /\ h[T] = IF T = {} THEN 0 ELSE f[Choice(T)].bytes + h[T \ {Choice(T)}]

LEMMA BytesOver ==
  ASSUME NEW f, NEW S, WeighsIn(f, S)
  PROVE  \E h : OverAll(h, f, S) /\ BytesOf(f, S) = h[S]
<1> DEFINE Next1(T, x) == f[Choice(T)].bytes + x
           step == [T \in SUBSET S |-> [x \in Nat |-> IF T = {} THEN x ELSE Next1(T, x)]]
           Sum(h) == h = [T \in SUBSET S |-> IF T = {} THEN 0 ELSE Next1(T, h[T \ {Choice(T)}])]
<1>0. IsFiniteSet(S) BY DEF WeighsIn
<1>1. BytesOf(f, S) = (CHOOSE h : Sum(h))[S] BY DEF BytesOf, Choice
<1>2. \A T \in SUBSET S : T # {} => \A x \in Nat : Next1(T, x) \in Nat
  <2> TAKE T \in SUBSET S
  <2> HAVE T # {}
  <2> TAKE x \in Nat
  <2>1. Choice(T) \in S BY ChoiceIn
  <2> QED BY <2>1 DEF WeighsIn
<1> HIDE DEF Next1
<1>3. PICK g : Unfolds(g, SUBSET S, Nat, 0, step)
  <2>1. \A T \in SUBSET S : \A x \in Nat : step[T][x] \in Nat BY <1>2
  <2> HIDE DEF step
  <2>2. 0 \in Nat OBVIOUS
  <2> QED BY <1>0, <2>1, <2>2, SetRecursion, Zenon
<1>4. \A T \in SUBSET S : g[T] \in Nat /\ T \ {Choice(T)} \in SUBSET S BY <1>3 DEF Unfolds
<1>5. Sum(g)
  <2>1. ASSUME NEW T \in SUBSET S PROVE g[T] = IF T = {} THEN 0 ELSE Next1(T, g[T \ {Choice(T)}])
    <3>1. CASE T = {} BY <1>3, <3>1 DEF Unfolds
    <3>2. CASE T # {}
      <4>1. g[T] = step[T][g[T \ {Choice(T)}]] BY <1>3, <3>2 DEF Unfolds
      <4>2. g[T \ {Choice(T)}] \in Nat BY <1>4
      <4> QED BY <3>2, <4>1, <4>2
    <3> QED BY <3>1, <3>2
  <2>2. g = [T \in SUBSET S |-> g[T]] BY <1>3 DEF Unfolds
  <2> QED BY <2>1, <2>2
<1>6. Sum(CHOOSE h : Sum(h)) BY <1>5, Zenon
<1> DEFINE h == CHOOSE k : Sum(k)
<1> HIDE DEF h
<1>7. Sum(h) /\ BytesOf(f, S) = h[S] BY <1>1, <1>6 DEF h
<1>8. \A T \in SUBSET S : h[T] = IF T = {} THEN 0 ELSE Next1(T, h[T \ {Choice(T)}]) BY <1>7
<1> DEFINE G == {T \in SUBSET S : h[T] \in Nat}
<1>9. {} \in G BY <1>8
<1>10. ASSUME NEW T \in SUBSET S, T # {}, \A c \in T : T \ {c} \in G PROVE T \in G
  <2>1. h[T \ {Choice(T)}] \in Nat BY <1>10, ChoiceIn
  <2> QED BY <1>2, <1>8, <1>10, <2>1
<1>11. \A T \in SUBSET S : T \in G
  <2> HIDE DEF G
  <2> QED BY <1>0, <1>9, <1>10, Inward
<1>12. OverAll(h, f, S) BY <1>8, <1>11 DEF OverAll, Next1
<1> QED BY <1>7, <1>12

\* The sum of a set does not depend on where it is counted.
LEMMA OverAlike ==
  ASSUME NEW f, NEW S, IsFiniteSet(S), NEW U \in SUBSET S, NEW h, NEW k, OverAll(h, f, S), OverAll(k, f, U)
  PROVE  \A T \in SUBSET U : h[T] = k[T]
<1> DEFINE G == {T \in SUBSET U : h[T] = k[T]}
<1>1. IsFiniteSet(U) BY FS_Subset
<1>2. {} \in G BY DEF OverAll
<1>3. ASSUME NEW T \in SUBSET U, T # {}, \A c \in T : T \ {c} \in G PROVE T \in G
  <2>1. h[T \ {Choice(T)}] = k[T \ {Choice(T)}] BY <1>3, ChoiceIn
  <2>2. T \in SUBSET S OBVIOUS
  <2>3. h[T] = f[Choice(T)].bytes + h[T \ {Choice(T)}] BY <1>3, <2>2 DEF OverAll
  <2>4. k[T] = f[Choice(T)].bytes + k[T \ {Choice(T)}] BY <1>3 DEF OverAll
  <2> QED BY <2>1, <2>3, <2>4
<1>4. \A T \in SUBSET U : T \in G
  <2> HIDE DEF G
  <2> QED BY <1>1, <1>2, <1>3, Inward
<1> QED BY <1>4

LEMMA BytesOfStep ==
  ASSUME NEW f, NEW S, WeighsIn(f, S)
  PROVE  /\ BytesOf(f, S) \in Nat
         /\ BytesOf(f, S) = IF S = {} THEN 0 ELSE f[Choice(S)].bytes + BytesOf(f, S \ {Choice(S)})
<1> DEFINE U == S \ {Choice(S)}
<1>1. IsFiniteSet(S) /\ U \in SUBSET S /\ WeighsIn(f, U)
  <2>1. IsFiniteSet(S) /\ U \in SUBSET S BY DEF WeighsIn
  <2>2. IsFiniteSet(U) BY <2>1, FS_Subset
  <2> QED BY <2>1, <2>2 DEF WeighsIn
<1> HIDE DEF U
<1>2. PICK h : OverAll(h, f, S) /\ BytesOf(f, S) = h[S] BY BytesOver
<1>3. PICK k : OverAll(k, f, U) /\ BytesOf(f, U) = k[U] BY <1>1, BytesOver
<1>4. h[U] = k[U]
  <2>1. \A T \in SUBSET U : h[T] = k[T] BY <1>1, <1>2, <1>3, OverAlike
  <2> QED BY <2>1
<1>5. S \in SUBSET S OBVIOUS
<1>6. h[S] \in Nat /\ h[S] = IF S = {} THEN 0 ELSE f[Choice(S)].bytes + h[U]
  BY <1>2, <1>5 DEF OverAll, U
<1> QED BY <1>2, <1>3, <1>4, <1>6 DEF U

LEMMA PartWeighs ==
  ASSUME NEW f, NEW S, WeighsIn(f, S), NEW T \in SUBSET S
  PROVE  WeighsIn(f, T) /\ BytesOf(f, T) \in Nat
<1>1. IsFiniteSet(T) BY FS_Subset DEF WeighsIn
<1>2. WeighsIn(f, T) BY <1>1 DEF WeighsIn
<1> QED BY <1>2, BytesOfStep

\* Any member may be counted first.
LEMMA BytesOfTake ==
  ASSUME NEW f, NEW S, WeighsIn(f, S)
  PROVE  \A c \in S : BytesOf(f, S) = f[c].bytes + BytesOf(f, S \ {c})
<1> DEFINE G == {T \in SUBSET S : \A c \in T : BytesOf(f, T) = f[c].bytes + BytesOf(f, T \ {c})}
<1>1. {} \in G OBVIOUS
<1>2. ASSUME NEW T \in SUBSET S, T # {}, \A c \in T : T \ {c} \in G PROVE T \in G
  <2> DEFINE d == Choice(T)
  <2>1. d \in T BY <1>2, ChoiceIn
  <2>2. WeighsIn(f, T) BY PartWeighs
  <2>3. BytesOf(f, T) = f[d].bytes + BytesOf(f, T \ {d}) BY <1>2, <2>2, BytesOfStep
  <2> HIDE DEF d
  <2>4. ASSUME NEW c \in T, c # d PROVE BytesOf(f, T) = f[c].bytes + BytesOf(f, T \ {c})
    <3>1. c \in T \ {d} /\ d \in T \ {c} /\ (T \ {d}) \ {c} = (T \ {c}) \ {d} BY <2>1, <2>4
    <3>2. BytesOf(f, T \ {d}) = f[c].bytes + BytesOf(f, (T \ {d}) \ {c}) BY <1>2, <2>1, <3>1
    <3>3. BytesOf(f, T \ {c}) = f[d].bytes + BytesOf(f, (T \ {c}) \ {d}) BY <1>2, <3>1
    <3>4. (T \ {c}) \ {d} \in SUBSET S OBVIOUS
    <3>5. BytesOf(f, (T \ {c}) \ {d}) \in Nat BY <3>4, PartWeighs
    <3>6. f[c].bytes \in Nat /\ f[d].bytes \in Nat BY <2>1, <2>2 DEF WeighsIn
    <3> DEFINE x == BytesOf(f, (T \ {c}) \ {d})
               y == BytesOf(f, T \ {d})
               w == BytesOf(f, T \ {c})
    <3>7. y = f[c].bytes + x /\ w = f[d].bytes + x /\ x \in Nat BY <3>1, <3>2, <3>3, <3>5
    <3>8. BytesOf(f, T) = f[d].bytes + y BY <2>3
    <3> HIDE DEF x, y, w
    <3>9. f[d].bytes + y = f[c].bytes + w BY <3>6, <3>7
    <3> QED BY <3>8, <3>9 DEF w
  <2>5. \A c \in T : BytesOf(f, T) = f[c].bytes + BytesOf(f, T \ {c}) BY <2>3, <2>4
  <2> QED BY <2>5
<1>3. \A T \in SUBSET S : T \in G
  <2> HIDE DEF G
  <2>1. IsFiniteSet(S) BY DEF WeighsIn
  <2> QED BY <1>1, <1>2, <2>1, Inward
<1>4. S \in G BY <1>3
<1> QED BY <1>4

LEMMA BytesOfNone == \A f : BytesOf(f, {}) = 0
<1> TAKE f
<1>1. WeighsIn(f, {}) BY FS_EmptySet DEF WeighsIn
<1> QED BY <1>1, BytesOfStep

\* A part of a set has what the set has if the rest has nothing.
LEMMA BytesOfPart ==
  ASSUME NEW f, NEW S, NEW g, NEW U, WeighsIn(g, U), S \in SUBSET U,
         \A c \in U : g[c].bytes = IF c \in S THEN f[c].bytes ELSE 0
  PROVE  BytesOf(f, S) = BytesOf(g, U)
<1> DEFINE G == {T \in SUBSET U : BytesOf(f, S \cap T) = BytesOf(g, T)}
<1>1. IsFiniteSet(U) /\ \A c \in U : g[c].bytes \in Nat BY DEF WeighsIn
<1>2. \A T \in SUBSET U : WeighsIn(f, S \cap T) /\ WeighsIn(g, T)
  <2> TAKE T \in SUBSET U
  <2>1. S \cap T \in SUBSET U OBVIOUS
  <2>2. IsFiniteSet(S \cap T) BY <1>1, <2>1, FS_Subset
  <2>3. \A c \in S \cap T : f[c].bytes \in Nat
    <3> TAKE c \in S \cap T
    <3>1. c \in U /\ c \in S OBVIOUS
    <3>2. g[c].bytes = f[c].bytes BY <3>1
    <3> QED BY <1>1, <3>1, <3>2
  <2> QED BY <2>2, <2>3, PartWeighs DEF WeighsIn
<1>3. {} \in G
  <2>1. WeighsIn(f, {}) /\ WeighsIn(g, {}) BY FS_EmptySet DEF WeighsIn
  <2>2. BytesOf(f, {}) = 0 /\ BytesOf(g, {}) = 0 BY <2>1, BytesOfStep
  <2>3. S \cap {} = {} OBVIOUS
  <2> QED BY <2>2, <2>3
<1>4. ASSUME NEW T \in SUBSET U, T # {}, \A c \in T : T \ {c} \in G PROVE T \in G
  <2>1. PICK c \in T : TRUE BY <1>4
  <2>2. BytesOf(g, T) = g[c].bytes + BytesOf(g, T \ {c})
    <3>1. WeighsIn(g, T) BY <1>2
    <3>2. \A d \in T : BytesOf(g, T) = g[d].bytes + BytesOf(g, T \ {d}) BY <3>1, BytesOfTake
    <3> QED BY <3>2
  <2>3. BytesOf(f, S \cap (T \ {c})) = BytesOf(g, T \ {c}) BY <1>4
  <2>4. CASE c \in S
    <3>1. (S \cap T) \ {c} = S \cap (T \ {c}) /\ c \in S \cap T BY <2>4
    <3>2. BytesOf(f, S \cap T) = f[c].bytes + BytesOf(f, (S \cap T) \ {c})
      <4>1. WeighsIn(f, S \cap T) BY <1>2
      <4>2. \A d \in S \cap T : BytesOf(f, S \cap T) = f[d].bytes + BytesOf(f, (S \cap T) \ {d})
        BY <4>1, BytesOfTake
      <4> QED BY <3>1, <4>2
    <3>3. g[c].bytes = f[c].bytes BY <2>4
    <3> QED BY <2>2, <2>3, <3>1, <3>2, <3>3
  <2>5. CASE c \notin S
    <3>1. S \cap T = S \cap (T \ {c}) BY <2>5
    <3>2. g[c].bytes = 0 BY <2>5
    <3>3. T \ {c} \in SUBSET U OBVIOUS
    <3>4. BytesOf(g, T \ {c}) \in Nat BY <3>3, PartWeighs
    <3>5. BytesOf(g, T) = BytesOf(g, T \ {c}) BY <2>2, <3>2, <3>4
    <3> QED BY <2>3, <3>1, <3>5
  <2> QED BY <2>4, <2>5
<1>5. \A T \in SUBSET U : T \in G
  <2> HIDE DEF G
  <2> QED BY <1>1, <1>3, <1>4, Inward
<1>6. U \in SUBSET U /\ S \cap U = S OBVIOUS
<1> QED BY <1>5, <1>6

\* Sums compare as what they sum.
LEMMA BytesOfLess ==
  ASSUME NEW U, NEW f, NEW g, NEW h, NEW k, WeighsIn(f, U), WeighsIn(g, U), WeighsIn(h, U), WeighsIn(k, U),
         \A c \in U : f[c].bytes + g[c].bytes <= h[c].bytes + k[c].bytes
  PROVE  BytesOf(f, U) + BytesOf(g, U) <= BytesOf(h, U) + BytesOf(k, U)
<1> DEFINE G == {T \in SUBSET U : BytesOf(f, T) + BytesOf(g, T) <= BytesOf(h, T) + BytesOf(k, T)}
<1>1. IsFiniteSet(U) /\ \A c \in U : /\ f[c].bytes \in Nat /\ g[c].bytes \in Nat
                                     /\ h[c].bytes \in Nat /\ k[c].bytes \in Nat
  BY DEF WeighsIn
<1>2. \A T \in SUBSET U : /\ WeighsIn(f, T) /\ WeighsIn(g, T) /\ WeighsIn(h, T) /\ WeighsIn(k, T)
                          /\ BytesOf(f, T) \in Nat /\ BytesOf(g, T) \in Nat
                          /\ BytesOf(h, T) \in Nat /\ BytesOf(k, T) \in Nat
  BY PartWeighs
<1>3. {} \in G
  <2>1. {} \in SUBSET U OBVIOUS
  <2>2. BytesOf(f, {}) = 0 /\ BytesOf(g, {}) = 0 /\ BytesOf(h, {}) = 0 /\ BytesOf(k, {}) = 0
    BY <1>2, <2>1, BytesOfStep
  <2> QED BY <2>1, <2>2
<1>4. ASSUME NEW T \in SUBSET U, T # {}, \A c \in T : T \ {c} \in G PROVE T \in G
  <2>1. PICK c \in T : TRUE BY <1>4
  <2> DEFINE R == T \ {c}
  <2>2. R \in SUBSET U /\ R \in G BY <1>4
  <2>3. /\ BytesOf(f, T) = f[c].bytes + BytesOf(f, R) /\ BytesOf(g, T) = g[c].bytes + BytesOf(g, R)
        /\ BytesOf(h, T) = h[c].bytes + BytesOf(h, R) /\ BytesOf(k, T) = k[c].bytes + BytesOf(k, R)
    BY <1>2, BytesOfTake
  <2>4. BytesOf(f, R) + BytesOf(g, R) <= BytesOf(h, R) + BytesOf(k, R) BY <2>2
  <2> HIDE DEF R, G
  <2>5. BytesOf(f, T) + BytesOf(g, T) <= BytesOf(h, T) + BytesOf(k, T)
    BY <1>1, <1>2, <2>1, <2>2, <2>3, <2>4
  <2> QED BY <2>5 DEF G
<1>5. \A T \in SUBSET U : T \in G
  <2> HIDE DEF G
  <2> QED BY <1>1, <1>3, <1>4, Inward
<1>6. U \in SUBSET U OBVIOUS
<1> QED BY <1>5, <1>6

\* A sum grows by no more than the one member that grows.
LEMMA BytesOfRaise ==
  ASSUME NEW U, NEW f, NEW g, WeighsIn(f, U), WeighsIn(g, U), NEW c \in U, NEW v \in Nat,
         \A d \in U : f[d].bytes <= g[d].bytes + (IF d = c THEN v ELSE 0)
  PROVE  BytesOf(f, U) <= BytesOf(g, U) + v
<1> DEFINE k == [d \in U |-> [bytes |-> IF d = c THEN v ELSE 0]]
           o == [d \in U |-> [bytes |-> 0]]
           e == [d \in {c} |-> [bytes |-> v]]
<1>1. WeighsIn(k, U) /\ WeighsIn(o, U) BY DEF WeighsIn
<1>2. WeighsIn(e, {c}) BY FS_Singleton DEF WeighsIn
<1>3. BytesOf(o, U) = 0
  <2>1. BytesOf(o, {}) = BytesOf(o, U)
    <3>1. \A d \in U : o[d].bytes = IF d \in {} THEN o[d].bytes ELSE 0 OBVIOUS
    <3> HIDE DEF o
    <3> QED BY <1>1, <3>1, BytesOfPart
  <2>2. WeighsIn(o, {}) BY FS_EmptySet DEF WeighsIn
  <2> QED BY <2>1, <2>2, BytesOfStep
<1>4. BytesOf(k, U) = v
  <2>1. BytesOf(e, {c}) = BytesOf(k, U)
    <3>1. \A d \in U : k[d].bytes = IF d \in {c} THEN e[d].bytes ELSE 0 OBVIOUS
    <3> HIDE DEF k, e
    <3> QED BY <1>1, <3>1, BytesOfPart
  <2>2. BytesOf(e, {c}) = e[c].bytes + BytesOf(e, {c} \ {c}) BY <1>2, BytesOfTake
  <2>3. {c} \ {c} = {} /\ e[c].bytes = v OBVIOUS
  <2>4. WeighsIn(e, {}) BY FS_EmptySet DEF WeighsIn
  <2>5. BytesOf(e, {}) = 0 BY <2>4, BytesOfStep
  <2> HIDE DEF e, k
  <2>6. BytesOf(e, {c}) = v + 0 BY <2>2, <2>3, <2>5
  <2> QED BY <2>1, <2>6
<1>5. \A d \in U : f[d].bytes + o[d].bytes <= g[d].bytes + k[d].bytes BY DEF WeighsIn
<1> HIDE DEF k, o, e
<1>6. BytesOf(f, U) + BytesOf(o, U) <= BytesOf(g, U) + BytesOf(k, U) BY <1>1, <1>5, BytesOfLess
<1>7. BytesOf(f, U) \in Nat BY BytesOfStep
<1> QED BY <1>3, <1>4, <1>6, <1>7

-----------------------------------------------------------------------------
(***************************************************************************)
(* Dates: a day has a place in an era of 400 years that begin in March,    *)
(* which civil_key finds and key_days counts to, and the keys are in the   *)
(* order of the days.                                                      *)
(***************************************************************************)
LEMMA KeyParts ==
  ASSUME NEW y \in Int, NEW m \in 0 .. 99, NEW d \in 0 .. 99
  PROVE  Year(Key(y, m, d)) = y /\ Month(Key(y, m, d)) = m /\ Day(Key(y, m, d)) = d
<1>1. Year(Key(y, m, d)) = y  BY SMTT(10) DEF Year, Key
<1>2. (y * 10000 + m * 100 + d) \div 100 = y * 100 + m BY SMTT(10)
<1>3. (y * 100 + m) % 100 = m BY SMTT(10)
<1>4. Day(Key(y, m, d)) = d BY SMTT(10) DEF Day, Key
<1> QED BY <1>1, <1>2, <1>3, <1>4, SMT DEF Month, Key

\* A year of an era by its century, the leap year before it and the years since.
InYear(y, x) == x \in Nat /\ x <= 365 /\ (x = 365 => y % 4 = 3 /\ (y % 100 # 99 \/ y = 399))

LEMMA YearParts ==
  ASSUME NEW y \in Nat, y < 400
  PROVE  \E c \in 0 .. 3, q \in 0 .. 24, r \in 0 .. 3 : y = 100 * c + 4 * q + r
<1> DEFINE c == y \div 100
           z == y % 100
           q == z \div 4
           r == z % 4
<1>1. c \in 0 .. 3 /\ z \in 0 .. 99 /\ y = 100 * c + z BY SMTT(10)
<1> HIDE DEF c, z
<1>2. q \in 0 .. 24 /\ r \in 0 .. 3 /\ z = 4 * q + r BY <1>1, SMTT(10)
<1> HIDE DEF q, r
<1> QED BY <1>1, <1>2, SMT

LEMMA PartsOfYear ==
  ASSUME NEW c \in 0 .. 3, NEW q \in 0 .. 24, NEW r \in 0 .. 3, NEW y \in Nat, y = 100 * c + 4 * q + r
  PROVE  /\ y \in Nat /\ y < 400
         /\ y \div 4 = 25 * c + q /\ y \div 100 = c /\ y % 4 = r /\ y % 100 = 4 * q + r
         /\ YearStart(y) = 36524 * c + 1461 * q + 365 * r
<1>1. y \in Nat /\ y < 400 BY SMT
<1>2. y \div 4 = 25 * c + q /\ y % 4 = r BY SMTT(10)
<1>3. y \div 100 = c /\ y % 100 = 4 * q + r BY SMTT(10)
<1> QED BY <1>1, <1>2, <1>3, SMT DEF YearStart

LEMMA YearOfDay ==
  ASSUME NEW doe \in Nat, doe <= 146096
  PROVE  \E y \in Nat, x \in Nat : y < 400 /\ InYear(y, x) /\ doe = YearStart(y) + x
<1>1. PICK c \in 0 .. 3, d1 \in Nat : d1 <= 36524 /\ doe = 36524 * c + d1 /\ (d1 = 36524 => c = 3)
  <2>1. CASE doe = 146096 BY <2>1, SMT
  <2>2. CASE doe < 146096
    <3> DEFINE c == doe \div 36524
    <3>1. c \in 0 .. 3 /\ 0 <= doe - 36524 * c /\ doe - 36524 * c <= 36523 BY <2>2, SMTT(10)
    <3> HIDE DEF c
    <3> QED BY <3>1, SMT
  <2> QED BY <2>1, <2>2, SMT
<1>2. PICK q \in 0 .. 24, d2 \in Nat : d2 <= 1460 /\ d1 = 1461 * q + d2 /\ (q = 24 /\ d2 = 1460 => d1 = 36524)
  <2> DEFINE q == d1 \div 1461
  <2>1. q \in 0 .. 24 /\ 0 <= d1 - 1461 * q /\ d1 - 1461 * q <= 1460 BY <1>1, SMTT(10)
  <2> HIDE DEF q
  <2> QED BY <2>1, SMT
<1>3. PICK r \in 0 .. 3, x \in Nat : x <= 365 /\ d2 = 365 * r + x /\ (x = 365 => r = 3)
  <2>1. CASE d2 = 1460 BY <2>1, SMT
  <2>2. CASE d2 < 1460
    <3> DEFINE r == d2 \div 365
    <3>1. r \in 0 .. 3 /\ 0 <= d2 - 365 * r /\ d2 - 365 * r <= 364 BY <2>2, SMTT(10)
    <3> HIDE DEF r
    <3> QED BY <3>1, SMT
  <2> QED BY <1>2, <2>1, <2>2, SMT
<1> DEFINE y == 100 * c + 4 * q + r
<1>4. y \in Nat /\ y = 100 * c + 4 * q + r BY SMT
<1> HIDE DEF y
<1>5. /\ y \in Nat /\ y < 400 /\ y % 4 = r /\ y % 100 = 4 * q + r
      /\ YearStart(y) = 36524 * c + 1461 * q + 365 * r
  BY <1>4, PartsOfYear, SMT
<1>6. doe = YearStart(y) + x BY <1>1, <1>2, <1>3, <1>5, SMT
<1>7. InYear(y, x) BY <1>1, <1>2, <1>3, <1>4, <1>5, SMT DEF InYear
<1> QED BY <1>5, <1>6, <1>7, SMT

LEMMA YearOfEra ==
  ASSUME NEW y \in Nat, y < 400, NEW x, InYear(y, x), NEW doe, doe = YearStart(y) + x
  PROVE  YearAt(doe) = y
<1>1. PICK c \in 0 .. 3, q \in 0 .. 24, r \in 0 .. 3 : y = 100 * c + 4 * q + r BY YearParts, SMT
<1>2. y % 4 = r /\ y % 100 = 4 * q + r /\ YearStart(y) = 36524 * c + 1461 * q + 365 * r
  BY <1>1, PartsOfYear, SMT
<1>3. x \in Nat /\ x <= 365 /\ (x = 365 => r = 3 /\ (q # 24 \/ c = 3)) BY <1>1, <1>2, SMT DEF InYear
<1>4. doe = 36524 * c + 1461 * q + 365 * r + x BY <1>2, SMT
<1>5. doe \in Nat /\ doe <= 146096 BY <1>3, <1>4, SMT
<1>6. doe \div 146096 = IF doe = 146096 THEN 1 ELSE 0 BY <1>5, SMTT(20)
<1>7. doe \div 36524 = IF doe = 146096 THEN 4 ELSE c BY <1>3, <1>4, <1>5, SMTT(20)
<1>8. PICK e \in {0, 1} : doe \div 1460 = 25 * c + q + e /\ (e = 1 => x > 0) /\ (x = 365 => e = 1)
  BY <1>3, <1>4, <1>5, SMTT(20)
<1>9. CASE doe = 146096 
  <2>1. c = 3 /\ q = 24 /\ r = 3 /\ x = 365 BY <1>3, <1>4, <1>9, SMT
  <2>2. doe - doe \div 1460 + doe \div 36524 - doe \div 146096 = 145999 BY <1>9, SMTT(20)
  <2>3. 145999 \div 365 = 399 BY SMT
  <2> QED BY <1>1, <2>1, <2>2, <2>3, SMT DEF YearAt
<1>10. CASE doe # 146096
  <2> DEFINE k == doe - doe \div 1460 + doe \div 36524 - doe \div 146096
  <2>1. k = 365 * y + (x - e) BY <1>1, <1>4, <1>6, <1>7, <1>8, <1>10, <1>3, SMT
  <2>2. x - e \in Nat /\ x - e < 365 BY <1>3, <1>8, SMT
  <2> HIDE DEF k
  <2>3. k \div 365 = y BY <2>1, <2>2, SMTT(20)
  <2> QED BY <2>3, SMT DEF k, YearAt
<1> QED BY <1>9, <1>10, SMT

\* A day by its era, the year of the era, which begins in March, the month and the day.
Months == 0 .. 11
Spot(z, e, y, m, d) ==
  /\ z \in Int /\ e \in Int /\ y \in Nat /\ y < 400 /\ m \in Months /\ d \in 1 .. 31
  /\ m < 11 => MonthStart(m) + d - 1 < MonthStart(m + 1)
  /\ InYear(y, MonthStart(m) + d - 1)
  /\ z + 719468 = e * 146097 + YearStart(y) + MonthStart(m) + d - 1
KeyOf(e, y, m, d) ==
  Key(y + e * 400 + (IF m < 10 THEN 0 ELSE 1), IF m < 10 THEN m + 3 ELSE m - 9, d)

\* Years of an era follow each other.
LEMMA YearsApart ==
  ASSUME NEW y \in Nat, NEW z \in Nat, y < z, z < 400, NEW x, InYear(y, x)
  PROVE  YearStart(y) + x < YearStart(z)
<1>1. PICK c \in 0 .. 3, q \in 0 .. 24, r \in 0 .. 3 : y = 100 * c + 4 * q + r BY YearParts, SMT
<1>2. PICK f \in 0 .. 3, g \in 0 .. 24, h \in 0 .. 3 : z = 100 * f + 4 * g + h BY YearParts, SMT
<1>3. /\ y % 4 = r /\ y % 100 = 4 * q + r /\ YearStart(y) = 36524 * c + 1461 * q + 365 * r
      /\ YearStart(z) = 36524 * f + 1461 * g + 365 * h
  BY <1>1, <1>2, PartsOfYear, SMT
<1>4. x \in Nat /\ x <= 365 /\ (x = 365 => r = 3 /\ (q # 24 \/ c = 3)) BY <1>1, <1>3, SMT DEF InYear
<1>5. CASE c < f BY <1>3, <1>4, <1>5, SMT
<1>6. CASE c = f /\ q < g BY <1>3, <1>4, <1>6, SMT
<1>7. CASE c = f /\ q = g /\ r < h BY <1>3, <1>4, <1>7, SMT
<1>8. c < f \/ (c = f /\ q < g) \/ (c = f /\ q = g /\ r < h) BY <1>1, <1>2, SMT
<1> QED BY <1>5, <1>6, <1>7, <1>8, SMT

LEMMA YearFits ==
  ASSUME NEW y \in Nat, y < 400, NEW x, InYear(y, x)
  PROVE  YearStart(y) \in Nat /\ YearStart(y) + x <= 146096
<1>1. PICK c \in 0 .. 3, q \in 0 .. 24, r \in 0 .. 3 : y = 100 * c + 4 * q + r BY YearParts, SMT
<1>2. y % 4 = r /\ y % 100 = 4 * q + r /\ YearStart(y) = 36524 * c + 1461 * q + 365 * r
  BY <1>1, PartsOfYear, SMT
<1>3. x \in Nat /\ x <= 365 /\ (x = 365 => r = 3 /\ (q # 24 \/ c = 3)) BY <1>1, <1>2, SMT DEF InYear
<1> QED BY <1>2, <1>3, SMT

LEMMA MonthsStart ==
  /\ MonthStart(0) = 0 /\ MonthStart(1) = 31 /\ MonthStart(2) = 61 /\ MonthStart(3) = 92
  /\ MonthStart(4) = 122 /\ MonthStart(5) = 153 /\ MonthStart(6) = 184 /\ MonthStart(7) = 214
  /\ MonthStart(8) = 245 /\ MonthStart(9) = 275 /\ MonthStart(10) = 306 /\ MonthStart(11) = 337
  BY SMT DEF MonthStart

LEMMA MonthsApart ==
  ASSUME NEW m \in Months, NEW k \in Months, m < k
  PROVE  MonthStart(m) \in Nat /\ MonthStart(m + 1) <= MonthStart(k)
  BY SMTT(10) DEF MonthStart, Months

\* Every number of days is of one day.
LEMMA SpotOfDay ==
  ASSUME NEW z \in Int
  PROVE  \E e, y, m, d : Spot(z, e, y, m, d)
<1> DEFINE e == (z + 719468) \div 146097
           doe == (z + 719468) - e * 146097
<1>1. e \in Int /\ doe \in Nat /\ doe <= 146096 /\ z + 719468 = e * 146097 + doe BY SMTT(10)
<1> HIDE DEF e, doe
<1>2. PICK y \in Nat, x \in Nat : y < 400 /\ InYear(y, x) /\ doe = YearStart(y) + x BY <1>1, YearOfDay, SMT
<1>3. x \in Nat /\ x <= 365 BY <1>2, SMT DEF InYear
<1>4. PICK m \in Months : MonthStart(m) <= x /\ (m < 11 => x < MonthStart(m + 1))
  BY <1>3, MonthsStart, SMTT(20) DEF Months
<1> DEFINE d == x - MonthStart(m) + 1
<1>5. d \in 1 .. 31 /\ MonthStart(m) + d - 1 = x /\ MonthStart(m) \in Nat
  BY <1>3, <1>4, MonthsStart, SMTT(20) DEF Months
<1> HIDE DEF d
<1>6. YearStart(y) \in Nat BY <1>2, YearFits, SMT
<1>7. Spot(z, e, y, m, d) BY <1>1, <1>2, <1>4, <1>5, <1>6, SMT DEF Spot
<1> QED BY <1>7, SMT

\* A later day has a greater key.
LEMMA SpotsApart ==
  ASSUME NEW z, NEW e, NEW y, NEW m, NEW d, Spot(z, e, y, m, d),
         NEW zz, NEW ee, NEW yy, NEW mm, NEW dd, Spot(zz, ee, yy, mm, dd), z < zz
  PROVE  KeyOf(e, y, m, d) < KeyOf(ee, yy, mm, dd)
<1> DEFINE x == MonthStart(m) + d - 1
           xx == MonthStart(mm) + dd - 1
<1>1. /\ z \in Int /\ e \in Int /\ y \in Nat /\ y < 400 /\ m \in 0 .. 11 /\ d \in 1 .. 31 /\ InYear(y, x)
      /\ zz \in Int /\ ee \in Int /\ yy \in Nat /\ yy < 400 /\ mm \in 0 .. 11 /\ dd \in 1 .. 31 /\ InYear(yy, xx)
      /\ MonthStart(m) \in Nat /\ MonthStart(mm) \in Nat
  BY MonthsStart, SMT DEF Spot, Months
<1>3. /\ YearStart(y) \in Nat /\ YearStart(y) + x <= 146096 /\ x \in Nat
      /\ YearStart(yy) \in Nat /\ YearStart(yy) + xx <= 146096 /\ xx \in Nat BY <1>1, YearFits, SMT DEF InYear
<1>2. z + 719468 = e * 146097 + YearStart(y) + x /\ zz + 719468 = ee * 146097 + YearStart(yy) + xx
  BY <1>1, <1>3, SMT DEF Spot
<1>4. (y < yy => YearStart(y) + x < YearStart(yy)) /\ (yy < y => YearStart(yy) + xx < YearStart(y))
  BY <1>1, YearsApart, SMT
<1>5. (m < mm => x < xx) /\ (mm < m => xx < x) /\ (m = mm => x - xx = d - dd)
  BY MonthsApart, <1>1, SMT DEF Spot, Months
<1>6. e <= ee BY <1>1, <1>2, <1>3, SMT
<1> HIDE DEF x, xx
<1>7. e < ee \/ (e = ee /\ y <= yy)  BY <1>1, <1>2, <1>3, <1>4, <1>6, SMT
<1>8. e < ee \/ (e = ee /\ y < yy) \/ (e = ee /\ y = yy /\ x < xx) BY <1>1, <1>2, <1>3, <1>7, SMT
<1>9. e < ee \/ (e = ee /\ y < yy) \/ (e = ee /\ y = yy /\ m < mm) \/ (e = ee /\ y = yy /\ m = mm /\ d < dd)
  BY <1>1, <1>3, <1>5, <1>8, SMT
<1> QED BY <1>1, <1>9, SMTT(20) DEF KeyOf, Key

\* civil_key finds the day.
LEMMA CivilOfSpot ==
  ASSUME NEW z, NEW e, NEW y, NEW m, NEW d, Spot(z, e, y, m, d)
  PROVE  CivilKey(z) = KeyOf(e, y, m, d)
<1> DEFINE x == MonthStart(m) + d - 1
           doe == YearStart(y) + x
<1>1. /\ z \in Int /\ e \in Int /\ y \in Nat /\ y < 400 /\ m \in 0 .. 11 /\ d \in 1 .. 31 /\ InYear(y, x)
      /\ MonthStart(m) \in Nat /\ (m < 11 => x < MonthStart(m + 1)) /\ z + 719468 = e * 146097 + doe
      /\ x \in Nat /\ doe \in Nat /\ doe <= 146096
  BY MonthsStart, YearFits, SMT DEF Spot, Months, InYear
<1>2. MonthAt(x) = m
  <2>1. x <= 365 BY <1>1, SMT DEF InYear
  <2>2. x >= MonthStart(m) BY <1>1, SMT
  <2> HIDE DEF x
  <2> QED BY <1>1, <2>1, <2>2, MonthsStart, SMTT(20) DEF MonthAt
<1>3. x - MonthStart(m) + 1 = d BY <1>1, SMT
<1> HIDE DEF x, doe
<1>4. (z + 719468) \div 146097 = e BY <1>1, SMTT(10)
<1>5. z + 719468 - e * 146097 = doe BY <1>1, SMT
<1>6. YearAt(doe) = y BY <1>1, YearOfEra, SMT DEF doe
<1>7. YearStart(y) \in Nat /\ doe - YearStart(y) = x BY <1>1, YearFits, SMT DEF doe
<1> DEFINE M == IF m < 10 THEN m + 3 ELSE m - 9
<1>8. CivilKey(z) = Key(y + e * 400 + (IF M <= 2 THEN 1 ELSE 0), M, d)
  BY <1>2, <1>3, <1>4, <1>5, <1>6, <1>7, SMT DEF CivilKey, CivilKeyAt
<1>9. (IF M <= 2 THEN 1 ELSE 0) = (IF m < 10 THEN 0 ELSE 1) BY <1>1, SMT
<1> QED BY <1>8, <1>9, SMT DEF KeyOf

\* A key is its year, its month and its day.
LEMMA KeyWhole ==
  ASSUME NEW key \in Int
  PROVE  /\ Key(Year(key), Month(key), Day(key)) = key
         /\ Year(key) \in Int /\ Month(key) \in 0 .. 99 /\ Day(key) \in 0 .. 99
<1>1. Year(key) \in Int BY SMTT(10) DEF Year
<1>2. key \div 100 \in Int BY SMTT(10)
<1>6. key % 100 = key - 100 * (key \div 100) BY SMTT(10)
<1>5. key % 100 \in 0 .. 99 BY SMTT(10)
<1> DEFINE k == key \div 100
<1>3. k % 100 = k - 100 * (k \div 100) /\ k % 100 \in 0 .. 99 BY <1>2, SMTT(10)
<1>4. (key \div 100) \div 100 = key \div 10000 BY SMTT(20)
<1> QED BY <1>1, <1>2, <1>3, <1>4, <1>5, <1>6, SMT DEF Key, Year, Month, Day

\* The year that begins in March, and the days before a day of it.
March(y, m) == IF m <= 2 THEN y - 1 ELSE y
FromMarch(m) == IF m > 2 THEN m - 3 ELSE m + 9
DaysTo(y) == 365 * y + y \div 4 - y \div 100 + y \div 400

LEMMA KeyDaysIs ==
  ASSUME NEW key \in Int, Month(key) \in 1 .. 12, Day(key) \in 1 .. 31
  PROVE  LET y == March(Year(key), Month(key))
             m == FromMarch(Month(key))
             e == y \div 400
             z == y - e * 400
         IN /\ KeyDays(key) = e * 146097 + YearStart(z) + MonthStart(m) + Day(key) - 1 - 719468
            /\ KeyDays(key) = DaysTo(y) + MonthStart(m) + Day(key) - 1 - 719468
            /\ y \in Int /\ e \in Int /\ z \in Nat /\ z < 400 /\ m \in Months /\ y = 400 * e + z
            /\ y % 4 = z % 4 /\ y % 100 = z % 100 /\ MonthStart(m) \in Nat
<1> DEFINE y == March(Year(key), Month(key))
           m == FromMarch(Month(key))
           e == y \div 400
           z == y - e * 400
<1>1. y \in Int /\ m \in Months BY KeyWhole, SMT DEF March, FromMarch, Months
<1>2. e \in Int /\ z \in Nat /\ z < 400 /\ y = 400 * e + z
  <2> HIDE DEF y
  <2> QED BY <1>1, SMTT(10)
<1>3. KeyDays(key) = e * 146097 + YearStart(z) + (MonthStart(m) + Day(key) - 1) - 719468
  BY SMT DEF KeyDays, March, FromMarch
<1>4. MonthStart(m) \in Nat
  <2> HIDE DEF m
  <2> QED BY <1>1, MonthsStart, SMT DEF Months
<1> HIDE DEF y, m, e, z
<1>5. KeyDays(key) = e * 146097 + YearStart(z) + MonthStart(m) + Day(key) - 1 - 719468
  BY <1>1, <1>2, <1>3, <1>4, SMT DEF YearStart
<1>6. /\ y \div 4 = 100 * e + z \div 4 /\ y \div 100 = 4 * e + z \div 100 /\ y \div 400 = e
      /\ y % 4 = z % 4 /\ y % 100 = z % 100
  BY <1>1, <1>2, SMTT(20)
<1>7. KeyDays(key) = DaysTo(y) + MonthStart(m) + Day(key) - 1 - 719468
  BY <1>1, <1>2, <1>4, <1>5, <1>6, SMT DEF YearStart, DaysTo
<1> QED BY <1>1, <1>2, <1>4, <1>5, <1>6, <1>7, SMT DEF y, m, e, z

LEMMA SpotOfDate ==
  ASSUME NEW key \in Int, IsDate(key)
  PROVE  \E e, y, m, d : Spot(KeyDays(key), e, y, m, d) /\ KeyOf(e, y, m, d) = key
<1> DEFINE Y == Year(key)
           M == Month(key)
           d == Day(key)
           w == March(Y, M)
           m == FromMarch(M)
           e == w \div 400
           y == w - e * 400
<1>1. M \in 1 .. 12 /\ d \in 1 .. 31 /\ Y \in Int /\ d <= MonthDays(Y, M)
  BY KeyWhole, SMT DEF IsDate, MonthDays
<1>2. /\ KeyDays(key) = e * 146097 + YearStart(y) + MonthStart(m) + d - 1 - 719468
      /\ w \in Int /\ e \in Int /\ y \in Nat /\ y < 400 /\ m \in Months /\ w = 400 * e + y
      /\ w % 4 = y % 4 /\ w % 100 = y % 100 /\ MonthStart(m) \in Nat
  BY <1>1, KeyDaysIs, SMT
<1>3. (M <= 2 => w = Y - 1) /\ (M > 2 => w = Y) /\ m = (IF M > 2 THEN M - 3 ELSE M + 9)
  BY <1>1, SMT DEF March, FromMarch
<1>4. Key(Y, M, d) = key BY KeyWhole, SMT
<1> HIDE DEF Y, M, d, w, m, e, y
<1>5. YearStart(y) \in Nat
  <2>1. InYear(y, 0) BY SMT DEF InYear
  <2> QED BY <1>2, <2>1, YearFits, SMT
<1>6. m < 11 => MonthStart(m) + d - 1 < MonthStart(m + 1)
  BY <1>1, <1>3, MonthsStart, SMTT(20) DEF MonthDays
<1>7. InYear(y, MonthStart(m) + d - 1)
  <2>1. MonthStart(m) + d - 1 \in Nat BY <1>1, <1>2, SMT
  <2>2. m = 11 => MonthStart(m) = 337 /\ M = 2 BY <1>1, <1>3, MonthsStart, SMT
  <2>3. m # 11 => MonthStart(m + 1) \in Nat /\ MonthStart(m + 1) <= 337
    BY <1>2, MonthsStart, SMTT(20) DEF Months
  <2>4. CASE m # 11 BY <2>1, <2>3, <2>4, <1>2, <1>6, SMT DEF InYear, Months
  <2>5. CASE m = 11
    <3>1. d <= 29 /\ (d = 29 => Leap(Y)) BY <1>1, <2>2, <2>5, SMT DEF MonthDays
    <3>2. Y = 400 * e + y + 1 BY <1>1, <1>2, <1>3, <2>2, <2>5, SMT
    <3>3. Leap(Y) => y % 4 = 3 /\ (y % 100 # 99 \/ y = 399) BY <1>1, <1>2, <3>2, SMTT(20) DEF Leap
    <3> QED BY <1>1, <2>1, <2>2, <2>5, <3>1, <3>3, SMT DEF InYear
  <2> QED BY <2>4, <2>5, SMT
<1>8. Spot(KeyDays(key), e, y, m, d) BY <1>1, <1>2, <1>5, <1>6, <1>7, SMT DEF Spot
<1>9. KeyOf(e, y, m, d) = key BY <1>1, <1>2, <1>3, <1>4, SMT DEF KeyOf, Months
<1> QED BY <1>8, <1>9, SMT

LEMMA DayAfterIs ==
  ASSUME NEW key \in Nat, IsDate(key)
  PROVE  DayAfter(key) \in Nat /\ IsDate(DayAfter(key)) /\ KeyDays(DayAfter(key)) = KeyDays(key) + 1
<1> DEFINE y == Year(key)
           m == Month(key)
           d == Day(key)
<1>1. m \in 1 .. 12 /\ d \in 1 .. 31 /\ y \in Int /\ d <= MonthDays(y, m) /\ Key(y, m, d) = key
  BY KeyWhole, SMT DEF IsDate, MonthDays
<1>2. y \in Nat BY SMT DEF Year
<1>3. MonthDays(y, m) \in 28 .. 31 BY <1>1, SMT DEF MonthDays
<1> DEFINE next == DayAfter(key)
<1>4. PICK yy \in Nat, mm \in 1 .. 12, dd \in 1 .. 31 :
        /\ next = Key(yy, mm, dd)
        /\ \/ d < MonthDays(y, m) /\ yy = y /\ mm = m /\ dd = d + 1
           \/ d = MonthDays(y, m) /\ dd = 1 /\ m < 12 /\ yy = y /\ mm = m + 1
           \/ d = MonthDays(y, m) /\ dd = 1 /\ m = 12 /\ yy = y + 1 /\ mm = 1
  <2>1. next = IF d < MonthDays(y, m) THEN key + 1 ELSE IF m < 12 THEN Key(y, m + 1, 1) ELSE Key(y + 1, 1, 1)
    BY SMT DEF DayAfter
  <2> HIDE DEF y, m, d, next
  <2>2. CASE d < MonthDays(y, m)
    <3>1. next = Key(y, m, d + 1) BY <1>1, <1>2, <2>1, <2>2, SMT DEF Key
    <3> QED BY <1>1, <1>2, <1>3, <2>2, <3>1, SMT
  <2>3. CASE d = MonthDays(y, m) /\ m < 12
    <3>1. next = Key(y, m + 1, 1) BY <1>3, <2>1, <2>3, SMT
    <3> QED BY <1>1, <1>2, <2>3, <3>1, SMT
  <2>4. CASE d = MonthDays(y, m) /\ m = 12
    <3>1. next = Key(y + 1, 1, 1) BY <1>3, <2>1, <2>4, SMT
    <3> QED BY <1>1, <1>2, <2>4, <3>1, SMT
  <2> QED BY <1>1, <1>3, <2>2, <2>3, <2>4, SMT
<1> HIDE DEF y, m, d, next
<1>5. next \in Nat /\ Year(next) = yy /\ Month(next) = mm /\ Day(next) = dd
  <2>1. mm \in 0 .. 99 /\ dd \in 0 .. 99 /\ yy \in Int BY SMT
  <2>2. Year(Key(yy, mm, dd)) = yy /\ Month(Key(yy, mm, dd)) = mm /\ Day(Key(yy, mm, dd)) = dd
    BY <2>1, KeyParts, Zenon
  <2>3. Key(yy, mm, dd) \in Nat BY SMT DEF Key
  <2> QED BY <1>4, <2>2, <2>3, SMT
<1>6. MonthDays(yy, mm) \in 28 .. 31 BY <1>4, SMT DEF MonthDays
<1>7. IsDate(next) BY <1>1, <1>3, <1>4, <1>5, <1>6, SMT DEF IsDate
<1>8. KeyDays(key) = DaysTo(March(y, m)) + MonthStart(FromMarch(m)) + d - 1 - 719468
  BY <1>1, KeyDaysIs, SMT DEF y, m, d
<1>9. KeyDays(next) = DaysTo(March(yy, mm)) + MonthStart(FromMarch(mm)) + dd - 1 - 719468
  <2>1. next \in Int /\ Month(next) \in 1 .. 12 /\ Day(next) \in 1 .. 31 BY <1>5, SMT
  <2>2. KeyDays(next) = DaysTo(March(Year(next), Month(next)))
                         + MonthStart(FromMarch(Month(next))) + Day(next) - 1 - 719468
    BY <2>1, KeyDaysIs, SMT
  <2> QED BY <1>5, <2>2, SMT
<1>10. \A k \in Nat \cup {-1} : DaysTo(k) \in Int BY SMT DEF DaysTo
<1>11. March(y, m) \in Nat \cup {-1} /\ March(yy, mm) \in Nat \cup {-1} BY <1>1, <1>2, <1>4, SMT DEF March
<1>12. DaysTo(March(yy, mm)) + MonthStart(FromMarch(mm)) + dd = DaysTo(March(y, m)) + MonthStart(FromMarch(m)) + d + 1
  <2>1. CASE mm = m /\ yy = y BY <1>1, <1>4, <1>10, <1>11, <2>1, MonthsStart, SMTT(20) DEF FromMarch
  <2>2. CASE m # 2 /\ mm # m
    <3>1. March(yy, mm) = March(y, m) BY <1>1, <1>2, <1>4, <2>2, SMT DEF March
    <3>2. MonthStart(FromMarch(mm)) = MonthStart(FromMarch(m)) + MonthDays(y, m)
      BY <1>1, <1>4, <2>2, MonthsStart, SMTT(20) DEF FromMarch, MonthDays
    <3>3. MonthStart(FromMarch(m)) \in Int BY <1>1, MonthsStart, SMTT(20) DEF FromMarch
    <3> QED BY <1>1, <1>3, <1>4, <1>10, <1>11, <2>2, <3>1, <3>2, <3>3, SMT
  <2>3. CASE m = 2 /\ mm = 3
    <3>1. March(y, m) = y - 1 /\ March(yy, mm) = y /\ FromMarch(m) = 11 /\ FromMarch(mm) = 0
      BY <1>4, <2>3, SMT DEF March, FromMarch
    <3>2. DaysTo(y) = DaysTo(y - 1) + 365 + IF Leap(y) THEN 1 ELSE 0
      BY <1>2, SMTT(30) DEF DaysTo, Leap
    <3>3. MonthDays(y, m) = IF Leap(y) THEN 29 ELSE 28 BY <2>3, SMT DEF MonthDays
    <3> QED BY <1>1, <1>2, <1>4, <1>10, <1>11, <2>3, <3>1, <3>2, <3>3, MonthsStart, SMT
  <2> QED BY <1>1, <1>4, <2>1, <2>2, <2>3, SMT
<1>13. MonthStart(FromMarch(mm)) \in Int /\ MonthStart(FromMarch(m)) \in Int
  BY <1>1, <1>4, MonthsStart, SMTT(20) DEF FromMarch
<1>14. KeyDays(next) = KeyDays(key) + 1 BY <1>1, <1>4, <1>8, <1>9, <1>10, <1>11, <1>12, <1>13, SMT
<1> QED BY <1>5, <1>7, <1>14, SMT DEF next

\* civil_key gives back the date that key_days has counted.
THEOREM DatesBack ==
  ASSUME NEW key \in Int, IsDate(key)
  PROVE  CivilKey(KeyDays(key)) = key
<1>1. PICK e, y, m, d : Spot(KeyDays(key), e, y, m, d) /\ KeyOf(e, y, m, d) = key BY SpotOfDate, SMT
<1> QED BY <1>1, CivilOfSpot, SMT

\* Days and keys come in one order.
LEMMA InOrder ==
  ASSUME NEW key \in Int, IsDate(key), NEW z \in Int
  PROVE  KeyDays(key) \in Int /\ (key < CivilKey(z) <=> KeyDays(key) < z)
<1>1. PICK e, y, m, d : Spot(KeyDays(key), e, y, m, d) /\ KeyOf(e, y, m, d) = key BY SpotOfDate, SMT
<1>2. PICK ee, yy, mm, dd : Spot(z, ee, yy, mm, dd) BY SpotOfDay, SMT
<1>3. CivilKey(z) = KeyOf(ee, yy, mm, dd) BY <1>2, CivilOfSpot, SMT
<1>4. KeyDays(key) \in Int BY <1>1, SMT DEF Spot
<1>5. KeyOf(ee, yy, mm, dd) \in Int BY <1>2, SMT DEF Spot, KeyOf, Key, Months
<1>6. KeyDays(key) < z => key < CivilKey(z) BY <1>1, <1>2, <1>3, SpotsApart, SMT
<1>7. z < KeyDays(key) => CivilKey(z) < key BY <1>1, <1>2, <1>3, SpotsApart, SMT
<1>8. z = KeyDays(key) => CivilKey(z) = key BY DatesBack, SMT
<1> QED BY <1>3, <1>4, <1>5, <1>6, <1>7, <1>8, SMT

\* The days of Calendar are counted one by one.
LEMMA CalendarDays ==
  \A j \in 1 .. Len(Calendar) :
    /\ Calendar[j] \in Nat /\ IsDate(Calendar[j])
    /\ KeyDays(Calendar[j]) \in Int /\ KeyDays(Calendar[j]) = KeyDays(Calendar[1]) + j - 1
<1> DEFINE z == Len(Calendar)
<1>1. z \in Nat /\ z > 0 /\ DOMAIN Calendar = 1 .. z /\ \A j \in 1 .. z : Calendar[j] \in Nat
  BY UsageAssumption, LenProperties, ElementOfSeq
<1>2. \A j \in 1 .. z : IsDate(Calendar[j]) /\ (j > 1 => Calendar[j] = DayAfter(Calendar[j - 1]))
  BY <1>1, CalendarAssumption
<1> HIDE DEF z
<1>3. \A j \in 1 .. z : KeyDays(Calendar[j]) \in Int
  <2> TAKE j \in 1 .. z
  <2>1. Calendar[j] \in Int /\ IsDate(Calendar[j]) BY <1>1, <1>2
  <2> QED BY <2>1, InOrder
<1> DEFINE G == {j \in 0 .. z : j > 0 => KeyDays(Calendar[j]) = KeyDays(Calendar[1]) + j - 1}
<1>4. 0 \in G BY <1>1
<1>5. ASSUME NEW j \in 1 .. z, j - 1 \in G PROVE j \in G
  <2>1. CASE j = 1
    <3>1. 1 \in 1 .. z /\ KeyDays(Calendar[1]) \in Int BY <1>1, <1>3
    <3> QED BY <2>1, <3>1
  <2>2. CASE j > 1
    <3>1. j - 1 \in 1 .. z /\ 1 \in 1 .. z BY <1>1, <2>2
    <3>2. Calendar[j] = DayAfter(Calendar[j - 1]) BY <1>2, <2>2
    <3>3. KeyDays(Calendar[j]) = KeyDays(Calendar[j - 1]) + 1 BY <1>1, <1>2, <3>1, <3>2, DayAfterIs
    <3>4. KeyDays(Calendar[j - 1]) = KeyDays(Calendar[1]) + (j - 1) - 1 BY <1>5, <3>1
    <3>5. KeyDays(Calendar[1]) \in Int BY <1>3, <3>1
    <3> QED BY <3>3, <3>4, <3>5
  <2> QED BY <2>1, <2>2
<1>6. \A j \in 0 .. z : j \in G
  <2> HIDE DEF G
  <2> QED BY <1>1, <1>4, <1>5, Upward
<1> QED BY <1>1, <1>2, <1>3, <1>6 DEF z

\* The cutoff of load_usage is KeepDays days before today.
LEMMA CutoffIs ==
  ASSUME day \in DOMAIN Calendar, NEW j \in 1 .. Len(Calendar)
  PROVE  Calendar[j] < Cutoff <=> j < day - KeepDays
<1> DEFINE x == Calendar[j]
           days == KeyDays(Today) - KeepDays
<1>1. day \in 1 .. Len(Calendar) /\ day \in Nat /\ j \in Nat /\ KeepDays \in Nat
  <2>1. DOMAIN Calendar = 1 .. Len(Calendar) /\ Len(Calendar) \in Nat BY UsageAssumption, LenProperties
  <2> QED BY <2>1, UsageAssumption
<1>2. x \in Int /\ IsDate(x) /\ KeyDays(x) = KeyDays(Calendar[1]) + j - 1
  <2>1. x \in Nat /\ IsDate(x) /\ KeyDays(x) = KeyDays(Calendar[1]) + j - 1 BY CalendarDays, Zenon
  <2> QED BY <2>1
<1>3. KeyDays(Today) = KeyDays(Calendar[1]) + day - 1 BY <1>1, CalendarDays DEF Today
<1>4. KeyDays(Calendar[1]) \in Int
  <2>1. 1 \in 1 .. Len(Calendar) BY <1>1
  <2> QED BY <2>1, CalendarDays
<1>5. days \in Int BY <1>1, <1>3, <1>4
<1>6. Cutoff = CivilKey(days) BY DEF Cutoff
<1>7. KeyDays(x) < days <=> j < day - KeepDays
  <2> DEFINE first == KeyDays(Calendar[1])
             kx == KeyDays(x)
             kt == KeyDays(Today)
  <2>1. first \in Int /\ kx = first + j - 1 /\ kt = first + day - 1 BY <1>2, <1>3, <1>4
  <2> HIDE DEF first, kx, kt, x
  <2>2. j \in Int /\ day \in Int /\ KeepDays \in Int BY <1>1
  <2>3. kx < kt - KeepDays <=> j < day - KeepDays BY <2>1, <2>2
  <2> QED BY <2>3 DEF kx, kt
<1> HIDE DEF x, days
<1>8. x < CivilKey(days) <=> KeyDays(x) < days BY <1>2, <1>5, InOrder
<1> QED BY <1>6, <1>7, <1>8 DEF x

LEMMA MaxOfTwo ==
  ASSUME NEW a \in Int, NEW b \in Int
  PROVE  Max({a, b}) \in Int /\ \A y \in Int : y >= Max({a, b}) <=> y >= a /\ y >= b
<1>1. \E x \in {a, b} : \A y \in {a, b} : x >= y
  <2>1. CASE a >= b BY <2>1
  <2>2. CASE b >= a BY <2>2
  <2> QED BY <2>1, <2>2
<1>2. Max({a, b}) \in {a, b} /\ \A y \in {a, b} : Max({a, b}) >= y BY <1>1, Zenon DEF Max
<1> QED BY <1>2

\* Of the days up to today those that the cutoff spares are the last KeepDays and today.
LEMMA RecentIs ==
  ASSUME day \in DOMAIN Calendar, NEW x \in ToSet(Calendar), x <= Today
  PROVE  x \in {Calendar[j] : j \in Max({1, day - KeepDays}) .. day} <=> ~(x < Cutoff)
<1> DEFINE first == Max({1, day - KeepDays})
<1>1. /\ DOMAIN Calendar = 1 .. Len(Calendar) /\ Len(Calendar) \in Nat /\ day \in 1 .. Len(Calendar)
      /\ day \in Nat /\ KeepDays \in Nat /\ \A j \in 1 .. Len(Calendar) : Calendar[j] \in Nat
  BY UsageAssumption, LenProperties, ElementOfSeq
<1>2. \A i \in 1 .. Len(Calendar) : \A j \in i + 1 .. Len(Calendar) : Calendar[i] < Calendar[j]
  BY <1>1, UsageAssumption
<1>3. PICK k \in 1 .. Len(Calendar) : Calendar[k] = x BY <1>1 DEF ToSet
<1>4. first \in Int /\ \A j \in Int : j >= first <=> j >= 1 /\ j >= day - KeepDays BY <1>1, MaxOfTwo
<1>5. k <= day
  <2>1. SUFFICES ASSUME k > day PROVE FALSE BY <1>1
  <2>2. k \in day + 1 .. Len(Calendar) BY <1>1, <2>1
  <2>3. Calendar[day] < Calendar[k] BY <1>1, <1>2, <2>2
  <2> QED BY <1>1, <1>3, <2>3 DEF Today
<1>6. x < Cutoff <=> k < day - KeepDays BY <1>3, CutoffIs
<1> HIDE DEF first
<1>7. ASSUME NEW j \in first .. day, Calendar[j] = x PROVE j = k
  <2>1. j \in 1 .. Len(Calendar) BY <1>1, <1>4
  <2>2. j < k => k \in j + 1 .. Len(Calendar) BY <1>1, <2>1
  <2>3. k < j => j \in k + 1 .. Len(Calendar) BY <1>1, <2>1
  <2>4. ~(j < k) /\ ~(k < j) BY <1>1, <1>2, <1>3, <1>7, <2>1, <2>2, <2>3
  <2> QED BY <2>1, <2>4
<1>8. x \in {Calendar[j] : j \in first .. day} <=> k \in first .. day BY <1>3, <1>7
<1>9. k \in first .. day <=> ~(k < day - KeepDays) BY <1>1, <1>4, <1>5
<1> QED BY <1>6, <1>8, <1>9 DEF first

-----------------------------------------------------------------------------
(***************************************************************************)
(* The rows of the days.                                                   *)
(***************************************************************************)
Days == ToSet(Calendar)

LEMMA DaysAre == Days \subseteq Nat /\ Weighs(Rows) /\ Weighs(AppRow)
<1>1. Calendar \in Seq(Nat) BY UsageAssumption
<1>2. Days \subseteq Nat BY <1>1, ElementOfSeq, LenProperties DEF Days, ToSet
<1> QED BY <1>2 DEF Weighs, Rows, AppRow

LEMMA TodayIs == ASSUME day \in DOMAIN Calendar PROVE Today \in Days
<1>1. DOMAIN Calendar = 1 .. Len(Calendar) BY UsageAssumption, LenProperties
<1> QED BY <1>1 DEF Today, Days, ToSet

LEMMA MaxIs ==
  ASSUME NEW z \in Nat, NEW T \in SUBSET (1 .. z), T # {}
  PROVE  Max(T) \in T /\ \A y \in T : y <= Max(T)
<1> DEFINE R == {z - y : y \in T}
<1>1. R \in SUBSET Nat /\ R # {}
  <2>1. \A y \in T : z - y \in Nat OBVIOUS
  <2>2. PICK y \in T : TRUE OBVIOUS
  <2> QED BY <2>1, <2>2
<1>2. PICK r \in R : \A m \in R : r <= m
  <2> HIDE DEF R
  <2> QED BY <1>1, NatLeast
<1>3. PICK x \in T : r = z - x BY <1>2
<1>4. \A y \in T : z - y \in R BY <1>1
<1>5. \A y \in T : x >= y
  <2> TAKE y \in T
  <2>1. z - x <= z - y BY <1>2, <1>3, <1>4
  <2> QED BY <2>1
<1>6. Max(T) \in T /\ \A y \in T : Max(T) >= y BY <1>3, <1>5, Zenon DEF Max
<1> QED BY <1>6

TotalsOK(t) == t \in Seq(Rows) /\ Len(t) <= UsageDays

\* The row of a day is one of that day that only newer ones follow.
IsPlace(t, key, i) == t[i].day = key /\ \A j \in i + 1 .. Len(t) : t[j].day > key

LEMMA PlaceIs ==
  ASSUME NEW t \in Seq(Rows), NEW key
  PROVE  \/ PlaceOf(t, key) = 0 /\ \A i \in 1 .. Len(t) : ~IsPlace(t, key, i)
         \/ PlaceOf(t, key) \in 1 .. Len(t) /\ IsPlace(t, key, PlaceOf(t, key))
<1> DEFINE found == {i \in DOMAIN t : IsPlace(t, key, i)}
<1>1. DOMAIN t = 1 .. Len(t) /\ Len(t) \in Nat BY LenProperties
<1>2. PlaceOf(t, key) = IF found = {} THEN 0 ELSE Max(found) BY DEF PlaceOf, IsPlace
<1>3. CASE found = {} BY <1>1, <1>2, <1>3
<1>4. CASE found # {}
  <2>1. found \in SUBSET (1 .. Len(t)) BY <1>1
  <2> HIDE DEF found
  <2>2. Max(found) \in found BY <1>1, <1>4, <2>1, MaxIs
  <2> QED BY <1>1, <1>2, <1>4, <2>2 DEF found
<1> QED BY <1>3, <1>4

\* usage_total gives a row of the day, in a table that is no longer than there is
\* room and that has lost nothing but, if it was full, its first row.
LEMMA WithTotalIs ==
  ASSUME NEW t, TotalsOK(t), NEW key \in Days
  PROVE  /\ TotalsOK(WithTotal(t, key)) /\ PlaceOf(WithTotal(t, key), key) \in 1 .. Len(WithTotal(t, key))
         /\ Bytes(WithTotal(t, key)) <= Bytes(t)
         /\ PlaceOf(t, key) # 0 \/ Len(t) < UsageDays => Bytes(WithTotal(t, key)) = Bytes(t)
<1> DEFINE u == WithTotal(t, key)
           row == [day |-> key, bytes |-> 0]
           left == IF Len(t) = UsageDays THEN Tail(t) ELSE t
<1>1. UsageDays \in Nat /\ UsageDays > 0 /\ key \in Nat BY UsageAssumption, DaysAre
<1>2. t \in Seq(Rows) /\ Len(t) \in Nat /\ Len(t) <= UsageDays BY LenProperties DEF TotalsOK
<1>3. Bytes(t) \in Nat /\ Bytes(t) <= Bytes(t) BY <1>2, BytesType, DaysAre
<1>4. CASE PlaceOf(t, key) # 0
  <2>1. u = t BY <1>4 DEF WithTotal
  <2> QED BY <1>2, <1>3, <1>4, <2>1, PlaceIs DEF TotalsOK
<1>5. CASE PlaceOf(t, key) = 0
  <2>1. u = Append(left, row) BY <1>5 DEF WithTotal
  <2>2. row \in Rows BY DEF Rows, Days
  <2>3. left \in Seq(Rows) /\ Len(left) < UsageDays /\ Bytes(left) <= Bytes(t)
    <3>1. CASE Len(t) = UsageDays
      <4>1. t # <<>> BY <1>1, <3>1
      <4>2. Len(Tail(t)) = Len(t) - 1 BY <1>2, <4>1, HeadTailProperties
      <4> QED BY <1>1, <1>2, <3>1, <4>1, <4>2, BytesTail, DaysAre
    <3>2. CASE Len(t) # UsageDays BY <1>1, <1>2, <1>3, <3>2
    <3> QED BY <3>1, <3>2
  <2>4. Len(t) < UsageDays => left = t BY <1>1, <1>2
  <2> HIDE DEF left
  <2>5. u \in Seq(Rows) /\ Len(u) = Len(left) + 1 /\ u[Len(left) + 1] = row /\ Len(left) \in Nat
    BY <2>1, <2>2, <2>3, AppendProperties, LenProperties
  <2>6. Bytes(u) = Bytes(left) + 0 BY <2>1, <2>2, <2>3, BytesAppend, DaysAre
  <2>7. Bytes(left) \in Nat BY <2>3, BytesType, DaysAre
  <2> HIDE DEF row
  <2>8. Bytes(u) = Bytes(left) BY <2>6, <2>7
  <2>9. TotalsOK(u) BY <1>1, <2>3, <2>5 DEF TotalsOK
  <2>10. IsPlace(u, key, Len(u)) /\ Len(u) \in 1 .. Len(u)
    <3>1. Len(u) + 1 .. Len(u) = {} BY <2>5
    <3> QED BY <2>5, <3>1 DEF IsPlace, row
  <2> HIDE DEF u
  <2>11. PlaceOf(u, key) \in 1 .. Len(u) BY <2>5, <2>10, PlaceIs
  <2> QED BY <1>5, <2>3, <2>4, <2>8, <2>9, <2>11 DEF u
<1> QED BY <1>4, <1>5

LEMMA SetTotalIs ==
  ASSUME NEW t, TotalsOK(t), NEW k \in 1 .. Len(t), NEW v \in Nat
  PROVE  /\ TotalsOK([t EXCEPT ![k].bytes = v])
         /\ Bytes([t EXCEPT ![k].bytes = v]) = Bytes(t) - t[k].bytes + v
         /\ t[k].bytes \in Nat /\ t[k].bytes <= Bytes(t)
<1> DEFINE u == [t EXCEPT ![k].bytes = v]
<1>1. t \in Seq(Rows) /\ Len(t) \in Nat /\ \A i \in 1 .. Len(t) : t[i] \in Rows
  BY LenProperties, ElementOfSeq DEF TotalsOK
<1>2. t[k] \in Rows BY <1>1
<1>3. [t[k] EXCEPT !.bytes = v] \in Rows /\ [t[k] EXCEPT !.bytes = v].bytes = v BY <1>2 DEF Rows
<1>4. u = [t EXCEPT ![k] = [t[k] EXCEPT !.bytes = v]] OBVIOUS
<1>5. u \in Seq(Rows) /\ Len(u) = Len(t) /\ u[k].bytes = v
      /\ \A i \in 1 .. Len(t) : i # k => u[i] = t[i]
  <2> DEFINE w == [t[k] EXCEPT !.bytes = v]
  <2>1. w \in Rows /\ w.bytes = v /\ u = [t EXCEPT ![k] = w] BY <1>3, <1>4
  <2> HIDE DEF w, u
  <2> QED BY <1>1, <2>1, ExceptSeq
<1> HIDE DEF u
<1>6. Bytes(u) = Bytes(t) - t[k].bytes + u[k].bytes BY <1>1, <1>5, BytesSet, DaysAre
<1>7. t[k].bytes \in Nat BY <1>2 DEF Rows
<1>8. t[k].bytes <= Bytes(t)
  <2>1. PICK f : Sums(f, t) /\ Bytes(t) = f[Len(t)] BY <1>1, BytesIs, DaysAre
  <2> DEFINE G == {i \in 0 .. Len(t) : i >= k => t[k].bytes <= f[i]}
  <2>2. 0 \in G BY <1>1
  <2>3. ASSUME NEW i \in 1 .. Len(t), i - 1 \in G PROVE i \in G
    <3>1. f[i] = f[i - 1] + t[i].bytes /\ i - 1 \in 0 .. Len(t) BY <1>1, <2>1 DEF Sums
    <3>2. f[i - 1] \in Nat BY <2>1, <3>1 DEF Sums
    <3>3. t[i].bytes \in Nat BY <1>1 DEF Rows
    <3>4. i - 1 >= k => t[k].bytes <= f[i - 1] BY <2>3
    <3> QED BY <1>1, <1>7, <3>1, <3>2, <3>3, <3>4
  <2>4. Len(t) \in G
    <3> HIDE DEF G
    <3>1. \A i \in 0 .. Len(t) : i \in G BY <1>1, <2>2, <2>3, Upward
    <3> QED BY <1>1, <3>1
  <2> QED BY <1>1, <2>1, <2>4
<1> QED BY <1>1, <1>5, <1>6, <1>7, <1>8 DEF TotalsOK, u

\* A row of the file keeps the table within its room and adds no more than it has.
LEMMA LoadTotalIs ==
  ASSUME NEW t, TotalsOK(t), NEW x \in Rows
  PROVE  TotalsOK(LoadTotal(t, x)) /\ Bytes(LoadTotal(t, x)) <= Bytes(t) + x.bytes
<1> DEFINE u == WithTotal(t, x.day)
           k == PlaceOf(u, x.day)
<1>1. x.day \in Days /\ x.bytes \in Nat BY DEF Rows, Days
<1>2. Bytes(t) \in Nat BY BytesType, DaysAre DEF TotalsOK
<1>3. CASE x.day < Cutoff BY <1>1, <1>2, <1>3 DEF LoadTotal
<1>4. CASE ~(x.day < Cutoff)
  <2>1. LoadTotal(t, x) = [u EXCEPT ![k].bytes = x.bytes] BY <1>4 DEF LoadTotal
  <2>2. TotalsOK(u) /\ k \in 1 .. Len(u) /\ Bytes(u) <= Bytes(t) BY <1>1, WithTotalIs
  <2> HIDE DEF u, k
  <2>3. /\ TotalsOK(LoadTotal(t, x)) /\ Bytes(LoadTotal(t, x)) = Bytes(u) - u[k].bytes + x.bytes
        /\ u[k].bytes \in Nat
    <3> DEFINE v == x.bytes
    <3>1. v \in Nat BY <1>1
    <3> HIDE DEF v
    <3>2. /\ TotalsOK([u EXCEPT ![k].bytes = v]) /\ Bytes([u EXCEPT ![k].bytes = v]) = Bytes(u) - u[k].bytes + v
          /\ u[k].bytes \in Nat
      BY <2>2, <3>1, SetTotalIs
    <3> QED BY <2>1, <3>2, Zenon DEF v
  <2>4. Bytes(u) \in Nat BY <2>2, BytesType, DaysAre DEF TotalsOK
  <2> QED BY <1>1, <1>2, <2>2, <2>3, <2>4
<1> QED BY <1>3, <1>4

\* f[i] is the table after the first i rows of the file.
LoadsTotals(f, saved) ==
  /\ \A i \in 0 .. Len(saved) : TotalsOK(f[i])
  /\ f[0] = <<>> /\ \A i \in 1 .. Len(saved) : f[i] = LoadTotal(f[i - 1], saved[i])

LEMMA LoadTotalsIs ==
  ASSUME NEW saved \in Seq(Rows)
  PROVE  \E f : LoadsTotals(f, saved) /\ LoadTotals(saved) = f[Len(saved)]
<1> DEFINE z == Len(saved)
           V == {t \in Seq(Rows) : Len(t) <= UsageDays}
           step == [i \in 1 .. z |-> [t \in V |-> LoadTotal(t, saved[i])]]
           Loads(f) == f = [i \in 0 .. z |-> IF i = 0 THEN <<>> ELSE LoadTotal(f[i - 1], saved[i])]
<1>1. z \in Nat /\ \A i \in 1 .. z : saved[i] \in Rows BY LenProperties, ElementOfSeq
<1>2. LoadTotals(saved) = (CHOOSE g : Loads(g))[z] BY DEF LoadTotals
<1>3. \A t : t \in V <=> TotalsOK(t) BY DEF TotalsOK
<1>4. <<>> \in V BY UsageAssumption
<1> HIDE DEF z, V
<1>5. \A i \in 1 .. z : \A t \in V : LoadTotal(t, saved[i]) \in V BY <1>1, <1>3, LoadTotalIs
<1>6. PICK f : Repeats(f, V, <<>>, z, step)
  <2>1. StaysIn(V, z, step) BY <1>5 DEF StaysIn
  <2> HIDE DEF step
  <2> QED BY <1>1, <1>4, <2>1, Recursion, Zenon
<1>7. Loads(f)
  <2>1. ASSUME NEW i \in 1 .. z PROVE f[i] = LoadTotal(f[i - 1], saved[i])
    <3>1. f[i - 1] \in V BY <1>1, <1>6 DEF Repeats
    <3> QED BY <1>6, <3>1 DEF Repeats
  <2> QED BY <1>1, <1>6, <2>1 DEF Repeats
<1>8. Loads(CHOOSE g : Loads(g)) BY <1>7, Zenon
<1> DEFINE g == CHOOSE h : Loads(h)
<1> HIDE DEF g
<1>9. Loads(g) /\ LoadTotals(saved) = g[z] BY <1>2, <1>8 DEF g
<1>10. g[0] = <<>> /\ \A i \in 1 .. z : g[i] = LoadTotal(g[i - 1], saved[i])
  <2>1. 0 \in 0 .. z /\ \A i \in 1 .. z : i \in 0 .. z /\ i # 0 BY <1>1
  <2>2. \A i \in 0 .. z : g[i] = IF i = 0 THEN <<>> ELSE LoadTotal(g[i - 1], saved[i]) BY <1>9
  <2> QED BY <2>1, <2>2
<1>11. \A i \in 0 .. z : g[i] \in V
  <2> DEFINE G == {j \in 0 .. z : g[j] \in V}
  <2>1. 0 \in G BY <1>1, <1>4, <1>10
  <2>2. \A i \in 1 .. z : i - 1 \in G => i \in G BY <1>1, <1>5, <1>10
  <2> HIDE DEF G
  <2>3. \A i \in 0 .. z : i \in G BY <1>1, <2>1, <2>2, Upward
  <2> QED BY <2>3 DEF G
<1>12. LoadsTotals(g, saved) BY <1>3, <1>10, <1>11 DEF LoadsTotals, z
<1> QED BY <1>9, <1>12 DEF z

\* What is loaded has no more bytes than the file.
LEMMA LoadTotalsLess ==
  ASSUME NEW saved \in Seq(Rows)
  PROVE  TotalsOK(LoadTotals(saved)) /\ Bytes(LoadTotals(saved)) <= Bytes(saved)
<1> DEFINE z == Len(saved)
<1>1. z \in Nat /\ \A i \in 1 .. z : saved[i] \in Rows BY LenProperties, ElementOfSeq
<1>2. PICK f : LoadsTotals(f, saved) /\ LoadTotals(saved) = f[z] BY LoadTotalsIs
<1>3. PICK g : Sums(g, saved) /\ Bytes(saved) = g[z] BY BytesIs, DaysAre
<1>4. \A i \in 0 .. z : g[i] \in Nat BY <1>3 DEF Sums
<1>5. \A i \in 0 .. z : Bytes(f[i]) \in Nat BY <1>2, BytesType, DaysAre DEF LoadsTotals, TotalsOK
<1> DEFINE G == {i \in 0 .. z : Bytes(f[i]) <= g[i]}
<1>6. 0 \in G BY <1>1, <1>2, <1>3, BytesNone DEF LoadsTotals, Sums
<1>7. ASSUME NEW i \in 1 .. z, i - 1 \in G PROVE i \in G
  <2>1. i - 1 \in 0 .. z /\ i \in 0 .. z BY <1>1
  <2>2. TotalsOK(f[i - 1]) /\ f[i] = LoadTotal(f[i - 1], saved[i]) BY <1>2, <2>1 DEF LoadsTotals
  <2>3. Bytes(f[i]) <= Bytes(f[i - 1]) + saved[i].bytes BY <1>1, <2>2, LoadTotalIs
  <2>4. g[i] = g[i - 1] + saved[i].bytes /\ Bytes(f[i - 1]) <= g[i - 1] BY <1>3, <1>7 DEF Sums
  <2>5. saved[i].bytes \in Nat BY <1>1 DEF Rows
  <2>6. Bytes(f[i - 1]) \in Nat /\ Bytes(f[i]) \in Nat /\ g[i - 1] \in Nat /\ g[i] \in Nat
    BY <1>4, <1>5, <2>1
  <2>7. Bytes(f[i]) <= g[i] BY <2>3, <2>4, <2>5, <2>6
  <2> QED BY <2>1, <2>7
<1>8. z \in G
  <2> HIDE DEF G
  <2>1. \A i \in 0 .. z : i \in G BY <1>1, <1>6, <1>7, Upward
  <2> QED BY <1>1, <2>1
<1>9. z \in 0 .. z BY <1>1
<1> QED BY <1>2, <1>3, <1>8, <1>9 DEF LoadsTotals

\* The days of a table, each later than the one before.
Increasing(t) == \A i \in 1 .. Len(t) : \A j \in i + 1 .. Len(t) : t[i].day < t[j].day

\* A row that is not old and newer than the table is set after it, if there is room.
LEMMA LoadTotalNew ==
  ASSUME NEW t, TotalsOK(t), NEW x \in Rows, ~(x.day < Cutoff), Len(t) < UsageDays,
         \A j \in 1 .. Len(t) : t[j].day < x.day
  PROVE  LoadTotal(t, x) = Append(t, x)
<1> DEFINE i == Len(t) + 1
           row == [day |-> x.day, bytes |-> 0]
           u == Append(t, row)
           k == PlaceOf(u, x.day)
<1>1. t \in Seq(Rows) /\ Len(t) \in Nat /\ i \in Nat /\ i = Len(t) + 1 BY LenProperties DEF TotalsOK
<1>2. row \in Rows /\ x.day \in Nat BY DaysAre DEF Rows, Days
<1>3. PlaceOf(t, x.day) = 0
  <2>1. \A j \in 1 .. Len(t) : t[j].day # x.day
    <3> TAKE j \in 1 .. Len(t)
    <3>1. t[j] \in Rows BY <1>1, ElementOfSeq
    <3>2. t[j].day \in Nat BY <3>1, DaysAre DEF Rows, Days
    <3> QED BY <1>2, <3>2
  <2> QED BY <1>1, <2>1, PlaceIs DEF IsPlace
<1>4. WithTotal(t, x.day) = u
  <2>1. Len(t) # UsageDays BY <1>1, UsageAssumption
  <2> QED BY <1>3, <2>1 DEF WithTotal
<1>5. LoadTotal(t, x) = [u EXCEPT ![k].bytes = x.bytes] BY <1>4 DEF LoadTotal
<1>6. u \in Seq(Rows) /\ Len(u) = i /\ u[i] = row /\ \A j \in 1 .. i - 1 : u[j] = t[j]
  BY <1>1, <1>2, AppendProperties
<1> HIDE DEF i
<1>7. k = i
  <2> HIDE DEF u
  <2>1. IsPlace(u, x.day, i)
    <3>1. i + 1 .. Len(u) = {} BY <1>1, <1>6
    <3> QED BY <1>6, <3>1 DEF IsPlace
  <2>2. k \in 1 .. i /\ IsPlace(u, x.day, k)
    <3>1. i \in 1 .. Len(u) BY <1>1, <1>6
    <3> QED BY <1>1, <1>6, <2>1, <3>1, PlaceIs
  <2>3. ASSUME k # i PROVE FALSE
    <3>1. k \in 1 .. i - 1 /\ k \in 1 .. Len(t) BY <1>1, <2>2, <2>3
    <3>2. u[k].day < x.day /\ u[k].day = x.day BY <1>6, <2>2, <3>1 DEF IsPlace
    <3> QED BY <1>2, <3>2
  <2> QED BY <2>3
<1>8. [u EXCEPT ![i].bytes = x.bytes] = Append(t, x)
  <2>1. [row EXCEPT !.bytes = x.bytes] = x BY DEF Rows
  <2>2. [u EXCEPT ![i].bytes = x.bytes] = [u EXCEPT ![i] = [row EXCEPT !.bytes = x.bytes]]
    BY <1>6
  <2>3. [u EXCEPT ![i].bytes = x.bytes] = [u EXCEPT ![i] = x] BY <2>1, <2>2
  <2> DEFINE w == [u EXCEPT ![i] = x]
             a == Append(t, x)
  <2>4. w \in Seq(Rows) /\ Len(w) = i /\ \A j \in 1 .. i : w[j] = IF j = i THEN x ELSE u[j]
    <3>1. i \in 1 .. Len(u) BY <1>1, <1>6
    <3> HIDE DEF u
    <3> QED BY <1>6, <3>1, ExceptSeq
  <2>5. a \in Seq(Rows) /\ Len(a) = i /\ a[i] = x /\ \A j \in 1 .. i - 1 : a[j] = t[j]
    BY <1>1, AppendProperties
  <2> HIDE DEF w, a, u, row
  <2>6. \A j \in 1 .. i : w[j] = a[j] BY <1>1, <1>6, <2>4, <2>5
  <2>7. w = a BY <2>4, <2>5, <2>6, SeqEqual
  <2> QED BY <2>3, <2>7 DEF w, a
<1> QED BY <1>5, <1>7, <1>8

\* t has the rows of s that are not old.
Recent(t, s) ==
  /\ \A k \in 1 .. Len(t) : \E i \in 1 .. Len(s) : t[k] = s[i] /\ ~(s[i].day < Cutoff)
  /\ \A i \in 1 .. Len(s) : ~(s[i].day < Cutoff) => \E k \in 1 .. Len(t) : t[k] = s[i]

\* Of a table whose days are in order the rows that are not old are read back, in
\* their order, and no others.
LEMMA LoadTotalsRecent ==
  ASSUME NEW saved, TotalsOK(saved), Increasing(saved)
  PROVE  Increasing(LoadTotals(saved)) /\ Recent(LoadTotals(saved), saved)
<1> DEFINE z == Len(saved)
           Part(i) == SubSeq(saved, 1, i)
<1>1. z \in Nat /\ z <= UsageDays /\ saved \in Seq(Rows) /\ \A i \in 1 .. z : saved[i] \in Rows
  BY LenProperties, ElementOfSeq DEF TotalsOK
<1>2. PICK f : LoadsTotals(f, saved) /\ LoadTotals(saved) = f[z] BY <1>1, LoadTotalsIs
<1>3. UsageDays \in Nat /\ UsageDays > 0 BY UsageAssumption
<1>4. \A i \in 0 .. z : Len(Part(i)) = i /\ \A j \in 1 .. i : Part(i)[j] = saved[j] BY <1>1
<1> HIDE DEF Part
<1> DEFINE G == {i \in 0 .. z : Increasing(f[i]) /\ Len(f[i]) <= i /\ Recent(f[i], Part(i))}
<1>5. 0 \in G
  <2>1. f[0] = <<>> /\ Len(<<>>) = 0 /\ 0 \in 0 .. z BY <1>1, <1>2 DEF LoadsTotals
  <2>2. Len(Part(0)) = 0 BY <1>4, <2>1
  <2> QED BY <2>1, <2>2 DEF Increasing, Recent
<1>6. ASSUME NEW i \in 1 .. z, i - 1 \in G PROVE i \in G
  <2> DEFINE t == f[i - 1]
             x == saved[i]
             p == Part(i - 1)
             q == Part(i)
  <2>1. i \in Nat /\ i - 1 \in Nat /\ i - 1 \in 0 .. z /\ i \in 0 .. z BY <1>1
  <2>2. f[i] = LoadTotal(t, x) /\ TotalsOK(t) BY <1>2, <2>1 DEF LoadsTotals
  <2>3. Increasing(t) /\ Len(t) <= i - 1 /\ Recent(t, p) BY <1>6
  <2>4. Len(p) = i - 1 /\ Len(q) = i /\ q[i] = x /\ \A j \in 1 .. i - 1 : p[j] = saved[j] /\ q[j] = saved[j]
    BY <1>1, <1>4, <2>1
  <2>5. \A j \in 1 .. i - 1 : saved[j].day < x.day
    <3>1. \A j \in 1 .. i - 1 : j \in 1 .. z /\ i \in j + 1 .. z BY <1>1, <2>1
    <3> QED BY <3>1 DEF Increasing
  <2>6. x \in Rows /\ t \in Seq(Rows) /\ Len(t) \in Nat BY <1>1, <2>2, LenProperties DEF TotalsOK
  <2> HIDE DEF t, x, p, q
  <2>7. CASE x.day < Cutoff
    <3>1. f[i] = t BY <2>2, <2>7 DEF LoadTotal
    <3>2. \A k \in 1 .. Len(t) : \E j \in 1 .. i : t[k] = q[j] /\ ~(q[j].day < Cutoff)
      <4> TAKE k \in 1 .. Len(t)
      <4>1. PICK j \in 1 .. i - 1 : t[k] = p[j] /\ ~(p[j].day < Cutoff) BY <2>3, <2>4 DEF Recent
      <4>2. j \in 1 .. i BY <2>1
      <4> QED BY <2>4, <4>1, <4>2
    <3>3. ASSUME NEW j \in 1 .. i, ~(q[j].day < Cutoff) PROVE \E k \in 1 .. Len(t) : t[k] = q[j]
      <4>1. j # i BY <2>4, <2>7, <3>3
      <4>2. j \in 1 .. i - 1 BY <2>1, <4>1
      <4> QED BY <2>3, <2>4, <3>3, <4>2 DEF Recent
    <3>4. Recent(t, q) BY <2>4, <3>2, <3>3 DEF Recent
    <3>5. Len(t) <= i BY <2>1, <2>3, <2>6
    <3> QED BY <2>1, <2>3, <3>1, <3>4, <3>5 DEF q
  <2>8. CASE ~(x.day < Cutoff)
    <3> DEFINE u == Append(t, x)
    <3>1. \A k \in 1 .. Len(t) : t[k].day < x.day
      <4> TAKE k \in 1 .. Len(t)
      <4>1. PICK j \in 1 .. i - 1 : t[k] = p[j] BY <2>3, <2>4 DEF Recent
      <4> QED BY <2>4, <2>5, <4>1
    <3>2. Len(t) < UsageDays BY <1>1, <1>3, <2>1, <2>3, <2>6
    <3>3. f[i] = u BY <2>2, <2>6, <2>8, <3>1, <3>2, LoadTotalNew
    <3>4. Len(u) = Len(t) + 1 /\ u[Len(t) + 1] = x /\ \A k \in 1 .. Len(t) : u[k] = t[k]
      BY <2>6, AppendProperties
    <3> HIDE DEF u
    <3>5. Increasing(u)
      <4> DEFINE m == Len(t)
      <4>1. m \in Nat BY <2>6
      <4> HIDE DEF m
      <4>2. ASSUME NEW k \in 1 .. m + 1, NEW j \in k + 1 .. m + 1 PROVE u[k].day < u[j].day
        <5>1. k \in 1 .. m /\ (j \in k + 1 .. m \/ j = m + 1) BY <4>1, <4>2
        <5>2. CASE j \in k + 1 .. m
          <6>1. j \in 1 .. m BY <4>1, <5>1, <5>2
          <6> QED BY <2>3, <3>4, <5>1, <5>2, <6>1 DEF Increasing, m
        <5>3. CASE j = m + 1 BY <3>1, <3>4, <5>1, <5>3 DEF m
        <5> QED BY <5>1, <5>2, <5>3
      <4> QED BY <3>4, <4>2 DEF Increasing, m
    <3>6. ASSUME NEW k \in 1 .. Len(u) PROVE \E j \in 1 .. i : u[k] = q[j] /\ ~(q[j].day < Cutoff)
      <4>1. CASE k \in 1 .. Len(t)
        <5>1. PICK j \in 1 .. i - 1 : t[k] = p[j] /\ ~(p[j].day < Cutoff) BY <2>3, <2>4, <4>1 DEF Recent
        <5>2. j \in 1 .. i BY <2>1
        <5> QED BY <2>4, <3>4, <4>1, <5>1, <5>2
      <4>2. CASE k = Len(t) + 1
        <5>1. i \in 1 .. i BY <1>1
        <5> QED BY <2>4, <2>8, <3>4, <4>2, <5>1
      <4> QED BY <2>6, <3>4, <4>1, <4>2
    <3>7. ASSUME NEW j \in 1 .. i, ~(q[j].day < Cutoff) PROVE \E k \in 1 .. Len(u) : u[k] = q[j]
      <4>1. CASE j = i
        <5>1. Len(t) + 1 \in 1 .. Len(u) BY <2>6, <3>4
        <5> QED BY <2>4, <3>4, <4>1, <5>1
      <4>2. CASE j # i
        <5>1. j \in 1 .. i - 1 BY <2>1, <4>2
        <5>2. PICK k \in 1 .. Len(t) : t[k] = p[j] BY <2>3, <2>4, <3>7, <5>1 DEF Recent
        <5>3. k \in 1 .. Len(u) BY <2>6, <3>4
        <5> QED BY <2>4, <3>4, <5>1, <5>2, <5>3
      <4> QED BY <4>1, <4>2
    <3>8. Recent(u, q) BY <2>4, <3>6, <3>7 DEF Recent
    <3>9. Len(u) <= i BY <2>1, <2>3, <2>6, <3>4
    <3> QED BY <2>1, <3>3, <3>5, <3>8, <3>9 DEF q
  <2> QED BY <2>7, <2>8
<1>7. z \in G
  <2> HIDE DEF G
  <2>1. \A i \in 0 .. z : i \in G BY <1>1, <1>5, <1>6, Upward
  <2> QED BY <1>1, <2>1
<1>8. Part(z) = saved BY <1>1 DEF Part
<1> QED BY <1>2, <1>7, <1>8

\* A table is read back as it was saved, if its days are in order and none is old.
LEMMA LoadTotalsSame ==
  ASSUME NEW saved, TotalsOK(saved), Increasing(saved),
         \A i \in 1 .. Len(saved) : ~(saved[i].day < Cutoff)
  PROVE  LoadTotals(saved) = saved
<1> DEFINE z == Len(saved)
<1>1. z \in Nat /\ z <= UsageDays /\ saved \in Seq(Rows) /\ \A i \in 1 .. z : saved[i] \in Rows
  BY LenProperties, ElementOfSeq DEF TotalsOK
<1>2. PICK f : LoadsTotals(f, saved) /\ LoadTotals(saved) = f[z] BY <1>1, LoadTotalsIs
<1>3. UsageDays \in Nat /\ UsageDays > 0 BY UsageAssumption
<1> DEFINE G == {i \in 0 .. z : f[i] = SubSeq(saved, 1, i)}
<1>4. 0 \in G
  <2>1. SubSeq(saved, 1, 0) = <<>> /\ 0 \in 0 .. z BY <1>1
  <2>2. f[0] = <<>> BY <1>2 DEF LoadsTotals
  <2> QED BY <2>1, <2>2
<1>5. ASSUME NEW i \in 1 .. z, i - 1 \in G PROVE i \in G
  <2> DEFINE t == SubSeq(saved, 1, i - 1)
             x == saved[i]
  <2>1. i \in Nat /\ i - 1 \in Nat /\ i \in 0 .. z /\ i - 1 \in 0 .. z BY <1>1
  <2>2. f[i] = LoadTotal(t, x) /\ TotalsOK(t)
    <3>1. f[i] = LoadTotal(f[i - 1], saved[i]) /\ TotalsOK(f[i - 1]) BY <1>2, <2>1 DEF LoadsTotals
    <3>2. f[i - 1] = t BY <1>5
    <3> QED BY <3>1, <3>2, Zenon
  <2>3. Len(t) = i - 1 /\ \A j \in 1 .. i - 1 : t[j] = saved[j] BY <1>1, <2>1
  <2>4. \A j \in 1 .. Len(t) : t[j].day < x.day
    <3>1. \A j \in 1 .. i - 1 : j \in 1 .. z /\ i \in j + 1 .. z BY <1>1, <2>1
    <3> QED BY <2>3, <3>1 DEF Increasing
  <2>5. SubSeq(saved, 1, i) = Append(t, x) BY <1>1, <2>1
  <2>6. Len(t) < UsageDays /\ x \in Rows /\ ~(x.day < Cutoff) BY <1>1, <1>3, <2>1, <2>3
  <2> HIDE DEF t, x
  <2>7. f[i] = Append(t, x) BY <2>2, <2>4, <2>6, LoadTotalNew
  <2> QED BY <2>1, <2>5, <2>7
<1>6. z \in G
  <2> HIDE DEF G
  <2>1. \A i \in 0 .. z : i \in G BY <1>1, <1>4, <1>5, Upward
  <2> QED BY <1>1, <2>1
<1>7. SubSeq(saved, 1, z) = saved BY <1>1
<1> QED BY <1>2, <1>6, <1>7

-----------------------------------------------------------------------------
(***************************************************************************)
(* The rows of the applications.                                           *)
(***************************************************************************)
RowsOK(r) == r \in Seq(AppRow) /\ Len(r) <= UsageRows

IsAppPlace(r, key, app, i) ==
  r[i].day = key /\ r[i].app = app /\ \A j \in i + 1 .. Len(r) : r[j].day >= key

LEMMA AppPlaceIs ==
  ASSUME NEW r \in Seq(AppRow), NEW key, NEW app
  PROVE  \/ AppPlace(r, key, app) = 0 /\ \A i \in 1 .. Len(r) : ~IsAppPlace(r, key, app, i)
         \/ AppPlace(r, key, app) \in 1 .. Len(r) /\ IsAppPlace(r, key, app, AppPlace(r, key, app))
<1> DEFINE found == {i \in DOMAIN r : IsAppPlace(r, key, app, i)}
<1>1. DOMAIN r = 1 .. Len(r) /\ Len(r) \in Nat BY LenProperties
<1>2. AppPlace(r, key, app) = IF found = {} THEN 0 ELSE Max(found)
  BY Zenon DEF AppPlace, IsAppPlace
<1>3. CASE found = {} BY <1>1, <1>2, <1>3
<1>4. CASE found # {}
  <2>1. found \in SUBSET (1 .. Len(r)) BY <1>1
  <2> HIDE DEF found
  <2>2. Max(found) \in found BY <1>1, <1>4, <2>1, MaxIs
  <2> QED BY <1>1, <1>2, <1>4, <2>2 DEF found
<1> QED BY <1>3, <1>4

\* A full table loses at least one row.
LEMMA AppRoomIs ==
  ASSUME NEW r, RowsOK(r)
  PROVE  AppRoom(r) \in Seq(AppRow) /\ Len(AppRoom(r)) < UsageRows
<1> DEFINE first == {i \in DOMAIN r : \A j \in 1 .. i : r[j].day = r[1].day}
           z == Len(r)
<1>1. r \in Seq(AppRow) /\ z \in Nat /\ z <= UsageRows /\ UsageRows \in Nat /\ UsageRows > 0
  BY LenProperties, UsageAssumption DEF RowsOK
<1>2. CASE z # UsageRows BY <1>1, <1>2 DEF AppRoom
<1>3. CASE z = UsageRows
  <2>1. AppRoom(r) = SubSeq(r, Cardinality(first) + 1, z) BY <1>3 DEF AppRoom, FirstDayLength
  <2>2. first \subseteq 1 .. z /\ 1 \in first BY <1>1, <1>3
  <2> HIDE DEF first
  <2>3. IsFiniteSet(1 .. z) /\ Cardinality(1 .. z) = z
    <3> HIDE DEF z
    <3>1. 1 \in Int /\ z \in Int BY <1>1
    <3>2. IsFiniteSet(1 .. z) /\ Cardinality(1 .. z) = IF 1 > z THEN 0 ELSE z - 1 + 1 BY <3>1, FS_Interval
    <3> QED BY <1>1, <3>2
  <2>4. IsFiniteSet(first) /\ Cardinality(first) <= z /\ Cardinality(first) \in Nat
    BY <2>2, <2>3, FS_Subset, FS_CardinalityType
  <2>5. Cardinality(first) # 0 BY <2>2, <2>4, FS_EmptySet
  <2> DEFINE c == Cardinality(first)
  <2>6. c \in 1 .. z /\ AppRoom(r) = SubSeq(r, c + 1, z) BY <2>1, <2>4, <2>5
  <2> HIDE DEF c
  <2>7. SubSeq(r, c + 1, z) \in Seq(AppRow) /\ Len(SubSeq(r, c + 1, z)) = z - c
    BY <1>1, <2>6
  <2> QED BY <1>1, <2>6, <2>7
<1> QED BY <1>2, <1>3

LEMMA WithAppIs ==
  ASSUME NEW r, RowsOK(r), NEW key \in Days, NEW app \in Apps
  PROVE  /\ RowsOK(WithApp(r, key, app))
         /\ AppPlace(WithApp(r, key, app), key, app) \in 1 .. Len(WithApp(r, key, app))
<1> DEFINE u == WithApp(r, key, app)
           row == [day |-> key, app |-> app, bytes |-> 0]
           left == AppRoom(r)
<1>1. r \in Seq(AppRow) /\ UsageRows \in Nat BY UsageAssumption DEF RowsOK
<1>2. CASE AppPlace(r, key, app) # 0
  <2>1. u = r BY <1>2 DEF WithApp
  <2> QED BY <1>1, <1>2, <2>1, AppPlaceIs
<1>3. CASE AppPlace(r, key, app) = 0
  <2>1. u = Append(left, row) BY <1>3 DEF WithApp
  <2>2. row \in AppRow BY DEF AppRow, Days
  <2>3. left \in Seq(AppRow) /\ Len(left) < UsageRows BY AppRoomIs
  <2> HIDE DEF left
  <2>4. u \in Seq(AppRow) /\ Len(u) = Len(left) + 1 /\ u[Len(left) + 1] = row /\ Len(left) \in Nat
    BY <2>1, <2>2, <2>3, AppendProperties, LenProperties
  <2>5. RowsOK(u) BY <1>1, <2>3, <2>4 DEF RowsOK
  <2>6. IsAppPlace(u, key, app, Len(u)) /\ Len(u) \in 1 .. Len(u)
    <3>1. Len(u) + 1 .. Len(u) = {} BY <2>4
    <3> QED BY <2>4, <3>1 DEF IsAppPlace
  <2> HIDE DEF u, row
  <2>7. AppPlace(u, key, app) \in 1 .. Len(u) BY <2>4, <2>6, AppPlaceIs
  <2> QED BY <2>5, <2>7 DEF u
<1> QED BY <1>2, <1>3

LEMMA SetRowIs ==
  ASSUME NEW r, RowsOK(r), NEW k \in 1 .. Len(r), NEW v \in Nat
  PROVE  /\ RowsOK([r EXCEPT ![k].bytes = v]) /\ RowsOK([r EXCEPT ![k].bytes = @ + v])
<1>1. r \in Seq(AppRow) /\ Len(r) \in Nat /\ r[k] \in AppRow BY LenProperties, ElementOfSeq DEF RowsOK
<1> DEFINE a == [r[k] EXCEPT !.bytes = v]
           b == [r[k] EXCEPT !.bytes = @ + v]
<1>2. a \in AppRow /\ b \in AppRow BY <1>1 DEF AppRow
<1>3. [r EXCEPT ![k].bytes = v] = [r EXCEPT ![k] = a] /\ [r EXCEPT ![k].bytes = @ + v] = [r EXCEPT ![k] = b]
  OBVIOUS
<1> HIDE DEF a, b
<1>4. [r EXCEPT ![k] = a] \in Seq(AppRow) /\ Len([r EXCEPT ![k] = a]) = Len(r) BY <1>1, <1>2, ExceptSeq
<1>5. [r EXCEPT ![k] = b] \in Seq(AppRow) /\ Len([r EXCEPT ![k] = b]) = Len(r) BY <1>1, <1>2, ExceptSeq
<1>6. RowsOK([r EXCEPT ![k] = a]) /\ RowsOK([r EXCEPT ![k] = b]) BY <1>4, <1>5 DEF RowsOK
<1> QED BY <1>3, <1>6

LEMMA LoadRowIs ==
  ASSUME NEW r, RowsOK(r), NEW x \in AppRow
  PROVE  RowsOK(LoadRow(r, x))
<1> DEFINE u == WithApp(r, x.day, x.app)
           k == AppPlace(u, x.day, x.app)
           v == x.bytes
<1>1. x.day \in Days /\ x.app \in Apps /\ v \in Nat BY DEF AppRow, Days
<1>2. RowsOK(u) /\ k \in 1 .. Len(u) BY <1>1, WithAppIs
<1>3. LoadRow(r, x) = IF x.day < Cutoff THEN r ELSE [u EXCEPT ![k].bytes = v] BY DEF LoadRow
<1> HIDE DEF u, k, v
<1>4. RowsOK([u EXCEPT ![k].bytes = v]) BY <1>1, <1>2, SetRowIs
<1> QED BY <1>3, <1>4

\* f[i] is the table after the first i rows of the file.
LoadsRows(f, saved) ==
  /\ \A i \in 0 .. Len(saved) : RowsOK(f[i])
  /\ f[0] = <<>> /\ \A i \in 1 .. Len(saved) : f[i] = LoadRow(f[i - 1], saved[i])

LEMMA RowsLoaded ==
  ASSUME NEW saved \in Seq(AppRow)
  PROVE  \E f : LoadsRows(f, saved) /\ LoadRows(saved) = f[Len(saved)]
<1> DEFINE z == Len(saved)
           V == {r \in Seq(AppRow) : Len(r) <= UsageRows}
           step == [i \in 1 .. z |-> [r \in V |-> LoadRow(r, saved[i])]]
           Loads(f) == f = [i \in 0 .. z |-> IF i = 0 THEN <<>> ELSE LoadRow(f[i - 1], saved[i])]
<1>1. z \in Nat /\ \A i \in 1 .. z : saved[i] \in AppRow BY LenProperties, ElementOfSeq
<1>2. LoadRows(saved) = (CHOOSE g : Loads(g))[z] BY DEF LoadRows
<1>3. \A r : r \in V <=> RowsOK(r) BY DEF RowsOK
<1>4. <<>> \in V BY UsageAssumption
<1> HIDE DEF z, V
<1>5. \A i \in 1 .. z : \A r \in V : LoadRow(r, saved[i]) \in V BY <1>1, <1>3, LoadRowIs
<1>6. PICK f : Repeats(f, V, <<>>, z, step)
  <2>1. StaysIn(V, z, step) BY <1>5 DEF StaysIn
  <2> HIDE DEF step
  <2> QED BY <1>1, <1>4, <2>1, Recursion, Zenon
<1>7. Loads(f)
  <2>1. ASSUME NEW i \in 1 .. z PROVE f[i] = LoadRow(f[i - 1], saved[i])
    <3>1. f[i - 1] \in V BY <1>1, <1>6 DEF Repeats
    <3> QED BY <1>6, <3>1 DEF Repeats
  <2> QED BY <1>1, <1>6, <2>1 DEF Repeats
<1>8. Loads(CHOOSE g : Loads(g)) BY <1>7, Zenon
<1> DEFINE g == CHOOSE h : Loads(h)
<1> HIDE DEF g
<1>9. Loads(g) /\ LoadRows(saved) = g[z] BY <1>2, <1>8 DEF g
<1>10. g[0] = <<>> /\ \A i \in 1 .. z : g[i] = LoadRow(g[i - 1], saved[i])
  <2>1. 0 \in 0 .. z /\ \A i \in 1 .. z : i \in 0 .. z /\ i # 0 BY <1>1
  <2>2. \A i \in 0 .. z : g[i] = IF i = 0 THEN <<>> ELSE LoadRow(g[i - 1], saved[i]) BY <1>9
  <2> QED BY <2>1, <2>2
<1>11. \A i \in 0 .. z : g[i] \in V
  <2> DEFINE G == {j \in 0 .. z : g[j] \in V}
  <2>1. 0 \in G BY <1>1, <1>4, <1>10
  <2>2. \A i \in 1 .. z : i - 1 \in G => i \in G BY <1>1, <1>5, <1>10
  <2> HIDE DEF G
  <2>3. \A i \in 0 .. z : i \in G BY <1>1, <2>1, <2>2, Upward
  <2> QED BY <2>3 DEF G
<1>12. LoadsRows(g, saved) BY <1>3, <1>10, <1>11 DEF LoadsRows, z
<1> QED BY <1>9, <1>12 DEF z

LEMMA LoadRowsIs ==
  ASSUME NEW saved \in Seq(AppRow)
  PROVE  RowsOK(LoadRows(saved))
<1>1. Len(saved) \in 0 .. Len(saved) BY LenProperties
<1> QED BY <1>1, RowsLoaded DEF LoadsRows

\* f[i] is what is written of the first i rows.
WritesRows(f, r) ==
  /\ f \in [0 .. Len(r) -> Seq(AppRow)] /\ f[0] = <<>>
  /\ \A i \in 1 .. Len(r) : f[i] = IF r[i].bytes > 0 THEN Append(f[i - 1], r[i]) ELSE f[i - 1]

LEMMA RowsWritten ==
  ASSUME NEW r \in Seq(AppRow)
  PROVE  \E f : WritesRows(f, r) /\ Written(r) = f[Len(r)]
<1> DEFINE z == Len(r)
           V == Seq(AppRow)
           Next1(i, s) == IF r[i].bytes > 0 THEN Append(s, r[i]) ELSE s
           step == [i \in 1 .. z |-> [s \in V |-> Next1(i, s)]]
           Writes(f) == f = [i \in 0 .. z |-> IF i = 0 THEN <<>> ELSE Next1(i, f[i - 1])]
<1>1. z \in Nat /\ \A i \in 1 .. z : r[i] \in AppRow BY LenProperties, ElementOfSeq
<1>2. Written(r) = (CHOOSE g : Writes(g))[z] BY DEF Written
<1>3. <<>> \in V OBVIOUS
<1>4. \A i \in 1 .. z : \A s \in V : Next1(i, s) \in V BY <1>1
<1> HIDE DEF z, V, Next1
<1>5. PICK f : Repeats(f, V, <<>>, z, step)
  <2>1. StaysIn(V, z, step) BY <1>4 DEF StaysIn
  <2> HIDE DEF step
  <2> QED BY <1>1, <1>3, <2>1, Recursion, Zenon
<1>6. Writes(f)
  <2>1. ASSUME NEW i \in 1 .. z PROVE f[i] = Next1(i, f[i - 1])
    <3>1. f[i - 1] \in V BY <1>1, <1>5 DEF Repeats
    <3> QED BY <1>5, <3>1 DEF Repeats
  <2> QED BY <1>1, <1>5, <2>1 DEF Repeats
<1>7. Writes(CHOOSE g : Writes(g)) BY <1>6, Zenon
<1> DEFINE g == CHOOSE h : Writes(h)
<1> HIDE DEF g
<1>8. Writes(g) /\ Written(r) = g[z] BY <1>2, <1>7 DEF g
<1>9. g[0] = <<>> /\ \A i \in 1 .. z : g[i] = Next1(i, g[i - 1])
  <2>1. 0 \in 0 .. z /\ \A i \in 1 .. z : i \in 0 .. z /\ i # 0 BY <1>1
  <2>2. \A i \in 0 .. z : g[i] = IF i = 0 THEN <<>> ELSE Next1(i, g[i - 1]) BY <1>8
  <2> QED BY <2>1, <2>2
<1>10. \A i \in 0 .. z : g[i] \in V
  <2> DEFINE G == {j \in 0 .. z : g[j] \in V}
  <2>1. 0 \in G BY <1>1, <1>3, <1>9
  <2>2. ASSUME NEW i \in 1 .. z, i - 1 \in G PROVE i \in G
    <3>1. Next1(i, g[i - 1]) \in V BY <1>4, <2>2
    <3> QED BY <1>1, <1>9, <3>1
  <2> HIDE DEF G
  <2>3. \A i \in 0 .. z : i \in G BY <1>1, <2>1, <2>2, Upward
  <2> QED BY <2>3 DEF G
<1>11. g \in [0 .. z -> V] BY <1>8, <1>10
<1>12. WritesRows(g, r) BY <1>9, <1>11 DEF WritesRows, z, V, Next1
<1> QED BY <1>8, <1>12 DEF z

\* save_usage writes rows of the table.
LEMMA WrittenIs ==
  ASSUME NEW r \in Seq(AppRow)
  PROVE  Written(r) \in Seq(AppRow)
<1>1. Len(r) \in 0 .. Len(r) BY LenProperties
<1> QED BY <1>1, RowsWritten DEF WritesRows

\* h[T] is the table after T was charged.
ChargesAll(h, r, S, gain) ==
  /\ h[{}] = r
  /\ \A T \in SUBSET S : RowsOK(h[T])
  /\ \A T \in SUBSET S : T # {} =>
       LET a == Choice(T)
           u == WithApp(h[T \ {a}], Today, a)
       IN h[T] = [u EXCEPT ![AppPlace(u, Today, a)].bytes = @ + gain[a]]

LEMMA RowsCharged ==
  ASSUME NEW r, RowsOK(r), NEW S \in SUBSET Apps, NEW gain, \A a \in S : gain[a] \in Nat,
         day \in DOMAIN Calendar
  PROVE  \E h : ChargesAll(h, r, S, gain) /\ Charged(r, S, gain) = h[S]
<1> DEFINE Place(T, x) == AppPlace(WithApp(x, Today, Choice(T)), Today, Choice(T))
           Next1(T, x) == [WithApp(x, Today, Choice(T)) EXCEPT ![Place(T, x)].bytes = @ + gain[Choice(T)]]
           V == {x \in Seq(AppRow) : Len(x) <= UsageRows}
           step == [T \in SUBSET S |-> [x \in V |-> IF T = {} THEN x ELSE Next1(T, x)]]
           Charge(h) == h = [T \in SUBSET S |-> IF T = {} THEN r ELSE Next1(T, h[T \ {Choice(T)}])]
<1>0. IsFiniteSet(S) BY UsageAssumption, FS_Subset
<1>1. Charged(r, S, gain) = (CHOOSE h : Charge(h))[S] BY DEF Charged, Choice
<1>2. Today \in Days BY TodayIs
<1>a. \A x : x \in V <=> RowsOK(x) BY DEF RowsOK
<1>3. \A T \in SUBSET S : T # {} => \A x \in V : Next1(T, x) \in V
  <2> TAKE T \in SUBSET S
  <2> HAVE T # {}
  <2> TAKE x \in V
  <2> DEFINE a == Choice(T)
             u == WithApp(x, Today, a)
             k == AppPlace(u, Today, a)
             v == gain[a]
  <2>1. a \in S /\ a \in Apps /\ v \in Nat BY ChoiceIn
  <2>2. RowsOK(u) /\ k \in 1 .. Len(u) BY <1>2, <1>a, <2>1, WithAppIs
  <2>3. Next1(T, x) = [u EXCEPT ![k].bytes = @ + v] OBVIOUS
  <2> HIDE DEF u, k, v, Next1
  <2>4. RowsOK([u EXCEPT ![k].bytes = @ + v]) BY <2>1, <2>2, SetRowIs
  <2> QED BY <1>a, <2>3, <2>4
<1> HIDE DEF Next1, V
<1>4. r \in V BY <1>a
<1>5. PICK g : Unfolds(g, SUBSET S, V, r, step)
  <2>1. \A T \in SUBSET S : \A x \in V : step[T][x] \in V BY <1>3
  <2> HIDE DEF step
  <2> QED BY <1>0, <1>4, <2>1, SetRecursion, Zenon
<1>6. \A T \in SUBSET S : g[T] \in V /\ T \ {Choice(T)} \in SUBSET S BY <1>5 DEF Unfolds
<1>7. Charge(g)
  <2>1. ASSUME NEW T \in SUBSET S PROVE g[T] = IF T = {} THEN r ELSE Next1(T, g[T \ {Choice(T)}])
    <3>1. CASE T = {} BY <1>5, <3>1 DEF Unfolds
    <3>2. CASE T # {}
      <4>1. g[T] = step[T][g[T \ {Choice(T)}]] BY <1>5, <3>2 DEF Unfolds
      <4>2. g[T \ {Choice(T)}] \in V BY <1>6
      <4> QED BY <3>2, <4>1, <4>2
    <3> QED BY <3>1, <3>2
  <2>2. g = [T \in SUBSET S |-> g[T]] BY <1>5 DEF Unfolds
  <2> QED BY <2>1, <2>2
<1>8. Charge(CHOOSE h : Charge(h)) BY <1>7, Zenon
<1> DEFINE h == CHOOSE k : Charge(k)
<1> HIDE DEF h
<1>9. Charge(h) /\ Charged(r, S, gain) = h[S] BY <1>1, <1>8 DEF h
<1>10. \A T \in SUBSET S : h[T] = IF T = {} THEN r ELSE Next1(T, h[T \ {Choice(T)}]) BY <1>9
<1> DEFINE G == {T \in SUBSET S : h[T] \in V}
<1>11. {} \in G BY <1>4, <1>10
<1>12. ASSUME NEW T \in SUBSET S, T # {}, \A c \in T : T \ {c} \in G PROVE T \in G
  <2>1. h[T \ {Choice(T)}] \in V BY <1>12, ChoiceIn
  <2> QED BY <1>3, <1>10, <1>12, <2>1
<1>13. \A T \in SUBSET S : T \in G
  <2> HIDE DEF G
  <2> QED BY <1>0, <1>11, <1>12, Inward
<1>14. ChargesAll(h, r, S, gain)
  <2>1. \A T \in SUBSET S : RowsOK(h[T]) BY <1>13, <1>a
  <2>2. \A T \in SUBSET S : T # {} => h[T] = Next1(T, h[T \ {Choice(T)}]) BY <1>10
  <2>3. h[{}] = r BY <1>10
  <2> QED BY <2>1, <2>2, <2>3 DEF ChargesAll, Next1
<1> QED BY <1>9, <1>14

\* The charges of a pass keep the rows within their room.
LEMMA ChargedIs ==
  ASSUME NEW r, RowsOK(r), NEW S \in SUBSET Apps, NEW gain, \A a \in S : gain[a] \in Nat,
         day \in DOMAIN Calendar
  PROVE  RowsOK(Charged(r, S, gain))
<1>1. PICK h : ChargesAll(h, r, S, gain) /\ Charged(r, S, gain) = h[S] BY RowsCharged
<1>2. S \in SUBSET S OBVIOUS
<1> QED BY <1>1, <1>2 DEF ChargesAll

-----------------------------------------------------------------------------
(***************************************************************************)
(* What the rows have of an application.                                   *)
(***************************************************************************)
\* What the rows hold of an application.
Mine(r, a) == [i \in 1 .. Len(r) |-> [bytes |-> IF r[i].app = a THEN r[i].bytes ELSE 0]]
BytesFor(r, a) == Bytes(Mine(r, a))
Share == [bytes : Nat]

LEMMA MineIs ==
  ASSUME NEW r \in Seq(AppRow), NEW a
  PROVE  /\ Mine(r, a) \in Seq(Share) /\ Len(Mine(r, a)) = Len(r) /\ Weighs(Share) /\ Len(r) \in Nat
         /\ \A i \in 1 .. Len(r) : /\ r[i] \in AppRow /\ r[i].bytes \in Nat
                                   /\ Mine(r, a)[i].bytes = IF r[i].app = a THEN r[i].bytes ELSE 0
<1>1. Len(r) \in Nat /\ \A i \in 1 .. Len(r) : r[i] \in AppRow BY LenProperties, ElementOfSeq
<1>2. \A i \in 1 .. Len(r) : r[i].bytes \in Nat BY <1>1 DEF AppRow
<1>3. Mine(r, a) \in [1 .. Len(r) -> Share] BY <1>2 DEF Mine, Share
<1>4. Mine(r, a) \in Seq(Share) /\ Len(Mine(r, a)) = Len(r) BY <1>1, <1>3, SeqDef, LenProperties
<1> QED BY <1>1, <1>2, <1>4 DEF Mine, Share, Weighs

LEMMA ForType ==
  ASSUME NEW r \in Seq(AppRow), NEW a
  PROVE  BytesFor(r, a) \in Nat
<1>1. Mine(r, a) \in Seq(Share) /\ Weighs(Share) BY MineIs
<1> HIDE DEF Share
<1> QED BY <1>1, BytesType DEF BytesFor

LEMMA ForNone == \A a : BytesFor(<<>>, a) = 0
<1> TAKE a
<1>1. Mine(<<>>, a) = <<>> BY DEF Mine
<1> QED BY <1>1, BytesNone DEF BytesFor

\* It is what the properties count of it.
LEMMA ForIs ==
  ASSUME NEW r \in Seq(AppRow), NEW a
  PROVE  BytesFor(r, a) = BytesAt(r, {i \in DOMAIN r : r[i].app = a})
<1> DEFINE P == {i \in DOMAIN r : r[i].app = a}
           z == Len(r)
<1>1. Mine(r, a) \in Seq(Share) /\ Len(Mine(r, a)) = z /\ Weighs(Share) /\ z \in Nat BY MineIs
<1>2. DOMAIN r = 1 .. z BY LenProperties
<1>3. PICK f : AddsUp(f, r, P) /\ BytesAt(r, P) = f[z] BY BytesAtIs, DaysAre
<1>4. PICK g : Sums(g, Mine(r, a)) /\ BytesFor(r, a) = g[z]
  <2> HIDE DEF Share
  <2> QED BY <1>1, BytesIs DEF BytesFor
<1> DEFINE G == {i \in 0 .. z : f[i] = g[i]}
<1>5. 0 \in G BY <1>1, <1>3, <1>4 DEF AddsUp, Sums
<1>6. ASSUME NEW i \in 1 .. z, i - 1 \in G PROVE i \in G
  <2>1. Mine(r, a)[i].bytes = IF i \in P THEN r[i].bytes ELSE 0 BY <1>2, MineIs
  <2>2. f[i] = f[i - 1] + (IF i \in P THEN r[i].bytes ELSE 0) BY <1>3 DEF AddsUp
  <2>3. g[i] = g[i - 1] + Mine(r, a)[i].bytes BY <1>1, <1>4 DEF Sums
  <2>4. f[i] = g[i] BY <1>6, <2>1, <2>2, <2>3
  <2> QED BY <1>1, <2>4
<1>7. z \in G
  <2> HIDE DEF G, z
  <2>1. \A i \in 0 .. z : i \in G BY <1>1, <1>5, <1>6, Upward
  <2> QED BY <1>1, <2>1
<1> QED BY <1>3, <1>4, <1>7

LEMMA ForAppend ==
  ASSUME NEW r \in Seq(AppRow), NEW x \in AppRow, NEW a
  PROVE  BytesFor(Append(r, x), a) = BytesFor(r, a) + IF x.app = a THEN x.bytes ELSE 0
<1> DEFINE u == Append(r, x)
           y == [bytes |-> IF x.app = a THEN x.bytes ELSE 0]
           t == Mine(r, a)
<1>1. u \in Seq(AppRow) /\ Len(u) = Len(r) + 1 /\ u[Len(r) + 1] = x /\ \A i \in 1 .. Len(r) : u[i] = r[i]
  BY AppendProperties
<1>2. t \in Seq(Share) /\ Len(t) = Len(r) /\ Weighs(Share) /\ Len(r) \in Nat BY MineIs
<1>3. y \in Share BY DEF AppRow, Share
<1>4. Mine(u, a) = Append(t, y)
  <2>1. Append(t, y) \in Seq(Share) /\ Len(Append(t, y)) = Len(r) + 1 /\ Append(t, y)[Len(r) + 1] = y
        /\ \A i \in 1 .. Len(r) : Append(t, y)[i] = t[i]
    BY <1>2, <1>3, AppendProperties
  <2>2. Append(t, y) = [i \in 1 .. Len(r) + 1 |-> Append(t, y)[i]] BY <2>1, LenProperties
  <2>3. \A i \in 1 .. Len(r) : t[i] = [bytes |-> IF u[i].app = a THEN u[i].bytes ELSE 0] BY <1>1 DEF Mine
  <2> HIDE DEF u, t
  <2>4. \A i \in 1 .. Len(r) + 1 : Append(t, y)[i] = [bytes |-> IF u[i].app = a THEN u[i].bytes ELSE 0]
    <3> TAKE i \in 1 .. Len(r) + 1
    <3>1. CASE i = Len(r) + 1 BY <1>1, <2>1, <3>1
    <3>2. CASE i # Len(r) + 1
      <4>1. i \in 1 .. Len(r) BY <1>2, <3>2
      <4> QED BY <2>1, <2>3, <4>1
    <3> QED BY <3>1, <3>2
  <2> QED BY <1>1, <2>2, <2>4 DEF Mine
<1> HIDE DEF t, y, Share
<1>5. Bytes(Append(t, y)) = Bytes(t) + y.bytes BY <1>2, <1>3, BytesAppend
<1> QED BY <1>4, <1>5 DEF BytesFor, t, y

\* A row that changes.
LEMMA ForSet ==
  ASSUME NEW r, RowsOK(r), NEW k \in 1 .. Len(r), NEW v \in Nat, NEW a
  PROVE  BytesFor([r EXCEPT ![k].bytes = v], a) = BytesFor(r, a) + IF r[k].app = a THEN v - r[k].bytes ELSE 0
<1> DEFINE u == [r EXCEPT ![k].bytes = v]
           m == Mine(r, a)
           w == Mine(u, a)
<1>1. r \in Seq(AppRow) /\ u \in Seq(AppRow) BY SetRowIs DEF RowsOK
<1>2. DOMAIN r = 1 .. Len(r) /\ DOMAIN u = 1 .. Len(u) /\ DOMAIN u = DOMAIN r /\ Len(r) \in Nat /\ Len(u) \in Nat
  BY <1>1, LenProperties
<1>3. Len(u) = Len(r) BY <1>2
<1>4. /\ \A i \in 1 .. Len(r) : i # k => u[i] = r[i]
      /\ u[k].bytes = v /\ u[k].app = r[k].app
  <2>1. r[k] \in AppRow BY <1>1, ElementOfSeq
  <2>2. u[k] = [r[k] EXCEPT !.bytes = v] BY <1>2
  <2>3. u[k].bytes = v /\ u[k].app = r[k].app BY <2>1, <2>2 DEF AppRow
  <2> QED BY <1>2, <2>3
<1> HIDE DEF u
<1>5. m \in Seq(Share) /\ w \in Seq(Share) /\ Len(m) = Len(r) /\ Len(w) = Len(r) /\ Weighs(Share)
  BY <1>1, <1>3, MineIs
<1>6. /\ m[k].bytes = IF r[k].app = a THEN r[k].bytes ELSE 0
      /\ w[k].bytes = IF r[k].app = a THEN v ELSE 0
      /\ \A i \in 1 .. Len(m) : i # k => w[i].bytes = m[i].bytes
  BY <1>1, <1>3, <1>4, <1>5, MineIs
<1>7. BytesFor(r, a) = Bytes(m) /\ BytesFor(u, a) = Bytes(w) BY DEF BytesFor
<1> HIDE DEF m, w, Share
<1>8. Bytes(w) = Bytes(m) - m[k].bytes + w[k].bytes
  <2>1. k \in 1 .. Len(m) /\ Len(w) = Len(m) BY <1>5
  <2> QED BY <1>5, <1>6, <2>1, BytesSet
<1>9. Bytes(m) \in Nat /\ r[k].bytes \in Nat
  <2>1. r[k] \in AppRow BY <1>1, ElementOfSeq
  <2> QED BY <1>5, <2>1, BytesType DEF AppRow
<1>10. BytesFor(u, a) = BytesFor(r, a) + IF r[k].app = a THEN v - r[k].bytes ELSE 0
  BY <1>6, <1>7, <1>8, <1>9
<1> QED BY <1>10 DEF u

\* Making room or a row for an application adds nothing.
LEMMA ForWith ==
  ASSUME NEW r, RowsOK(r), NEW key \in Days, NEW app \in Apps, NEW a
  PROVE  LET u == WithApp(r, key, app)
         IN BytesFor(u, a) <= BytesFor(r, a) /\ u[AppPlace(u, key, app)].app = app
<1> DEFINE u == WithApp(r, key, app)
           left == AppRoom(r)
           row == [day |-> key, app |-> app, bytes |-> 0]
<1>1. r \in Seq(AppRow) /\ UsageRows \in Nat \ {0} BY UsageAssumption DEF RowsOK
<1>2. RowsOK(u) /\ AppPlace(u, key, app) \in 1 .. Len(u) BY WithAppIs
<1>3. u[AppPlace(u, key, app)].app = app
  <2> HIDE DEF u
  <2>1. u \in Seq(AppRow) BY <1>2 DEF RowsOK
  <2>2. AppPlace(u, key, app) # 0
    <3>1. Len(u) \in Nat BY <2>1, LenProperties
    <3> QED BY <1>2, <3>1
  <2> QED BY <2>1, <2>2, AppPlaceIs DEF IsAppPlace
<1>4. BytesFor(r, a) \in Nat BY <1>1, ForType
<1>5. BytesFor(left, a) <= BytesFor(r, a)
  <2>1. CASE left = r BY <1>4, <2>1
  <2>2. CASE left # r
    <3> DEFINE k == FirstDayLength(r)
               z == Len(r)
    <3>1. left = SubSeq(r, k + 1, z) /\ z = UsageRows BY <2>2 DEF AppRoom
    <3>2. z \in Nat BY <1>1, LenProperties
    <3>3. k \in 0 .. z
      <4> DEFINE first == {i \in DOMAIN r : \A j \in 1 .. i : r[j].day = r[1].day}
      <4>1. first \in SUBSET (1 .. z) /\ k = Cardinality(first) BY <1>1, LenProperties DEF FirstDayLength
      <4> HIDE DEF first, z
      <4>2. 1 \in Int /\ z \in Int BY <3>2
      <4>3. IsFiniteSet(1 .. z) /\ Cardinality(1 .. z) = IF 1 > z THEN 0 ELSE z - 1 + 1 BY <4>2, FS_Interval
      <4>4. IsFiniteSet(first) /\ Cardinality(first) <= Cardinality(1 .. z) BY <4>1, <4>3, FS_Subset
      <4>5. Cardinality(first) \in Nat BY <4>4, FS_CardinalityType
      <4> QED BY <3>2, <4>1, <4>3, <4>4, <4>5
    <3> HIDE DEF k, z
    <3>4. left \in Seq(AppRow) /\ Len(left) = z - k /\ \A i \in 1 .. z - k : left[i] = r[i + k]
      <4>1. SubSeq(r, k + 1, z) = [i \in 1 .. z - k |-> r[i + k]]
        <5>1. SubSeq(r, k + 1, z) = [i \in 1 .. 1 + z - (k + 1) |-> r[i + (k + 1) - 1]] BY <3>2, <3>3
        <5>2. 1 + z - (k + 1) = z - k /\ \A i \in 1 .. z - k : i + (k + 1) - 1 = i + k BY <3>2, <3>3
        <5> QED BY <5>1, <5>2
      <4>2. left \in Seq(AppRow) BY AppRoomIs
      <4>3. Len(left) = z - k BY <3>1, <3>2, <3>3, <4>1, <4>2, LenProperties
      <4> QED BY <3>1, <4>1, <4>2, <4>3
    <3>5. Len(r) = z BY DEF z
    <3> DEFINE m == Mine(r, a)
               w == Mine(left, a)
    <3>6. m \in Seq(Share) /\ w \in Seq(Share) /\ Weighs(Share) /\ Len(m) = z /\ Len(w) = z - k
      BY <1>1, <3>4, <3>5, MineIs
    <3>7. \A i \in 1 .. Len(w) : w[i].bytes = m[i + k].bytes
      <4> TAKE i \in 1 .. Len(w)
      <4>1. i \in 1 .. Len(left) /\ i + k \in 1 .. Len(r) /\ left[i] = r[i + k] BY <3>2, <3>3, <3>4, <3>5, <3>6
      <4> QED BY <1>1, <3>4, <4>1, MineIs
    <3>8. Len(m) = Len(w) + k /\ k \in Nat BY <3>2, <3>3, <3>6
    <3> HIDE DEF m, w, Share
    <3>9. Bytes(w) <= Bytes(m) BY <3>6, <3>7, <3>8, BytesRest
    <3> QED BY <3>9 DEF BytesFor, m, w
  <2> QED BY <2>1, <2>2
<1>6. BytesFor(u, a) <= BytesFor(r, a)
  <2>1. CASE AppPlace(r, key, app) # 0 BY <1>4, <2>1 DEF WithApp
  <2>2. CASE AppPlace(r, key, app) = 0
    <3>1. u = Append(left, row) BY <2>2 DEF WithApp
    <3>2. left \in Seq(AppRow) BY AppRoomIs
    <3>3. row \in AppRow /\ row.bytes = 0 BY DEF AppRow, Days
    <3>4. BytesFor(left, a) \in Nat BY <3>2, ForType
    <3> HIDE DEF u, left, row
    <3>5. BytesFor(u, a) = BytesFor(left, a) + IF row.app = a THEN row.bytes ELSE 0 BY <3>1, <3>2, <3>3, ForAppend
    <3> QED BY <1>4, <1>5, <3>3, <3>4, <3>5
  <2> QED BY <2>1, <2>2
<1> QED BY <1>3, <1>6

\* A row of the file replaces what there was of its day.
LEMMA ForLoadRow ==
  ASSUME NEW r, RowsOK(r), NEW x \in AppRow, NEW a
  PROVE  BytesFor(LoadRow(r, x), a) <= BytesFor(r, a) + IF x.app = a THEN x.bytes ELSE 0
<1> DEFINE u == WithApp(r, x.day, x.app)
           k == AppPlace(u, x.day, x.app)
           v == x.bytes
<1>1. x.day \in Days /\ x.app \in Apps /\ v \in Nat BY DEF AppRow, Days
<1>2. RowsOK(u) /\ k \in 1 .. Len(u) BY <1>1, WithAppIs
<1>3. LoadRow(r, x) = IF x.day < Cutoff THEN r ELSE [u EXCEPT ![k].bytes = v] BY DEF LoadRow
<1>4. BytesFor(u, a) <= BytesFor(r, a) /\ u[k].app = x.app BY <1>1, ForWith
<1> HIDE DEF u, k, v
<1>5. BytesFor(r, a) \in Nat /\ BytesFor(u, a) \in Nat BY <1>2, ForType DEF RowsOK
<1>6. u[k].bytes \in Nat
  <2>1. u[k] \in AppRow BY <1>2, ElementOfSeq DEF RowsOK
  <2> QED BY <2>1 DEF AppRow
<1>7. BytesFor([u EXCEPT ![k].bytes = v], a) = BytesFor(u, a) + IF u[k].app = a THEN v - u[k].bytes ELSE 0
  BY <1>1, <1>2, ForSet
<1>8. v = x.bytes BY DEF v
<1> QED BY <1>1, <1>3, <1>4, <1>5, <1>6, <1>7, <1>8

\* What is loaded of an application has no more bytes than the file.
LEMMA LoadRowsLess ==
  ASSUME NEW saved \in Seq(AppRow), NEW a
  PROVE  BytesFor(LoadRows(saved), a) <= BytesFor(saved, a)
<1> DEFINE z == Len(saved)
           m == Mine(saved, a)
<1>1. /\ z \in Nat /\ m \in Seq(Share) /\ Len(m) = z /\ Weighs(Share)
      /\ \A i \in 1 .. z : /\ saved[i] \in AppRow /\ saved[i].bytes \in Nat
                           /\ m[i].bytes = IF saved[i].app = a THEN saved[i].bytes ELSE 0
  BY MineIs
<1>2. PICK f : LoadsRows(f, saved) /\ LoadRows(saved) = f[z] BY RowsLoaded
<1>3. PICK g : Sums(g, m) /\ BytesFor(saved, a) = g[z]
  <2> HIDE DEF Share
  <2> QED BY <1>1, BytesIs DEF BytesFor
<1> HIDE DEF m, z
<1>4. \A i \in 0 .. z : g[i] \in Nat BY <1>1, <1>3 DEF Sums
<1>5. \A i \in 0 .. z : RowsOK(f[i]) /\ BytesFor(f[i], a) \in Nat
  <2> TAKE i \in 0 .. z
  <2>1. RowsOK(f[i]) BY <1>2 DEF LoadsRows, z
  <2> QED BY <2>1, ForType DEF RowsOK
<1> DEFINE G == {i \in 0 .. z : BytesFor(f[i], a) <= g[i]}
<1>6. 0 \in G
  <2>1. f[0] = <<>> /\ g[0] = 0 BY <1>2, <1>3 DEF LoadsRows, Sums
  <2>2. BytesFor(f[0], a) = 0 BY <2>1, ForNone
  <2> QED BY <1>1, <2>1, <2>2
<1>7. ASSUME NEW i \in 1 .. z, i - 1 \in G PROVE i \in G
  <2>1. i - 1 \in 0 .. z /\ i \in 0 .. z BY <1>1
  <2>2. RowsOK(f[i - 1]) /\ f[i] = LoadRow(f[i - 1], saved[i]) BY <1>2, <1>5, <2>1 DEF LoadsRows, z
  <2>3. BytesFor(f[i], a) <= BytesFor(f[i - 1], a) + IF saved[i].app = a THEN saved[i].bytes ELSE 0
    BY <1>1, <2>2, ForLoadRow
  <2>4. g[i] = g[i - 1] + m[i].bytes BY <1>1, <1>3 DEF Sums
  <2>5. BytesFor(f[i - 1], a) <= g[i - 1] BY <1>7
  <2>6. /\ BytesFor(f[i - 1], a) \in Nat /\ BytesFor(f[i], a) \in Nat /\ g[i - 1] \in Nat /\ g[i] \in Nat
    BY <1>4, <1>5, <2>1
  <2>7. BytesFor(f[i], a) <= g[i] BY <1>1, <2>3, <2>4, <2>5, <2>6
  <2> QED BY <2>1, <2>7
<1>8. z \in G
  <2> HIDE DEF G
  <2>1. \A i \in 0 .. z : i \in G BY <1>1, <1>6, <1>7, Upward
  <2> QED BY <1>1, <2>1
<1> QED BY <1>2, <1>3, <1>8

\* The rows that are not written have no bytes.
LEMMA ForWritten ==
  ASSUME NEW r \in Seq(AppRow), NEW a
  PROVE  BytesFor(Written(r), a) = BytesFor(r, a)
<1> DEFINE z == Len(r)
           m == Mine(r, a)
<1>1. /\ z \in Nat /\ m \in Seq(Share) /\ Len(m) = z /\ Weighs(Share)
      /\ \A i \in 1 .. z : /\ r[i] \in AppRow /\ r[i].bytes \in Nat
                           /\ m[i].bytes = IF r[i].app = a THEN r[i].bytes ELSE 0
  BY MineIs
<1>2. PICK f : WritesRows(f, r) /\ Written(r) = f[z] BY RowsWritten
<1>3. PICK g : Sums(g, m) /\ BytesFor(r, a) = g[z]
  <2> HIDE DEF Share
  <2> QED BY <1>1, BytesIs DEF BytesFor
<1> HIDE DEF m, z
<1>4. \A i \in 0 .. z : f[i] \in Seq(AppRow) /\ BytesFor(f[i], a) \in Nat
  <2> TAKE i \in 0 .. z
  <2>1. f[i] \in Seq(AppRow) BY <1>2 DEF WritesRows, z
  <2> QED BY <2>1, ForType
<1> DEFINE G == {i \in 0 .. z : BytesFor(f[i], a) = g[i]}
<1>5. 0 \in G
  <2>1. f[0] = <<>> /\ g[0] = 0 BY <1>2, <1>3 DEF WritesRows, Sums
  <2>2. BytesFor(f[0], a) = 0 BY <2>1, ForNone
  <2> QED BY <1>1, <2>1, <2>2
<1>6. ASSUME NEW i \in 1 .. z, i - 1 \in G PROVE i \in G
  <2>1. i - 1 \in 0 .. z /\ i \in 0 .. z BY <1>1
  <2>2. f[i - 1] \in Seq(AppRow) /\ BytesFor(f[i - 1], a) \in Nat BY <1>4, <2>1
  <2>3. f[i] = IF r[i].bytes > 0 THEN Append(f[i - 1], r[i]) ELSE f[i - 1] BY <1>2 DEF WritesRows, z
  <2>4. g[i] = g[i - 1] + m[i].bytes BY <1>1, <1>3 DEF Sums
  <2>5. BytesFor(f[i - 1], a) = g[i - 1] BY <1>6
  <2>6. BytesFor(Append(f[i - 1], r[i]), a) = BytesFor(f[i - 1], a) + IF r[i].app = a THEN r[i].bytes ELSE 0
    BY <1>1, <2>2, ForAppend
  <2>7. BytesFor(f[i], a) = g[i] BY <1>1, <2>2, <2>3, <2>4, <2>5, <2>6
  <2> QED BY <2>1, <2>7
<1>7. z \in G
  <2> HIDE DEF G
  <2>1. \A i \in 0 .. z : i \in G BY <1>1, <1>5, <1>6, Upward
  <2> QED BY <1>1, <2>1
<1> QED BY <1>2, <1>3, <1>7

\* An application is charged what it gained, once.
LEMMA ForCharged ==
  ASSUME NEW r, RowsOK(r), NEW S \in SUBSET Apps, NEW gain, \A a \in S : gain[a] \in Nat,
         day \in DOMAIN Calendar, NEW a
  PROVE  BytesFor(Charged(r, S, gain), a) <= BytesFor(r, a) + IF a \in S THEN gain[a] ELSE 0
<1>1. PICK h : ChargesAll(h, r, S, gain) /\ Charged(r, S, gain) = h[S] BY RowsCharged
<1>2. IsFiniteSet(S) BY UsageAssumption, FS_Subset
<1>3. \A T \in SUBSET S : RowsOK(h[T]) /\ BytesFor(h[T], a) \in Nat BY <1>1, ForType DEF ChargesAll, RowsOK
<1> DEFINE G == {T \in SUBSET S : BytesFor(h[T], a) <= BytesFor(r, a) + IF a \in T THEN gain[a] ELSE 0}
<1>4. {} \in G
  <2>1. h[{}] = r BY <1>1 DEF ChargesAll
  <2>2. BytesFor(h[{}], a) \in Nat BY <1>3
  <2> QED BY <2>1, <2>2
<1>5. ASSUME NEW T \in SUBSET S, T # {}, \A c \in T : T \ {c} \in G PROVE T \in G
  <2> DEFINE b == Choice(T)
             t == h[T \ {b}]
             u == WithApp(t, Today, b)
             k == AppPlace(u, Today, b)
             v == u[k].bytes + gain[b]
  <2>1. b \in T /\ b \in S /\ b \in Apps BY <1>5, ChoiceIn
  <2>2. T \ {b} \in G /\ T \ {b} \in SUBSET S BY <1>5, <2>1
  <2>3. h[T] = [u EXCEPT ![k].bytes = v] BY <1>1, <1>5 DEF ChargesAll
  <2>4. RowsOK(t) /\ BytesFor(t, a) \in Nat BY <1>3, <2>2
  <2>5. BytesFor(t, a) <= BytesFor(r, a) + IF a \in T \ {b} THEN gain[a] ELSE 0 BY <2>2
  <2> HIDE DEF b, t, G
  <2>6. /\ RowsOK(u) /\ k \in 1 .. Len(u)
        /\ BytesFor(u, a) <= BytesFor(t, a) /\ u[k].app = b
    BY <2>1, <2>4, TodayIs, WithAppIs, ForWith
  <2> HIDE DEF u, k
  <2>7. u[k].bytes \in Nat /\ gain[b] \in Nat /\ BytesFor(u, a) \in Nat
    <3>1. u[k] \in AppRow BY <2>6, ElementOfSeq DEF RowsOK
    <3> QED BY <2>1, <2>6, <3>1, ForType DEF AppRow, RowsOK
  <2>8. v \in Nat BY <2>7
  <2>9. v - u[k].bytes = gain[b] BY <2>7
  <2> HIDE DEF v
  <2>10. BytesFor(h[T], a) = BytesFor(u, a) + IF b = a THEN gain[b] ELSE 0
    <3>1. BytesFor([u EXCEPT ![k].bytes = v], a) = BytesFor(u, a) + IF u[k].app = a THEN v - u[k].bytes ELSE 0
      BY <2>6, <2>8, ForSet
    <3> QED BY <2>3, <2>6, <2>9, <3>1
  <2>11. BytesFor(h[T], a) <= BytesFor(r, a) + IF a \in T THEN gain[a] ELSE 0
    <3>0. BytesFor(r, a) \in Nat BY ForType DEF RowsOK
    <3>1. CASE b = a
      <4>1. BytesFor(t, a) <= BytesFor(r, a) BY <2>4, <2>5, <3>0, <3>1
      <4> QED BY <2>1, <2>4, <2>6, <2>7, <2>10, <3>0, <3>1, <4>1
    <3>2. CASE b # a /\ a \in T
      <4>1. gain[a] \in Nat BY <3>2
      <4>2. BytesFor(t, a) <= BytesFor(r, a) + gain[a] BY <2>5, <3>2
      <4> QED BY <2>4, <2>6, <2>7, <2>10, <3>0, <3>2, <4>1, <4>2
    <3>3. CASE b # a /\ a \notin T
      <4>1. BytesFor(t, a) <= BytesFor(r, a) BY <2>4, <2>5, <3>0, <3>3
      <4> QED BY <2>4, <2>6, <2>7, <2>10, <3>0, <3>3, <4>1
    <3> QED BY <3>1, <3>2, <3>3
  <2> QED BY <2>11 DEF G
<1>6. \A T \in SUBSET S : T \in G
  <2> HIDE DEF G
  <2> QED BY <1>2, <1>4, <1>5, Inward
<1>7. S \in G BY <1>6
<1> QED BY <1>1, <1>7

-----------------------------------------------------------------------------
(***************************************************************************)
(* A pass over the connections.                                            *)
(***************************************************************************)
FlowsOK(f) == /\ DOMAIN f \subseteq Udp /\ Cardinality(DOMAIN f) <= MaxFlows
              /\ Range(f) \subseteq [app : Apps, bytes : Nat, fresh : BOOLEAN]
ConnsOK(f) == /\ DOMAIN f \subseteq Conns /\ Cardinality(DOMAIN f) <= MaxConns
              /\ Range(f) \subseteq Counts
AppsOK(f)  == /\ DOMAIN f \subseteq Apps /\ Cardinality(DOMAIN f) <= MaxApps
              /\ Range(f) \subseteq [retired : Nat, counted : Nat]

LEMMA RangeIs == \A f, S : Range(f) \subseteq S <=> \A x \in DOMAIN f : f[x] \in S
  BY DEF Range

LEMMA MinIs ==
  ASSUME NEW a \in Nat, NEW b \in Int
  PROVE  Min({a, b}) \in {a, b} /\ Min({a, b}) \in Int /\ Min({a, b}) <= a /\ Min({a, b}) <= b
<1>1. \E x \in {a, b} : \A y \in {a, b} : x =< y
  <2>1. CASE a <= b BY <2>1
  <2>2. CASE b <= a BY <2>2
  <2> QED BY <2>1, <2>2
<1>2. Min({a, b}) \in {a, b} /\ \A y \in {a, b} : Min({a, b}) =< y BY <1>1, Zenon DEF Min
<1> QED BY <1>2

\* The table of the days with what a turn gained.
Ledger(t, gained) ==
  LET ledger == WithTotal(t, Today)
  IN IF gained > 0 THEN [ledger EXCEPT ![PlaceOf(ledger, Today)].bytes = @ + gained] ELSE t

LEMMA LedgerIs ==
  ASSUME NEW t, TotalsOK(t), NEW gained \in Nat, day \in DOMAIN Calendar
  PROVE  /\ TotalsOK(Ledger(t, gained)) /\ Bytes(Ledger(t, gained)) <= Bytes(t) + gained
         /\ (gained > 0 /\ PlaceOf(t, Today) = 0 => Len(t) < UsageDays)
              => Bytes(Ledger(t, gained)) = Bytes(t) + gained
<1> DEFINE u == WithTotal(t, Today)
           k == PlaceOf(u, Today)
           v == u[k].bytes + gained
<1>1. Bytes(t) \in Nat BY BytesType, DaysAre DEF TotalsOK
<1>2. CASE ~(gained > 0)
  <2>1. Ledger(t, gained) = t /\ gained = 0 BY <1>2 DEF Ledger
  <2> QED BY <1>1, <2>1
<1>3. CASE gained > 0
  <2>1. Ledger(t, gained) = [u EXCEPT ![k].bytes = v] BY <1>3 DEF Ledger
  <2>2. TotalsOK(u) /\ k \in 1 .. Len(u) /\ Bytes(u) <= Bytes(t)
    BY TodayIs, WithTotalIs
  <2>3. PlaceOf(t, Today) # 0 \/ Len(t) < UsageDays => Bytes(u) = Bytes(t)
    BY TodayIs, WithTotalIs
  <2> HIDE DEF u, k
  <2>4. u[k].bytes \in Nat
    <3>1. 0 \in Nat OBVIOUS
    <3> QED BY <2>2, <3>1, SetTotalIs
  <2>5. v \in Nat BY <2>4
  <2>6. Bytes(u) \in Nat BY <2>2, BytesType, DaysAre DEF TotalsOK
  <2>7. TotalsOK(Ledger(t, gained)) /\ Bytes(Ledger(t, gained)) = Bytes(u) + gained
    <3> DEFINE w == v
    <3>1. w \in Nat /\ Ledger(t, gained) = [u EXCEPT ![k].bytes = w] BY <2>1, <2>5
    <3>2. w = u[k].bytes + gained OBVIOUS
    <3> HIDE DEF w
    <3>3. TotalsOK([u EXCEPT ![k].bytes = w]) /\ Bytes([u EXCEPT ![k].bytes = w]) = Bytes(u) - u[k].bytes + w
      BY <2>2, <3>1, SetTotalIs
    <3>4. Bytes(u) - u[k].bytes + w = Bytes(u) + gained BY <2>4, <2>6, <3>2
    <3> QED BY <3>1, <3>3, <3>4, Zenon
  <2> QED BY <1>1, <1>3, <2>2, <2>3, <2>6, <2>7
<1> QED BY <1>2, <1>3

KeptFlows(idle) == [c \in DOMAIN flows \ idle |-> [flows[c] EXCEPT !.fresh = FALSE]]
Opened == {c \in Tcp : owner[c] # None}
Listed(idle, tcp, udp, readable) == Fresh(tcp \cup udp, KeptFlows(idle), readable)
Named(fresh) == {fresh[c].app : c \in DOMAIN fresh} \ DOMAIN apps

\* The choices of a pass: the flows that are dropped, the connections that are
\* listed, those that are read, and the applications that are new.
IsPass(idle, tcp, udp, readable, named) ==
  /\ idle \subseteq DOMAIN flows
  /\ tcp \in kSubset(Min({Cardinality(Opened), MaxConns}), Opened)
  /\ udp \in kSubset(Min({Cardinality(DOMAIN KeptFlows(idle)), MaxConns - Cardinality(tcp)}),
                     DOMAIN KeptFlows(idle))
  /\ readable \subseteq tcp
  /\ LET new == Named(Listed(idle, tcp, udp, readable))
     IN named \in kSubset(Min({Cardinality(new), MaxApps - Cardinality(DOMAIN apps)}), new)

IsMarked(idle, tcp, udp, readable, t0, gained, marks) ==
  strange' = strange \cup marks
    \cup (IF readable # tcp THEN {"blind"} ELSE {})
    \cup (IF tcp \cup udp # Opened \cup DOMAIN KeptFlows(idle) THEN {"crowded"} ELSE {})
    \cup (IF Len(totals') < Len(t0) + (IF gained > 0 /\ PlaceOf(t0, Today) = 0 THEN 1 ELSE 0)
          THEN {"full"} ELSE {})

LEMMA PassesIs ==
  ASSUME NEW initial, NEW t0, NEW r0, NEW gained, NEW marks,
         Passes(initial, t0, r0, gained, marks)
  PROVE  \E idle, tcp, udp, readable, named :
           /\ IsPass(idle, tcp, udp, readable, named)
           /\ Account(initial, Listed(idle, tcp, udp, readable), DOMAIN apps \cup named, gained, t0, r0)
           /\ flows' = KeptFlows(idle)
           /\ IsMarked(idle, tcp, udp, readable, t0, gained, marks)
<1>1. PICK idle \in SUBSET {c \in DOMAIN flows : ~flows[c].fresh} :
    \E tcp \in kSubset(Min({Cardinality(Opened), MaxConns}), Opened) :
    \E udp \in kSubset(Min({Cardinality(DOMAIN KeptFlows(idle)), MaxConns - Cardinality(tcp)}),
                      DOMAIN KeptFlows(idle)) :
    \E readable \in (IF May("blind") THEN SUBSET tcp ELSE {tcp}) :
    \E named \in kSubset(Min({Cardinality(Named(Listed(idle, tcp, udp, readable))),
                              MaxApps - Cardinality(DOMAIN apps)}), Named(Listed(idle, tcp, udp, readable))) :
      /\ Account(initial, Listed(idle, tcp, udp, readable), DOMAIN apps \cup named, gained, t0, r0)
      /\ flows' = KeptFlows(idle)
      /\ IsMarked(idle, tcp, udp, readable, t0, gained, marks)
  BY Zenon DEF Passes, KeptFlows, Opened, Listed, Named, IsMarked
<1>2. idle \subseteq DOMAIN flows OBVIOUS
<1>3. \A tcp : \A readable \in (IF May("blind") THEN SUBSET tcp ELSE {tcp}) : readable \subseteq tcp OBVIOUS
<1> QED BY <1>1, <1>2, <1>3, Zenon DEF IsPass

\* A choice of members of a finite set.
LEMMA SubsetIs ==
  ASSUME NEW S, IsFiniteSet(S), NEW k \in Int, NEW T, T \in kSubset(Min({Cardinality(S), k}), S)
  PROVE  T \subseteq S /\ IsFiniteSet(T) /\ Cardinality(T) \in Nat /\ Cardinality(T) <= k
<1>1. T \subseteq S /\ Cardinality(T) = Min({Cardinality(S), k}) BY DEF kSubset
<1>2. Cardinality(S) \in Nat BY FS_CardinalityType
<1>3. IsFiniteSet(T) /\ Cardinality(T) \in Nat BY <1>1, FS_Subset, FS_CardinalityType
<1> QED BY <1>1, <1>2, <1>3, MinIs

\* A pass keeps the flows that are not dropped, and lists some of them and some of
\* the open connections.
Lists(kept, fresh, idle, tcp, udp, readable) ==
  /\ FlowsOK(kept) /\ DOMAIN kept = DOMAIN flows \ idle
  /\ \A c \in DOMAIN kept : kept[c].app = flows[c].app /\ kept[c].bytes = flows[c].bytes
  /\ tcp \subseteq Opened /\ udp \subseteq DOMAIN kept /\ Tcp \cap DOMAIN kept = {}
  /\ ConnsOK(fresh) /\ DOMAIN fresh = tcp \cup udp
  /\ \A c \in udp : fresh[c].app = kept[c].app /\ fresh[c].bytes = kept[c].bytes
  /\ \A c \in tcp : fresh[c].app = owner[c] /\ (c \in readable => fresh[c].bytes = sent[c])

LEMMA FreshIs ==
  ASSUME TypeOK, NEW idle, NEW tcp, NEW udp, NEW readable, NEW named, IsPass(idle, tcp, udp, readable, named)
  PROVE  Lists(KeptFlows(idle), Listed(idle, tcp, udp, readable), idle, tcp, udp, readable)
<1> DEFINE kept == KeptFlows(idle)
           fresh == Listed(idle, tcp, udp, readable)
<1>1. /\ DOMAIN flows \subseteq Udp /\ Cardinality(DOMAIN flows) <= MaxFlows
      /\ \A c \in DOMAIN flows : flows[c] \in [app : Apps, bytes : Nat, fresh : BOOLEAN]
  BY RangeIs DEF TypeOK
<1>2. \A c \in DOMAIN conns : conns[c] \in Counts BY RangeIs DEF TypeOK
<1>3. /\ IsFiniteSet(Apps) /\ IsFiniteSet(Tcp) /\ IsFiniteSet(Udp) /\ Tcp \cap Udp = {}
      /\ MaxConns \in Nat /\ MaxFlows \in Nat /\ None \notin Apps
  BY UsageAssumption
<1>4. DOMAIN kept = DOMAIN flows \ idle
      /\ \A c \in DOMAIN kept : /\ kept[c] \in [app : Apps, bytes : Nat, fresh : BOOLEAN]
                                /\ kept[c].app = flows[c].app /\ kept[c].bytes = flows[c].bytes
  BY <1>1 DEF KeptFlows
<1>5. IsFiniteSet(DOMAIN flows) /\ IsFiniteSet(DOMAIN kept) /\ Cardinality(DOMAIN kept) <= Cardinality(DOMAIN flows)
  <2>1. IsFiniteSet(DOMAIN flows) BY <1>1, <1>3, FS_Subset
  <2> HIDE DEF kept
  <2> QED BY <1>4, <2>1, FS_Subset
<1>6. FlowsOK(kept)
  <2>1. Cardinality(DOMAIN kept) \in Nat /\ Cardinality(DOMAIN flows) \in Nat BY <1>5, FS_CardinalityType
  <2> HIDE DEF kept
  <2>2. Cardinality(DOMAIN kept) <= MaxFlows BY <1>1, <1>3, <1>5, <2>1
  <2>3. DOMAIN kept \subseteq Udp BY <1>1, <1>4
  <2> QED BY <1>4, <2>2, <2>3, RangeIs DEF FlowsOK
<1>7. /\ tcp \subseteq Opened /\ IsFiniteSet(tcp) /\ Cardinality(tcp) \in Nat /\ Cardinality(tcp) <= MaxConns
  <2>1. IsFiniteSet(Opened) BY <1>3, FS_Subset DEF Opened
  <2>2. tcp \in kSubset(Min({Cardinality(Opened), MaxConns}), Opened) /\ MaxConns \in Int BY <1>3 DEF IsPass
  <2> QED BY <2>1, <2>2, SubsetIs
<1>8. /\ udp \subseteq DOMAIN kept /\ IsFiniteSet(udp) /\ Cardinality(udp) \in Nat
      /\ Cardinality(udp) <= MaxConns - Cardinality(tcp)
  <2>1. udp \in kSubset(Min({Cardinality(DOMAIN kept), MaxConns - Cardinality(tcp)}), DOMAIN kept)
    BY DEF IsPass
  <2>2. MaxConns - Cardinality(tcp) \in Int BY <1>3, <1>7
  <2> HIDE DEF kept
  <2> QED BY <1>5, <2>1, <2>2, SubsetIs
<1>9. /\ tcp \subseteq Tcp /\ udp \subseteq Udp /\ tcp \cap Udp = {} /\ Tcp \cap DOMAIN kept = {}
      /\ \A c \in tcp : owner[c] \in Apps /\ sent[c] \in Nat
  <2>1. tcp \subseteq Tcp /\ udp \subseteq Udp BY <1>1, <1>4, <1>7, <1>8 DEF Opened
  <2>2. \A c \in tcp : owner[c] \in Apps /\ sent[c] \in Nat BY <1>7, <2>1 DEF Opened, TypeOK, Conns
  <2> QED BY <1>1, <1>3, <1>4, <2>1, <2>2
<1>10. DOMAIN fresh = tcp \cup udp BY DEF Listed, Fresh
<1>11. ASSUME NEW c \in udp
       PROVE  fresh[c] \in Counts /\ fresh[c].app = kept[c].app /\ fresh[c].bytes = kept[c].bytes
  <2>1. fresh[c] = [app |-> kept[c].app, bytes |-> kept[c].bytes] BY <1>9, <1>11 DEF Listed, Fresh
  <2>2. kept[c] \in [app : Apps, bytes : Nat, fresh : BOOLEAN] BY <1>4, <1>8, <1>11
  <2> HIDE DEF kept, fresh
  <2> QED BY <2>1, <2>2 DEF Counts
<1>12. ASSUME NEW c \in tcp
       PROVE  /\ fresh[c] \in Counts /\ fresh[c].app = owner[c]
              /\ c \in readable => fresh[c].bytes = sent[c]
  <2> DEFINE b == IF c \in readable THEN sent[c] ELSE IF c \in DOMAIN conns THEN conns[c].bytes ELSE 0
  <2>1. fresh[c] = [app |-> owner[c], bytes |-> b] BY <1>9, <1>12 DEF Listed, Fresh
  <2>2. b \in Nat BY <1>2, <1>9, <1>12 DEF Counts
  <2>3. c \in readable => b = sent[c] OBVIOUS
  <2> HIDE DEF b, fresh
  <2> QED BY <1>9, <1>12, <2>1, <2>2, <2>3 DEF Counts
<1>13. IsFiniteSet(DOMAIN fresh) /\ Cardinality(DOMAIN fresh) <= MaxConns
  <2>1. tcp \cap udp = {} BY <1>9
  <2>2. IsFiniteSet(tcp \cup udp) /\ Cardinality(tcp \cup udp) = Cardinality(tcp) + Cardinality(udp)
    <3>1. Cardinality(tcp \cup udp) = Cardinality(tcp) + Cardinality(udp) - Cardinality(tcp \cap udp)
      BY <1>7, <1>8, FS_Union
    <3>2. IsFiniteSet(tcp \cup udp) BY <1>7, <1>8, FS_Union
    <3>3. Cardinality(tcp \cap udp) = 0 BY <2>1, FS_EmptySet
    <3> QED BY <1>7, <1>8, <3>1, <3>2, <3>3
  <2> HIDE DEF fresh
  <2> QED BY <1>3, <1>7, <1>8, <1>10, <2>2
<1> HIDE DEF fresh, kept
<1>14. ConnsOK(fresh)
  <2>1. DOMAIN fresh \subseteq Conns BY <1>9, <1>10 DEF Conns
  <2>2. \A c \in DOMAIN fresh : fresh[c] \in Counts BY <1>10, <1>11, <1>12
  <2> QED BY <1>13, <2>1, <2>2, RangeIs DEF ConnsOK
<1>15. Lists(kept, fresh, idle, tcp, udp, readable)
  BY <1>4, <1>6, <1>7, <1>8, <1>9, <1>10, <1>11, <1>12, <1>14 DEF Lists
<1> QED BY <1>15 DEF fresh, kept

\* The applications that are counted after a pass: all that have a connection,
\* or as many as the table has room for.
LEMMA KnownIs ==
  ASSUME TypeOK, NEW idle, NEW tcp, NEW udp, NEW readable, NEW named, IsPass(idle, tcp, udp, readable, named)
  PROVE  LET fresh == Listed(idle, tcp, udp, readable)
             known == DOMAIN apps \cup named
         IN /\ IsFiniteSet(known) /\ known \subseteq Apps /\ Cardinality(known) <= MaxApps
            /\ (\A c \in DOMAIN fresh : fresh[c].app \in known) \/ Cardinality(known) = MaxApps
            /\ named # {} => Cardinality(DOMAIN apps) < MaxApps
<1> DEFINE fresh == Listed(idle, tcp, udp, readable)
           known == DOMAIN apps \cup named
<1>1. IsFiniteSet(Apps) /\ MaxApps \in Nat BY UsageAssumption
<1>2. \A c \in DOMAIN fresh : fresh[c].app \in Apps
  <2>1. ConnsOK(fresh) BY FreshIs DEF Lists
  <2> HIDE DEF fresh
  <2> QED BY <2>1, RangeIs DEF ConnsOK, Counts
<1>3. named \in kSubset(Min({Cardinality(Named(fresh)), MaxApps - Cardinality(DOMAIN apps)}), Named(fresh))
  BY DEF IsPass, fresh
<1> HIDE DEF fresh
<1>4. Named(fresh) \subseteq Apps /\ named \subseteq Named(fresh) BY <1>2, <1>3 DEF Named, kSubset
<1>5. DOMAIN apps \subseteq Apps /\ Cardinality(DOMAIN apps) <= MaxApps BY DEF TypeOK
<1>6. known \subseteq Apps BY <1>4, <1>5
<1>7. IsFiniteSet(known) /\ IsFiniteSet(DOMAIN apps) /\ IsFiniteSet(Named(fresh))
  BY <1>1, <1>4, <1>5, <1>6, FS_Subset
<1>8. Cardinality(DOMAIN apps) \in Nat /\ Cardinality(Named(fresh)) \in Nat BY <1>7, FS_CardinalityType
<1> DEFINE room == MaxApps - Cardinality(DOMAIN apps)
<1>9. room \in Int BY <1>1, <1>8
<1>10. IsFiniteSet(named) /\ Cardinality(named) \in Nat /\ Cardinality(named) <= room
  <2> HIDE DEF room
  <2> QED BY <1>3, <1>7, <1>9, SubsetIs DEF room
<1>11. Cardinality(known) = Cardinality(DOMAIN apps) + Cardinality(named)
  <2>1. Cardinality(known) = Cardinality(DOMAIN apps) + Cardinality(named) - Cardinality(DOMAIN apps \cap named)
    BY <1>7, <1>10, FS_Union
  <2>2. DOMAIN apps \cap named = {} BY <1>4 DEF Named
  <2>3. Cardinality(DOMAIN apps \cap named) = 0 BY <2>2, FS_EmptySet
  <2> QED BY <1>8, <1>10, <2>1, <2>3
<1>12. Cardinality(known) <= MaxApps
  <2> HIDE DEF known
  <2> QED BY <1>1, <1>8, <1>10, <1>11
<1>13. named # {} => Cardinality(DOMAIN apps) < MaxApps
  <2>1. named # {} => Cardinality(named) # 0 BY <1>10, FS_EmptySet
  <2> QED BY <1>1, <1>8, <1>10, <2>1
<1>14. named = Named(fresh) \/ Cardinality(known) = MaxApps
  <2>1. Cardinality(named) = Min({Cardinality(Named(fresh)), room}) BY <1>3 DEF kSubset
  <2>2. Cardinality(named) = Cardinality(Named(fresh)) \/ Cardinality(named) = room
    <3>1. Min({Cardinality(Named(fresh)), room}) \in {Cardinality(Named(fresh)), room}
      <4> HIDE DEF room
      <4> QED BY <1>8, <1>9, MinIs
    <3> QED BY <2>1, <3>1
  <2>3. Cardinality(named) = Cardinality(Named(fresh)) => named = Named(fresh) BY <1>4, <1>7, FS_Subset
  <2>4. Cardinality(named) = room => Cardinality(known) = MaxApps
    <3> HIDE DEF known
    <3> QED BY <1>1, <1>8, <1>11
  <2> QED BY <2>2, <2>3, <2>4
<1>15. named = Named(fresh) => \A c \in DOMAIN fresh : fresh[c].app \in known BY DEF Named
<1> QED BY <1>6, <1>7, <1>12, <1>13, <1>14, <1>15 DEF fresh

\* What was not seen yet of a connection that has b bytes.
SeenOf(c, a) == IF c \in DOMAIN conns /\ conns[c].app = a THEN conns[c].bytes ELSE 0
Unseen(c, a, b) == IF b > SeenOf(c, a) THEN b - SeenOf(c, a) ELSE 0
Dues(fresh, a) ==
  [c \in Conns |-> [bytes |-> IF c \in DOMAIN fresh /\ fresh[c].app = a THEN Unseen(c, a, fresh[c].bytes) ELSE 0]]

LEMMA SeenType ==
  ASSUME ConnsOK(conns), NEW c, NEW a
  PROVE  SeenOf(c, a) \in Nat /\ \A b \in Nat : Unseen(c, a, b) \in Nat
<1>1. \A d \in DOMAIN conns : conns[d].bytes \in Nat BY RangeIs DEF ConnsOK, Counts
<1>2. SeenOf(c, a) \in Nat BY <1>1 DEF SeenOf
<1> QED BY <1>2 DEF Unseen

LEMMA ConnsFinite == IsFiniteSet(Conns)
<1>1. IsFiniteSet(Tcp) /\ IsFiniteSet(Udp) BY UsageAssumption
<1> QED BY <1>1, FS_Union DEF Conns

\* The connections of an application in a table, as a part of all of them.
LEMMA PartIs ==
  ASSUME NEW f, ConnsOK(f), NEW S \in SUBSET DOMAIN f
  PROVE  LET g == [c \in Conns |-> [bytes |-> IF c \in S THEN f[c].bytes ELSE 0]]
         IN WeighsIn(g, Conns) /\ BytesOf(f, S) = BytesOf(g, Conns) /\ BytesOf(f, S) \in Nat
<1> DEFINE g == [c \in Conns |-> [bytes |-> IF c \in S THEN f[c].bytes ELSE 0]]
<1>1. DOMAIN f \subseteq Conns /\ \A c \in DOMAIN f : f[c].bytes \in Nat BY RangeIs DEF ConnsOK, Counts
<1>2. WeighsIn(g, Conns) BY <1>1, ConnsFinite DEF WeighsIn
<1>3. S \in SUBSET Conns BY <1>1
<1>4. \A c \in Conns : g[c].bytes = IF c \in S THEN f[c].bytes ELSE 0 OBVIOUS
<1> HIDE DEF g
<1>5. BytesOf(f, S) = BytesOf(g, Conns) BY <1>2, <1>3, <1>4, BytesOfPart
<1>6. BytesOf(g, Conns) \in Nat BY <1>2, BytesOfStep
<1> QED BY <1>2, <1>5, <1>6 DEF g

LEMMA DuesWeigh ==
  ASSUME ConnsOK(conns), NEW fresh, ConnsOK(fresh), NEW a
  PROVE  WeighsIn(Dues(fresh, a), Conns) /\ BytesOf(Dues(fresh, a), Conns) \in Nat
<1>1. \A c \in DOMAIN fresh : fresh[c].bytes \in Nat BY RangeIs DEF ConnsOK, Counts
<1>2. \A c \in Conns : Dues(fresh, a)[c].bytes \in Nat BY <1>1, SeenType DEF Dues
<1>3. WeighsIn(Dues(fresh, a), Conns) BY <1>2, ConnsFinite DEF WeighsIn
<1> QED BY <1>3, BytesOfStep

\* What is counted after a pass is more than before by no more than the dues:
\* what retired was counted, and what goes on was counted as far as it was seen.
LEMMA CountedLess ==
  ASSUME ConnsOK(conns), NEW fresh, ConnsOK(fresh), NEW a
  PROVE  LET held == BytesOf(conns, {c \in DOMAIN conns : conns[c].app = a})
         IN /\ Retired(a, fresh) \in Nat /\ Live(a, fresh) \in Nat /\ held \in Nat
            /\ Retired(a, fresh) + Live(a, fresh) <= held + BytesOf(Dues(fresh, a), Conns)
<1> DEFINE R == {c \in DOMAIN conns \ DOMAIN fresh : conns[c].app = a}
           L == {c \in DOMAIN fresh : fresh[c].app = a}
           H == {c \in DOMAIN conns : conns[c].app = a}
           r == [c \in Conns |-> [bytes |-> IF c \in R THEN conns[c].bytes ELSE 0]]
           l == [c \in Conns |-> [bytes |-> IF c \in L THEN fresh[c].bytes ELSE 0]]
           h == [c \in Conns |-> [bytes |-> IF c \in H THEN conns[c].bytes ELSE 0]]
           d == Dues(fresh, a)
<1>1. WeighsIn(r, Conns) /\ BytesOf(conns, R) = BytesOf(r, Conns) /\ BytesOf(conns, R) \in Nat
  <2>1. R \in SUBSET DOMAIN conns OBVIOUS
  <2> HIDE DEF R
  <2> QED BY <2>1, PartIs
<1>2. WeighsIn(l, Conns) /\ BytesOf(fresh, L) = BytesOf(l, Conns) /\ BytesOf(fresh, L) \in Nat
  <2>1. L \in SUBSET DOMAIN fresh OBVIOUS
  <2> HIDE DEF L
  <2> QED BY <2>1, PartIs
<1>3. WeighsIn(h, Conns) /\ BytesOf(conns, H) = BytesOf(h, Conns) /\ BytesOf(conns, H) \in Nat
  <2>1. H \in SUBSET DOMAIN conns OBVIOUS
  <2> HIDE DEF H
  <2> QED BY <2>1, PartIs
<1>4. WeighsIn(d, Conns) BY DuesWeigh
<1>5. \A c \in Conns : r[c].bytes + l[c].bytes <= h[c].bytes + d[c].bytes
  <2> TAKE c \in Conns
  <2>0. (c \in DOMAIN conns => conns[c].bytes \in Nat) /\ (c \in DOMAIN fresh => fresh[c].bytes \in Nat)
    BY RangeIs DEF ConnsOK, Counts
  <2>1. CASE c \in DOMAIN fresh
    <3>1. r[c].bytes = 0 /\ h[c].bytes = SeenOf(c, a) BY <2>1 DEF SeenOf
    <3>2. l[c].bytes = (IF fresh[c].app = a THEN fresh[c].bytes ELSE 0)
          /\ d[c].bytes = IF fresh[c].app = a THEN Unseen(c, a, fresh[c].bytes) ELSE 0
      BY <2>1 DEF Dues
    <3>3. SeenOf(c, a) \in Nat BY SeenType
    <3>4. fresh[c].bytes \in Nat BY <2>0, <2>1
    <3>5. Unseen(c, a, fresh[c].bytes) \in Nat /\ fresh[c].bytes <= SeenOf(c, a) + Unseen(c, a, fresh[c].bytes)
      BY <3>3, <3>4 DEF Unseen
    <3> HIDE DEF r, l, h, d
    <3> QED BY <3>1, <3>2, <3>3, <3>4, <3>5
  <2>2. CASE c \notin DOMAIN fresh
    <3>1. r[c].bytes = h[c].bytes /\ l[c].bytes = 0 /\ d[c].bytes = 0 BY <2>2 DEF Dues
    <3>2. h[c].bytes \in Nat BY <2>0
    <3> HIDE DEF r, l, h, d
    <3> QED BY <3>1, <3>2
  <2> QED BY <2>1, <2>2
<1> HIDE DEF r, l, h, d
<1>6. BytesOf(r, Conns) + BytesOf(l, Conns) <= BytesOf(h, Conns) + BytesOf(d, Conns)
  BY <1>1, <1>2, <1>3, <1>4, <1>5, BytesOfLess
<1>7. Retired(a, fresh) = BytesOf(conns, R) /\ Live(a, fresh) = BytesOf(fresh, L) BY DEF Retired, Live
<1> HIDE DEF R, L
<1>8. /\ Retired(a, fresh) \in Nat /\ Live(a, fresh) \in Nat /\ BytesOf(conns, H) \in Nat
      /\ Retired(a, fresh) + Live(a, fresh) <= BytesOf(conns, H) + BytesOf(d, Conns)
  BY <1>1, <1>2, <1>3, <1>6, <1>7
<1> QED BY <1>8 DEF d

\* What an application has after a pass, and what it gained.
RetiredOf(a, fresh) == (IF a \in DOMAIN apps THEN apps[a].retired ELSE 0) + Retired(a, fresh)
CountedOf(a, fresh) == RetiredOf(a, fresh) + Live(a, fresh)
GainOf(a, fresh) == CountedOf(a, fresh) - (IF a \in DOMAIN apps THEN apps[a].counted ELSE 0)

LEMMA GainTypes ==
  ASSUME ConnsOK(conns), AppsOK(apps), NEW fresh, ConnsOK(fresh), NEW a
  PROVE  RetiredOf(a, fresh) \in Nat /\ CountedOf(a, fresh) \in Nat /\ GainOf(a, fresh) \in Int
<1>1. a \in DOMAIN apps => apps[a].retired \in Nat /\ apps[a].counted \in Nat BY RangeIs DEF AppsOK
<1>2. Retired(a, fresh) \in Nat /\ Live(a, fresh) \in Nat BY CountedLess
<1> QED BY <1>1, <1>2 DEF RetiredOf, CountedOf, GainOf

\* What a pass does to the tables.
Gains(known, fresh) == [a \in known |-> GainOf(a, fresh)]
LEMMA AccountIs ==
  ASSUME NEW initial, NEW fresh, NEW known, NEW gained, NEW t0, NEW r0,
         Account(initial, fresh, known, gained, t0, r0)
  PROVE  LET gain == Gains(known, fresh)
         IN /\ totals' = Ledger(t0, gained) /\ conns' = fresh
            /\ rows' = Charged(r0, {a \in known : Charges(initial, a, gain[a])}, gain)
            /\ apps' = [a \in known |-> [retired |-> RetiredOf(a, fresh), counted |-> CountedOf(a, fresh)]]
<1> DEFINE retired == [a \in known |-> (IF a \in DOMAIN apps THEN apps[a].retired ELSE 0) + Retired(a, fresh)]
           bytes == [a \in known |-> retired[a] + Live(a, fresh)]
           gain == [a \in known |-> bytes[a] - (IF a \in DOMAIN apps THEN apps[a].counted ELSE 0)]
<1>1. /\ totals' = Ledger(t0, gained) /\ conns' = fresh
      /\ rows' = Charged(r0, {a \in known : Charges(initial, a, gain[a])}, gain)
      /\ apps' = [a \in known |-> [retired |-> retired[a], counted |-> bytes[a]]]
  BY DEF Account, Ledger
<1>2. \A a \in known : retired[a] = RetiredOf(a, fresh) BY DEF RetiredOf
<1> HIDE DEF retired
<1>3. \A a \in known : bytes[a] = CountedOf(a, fresh) BY <1>2 DEF CountedOf
<1> HIDE DEF bytes
<1>4. gain = Gains(known, fresh) BY <1>3 DEF Gains, GainOf
<1>5. apps' = [a \in known |-> [retired |-> RetiredOf(a, fresh), counted |-> CountedOf(a, fresh)]]
  BY <1>1, <1>2, <1>3
<1> HIDE DEF gain
<1> QED BY <1>1, <1>4, <1>5

\* What a pass leaves is within the tables' room.
LEMMA PassTypes ==
  ASSUME TypeOK, NEW initial \in BOOLEAN, NEW t0, TotalsOK(t0), NEW r0, RowsOK(r0), NEW gained \in Nat,
         NEW idle, NEW tcp, NEW udp, NEW readable, NEW named, IsPass(idle, tcp, udp, readable, named),
         Account(initial, Listed(idle, tcp, udp, readable), DOMAIN apps \cup named, gained, t0, r0)
  PROVE  /\ FlowsOK(KeptFlows(idle)) /\ ConnsOK(conns') /\ AppsOK(apps')
         /\ totals' = Ledger(t0, gained) /\ RowsOK(rows')
<1> DEFINE fresh == Listed(idle, tcp, udp, readable)
           known == DOMAIN apps \cup named
           gain == Gains(known, fresh)
           charged == {a \in known : Charges(initial, a, gain[a])}
<1>1. /\ FlowsOK(KeptFlows(idle)) /\ ConnsOK(fresh) /\ ConnsOK(conns) /\ AppsOK(apps)
  BY FreshIs DEF Lists, TypeOK, ConnsOK, AppsOK
<1>2. known \subseteq Apps /\ Cardinality(known) <= MaxApps BY KnownIs
<1>3. /\ conns' = fresh /\ rows' = Charged(r0, charged, gain)
      /\ apps' = [a \in known |-> [retired |-> RetiredOf(a, fresh), counted |-> CountedOf(a, fresh)]]
  BY AccountIs
<1>4. totals' = Ledger(t0, gained) BY AccountIs
<1> HIDE DEF fresh, known
<1>5. \A a \in known : /\ RetiredOf(a, fresh) \in Nat /\ CountedOf(a, fresh) \in Nat
                       /\ gain[a] = GainOf(a, fresh) /\ gain[a] \in Int
  BY <1>1, GainTypes DEF Gains
<1>6. AppsOK(apps')
  <2>1. DOMAIN apps' = known /\ \A a \in known : apps'[a] \in [retired : Nat, counted : Nat] BY <1>3, <1>5
  <2> QED BY <1>2, <2>1, RangeIs DEF AppsOK
<1> HIDE DEF gain
<1>7. RowsOK(rows')
  <2>1. \A a \in charged : gain[a] \in Nat BY <1>5 DEF Charges
  <2>2. charged \in SUBSET Apps BY <1>2
  <2>3. day \in DOMAIN Calendar BY DEF TypeOK
  <2> HIDE DEF charged
  <2> QED BY <1>3, <2>1, <2>2, <2>3, ChargedIs
<1> QED BY <1>1, <1>3, <1>4, <1>6, <1>7

LEMMA GainedIs == ASSUME TypeOK PROVE Gained \in Nat /\ Pending \in Nat /\ Gained <= Pending
<1>1. base \in Nat \cup {None} /\ octets \in Nat BY DEF TypeOK
<1>2. CASE base = None BY <1>2 DEF Gained, Pending
<1>3. CASE base # None
  <2>1. base \in Nat BY <1>1, <1>3
  <2> QED BY <1>1, <1>3, <2>1 DEF Gained, Pending
<1> QED BY <1>2, <1>3

\* What a reading and a pass do to the tables: refresh_from_system.
Turned(t0, marks, read) ==
  /\ base' = Based(read) /\ late' = (late /\ ~read)
  /\ strange \cup marks \subseteq strange' /\ (~read => "failed" \in strange')
  /\ LET gained == IF read THEN Gained ELSE 0
     IN \/ /\ totals' = Ledger(t0, gained)
           /\ "full" \notin strange' => (gained > 0 /\ PlaceOf(t0, Today) = 0 => Len(t0) < UsageDays)
        \/ totals' = t0 /\ "failed" \in strange'

LEMMA RefreshIs ==
  ASSUME TypeOK, NEW initial \in BOOLEAN, NEW t0, TotalsOK(t0), NEW r0, RowsOK(r0), NEW marks,
         Refresh(initial, t0, r0, marks)
  PROVE  /\ base' \in Nat \cup {None} /\ late' \in BOOLEAN
         /\ FlowsOK(flows') /\ ConnsOK(conns') /\ AppsOK(apps') /\ TotalsOK(totals') /\ RowsOK(rows')
         /\ \E read \in BOOLEAN : Turned(t0, marks, read)
<1>1. PICK read \in BOOLEAN :
    /\ base' = Based(read) /\ late' = (late /\ ~read)
    /\ \/ Passes(initial, t0, r0, IF read THEN Gained ELSE 0, marks \cup (IF read THEN {} ELSE {"failed"}))
       \/ /\ read /\ strange' = strange \cup marks \cup {"failed"}
          /\ totals' = t0 /\ rows' = r0
          /\ UNCHANGED <<flows, conns, apps>>
  BY DEF Refresh
<1>2. base' \in Nat \cup {None} /\ late' \in BOOLEAN BY <1>1 DEF Based, TypeOK
<1> DEFINE gained == IF read THEN Gained ELSE 0
           noted == marks \cup (IF read THEN {} ELSE {"failed"})
<1>3. CASE Passes(initial, t0, r0, gained, noted)
  <2>1. gained \in Nat BY GainedIs
  <2> HIDE DEF gained, noted
  <2>2. PICK idle, tcp, udp, readable, named :
      /\ IsPass(idle, tcp, udp, readable, named)
      /\ Account(initial, Listed(idle, tcp, udp, readable), DOMAIN apps \cup named, gained, t0, r0)
      /\ flows' = KeptFlows(idle)
      /\ IsMarked(idle, tcp, udp, readable, t0, gained, noted)
    BY <1>3, PassesIs
  <2>3. /\ FlowsOK(KeptFlows(idle)) /\ ConnsOK(conns') /\ AppsOK(apps')
        /\ totals' = Ledger(t0, gained) /\ RowsOK(rows')
    BY <2>1, <2>2, PassTypes
  <2>4. day \in DOMAIN Calendar BY DEF TypeOK
  <2>5. TotalsOK(totals') BY <2>1, <2>3, <2>4, LedgerIs
  <2>6. strange \cup noted \subseteq strange' BY <2>2 DEF IsMarked
  <2>7. "full" \notin strange' => (gained > 0 /\ PlaceOf(t0, Today) = 0 => Len(t0) < UsageDays)
    <3> SUFFICES ASSUME "full" \notin strange', gained > 0, PlaceOf(t0, Today) = 0 PROVE Len(t0) < UsageDays
      OBVIOUS
    <3>1. ~(Len(totals') < Len(t0) + (IF gained > 0 /\ PlaceOf(t0, Today) = 0 THEN 1 ELSE 0))
      BY <2>2 DEF IsMarked
    <3>2. ~(Len(totals') < Len(t0) + 1) BY <3>1
    <3>3. Len(totals') \in Nat /\ Len(t0) \in Nat /\ Len(totals') <= UsageDays /\ UsageDays \in Nat
      BY <2>5, LenProperties, UsageAssumption DEF TotalsOK
    <3> QED BY <3>2, <3>3
  <2>8. marks \subseteq noted /\ (~read => "failed" \in noted) BY DEF noted
  <2>9. Turned(t0, marks, read) BY <1>1, <2>3, <2>6, <2>7, <2>8 DEF Turned, gained
  <2> QED BY <1>2, <2>2, <2>3, <2>5, <2>9
<1>4. CASE /\ read /\ strange' = strange \cup marks \cup {"failed"}
           /\ totals' = t0 /\ rows' = r0 /\ UNCHANGED <<flows, conns, apps>>
  <2>1. FlowsOK(flows') /\ ConnsOK(conns') /\ AppsOK(apps') BY <1>4 DEF TypeOK, FlowsOK, ConnsOK, AppsOK
  <2>2. Turned(t0, marks, read) BY <1>1, <1>4 DEF Turned
  <2> QED BY <1>2, <1>4, <2>1, <2>2
<1> QED BY <1>1, <1>3, <1>4

-----------------------------------------------------------------------------
(***************************************************************************)
(* Types.                                                                  *)
(***************************************************************************)
LEMMA EmptyIs ==
  /\ FlowsOK(<<>>) /\ ConnsOK(<<>>) /\ AppsOK(<<>>) /\ TotalsOK(<<>>) /\ RowsOK(<<>>)
  /\ NoLimit \in Limits
<1>1. DOMAIN <<>> = {} OBVIOUS
<1>2. Cardinality({}) = 0 BY FS_EmptySet
<1>3. \A S : Range(<<>>) \subseteq S BY <1>1 DEF Range
<1>4. MaxFlows \in Nat /\ MaxConns \in Nat /\ MaxApps \in Nat /\ UsageDays \in Nat /\ UsageRows \in Nat
  BY UsageAssumption
<1>5. FlowsOK(<<>>) BY <1>1, <1>2, <1>3, <1>4 DEF FlowsOK
<1>6. ConnsOK(<<>>) BY <1>1, <1>2, <1>3, <1>4 DEF ConnsOK
<1>7. AppsOK(<<>>) BY <1>1, <1>2, <1>3, <1>4 DEF AppsOK
<1>8. TotalsOK(<<>>) /\ RowsOK(<<>>) BY <1>4 DEF TotalsOK, RowsOK
<1>9. NoLimit \in Limits BY DEF NoLimit, Limits
<1> QED BY <1>5, <1>6, <1>7, <1>8, <1>9

\* TypeOK in parts.
WorldOK == /\ day \in DOMAIN Calendar /\ octets \in Nat /\ sent \in [Tcp -> Nat]
           /\ owner \in [Conns -> Apps \cup {None}]
RunOK   == /\ on \in BOOLEAN /\ late \in BOOLEAN /\ n \in Nat /\ base \in Nat \cup {None}
           /\ limit \in Limits
DiskOK  == disk \in [totals : Seq(Rows), rows : Seq(AppRow), limit : Limits]
TablesOK == FlowsOK(flows) /\ ConnsOK(conns) /\ AppsOK(apps) /\ TotalsOK(totals) /\ RowsOK(rows)

LEMMA TypeParts == TypeOK <=> WorldOK /\ RunOK /\ DiskOK /\ TablesOK
  BY DEF TypeOK, WorldOK, RunOK, DiskOK, TablesOK, FlowsOK, ConnsOK, AppsOK, TotalsOK, RowsOK

LEMMA TypePartsNext == WorldOK' /\ RunOK' /\ DiskOK' /\ TablesOK' => TypeOK'
  BY DEF TypeOK, WorldOK, RunOK, DiskOK, TablesOK, FlowsOK, ConnsOK, AppsOK, TotalsOK, RowsOK

LEMMA TypesInit == Init => TypeOK
<1> SUFFICES ASSUME Init PROVE TypeOK OBVIOUS
<1>1. WorldOK
  <2>1. 1 \in DOMAIN Calendar BY UsageAssumption, LenProperties
  <2> QED BY <2>1 DEF Init, WorldOK
<1>2. RunOK BY EmptyIs DEF Init, RunOK
<1>3. DiskOK
  <2>1. <<>> \in Seq(Rows) /\ <<>> \in Seq(AppRow) OBVIOUS
  <2> QED BY <2>1, EmptyIs DEF Init, DiskOK
<1>4. TablesOK BY EmptyIs DEF Init, TablesOK
<1> QED BY <1>1, <1>2, <1>3, <1>4, TypeParts

\* What ends a run leaves empty tables.
LEMMA ClearTypes == ASSUME ClearProgram PROVE RunOK' /\ TablesOK'
<1>1. RunOK' BY EmptyIs DEF ClearProgram, RunOK
<1>2. TablesOK' BY EmptyIs DEF ClearProgram, TablesOK
<1> QED BY <1>1, <1>2

\* A flow is entered while there is room: on_event.
LEMMA SeenTypes ==
  ASSUME TypeOK, NEW c \in Udp, owner[c] # None
  PROVE  FlowsOK(Seen(c))
<1>1. /\ IsFiniteSet(Udp) /\ MaxFlows \in Nat /\ Packet \in Nat BY UsageAssumption
<1>2. owner[c] \in Apps BY DEF TypeOK, Conns
<1>3. /\ DOMAIN flows \subseteq Udp /\ Cardinality(DOMAIN flows) <= MaxFlows
      /\ \A d \in DOMAIN flows : flows[d] \in [app : Apps, bytes : Nat, fresh : BOOLEAN]
  BY RangeIs DEF TypeOK
<1>4. IsFiniteSet(DOMAIN flows) /\ Cardinality(DOMAIN flows) \in Nat BY <1>1, <1>3, FS_Subset, FS_CardinalityType
<1>5. ASSUME NEW v \in [app : Apps, bytes : Nat, fresh : BOOLEAN],
             c \in DOMAIN flows \/ Cardinality(DOMAIN flows) < MaxFlows
      PROVE  FlowsOK(Add(flows, c, v))
  <2> DEFINE g == Add(flows, c, v)
  <2>1. DOMAIN g = DOMAIN flows \cup {c} /\ \A d \in DOMAIN g : g[d] \in [app : Apps, bytes : Nat, fresh : BOOLEAN]
    BY <1>3 DEF Add
  <2> HIDE DEF g
  <2>2. Cardinality(DOMAIN flows \cup {c}) <= MaxFlows
    <3>1. CASE c \in DOMAIN flows
      <4>1. DOMAIN flows \cup {c} = DOMAIN flows BY <3>1
      <4> QED BY <1>3, <4>1
    <3>2. CASE c \notin DOMAIN flows
      <4>1. Cardinality(DOMAIN flows \cup {c}) = Cardinality(DOMAIN flows) + 1 BY <1>4, <3>2, FS_AddElement
      <4> QED BY <1>1, <1>4, <1>5, <3>2, <4>1
    <3> QED BY <3>1, <3>2
  <2> QED BY <1>3, <2>1, <2>2, RangeIs DEF FlowsOK, g
<1>6. CASE c \in DOMAIN flows
  <2> DEFINE v == [app |-> owner[c], bytes |-> flows[c].bytes + Packet, fresh |-> TRUE]
  <2>1. v \in [app : Apps, bytes : Nat, fresh : BOOLEAN] BY <1>1, <1>2, <1>3, <1>6
  <2>2. Seen(c) = Add(flows, c, v) BY <1>6 DEF Seen
  <2> HIDE DEF v
  <2> QED BY <1>5, <1>6, <2>1, <2>2
<1>7. CASE c \notin DOMAIN flows /\ Cardinality(DOMAIN flows) < MaxFlows
  <2> DEFINE v == [app |-> owner[c], bytes |-> Packet, fresh |-> TRUE]
  <2>1. v \in [app : Apps, bytes : Nat, fresh : BOOLEAN] BY <1>1, <1>2
  <2>2. Seen(c) = Add(flows, c, v) BY <1>7 DEF Seen
  <2> HIDE DEF v
  <2> QED BY <1>5, <1>7, <2>1, <2>2
<1>8. CASE c \notin DOMAIN flows /\ ~(Cardinality(DOMAIN flows) < MaxFlows)
  <2>1. Seen(c) = flows BY <1>8 DEF Seen
  <2> QED BY <1>3, <2>1, RangeIs DEF FlowsOK
<1> QED BY <1>6, <1>7, <1>8

\* The first day of the period is a date.
LEMMA PeriodIs == ASSUME day \in DOMAIN Calendar PROVE PeriodStart \in Nat
<1>1. Year(Today) \in Nat /\ Year(Today) > 0 /\ Month(Today) \in 1 .. 12
  <2>1. Today \in Nat BY TodayIs, DaysAre
  <2>2. Year(Today) > 0 /\ Month(Today) \in 1 .. 12 BY UsageAssumption DEF Today
  <2>3. Year(Today) \in Nat BY <2>1 DEF Year
  <2> QED BY <2>2, <2>3
<1> DEFINE r == IF ResetDay < 1 THEN 1 ELSE IF ResetDay > 28 THEN 28 ELSE ResetDay
           y == Year(Today)
           m == Month(Today)
<1>2. r \in 1 .. 28 BY UsageAssumption
<1>3. PeriodStart = IF Day(Today) >= r THEN Key(y, m, r)
                    ELSE IF m = 1 THEN Key(y - 1, 12, r) ELSE Key(y, m - 1, r)
  BY DEF PeriodStart
<1> HIDE DEF r, y, m
<1>4. y \in Nat /\ y > 0 /\ m \in 1 .. 12 BY <1>1 DEF y, m
<1>5. Key(y, m, r) \in Nat /\ Key(y - 1, 12, r) \in Nat /\ Key(y, m - 1, r) \in Nat
  BY <1>2, <1>4 DEF Key
<1> QED BY <1>3, <1>5

\* The disk's records, and what is left of the rows of the days when the last rows,
\* or digits of a row, are lost.
Files == [totals : Seq(Rows), rows : Seq(AppRow), limit : Limits]

Shortened(u, t) ==
  Len(u) <= Len(t) /\ \A i \in 1 .. Len(u) : u[i].day = t[i].day /\ u[i].bytes <= t[i].bytes

\* A table whose rows end early with a row of the same kind.
LEMMA CutIs ==
  ASSUME NEW V, NEW t \in Seq(V), NEW i \in DOMAIN t, NEW x \in V
  PROVE  LET u == Append(SubSeq(t, 1, i - 1), x)
         IN u \in Seq(V) /\ Len(u) = i /\ u[i] = x /\ \A j \in 1 .. i - 1 : u[j] = t[j]
<1>1. i \in 1 .. Len(t) /\ Len(t) \in Nat BY LenProperties
<1> DEFINE w == SubSeq(t, 1, i - 1)
<1>2. \A j \in 1 .. i - 1 : t[j] \in V BY <1>1, ElementOfSeq
<1>3. w \in Seq(V) /\ Len(w) = i - 1 /\ \A j \in 1 .. i - 1 : w[j] = t[j]
  <2>1. 1 \in Int /\ i - 1 \in Int BY <1>1
  <2>2. /\ w \in Seq(V) /\ Len(w) = IF 1 <= i - 1 THEN i - 1 - 1 + 1 ELSE 0
        /\ \A j \in 1 .. i - 1 - 1 + 1 : w[j] = t[1 + j - 1]
    BY <1>2, <2>1, SubSeqProperties
  <2> HIDE DEF w
  <2>3. Len(w) = i - 1 BY <1>1, <2>2
  <2>4. \A j \in 1 .. i - 1 : j \in 1 .. i - 1 - 1 + 1 /\ 1 + j - 1 = j BY <1>1
  <2> QED BY <2>2, <2>3, <2>4
<1> HIDE DEF w
<1>4. /\ Append(w, x) \in Seq(V) /\ Len(Append(w, x)) = Len(w) + 1 /\ Append(w, x)[Len(w) + 1] = x
      /\ \A j \in 1 .. Len(w) : Append(w, x)[j] = w[j]
  BY <1>3, AppendProperties
<1>5. i - 1 + 1 = i BY <1>1
<1> QED BY <1>3, <1>4, <1>5 DEF w

LEMMA CutTotalsAre ==
  ASSUME NEW t \in Seq(Rows), NEW u \in CutTotals(t)
  PROVE  u \in Seq(Rows) /\ Shortened(u, t)
<1>1. CASE u = <<>>
  <2>1. u \in Seq(Rows) /\ Len(u) = 0 /\ Len(t) \in Nat BY <1>1, LenProperties
  <2> QED BY <2>1 DEF Shortened
<1>2. CASE u # <<>>
  <2>1. PICK i \in DOMAIN t : \E b \in 1 .. t[i].bytes : u = Append(SubSeq(t, 1, i - 1), [t[i] EXCEPT !.bytes = b])
    BY <1>2 DEF CutTotals
  <2>2. PICK b \in 1 .. t[i].bytes : u = Append(SubSeq(t, 1, i - 1), [t[i] EXCEPT !.bytes = b]) BY <2>1
  <2> DEFINE x == [t[i] EXCEPT !.bytes = b]
  <2>3. i \in 1 .. Len(t) /\ Len(t) \in Nat BY LenProperties
  <2>4. \A j \in 1 .. Len(t) : t[j] \in Rows /\ t[j].bytes \in Nat BY ElementOfSeq, DaysAre DEF Weighs
  <2>5. x \in Rows /\ x.day = t[i].day /\ x.bytes <= t[i].bytes
    <3>1. t[i] \in Rows /\ b \in Nat /\ b <= t[i].bytes BY <2>3, <2>4
    <3> QED BY <3>1 DEF Rows
  <2> HIDE DEF x
  <2>6. u = Append(SubSeq(t, 1, i - 1), x) BY <2>2 DEF x
  <2>7. u \in Seq(Rows) /\ Len(u) = i /\ u[i] = x /\ \A j \in 1 .. i - 1 : u[j] = t[j] BY <2>5, <2>6, CutIs
  <2>8. ASSUME NEW j \in 1 .. i PROVE u[j].day = t[j].day /\ u[j].bytes <= t[j].bytes
    <3>1. CASE j = i BY <2>5, <2>7, <3>1
    <3>2. CASE j # i
      <4>1. j \in 1 .. i - 1 /\ j \in 1 .. Len(t) BY <2>3, <3>2
      <4> QED BY <2>4, <2>7, <4>1
    <3> QED BY <3>1, <3>2
  <2> QED BY <2>3, <2>7, <2>8 DEF Shortened
<1> QED BY <1>1, <1>2

LEMMA CutRowsAre ==
  ASSUME NEW r \in Seq(AppRow), NEW v \in CutRows(r)
  PROVE  v \in Seq(AppRow)
<1>1. CASE v = <<>> BY <1>1
<1>2. CASE v # <<>>
  <2>1. PICK i \in DOMAIN r, a \in Apps : v = Append(SubSeq(r, 1, i - 1), [r[i] EXCEPT !.app = a])
    BY <1>2 DEF CutRows
  <2> DEFINE x == [r[i] EXCEPT !.app = a]
  <2>2. r[i] \in AppRow BY ElementOfSeq, LenProperties
  <2>3. x \in AppRow BY <2>2 DEF AppRow
  <2> HIDE DEF x
  <2> QED BY <2>1, <2>3, CutIs DEF x
<1> QED BY <1>1, <1>2

\* What is in the file after a save of t and r.
Holds(file, t, r, lost) ==
  \/ file.totals = t /\ file.rows = Written(r)
  \/ "unsaved" \in lost /\ file.totals = disk.totals /\ file.rows = disk.rows
  \/ "cut" \in lost /\ Shortened(file.totals, t)

LEMMA ShortenedSelf == ASSUME NEW t \in Seq(Rows) PROVE Shortened(t, t)
<1>1. Len(t) \in Nat /\ \A i \in 1 .. Len(t) : t[i].bytes \in Nat
  BY LenProperties, ElementOfSeq, DaysAre DEF Weighs
<1> QED BY <1>1 DEF Shortened

LEMMA UsageFilesAre ==
  ASSUME disk \in Files, NEW t \in Seq(Rows), NEW r \in Seq(AppRow), NEW lost,
         NEW file \in UsageFiles(t, r, lost)
  PROVE  file \in Files /\ file.limit = disk.limit /\ Holds(file, t, r, lost)
<1>1. Written(r) \in Seq(AppRow) BY WrittenIs
<1>2. ASSUME NEW u \in Seq(Rows), NEW v \in Seq(AppRow), file = [disk EXCEPT !.totals = u, !.rows = v]
      PROVE  file \in Files /\ file.limit = disk.limit /\ file.totals = u /\ file.rows = v
  BY <1>2 DEF Files
<1>3. CASE "unsaved" \in lost
  <2>1. file = disk BY <1>3 DEF UsageFiles
  <2> QED BY <1>3, <2>1 DEF Holds
<1>4. CASE "unsaved" \notin lost /\ "cut" \notin lost
  <2>1. file = [disk EXCEPT !.totals = t, !.rows = Written(r)] BY <1>4 DEF UsageFiles
  <2> QED BY <1>1, <1>2, <2>1 DEF Holds
<1>5. CASE "unsaved" \notin lost /\ "cut" \in lost
  <2>1. CASE \E u \in CutTotals(t) : file = [disk EXCEPT !.totals = u, !.rows = <<>>]
    <3>1. PICK u \in CutTotals(t) : file = [disk EXCEPT !.totals = u, !.rows = <<>>] BY <2>1
    <3>2. u \in Seq(Rows) /\ Shortened(u, t) /\ <<>> \in Seq(AppRow) BY CutTotalsAre
    <3> QED BY <1>2, <1>5, <3>1, <3>2 DEF Holds
  <2>2. CASE \E v \in CutRows(Written(r)) : file = [disk EXCEPT !.totals = t, !.rows = v]
    <3>1. PICK v \in CutRows(Written(r)) : file = [disk EXCEPT !.totals = t, !.rows = v] BY <2>2
    <3>2. v \in Seq(AppRow) BY <1>1, CutRowsAre
    <3> QED BY <1>2, <1>5, <3>1, <3>2, ShortenedSelf DEF Holds
  <2> QED BY <1>5, <2>1, <2>2 DEF UsageFiles
<1> QED BY <1>3, <1>4, <1>5

\* The rest of a table that was cut has no more than the table.
LEMMA ShortenedLess ==
  ASSUME NEW t \in Seq(Rows), NEW u \in Seq(Rows), Shortened(u, t)
  PROVE  Bytes(u) <= Bytes(t)
<1> DEFINE y == Len(u)
           z == Len(t)
<1>1. y \in Nat /\ z \in Nat /\ y <= z BY LenProperties DEF Shortened
<1>2. PICK f : Sums(f, t) /\ Bytes(t) = f[z] BY BytesIs, DaysAre
<1>3. PICK g : Sums(g, u) /\ Bytes(u) = g[y] BY BytesIs, DaysAre
<1>4. /\ \A i \in 1 .. z : t[i].bytes \in Nat /\ f[i] = f[i - 1] + t[i].bytes
      /\ \A i \in 1 .. y : u[i].bytes \in Nat /\ g[i] = g[i - 1] + u[i].bytes /\ u[i].bytes <= t[i].bytes
      /\ \A i \in 0 .. z : f[i] \in Nat
      /\ \A i \in 0 .. y : g[i] \in Nat
      /\ f[0] = 0 /\ g[0] = 0
  <2>1. /\ \A i \in 1 .. z : t[i].bytes \in Nat
        /\ \A i \in 1 .. y : u[i].bytes \in Nat
    BY ElementOfSeq, DaysAre DEF Weighs
  <2>2. \A i \in 1 .. y : u[i].bytes <= t[i].bytes BY DEF Shortened
  <2> QED BY <1>2, <1>3, <2>1, <2>2 DEF Sums
<1> HIDE DEF y, z
<1> DEFINE G == {i \in 0 .. z : (IF i <= y THEN g[i] ELSE g[y]) <= f[i]}
<1>5. 0 \in G BY <1>1, <1>4
<1>6. ASSUME NEW i \in 1 .. z, i - 1 \in G PROVE i \in G
  <2>1. i \in 0 .. z /\ i - 1 \in 0 .. z /\ f[i] = f[i - 1] + t[i].bytes /\ t[i].bytes \in Nat /\ f[i - 1] \in Nat
    BY <1>1, <1>4
  <2>2. CASE i <= y
    <3>1. i \in 1 .. y /\ i - 1 \in 0 .. y /\ i - 1 <= y BY <1>1, <2>2
    <3>2. g[i - 1] <= f[i - 1] BY <1>6, <3>1
    <3>3. g[i] = g[i - 1] + u[i].bytes /\ u[i].bytes <= t[i].bytes /\ u[i].bytes \in Nat /\ g[i - 1] \in Nat
      BY <1>4, <3>1
    <3>4. g[i] <= f[i] BY <2>1, <3>2, <3>3
    <3> QED BY <2>1, <2>2, <3>4
  <2>3. CASE ~(i <= y)
    <3>1. g[y] <= f[i - 1]
      <4>1. CASE i - 1 <= y
        <5>1. i - 1 = y BY <1>1, <2>3, <4>1
        <5> QED BY <1>6, <4>1, <5>1
      <4>2. CASE ~(i - 1 <= y) BY <1>6, <4>2
      <4> QED BY <4>1, <4>2
    <3>2. g[y] \in Nat BY <1>1, <1>4
    <3>3. g[y] <= f[i] BY <2>1, <3>1, <3>2
    <3> QED BY <2>1, <2>3, <3>3
  <2> QED BY <2>2, <2>3
<1>7. z \in G
  <2> HIDE DEF G
  <2>1. \A i \in 0 .. z : i \in G BY <1>1, <1>5, <1>6, Upward
  <2> QED BY <1>1, <2>1
<1>8. g[y] <= f[z]
  <2>1. CASE z <= y
    <3>1. z = y BY <1>1, <2>1
    <3> QED BY <1>7, <2>1, <3>1
  <2>2. CASE ~(z <= y) BY <1>7, <2>2
  <2> QED BY <2>1, <2>2
<1> QED BY <1>2, <1>3, <1>8 DEF y, z

LEMMA LevelIs == \A used : Level(used) \in 0 .. 2
  BY DEF Level

\* The alert of a turn: check_data_limit.
LEMMA CheckTypes ==
  ASSUME TypeOK, day \in DOMAIN Calendar, NEW file \in Files, NEW lost, CheckLimit(file, lost)
  PROVE  /\ limit' \in Limits /\ disk' \in Files
         /\ disk'.totals = file.totals /\ disk'.rows = file.rows
<1> DEFINE now == InPeriod(PeriodStart)
           level == Level(PeriodBytes(totals', PeriodStart))
           l == [now EXCEPT !.level = level]
<1>1. PeriodStart \in Nat /\ level \in 0 .. 2 /\ limit \in Limits /\ disk.limit \in Limits
  BY PeriodIs, LevelIs DEF TypeOK
<1>2. now \in Limits BY <1>1 DEF InPeriod, Limits
<1> HIDE DEF level
<1>3. l \in Limits
  <2> HIDE DEF now
  <2> QED BY <1>1, <1>2 DEF Limits
<1>4. \/ limit' = l /\ \E kept \in StateLimits(l, lost) : disk' = [file EXCEPT !.limit = kept]
      \/ limit' = now /\ disk' = file
  BY DEF CheckLimit, level
<1> HIDE DEF l, now
<1>5. \A kept \in StateLimits(l, lost) : kept \in Limits BY <1>1, <1>3, EmptyIs DEF StateLimits, SavedLimit
<1>6. \A kept \in Limits : LET d == [file EXCEPT !.limit = kept]
                           IN d \in Files /\ d.totals = file.totals /\ d.rows = file.rows
  BY DEF Files
<1>7. CASE limit' = l /\ \E kept \in StateLimits(l, lost) : disk' = [file EXCEPT !.limit = kept]
  <2>1. PICK kept \in StateLimits(l, lost) : disk' = [file EXCEPT !.limit = kept] BY <1>7
  <2>2. kept \in Limits BY <1>5
  <2> QED BY <1>3, <1>6, <1>7, <2>1, <2>2
<1>8. CASE limit' = now /\ disk' = file BY <1>2, <1>8
<1> QED BY <1>4, <1>7, <1>8

LEMMA StartTypes ==
  ASSUME TypeOK, Start
  PROVE  TypeOK' /\ TotalsOK(LoadTotals(disk.totals)) /\ RowsOK(LoadRows(disk.rows))
<1>1. WorldOK /\ DiskOK /\ RunOK BY TypeParts
<1>2. disk.totals \in Seq(Rows) /\ disk.rows \in Seq(AppRow) /\ disk.limit \in Limits BY <1>1 DEF DiskOK
<1>3. TotalsOK(LoadTotals(disk.totals)) /\ RowsOK(LoadRows(disk.rows)) BY <1>2, LoadTotalsLess, LoadRowsIs
<1>4. PICK marks : Refresh(TRUE, LoadTotals(disk.totals), LoadRows(disk.rows), marks) BY DEF Start
<1>5. /\ base' \in Nat \cup {None} /\ late' \in BOOLEAN
      /\ FlowsOK(flows') /\ ConnsOK(conns') /\ AppsOK(apps') /\ TotalsOK(totals') /\ RowsOK(rows')
  BY <1>3, <1>4, RefreshIs
<1>6. WorldOK' /\ DiskOK' BY <1>1 DEF Start, world, WorldOK, DiskOK
<1>7. RunOK' BY <1>2, <1>5 DEF Start, RunOK
<1>8. TablesOK' BY <1>5 DEF TablesOK
<1> QED BY <1>3, <1>6, <1>7, <1>8, TypePartsNext

\* A turn saves the rows, or what a full disk leaves of them, or leaves the file's.
LEMMA TickSaves ==
  ASSUME TypeOK, Tick, NEW lost \in Losses(TickFiles), TotalsOK(totals'), RowsOK(rows'),
         \E file \in IF n' % SaveEvery = 0 THEN UsageFiles(totals', rows', lost) ELSE {disk} :
            IF n' % CheckEvery = 0 THEN CheckLimit(file, lost)
            ELSE disk' = file /\ UNCHANGED <<limit, told>>
  PROVE  /\ limit' \in Limits /\ disk' \in Files
         /\ \/ Holds(disk', totals', rows', lost)
            \/ disk'.totals = disk.totals /\ disk'.rows = disk.rows
<1>1. PICK file \in IF n' % SaveEvery = 0 THEN UsageFiles(totals', rows', lost) ELSE {disk} :
            IF n' % CheckEvery = 0 THEN CheckLimit(file, lost)
            ELSE disk' = file /\ UNCHANGED <<limit, told>>
  OBVIOUS
<1>2. disk \in Files /\ limit \in Limits /\ day \in DOMAIN Calendar BY DEF TypeOK, Files
<1>3. file \in Files /\ (Holds(file, totals', rows', lost) \/ file = disk)
  <2>1. CASE n' % SaveEvery = 0
    <3>1. totals' \in Seq(Rows) /\ rows' \in Seq(AppRow) BY DEF TotalsOK, RowsOK
    <3>2. file \in UsageFiles(totals', rows', lost) BY <2>1
    <3> QED BY <1>2, <3>1, <3>2, UsageFilesAre
  <2>2. CASE n' % SaveEvery # 0 BY <1>2, <2>2
  <2> QED BY <2>1, <2>2
<1>4. limit' \in Limits /\ disk' \in Files /\ disk'.totals = file.totals /\ disk'.rows = file.rows
  <2>1. CASE n' % CheckEvery = 0
    <3>1. CheckLimit(file, lost) BY <1>1, <2>1
    <3> QED BY <1>2, <1>3, <3>1, CheckTypes
  <2>2. CASE n' % CheckEvery # 0 BY <1>1, <1>2, <1>3, <2>2
  <2> QED BY <2>1, <2>2
<1> QED BY <1>3, <1>4 DEF Holds

\* A turn, with what it lost.
Turn(lost) ==
  /\ lost \in Losses(TickFiles) /\ Refresh(FALSE, totals, rows, lost)
  /\ \E file \in IF n' % SaveEvery = 0 THEN UsageFiles(totals', rows', lost) ELSE {disk} :
       IF n' % CheckEvery = 0 THEN CheckLimit(file, lost)
       ELSE disk' = file /\ UNCHANGED <<limit, told>>

\* What it wrote is of the rows it has now.
Writes(lost) ==
  /\ limit' \in Limits /\ disk' \in Files
  /\ \/ Holds(disk', totals', rows', lost)
     \/ disk'.totals = disk.totals /\ disk'.rows = disk.rows

LEMMA TickTurns ==
  ASSUME TypeOK, Tick
  PROVE  /\ on /\ on' = on /\ UNCHANGED <<day, owner, sent, octets, carried, due>>
         /\ \E lost : /\ Turn(lost) /\ Writes(lost) /\ lost \subseteq strange'
                      /\ \E read \in BOOLEAN : Turned(totals, lost, read)
<1>1. PICK lost : Turn(lost) BY DEF Tick, Turn
<1>2. TotalsOK(totals) /\ RowsOK(rows) BY DEF TypeOK, TotalsOK, RowsOK
<1>3. Refresh(FALSE, totals, rows, lost) BY <1>1 DEF Turn
<1>4. TotalsOK(totals') /\ RowsOK(rows') /\ \E read \in BOOLEAN : Turned(totals, lost, read)
  BY <1>2, <1>3, RefreshIs
<1>5. Writes(lost) BY <1>1, <1>4, TickSaves DEF Turn, Writes
<1>6. lost \subseteq strange' BY <1>4 DEF Turned
<1> QED BY <1>1, <1>4, <1>5, <1>6 DEF Tick, world

LEMMA TickTypes == ASSUME TypeOK, Tick PROVE TypeOK'
<1>1. WorldOK /\ RunOK /\ TotalsOK(totals) /\ RowsOK(rows) BY TypeParts DEF TablesOK
<1>2. PICK lost : Turn(lost) /\ Writes(lost) BY TickTurns
<1>3. /\ base' \in Nat \cup {None} /\ late' \in BOOLEAN
      /\ FlowsOK(flows') /\ ConnsOK(conns') /\ AppsOK(apps') /\ TotalsOK(totals') /\ RowsOK(rows')
  <2>1. Refresh(FALSE, totals, rows, lost) BY <1>2 DEF Turn
  <2> QED BY <1>1, <2>1, RefreshIs
<1>4. n' \in Nat
  <2> DEFINE both == CheckEvery * SaveEvery
  <2>1. both \in Nat /\ both > 0 BY UsageAssumption
  <2>2. n' = (n + 1) % both /\ n \in Nat BY <1>1 DEF Tick, RunOK
  <2> HIDE DEF both
  <2> QED BY <2>1, <2>2
<1>5. limit' \in Limits /\ DiskOK' BY <1>2 DEF Writes, DiskOK, Files
<1>6. WorldOK' BY <1>1 DEF Tick, world, WorldOK
<1>7. RunOK' BY <1>1, <1>3, <1>4, <1>5 DEF Tick, RunOK
<1>8. TablesOK' BY <1>3 DEF TablesOK
<1> QED BY <1>5, <1>6, <1>7, <1>8, TypePartsNext

\* engine_stop saves the rows and the limit, or loses some of them.
LEMMA StopSaves ==
  ASSUME TypeOK, Stop
  PROVE  /\ disk' \in Files /\ strange \subseteq strange'
         /\ Holds(disk', totals, rows, strange')
         /\ disk'.limit = limit \/ ("forgot" \in strange' /\ disk'.limit \in {disk.limit, NoLimit})
<1>1. PICK lost : /\ \E file \in Saved(lost), kept \in StateLimits(limit, lost) : disk' = [file EXCEPT !.limit = kept]
                  /\ strange' = strange \cup lost
  BY DEF Stop
<1>2. PICK file \in UsageFiles(totals, rows, lost), kept \in StateLimits(limit, lost) :
        disk' = [file EXCEPT !.limit = kept]
  BY <1>1 DEF Saved
<1>3. disk \in Files /\ totals \in Seq(Rows) /\ rows \in Seq(AppRow) /\ limit \in Limits /\ disk.limit \in Limits
  BY DEF TypeOK, Files
<1>4. file \in Files /\ Holds(file, totals, rows, lost) BY <1>3, UsageFilesAre
<1>5. kept = limit \/ ("forgot" \in lost /\ kept \in {disk.limit, NoLimit}) BY DEF StateLimits, SavedLimit
<1>6. kept \in Limits BY <1>3, <1>5, EmptyIs
<1>7. disk' \in Files /\ disk'.totals = file.totals /\ disk'.rows = file.rows /\ disk'.limit = kept
  BY <1>2, <1>4, <1>6 DEF Files
<1>8. Holds(disk', totals, rows, strange') BY <1>1, <1>4, <1>7 DEF Holds
<1> QED BY <1>1, <1>5, <1>7, <1>8

LEMMA EndTypes == ASSUME TypeOK, Stop \/ Crash PROVE TypeOK'
<1>1. WorldOK /\ DiskOK BY TypeParts
<1>2. ClearProgram /\ UNCHANGED world BY DEF Stop, Crash
<1>3. RunOK' /\ TablesOK' BY <1>2, ClearTypes
<1>4. WorldOK' BY <1>1, <1>2 DEF WorldOK, world
<1>5. DiskOK'
  <2>1. CASE Stop BY <2>1, StopSaves DEF DiskOK, Files
  <2>2. CASE Crash BY <1>1, <2>2 DEF Crash, DiskOK
  <2> QED BY <2>1, <2>2
<1> QED BY <1>3, <1>4, <1>5, TypePartsNext

\* The steps outside the program.
Outside(c, a) ==
  \/ c \in Conns /\ a \in Apps /\ (Open(c, a) \/ HandOver(c, a))
  \/ c \in Conns /\ (Close(c) \/ Traffic(c))
  \/ CounterReset \/ NextDay \/ ClockBack

LEMMA NextIs ==
  Next => (\E c, a : Outside(c, a)) \/ Start \/ Tick \/ Stop \/ Crash
  BY DEF Next, Outside

LEMMA WorldTypes ==
  ASSUME TypeOK, NEW c, NEW a, Outside(c, a)
  PROVE  TypeOK'
<1>1. WorldOK /\ DiskOK /\ RunOK /\ TablesOK BY TypeParts
<1>2. Packet \in Nat /\ DOMAIN Calendar = 1 .. Len(Calendar) /\ Len(Calendar) \in Nat
  BY UsageAssumption, LenProperties
<1>3. WorldOK'
  <2>1. CASE c \in Conns /\ a \in Apps /\ Open(c, a) BY <1>1, <2>1 DEF WorldOK, Open
  <2>2. CASE c \in Conns /\ a \in Apps /\ HandOver(c, a) BY <1>1, <2>2 DEF WorldOK, HandOver
  <2>3. CASE c \in Conns /\ Close(c) BY <1>1, <2>3 DEF WorldOK, Close
  <2>4. CASE c \in Conns /\ Traffic(c) BY <1>1, <1>2, <2>4 DEF WorldOK, Traffic
  <2>5. CASE CounterReset BY <1>1, <2>5 DEF WorldOK, CounterReset
  <2>6. CASE NextDay BY <1>1, <1>2, <2>6 DEF WorldOK, NextDay
  <2>7. CASE ClockBack BY <1>1, <1>2, <2>7 DEF WorldOK, ClockBack
  <2> QED BY <2>1, <2>2, <2>3, <2>4, <2>5, <2>6, <2>7 DEF Outside
<1>4. RunOK' BY <1>1 DEF RunOK, Outside, Open, HandOver, Close, Traffic, CounterReset, NextDay, ClockBack, program
<1>5. DiskOK' BY <1>1 DEF DiskOK, Outside, Open, HandOver, Close, Traffic, CounterReset, NextDay, ClockBack
<1>6. TablesOK'
  <2>1. CASE c \in Conns /\ Traffic(c)
    <3>1. FlowsOK(flows')
      <4>1. CASE on /\ c \in Udp
        <5>1. flows' = Seen(c) /\ owner[c] # None BY <2>1, <4>1 DEF Traffic
        <5> QED BY <4>1, <5>1, SeenTypes
      <4>2. CASE ~(on /\ c \in Udp)
        <5>1. flows' = flows BY <2>1, <4>2 DEF Traffic
        <5> QED BY <1>1, <5>1 DEF TablesOK
      <4> QED BY <4>1, <4>2
    <3> QED BY <1>1, <2>1, <3>1 DEF TablesOK, Traffic
  <2>2. CASE UNCHANGED <<flows, conns, apps, totals, rows>> BY <1>1, <2>2 DEF TablesOK
  <2> QED BY <2>1, <2>2 DEF Outside, Open, HandOver, Close, CounterReset, NextDay, ClockBack, program
<1> QED BY <1>3, <1>4, <1>5, <1>6, TypePartsNext

LEMMA TypesNext == TypeOK /\ [Next]_vars => TypeOK'
<1> SUFFICES ASSUME TypeOK, [Next]_vars PROVE TypeOK' OBVIOUS
<1>1. CASE \E c, a : Outside(c, a) BY <1>1, WorldTypes
<1>2. CASE Start BY <1>2, StartTypes
<1>3. CASE Tick BY <1>3, TickTypes
<1>4. CASE Stop \/ Crash BY <1>4, EndTypes
<1>5. CASE UNCHANGED vars BY <1>5 DEF TypeOK, vars, world, program
<1> QED BY <1>1, <1>2, <1>3, <1>4, <1>5, NextIs

-----------------------------------------------------------------------------
(***************************************************************************)
(* Octets.                                                                 *)
(***************************************************************************)

\* What is in the rows, or would be after a crash, was carried by the interfaces
\* up to the last reading; the file has room for no more rows than the table.
OctetsOnce ==
  /\ carried \in Int /\ (~on => base = None) /\ TotalsOK(disk.totals)
  /\ Bytes(totals) <= carried - Pending /\ Bytes(disk.totals) <= carried - Pending

\* A turn adds no more than is pending, and takes it from there.
LEMMA TurnedOnce ==
  ASSUME TypeOK, NEW t0, TotalsOK(t0), NEW marks, NEW read \in BOOLEAN, Turned(t0, marks, read),
         octets' = octets, NEW c \in Int, Bytes(t0) <= c - Pending
  PROVE  Pending' <= Pending /\ Pending' \in Nat /\ Bytes(totals') <= c - Pending'
<1> DEFINE gained == IF read THEN Gained ELSE 0
           old == Bytes(t0)
           new == Bytes(totals')
           p == Pending
           q == Pending'
<1>1. p \in Nat /\ gained \in Nat /\ gained <= p BY GainedIs
<1>2. day \in DOMAIN Calendar /\ octets \in Nat BY DEF TypeOK
<1>3. base' = (IF read THEN octets ELSE base) BY DEF Turned, Based
<1>4. q = IF read THEN 0 ELSE p
  <2>1. CASE read
    <3>1. base' = octets /\ octets # None BY <1>2, <1>3, <2>1, UsageAssumption
    <3> QED BY <1>2, <2>1, <3>1 DEF Pending
  <2>2. CASE ~read BY <1>3, <2>2 DEF Pending
  <2> QED BY <2>1, <2>2
<1>5. old \in Nat BY BytesType, DaysAre DEF TotalsOK
<1>6. new <= old + gained
  <2>1. CASE totals' = Ledger(t0, gained) BY <1>1, <1>2, <2>1, LedgerIs
  <2>2. CASE totals' = t0 BY <1>1, <1>5, <2>2
  <2> QED BY <2>1, <2>2 DEF Turned
<1>7. new \in Nat
  <2>1. TotalsOK(totals') BY <1>1, <1>2, LedgerIs DEF Turned
  <2> QED BY <2>1, BytesType, DaysAre DEF TotalsOK
<1>8. old <= c - p OBVIOUS
<1>9. q <= p /\ q \in Nat /\ new <= c - q
  <2>1. CASE read
    <3> HIDE DEF old, new, p, q
    <3> QED BY <1>1, <1>4, <1>5, <1>6, <1>7, <1>8, <2>1
  <2>2. CASE ~read
    <3>1. gained = 0 BY <2>2
    <3> HIDE DEF old, new, p, q, gained
    <3> QED BY <1>1, <1>4, <1>5, <1>6, <1>7, <1>8, <2>2, <3>1
  <2> QED BY <2>1, <2>2
<1> QED BY <1>9

\* What a save of t leaves in the file is in the order of t and has no more bytes.
LEMMA HoldsLess ==
  ASSUME NEW file \in Files, NEW t, TotalsOK(t), NEW r, NEW lost, Holds(file, t, r, lost)
  PROVE  \/ file.totals = disk.totals
         \/ TotalsOK(file.totals) /\ Shortened(file.totals, t) /\ Bytes(file.totals) <= Bytes(t)
<1>1. file.totals \in Seq(Rows) /\ t \in Seq(Rows) /\ Len(t) \in Nat /\ Len(file.totals) \in Nat
  BY LenProperties DEF Files, TotalsOK
<1>2. UsageDays \in Nat BY UsageAssumption
<1>3. CASE Shortened(file.totals, t)
  <2>1. Bytes(file.totals) <= Bytes(t) BY <1>1, <1>3, ShortenedLess
  <2>2. Len(file.totals) <= Len(t) BY <1>3 DEF Shortened
  <2> QED BY <1>1, <1>2, <1>3, <2>1, <2>2 DEF TotalsOK
<1> QED BY <1>1, <1>3, ShortenedSelf DEF Holds

LEMMA OnceInit == Init => OctetsOnce
<1> SUFFICES ASSUME Init PROVE OctetsOnce OBVIOUS
<1>1. carried = 0 /\ base = None /\ totals = <<>> /\ disk.totals = <<>> BY DEF Init
<1>2. Pending = 0 BY <1>1 DEF Pending
<1> QED BY <1>1, <1>2, BytesNone, EmptyIs DEF OctetsOnce

LEMMA OnceNext == TypeOK /\ OctetsOnce /\ [Next]_vars => OctetsOnce'
<1> SUFFICES ASSUME TypeOK, OctetsOnce, [Next]_vars PROVE OctetsOnce' OBVIOUS
<1>1. /\ Bytes(totals) \in Nat /\ Bytes(disk.totals) \in Nat /\ Pending \in Nat /\ carried \in Int
      /\ octets \in Nat /\ base \in Nat \cup {None} /\ None \notin Nat /\ Packet \in Nat
  BY BytesType, DaysAre, GainedIs, UsageAssumption DEF TypeOK, OctetsOnce, TotalsOK
<1>2. ASSUME carried' \in Int, ~on' => base' = None, carried - Pending <= carried' - Pending',
             Pending' \in Nat, totals' = totals, disk'.totals = disk.totals
      PROVE  OctetsOnce'
  <2> DEFINE a == Bytes(totals)
             b == Bytes(disk.totals)
             p == Pending
             q == Pending'
  <2>1. Bytes(totals') = a /\ Bytes(disk'.totals) = b BY <1>2
  <2>2. a <= carried - p /\ b <= carried - p /\ a \in Nat /\ b \in Nat /\ p \in Nat
    BY <1>1 DEF OctetsOnce
  <2>3. carried - p <= carried' - q /\ q \in Nat BY <1>2
  <2> HIDE DEF a, b, p, q
  <2>4. a <= carried' - q /\ b <= carried' - q BY <1>1, <1>2, <2>2, <2>3
  <2> QED BY <1>2, <2>1, <2>4 DEF OctetsOnce, a, b, p, q
<1>3. ASSUME NEW c, NEW a, Outside(c, a) PROVE OctetsOnce'
  <2>1. CASE c \in Conns /\ Traffic(c)
    <3>1. /\ octets' = octets + Packet /\ base' = base /\ on' = on /\ totals' = totals /\ disk' = disk
          /\ carried' = IF on /\ base # None THEN carried + Packet ELSE carried
      BY <2>1 DEF Traffic
    <3>2. CASE base = None
      <4>1. Pending = 0 /\ Pending' = 0 BY <3>1, <3>2 DEF Pending
      <4> QED BY <1>1, <1>2, <3>1, <3>2, <4>1
    <3>3. CASE base # None
      <4>1. on /\ base \in Nat BY <1>1, <3>3 DEF OctetsOnce
      <4>2. Pending' \in Nat /\ Pending' <= Pending + Packet BY <1>1, <3>1, <3>3, <4>1 DEF Pending
      <4>3. carried' = carried + Packet BY <3>1, <3>3, <4>1
      <4>4. carried - Pending <= carried' - Pending'
        <5> DEFINE p == Pending
                   q == Pending'
        <5>1. p \in Nat /\ q \in Nat /\ q <= p + Packet BY <1>1, <4>2
        <5> HIDE DEF p, q
        <5>2. carried - p <= carried' - q BY <1>1, <4>3, <5>1
        <5> QED BY <5>2 DEF p, q
      <4> QED BY <1>1, <1>2, <3>1, <3>3, <4>1, <4>2, <4>3, <4>4
    <3> QED BY <3>2, <3>3
  <2>2. CASE CounterReset
    <3>1. /\ octets' = 0 /\ base' = base /\ on' = on /\ totals' = totals /\ disk' = disk
          /\ carried' = carried - Pending
      BY <2>2 DEF CounterReset, program
    <3>2. Pending' = 0 BY <1>1, <3>1 DEF Pending
    <3> QED BY <1>1, <1>2, <3>1, <3>2 DEF OctetsOnce
  <2>3. CASE UNCHANGED <<octets, base, on, carried, totals, disk>>
    <3>1. Pending' = Pending BY <2>3 DEF Pending
    <3> QED BY <1>1, <1>2, <2>3, <3>1 DEF OctetsOnce
  <2> QED BY <1>3, <2>1, <2>2, <2>3 DEF Outside, Open, HandOver, Close, NextDay, ClockBack, program
<1>4. CASE Start
  <2> DEFINE t0 == LoadTotals(disk.totals)
  <2>1. TotalsOK(t0) /\ RowsOK(LoadRows(disk.rows)) BY <1>4, StartTypes
  <2>2. PICK marks : Refresh(TRUE, t0, LoadRows(disk.rows), marks) BY <1>4 DEF Start
  <2> DEFINE r0 == LoadRows(disk.rows)
  <2>3. Bytes(t0) <= Bytes(disk.totals) BY LoadTotalsLess DEF OctetsOnce, TotalsOK
  <2> HIDE DEF t0, r0
  <2>4. PICK read \in BOOLEAN : Turned(t0, marks, read) BY <2>1, <2>2, RefreshIs DEF r0
  <2>5. /\ octets' = octets /\ carried' = carried /\ disk' = disk /\ on' = TRUE
    BY <1>4 DEF Start, world
  <2>6. Bytes(t0) \in Nat BY <2>1, BytesType, DaysAre DEF TotalsOK
  <2>7. Bytes(t0) <= carried - Pending BY <1>1, <2>3, <2>6 DEF OctetsOnce
  <2>8. Pending' <= Pending /\ Pending' \in Nat /\ Bytes(totals') <= carried - Pending'
    BY <1>1, <2>1, <2>4, <2>5, <2>7, TurnedOnce
  <2>9. Bytes(disk.totals) <= carried - Pending' BY <1>1, <2>8 DEF OctetsOnce
  <2> QED BY <1>1, <2>5, <2>8, <2>9 DEF OctetsOnce
<1>5. CASE Tick
  <2>1. TotalsOK(totals) BY DEF TypeOK, TotalsOK
  <2>2. PICK lost : Writes(lost) /\ \E read \in BOOLEAN : Turned(totals, lost, read) BY <1>5, TickTurns
  <2>3. PICK read \in BOOLEAN : Turned(totals, lost, read) BY <2>2
  <2>4. TotalsOK(totals')
    <3>1. TypeOK' BY <1>5, TickTypes
    <3> QED BY <3>1 DEF TypeOK, TotalsOK
  <2>5. octets' = octets /\ carried' = carried /\ on' = on /\ on BY <1>5, TickTurns
  <2>6. Pending' <= Pending /\ Pending' \in Nat /\ Bytes(totals') <= carried - Pending'
    BY <1>1, <2>1, <2>3, <2>5, TurnedOnce DEF OctetsOnce
  <2>7. Bytes(disk.totals) <= carried - Pending' BY <1>1, <2>6 DEF OctetsOnce
  <2>8. TotalsOK(disk'.totals) /\ Bytes(disk'.totals) <= carried - Pending'
    <3> DEFINE b == Bytes(disk'.totals)
               c == Bytes(totals')
               q == Pending'
    <3>1. \/ disk'.totals = disk.totals
          \/ TotalsOK(disk'.totals) /\ b <= c
      BY <2>2, <2>4, HoldsLess DEF Writes
    <3>2. CASE disk'.totals = disk.totals BY <2>7, <3>2 DEF OctetsOnce
    <3>3. CASE TotalsOK(disk'.totals) /\ b <= c
      <4>1. b \in Nat /\ c \in Nat BY <2>4, <3>3, BytesType, DaysAre DEF TotalsOK
      <4>2. c <= carried - q /\ q \in Nat BY <2>6
      <4> HIDE DEF b, c, q
      <4>3. b <= carried - q BY <1>1, <3>3, <4>1, <4>2
      <4> QED BY <3>3, <4>3 DEF b, q
    <3> QED BY <3>1, <3>2, <3>3
  <2> QED BY <1>1, <2>5, <2>6, <2>8 DEF OctetsOnce
<1>6. CASE Stop \/ Crash
  <2>1. /\ base' = None /\ totals' = <<>> /\ carried' = carried - Pending
    BY <1>6 DEF Stop, Crash, ClearProgram
  <2>2. Pending' = 0 BY <2>1 DEF Pending
  <2>3. TotalsOK(disk'.totals) /\ Bytes(disk'.totals) <= carried - Pending
    <3> DEFINE b == Bytes(disk'.totals)
               c == Bytes(totals)
               p == Pending
    <3>1. TotalsOK(totals) BY DEF TypeOK, TotalsOK
    <3>2. \/ disk'.totals = disk.totals
          \/ TotalsOK(disk'.totals) /\ b <= c
      <4>1. CASE Stop BY <3>1, <4>1, StopSaves, HoldsLess
      <4>2. CASE Crash BY <4>2 DEF Crash
      <4> QED BY <1>6, <4>1, <4>2
    <3>3. CASE disk'.totals = disk.totals BY <3>3 DEF OctetsOnce
    <3>4. CASE TotalsOK(disk'.totals) /\ b <= c
      <4>1. b \in Nat /\ c \in Nat BY <3>1, <3>4, BytesType, DaysAre DEF TotalsOK
      <4>2. c <= carried - p /\ p \in Nat BY <1>1 DEF OctetsOnce
      <4> HIDE DEF b, c, p
      <4>3. b <= carried - p BY <1>1, <3>4, <4>1, <4>2
      <4> QED BY <3>4, <4>3 DEF b, p
    <3> QED BY <3>2, <3>3, <3>4
  <2>4. 0 <= carried - Pending BY <1>1 DEF OctetsOnce
  <2>5. Bytes(totals') = 0 BY <2>1, BytesNone
  <2>6. Bytes(disk'.totals) <= carried' - Pending' /\ Bytes(totals') <= carried' - Pending'
    <3>1. carried' - Pending' = carried - Pending BY <1>1, <2>1, <2>2
    <3> QED BY <2>3, <2>4, <2>5, <3>1
  <2> QED BY <1>1, <2>1, <2>3, <2>6 DEF OctetsOnce
<1>7. CASE UNCHANGED vars
  <2>1. UNCHANGED <<octets, base, on, carried, totals, disk>> BY <1>7 DEF vars, world, program
  <2>2. Pending' = Pending BY <2>1 DEF Pending
  <2> QED BY <1>1, <1>2, <2>1, <2>2 DEF OctetsOnce
<1> QED BY <1>3, <1>4, <1>5, <1>6, <1>7, NextIs

-----------------------------------------------------------------------------
(***************************************************************************)
(* The order of the days.                                                  *)
(***************************************************************************)

\* The rows of a table are in the order of their days, up to today.
Until(t) == Increasing(t) /\ \A i \in 1 .. Len(t) : t[i].day <= Today

LEMMA LedgerOrder ==
  ASSUME NEW t, TotalsOK(t), Until(t), NEW gained \in Nat, day \in DOMAIN Calendar
  PROVE  Until(Ledger(t, gained))
<1> DEFINE u == WithTotal(t, Today)
           k == PlaceOf(u, Today)
           left == IF Len(t) = UsageDays THEN Tail(t) ELSE t
           z == Len(left)
           row == [day |-> Today, bytes |-> 0]
<1>1. t \in Seq(Rows) /\ Len(t) \in Nat /\ \A i \in 1 .. Len(t) : t[i] \in Rows
  BY LenProperties, ElementOfSeq DEF TotalsOK
<1>2. Today \in Days /\ Today \in Nat /\ UsageDays \in Nat /\ UsageDays > 0
  <2>1. Today \in Days /\ Today \in Nat BY TodayIs, DaysAre
  <2>2. UsageDays \in Nat \ {0} BY UsageAssumption
  <2> QED BY <2>1, <2>2
<1>3. \A i \in 1 .. Len(t) : t[i].day \in Nat BY <1>1, DaysAre DEF Rows, Days
<1>4. CASE ~(gained > 0)
  <2>1. Ledger(t, gained) = t BY <1>4 DEF Ledger
  <2> QED BY <2>1
<1>5. CASE gained > 0
  <2>1. Until(u)
    <3>1. CASE PlaceOf(t, Today) # 0
      <4>1. u = t BY <3>1 DEF WithTotal
      <4> QED BY <4>1
    <3>2. CASE PlaceOf(t, Today) = 0
      <4>1. u = Append(left, row) BY <3>2 DEF WithTotal
      <4>2. row \in Rows BY <1>2 DEF Rows, Days
      <4>3. \A i \in 1 .. Len(t) : t[i].day < Today
        <5> TAKE i \in 1 .. Len(t)
        <5>1. ~IsPlace(t, Today, i) BY <1>1, <3>2, PlaceIs
        <5>2. t[i].day <= Today /\ \A j \in i + 1 .. Len(t) : t[i].day < t[j].day BY DEF Until, Increasing
        <5>3. t[i].day # Today BY <5>1, <5>2 DEF IsPlace
        <5> QED BY <1>2, <1>3, <5>2, <5>3
      <4>4. left \in Seq(Rows) /\ Increasing(left) /\ \A i \in 1 .. z : left[i].day < Today
        <5>1. CASE Len(t) = UsageDays
          <6>1. Len(t) > 0 /\ t # <<>> BY <1>2, <5>1
          <6>2. left \in Seq(Rows) /\ z = Len(t) - 1 /\ \A i \in 1 .. z : left[i] = t[i + 1]
            BY <1>1, <5>1, <6>1, HeadTailProperties
          <6>3. \A i \in 1 .. z : i + 1 \in 1 .. Len(t) BY <1>1, <6>1, <6>2
          <6> HIDE DEF left
          <6>4. ASSUME NEW i \in 1 .. z, NEW j \in i + 1 .. z PROVE left[i].day < left[j].day
            <7>1. j \in 1 .. z /\ j + 1 \in (i + 1) + 1 .. Len(t) BY <1>1, <6>1, <6>2
            <7>2. t[i + 1].day < t[j + 1].day BY <6>3, <7>1 DEF Until, Increasing
            <7> QED BY <6>2, <7>1, <7>2
          <6> QED BY <4>3, <6>2, <6>3, <6>4 DEF Increasing
        <5>2. CASE Len(t) # UsageDays BY <1>1, <4>3, <5>2 DEF Until
        <5> QED BY <5>1, <5>2
      <4> HIDE DEF left
      <4>5. z \in Nat /\ Len(u) = z + 1 /\ u[z + 1] = row /\ \A i \in 1 .. z : u[i] = left[i]
        BY <4>1, <4>2, <4>4, AppendProperties, LenProperties
      <4> HIDE DEF u
      <4>6. Increasing(u)
        <5>1. ASSUME NEW i \in 1 .. z + 1, NEW j \in i + 1 .. z + 1 PROVE u[i].day < u[j].day
          <6>1. i \in 1 .. z /\ (j \in i + 1 .. z \/ j = z + 1) BY <4>5, <5>1
          <6>2. CASE j \in i + 1 .. z
            <7>1. j \in 1 .. z BY <4>5, <6>1, <6>2
            <7> QED BY <4>4, <4>5, <6>1, <6>2, <7>1 DEF Increasing
          <6>3. CASE j = z + 1 BY <4>4, <4>5, <6>1, <6>3
          <6> QED BY <6>1, <6>2, <6>3
        <5> QED BY <4>5, <5>1 DEF Increasing
      <4>7. \A i \in 1 .. z + 1 : u[i].day <= Today
        <5> TAKE i \in 1 .. z + 1
        <5>1. i \in 1 .. z \/ i = z + 1 BY <4>5
        <5>2. CASE i = z + 1 BY <1>2, <4>5, <5>2
        <5>3. CASE i \in 1 .. z
          <6>1. left[i] \in Rows BY <4>4, <5>3, ElementOfSeq
          <6>2. left[i].day \in Nat BY <6>1, DaysAre DEF Rows, Days
          <6> QED BY <1>2, <4>4, <4>5, <5>3, <6>2
        <5> QED BY <5>1, <5>2, <5>3
      <4> QED BY <4>5, <4>6, <4>7 DEF Until
    <3> QED BY <3>1, <3>2
  <2>2. TotalsOK(u) /\ k \in 1 .. Len(u) BY <1>2, WithTotalIs
  <2> DEFINE v == u[k].bytes + gained
             w == Ledger(t, gained)
  <2>3. w = [u EXCEPT ![k].bytes = v] BY <1>5 DEF Ledger
  <2> HIDE DEF u, k, v, w
  <2>4. Len(w) = Len(u) /\ \A i \in 1 .. Len(u) : w[i].day = u[i].day
    <3>1. u \in Seq(Rows) /\ u[k] \in Rows BY <2>2, ElementOfSeq DEF TotalsOK
    <3>2. w = [u EXCEPT ![k] = [u[k] EXCEPT !.bytes = v]] BY <2>3
    <3> DEFINE x == [u[k] EXCEPT !.bytes = v]
    <3>3. x.day = u[k].day BY <3>1 DEF Rows
    <3>4. w = [u EXCEPT ![k] = x] BY <3>2
    <3> HIDE DEF x
    <3>5. DOMAIN u = 1 .. Len(u) /\ Len(u) \in Nat BY <3>1, LenProperties
    <3>6. DOMAIN w = 1 .. Len(u) /\ \A i \in 1 .. Len(u) : w[i] = IF i = k THEN x ELSE u[i]
      BY <2>2, <3>4, <3>5
    <3>7. Len(w) = Len(u)
      <4>1. w \in Seq(Rows \cup {x})
        <5>1. u \in Seq(Rows \cup {x}) BY <3>1
        <5> QED BY <2>2, <3>4, <5>1, ExceptSeq
      <4> QED BY <3>5, <3>6, <4>1, LenProperties
    <3> QED BY <3>3, <3>6, <3>7
  <2>5. Len(u) \in Nat BY <2>2, LenProperties DEF TotalsOK
  <2>6. Increasing(w)
    <3>1. ASSUME NEW i \in 1 .. Len(u), NEW j \in i + 1 .. Len(u) PROVE w[i].day < w[j].day
      <4>1. u[i].day < u[j].day /\ j \in 1 .. Len(u) BY <2>1, <2>5 DEF Until, Increasing
      <4> QED BY <2>4, <4>1
    <3> QED BY <2>4, <3>1 DEF Increasing
  <2> QED BY <2>1, <2>4, <2>6 DEF Until, w
<1> QED BY <1>4, <1>5

LEMMA UntilLater ==
  ASSUME NEW t, TotalsOK(t), Until(t), Today \in Nat, Today' \in Nat, Today <= Today'
  PROVE  Increasing(t) /\ \A i \in 1 .. Len(t) : t[i].day <= Today'
<1>1. ASSUME NEW i \in 1 .. Len(t) PROVE t[i].day <= Today'
  <2>1. t[i] \in Rows BY ElementOfSeq DEF TotalsOK
  <2>2. t[i].day \in Nat BY <2>1, DaysAre DEF Rows, Days
  <2> QED BY <2>2 DEF Until
<1> QED BY <1>1 DEF Until

LEMMA StrangeGrows == TypeOK /\ [Next]_vars => strange \subseteq strange'
<1> SUFFICES ASSUME TypeOK, [Next]_vars PROVE strange \subseteq strange' OBVIOUS
<1>1. CASE \E c, a : Outside(c, a)
  BY <1>1 DEF Outside, Open, HandOver, Close, Traffic, CounterReset, NextDay, ClockBack
<1>2. CASE Start
  <2>1. TotalsOK(LoadTotals(disk.totals)) /\ RowsOK(LoadRows(disk.rows)) BY <1>2, StartTypes
  <2>2. PICK marks : Refresh(TRUE, LoadTotals(disk.totals), LoadRows(disk.rows), marks) BY <1>2 DEF Start
  <2>3. PICK read \in BOOLEAN : Turned(LoadTotals(disk.totals), marks, read) BY <2>1, <2>2, RefreshIs
  <2> QED BY <2>3 DEF Turned
<1>3. CASE Tick
  <2>1. PICK lost : \E read \in BOOLEAN : Turned(totals, lost, read) BY <1>3, TickTurns
  <2> QED BY <2>1 DEF Turned
<1>4. CASE Stop \/ Crash BY <1>4 DEF Stop, Crash
<1>5. CASE UNCHANGED vars BY <1>5 DEF vars
<1> QED BY <1>1, <1>2, <1>3, <1>4, <1>5, NextIs

LEMMA LaterDay == ASSUME NextDay, day \in DOMAIN Calendar PROVE Today \in Nat /\ Today' \in Nat /\ Today < Today'
<1>1. DOMAIN Calendar = 1 .. Len(Calendar) /\ Len(Calendar) \in Nat /\ Calendar \in Seq(Nat)
  BY UsageAssumption, LenProperties
<1>2. day \in 1 .. Len(Calendar) /\ day' = day + 1 /\ day' \in 1 .. Len(Calendar) BY <1>1 DEF NextDay
<1>3. day' \in day + 1 .. Len(Calendar) BY <1>1, <1>2
<1>4. Calendar[day] < Calendar[day'] BY <1>1, <1>2, <1>3, UsageAssumption
<1>5. Calendar[day] \in Nat /\ Calendar[day'] \in Nat BY <1>1, <1>2, ElementOfSeq
<1> QED BY <1>4, <1>5 DEF Today

\* Unless the clock is set back, the rows and those of the file are in the order of
\* their days, up to today: a start keeps their order and a turn adds today's last.
DaysOrdered == ~Excused({"clock"}) => Until(totals) /\ Until(disk.totals)

LEMMA OrderedInit == Init => DaysOrdered
<1> SUFFICES ASSUME Init PROVE DaysOrdered OBVIOUS
<1>1. totals = <<>> /\ disk.totals = <<>> /\ Len(<<>>) = 0 BY DEF Init
<1> QED BY <1>1 DEF DaysOrdered, Until, Increasing

\* A table of the file is read back in its order.
LEMMA LoadOrder ==
  ASSUME NEW saved, TotalsOK(saved), Until(saved)
  PROVE  Until(LoadTotals(saved))
<1> DEFINE t == LoadTotals(saved)
<1>1. Increasing(t) /\ Recent(t, saved) BY LoadTotalsRecent DEF Until
<1> HIDE DEF t
<1>2. ASSUME NEW k \in 1 .. Len(t) PROVE t[k].day <= Today
  <2>1. PICK i \in 1 .. Len(saved) : t[k] = saved[i] BY <1>1 DEF Recent
  <2> QED BY <2>1 DEF Until
<1> QED BY <1>1, <1>2 DEF Until, t

\* What a start reads back, or a turn goes on with, keeps its order.
LEMMA TurnedOrder ==
  ASSUME TypeOK, NEW t0, TotalsOK(t0), Until(t0), NEW marks, NEW read \in BOOLEAN,
         Turned(t0, marks, read), day' = day
  PROVE  Until(totals)'
<1> DEFINE gained == IF read THEN Gained ELSE 0
<1>1. gained \in Nat BY GainedIs
<1>2. day \in DOMAIN Calendar BY DEF TypeOK
<1>3. totals' = Ledger(t0, gained) \/ totals' = t0 BY DEF Turned
<1> HIDE DEF gained
<1>4. Until(Ledger(t0, gained)) BY <1>1, <1>2, LedgerOrder
<1>5. Until(totals') BY <1>3, <1>4
<1>6. Today' = Today BY DEF Today
<1> QED BY <1>5, <1>6 DEF Until

\* What is left of rows in order is in order.
LEMMA ShortenedOrder ==
  ASSUME NEW t, TotalsOK(t), Until(t), NEW u, TotalsOK(u), Shortened(u, t)
  PROVE  Until(u)
<1>1. Len(u) \in Nat /\ Len(t) \in Nat /\ Len(u) <= Len(t) BY LenProperties DEF TotalsOK, Shortened
<1>2. \A i \in 1 .. Len(u) : i \in 1 .. Len(t) /\ u[i].day = t[i].day BY <1>1 DEF Shortened
<1>3. \A i \in 1 .. Len(u) : u[i].day <= Today BY <1>2 DEF Until
<1>4. Increasing(u) BY <1>2 DEF Until, Increasing
<1> QED BY <1>3, <1>4 DEF Until

LEMMA OrderedNext == TypeOK /\ OctetsOnce /\ DaysOrdered /\ [Next]_vars => DaysOrdered'
<1> SUFFICES ASSUME TypeOK, OctetsOnce, DaysOrdered, [Next]_vars, ~Excused({"clock"})'
             PROVE  Until(totals)' /\ Until(disk.totals)'
  BY DEF DaysOrdered
<1>1. strange \subseteq strange' BY StrangeGrows
<1>2. Until(totals) /\ Until(disk.totals) BY <1>1 DEF DaysOrdered, Excused
<1>3. TotalsOK(totals) /\ TotalsOK(disk.totals) /\ RowsOK(rows) /\ day \in DOMAIN Calendar
  BY DEF TypeOK, OctetsOnce, TotalsOK, RowsOK
<1>4. ASSUME UNCHANGED <<totals, disk, day>> PROVE Until(totals)' /\ Until(disk.totals)'
  <2>1. Today' = Today BY <1>4 DEF Today
  <2> QED BY <1>2, <1>4, <2>1 DEF Until
<1>5. CASE \E c, a : Outside(c, a)
  <2>1. PICK c, a : Outside(c, a) BY <1>5
  <2>2. CASE NextDay
    <3>1. Today \in Nat /\ Today' \in Nat /\ Today <= Today' BY <1>3, <2>2, LaterDay
    <3>2. Increasing(totals) /\ \A i \in 1 .. Len(totals) : totals[i].day <= Today' BY <1>2, <1>3, <3>1, UntilLater
    <3>3. Increasing(disk.totals) /\ \A i \in 1 .. Len(disk.totals) : disk.totals[i].day <= Today'
      BY <1>2, <1>3, <3>1, UntilLater
    <3>4. totals' = totals /\ disk' = disk BY <2>2 DEF NextDay
    <3> QED BY <3>2, <3>3, <3>4 DEF Until
  <2>3. CASE ClockBack BY <2>3 DEF ClockBack, Excused
  <2>4. CASE ~NextDay /\ ~ClockBack
    <3>1. UNCHANGED <<totals, disk, day>>
      BY <2>1, <2>4 DEF Outside, Open, HandOver, Close, Traffic, CounterReset, program
    <3> QED BY <1>4, <3>1
  <2> QED BY <2>2, <2>3, <2>4
<1>6. CASE Start
  <2> DEFINE t0 == LoadTotals(disk.totals)
  <2>1. TotalsOK(t0) /\ RowsOK(LoadRows(disk.rows)) BY <1>6, StartTypes
  <2>2. Until(t0) BY <1>2, <1>3, LoadOrder
  <2>3. PICK marks : Refresh(TRUE, t0, LoadRows(disk.rows), marks) BY <1>6 DEF Start
  <2>4. day' = day /\ disk' = disk BY <1>6 DEF Start, world
  <2> HIDE DEF t0
  <2>5. PICK read \in BOOLEAN : Turned(t0, marks, read) BY <2>1, <2>3, RefreshIs
  <2>6. Until(totals)' BY <2>1, <2>2, <2>4, <2>5, TurnedOrder
  <2>7. Today' = Today BY <2>4 DEF Today
  <2> QED BY <1>2, <2>4, <2>6, <2>7 DEF Until
<1>7. CASE Tick
  <2>1. day' = day /\ TotalsOK(totals')
    <3>1. TypeOK' BY <1>7, TickTypes
    <3> QED BY <1>7, <3>1, TickTurns DEF TypeOK, TotalsOK
  <2>2. PICK lost : Writes(lost) /\ \E read \in BOOLEAN : Turned(totals, lost, read) BY <1>7, TickTurns
  <2>3. Until(totals)' BY <1>2, <1>3, <2>1, <2>2, TurnedOrder
  <2>4. Today' = Today BY <2>1 DEF Today
  <2>5. Until(totals') BY <2>3, <2>4 DEF Until
  <2>6. \/ disk'.totals = disk.totals
        \/ TotalsOK(disk'.totals) /\ Shortened(disk'.totals, totals')
    BY <2>1, <2>2, HoldsLess DEF Writes
  <2>7. Until(disk'.totals) BY <1>2, <2>1, <2>5, <2>6, ShortenedOrder
  <2> QED BY <2>3, <2>4, <2>7 DEF Until
<1>8. CASE Stop \/ Crash
  <2>1. totals' = <<>> /\ day' = day BY <1>8 DEF Stop, Crash, ClearProgram, world
  <2>2. Today' = Today /\ Len(<<>>) = 0 BY <2>1 DEF Today
  <2>3. \/ disk'.totals = disk.totals
        \/ TotalsOK(disk'.totals) /\ Shortened(disk'.totals, totals)
    <3>1. CASE Stop BY <1>3, <3>1, StopSaves, HoldsLess
    <3>2. CASE Crash BY <3>2 DEF Crash
    <3> QED BY <1>8, <3>1, <3>2
  <2>4. Until(disk'.totals) BY <1>2, <1>3, <2>3, ShortenedOrder
  <2> QED BY <2>1, <2>2, <2>4 DEF Until, Increasing
<1>9. CASE UNCHANGED vars
  <2>1. UNCHANGED <<totals, disk, day>> BY <1>9 DEF vars, world, program
  <2> QED BY <1>4, <2>1
<1> QED BY <1>5, <1>6, <1>7, <1>8, <1>9, NextIs

-----------------------------------------------------------------------------
Mishaps == {"failed", "reset", "clock", "crash", "unsaved", "cut", "full", "aged"}
Clean == ~Excused(Mishaps)

\* Unless something went wrong, the rows hold every octet up to the last reading,
\* and a running program has read the interfaces and has no counter or clock to
\* catch up with.
OctetsAll ==
  Clean => /\ Bytes(Kept) = carried - Pending
           /\ on => base # None /\ octets >= base /\ ~late

\* What went wrong is not forgotten.
LEMMA CleanBefore ==
  ASSUME strange \subseteq strange', Clean'
  PROVE  Clean
  BY DEF Clean, Excused

LEMMA AllInit == Init => OctetsAll
<1> SUFFICES ASSUME Init PROVE OctetsAll OBVIOUS
<1>1. carried = 0 /\ base = None /\ on = FALSE /\ disk.totals = <<>> BY DEF Init
<1>2. Pending = 0 /\ Kept = <<>> BY <1>1 DEF Pending, Kept
<1> QED BY <1>1, <1>2, BytesNone DEF OctetsAll

\* A step that leaves the readings and the rows alone.
LEMMA AllKept ==
  ASSUME OctetsAll, strange \subseteq strange',
         UNCHANGED <<octets, base, on, late, carried, totals, disk>>
  PROVE  OctetsAll'
<1>1. Pending' = Pending /\ Kept' = Kept BY DEF Pending, Kept
<1> QED BY <1>1, CleanBefore DEF OctetsAll

LEMMA AllOutside ==
  ASSUME TypeOK, OctetsOnce, OctetsAll, NEW c, NEW a, Outside(c, a), strange \subseteq strange'
  PROVE  OctetsAll'
<1>1. /\ octets \in Nat /\ base \in Nat \cup {None} /\ None \notin Nat /\ Packet \in Nat
      /\ day \in DOMAIN Calendar /\ carried \in Int /\ (~on => base = None)
  BY UsageAssumption DEF TypeOK, OctetsOnce
<1>2. CASE c \in Conns /\ Traffic(c)
  <2> SUFFICES ASSUME Clean' PROVE OctetsAll' BY DEF OctetsAll
  <2>1. Clean BY CleanBefore
  <2>2. /\ octets' = octets + Packet /\ base' = base /\ on' = on /\ late' = late
        /\ totals' = totals /\ disk' = disk
        /\ carried' = IF on /\ base # None THEN carried + Packet ELSE carried
    BY <1>2 DEF Traffic
  <2>3. Kept' = Kept BY <2>2 DEF Kept
  <2>4. carried' - Pending' = carried - Pending
    <3>1. CASE base = None
      <4>1. Pending = 0 /\ Pending' = 0 BY <2>2, <3>1 DEF Pending
      <4> QED BY <2>2, <3>1, <4>1
    <3>2. CASE base # None
      <4>1. on /\ base \in Nat /\ octets >= base BY <1>1, <2>1, <3>2 DEF OctetsAll
      <4>2. Pending = octets - base /\ Pending' = octets + Packet - base
        BY <1>1, <2>2, <3>2, <4>1 DEF Pending
      <4> QED BY <1>1, <2>2, <3>2, <4>1, <4>2
    <3> QED BY <3>1, <3>2
  <2>5. on => octets' >= base' 
    <3> SUFFICES ASSUME on PROVE octets' >= base' OBVIOUS
    <3>1. base # None /\ octets >= base BY <2>1 DEF OctetsAll
    <3>2. base \in Nat BY <1>1, <3>1
    <3> QED BY <1>1, <2>2, <3>1, <3>2
  <2> QED BY <2>1, <2>2, <2>3, <2>4, <2>5 DEF OctetsAll
<1>3. CASE CounterReset \/ ClockBack
  <2>1. ~Clean' BY <1>3 DEF CounterReset, ClockBack, Clean, Excused, Mishaps
  <2> QED BY <2>1 DEF OctetsAll
<1>4. CASE NextDay
  <2> SUFFICES ASSUME Clean' PROVE OctetsAll' BY DEF OctetsAll
  <2>1. Clean BY CleanBefore
  <2>2. UNCHANGED <<octets, base, on, carried, totals, disk>> /\ late' = FALSE BY <1>4 DEF NextDay
  <2>3. Kept' = Kept /\ Pending' = Pending BY <2>2 DEF Kept, Pending
  <2> QED BY <2>1, <2>2, <2>3 DEF OctetsAll
<1>5. CASE UNCHANGED <<octets, base, on, late, carried, totals, disk>> BY <1>5, AllKept
<1> QED BY <1>2, <1>3, <1>4, <1>5 DEF Outside, Open, HandOver, Close, program

LEMMA AllStart ==
  ASSUME TypeOK, OctetsOnce, DaysOrdered, OctetsAll, Start, strange \subseteq strange'
  PROVE  OctetsAll'
<1> SUFFICES ASSUME Clean' PROVE OctetsAll' BY DEF OctetsAll
<1> DEFINE t0 == LoadTotals(disk.totals)
           r0 == LoadRows(disk.rows)
           marks == IF \E x \in ToSet(disk.totals) : x.day < Cutoff THEN {"aged"} ELSE {}
<1>1. Clean BY CleanBefore
<1>2. TotalsOK(t0) /\ RowsOK(r0) BY StartTypes
<1>3. Refresh(TRUE, t0, r0, marks) BY DEF Start
<1>4. ~on /\ on' = TRUE /\ UNCHANGED <<octets, carried, day, disk>> BY DEF Start, world
<1>5. base = None /\ Pending = 0 BY <1>4 DEF OctetsOnce, Pending
<1>6. TotalsOK(disk.totals) /\ Until(disk.totals) /\ Bytes(disk.totals) = carried - Pending
  BY <1>1, <1>4 DEF OctetsOnce, DaysOrdered, OctetsAll, Kept, Clean, Excused, Mishaps
<1>7. PICK read \in BOOLEAN : Turned(t0, marks, read)
  <2> HIDE DEF t0, r0, marks
  <2> QED BY <1>2, <1>3, RefreshIs
<1>8. read /\ "failed" \notin strange' /\ "aged" \notin marks
  <2>1. "failed" \notin strange' /\ "aged" \notin strange' BY DEF Clean, Excused, Mishaps
  <2>2. marks \subseteq strange' /\ (~read => "failed" \in strange') BY <1>7 DEF Turned
  <2> QED BY <2>1, <2>2
<1>9. t0 = disk.totals
  <2>1. \A x \in ToSet(disk.totals) : ~(x.day < Cutoff) BY <1>8
  <2>2. \A i \in 1 .. Len(disk.totals) : ~(disk.totals[i].day < Cutoff)
    <3>1. DOMAIN disk.totals = 1 .. Len(disk.totals) BY <1>6, LenProperties DEF TotalsOK
    <3> QED BY <2>1, <3>1 DEF ToSet
  <2> QED BY <1>6, <2>2, LoadTotalsSame DEF Until
<1>10. totals' = disk.totals
  <2>1. Gained = 0 BY <1>5 DEF Gained
  <2> HIDE DEF t0, marks
  <2>2. totals' = Ledger(t0, 0) \/ totals' = t0 BY <1>7, <1>8, <2>1 DEF Turned
  <2>3. Ledger(t0, 0) = t0 BY DEF Ledger
  <2> QED BY <1>9, <2>2, <2>3
<1>11. base' = octets' /\ late' = FALSE /\ octets \in Nat /\ octets' = octets /\ None \notin Nat
  BY <1>4, <1>7, <1>8, UsageAssumption DEF Turned, Based, TypeOK
<1>12. Pending' = 0 BY <1>11 DEF Pending
<1>13. Kept' = disk.totals BY <1>4, <1>10 DEF Kept
<1> QED BY <1>4, <1>5, <1>6, <1>11, <1>12, <1>13 DEF OctetsAll

LEMMA AllTick ==
  ASSUME TypeOK, OctetsOnce, OctetsAll, Tick, strange \subseteq strange'
  PROVE  OctetsAll'
<1> SUFFICES ASSUME Clean' PROVE OctetsAll' BY DEF OctetsAll
<1>1. Clean BY CleanBefore
<1>2. TotalsOK(totals) /\ RowsOK(rows) /\ day \in DOMAIN Calendar BY DEF TypeOK, TotalsOK, RowsOK
<1>3. on /\ on' = on /\ UNCHANGED <<octets, carried, day>> BY TickTurns
<1>4a. PICK lost : \E read \in BOOLEAN : Turned(totals, lost, read) BY TickTurns
<1>4. PICK read \in BOOLEAN : Turned(totals, lost, read) BY <1>4a
<1>5. "failed" \notin strange' /\ "full" \notin strange' BY DEF Clean, Excused, Mishaps
<1>6. read BY <1>4, <1>5 DEF Turned
<1>7. base # None /\ octets >= base /\ ~late /\ Bytes(totals) = carried - Pending
  BY <1>1, <1>3 DEF OctetsAll, Kept
<1>8. octets \in Nat /\ base \in Nat /\ None \notin Nat /\ carried \in Int
  BY <1>7, UsageAssumption DEF TypeOK, OctetsOnce
<1>9. Gained = Pending /\ Pending \in Nat BY <1>7, <1>8 DEF Gained, Pending
<1>10. /\ totals' = Ledger(totals, Pending)
       /\ Pending > 0 /\ PlaceOf(totals, Today) = 0 => Len(totals) < UsageDays
  BY <1>4, <1>5, <1>6, <1>9 DEF Turned
<1> DEFINE p == Pending
<1>11. p \in Nat /\ totals' = Ledger(totals, p) /\ (p > 0 /\ PlaceOf(totals, Today) = 0 => Len(totals) < UsageDays)
  BY <1>9, <1>10
<1>12. Bytes(totals) = carried - p BY <1>7
<1> HIDE DEF p
<1>13. Bytes(totals') = Bytes(totals) + p BY <1>2, <1>11, LedgerIs
<1>14. base' = octets /\ late' = FALSE /\ octets' = octets BY <1>3, <1>4, <1>6 DEF Turned, Based
<1>15. Pending' = 0 BY <1>8, <1>14 DEF Pending
<1>16. Kept' = totals' BY <1>3 DEF Kept
<1>17. Bytes(Kept)' = carried' - Pending'
  <2>1. Bytes(Kept)' = carried - p + p BY <1>12, <1>13, <1>16
  <2> QED BY <1>3, <1>8, <1>11, <1>15, <2>1
<1> QED BY <1>3, <1>8, <1>14, <1>17 DEF OctetsAll

LEMMA AllEnd ==
  ASSUME TypeOK, OctetsOnce, OctetsAll, Stop \/ Crash, strange \subseteq strange'
  PROVE  OctetsAll'
<1> SUFFICES ASSUME Clean' PROVE OctetsAll' BY DEF OctetsAll
<1>1. Clean BY CleanBefore
<1>2. Stop BY DEF Crash, Clean, Excused, Mishaps
<1>3. /\ on /\ on' = FALSE /\ base' = None /\ carried' = carried - Pending
      /\ disk'.totals = totals
  <2>1. "unsaved" \notin strange' /\ "cut" \notin strange' BY DEF Clean, Excused, Mishaps
  <2>2. disk'.totals = totals BY <1>2, <2>1, StopSaves DEF Holds
  <2> QED BY <1>2, <2>2 DEF Stop, ClearProgram
<1>4. Pending' = 0 /\ Kept' = Kept BY <1>3 DEF Pending, Kept
<1>5. Pending \in Nat /\ carried \in Int BY GainedIs DEF OctetsOnce
<1>6. carried' - Pending' = carried - Pending BY <1>3, <1>4, <1>5
<1> QED BY <1>1, <1>3, <1>4, <1>6 DEF OctetsAll

LEMMA AllNext == TypeOK /\ OctetsOnce /\ DaysOrdered /\ OctetsAll /\ [Next]_vars => OctetsAll'
<1> SUFFICES ASSUME TypeOK, OctetsOnce, DaysOrdered, OctetsAll, [Next]_vars PROVE OctetsAll' OBVIOUS
<1>1. strange \subseteq strange' BY StrangeGrows
<1>2. CASE \E c, a : Outside(c, a) BY <1>1, <1>2, AllOutside
<1>3. CASE Start BY <1>1, <1>3, AllStart
<1>4. CASE Tick BY <1>1, <1>4, AllTick
<1>5. CASE Stop \/ Crash BY <1>1, <1>5, AllEnd
<1>6. CASE UNCHANGED vars
  <2>1. UNCHANGED <<octets, base, on, late, carried, totals, disk>> BY <1>6 DEF vars, world, program
  <2> QED BY <1>1, <2>1, AllKept
<1> QED BY <1>2, <1>3, <1>4, <1>5, <1>6, NextIs

-----------------------------------------------------------------------------
(***************************************************************************)
(* The data limit.                                                         *)
(***************************************************************************)

\* A later day is not in an earlier period.
LEMMA PeriodLater ==
  ASSUME NextDay, day \in DOMAIN Calendar
  PROVE  PeriodStart <= PeriodStart' /\ PeriodStart' \in Nat
<1> DEFINE r == IF ResetDay < 1 THEN 1 ELSE IF ResetDay > 28 THEN 28 ELSE ResetDay
           y == Year(Today)
           m == Month(Today)
           d == Day(Today)
           y2 == Year(Today')
           m2 == Month(Today')
           d2 == Day(Today')
<1>1. r \in 1 .. 28 BY UsageAssumption
<1>2. PeriodStart = IF d >= r THEN Key(y, m, r)
                    ELSE IF m = 1 THEN Key(y - 1, 12, r) ELSE Key(y, m - 1, r)
  BY DEF PeriodStart
<1>3. PeriodStart' = IF d2 >= r THEN Key(y2, m2, r)
                     ELSE IF m2 = 1 THEN Key(y2 - 1, 12, r) ELSE Key(y2, m2 - 1, r)
  BY DEF PeriodStart
<1>4. Today \in Nat /\ Today' \in Nat /\ Today < Today' BY LaterDay
<1>5. m \in 1 .. 12 /\ m2 \in 1 .. 12 /\ d \in 1 .. 31 /\ d2 \in 1 .. 31
  <2>1. day' \in DOMAIN Calendar
    <3>1. DOMAIN Calendar = 1 .. Len(Calendar) /\ Len(Calendar) \in Nat
      BY UsageAssumption, LenProperties
    <3> QED BY <3>1 DEF NextDay
  <2> QED BY <2>1, UsageAssumption DEF Today
<1>6. y \in Nat /\ y2 \in Nat /\ Today = 10000 * y + 100 * m + d /\ Today' = 10000 * y2 + 100 * m2 + d2
  <2>1. y \in Nat /\ y2 \in Nat
    <3>1. \A key \in Nat : Year(key) \in Nat BY SMT DEF Year
    <3> QED BY <1>4, <3>1
  <2>2. Key(y, m, d) = Today /\ Key(y2, m2, d2) = Today'
    <3>1. \A key \in Int : Key(Year(key), Month(key), Day(key)) = key BY KeyWhole
    <3>2. Today \in Int /\ Today' \in Int BY <1>4
    <3> QED BY <3>1, <3>2, Zenon
  <2> HIDE DEF r, y, m, d, y2, m2, d2
  <2>3. Today = 10000 * y + 100 * m + d BY <1>5, <2>1, <2>2, SMT DEF Key
  <2>4. Today' = 10000 * y2 + 100 * m2 + d2 BY <1>5, <2>1, <2>2, SMT DEF Key
  <2> QED BY <2>1, <2>3, <2>4
<1> HIDE DEF r, y, m, d, y2, m2, d2
<1>7. 10000 * y + 100 * m + d < 10000 * y2 + 100 * m2 + d2 BY <1>4, <1>6
<1>8. y <= y2 /\ (y = y2 => m <= m2) /\ (y = y2 /\ m = m2 => d < d2) BY <1>5, <1>6, <1>7
<1>9. y2 > 0
  <2>1. day' \in DOMAIN Calendar
    <3>1. DOMAIN Calendar = 1 .. Len(Calendar) /\ Len(Calendar) \in Nat
      BY UsageAssumption, LenProperties
    <3> QED BY <3>1 DEF NextDay
  <2> QED BY <2>1, UsageAssumption DEF Today, y2
<1>10. PeriodStart' \in Nat BY <1>1, <1>3, <1>5, <1>6, <1>9 DEF Key
<1> QED BY <1>1, <1>2, <1>3, <1>5, <1>6, <1>8, <1>10 DEF Key

\* The limits in the order they are told.
Before(a, b) == a.period < b.period \/ (a.period = b.period /\ a.level < b.level)
NotAfter(a, b) == a = b \/ Before(a, b)
Sorted(s) == \A i, j \in 1 .. Len(s) : i < j => Before(s[i], s[j])
InTold(l, s) == l.level > 0 => \E i \in 1 .. Len(s) : s[i] = l

LEMMA BeforeIs ==
  ASSUME NEW a \in Limits, NEW b \in Limits, NEW c \in Limits
  PROVE  /\ NotAfter(a, b) /\ Before(b, c) => Before(a, c)
         /\ NotAfter(a, b) /\ NotAfter(b, c) => NotAfter(a, c)
         /\ ~Before(a, a)
  BY DEF Limits, Before, NotAfter

\* The alert of the limit in force was given, and so was that of the file's; and
\* while the clock goes forward and the state file is kept no alert is after the
\* file's limit, which is not after the program's, which is of no later period than
\* today's.
Dated == "clock" \notin strange /\ "forgot" \notin strange

LimitsKnown ==
  /\ told \in Seq(Limits) /\ InTold(limit, told) /\ InTold(disk.limit, told)
  /\ Dated =>
       /\ Sorted(told) /\ \A i \in 1 .. Len(told) : NotAfter(told[i], disk.limit)
       /\ disk.limit.period <= PeriodStart /\ limit.period <= PeriodStart
       /\ on => NotAfter(disk.limit, limit)

\* check_data_limit: what a turn does to the limits and the alerts.
Checked(l, now) ==
  /\ now \in Limits
  /\ NotAfter(limit, now) \/ limit.period > PeriodStart
  /\ now.period = PeriodStart /\ InTold(now, told)
  /\ \/ /\ l \in Limits /\ Before(now, l) /\ l.period = PeriodStart
        /\ limit' = l /\ told' = Append(told, l)
        /\ disk'.limit = l \/ ("forgot" \in strange' /\ disk'.limit \in {disk.limit, NoLimit})
     \/ limit' = now /\ disk'.limit = disk.limit /\ told' = told
  /\ limit'.level >= Level(PeriodBytes(totals', PeriodStart))

LEMMA CheckIs ==
  ASSUME TypeOK, LimitsKnown, NEW file \in Files, file.limit = disk.limit,
         NEW lost, lost \subseteq strange', CheckLimit(file, lost)
  PROVE  \E l, now : Checked(l, now)
<1> DEFINE now == InPeriod(PeriodStart)
           level == Level(PeriodBytes(totals', PeriodStart))
           l == [now EXCEPT !.level = level]
<1>1. PeriodStart \in Nat /\ level \in 0 .. 2 /\ limit \in Limits BY PeriodIs, LevelIs DEF TypeOK
<1>2. now \in Limits /\ now.period = PeriodStart BY <1>1 DEF InPeriod, Limits
<1>3. NotAfter(limit, now) \/ limit.period > PeriodStart
  BY <1>1 DEF InPeriod, NotAfter, Before, Limits
<1>4. InTold(now, told)
  <2>1. now = limit \/ now.level = 0 BY DEF InPeriod
  <2> HIDE DEF now
  <2> QED BY <2>1 DEF LimitsKnown, InTold
<1>5. \/ /\ level > now.level /\ limit' = l /\ told' = Append(told, l)
         /\ \E kept \in StateLimits(l, lost) : disk' = [file EXCEPT !.limit = kept]
      \/ ~(level > now.level) /\ limit' = now /\ disk' = file /\ told' = told
  BY DEF CheckLimit
<1>6. level = Level(PeriodBytes(totals', PeriodStart)) OBVIOUS
<1> HIDE DEF now, level
<1>7. l \in Limits /\ l.period = PeriodStart /\ l.level = level BY <1>1, <1>2 DEF Limits
<1> HIDE DEF l
<1>8. \A kept \in StateLimits(l, lost) :
        LET d == [file EXCEPT !.limit = kept]
        IN d.limit = l \/ ("forgot" \in strange' /\ d.limit \in {disk.limit, NoLimit})
  BY DEF StateLimits, SavedLimit, Files
<1>9. level > now.level => Before(now, l) BY <1>2, <1>7 DEF Before
<1>10. limit'.level >= level BY <1>1, <1>2, <1>5, <1>7 DEF Limits
<1>11. Checked(l, now)
  <2>1. CASE level > now.level
    <3>1. /\ limit' = l /\ told' = Append(told, l)
          /\ disk'.limit = l \/ ("forgot" \in strange' /\ disk'.limit \in {disk.limit, NoLimit})
      BY <1>5, <1>8, <2>1
    <3> QED BY <1>2, <1>3, <1>4, <1>6, <1>7, <1>9, <1>10, <2>1, <3>1 DEF Checked
  <2>2. CASE ~(level > now.level)
    <3>1. limit' = now /\ disk'.limit = disk.limit /\ told' = told BY <1>5, <2>2
    <3> QED BY <1>2, <1>3, <1>4, <1>6, <1>10, <3>1 DEF Checked
  <2> QED BY <2>1, <2>2
<1> QED BY <1>11

LEMMA InToldLater ==
  ASSUME NEW s \in Seq(Limits), NEW x \in Limits, NEW l, InTold(l, s)
  PROVE  InTold(l, Append(s, x)) /\ InTold(x, Append(s, x))
<1>1. Len(s) \in Nat /\ Len(Append(s, x)) = Len(s) + 1 /\ Append(s, x)[Len(s) + 1] = x
      /\ \A i \in 1 .. Len(s) : Append(s, x)[i] = s[i]
  BY LenProperties, AppendProperties
<1>2. \A i \in 1 .. Len(s) : i \in 1 .. Len(s) + 1 BY <1>1
<1>3. Len(s) + 1 \in 1 .. Len(s) + 1 BY <1>1
<1> QED BY <1>1, <1>2, <1>3 DEF InTold

LEMMA SortedLater ==
  ASSUME NEW s \in Seq(Limits), NEW x \in Limits, NEW y \in Limits,
         Sorted(s), \A i \in 1 .. Len(s) : NotAfter(s[i], y), Before(y, x)
  PROVE  Sorted(Append(s, x)) /\ \A i \in 1 .. Len(Append(s, x)) : NotAfter(Append(s, x)[i], x)
<1> DEFINE u == Append(s, x)
           z == Len(s)
<1>1. z \in Nat /\ Len(u) = z + 1 /\ u[z + 1] = x /\ \A i \in 1 .. z : u[i] = s[i]
  BY LenProperties, AppendProperties
<1>2. \A i \in 1 .. z : s[i] \in Limits BY ElementOfSeq
<1>3. \A i \in 1 .. z : Before(s[i], x) BY <1>2, BeforeIs
<1> HIDE DEF u, z
<1>4. ASSUME NEW i \in 1 .. z + 1, NEW j \in 1 .. z + 1, i < j PROVE Before(u[i], u[j])
  <2>1. i \in 1 .. z BY <1>1, <1>4
  <2>2. CASE j = z + 1 BY <1>1, <1>3, <2>1, <2>2
  <2>3. CASE j # z + 1
    <3>1. j \in 1 .. z BY <1>1, <2>3
    <3>2. Before(s[i], s[j]) BY <1>4, <2>1, <3>1 DEF Sorted, z
    <3> QED BY <1>1, <2>1, <3>1, <3>2
  <2> QED BY <2>2, <2>3
<1>5. ASSUME NEW i \in 1 .. z + 1 PROVE NotAfter(u[i], x)
  <2>1. i \in 1 .. z \/ i = z + 1 BY <1>1
  <2> QED BY <1>1, <1>3, <2>1 DEF NotAfter
<1>6. Sorted(u) BY <1>1, <1>4 DEF Sorted
<1> QED BY <1>1, <1>5, <1>6 DEF u

LEMMA KnownChecked ==
  ASSUME TypeOK, LimitsKnown, on, on', strange \subseteq strange', day' = day,
         NEW l, NEW now, Checked(l, now)
  PROVE  LimitsKnown'
<1>1. limit \in Limits /\ disk.limit \in Limits /\ told \in Seq(Limits) /\ now \in Limits
  BY DEF TypeOK, LimitsKnown, Checked
<1>2. PeriodStart' = PeriodStart /\ PeriodStart \in Nat BY PeriodIs DEF PeriodStart, Today, TypeOK
<1>3. CASE /\ l \in Limits /\ Before(now, l) /\ l.period = PeriodStart
           /\ limit' = l /\ told' = Append(told, l)
           /\ disk'.limit = l \/ ("forgot" \in strange' /\ disk'.limit \in {disk.limit, NoLimit})
  <2>1. told' \in Seq(Limits) BY <1>1, <1>3, AppendProperties
  <2>2. InTold(l, told') /\ InTold(disk.limit, told') /\ InTold(NoLimit, told')
    <3>1. InTold(disk.limit, told) /\ InTold(NoLimit, told) BY DEF LimitsKnown, InTold, NoLimit
    <3> QED BY <1>1, <1>3, <3>1, InToldLater DEF Checked
  <2>3. ASSUME Dated'
        PROVE  /\ Sorted(told') /\ \A i \in 1 .. Len(told') : NotAfter(told'[i], l)
    <3>1. /\ Sorted(told) /\ \A i \in 1 .. Len(told) : NotAfter(told[i], disk.limit)
          /\ limit.period <= PeriodStart /\ NotAfter(disk.limit, limit)
      BY <2>3 DEF LimitsKnown, Dated
    <3>2. NotAfter(limit, now)
      <4>1. limit.period \in Nat BY <1>1 DEF Limits
      <4> QED BY <1>2, <3>1, <4>1 DEF Checked
    <3>3. Before(disk.limit, l)
      <4>1. NotAfter(disk.limit, now) BY <1>1, <3>1, <3>2, BeforeIs
      <4> QED BY <1>1, <1>3, <4>1, BeforeIs
    <3> QED BY <1>1, <1>3, <3>1, <3>3, SortedLater
  <2>4. l.period <= PeriodStart BY <1>2, <1>3
  <2>5. Dated' => disk'.limit = l BY <1>3 DEF Dated
  <2>6. InTold(disk'.limit, told') BY <1>3, <2>2
  <2> QED BY <1>2, <1>3, <2>1, <2>2, <2>3, <2>4, <2>5, <2>6 DEF LimitsKnown, NotAfter
<1>4. CASE limit' = now /\ disk'.limit = disk.limit /\ told' = told
  <2>1. InTold(now, told) /\ now.period = PeriodStart BY DEF Checked
  <2>2. ASSUME Dated' PROVE NotAfter(disk.limit, now)
    <3>1. limit.period <= PeriodStart /\ NotAfter(disk.limit, limit) BY <2>2 DEF LimitsKnown, Dated
    <3>2. NotAfter(limit, now)
      <4>1. limit.period \in Nat BY <1>1 DEF Limits
      <4> QED BY <1>2, <3>1, <4>1 DEF Checked
    <3> QED BY <1>1, <3>1, <3>2, BeforeIs
  <2>3. now.period <= PeriodStart BY <1>2, <2>1
  <2> QED BY <1>2, <1>4, <2>1, <2>2, <2>3 DEF LimitsKnown, Dated
<1> QED BY <1>3, <1>4 DEF Checked

LEMMA KnownInit == Init => LimitsKnown
<1> SUFFICES ASSUME Init PROVE LimitsKnown OBVIOUS
<1>1. told = <<>> /\ limit = NoLimit /\ disk.limit = NoLimit /\ on = FALSE BY DEF Init
<1>2. PeriodStart \in Nat BY TypesInit, PeriodIs DEF TypeOK
<1>3. InTold(NoLimit, told) BY DEF InTold, NoLimit
<1>4. Sorted(told) /\ \A i \in 1 .. Len(told) : NotAfter(told[i], disk.limit) BY <1>1 DEF Sorted
<1>5. NoLimit.period <= PeriodStart BY <1>2 DEF NoLimit
<1> QED BY <1>1, <1>3, <1>4, <1>5 DEF LimitsKnown

\* A step that leaves the limits and the alerts alone.
LEMMA KnownKept ==
  ASSUME LimitsKnown, strange \subseteq strange', told' = told, limit' = limit, disk'.limit = disk.limit,
         "clock" \notin strange' => PeriodStart \in Nat /\ PeriodStart' \in Nat /\ PeriodStart <= PeriodStart',
         limit \in Limits, disk.limit \in Limits, on' => on
  PROVE  LimitsKnown'
<1>1. ASSUME Dated'
      PROVE  disk.limit.period <= PeriodStart' /\ limit.period <= PeriodStart'
  <2>1. disk.limit.period <= PeriodStart /\ limit.period <= PeriodStart BY <1>1 DEF LimitsKnown, Dated
  <2>2. disk.limit.period \in Nat /\ limit.period \in Nat BY DEF Limits
  <2>3. "clock" \notin strange' BY <1>1 DEF Dated
  <2> QED BY <2>1, <2>2, <2>3
<1> QED BY <1>1 DEF LimitsKnown, Dated

\* A turn checks the limit, or leaves it and the file's.
LEMMA TickIs ==
  ASSUME TypeOK, LimitsKnown, Tick
  PROVE  \/ n' % CheckEvery = 0 /\ \E l, now : Checked(l, now)
         \/ n' % CheckEvery # 0 /\ told' = told /\ limit' = limit /\ disk'.limit = disk.limit
<1>1. PICK lost : Turn(lost) /\ lost \subseteq strange' BY TickTurns
<1>2. TotalsOK(totals') /\ RowsOK(rows')
  <2>1. TypeOK' BY TickTypes
  <2> QED BY <2>1 DEF TypeOK, TotalsOK, RowsOK
<1>3. PICK file \in IF n' % SaveEvery = 0 THEN UsageFiles(totals', rows', lost) ELSE {disk} :
            IF n' % CheckEvery = 0 THEN CheckLimit(file, lost)
            ELSE disk' = file /\ UNCHANGED <<limit, told>>
  BY <1>1 DEF Turn
<1>4. disk \in Files BY DEF TypeOK, Files
<1>5. file \in Files /\ file.limit = disk.limit
  <2>1. CASE n' % SaveEvery = 0
    <3>1. totals' \in Seq(Rows) /\ rows' \in Seq(AppRow) BY <1>2 DEF TotalsOK, RowsOK
    <3>2. file \in UsageFiles(totals', rows', lost) BY <2>1
    <3> QED BY <1>4, <3>1, <3>2, UsageFilesAre
  <2>2. CASE n' % SaveEvery # 0 BY <1>4, <2>2
  <2> QED BY <2>1, <2>2
<1>6. CASE n' % CheckEvery = 0
  <2>1. CheckLimit(file, lost) BY <1>3, <1>6
  <2> QED BY <1>1, <1>5, <1>6, <2>1, CheckIs
<1>7. CASE n' % CheckEvery # 0 BY <1>3, <1>5, <1>7
<1> QED BY <1>6, <1>7

LEMMA KnownNext == TypeOK /\ LimitsKnown /\ [Next]_vars => LimitsKnown'
<1> SUFFICES ASSUME TypeOK, LimitsKnown, [Next]_vars PROVE LimitsKnown' OBVIOUS
<1>1. strange \subseteq strange' BY StrangeGrows
<1>2. limit \in Limits /\ disk.limit \in Limits /\ day \in DOMAIN Calendar BY DEF TypeOK
<1>3. PeriodStart \in Nat BY <1>2, PeriodIs
<1>4. day' = day => PeriodStart' = PeriodStart BY DEF PeriodStart, Today
<1>5. ASSUME UNCHANGED <<told, limit, disk, day, on>> PROVE LimitsKnown'
  BY <1>1, <1>2, <1>3, <1>4, <1>5, KnownKept
<1>6. ASSUME NEW c, NEW a, Outside(c, a) PROVE LimitsKnown'
  <2>1. UNCHANGED <<told, limit, disk, on>>
    BY <1>6 DEF Outside, Open, HandOver, Close, Traffic, CounterReset, NextDay, ClockBack, program
  <2>2. CASE NextDay
    <3>1. PeriodStart <= PeriodStart' /\ PeriodStart' \in Nat BY <1>2, <2>2, PeriodLater
    <3> QED BY <1>1, <1>2, <1>3, <2>1, <3>1, KnownKept
  <2>3. CASE ClockBack
    <3>1. "clock" \in strange' BY <2>3 DEF ClockBack
    <3> QED BY <1>1, <1>2, <2>1, <3>1, KnownKept
  <2>4. CASE day' = day BY <1>5, <2>1, <2>4
  <2> QED BY <1>6, <2>2, <2>3, <2>4 DEF Outside, Open, HandOver, Close, Traffic, CounterReset
<1>7. CASE Start
  <2>1. limit' = disk.limit /\ UNCHANGED <<told, disk, day>> BY <1>7 DEF Start, world
  <2> QED BY <1>1, <1>4, <2>1 DEF LimitsKnown, NotAfter, Dated
<1>8. CASE Tick
  <2>1. on /\ on' = on /\ day' = day BY <1>8, TickTurns
  <2>2. CASE \E l, now : Checked(l, now)
    <3>1. PICK l, now : Checked(l, now) BY <2>2
    <3> QED BY <1>1, <2>1, <3>1, KnownChecked
  <2>3. CASE told' = told /\ limit' = limit /\ disk'.limit = disk.limit
    BY <1>1, <1>2, <1>3, <1>4, <2>1, <2>3, KnownKept
  <2> QED BY <1>8, <2>2, <2>3, TickIs
<1>9. CASE Stop
  <2>1. on /\ on' = FALSE /\ limit' = NoLimit /\ UNCHANGED <<told, day>>
    BY <1>9 DEF Stop, ClearProgram, world
  <2>2. disk'.limit = limit \/ ("forgot" \in strange' /\ disk'.limit \in {disk.limit, NoLimit}) BY <1>9, StopSaves
  <2>3. InTold(NoLimit, told) /\ NoLimit.period <= PeriodStart BY <1>3 DEF InTold, NoLimit
  <2>4. InTold(disk'.limit, told') BY <2>1, <2>2, <2>3 DEF LimitsKnown
  <2>5. ASSUME Dated'
        PROVE  /\ Sorted(told') /\ \A i \in 1 .. Len(told') : NotAfter(told'[i], disk'.limit)
               /\ disk'.limit.period <= PeriodStart' /\ limit'.period <= PeriodStart'
    <3>1. Dated /\ disk'.limit = limit BY <1>1, <2>2, <2>5 DEF Dated
    <3>2. ASSUME NEW i \in 1 .. Len(told) PROVE NotAfter(told[i], limit)
      <4>1. told[i] \in Limits BY ElementOfSeq DEF LimitsKnown
      <4>2. NotAfter(told[i], disk.limit) /\ NotAfter(disk.limit, limit) BY <2>1, <3>1 DEF LimitsKnown
      <4> QED BY <1>2, <4>1, <4>2, BeforeIs
    <3>3. Sorted(told) /\ limit.period <= PeriodStart BY <3>1 DEF LimitsKnown
    <3> QED BY <1>4, <2>1, <2>3, <3>1, <3>2, <3>3
  <2> QED BY <2>1, <2>3, <2>4, <2>5 DEF LimitsKnown
<1>10. CASE Crash
  <2>1. on' = FALSE /\ limit' = NoLimit /\ disk'.limit = disk.limit /\ UNCHANGED <<told, day>>
    BY <1>10 DEF Crash, ClearProgram, world
  <2>2. InTold(NoLimit, told) /\ NoLimit.period <= PeriodStart BY <1>3 DEF InTold, NoLimit
  <2> QED BY <1>1, <1>4, <2>1, <2>2 DEF LimitsKnown, Dated
<1>11. CASE UNCHANGED vars BY <1>5, <1>11 DEF vars, world, program
<1> QED BY <1>6, <1>7, <1>8, <1>9, <1>10, <1>11, NextIs

-----------------------------------------------------------------------------
(***************************************************************************)
(* What the applications are charged.                                      *)
(***************************************************************************)
\* A table's application is counted with what its connections in the table have,
\* besides what retired; who is not counted found the table full.
CountedOK(ap, cn) ==
  /\ \A a \in DOMAIN ap : ap[a].counted = ap[a].retired + BytesOf(cn, {c \in DOMAIN cn : cn[c].app = a})
  /\ (\A c \in DOMAIN cn : cn[c].app \in DOMAIN ap) \/ Cardinality(DOMAIN ap) = MaxApps

\* Nobody gains more than the dues.
LEMMA GainIs ==
  ASSUME ConnsOK(conns), AppsOK(apps), CountedOK(apps, conns), NEW fresh, ConnsOK(fresh), NEW a,
         a \in DOMAIN apps \/ Cardinality(DOMAIN apps) < MaxApps
  PROVE  GainOf(a, fresh) <= BytesOf(Dues(fresh, a), Conns)
<1> DEFINE H == {c \in DOMAIN conns : conns[c].app = a}
           held == BytesOf(conns, H)
           rest == Retired(a, fresh)
           live == Live(a, fresh)
           d == BytesOf(Dues(fresh, a), Conns)
<1>1. rest \in Nat /\ live \in Nat /\ held \in Nat /\ rest + live <= held + d BY CountedLess
<1>2. d \in Nat BY DuesWeigh
<1>3. CASE a \in DOMAIN apps
  <2>1. apps[a].counted = apps[a].retired + held BY <1>3 DEF CountedOK
  <2>2. apps[a].retired \in Nat /\ apps[a].counted \in Nat BY <1>3, RangeIs DEF AppsOK
  <2>3. GainOf(a, fresh) = ((apps[a].retired + rest) + live) - apps[a].counted
    BY <1>3 DEF GainOf, CountedOf, RetiredOf
  <2> HIDE DEF held, rest, live, d
  <2>4. ((apps[a].retired + rest) + live) - apps[a].counted <= d BY <1>1, <1>2, <2>1, <2>2
  <2> QED BY <2>3, <2>4 DEF d
<1>4. CASE a \notin DOMAIN apps
  <2>1. H = {}
    <3>1. Cardinality(DOMAIN apps) < MaxApps BY <1>4
    <3>2. MaxApps \in Nat BY UsageAssumption
    <3>3. ~(MaxApps < MaxApps) BY <3>2
    <3>4. \A c \in DOMAIN conns : conns[c].app \in DOMAIN apps BY <3>1, <3>3 DEF CountedOK
    <3> QED BY <1>4, <3>4
  <2>2. held = 0 BY <2>1, BytesOfNone
  <2>3. GainOf(a, fresh) = ((0 + rest) + live) - 0 BY <1>4 DEF GainOf, CountedOf, RetiredOf
  <2> HIDE DEF held, rest, live, d
  <2>4. ((0 + rest) + live) - 0 <= d BY <1>1, <1>2, <2>2
  <2> QED BY <2>3, <2>4 DEF d
<1> QED BY <1>3, <1>4

LEMMA PassCounts ==
  ASSUME TypeOK, NEW initial \in BOOLEAN, NEW t0, NEW r0, RowsOK(r0), NEW gained,
         NEW idle, NEW tcp, NEW udp, NEW readable, NEW named, IsPass(idle, tcp, udp, readable, named),
         Account(initial, Listed(idle, tcp, udp, readable), DOMAIN apps \cup named, gained, t0, r0)
  PROVE  /\ CountedOK(apps', conns')
         /\ CountedOK(apps, conns) =>
              \A a : \/ BytesFor(rows', a) <= BytesFor(r0, a)
                     \/ ~initial /\ BytesFor(rows', a) <= BytesFor(r0, a) + BytesOf(Dues(conns', a), Conns)
<1> DEFINE fresh == Listed(idle, tcp, udp, readable)
           known == DOMAIN apps \cup named
           gain == Gains(known, fresh)
           charged == {a \in known : Charges(initial, a, gain[a])}
<1>1. ConnsOK(fresh) /\ ConnsOK(conns) /\ AppsOK(apps) BY FreshIs DEF Lists, TypeOK, ConnsOK, AppsOK
<1>2. /\ known \subseteq Apps
      /\ (\A c \in DOMAIN fresh : fresh[c].app \in known) \/ Cardinality(known) = MaxApps
      /\ named # {} => Cardinality(DOMAIN apps) < MaxApps
  BY KnownIs
<1>3. /\ conns' = fresh /\ rows' = Charged(r0, charged, gain)
      /\ apps' = [a \in known |-> [retired |-> RetiredOf(a, fresh), counted |-> CountedOf(a, fresh)]]
  BY AccountIs
<1>4. \A a \in known : a \in DOMAIN apps \/ Cardinality(DOMAIN apps) < MaxApps BY <1>2
<1> HIDE DEF fresh, known
<1>5. DOMAIN apps' = known /\ \A a \in known : apps'[a].counted = apps'[a].retired + Live(a, fresh)
  BY <1>3 DEF CountedOf
<1>6. CountedOK(apps', conns') BY <1>2, <1>3, <1>5 DEF CountedOK, Live
<1>7. \A a \in known : gain[a] = GainOf(a, fresh) /\ gain[a] \in Int BY <1>1, GainTypes DEF Gains
<1> HIDE DEF gain
<1>8. \A a \in charged : gain[a] \in Nat /\ ~initial BY <1>7 DEF Charges
<1>9. charged \in SUBSET Apps BY <1>2
<1>10. ASSUME CountedOK(apps, conns), NEW a
       PROVE  \/ BytesFor(rows', a) <= BytesFor(r0, a)
              \/ ~initial /\ BytesFor(rows', a) <= BytesFor(r0, a) + BytesOf(Dues(conns', a), Conns)
  <2>1. day \in DOMAIN Calendar BY DEF TypeOK
  <2> DEFINE new == BytesFor(Charged(r0, charged, gain), a)
             old == BytesFor(r0, a)
  <2>2. new <= old + IF a \in charged THEN gain[a] ELSE 0
    <3> HIDE DEF charged
    <3> QED BY <1>8, <1>9, <2>1, ForCharged
  <2>3. old \in Nat BY ForType DEF RowsOK
  <2>4. RowsOK(Charged(r0, charged, gain))
    <3> HIDE DEF charged
    <3> QED BY <1>8, <1>9, <2>1, ChargedIs
  <2>5. new \in Nat BY <2>4, ForType DEF RowsOK
  <2>6. CASE a \notin charged
    <3> HIDE DEF new, old, charged
    <3>1. new <= old BY <2>2, <2>3, <2>5, <2>6
    <3> QED BY <1>3, <3>1 DEF new, old
  <2>7. CASE a \in charged
    <3> DEFINE d == BytesOf(Dues(fresh, a), Conns)
    <3>1. a \in known /\ gain[a] \in Nat /\ ~initial BY <1>8, <2>7
    <3>2. gain[a] <= d BY <1>1, <1>4, <1>7, <1>10, <3>1, GainIs
    <3>3. d \in Nat BY <1>1, DuesWeigh
    <3> HIDE DEF new, old, charged, d
    <3>4. new <= old + d BY <2>2, <2>3, <2>5, <2>7, <3>1, <3>2, <3>3
    <3> QED BY <1>3, <3>1, <3>4 DEF new, old, d
  <2> QED BY <2>6, <2>7
<1> QED BY <1>6, <1>10

\* What the next pass may charge an application with for a socket: what was not
\* seen yet of its own, and all of a flow whose last event was another process's.
Owes(c, a) ==
  IF c \in Tcp THEN IF owner[c] = a THEN Unseen(c, a, sent[c]) ELSE 0
  ELSE IF c \notin DOMAIN flows THEN 0
  ELSE IF flows[c].app = a THEN Unseen(c, a, flows[c].bytes)
  ELSE IF owner[c] = a THEN flows[c].bytes ELSE 0
Owed(a) == [c \in Conns |-> [bytes |-> Owes(c, a)]]
Debt(a) == BytesOf(Owed(a), Conns)

LEMMA OwesType ==
  ASSUME TypeOK, NEW a
  PROVE  (\A c \in Conns : Owes(c, a) \in Nat) /\ WeighsIn(Owed(a), Conns) /\ Debt(a) \in Nat
<1>1. ConnsOK(conns) BY DEF TypeOK, ConnsOK
<1>2. \A c \in DOMAIN flows : flows[c].bytes \in Nat BY RangeIs DEF TypeOK
<1>3. \A c \in Tcp : sent[c] \in Nat BY DEF TypeOK
<1>4. \A c \in Conns : Owes(c, a) \in Nat
  <2> TAKE c \in Conns
  <2>1. \A b \in Nat : Unseen(c, a, b) \in Nat BY <1>1, SeenType
  <2> QED BY <1>2, <1>3, <2>1 DEF Owes
<1>5. WeighsIn(Owed(a), Conns) BY <1>4, ConnsFinite DEF WeighsIn, Owed
<1> QED BY <1>4, <1>5, BytesOfStep DEF Debt

LEMMA OwesTypeNext ==
  ASSUME TypeOK', NEW a
  PROVE  (\A c \in Conns : Owes(c, a)' \in Nat) /\ WeighsIn(Owed(a)', Conns) /\ Debt(a)' \in Nat
<1>0. ConnsOK(conns') BY DEF TypeOK, ConnsOK
<1>1. \A c : SeenOf(c, a)' \in Nat
  <2> TAKE c
  <2>1. \A d \in DOMAIN conns' : conns'[d].bytes \in Nat BY <1>0, RangeIs DEF ConnsOK, Counts
  <2> QED BY <2>1 DEF SeenOf
<1>2. \A c \in DOMAIN flows' : flows'[c].bytes \in Nat BY RangeIs DEF TypeOK
<1>3. \A c \in Tcp : sent'[c] \in Nat BY DEF TypeOK
<1>4. \A c \in Conns : Owes(c, a)' \in Nat
  <2> TAKE c \in Conns
  <2>1. SeenOf(c, a)' \in Nat BY <1>1
  <2> QED BY <1>2, <1>3, <2>1 DEF Owes, Unseen
<1>5. WeighsIn(Owed(a)', Conns) BY <1>4, ConnsFinite DEF WeighsIn, Owed
<1> QED BY <1>4, <1>5, BytesOfStep DEF Debt

\* A pass that lists and reads every connection settles the dues: nothing is owed
\* twice, and nothing is seen before it was owed.
LEMMA OwesAfter ==
  ASSUME TypeOK, TypeOK', NEW idle, NEW tcp, NEW udp, NEW named, IsPass(idle, tcp, udp, tcp, named),
         flows' = KeptFlows(idle), conns' = Listed(idle, tcp, udp, tcp), UNCHANGED <<owner, sent>>,
         tcp \cup udp = Opened \cup DOMAIN KeptFlows(idle), NEW a \in Apps
  PROVE  /\ Debt(a)' + BytesOf(Dues(conns', a), Conns) <= Debt(a)
         /\ flows = <<>> => Debt(a)' = 0
<1> DEFINE d == Dues(conns', a)
<1>0. Lists(flows', conns', idle, tcp, udp, tcp) BY FreshIs
<1>1. /\ DOMAIN flows' = DOMAIN flows \ idle
      /\ \A c \in DOMAIN flows' : flows'[c].app = flows[c].app /\ flows'[c].bytes = flows[c].bytes
      /\ tcp \subseteq Opened /\ udp \subseteq DOMAIN flows' /\ Tcp \cap DOMAIN flows' = {}
      /\ ConnsOK(conns') /\ DOMAIN conns' = tcp \cup udp
      /\ \A c \in udp : conns'[c].app = flows'[c].app /\ conns'[c].bytes = flows'[c].bytes
      /\ \A c \in tcp : conns'[c].app = owner[c] /\ conns'[c].bytes = sent[c]
  BY <1>0 DEF Lists
<1>2. None \notin Apps /\ Opened \subseteq Tcp /\ ConnsOK(conns) BY UsageAssumption DEF Opened, TypeOK, ConnsOK
<1>3. tcp = Opened /\ udp = DOMAIN flows' BY <1>1, <1>2
<1>4. ASSUME NEW c \in Conns
      PROVE  /\ Owes(c, a)' + d[c].bytes <= Owes(c, a)
             /\ flows = <<>> => Owes(c, a)' = 0
  <2>1. Owes(c, a) \in Nat /\ \A b \in Nat : Unseen(c, a, b) \in Nat BY <1>2, SeenType, OwesType
  <2>2. d[c].bytes = IF c \in DOMAIN conns' /\ conns'[c].app = a THEN Unseen(c, a, conns'[c].bytes) ELSE 0
    BY DEF Dues
  <2> HIDE DEF d
  <2>3. CASE c \in Tcp /\ owner[c] = a
    <3>1. c \in Opened BY <1>2, <2>3 DEF Opened
    <3>2. c \in DOMAIN conns' /\ conns'[c].app = a /\ conns'[c].bytes = sent[c] /\ sent[c] \in Nat
      BY <1>1, <1>3, <2>3, <3>1 DEF TypeOK
    <3>3. SeenOf(c, a)' = sent[c] BY <3>2 DEF SeenOf
    <3>4. Owes(c, a)' = 0 BY <2>3, <3>2, <3>3 DEF Owes, Unseen
    <3>5. Owes(c, a) = Unseen(c, a, sent[c]) /\ d[c].bytes = Unseen(c, a, sent[c]) BY <2>2, <2>3, <3>2 DEF Owes
    <3> QED BY <2>1, <3>4, <3>5
  <2>4. CASE c \in Tcp /\ owner[c] # a
    <3>1. c \in DOMAIN conns' => conns'[c].app # a BY <1>1, <1>3, <2>4
    <3>2. Owes(c, a)' = 0 /\ Owes(c, a) = 0 /\ d[c].bytes = 0 BY <2>2, <2>4, <3>1 DEF Owes
    <3> QED BY <3>2
  <2>5. CASE c \notin Tcp /\ c \notin DOMAIN flows'
    <3>1. c \notin DOMAIN conns' BY <1>1, <1>2, <1>3, <2>5
    <3>2. Owes(c, a)' = 0 /\ d[c].bytes = 0 BY <2>2, <2>5, <3>1 DEF Owes
    <3> QED BY <2>1, <3>2
  <2>6. CASE c \notin Tcp /\ c \in DOMAIN flows'
    <3>1. /\ c \in DOMAIN conns' /\ conns'[c].app = flows'[c].app /\ conns'[c].bytes = flows'[c].bytes
      BY <1>1, <1>3, <2>6
    <3>2. /\ c \in DOMAIN flows /\ flows'[c].app = flows[c].app /\ flows'[c].bytes = flows[c].bytes
      BY <1>1, <2>6
    <3>3. flows[c].bytes \in Nat BY <3>2, RangeIs DEF TypeOK
    <3>4. CASE flows[c].app = a
      <4>1. SeenOf(c, a)' = flows[c].bytes BY <3>1, <3>2, <3>4 DEF SeenOf
      <4>2. Owes(c, a)' = 0 BY <2>6, <3>2, <3>3, <3>4, <4>1 DEF Owes, Unseen
      <4>3. Owes(c, a) = Unseen(c, a, flows[c].bytes) /\ d[c].bytes = Unseen(c, a, flows[c].bytes)
        BY <2>2, <2>6, <3>1, <3>2, <3>4 DEF Owes
      <4> QED BY <2>1, <3>2, <4>2, <4>3
    <3>5. CASE flows[c].app # a
      <4>1. d[c].bytes = 0 BY <2>2, <3>1, <3>2, <3>5
      <4>2. Owes(c, a)' = Owes(c, a) BY <2>6, <3>2, <3>5 DEF Owes
      <4> QED BY <2>1, <3>2, <4>1, <4>2
    <3> QED BY <3>4, <3>5
  <2> QED BY <2>3, <2>4, <2>5, <2>6
<1> DEFINE zero == [c \in Conns |-> [bytes |-> 0]]
           old == Owed(a)
           new == Owed(a)'
<1>5. /\ WeighsIn(d, Conns) /\ BytesOf(d, Conns) \in Nat
      /\ WeighsIn(old, Conns) /\ WeighsIn(new, Conns) /\ WeighsIn(zero, Conns)
  BY <1>1, <1>2, DuesWeigh, OwesType, OwesTypeNext, ConnsFinite DEF WeighsIn
<1>6. BytesOf(zero, Conns) = 0
  <2>1. \A c \in Conns : zero[c].bytes = IF c \in {} THEN zero[c].bytes ELSE 0 OBVIOUS
  <2> HIDE DEF zero
  <2>2. BytesOf(zero, {}) = BytesOf(zero, Conns) BY <1>5, <2>1, BytesOfPart
  <2> QED BY <2>2, BytesOfNone
<1>7. \A c \in Conns : /\ old[c].bytes = Owes(c, a) /\ new[c].bytes = Owes(c, a)' /\ zero[c].bytes = 0
                       /\ old[c].bytes \in Nat
  BY OwesType DEF Owed
<1>8. Debt(a) = BytesOf(old, Conns) /\ Debt(a)' = BytesOf(new, Conns) BY DEF Debt
<1>9. Debt(a) \in Nat /\ Debt(a)' \in Nat BY OwesType, OwesTypeNext
<1> HIDE DEF d, old, new, zero
<1>10. \A c \in Conns : new[c].bytes + d[c].bytes <= old[c].bytes + zero[c].bytes BY <1>4, <1>7
<1>11. BytesOf(new, Conns) + BytesOf(d, Conns) <= BytesOf(old, Conns) + BytesOf(zero, Conns)
  BY <1>5, <1>10, BytesOfLess
<1>12. Debt(a)' + BytesOf(d, Conns) <= Debt(a) BY <1>5, <1>6, <1>8, <1>9, <1>11
<1>13. ASSUME flows = <<>> PROVE Debt(a)' = 0
  <2>1. \A c \in Conns : new[c].bytes = IF c \in {} THEN new[c].bytes ELSE 0 BY <1>4, <1>7, <1>13
  <2>2. BytesOf(new, {}) = BytesOf(new, Conns) BY <1>5, <2>1, BytesOfPart
  <2> QED BY <1>8, <2>2, BytesOfNone
<1> QED BY <1>12, <1>13 DEF d

\* What excuses a charge: a connection that was not listed or not read.
Blurred == Excused({"crowded", "failed", "blind", "cut"})

\* What a pass adds to the rows of an application is paid from what it owes.
Paid(initial, r0, a) ==
  /\ \E d \in Nat : /\ BytesFor(rows', a) <= BytesFor(r0, a) + d
                    /\ Debt(a)' + d <= Debt(a)
                    /\ initial => d = 0
  /\ flows = <<>> => Debt(a)' = 0

LEMMA RefreshPays ==
  ASSUME TypeOK, TypeOK', CountedOK(apps, conns), NEW initial \in BOOLEAN, NEW t0, NEW r0, RowsOK(r0), NEW marks,
         Refresh(initial, t0, r0, marks), UNCHANGED <<owner, sent>>
  PROVE  /\ CountedOK(apps', conns')
         /\ ~Blurred' => \A a \in Apps : Paid(initial, r0, a)
<1>1. PICK read \in BOOLEAN :
    \/ Passes(initial, t0, r0, IF read THEN Gained ELSE 0, marks \cup (IF read THEN {} ELSE {"failed"}))
    \/ strange' = strange \cup marks \cup {"failed"} /\ UNCHANGED <<flows, conns, apps>>
  BY DEF Refresh
<1> DEFINE gained == IF read THEN Gained ELSE 0
           noted == marks \cup (IF read THEN {} ELSE {"failed"})
<1>2. CASE Passes(initial, t0, r0, gained, noted)
  <2> HIDE DEF gained, noted
  <2>1. PICK idle, tcp, udp, readable, named :
      /\ IsPass(idle, tcp, udp, readable, named)
      /\ Account(initial, Listed(idle, tcp, udp, readable), DOMAIN apps \cup named, gained, t0, r0)
      /\ flows' = KeptFlows(idle)
      /\ IsMarked(idle, tcp, udp, readable, t0, gained, noted)
    BY <1>2, PassesIs
  <2>2. /\ CountedOK(apps', conns')
        /\ \A a : \/ BytesFor(rows', a) <= BytesFor(r0, a)
                  \/ ~initial /\ BytesFor(rows', a) <= BytesFor(r0, a) + BytesOf(Dues(conns', a), Conns)
    BY <2>1, PassCounts
  <2>3. conns' = Listed(idle, tcp, udp, readable) BY <2>1, AccountIs
  <2>4. ASSUME ~Blurred', NEW a \in Apps PROVE Paid(initial, r0, a)
    <3>1. "blind" \notin strange' /\ "crowded" \notin strange' BY <2>4 DEF Blurred, Excused
    <3>2. readable = tcp /\ tcp \cup udp = Opened \cup DOMAIN KeptFlows(idle) BY <2>1, <3>1 DEF IsMarked
    <3> DEFINE d == BytesOf(Dues(conns', a), Conns)
    <3>3. Debt(a)' + d <= Debt(a) /\ (flows = <<>> => Debt(a)' = 0) BY <2>1, <2>3, <3>2, OwesAfter
    <3>4. d \in Nat
      <4>1. ConnsOK(conns') /\ ConnsOK(conns) BY DEF TypeOK, ConnsOK
      <4> QED BY <4>1, DuesWeigh
    <3>5. Debt(a) \in Nat /\ Debt(a)' \in Nat BY OwesType, OwesTypeNext
    <3>6. BytesFor(r0, a) \in Nat BY ForType DEF RowsOK
    <3> HIDE DEF d
    <3>7. CASE BytesFor(rows', a) <= BytesFor(r0, a)
      <4>1. BytesFor(rows', a) <= BytesFor(r0, a) + 0 /\ Debt(a)' + 0 <= Debt(a) BY <3>3, <3>4, <3>5, <3>6, <3>7
      <4> QED BY <3>3, <4>1 DEF Paid
    <3>8. CASE ~initial /\ BytesFor(rows', a) <= BytesFor(r0, a) + d BY <3>3, <3>4, <3>8 DEF Paid
    <3> QED BY <2>2, <3>7, <3>8 DEF d
  <2> QED BY <2>2, <2>4
<1>3. CASE strange' = strange \cup marks \cup {"failed"} /\ UNCHANGED <<flows, conns, apps>>
  <2>1. Blurred' BY <1>3 DEF Blurred, Excused
  <2> QED BY <1>3, <2>1
<1> QED BY <1>1, <1>2, <1>3

\* The applications are counted as above, and there is none while the program does
\* not run.
AppsCounted ==
  /\ due \in [Apps -> Nat]
  /\ on \/ (flows = <<>> /\ conns = <<>> /\ apps = <<>>)
  /\ CountedOK(apps, conns)

\* The rows of an application, and what the next pass adds to them, are no more
\* than it is due for; so are the saved ones, which a crash would leave.
AppsOwed ==
  ~Blurred => \A a \in Apps : /\ BytesFor(disk.rows, a) <= due[a]
                              /\ on => BytesFor(rows, a) + Debt(a) <= due[a]

\* What a socket owes grows only with the bytes that its process is due for, or
\* inherits.
LEMMA OwesOutside ==
  ASSUME TypeOK, due \in [Apps -> Nat], NEW c \in Conns, NEW b \in Apps,
         Open(c, b) \/ HandOver(c, b) \/ Close(c) \/ Traffic(c), NEW a \in Apps
  PROVE  /\ due' \in [Apps -> Nat] /\ due[a] <= due'[a]
         /\ \A d \in Conns : Owes(d, a)' <= Owes(d, a) + IF d = c THEN due'[a] - due[a] ELSE 0
<1>0. /\ ConnsOK(conns) /\ owner \in [Conns -> Apps \cup {None}] /\ sent \in [Tcp -> Nat]
      /\ \A d \in DOMAIN flows : flows[d].bytes \in Nat /\ flows[d].app \in Apps
  BY RangeIs DEF TypeOK, ConnsOK
<1>1. /\ None \notin Apps /\ Packet \in Nat /\ Tcp \cap Udp = {}
      /\ ConnsOK(conns) /\ owner \in [Conns -> Apps \cup {None}] /\ sent \in [Tcp -> Nat]
      /\ \A d \in DOMAIN flows : flows[d].bytes \in Nat /\ flows[d].app \in Apps
  BY <1>0, UsageAssumption
<1>2. \A d \in Conns : /\ Owes(d, a) \in Nat /\ SeenOf(d, a) \in Nat
                       /\ conns' = conns => SeenOf(d, a)' = SeenOf(d, a)
  BY <1>1, OwesType, SeenType DEF SeenOf
<1>3. conns' = conns BY DEF Open, HandOver, Close, Traffic, program
<1>4. CASE Open(c, b)
  <2>1. /\ owner[c] = None /\ ~Left(c, b) /\ owner' = [owner EXCEPT ![c] = b]
        /\ sent' = (IF c \in Tcp THEN [sent EXCEPT ![c] = 0] ELSE sent) /\ flows' = flows /\ due' = due
    BY <1>4 DEF Open, program
  <2>2. ASSUME NEW d \in Conns, d # c PROVE Owes(d, a)' = Owes(d, a)
    BY <1>1, <1>2, <1>3, <2>1, <2>2 DEF Owes, Unseen
  <2>3. Owes(c, a)' <= Owes(c, a)
    <3>1. CASE c \in Tcp
      <4>1. Owes(c, a)' = 0 BY <1>1, <1>2, <1>3, <2>1, <3>1 DEF Owes, Unseen
      <4> QED BY <1>2, <4>1
    <3>2. CASE c \notin Tcp
      <4>1. c \in DOMAIN flows => flows[c].app = b BY <2>1 DEF Left
      <4> QED BY <1>1, <1>2, <1>3, <2>1, <3>2, <4>1 DEF Owes, Unseen
    <3> QED BY <3>1, <3>2
  <2> QED BY <1>2, <2>1, <2>2, <2>3
<1>5. CASE Close(c)
  <2>1. owner' = [owner EXCEPT ![c] = None] /\ UNCHANGED <<sent, flows, due>> BY <1>5 DEF Close, program
  <2>2. ASSUME NEW d \in Conns, d # c PROVE Owes(d, a)' = Owes(d, a)
    BY <1>1, <1>2, <1>3, <2>1, <2>2 DEF Owes, Unseen
  <2>3. Owes(c, a)' <= Owes(c, a) BY <1>1, <1>2, <1>3, <2>1 DEF Owes, Unseen
  <2> QED BY <1>2, <2>1, <2>2, <2>3
<1>6. CASE HandOver(c, b)
  <2> DEFINE v == Inherited(c)
  <2>1. /\ owner' = [owner EXCEPT ![c] = b] /\ due' = [due EXCEPT ![b] = @ + v]
        /\ UNCHANGED <<sent, flows>>
    BY <1>6 DEF HandOver, program
  <2>2. v \in Nat BY <1>1 DEF Inherited, Conns
  <2>3. ASSUME NEW d \in Conns, d # c PROVE Owes(d, a)' = Owes(d, a)
    BY <1>1, <1>2, <1>3, <2>1, <2>3 DEF Owes, Unseen
  <2>4. Owes(c, a)' <= Owes(c, a) + IF a = b THEN v ELSE 0
    <3>1. owner'[c] = b BY <1>1, <2>1
    <3>2. CASE c \in Tcp BY <1>1, <1>2, <1>3, <2>1, <3>1, <3>2 DEF Owes, Unseen, Inherited
    <3>3. CASE c \notin Tcp BY <1>1, <1>2, <1>3, <2>1, <3>1, <3>3 DEF Owes, Unseen, Inherited
    <3> QED BY <3>2, <3>3
  <2> HIDE DEF v
  <2>5. due' \in [Apps -> Nat] /\ due'[a] = due[a] + IF a = b THEN v ELSE 0 BY <2>1, <2>2
  <2>6. due[a] \in Nat OBVIOUS
  <2> QED BY <1>2, <2>2, <2>3, <2>4, <2>5, <2>6
<1>7. CASE Traffic(c)
  <2> DEFINE o == owner[c]
  <2>1. /\ o \in Apps /\ owner' = owner
        /\ sent' = (IF c \in Tcp THEN [sent EXCEPT ![c] = @ + Packet] ELSE sent)
        /\ flows' = (IF on /\ c \in Udp THEN Seen(c) ELSE flows)
        /\ due' = [due EXCEPT ![o] = @ + Packet]
    BY <1>1, <1>7 DEF Traffic
  <2>2. \A d \in Conns : d # c => (d \in DOMAIN flows' <=> d \in DOMAIN flows)
                                  /\ (d \in DOMAIN flows => flows'[d] = flows[d])
    BY <2>1 DEF Seen, Add
  <2>3. ASSUME NEW d \in Conns, d # c PROVE Owes(d, a)' = Owes(d, a)
    BY <1>1, <1>2, <1>3, <2>1, <2>2, <2>3 DEF Owes, Unseen
  <2>4. Owes(c, a)' <= Owes(c, a) + IF a = o THEN Packet ELSE 0
    <3>1. CASE c \in Tcp
      <4>1. sent'[c] = sent[c] + Packet /\ sent[c] \in Nat /\ owner'[c] = o BY <1>1, <2>1, <3>1
      <4> HIDE DEF o
      <4> QED BY <1>1, <1>2, <1>3, <3>1, <4>1 DEF Owes, Unseen, o
    <3>2. CASE c \notin Tcp /\ flows' = flows BY <1>1, <1>2, <1>3, <2>1, <3>2 DEF Owes, Unseen
    <3>3. CASE c \notin Tcp /\ flows' # flows
      <4>1. \/ c \in DOMAIN flows /\ flows' = Add(flows, c, [app |-> o, bytes |-> flows[c].bytes + Packet, fresh |-> TRUE])
            \/ c \notin DOMAIN flows /\ flows' = Add(flows, c, [app |-> o, bytes |-> Packet, fresh |-> TRUE])
        BY <2>1, <3>3 DEF Seen
      <4>2. /\ c \in DOMAIN flows' /\ flows'[c].app = o
            /\ flows'[c].bytes = (IF c \in DOMAIN flows THEN flows[c].bytes ELSE 0) + Packet
        <5> HIDE DEF o
        <5> QED BY <1>1, <4>1 DEF Add
      <4> QED BY <1>1, <1>2, <1>3, <2>1, <3>3, <4>2 DEF Owes, Unseen
    <3> QED BY <3>1, <3>2, <3>3
  <2> HIDE DEF o
  <2>5. due' \in [Apps -> Nat] /\ due'[a] = due[a] + IF a = o THEN Packet ELSE 0 BY <1>1, <2>1
  <2>6. due[a] \in Nat OBVIOUS
  <2> QED BY <1>1, <1>2, <2>3, <2>4, <2>5, <2>6
<1> QED BY <1>4, <1>5, <1>6, <1>7

LEMMA DebtOutside ==
  ASSUME TypeOK, TypeOK', due \in [Apps -> Nat], NEW c, NEW b, Outside(c, b), NEW a \in Apps
  PROVE  due[a] <= due'[a] /\ Debt(a)' + due[a] <= Debt(a) + due'[a]
<1> DEFINE v == due'[a] - due[a]
           new == Owed(a)'
           old == Owed(a)
<1>1. WeighsIn(new, Conns) /\ WeighsIn(old, Conns) /\ Debt(a) \in Nat /\ Debt(a)' \in Nat BY OwesType, OwesTypeNext
<1>2. CASE CounterReset \/ NextDay \/ ClockBack
  <2>1. UNCHANGED <<owner, sent, flows, conns, due>> BY <1>2 DEF CounterReset, NextDay, ClockBack, program
  <2>2. Debt(a)' = Debt(a) BY <2>1 DEF Debt, Owed, Owes, Unseen, SeenOf
  <2>3. due[a] \in Nat OBVIOUS
  <2> QED BY <1>1, <2>1, <2>2, <2>3
<1>3. CASE c \in Conns /\ \E e \in Apps : Open(c, e) \/ HandOver(c, e) \/ Close(c) \/ Traffic(c)
  <2>1. PICK e \in Apps : Open(c, e) \/ HandOver(c, e) \/ Close(c) \/ Traffic(c) BY <1>3
  <2>2. /\ due' \in [Apps -> Nat] /\ due[a] <= due'[a]
        /\ \A d \in Conns : Owes(d, a)' <= Owes(d, a) + IF d = c THEN v ELSE 0
    BY <1>3, <2>1, OwesOutside
  <2>3. \A d \in Conns : new[d].bytes = Owes(d, a)' /\ old[d].bytes = Owes(d, a) BY DEF Owed
  <2>4. Debt(a)' = BytesOf(new, Conns) /\ Debt(a) = BytesOf(old, Conns) BY DEF Debt
  <2>5. due[a] \in Nat /\ due'[a] \in Nat /\ v = due'[a] - due[a] /\ v \in Nat BY <2>2
  <2> HIDE DEF v, new, old
  <2>6. \A d \in Conns : new[d].bytes <= old[d].bytes + IF d = c THEN v ELSE 0 BY <2>2, <2>3
  <2>7. BytesOf(new, Conns) <= BytesOf(old, Conns) + v BY <1>1, <1>3, <2>5, <2>6, BytesOfRaise
  <2>8. Debt(a)' + due[a] <= Debt(a) + due'[a] BY <1>1, <2>4, <2>5, <2>7
  <2> QED BY <2>2, <2>8
<1> QED BY <1>2, <1>3 DEF Outside

LEMMA DueType ==
  ASSUME TypeOK, due \in [Apps -> Nat], NEW c, NEW b, Outside(c, b)
  PROVE  due' \in [Apps -> Nat]
<1>1. /\ Packet \in Nat /\ owner \in [Conns -> Apps \cup {None}] /\ sent \in [Tcp -> Nat]
      /\ \A d \in DOMAIN flows : flows[d].bytes \in Nat
  BY RangeIs, UsageAssumption DEF TypeOK
<1>2. CASE c \in Conns /\ b \in Apps /\ HandOver(c, b)
  <2>1. Inherited(c) \in Nat BY <1>1, <1>2 DEF Inherited, Conns
  <2> QED BY <1>2, <2>1 DEF HandOver
<1>3. CASE c \in Conns /\ Traffic(c) BY <1>1, <1>3 DEF Traffic
<1>4. CASE due' = due BY <1>4
<1> QED BY <1>2, <1>3, <1>4 DEF Outside, Open, Close, CounterReset, NextDay, ClockBack

LEMMA CountedNone == CountedOK(<<>>, <<>>)
<1>1. DOMAIN <<>> = {} OBVIOUS
<1> QED BY <1>1 DEF CountedOK

LEMMA AppsInit == Init => AppsCounted /\ AppsOwed
<1> SUFFICES ASSUME Init PROVE AppsCounted /\ AppsOwed OBVIOUS
<1>1. /\ on = FALSE /\ flows = <<>> /\ conns = <<>> /\ apps = <<>> /\ disk.rows = <<>>
      /\ due \in [Apps -> Nat] /\ \A a \in Apps : due[a] = 0
  BY DEF Init
<1>2. \A a : BytesFor(disk.rows, a) = 0 BY <1>1, ForNone
<1> QED BY <1>1, <1>2, CountedNone DEF AppsCounted, AppsOwed

LEMMA AppsOutside ==
  ASSUME TypeOK, TypeOK', AppsCounted, AppsOwed, NEW c, NEW b, Outside(c, b)
  PROVE  AppsCounted' /\ AppsOwed'
<1>1. /\ UNCHANGED <<on, conns, apps, rows, disk>> /\ strange \subseteq strange'
      /\ on \/ flows' = flows
  BY DEF Outside, Open, HandOver, Close, Traffic, CounterReset, NextDay, ClockBack, program
<1>2. AppsCounted' BY <1>1, DueType DEF AppsCounted
<1>3. ASSUME ~Blurred', NEW a \in Apps
      PROVE  BytesFor(disk'.rows, a) <= due'[a] /\ (on' => BytesFor(rows', a) + Debt(a)' <= due'[a])
  <2>1. ~Blurred BY <1>1, <1>3 DEF Blurred, Excused
  <2>2. BytesFor(disk.rows, a) <= due[a] /\ (on => BytesFor(rows, a) + Debt(a) <= due[a])
    BY <2>1 DEF AppsOwed
  <2>3. due[a] <= due'[a] /\ Debt(a)' + due[a] <= Debt(a) + due'[a] BY DebtOutside DEF AppsCounted
  <2>4. due[a] \in Nat /\ due'[a] \in Nat BY <1>2 DEF AppsCounted
  <2>5. Debt(a) \in Nat /\ Debt(a)' \in Nat BY OwesType, OwesTypeNext
  <2>6. BytesFor(disk.rows, a) \in Nat /\ BytesFor(rows, a) \in Nat BY ForType DEF TypeOK
  <2> QED BY <1>1, <2>2, <2>3, <2>4, <2>5, <2>6
<1> QED BY <1>2, <1>3 DEF AppsOwed

\* The first pass charges nobody, and settles what the tables show.
LEMMA AppsStart ==
  ASSUME TypeOK, TypeOK', AppsCounted, AppsOwed, Start
  PROVE  AppsCounted' /\ AppsOwed'
<1> DEFINE r0 == LoadRows(disk.rows)
<1>1. /\ ~on /\ on' /\ UNCHANGED <<owner, sent, due, disk>> /\ flows = <<>>
  BY DEF Start, world, AppsCounted
<1>2. RowsOK(r0) BY StartTypes
<1>3. PICK marks : Refresh(TRUE, LoadTotals(disk.totals), r0, marks) BY DEF Start
<1> HIDE DEF r0
<1>4. CountedOK(apps', conns') /\ (~Blurred' => \A a \in Apps : Paid(TRUE, r0, a))
  BY <1>1, <1>2, <1>3, RefreshPays DEF AppsCounted
<1>5. AppsCounted' BY <1>1, <1>4 DEF AppsCounted
<1>6. strange \subseteq strange'
  <2>1. TypeOK /\ [Next]_vars BY DEF Next
  <2> QED BY <2>1, StrangeGrows
<1>7. ASSUME ~Blurred', NEW a \in Apps
      PROVE  BytesFor(disk'.rows, a) <= due'[a] /\ BytesFor(rows', a) + Debt(a)' <= due'[a]
  <2>1. ~Blurred BY <1>6, <1>7 DEF Blurred, Excused
  <2>2. BytesFor(disk.rows, a) <= due[a] BY <2>1 DEF AppsOwed
  <2>3. BytesFor(rows', a) <= BytesFor(r0, a) + 0 /\ Debt(a)' = 0 BY <1>1, <1>4, <1>7 DEF Paid
  <2>4. disk.rows \in Seq(AppRow) /\ rows' \in Seq(AppRow) BY DEF TypeOK
  <2>5. BytesFor(r0, a) <= BytesFor(disk.rows, a) BY <2>4, LoadRowsLess DEF r0
  <2>6. due[a] \in Nat BY DEF AppsCounted
  <2>7. BytesFor(disk.rows, a) \in Nat /\ BytesFor(rows', a) \in Nat /\ BytesFor(r0, a) \in Nat
    BY <1>2, <2>4, ForType DEF RowsOK
  <2> QED BY <1>1, <2>2, <2>3, <2>5, <2>6, <2>7
<1> QED BY <1>5, <1>7 DEF AppsOwed

LEMMA AppsTick ==
  ASSUME TypeOK, TypeOK', AppsCounted, AppsOwed, Tick
  PROVE  AppsCounted' /\ AppsOwed'
<1>1. on /\ on' /\ UNCHANGED <<owner, sent, due>> BY TickTurns
<1>2. RowsOK(rows) BY DEF TypeOK, RowsOK
<1>3. PICK lost : Refresh(FALSE, totals, rows, lost) /\ Writes(lost) /\ lost \subseteq strange'
  BY TickTurns DEF Turn
<1>4. CountedOK(apps', conns') /\ (~Blurred' => \A a \in Apps : Paid(FALSE, rows, a))
  BY <1>1, <1>2, <1>3, RefreshPays DEF AppsCounted
<1>5. AppsCounted' BY <1>1, <1>4 DEF AppsCounted
<1>6. strange \subseteq strange'
  <2>1. TypeOK /\ [Next]_vars BY DEF Next
  <2> QED BY <2>1, StrangeGrows
<1>7. ASSUME ~Blurred', NEW a \in Apps
      PROVE  BytesFor(disk'.rows, a) <= due'[a] /\ BytesFor(rows', a) + Debt(a)' <= due'[a]
  <2>1. ~Blurred BY <1>6, <1>7 DEF Blurred, Excused
  <2>2. BytesFor(disk.rows, a) <= due[a] /\ BytesFor(rows, a) + Debt(a) <= due[a] BY <1>1, <2>1 DEF AppsOwed
  <2>3. PICK d \in Nat : BytesFor(rows', a) <= BytesFor(rows, a) + d /\ Debt(a)' + d <= Debt(a)
    BY <1>4, <1>7 DEF Paid
  <2>4. rows' \in Seq(AppRow) BY DEF TypeOK
  <2>5. due[a] \in Nat BY DEF AppsCounted
  <2>6. BytesFor(rows, a) \in Nat /\ BytesFor(rows', a) \in Nat BY <1>2, <2>4, ForType DEF RowsOK
  <2>7. Debt(a) \in Nat /\ Debt(a)' \in Nat BY OwesType, OwesTypeNext
  <2>8. BytesFor(rows', a) + Debt(a)' <= due[a] BY <2>2, <2>3, <2>5, <2>6, <2>7
  <2>9. BytesFor(rows', a) <= due[a] BY <2>5, <2>6, <2>7, <2>8
  <2>10. BytesFor(disk'.rows, a) <= due[a]
    <3>1. BytesFor(Written(rows'), a) = BytesFor(rows', a) BY <2>4, ForWritten
    <3>2. "cut" \notin lost BY <1>3, <1>7 DEF Blurred, Excused
    <3>3. disk'.rows = Written(rows') \/ disk'.rows = disk.rows BY <1>3, <3>2 DEF Writes, Holds
    <3> QED BY <2>2, <2>9, <3>1, <3>3
  <2> QED BY <1>1, <2>8, <2>10
<1> QED BY <1>5, <1>7 DEF AppsOwed

LEMMA AppsEnd ==
  ASSUME TypeOK, AppsCounted, AppsOwed, Stop \/ Crash
  PROVE  AppsCounted' /\ AppsOwed'
<1>1. /\ on /\ on' = FALSE /\ flows' = <<>> /\ conns' = <<>> /\ apps' = <<>> /\ due' = due
      /\ strange \subseteq strange'
  BY DEF Stop, Crash, ClearProgram
<1>2. AppsCounted' BY <1>1, CountedNone DEF AppsCounted
<1>3. ASSUME ~Blurred', NEW a \in Apps PROVE BytesFor(disk'.rows, a) <= due'[a]
  <2>1. ~Blurred BY <1>1, <1>3 DEF Blurred, Excused
  <2>2. BytesFor(disk.rows, a) <= due[a] /\ BytesFor(rows, a) + Debt(a) <= due[a] BY <1>1, <2>1 DEF AppsOwed
  <2>3. rows \in Seq(AppRow) BY DEF TypeOK
  <2>4. BytesFor(Written(rows), a) = BytesFor(rows, a) /\ BytesFor(rows, a) \in Nat BY <2>3, ForWritten, ForType
  <2>5. Debt(a) \in Nat /\ due[a] \in Nat BY OwesType DEF AppsCounted
  <2>6. BytesFor(rows, a) <= due[a] BY <2>2, <2>4, <2>5
  <2>7. disk'.rows = Written(rows) \/ disk'.rows = disk.rows
    <3>1. CASE Stop
      <4>1. "cut" \notin strange' BY <1>3 DEF Blurred, Excused
      <4> QED BY <3>1, <4>1, StopSaves DEF Holds
    <3>2. CASE Crash BY <3>2 DEF Crash
    <3> QED BY <3>1, <3>2
  <2> QED BY <1>1, <2>2, <2>4, <2>6, <2>7
<1> QED BY <1>1, <1>2, <1>3 DEF AppsOwed

LEMMA AppsNext == TypeOK /\ AppsCounted /\ AppsOwed /\ [Next]_vars => AppsCounted' /\ AppsOwed'
<1> SUFFICES ASSUME TypeOK, AppsCounted, AppsOwed, [Next]_vars PROVE AppsCounted' /\ AppsOwed' OBVIOUS
<1>1. TypeOK' BY TypesNext
<1>2. CASE \E c, b : Outside(c, b) BY <1>1, <1>2, AppsOutside
<1>3. CASE Start BY <1>1, <1>3, AppsStart
<1>4. CASE Tick BY <1>1, <1>4, AppsTick
<1>5. CASE Stop \/ Crash BY <1>5, AppsEnd
<1>6. CASE UNCHANGED vars
  <2>1. \A a : Debt(a)' = Debt(a)
    BY <1>6 DEF Debt, Owed, Owes, Unseen, SeenOf, vars, world, program
  <2>2. Blurred' = Blurred BY <1>6 DEF Blurred, Excused, vars
  <2> QED BY <1>6, <2>1, <2>2 DEF AppsCounted, AppsOwed, vars, world, program
<1> QED BY <1>2, <1>3, <1>4, <1>5, <1>6, NextIs

\* The rows that are kept of an application have no more than it is due for.
LEMMA AppsOnceIs == TypeOK /\ AppsCounted /\ AppsOwed => AppsOnce
<1> SUFFICES ASSUME TypeOK, AppsCounted, AppsOwed, ~Blurred, NEW a \in Apps
             PROVE  BytesAt(KeptApps, {i \in DOMAIN KeptApps : KeptApps[i].app = a}) <= due[a]
  BY DEF AppsOnce, Blurred
<1>1. KeptApps \in Seq(AppRow) /\ rows \in Seq(AppRow) BY DEF KeptApps, TypeOK
<1>2. BytesFor(KeptApps, a) <= due[a]
  <2>1. BytesFor(disk.rows, a) <= due[a] /\ (on => BytesFor(rows, a) + Debt(a) <= due[a]) BY DEF AppsOwed
  <2>2. BytesFor(rows, a) \in Nat /\ Debt(a) \in Nat /\ due[a] \in Nat BY <1>1, ForType, OwesType DEF AppsCounted
  <2>3. on => BytesFor(rows, a) <= due[a] BY <2>1, <2>2
  <2> QED BY <2>1, <2>3 DEF KeptApps
<1> QED BY <1>1, <1>2, ForIs

-----------------------------------------------------------------------------
(***************************************************************************)
(* The theorems.                                                           *)
(***************************************************************************)
IInv == TypeOK /\ OctetsOnce /\ DaysOrdered /\ OctetsAll /\ LimitsKnown /\ AppsCounted /\ AppsOwed

LEMMA IInvInit == Init => IInv
  BY TypesInit, OnceInit, OrderedInit, AllInit, KnownInit, AppsInit DEF IInv

LEMMA IInvNext == IInv /\ [Next]_vars => IInv'
  BY TypesNext, OnceNext, OrderedNext, AllNext, KnownNext, AppsNext DEF IInv

\* The inductive invariant: the types; what the rows and the file hold was
\* carried up to the last reading; unless the clock went back both are in the
\* order of their days; unless something went wrong, a save that failed or met a
\* full disk among it, the rows hold all of it; the alerts are known, and in order
\* unless the clock went back or the state file lost the level; and the rows of an
\* application, with what the next pass adds to them, are no more than its due.
THEOREM Inductive == Spec => []IInv
<1>1. Init => IInv BY IInvInit
<1>2. IInv /\ [Next]_vars => IInv' BY IInvNext
<1> QED BY <1>1, <1>2, PTL DEF Spec

\* Inv: the tables hold no more than they have room for, no octet of an interface
\* is counted twice, over failed readings, failed saves, restarts and crashes, and
\* no level of a period's limit is told twice unless the state file lost it.
THEOREM InvCorrect == Spec => []Inv
<1>1. IInv => Inv
  <2> SUFFICES ASSUME IInv PROVE Inv OBVIOUS
  <2>1. TypeOK /\ OctetsOnce /\ LimitsKnown BY DEF IInv
  <2>2. TotalsOnce
    <3> DEFINE p == Pending
               b == Bytes(Kept)
    <3>1. p \in Nat /\ carried \in Int BY <2>1, GainedIs DEF OctetsOnce
    <3>2. b <= carried - p BY <2>1 DEF OctetsOnce, Kept
    <3>3. b \in Nat
      <4>1. TotalsOK(Kept) BY <2>1 DEF OctetsOnce, TypeOK, TotalsOK, Kept
      <4> QED BY <4>1, BytesType, DaysAre DEF TotalsOK
    <3> HIDE DEF p, b
    <3>4. b <= carried BY <3>1, <3>2, <3>3
    <3> QED BY <3>4 DEF TotalsOnce, b
  <2>3. LimitOnce
    <3> SUFFICES ASSUME ~Excused({"clock", "forgot"}), NEW i \in DOMAIN told, NEW j \in DOMAIN told,
                        i < j, told[i].period = told[j].period
                 PROVE  told[i].level < told[j].level
      BY DEF LimitOnce
    <3>1. Dated BY DEF Excused, Dated
    <3>2. told \in Seq(Limits) /\ Sorted(told) BY <2>1, <3>1 DEF LimitsKnown
    <3>3. DOMAIN told = 1 .. Len(told) BY <3>2, LenProperties
    <3>4. Before(told[i], told[j]) BY <3>2, <3>3 DEF Sorted
    <3>5. told[i] \in Limits BY <3>2, <3>3, ElementOfSeq
    <3> QED BY <3>4, <3>5 DEF Before, Limits
  <2> QED BY <2>1, <2>2, <2>3 DEF Inv
<1> QED BY <1>1, Inductive, PTL

\* TotalsComplete: unless something it names went wrong, and a save that fails or
\* meets a full disk is among it, the rows of the days hold every octet between the first and the last reading of each run.
THEOREM TotalsCompleteCorrect == Spec => []TotalsComplete
<1>1. IInv => TotalsComplete BY DEF IInv, OctetsAll, TotalsComplete, Clean, Mishaps
<1> QED BY <1>1, Inductive, PTL

\* AppsOnce: an application is charged no more than its sockets carried, with what
\* they had carried when it got them, over closed and reopened connections,
\* evicted flows, restarts and crashes, unless a connection was hidden or not read.
THEOREM AppsOnceCorrect == Spec => []AppsOnce
<1>1. IInv => AppsOnce BY AppsOnceIs DEF IInv
<1> QED BY <1>1, Inductive, PTL

\* LimitTold: after a turn that checks the limit the program's limit is the
\* level of the rows of today's period, and has been told.
THEOREM LimitToldCorrect == Spec => LimitTold
<1> DEFINE Told == (on /\ on' /\ n' # n /\ n' % CheckEvery = 0) =>
                     /\ limit'.period = PeriodStart
                     /\ limit'.level >= Level(PeriodBytes(totals', PeriodStart))
                     /\ (limit'.level > 0 => \E i \in DOMAIN told' : told'[i] = limit')
<1>1. IInv /\ [Next]_vars => [Told]_vars
  <2> SUFFICES ASSUME IInv, Next, on, on', n' # n, n' % CheckEvery = 0
               PROVE  /\ limit'.period = PeriodStart
                      /\ limit'.level >= Level(PeriodBytes(totals', PeriodStart))
                      /\ (limit'.level > 0 => \E i \in DOMAIN told' : told'[i] = limit')
    OBVIOUS
  <2>1. Tick
    <3>1. ASSUME NEW c, NEW a, Outside(c, a) PROVE n' = n
      BY <3>1 DEF Outside, Open, HandOver, Close, Traffic, CounterReset, NextDay, ClockBack, program
    <3>2. ~Start /\ ~Stop /\ ~Crash BY DEF Start, Stop, Crash, ClearProgram
    <3> QED BY <3>1, <3>2, NextIs
  <2>2. TypeOK /\ LimitsKnown BY DEF IInv
  <2>3. PICK l, now : Checked(l, now) BY <2>1, <2>2, TickIs
  <2>4. limit'.period = PeriodStart /\ limit'.level >= Level(PeriodBytes(totals', PeriodStart))
    BY <2>3 DEF Checked
  <2>5. LimitsKnown' BY <2>2, KnownNext
  <2>6. InTold(limit', told') /\ told' \in Seq(Limits) BY <2>5 DEF LimitsKnown
  <2>7. DOMAIN told' = 1 .. Len(told') BY <2>6, LenProperties
  <2> QED BY <2>4, <2>6, <2>7 DEF InTold
<1>2. Spec => [][Told]_vars BY <1>1, Inductive, PTL DEF Spec
<1> QED BY <1>2 DEF LimitTold

\* RecentKept: a start reads back the rows of the last KeepDays days and of today,
\* and of no day before, over the ends of months and years and leap days, unless
\* the clock was set back.
THEOREM RecentKeptCorrect == Spec => RecentKept
<1> DEFINE Spared(x) == x.day \in {Calendar[j] : j \in Max({1, day - KeepDays}) .. day}
           Found(x) == \E k \in DOMAIN totals' : totals'[k].day = x.day /\ totals'[k].bytes >= x.bytes
           Keeps == (~on /\ on' /\ ~Excused({"clock"})) =>
                      \A i \in DOMAIN disk.totals : Spared(disk.totals[i]) <=> Found(disk.totals[i])
<1>1. IInv /\ [Next]_vars => [Keeps]_vars
  <2> SUFFICES ASSUME IInv, Next, ~on, on', ~Excused({"clock"}), NEW i \in DOMAIN disk.totals
               PROVE  Spared(disk.totals[i]) <=> Found(disk.totals[i])
    BY Zenon
  <2>1. Start
    <3>1. ASSUME NEW c, NEW a, Outside(c, a) PROVE on' = on
      BY <3>1 DEF Outside, Open, HandOver, Close, Traffic, CounterReset, NextDay, ClockBack, program
    <3>2. ~Tick /\ ~Stop /\ ~Crash BY DEF Tick, Stop, Crash
    <3> QED BY <3>1, <3>2, NextIs
  <2>2. TypeOK /\ TotalsOK(disk.totals) /\ Until(disk.totals) /\ base = None /\ day \in DOMAIN Calendar
    BY DEF IInv, TypeOK, OctetsOnce, DaysOrdered
  <2> DEFINE s == disk.totals
             t == LoadTotals(disk.totals)
  <2>3. totals' = t
    <3>1. TotalsOK(t) /\ RowsOK(LoadRows(disk.rows)) BY <2>1, <2>2, StartTypes
    <3>2. PICK marks : Refresh(TRUE, t, LoadRows(disk.rows), marks) BY <2>1 DEF Start
    <3>3. Gained = 0 BY <2>2 DEF Gained
    <3>4. Ledger(t, 0) = t BY DEF Ledger
    <3> HIDE DEF t
    <3>5. PICK read \in BOOLEAN : Turned(t, marks, read) BY <2>2, <3>1, <3>2, RefreshIs
    <3> QED BY <3>3, <3>4, <3>5 DEF Turned
  <2>4. Recent(t, s) BY <2>2, LoadTotalsRecent DEF Until
  <2>5. TotalsOK(t) BY <2>1, <2>2, StartTypes
  <2> HIDE DEF s, t
  <2>6. /\ DOMAIN s = 1 .. Len(s) /\ DOMAIN t = 1 .. Len(t)
        /\ \A j \in 1 .. Len(s) : s[j] \in Rows /\ s[j].day \in Nat /\ s[j].bytes \in Nat
    <3>1. s \in Seq(Rows) /\ t \in Seq(Rows) BY <2>2, <2>5 DEF TotalsOK, s
    <3>2. \A j \in 1 .. Len(s) : s[j] \in Rows BY <3>1, ElementOfSeq
    <3> QED BY <3>1, <3>2, LenProperties, DaysAre DEF Rows, Days
  <2>7. i \in 1 .. Len(s) BY <2>6 DEF s
  <2>8. Spared(s[i]) <=> ~(s[i].day < Cutoff)
    <3>1. s[i].day \in ToSet(Calendar) /\ s[i].day <= Today BY <2>2, <2>6, <2>7 DEF Rows, Until, s
    <3> QED BY <2>2, <3>1, RecentIs
  <2>9. ~(s[i].day < Cutoff) <=> \E k \in 1 .. Len(t) : t[k].day = s[i].day /\ t[k].bytes >= s[i].bytes
    <3>1. ASSUME ~(s[i].day < Cutoff) PROVE \E k \in 1 .. Len(t) : t[k].day = s[i].day /\ t[k].bytes >= s[i].bytes
      <4>1. PICK k \in 1 .. Len(t) : t[k] = s[i] BY <2>4, <2>7, <3>1 DEF Recent
      <4>2. s[i].bytes >= s[i].bytes BY <2>6, <2>7
      <4> QED BY <4>1, <4>2
    <3>2. ASSUME NEW k \in 1 .. Len(t), t[k].day = s[i].day PROVE ~(s[i].day < Cutoff)
      <4>1. PICK j \in 1 .. Len(s) : t[k] = s[j] /\ ~(s[j].day < Cutoff) BY <2>4 DEF Recent
      <4> QED BY <3>2, <4>1
    <3> QED BY <3>1, <3>2
  <2> QED BY <2>3, <2>6, <2>8, <2>9 DEF s
<1>2. Spec => [][Keeps]_vars BY <1>1, Inductive, PTL DEF Spec
<1> QED BY <1>2 DEF RecentKept

=============================================================================
