-------------------------- MODULE StateFile_proofs --------------------------
(***************************************************************************)
(* Theorems about StateFile.                                               *)
(***************************************************************************)
EXTENDS StateFile, FiniteSetTheorems, SequenceTheorems, WellFoundedInduction, TLAPS

-----------------------------------------------------------------------------
(***************************************************************************)
(* Functions by recursion.                                                 *)
(***************************************************************************)

\* A set of numbers has a least one.
LEMMA NatLeast ==
  ASSUME NEW T \in SUBSET Nat, T # {}
  PROVE  \E n \in T : \A m \in T : n <= m
<1>1. PICK n \in T : \A m \in T : ~(<<m, n>> \in OpToRel(<, Nat))
  BY NatLessThanWellFounded, WFMin
<1>2. \A m \in T : ~(m < n) BY <1>1 DEF OpToRel
<1> QED BY <1>2

\* What holds of 0 and goes on from each number to the next holds up to n.
LEMMA Upward ==
  ASSUME NEW n \in Nat, NEW G, 0 \in G, \A i \in 1 .. n : i - 1 \in G => i \in G
  PROVE  \A i \in 0 .. n : i \in G
<1> DEFINE T == (0 .. n) \ G
<1>1. SUFFICES ASSUME T # {} PROVE FALSE OBVIOUS
<1>2. PICK k \in T : \A m \in T : k <= m
  <2>1. T \in SUBSET Nat OBVIOUS
  <2> HIDE DEF T
  <2> QED BY <1>1, <2>1, NatLeast
<1>3. k \in 1 .. n /\ k - 1 \in 0 .. n /\ ~(k <= k - 1) BY <1>2
<1>4. k - 1 \in G BY <1>2, <1>3
<1> QED BY <1>2, <1>3, <1>4

\* f begins with a and goes on by the steps.
Repeats(f, S, a, n, step) ==
  f \in [0 .. n -> S] /\ f[0] = a /\ \A i \in 1 .. n : f[i] = step[i][f[i - 1]]

StaysIn(S, n, step) == \A i \in 1 .. n : \A x \in S : step[i][x] \in S

\* A step that stays in a set can be repeated.
LEMMA Recursion ==
  ASSUME NEW S, NEW a \in S, NEW n \in Nat, NEW step, StaysIn(S, n, step)
  PROVE  \E f : Repeats(f, S, a, n, step)
<1> DEFINE G == {m \in 0 .. n : \E f : Repeats(f, S, a, m, step)}
<1>1. 0 \in G
  <2> DEFINE f == [i \in 0 .. 0 |-> a]
  <2>1. Repeats(f, S, a, 0, step) BY DEF Repeats
  <2> QED BY <2>1
<1>2. ASSUME NEW m \in 1 .. n, m - 1 \in G PROVE m \in G
  <2>1. PICK f : Repeats(f, S, a, m - 1, step) BY <1>2
  <2> DEFINE g == [i \in 0 .. m |-> IF i = m THEN step[m][f[m - 1]] ELSE f[i]]
  <2>2. f[m - 1] \in S BY <2>1 DEF Repeats
  <2>3. step[m][f[m - 1]] \in S BY <2>2 DEF StaysIn
  <2>4. Repeats(g, S, a, m, step) BY <2>1, <2>3 DEF Repeats
  <2> QED BY <2>4
<1>3. n \in G
  <2> HIDE DEF G
  <2>1. \A i \in 0 .. n : i \in G BY <1>1, <1>2, Upward
  <2> QED BY <2>1
<1> QED BY <1>3

-----------------------------------------------------------------------------
(***************************************************************************)
(* Only.                                                                   *)
(***************************************************************************)

\* f[i] has the members of S among the first i of s.
Sifts(f, s, S) ==
  /\ f[0] = <<>>
  /\ \A i \in 1 .. Len(s) : f[i] = IF s[i] \in S THEN Append(f[i - 1], s[i]) ELSE f[i - 1]
  /\ f[Len(s)] = Only(s, S)

LEMMA OnlyIs ==
  ASSUME NEW V, NEW s \in Seq(V), NEW S
  PROVE  \E f \in [0 .. Len(s) -> Seq(V)] : Sifts(f, s, S)
<1> DEFINE n == Len(s)
           Next1(i, x) == IF s[i] \in S THEN Append(x, s[i]) ELSE x
           step == [i \in 1 .. n |-> [x \in Seq(V) |-> Next1(i, x)]]
           P(f) == f = [i \in 0 .. n |-> IF i = 0 THEN <<>> ELSE Next1(i, f[i - 1])]
<1>1. n \in Nat /\ \A i \in 1 .. n : s[i] \in V BY LenProperties, ElementOfSeq
<1>2. Only(s, S) = (CHOOSE g : P(g))[n] BY DEF Only
<1>3. \A i \in 1 .. n : \A x \in Seq(V) : Next1(i, x) \in Seq(V) BY <1>1
<1> HIDE DEF n, Next1
<1>4. PICK f : Repeats(f, Seq(V), <<>>, n, step)
  <2>1. StaysIn(Seq(V), n, step) BY <1>3 DEF StaysIn
  <2> HIDE DEF step
  <2>2. <<>> \in Seq(V) OBVIOUS
  <2> QED BY <1>1, <2>1, <2>2, Recursion, Zenon
<1>5. P(f)
  <2>1. ASSUME NEW i \in 1 .. n PROVE f[i] = Next1(i, f[i - 1])
    <3>1. f[i - 1] \in Seq(V) BY <1>1, <1>4 DEF Repeats
    <3> QED BY <1>4, <3>1 DEF Repeats
  <2> QED BY <1>1, <1>4, <2>1 DEF Repeats
<1>6. P(CHOOSE g : P(g)) BY <1>5, Zenon
<1> DEFINE g == CHOOSE h : P(h)
<1> HIDE DEF g
<1>7. P(g) /\ Only(s, S) = g[n] BY <1>2, <1>6 DEF g
<1>8. g[0] = <<>> /\ \A i \in 1 .. n : g[i] = Next1(i, g[i - 1])
  <2>1. 0 \in 0 .. n /\ \A i \in 1 .. n : i \in 0 .. n /\ i # 0 BY <1>1
  <2>2. \A i \in 0 .. n : g[i] = IF i = 0 THEN <<>> ELSE Next1(i, g[i - 1]) BY <1>7
  <2> QED BY <2>1, <2>2
<1>9. \A i \in 0 .. n : i \in {j \in 0 .. n : g[j] \in Seq(V)}
  <2> DEFINE G == {j \in 0 .. n : g[j] \in Seq(V)}
  <2>1. 0 \in G
    <3>1. <<>> \in Seq(V) /\ 0 \in 0 .. n BY <1>1
    <3> QED BY <1>8, <3>1
  <2>2. \A i \in 1 .. n : i - 1 \in G => i \in G BY <1>1, <1>3, <1>8
  <2> HIDE DEF G
  <2>3. \A i \in 0 .. n : i \in G BY <1>1, <2>1, <2>2, Upward
  <2> QED BY <2>3 DEF G
<1>10. g \in [0 .. n -> Seq(V)] BY <1>7, <1>9
<1>11. Sifts(g, s, S) BY <1>7, <1>8 DEF Sifts, n, Next1
<1> QED BY <1>10, <1>11 DEF n

\* All of s, if all of it is in S.
LEMMA OnlyAll ==
  ASSUME NEW V, NEW s \in Seq(V), NEW S, \A i \in 1 .. Len(s) : s[i] \in S
  PROVE  Only(s, S) = s
<1> DEFINE n == Len(s)
<1>1. n \in Nat /\ \A i \in 1 .. n : s[i] \in V BY LenProperties, ElementOfSeq
<1>2. PICK f \in [0 .. n -> Seq(V)] : Sifts(f, s, S) BY OnlyIs
<1> DEFINE G == {i \in 0 .. n : f[i] = SubSeq(s, 1, i)}
<1>3. 0 \in G BY <1>1, <1>2 DEF Sifts
<1>4. ASSUME NEW i \in 1 .. n, i - 1 \in G PROVE i \in G
  <2>1. f[i] = Append(SubSeq(s, 1, i - 1), s[i]) BY <1>2, <1>4 DEF Sifts
  <2>2. Append(SubSeq(s, 1, i - 1), s[i]) = SubSeq(s, 1, i) BY <1>1
  <2>3. i \in 0 .. n BY <1>1
  <2> QED BY <2>1, <2>2, <2>3
<1>5. n \in G
  <2> HIDE DEF G
  <2>1. \A i \in 0 .. n : i \in G BY <1>1, <1>3, <1>4, Upward
  <2> QED BY <1>1, <2>1
<1>6. SubSeq(s, 1, n) = s BY <1>1
<1> QED BY <1>2, <1>5, <1>6 DEF Sifts

\* Otherwise less, with the same beginning.
LEMMA OnlySome ==
  ASSUME NEW V, NEW s \in Seq(V), NEW S, NEW k \in 1 .. Len(s), s[k] \notin S
  PROVE  /\ Only(s, S) \in Seq(V) /\ Len(Only(s, S)) < Len(s)
         /\ s[1] \in S => Len(Only(s, S)) >= 1 /\ Only(s, S)[1] = s[1]
<1> DEFINE n == Len(s)
<1>1. n \in Nat /\ \A i \in 1 .. n : s[i] \in V BY LenProperties, ElementOfSeq
<1>2. PICK f \in [0 .. n -> Seq(V)] : Sifts(f, s, S) BY OnlyIs
<1> DEFINE Ok(i) == /\ Len(f[i]) <= i /\ (k <= i => Len(f[i]) < i)
                    /\ (i >= 1 /\ s[1] \in S => Len(f[i]) >= 1 /\ f[i][1] = s[1])
           G == {i \in 0 .. n : Ok(i)}
<1>3. 0 \in G BY <1>1, <1>2 DEF Sifts
<1>4. ASSUME NEW i \in 1 .. n, i - 1 \in G PROVE i \in G
  <2>1. f[i - 1] \in Seq(V) /\ i - 1 \in 0 .. n BY <1>1, <1>2
  <2>2. Len(f[i - 1]) \in Nat BY <2>1, LenProperties
  <2>3. CASE s[i] \in S
    <3>1. f[i] = Append(f[i - 1], s[i]) /\ i # k BY <1>2, <2>3 DEF Sifts
    <3>2. /\ Len(f[i]) = Len(f[i - 1]) + 1
          /\ Len(f[i - 1]) >= 1 => f[i][1] = f[i - 1][1]
          /\ Len(f[i - 1]) = 0 => f[i][1] = s[i]
      BY <1>1, <2>1, <2>2, <3>1
    <3>3. Ok(i - 1) BY <1>4
    <3>4. i = 1 => Len(f[i - 1]) = 0 BY <2>2, <3>3
    <3>5. Len(f[i]) <= i /\ (k <= i => Len(f[i]) < i) BY <2>2, <3>1, <3>2, <3>3
    <3>6. s[1] \in S => Len(f[i]) >= 1 /\ f[i][1] = s[1]
      <4>1. CASE i = 1 BY <2>2, <3>2, <3>4, <4>1
      <4>2. CASE i # 1 BY <2>2, <3>2, <3>3, <4>2
      <4> QED BY <4>1, <4>2
    <3> QED BY <1>1, <3>5, <3>6
  <2>4. CASE s[i] \notin S
    <3>1. f[i] = f[i - 1] BY <1>2, <2>4 DEF Sifts
    <3>2. Ok(i - 1) BY <1>4
    <3> QED BY <2>2, <2>4, <3>1, <3>2
  <2> QED BY <2>3, <2>4
<1>5. n \in G
  <2> HIDE DEF G
  <2>1. \A i \in 0 .. n : i \in G BY <1>1, <1>3, <1>4, Upward
  <2> QED BY <1>1, <2>1
<1> QED BY <1>1, <1>2, <1>5 DEF Sifts

\* It has the members of s that are in S.
LEMMA OnlyElems ==
  ASSUME NEW V, NEW s \in Seq(V), NEW S
  PROVE  Only(s, S) \in Seq(V) /\ ToSet(Only(s, S)) = ToSet(s) \cap S
<1> DEFINE n == Len(s)
<1>1. n \in Nat /\ \A i \in 1 .. n : s[i] \in V BY LenProperties, ElementOfSeq
<1>2. PICK f \in [0 .. n -> Seq(V)] : Sifts(f, s, S) BY OnlyIs
<1> DEFINE G == {i \in 0 .. n : ToSet(f[i]) = {s[j] : j \in 1 .. i} \cap S}
<1>3. 0 \in G
  <2>1. ToSet(<<>>) = {} BY DEF ToSet
  <2> QED BY <1>1, <1>2, <2>1 DEF Sifts
<1>4. ASSUME NEW i \in 1 .. n, i - 1 \in G PROVE i \in G
  <2>1. f[i - 1] \in Seq(V) /\ i - 1 \in 0 .. n BY <1>1, <1>2
  <2>2. 1 .. i = (1 .. i - 1) \cup {i} OBVIOUS
  <2>3. {s[j] : j \in 1 .. i} = {s[j] : j \in 1 .. i - 1} \cup {s[i]} BY <2>2
  <2>4. ToSet(Append(f[i - 1], s[i])) = ToSet(f[i - 1]) \cup {s[i]}
    <3>1. Len(f[i - 1]) \in Nat /\ DOMAIN f[i - 1] = 1 .. Len(f[i - 1]) BY <2>1, LenProperties
    <3>2. DOMAIN Append(f[i - 1], s[i]) = 1 .. Len(f[i - 1]) + 1 BY <1>1, <2>1, <3>1
    <3>3. \A j \in 1 .. Len(f[i - 1]) : Append(f[i - 1], s[i])[j] = f[i - 1][j] BY <1>1, <2>1, <3>1
    <3>4. Append(f[i - 1], s[i])[Len(f[i - 1]) + 1] = s[i] BY <1>1, <2>1, <3>1
    <3> QED BY <3>1, <3>2, <3>3, <3>4 DEF ToSet
  <2>5. f[i] = IF s[i] \in S THEN Append(f[i - 1], s[i]) ELSE f[i - 1] BY <1>2 DEF Sifts
  <2> QED BY <1>4, <2>3, <2>4, <2>5
<1>5. n \in G
  <2> HIDE DEF G
  <2>1. \A i \in 0 .. n : i \in G BY <1>1, <1>3, <1>4, Upward
  <2> QED BY <1>1, <2>1
<1>6. ToSet(s) = {s[j] : j \in 1 .. n} BY <1>1, LenProperties DEF ToSet
<1> QED BY <1>1, <1>2, <1>5, <1>6 DEF Sifts

-----------------------------------------------------------------------------
(***************************************************************************)
(* What one line does.                                                     *)
(***************************************************************************)

RuleNames == Names \cup ToSet(Builtins) \cup {Untitled}
RuleActions == Actions \cup {"block"}
Switches == {"0", "1"}

\* The lines save_state writes.
Line(l) ==
  \/ \E p \in Postures : l = <<"posture", p>>
  \/ \E w \in Words : l = <<"setting", w>>
  \/ \E w \in Words, a \in AppNames : l = <<"app", w, a>>
  \/ \E x \in RuleNames, b \in Switches : l = <<"builtin", x, b>>
  \/ \E b \in Switches, c \in RuleActions, x \in RuleNames \ {Empty} : l = <<"rule", b, c, x>>
  \/ \E d \in Macs : l = <<"device", d>>

LEMMA FieldsOf ==
  ASSUME NEW V, NEW line \in Seq(V)
  PROVE  /\ (\A i \in 1 .. Len(line) : line[i] # Empty) => Fields(line) = line
         /\ \A k \in 1 .. Len(line) : line[k] = Empty =>
              /\ Fields(line) \in Seq(V) /\ Len(Fields(line)) < Len(line)
              /\ line[1] # Empty => Len(Fields(line)) >= 1 /\ Fields(line)[1] = line[1]
<1> DEFINE S == ToSet(line) \ {Empty}
<1>1. Len(line) \in Nat /\ DOMAIN line = 1 .. Len(line) BY LenProperties
<1>2. \A i \in 1 .. Len(line) : line[i] \in S <=> line[i] # Empty BY <1>1 DEF ToSet
<1>3. Fields(line) = Only(line, S) BY DEF Fields
<1>4. ASSUME \A i \in 1 .. Len(line) : line[i] # Empty PROVE Fields(line) = line
  <2> HIDE DEF S
  <2> QED BY <1>2, <1>3, <1>4, OnlyAll
<1>5. ASSUME NEW k \in 1 .. Len(line), line[k] = Empty
      PROVE  /\ Fields(line) \in Seq(V) /\ Len(Fields(line)) < Len(line)
             /\ line[1] # Empty => Len(Fields(line)) >= 1 /\ Fields(line)[1] = line[1]
  <2> HIDE DEF S
  <2>1. line[k] \notin S BY <1>2, <1>5
  <2>2. 1 \in 1 .. Len(line) BY <1>1
  <2> QED BY <1>2, <1>3, <2>1, <2>2, OnlySome
<1> QED BY <1>4, <1>5

\* The fields are texts, and only a name or an action can be empty.
LEMMA Texts ==
  /\ Postures \cup Words \cup RuleNames \cup RuleActions \cup AppNames \cup Macs \cup Switches \subseteq Text
  /\ {"posture", "setting", "app", "builtin", "rule", "device"} \subseteq Text
  /\ Empty \notin Postures \cup Words \cup AppNames \cup Macs \cup Switches
  /\ Empty \notin {"posture", "setting", "app", "builtin", "rule", "device", "block", Untitled}
  /\ \A i \in DOMAIN Builtins : Builtins[i] \in RuleNames /\ Builtins[i] # Empty
<1>1. Empty \notin {"posture", "setting", "app", "builtin", "rule", "device", "block", Untitled, "0", "1"}
  BY Zenon DEF Empty, Untitled
<1> QED BY <1>1, StateAssumption DEF RuleNames, RuleActions, Switches, Text, ToSet

LEMMA Two ==
  ASSUME NEW V, NEW a \in V, NEW b \in V
  PROVE  /\ <<a, b>> \in Seq(V) /\ Len(<<a, b>>) = 2 /\ <<a, b>>[1] = a /\ <<a, b>>[2] = b
         /\ a # Empty /\ b # Empty => Fields(<<a, b>>) = <<a, b>>
<1> DEFINE l == <<a, b>>
<1>1. l \in Seq(V) /\ Len(l) = 2 /\ l[1] = a /\ l[2] = b OBVIOUS
<1> HIDE DEF l
<1>2. ASSUME a # Empty, b # Empty PROVE Fields(l) = l
  <2>1. ASSUME NEW i \in 1 .. Len(l) PROVE l[i] # Empty
    <3>1. i = 1 \/ i = 2 BY <1>1
    <3> QED BY <1>1, <1>2, <3>1
  <2> QED BY <1>1, <2>1, FieldsOf
<1> QED BY <1>1, <1>2 DEF l

LEMMA Three ==
  ASSUME NEW V, NEW a \in V, NEW b \in V, NEW c \in V, a # Empty
  PROVE  /\ <<a, b, c>> \in Seq(V) /\ Len(<<a, b, c>>) = 3
         /\ <<a, b, c>>[1] = a /\ <<a, b, c>>[2] = b /\ <<a, b, c>>[3] = c
         /\ b # Empty /\ c # Empty => Fields(<<a, b, c>>) = <<a, b, c>>
         /\ b = Empty => ~(Len(Fields(<<a, b, c>>)) >= 3) /\ Fields(<<a, b, c>>)[1] = a
<1> DEFINE l == <<a, b, c>>
<1>1. l \in Seq(V) /\ Len(l) = 3 /\ l[1] = a /\ l[2] = b /\ l[3] = c OBVIOUS
<1> HIDE DEF l
<1>2. ASSUME b # Empty, c # Empty PROVE Fields(l) = l
  <2>1. ASSUME NEW i \in 1 .. Len(l) PROVE l[i] # Empty
    <3>1. i = 1 \/ i = 2 \/ i = 3 BY <1>1
    <3> QED BY <1>1, <1>2, <3>1
  <2> QED BY <1>1, <2>1, FieldsOf
<1>3. ASSUME b = Empty PROVE ~(Len(Fields(l)) >= 3) /\ Fields(l)[1] = a
  <2>1. 2 \in 1 .. Len(l) /\ l[2] = Empty /\ l[1] # Empty BY <1>1, <1>3
  <2>2. Fields(l) \in Seq(V) /\ Len(Fields(l)) < Len(l) /\ Len(Fields(l)) >= 1 /\ Fields(l)[1] = l[1]
    BY <1>1, <2>1, FieldsOf
  <2>3. Len(Fields(l)) \in Nat BY <2>2, LenProperties
  <2>4. Fields(l)[1] = a BY <1>1, <2>2
  <2>5. Len(l) \in Nat BY <1>1
  <2>6. ~(Len(Fields(l)) >= Len(l)) BY <2>2, <2>3, <2>5
  <2> QED BY <1>1, <2>4, <2>6
<1> QED BY <1>1, <1>2, <1>3 DEF l

LEMMA Four ==
  ASSUME NEW V, NEW a \in V, NEW b \in V, NEW c \in V, NEW d \in V, a # Empty, b # Empty, d # Empty
  PROVE  /\ <<a, b, c, d>> \in Seq(V) /\ Len(<<a, b, c, d>>) = 4
         /\ <<a, b, c, d>>[1] = a /\ <<a, b, c, d>>[2] = b
         /\ <<a, b, c, d>>[3] = c /\ <<a, b, c, d>>[4] = d
         /\ c # Empty => Fields(<<a, b, c, d>>) = <<a, b, c, d>>
         /\ c = Empty => ~(Len(Fields(<<a, b, c, d>>)) >= 4) /\ Fields(<<a, b, c, d>>)[1] = a
<1> DEFINE l == <<a, b, c, d>>
<1>1. l \in Seq(V) /\ Len(l) = 4 /\ l[1] = a /\ l[2] = b /\ l[3] = c /\ l[4] = d OBVIOUS
<1> HIDE DEF l
<1>2. ASSUME c # Empty PROVE Fields(l) = l
  <2>1. ASSUME NEW i \in 1 .. Len(l) PROVE l[i] # Empty
    <3>1. i = 1 \/ i = 2 \/ i = 3 \/ i = 4 BY <1>1
    <3> QED BY <1>1, <1>2, <3>1
  <2> QED BY <1>1, <2>1, FieldsOf
<1>3. ASSUME c = Empty PROVE ~(Len(Fields(l)) >= 4) /\ Fields(l)[1] = a
  <2>1. 3 \in 1 .. Len(l) /\ l[3] = Empty /\ l[1] # Empty BY <1>1, <1>3
  <2>2. Fields(l) \in Seq(V) /\ Len(Fields(l)) < Len(l) /\ Len(Fields(l)) >= 1 /\ Fields(l)[1] = l[1]
    BY <1>1, <2>1, FieldsOf
  <2>3. Len(Fields(l)) \in Nat BY <2>2, LenProperties
  <2>4. Fields(l)[1] = a BY <1>1, <2>2
  <2>5. Len(l) \in Nat BY <1>1
  <2>6. ~(Len(Fields(l)) >= Len(l)) BY <2>2, <2>3, <2>5
  <2> QED BY <1>1, <2>4, <2>6
<1> QED BY <1>1, <1>2, <1>3 DEF l

LEMMA PostureLine ==
  ASSUME NEW m, NEW p \in Postures
  PROVE  LoadLine(m, <<"posture", p>>) = [m EXCEPT !.posture = p]
<1> DEFINE l == <<"posture", p>>
<1>1. Fields(l) = l /\ Len(l) = 2 /\ l[1] = "posture" /\ l[2] = p BY Texts, Two
<1> HIDE DEF l
<1>2. LoadLine(m, l) = [m EXCEPT !.posture = p] BY <1>1 DEF LoadLine
<1> QED BY <1>2 DEF l

LEMMA SettingLine ==
  ASSUME NEW m, NEW w \in Words
  PROVE  LoadLine(m, <<"setting", w>>) = [m EXCEPT !.out = w]
<1> DEFINE l == <<"setting", w>>
<1>1. Fields(l) = l /\ Len(l) = 2 /\ l[1] = "setting" /\ l[2] = w BY Texts, Two
<1> HIDE DEF l
<1>2. LoadLine(m, l) = [m EXCEPT !.out = w] BY <1>1 DEF LoadLine
<1> QED BY <1>2 DEF l

LEMMA AppLineRead ==
  ASSUME NEW m, NEW w \in Words, NEW a \in AppNames
  PROVE  LoadLine(m, <<"app", w, a>>) = [m EXCEPT !.apps = PutApp(m.apps, a, w)]
<1> DEFINE l == <<"app", w, a>>
<1>1. Fields(l) = l /\ Len(l) = 3 /\ l[1] = "app" /\ l[2] = w /\ l[3] = a BY Texts, Three
<1> HIDE DEF l
<1>2. LoadLine(m, l) = [m EXCEPT !.apps = PutApp(m.apps, a, w)] BY <1>1 DEF LoadLine
<1> QED BY <1>2 DEF l

\* A line that lacks a field is skipped.
LEMMA BuiltinLineRead ==
  ASSUME NEW m, NEW x \in RuleNames, NEW b \in Switches
  PROVE  /\ x = Empty => LoadLine(m, <<"builtin", x, b>>) = m
         /\ x # Empty => LoadLine(m, <<"builtin", x, b>>) =
                           [m EXCEPT !.rules = LoadBuiltin(m.rules, x, b = "1")]
<1> DEFINE l == <<"builtin", x, b>>
<1>0. "builtin" \in Text /\ x \in Text /\ b \in Text /\ "builtin" # Empty /\ b # Empty BY Texts
<1>1. /\ x # Empty => Fields(l) = l /\ Len(l) = 3 /\ l[1] = "builtin" /\ l[2] = x /\ l[3] = b
      /\ x = Empty => ~(Len(Fields(l)) >= 3) /\ Fields(l)[1] = "builtin"
  BY <1>0, Three
<1> HIDE DEF l
<1>2. ASSUME x # Empty PROVE LoadLine(m, l) = [m EXCEPT !.rules = LoadBuiltin(m.rules, x, b = "1")]
  <2>0. Fields(l) = l /\ Len(l) = 3 /\ l[1] = "builtin" BY <1>1, <1>2, Zenon
  <2>1. /\ Len(Fields(l)) >= 3 /\ Fields(l)[1] = "builtin"
        /\ Fields(l)[1] # "posture" /\ Fields(l)[1] # "setting" /\ Fields(l)[1] # "app"
    <3>1. Len(l) >= 3 /\ l[1] # "posture" /\ l[1] # "setting" /\ l[1] # "app"
      BY <2>0
    <3> QED BY <2>0, <3>1, Zenon
  <2>2. LoadLine(m, l) = [m EXCEPT !.rules = LoadBuiltin(m.rules, Fields(l)[2], Fields(l)[3] = "1")]
    BY <2>1, Zenon DEF LoadLine
  <2> QED BY <1>1, <1>2, <2>2, Zenon
<1>3. ASSUME x = Empty PROVE LoadLine(m, l) = m
  BY <1>1, <1>3 DEF LoadLine
<1> QED BY <1>2, <1>3, Zenon DEF l

LEMMA RuleLineRead ==
  ASSUME NEW m, NEW b \in Switches, NEW c \in RuleActions, NEW x \in RuleNames \ {Empty}
  PROVE  /\ c = Empty => LoadLine(m, <<"rule", b, c, x>>) = m
         /\ c # Empty => LoadLine(m, <<"rule", b, c, x>>) =
                           [m EXCEPT !.rules = LoadRule(m.rules, <<"rule", b, c, x>>)]
<1> DEFINE l == <<"rule", b, c, x>>
<1>0. /\ "rule" \in Text /\ x \in Text /\ b \in Text /\ c \in Text
      /\ "rule" # Empty /\ b # Empty /\ x # Empty
  BY Texts
<1>1. /\ c # Empty => Fields(l) = l /\ Len(l) = 4 /\ l[1] = "rule"
      /\ c = Empty => ~(Len(Fields(l)) >= 4) /\ Fields(l)[1] = "rule"
  BY <1>0, Four
<1> HIDE DEF l
<1>2. ASSUME c # Empty PROVE LoadLine(m, l) = [m EXCEPT !.rules = LoadRule(m.rules, l)]
  <2>0. Fields(l) = l /\ Len(l) = 4 /\ l[1] = "rule" BY <1>1, <1>2, Zenon
  <2>1. /\ Len(Fields(l)) >= 4 /\ Fields(l)[1] = "rule" /\ Fields(l)[1] # "posture"
        /\ Fields(l)[1] # "setting" /\ Fields(l)[1] # "app" /\ Fields(l)[1] # "builtin"
    <3>1. Len(l) >= 4 /\ l[1] # "posture" /\ l[1] # "setting" /\ l[1] # "app" /\ l[1] # "builtin"
      BY <2>0
    <3> QED BY <2>0, <3>1, Zenon
  <2>2. LoadLine(m, l) = [m EXCEPT !.rules = LoadRule(m.rules, Fields(l))] BY <2>1, Zenon DEF LoadLine
  <2> QED BY <1>1, <1>2, <2>2, Zenon
<1>3. ASSUME c = Empty PROVE LoadLine(m, l) = m
  BY <1>1, <1>3 DEF LoadLine
<1> QED BY <1>2, <1>3, Zenon DEF l

LEMMA DeviceLineRead ==
  ASSUME NEW m, NEW d \in Macs
  PROVE  LoadLine(m, <<"device", d>>) =
           IF Len(m.devices) < MaxDevices THEN [m EXCEPT !.devices = Append(m.devices, d)] ELSE m
<1> DEFINE l == <<"device", d>>
<1>1. Fields(l) = l /\ Len(l) = 2 /\ l[1] = "device" /\ l[2] = d BY Texts, Two
<1> HIDE DEF l
<1>2. LoadLine(m, l) = IF Len(m.devices) < MaxDevices THEN [m EXCEPT !.devices = Append(m.devices, d)] ELSE m
  BY <1>1 DEF LoadLine
<1> QED BY <1>2 DEF l

LEMMA LineType ==
  ASSUME NEW l, Line(l)
  PROVE  l \in Seq(Text)
<1>1. CASE \E p \in Postures : l = <<"posture", p>> BY <1>1, Texts, Two
<1>2. CASE \E w \in Words : l = <<"setting", w>> BY <1>2, Texts, Two
<1>3. CASE \E w \in Words, a \in AppNames : l = <<"app", w, a>> BY <1>3, Texts, Three
<1>4. CASE \E x \in RuleNames, b \in Switches : l = <<"builtin", x, b>> BY <1>4, Texts, Three
<1>5. CASE \E b \in Switches, c \in RuleActions, x \in RuleNames \ {Empty} : l = <<"rule", b, c, x>>
  BY <1>5, Texts, Four
<1>6. CASE \E d \in Macs : l = <<"device", d>> BY <1>6, Texts, Two
<1> QED BY <1>1, <1>2, <1>3, <1>4, <1>5, <1>6 DEF Line

-----------------------------------------------------------------------------
(***************************************************************************)
(* Reading a file line by line: whatever the lines save_state may write,   *)
(* each leaves the tables settled, as a read leaves them.                  *)
(***************************************************************************)

\* The applications are known by their names.
AppsOk(apps) == apps \in Seq(AppEntries) /\ IsInjective([i \in DOMAIN apps |-> apps[i].name])

\* After a read each decision is the user's.
SettledApps(apps) == AppsOk(apps) /\ \A i \in DOMAIN apps : apps[i].pinned

\* The built in rules come first, those of one name with one switch; the others are
\* rules of the user that lack nothing.
SettledRules(rules) ==
  /\ rules \in Seq(RuleEntries) /\ Len(Builtins) <= Len(rules) /\ Len(rules) <= MaxRules
  /\ \A i \in 1 .. Len(Builtins) :
       rules[i].builtin /\ rules[i].name = Builtins[i] /\ rules[i].action = "block"
  /\ \A i, j \in 1 .. Len(Builtins) :
       Builtins[i] = Builtins[j] => rules[i].enabled = rules[j].enabled
  /\ \A i \in Len(Builtins) + 1 .. Len(rules) :
       ~rules[i].builtin /\ rules[i].name # Empty /\ rules[i].action # Empty

Settled ==
  {x \in Tables : SettledApps(x.apps) /\ SettledRules(x.rules) /\ Len(x.devices) <= MaxDevices}

LEMMA AddAppOk ==
  ASSUME NEW apps, AppsOk(apps), NEW e \in AppEntries, \A i \in DOMAIN apps : apps[i].name # e.name
  PROVE  /\ AppsOk(Append(apps, e))
         /\ SettledApps(apps) /\ e.pinned => SettledApps(Append(apps, e))
<1> DEFINE n == Len(apps)
           s == Append(apps, e)
<1>1. apps \in Seq(AppEntries) BY DEF AppsOk
<1>2. n \in Nat /\ DOMAIN apps = 1 .. n BY <1>1, LenProperties
<1>3. s \in Seq(AppEntries) /\ DOMAIN s = 1 .. n + 1 BY <1>1, <1>2
<1>4. (\A i \in 1 .. n : s[i] = apps[i]) /\ s[n + 1] = e BY <1>1, <1>2
<1> HIDE DEF s
<1>5. SettledApps(apps) /\ e.pinned => \A i \in DOMAIN s : s[i].pinned
  BY <1>2, <1>3, <1>4 DEF SettledApps
<1>6. IsInjective([i \in DOMAIN s |-> s[i].name])
  <2>1. ASSUME NEW i \in 1 .. n + 1, NEW j \in 1 .. n + 1, s[i].name = s[j].name PROVE i = j
    <3>1. CASE i \in 1 .. n /\ j \in 1 .. n BY <1>2, <1>4, <2>1, <3>1 DEF AppsOk, IsInjective
    <3>2. CASE i = n + 1 /\ j \in 1 .. n BY <1>2, <1>4, <2>1, <3>2
    <3>3. CASE j = n + 1 /\ i \in 1 .. n BY <1>2, <1>4, <2>1, <3>3
    <3>4. CASE i = n + 1 /\ j = n + 1 BY <3>4
    <3> QED BY <1>2, <2>1, <3>1, <3>2, <3>3, <3>4
  <2> QED BY <1>3, <2>1 DEF IsInjective
<1> QED BY <1>3, <1>5, <1>6 DEF SettledApps, AppsOk, s

LEMMA PutAppOk ==
  ASSUME NEW apps, AppsOk(apps), NEW a \in AppNames, NEW w \in Words
  PROVE  AppsOk(PutApp(apps, a, w)) /\ (SettledApps(apps) => SettledApps(PutApp(apps, a, w)))
<1> DEFINE n == Len(apps)
           entry == [name |-> a, policy |-> w, pinned |-> TRUE]
<1>1. apps \in Seq(AppEntries) BY DEF AppsOk
<1>2. n \in Nat /\ DOMAIN apps = 1 .. n /\ apps \in [1 .. n -> AppEntries] BY <1>1, LenProperties
<1>3. entry \in AppEntries BY DEF AppEntries
<1>4. CASE \E i \in DOMAIN apps : apps[i].name = a
  <2> DEFINE s == [i \in DOMAIN apps |-> IF apps[i].name = a
                   THEN [apps[i] EXCEPT !.policy = w, !.pinned = TRUE] ELSE apps[i]]
  <2>1. PutApp(apps, a, w) = s BY <1>4 DEF PutApp
  <2>2. \A i \in DOMAIN apps : s[i] \in AppEntries /\ s[i].name = apps[i].name
    BY <1>2 DEF AppEntries
  <2>6. SettledApps(apps) => \A i \in DOMAIN apps : s[i].pinned
    BY <1>2 DEF AppEntries, SettledApps
  <2>3. s \in [1 .. n -> AppEntries] /\ DOMAIN s = DOMAIN apps BY <1>2, <2>2
  <2> HIDE DEF s
  <2>4. s \in Seq(AppEntries) BY <1>2, <2>3, IsASeq
  <2>5. IsInjective([i \in DOMAIN s |-> s[i].name]) BY <2>2, <2>3 DEF AppsOk, IsInjective
  <2> QED BY <2>1, <2>3, <2>4, <2>5, <2>6 DEF SettledApps, AppsOk
<1>5. CASE ~\E i \in DOMAIN apps : apps[i].name = a
  <2>1. PutApp(apps, a, w) = Append(apps, entry) BY <1>5 DEF PutApp
  <2>2. entry.name = a /\ entry.pinned OBVIOUS
  <2> HIDE DEF entry
  <2> QED BY <1>3, <1>5, <2>1, <2>2, AddAppOk
<1> QED BY <1>4, <1>5

LEMMA LoadBuiltinSettled ==
  ASSUME NEW rules, SettledRules(rules), NEW x, NEW e \in BOOLEAN
  PROVE  SettledRules(LoadBuiltin(rules, x, e))
<1> DEFINE n == Len(rules)
           s == LoadBuiltin(rules, x, e)
<1>1. rules \in Seq(RuleEntries) BY DEF SettledRules
<1>2. n \in Nat /\ DOMAIN rules = 1 .. n /\ rules \in [1 .. n -> RuleEntries] BY <1>1, LenProperties
<1>3. \A i \in 1 .. n : /\ s[i] \in RuleEntries /\ s[i].name = rules[i].name
                        /\ s[i].action = rules[i].action /\ s[i].builtin = rules[i].builtin
                        /\ s[i].enabled = IF rules[i].builtin /\ rules[i].name = x
                                          THEN e ELSE rules[i].enabled
  BY <1>2 DEF LoadBuiltin, RuleEntries
<1>4. s \in [1 .. n -> RuleEntries]
  <2>1. DOMAIN s = 1 .. n /\ s = [i \in 1 .. n |-> s[i]] BY <1>2 DEF LoadBuiltin
  <2> HIDE DEF s
  <2> QED BY <1>3, <2>1
<1>5. s \in Seq(RuleEntries) /\ Len(s) = n BY <1>2, <1>4, IsASeq, LenProperties
<1> HIDE DEF s
<1>6. Len(Builtins) \in Nat BY StateAssumption, LenProperties
<1>7. Len(Builtins) <= n /\ n <= MaxRules BY DEF SettledRules
<1>8. \A i \in 1 .. Len(Builtins) : i \in 1 .. n BY <1>2, <1>6, <1>7
<1>9. \A i \in Len(Builtins) + 1 .. n : i \in 1 .. n BY <1>2, <1>6
<1> HIDE DEF n
<1>10. \A i \in 1 .. Len(Builtins) : s[i].builtin /\ s[i].name = Builtins[i] /\ s[i].action = "block"
  BY <1>3, <1>8 DEF SettledRules
<1>11. ASSUME NEW i \in 1 .. Len(Builtins), NEW j \in 1 .. Len(Builtins), Builtins[i] = Builtins[j]
       PROVE  s[i].enabled = s[j].enabled
  <2>1. rules[i].builtin /\ rules[j].builtin /\ rules[i].name = rules[j].name
    BY <1>11 DEF SettledRules
  <2>2. rules[i].enabled = rules[j].enabled BY <1>11 DEF SettledRules
  <2> QED BY <1>3, <1>8, <2>1, <2>2
<1>12. \A i \in Len(Builtins) + 1 .. n : ~s[i].builtin /\ s[i].name # Empty /\ s[i].action # Empty
  BY <1>3, <1>9 DEF SettledRules, n
<1> QED BY <1>5, <1>7, <1>10, <1>11, <1>12 DEF SettledRules, s

\* The rule a line describes.
UserRule(b, c, x) == [name |-> x, action |-> c, enabled |-> b = "1", builtin |-> FALSE]

LEMMA LoadRuleIs ==
  ASSUME NEW b \in Switches, NEW c \in RuleActions, NEW x \in RuleNames \ {Empty}, NEW rules
  PROVE  LoadRule(rules, <<"rule", b, c, x>>) =
           IF Len(rules) < MaxRules THEN Append(rules, UserRule(b, c, x)) ELSE rules
  BY DEF LoadRule, UserRule

LEMMA AddRuleSettled ==
  ASSUME NEW rules, SettledRules(rules), NEW b \in Switches, NEW c \in RuleActions \ {Empty},
         NEW x \in RuleNames \ {Empty}, Len(rules) < MaxRules
  PROVE  SettledRules(Append(rules, UserRule(b, c, x)))
<1> DEFINE n == Len(rules)
           r == UserRule(b, c, x)
           s == Append(rules, r)
<1>1. r \in RuleEntries /\ ~r.builtin /\ r.name # Empty /\ r.action # Empty
  BY DEF UserRule, RuleEntries, RuleNames, RuleActions
<1>2. rules \in Seq(RuleEntries) BY DEF SettledRules
<1>3. n \in Nat /\ MaxRules \in Nat /\ Len(Builtins) \in Nat BY <1>2, StateAssumption, LenProperties
<1> HIDE DEF r
<1>4. s \in Seq(RuleEntries) /\ Len(s) = n + 1 /\ (\A i \in 1 .. n : s[i] = rules[i]) /\ s[n + 1] = r
  BY <1>1, <1>2
<1> HIDE DEF s
<1>5. Len(Builtins) <= n BY DEF SettledRules
<1>6. \A i \in 1 .. Len(Builtins) : s[i] = rules[i] BY <1>3, <1>4, <1>5
<1>7. \A i \in Len(Builtins) + 1 .. Len(s) : ~s[i].builtin /\ s[i].name # Empty /\ s[i].action # Empty
  <2>1. ASSUME NEW i \in Len(Builtins) + 1 .. n + 1 PROVE i \in Len(Builtins) + 1 .. n \/ i = n + 1
    BY <1>3
  <2>2. \A i \in Len(Builtins) + 1 .. n : i \in 1 .. n BY <1>3
  <2> QED BY <1>1, <1>4, <2>1, <2>2 DEF SettledRules
<1>8. Len(Builtins) <= Len(s) /\ Len(s) <= MaxRules BY <1>3, <1>4, <1>5
<1> QED BY <1>4, <1>6, <1>7, <1>8 DEF SettledRules, r, s

LEMMA SwitchesAre ==
  /\ \A b \in BOOLEAN : Switch(b) \in Switches /\ (Switch(b) = "1") = b
  /\ \A b \in Switches : (b = "1") \in BOOLEAN
  BY DEF Switch, Switches

LEMMA LineSettled ==
  ASSUME NEW x \in Settled, NEW l, Line(l)
  PROVE  LoadLine(x, l) \in Settled
<1>1. /\ x \in Tables /\ SettledApps(x.apps) /\ SettledRules(x.rules)
      /\ x.devices \in Seq(Macs) /\ Len(x.devices) <= MaxDevices
  BY DEF Settled, Tables
<1>2. CASE \E p \in Postures : l = <<"posture", p>>
  <2>1. PICK p \in Postures : l = <<"posture", p>> BY <1>2
  <2>2. LoadLine(x, l) = [x EXCEPT !.posture = p] BY <2>1, PostureLine
  <2> QED BY <1>1, <2>2 DEF Settled, Tables
<1>3. CASE \E w \in Words : l = <<"setting", w>>
  <2>1. PICK w \in Words : l = <<"setting", w>> BY <1>3
  <2>2. LoadLine(x, l) = [x EXCEPT !.out = w] BY <2>1, SettingLine
  <2> QED BY <1>1, <2>2 DEF Settled, Tables
<1>4. CASE \E w \in Words, a \in AppNames : l = <<"app", w, a>>
  <2>1. PICK w \in Words, a \in AppNames : l = <<"app", w, a>> BY <1>4
  <2> DEFINE s == PutApp(x.apps, a, w)
  <2>2. SettledApps(s) BY <1>1, PutAppOk DEF SettledApps
  <2> HIDE DEF s
  <2>3. LoadLine(x, l) = [x EXCEPT !.apps = s] BY <2>1, AppLineRead DEF s
  <2>4. s \in Seq(AppEntries) BY <2>2 DEF SettledApps, AppsOk
  <2> QED BY <1>1, <2>2, <2>3, <2>4 DEF Settled, Tables
<1>5. CASE \E n \in RuleNames, b \in Switches : l = <<"builtin", n, b>>
  <2>1. PICK n \in RuleNames, b \in Switches : l = <<"builtin", n, b>> BY <1>5
  <2> DEFINE s == LoadBuiltin(x.rules, n, b = "1")
  <2>2. SettledRules(s) BY <1>1, LoadBuiltinSettled, SwitchesAre
  <2> HIDE DEF s
  <2>3. LoadLine(x, l) = x \/ LoadLine(x, l) = [x EXCEPT !.rules = s] BY <2>1, BuiltinLineRead DEF s
  <2>4. s \in Seq(RuleEntries) BY <2>2 DEF SettledRules
  <2> QED BY <1>1, <2>2, <2>3, <2>4 DEF Settled, Tables
<1>6. CASE \E b \in Switches, c \in RuleActions, n \in RuleNames \ {Empty} : l = <<"rule", b, c, n>>
  <2>1. PICK b \in Switches, c \in RuleActions, n \in RuleNames \ {Empty} : l = <<"rule", b, c, n>>
    BY <1>6
  <2>2. /\ c = Empty => LoadLine(x, l) = x
        /\ c # Empty => LoadLine(x, l) = [x EXCEPT !.rules = LoadRule(x.rules, <<"rule", b, c, n>>)]
    <3>1. /\ c = Empty => LoadLine(x, <<"rule", b, c, n>>) = x
          /\ c # Empty => LoadLine(x, <<"rule", b, c, n>>) =
                            [x EXCEPT !.rules = LoadRule(x.rules, <<"rule", b, c, n>>)]
      BY RuleLineRead
    <3> QED BY <2>1, <3>1, Zenon
  <2>3. LoadRule(x.rules, <<"rule", b, c, n>>) =
          IF Len(x.rules) < MaxRules THEN Append(x.rules, UserRule(b, c, n)) ELSE x.rules
    BY LoadRuleIs, Zenon
  <2> DEFINE s == LoadRule(x.rules, <<"rule", b, c, n>>)
  <2>4. ASSUME c # Empty PROVE SettledRules(s)
    <3>1. c \in RuleActions \ {Empty} BY <2>4
    <3>2. CASE Len(x.rules) < MaxRules BY <1>1, <2>3, <3>1, <3>2, AddRuleSettled, Zenon
    <3>3. CASE ~(Len(x.rules) < MaxRules) BY <1>1, <2>3, <3>3, Zenon
    <3> QED BY <3>2, <3>3
  <2> HIDE DEF s
  <2>5. c # Empty => LoadLine(x, l) = [x EXCEPT !.rules = s] BY <2>2, Zenon DEF s
  <2>6. c # Empty => s \in Seq(RuleEntries) BY <2>4 DEF SettledRules
  <2>7. ASSUME c # Empty PROVE LoadLine(x, l) \in Settled
    BY <1>1, <2>4, <2>5, <2>6, <2>7 DEF Settled, Tables
  <2> QED BY <2>2, <2>7, Zenon
<1>7. CASE \E d \in Macs : l = <<"device", d>>
  <2>1. PICK d \in Macs : l = <<"device", d>> BY <1>7
  <2> DEFINE s == Append(x.devices, d)
  <2>2. s \in Seq(Macs) /\ Len(s) = Len(x.devices) + 1 BY <1>1
  <2> HIDE DEF s
  <2>3. LoadLine(x, l) = IF Len(x.devices) < MaxDevices THEN [x EXCEPT !.devices = s] ELSE x
    BY <2>1, DeviceLineRead, Zenon DEF s
  <2>4. Len(x.devices) \in Nat /\ MaxDevices \in Nat BY <1>1, StateAssumption, LenProperties
  <2>5. CASE Len(x.devices) < MaxDevices
    <3>1. LoadLine(x, l) = [x EXCEPT !.devices = s] BY <2>3, <2>5, Zenon
    <3>2. Len(s) <= MaxDevices BY <2>2, <2>4, <2>5
    <3> QED BY <1>1, <2>2, <3>1, <3>2 DEF Settled, Tables
  <2>6. CASE ~(Len(x.devices) < MaxDevices) BY <2>3, <2>6, Zenon
  <2> QED BY <2>5, <2>6
<1> QED BY <1>2, <1>3, <1>4, <1>5, <1>6, <1>7 DEF Line

LEMMA SeedSettled == Seed \in Settled /\ Seed.devices = <<>>
<1> DEFINE n == Len(Builtins)
           rules == [i \in DOMAIN Builtins |-> BuiltinRule(Builtins[i])]
<1>1. n \in Nat /\ DOMAIN Builtins = 1 .. n /\ n <= MaxRules BY StateAssumption, LenProperties
<1>2. \A i \in 1 .. n : Builtins[i] \in RuleNames BY <1>1, Texts
<1>3. \A i \in 1 .. n : rules[i] \in RuleEntries
  BY <1>1, <1>2 DEF BuiltinRule, RuleEntries, RuleNames
<1>4. rules \in [1 .. n -> RuleEntries] BY <1>1, <1>3
<1>5. \A i \in 1 .. n : /\ rules[i].builtin /\ rules[i].name = Builtins[i]
                        /\ rules[i].action = "block" /\ rules[i].enabled
  BY <1>1 DEF BuiltinRule
<1>6. Seed = [posture |-> "on", out |-> "allow", apps |-> <<>>, devices |-> <<>>, rules |-> rules]
  BY DEF Seed
<1> HIDE DEF rules
<1>7. rules \in Seq(RuleEntries) /\ Len(rules) = n BY <1>1, <1>4, IsASeq, LenProperties
<1>8. SettledRules(rules)
  <2>1. n + 1 .. n = {} /\ n <= n BY <1>1
  <2>2. \A i, j \in 1 .. n : rules[i].enabled = rules[j].enabled
    <3>1. \A i \in 1 .. n : rules[i].enabled = TRUE BY <1>1 DEF BuiltinRule, rules
    <3> QED BY <3>1
  <2> QED BY <1>1, <1>5, <1>7, <2>1, <2>2 DEF SettledRules
<1>9. SettledApps(<<>>) BY DEF SettledApps, AppsOk, IsInjective
<1>10. <<>> \in Seq(Macs) /\ Len(<<>>) = 0 /\ <<>> \in Seq(AppEntries) OBVIOUS
<1>11. "on" \in Postures /\ "allow" \in Words /\ 0 <= MaxDevices BY StateAssumption
<1> QED BY <1>6, <1>7, <1>8, <1>9, <1>10, <1>11 DEF Settled, Tables

\* T[i] is what the first i lines make of the tables of seed.
ReadUp(T, lines) ==
  /\ T \in [0 .. Len(lines) -> Settled] /\ T[0] = Seed
  /\ \A i \in 1 .. Len(lines) : T[i] = LoadLine(T[i - 1], lines[i])
  /\ T[Len(lines)] = Load(lines)

AreLines(lines) == lines \in Seq(Seq(Text)) /\ \A i \in 1 .. Len(lines) : Line(lines[i])

LEMMA Reading ==
  ASSUME NEW lines, AreLines(lines)
  PROVE  \E T : ReadUp(T, lines)
<1> DEFINE n == Len(lines)
           step == [i \in 1 .. n |-> [x \in Settled |-> LoadLine(x, lines[i])]]
           P(f) == f = [i \in 0 .. n |-> IF i = 0 THEN Seed ELSE LoadLine(f[i - 1], lines[i])]
<1>1. n \in Nat BY LenProperties DEF AreLines
<1>2. lines # None BY StateAssumption DEF AreLines
<1>3. Load(lines) = (CHOOSE g : P(g))[n] BY <1>2 DEF Load
<1>4. \A i \in 1 .. n : \A x \in Settled : LoadLine(x, lines[i]) \in Settled
  BY LineSettled DEF AreLines
<1> HIDE DEF n
<1>5. PICK f : Repeats(f, Settled, Seed, n, step)
  <2>1. StaysIn(Settled, n, step) BY <1>4 DEF StaysIn
  <2> HIDE DEF step
  <2> QED BY <1>1, <2>1, SeedSettled, Recursion, Zenon
<1>6. P(f)
  <2>1. ASSUME NEW i \in 1 .. n PROVE f[i] = LoadLine(f[i - 1], lines[i])
    <3>1. i - 1 \in 0 .. n BY <1>1
    <3>2. f[i - 1] \in Settled BY <1>5, <3>1 DEF Repeats
    <3>3. f[i] = step[i][f[i - 1]] BY <1>5 DEF Repeats
    <3> QED BY <3>2, <3>3
  <2>2. f \in [0 .. n -> Settled] /\ f[0] = Seed BY <1>5 DEF Repeats
  <2> QED BY <1>1, <2>1, <2>2
<1>7. P(CHOOSE g : P(g)) BY <1>6, Zenon
<1> DEFINE g == CHOOSE h : P(h)
<1> HIDE DEF g
<1>8. P(g) /\ Load(lines) = g[n] BY <1>3, <1>7 DEF g
<1>9. g[0] = Seed /\ \A i \in 1 .. n : g[i] = LoadLine(g[i - 1], lines[i])
  <2>1. 0 \in 0 .. n /\ \A i \in 1 .. n : i \in 0 .. n /\ i # 0 BY <1>1
  <2>2. \A i \in 0 .. n : g[i] = IF i = 0 THEN Seed ELSE LoadLine(g[i - 1], lines[i]) BY <1>8
  <2> QED BY <2>1, <2>2
<1> DEFINE G == {j \in 0 .. n : g[j] \in Settled}
<1>10. \A i \in 0 .. n : i \in G
  <2>1. 0 \in G
    <3>1. 0 \in 0 .. n BY <1>1
    <3> QED BY <1>9, <3>1, SeedSettled
  <2>2. \A i \in 1 .. n : i - 1 \in G => i \in G BY <1>1, <1>4, <1>9
  <2> HIDE DEF G
  <2> QED BY <1>1, <2>1, <2>2, Upward
<1>11. g \in [0 .. n -> Settled] BY <1>8, <1>10
<1>12. ReadUp(g, lines) BY <1>8, <1>9, <1>11 DEF ReadUp, n
<1> QED BY <1>12

-----------------------------------------------------------------------------
(***************************************************************************)
(* What save_state writes: the posture, the setting, the applications that *)
(* are remembered, the rules, the devices.                                 *)
(***************************************************************************)

\* Tables as they may be in memory.
Whole(m) ==
  /\ m \in Tables /\ AppsOk(m.apps)
  /\ Len(m.rules) <= MaxRules /\ Len(m.devices) <= MaxDevices /\ IsInjective(m.devices)

Kept(m) == Only(m.apps, {a \in ToSet(m.apps) : Remembers(a)})

DeviceLine(d) == <<"device", d>>

\* Where each line is.
Placed(lines, m) ==
  LET a == Len(Kept(m))
      r == Len(m.rules)
      d == Len(m.devices)
  IN /\ Len(lines) = 2 + a + r + d
     /\ lines[1] = <<"posture", m.posture>> /\ lines[2] = <<"setting", m.out>>
     /\ \A i \in 1 .. a : lines[2 + i] = AppLine(Kept(m)[i])
     /\ \A i \in 1 .. r : lines[2 + a + i] = RuleLine(m.rules[i])
     /\ \A i \in 1 .. d : lines[2 + a + r + i] = DeviceLine(m.devices[i])

\* u is s followed by t.
Joins(u, s, t, V) ==
  /\ u \in Seq(V) /\ Len(u) = Len(s) + Len(t)
  /\ \A i \in 1 .. Len(s) : u[i] = s[i]
  /\ \A i \in 1 .. Len(t) : u[Len(s) + i] = t[i]

LEMMA Joined ==
  ASSUME NEW V, NEW s \in Seq(V), NEW t \in Seq(V)
  PROVE  Joins(s \o t, s, t, V)
  BY DEF Joins

LEMMA KeptIs ==
  ASSUME NEW m, m \in Tables
  PROVE  Kept(m) \in Seq(AppEntries) /\ ToSet(Kept(m)) \subseteq ToSet(m.apps)
<1>1. m.apps \in Seq(AppEntries) BY DEF Tables
<1> QED BY <1>1, OnlyElems DEF Kept

\* The lines of the image are lines.
LEMMA LinesOf ==
  /\ \A p \in Postures : Line(<<"posture", p>>)
  /\ \A w \in Words : Line(<<"setting", w>>)
  /\ \A a \in AppEntries : Line(AppLine(a))
  /\ \A r \in RuleEntries : Line(RuleLine(r))
  /\ \A d \in Macs : Line(DeviceLine(d))
<1>1. ASSUME NEW p \in Postures PROVE Line(<<"posture", p>>) BY Zenon DEF Line
<1>2. ASSUME NEW w \in Words PROVE Line(<<"setting", w>>) BY Zenon DEF Line
<1>3. ASSUME NEW a \in AppEntries PROVE Line(AppLine(a))
  <2>1. a.policy \in Words /\ a.name \in AppNames BY DEF AppEntries
  <2> QED BY <2>1, Zenon DEF Line, AppLine
<1>4. ASSUME NEW r \in RuleEntries PROVE Line(RuleLine(r))
  <2>1. r.name \in RuleNames /\ Switch(r.enabled) \in Switches /\ r.action \in RuleActions
    BY SwitchesAre DEF RuleEntries, RuleNames, RuleActions
  <2>2. CASE r.builtin
    <3>1. RuleLine(r) = <<"builtin", r.name, Switch(r.enabled)>> BY <2>2 DEF RuleLine
    <3> QED BY <2>1, <3>1, Zenon DEF Line
  <2>3. CASE ~r.builtin
    <3> DEFINE x == IF r.name = Empty THEN Untitled ELSE r.name
    <3>1. RuleLine(r) = <<"rule", Switch(r.enabled), r.action, x>> BY <2>3 DEF RuleLine
    <3>2. x \in RuleNames \ {Empty} BY <2>1, Texts DEF RuleNames
    <3> HIDE DEF x
    <3> QED BY <2>1, <3>1, <3>2, Zenon DEF Line
  <2> QED BY <2>2, <2>3
<1>5. ASSUME NEW d \in Macs PROVE Line(DeviceLine(d)) BY Zenon DEF Line, DeviceLine
<1> QED BY <1>1, <1>2, <1>3, <1>4, <1>5

LEMMA ImageIs ==
  ASSUME NEW m, m \in Tables
  PROVE  AreLines(Image(m)) /\ Placed(Image(m), m)
<1> DEFINE V == {l \in Seq(Text) : Line(l)}
           a == Kept(m)
           A == Each(a, AppLine)
           R == Each(m.rules, RuleLine)
           D == Each(m.devices, DeviceLine)
           H == <<<<"posture", m.posture>>, <<"setting", m.out>>>>
<1>1. /\ m.posture \in Postures /\ m.out \in Words /\ m.rules \in Seq(RuleEntries)
      /\ m.devices \in Seq(Macs) /\ a \in Seq(AppEntries)
  BY KeptIs DEF Tables
<1>2. Image(m) = H \o A \o R \o D BY DEF Image, Kept, Each, DeviceLine
<1>3. H \in Seq(V) /\ Len(H) = 2 /\ H[1] = <<"posture", m.posture>> /\ H[2] = <<"setting", m.out>>
  <2> DEFINE p == <<"posture", m.posture>>
             w == <<"setting", m.out>>
  <2>1. p \in V /\ w \in V BY <1>1, LinesOf, LineType
  <2> HIDE DEF V, p, w
  <2>2. <<p, w>> \in Seq(V) /\ Len(<<p, w>>) = 2 /\ <<p, w>>[1] = p /\ <<p, w>>[2] = w BY <2>1
  <2> QED BY <2>2 DEF p, w
<1>4. A \in Seq(V) /\ Len(A) = Len(a) /\ \A i \in 1 .. Len(a) : A[i] = AppLine(a[i])
  <2>1. DOMAIN a = 1 .. Len(a) /\ Len(a) \in Nat /\ \A i \in 1 .. Len(a) : a[i] \in AppEntries
    BY <1>1, LenProperties, ElementOfSeq
  <2>2. \A i \in 1 .. Len(a) : AppLine(a[i]) \in V BY <2>1, LinesOf, LineType
  <2> HIDE DEF V, a
  <2>3. A \in [1 .. Len(a) -> V] /\ \A i \in 1 .. Len(a) : A[i] = AppLine(a[i])
    BY <2>1, <2>2 DEF Each
  <2> HIDE DEF A
  <2> QED BY <2>1, <2>3, IsASeq, LenProperties
<1>5. R \in Seq(V) /\ Len(R) = Len(m.rules) /\ \A i \in 1 .. Len(m.rules) : R[i] = RuleLine(m.rules[i])
  <2> DEFINE s == m.rules
  <2>1. DOMAIN s = 1 .. Len(s) /\ Len(s) \in Nat /\ \A i \in 1 .. Len(s) : s[i] \in RuleEntries
    BY <1>1, LenProperties, ElementOfSeq
  <2>2. \A i \in 1 .. Len(s) : RuleLine(s[i]) \in V BY <2>1, LinesOf, LineType
  <2>3. R = [i \in DOMAIN s |-> RuleLine(s[i])] BY DEF Each
  <2> HIDE DEF V, R, s
  <2>4. R \in [1 .. Len(s) -> V] /\ \A i \in 1 .. Len(s) : R[i] = RuleLine(s[i]) BY <2>1, <2>2, <2>3
  <2>5. R \in Seq(V) /\ Len(R) = Len(s) BY <2>1, <2>4, IsASeq, LenProperties
  <2> QED BY <2>4, <2>5 DEF s
<1>6. /\ D \in Seq(V) /\ Len(D) = Len(m.devices)
      /\ \A i \in 1 .. Len(m.devices) : D[i] = DeviceLine(m.devices[i])
  <2> DEFINE s == m.devices
  <2>1. DOMAIN s = 1 .. Len(s) /\ Len(s) \in Nat /\ \A i \in 1 .. Len(s) : s[i] \in Macs
    BY <1>1, LenProperties, ElementOfSeq
  <2>2. \A i \in 1 .. Len(s) : DeviceLine(s[i]) \in V BY <2>1, LinesOf, LineType
  <2>3. D = [i \in DOMAIN s |-> DeviceLine(s[i])] BY DEF Each
  <2> HIDE DEF V, D, s
  <2>4. D \in [1 .. Len(s) -> V] /\ \A i \in 1 .. Len(s) : D[i] = DeviceLine(s[i]) BY <2>1, <2>2, <2>3
  <2>5. D \in Seq(V) /\ Len(D) = Len(s) BY <2>1, <2>4, IsASeq, LenProperties
  <2> QED BY <2>4, <2>5 DEF s
<1> DEFINE na == Len(a)
           nr == Len(m.rules)
           nd == Len(m.devices)
<1>7. na \in Nat /\ nr \in Nat /\ nd \in Nat BY <1>1, LenProperties
<1> HIDE DEF V, H, A, R, D, a, na, nr, nd
<1> DEFINE HA == H \o A
<1>8. /\ HA \in Seq(V) /\ Len(HA) = 2 + na
      /\ \A i \in 1 .. 2 : HA[i] = H[i]
      /\ \A i \in 1 .. na : HA[2 + i] = A[i]
  <2>1. H \in Seq(V) /\ A \in Seq(V) /\ Len(H) = 2 /\ Len(A) = na BY <1>3, <1>4 DEF na
  <2>2. Joins(HA, H, A, V) BY <2>1, Joined, Zenon
  <2> QED BY <2>1, <2>2, Zenon DEF Joins
<1> HIDE DEF HA
<1> DEFINE HAR == HA \o R
<1>9. /\ HAR \in Seq(V) /\ Len(HAR) = 2 + na + nr
      /\ \A i \in 1 .. 2 + na : HAR[i] = HA[i]
      /\ \A i \in 1 .. nr : HAR[2 + na + i] = R[i]
  <2>1. R \in Seq(V) /\ Len(R) = nr /\ HA \in Seq(V) /\ Len(HA) = 2 + na BY <1>5, <1>8 DEF nr
  <2>2. Joins(HAR, HA, R, V) BY <2>1, Joined, Zenon
  <2> QED BY <2>1, <2>2, Zenon DEF Joins
<1> HIDE DEF HAR
<1> DEFINE I == HAR \o D
<1>10. /\ I \in Seq(V) /\ Len(I) = 2 + na + nr + nd
       /\ \A i \in 1 .. 2 + na + nr : I[i] = HAR[i]
       /\ \A i \in 1 .. nd : I[2 + na + nr + i] = D[i]
  <2>1. D \in Seq(V) /\ Len(D) = nd /\ HAR \in Seq(V) /\ Len(HAR) = 2 + na + nr BY <1>6, <1>9 DEF nd
  <2>2. Joins(I, HAR, D, V) BY <2>1, Joined, Zenon
  <2> QED BY <2>1, <2>2, Zenon DEF Joins
<1>11. I = Image(m) BY <1>2 DEF HA, HAR
<1> HIDE DEF I
<1>12. I[1] = H[1] /\ I[2] = H[2] /\ \A i \in 1 .. na : I[2 + i] = A[i] BY <1>7, <1>8, <1>9, <1>10
<1>13. \A i \in 1 .. nr : I[2 + na + i] = R[i] BY <1>7, <1>9, <1>10
<1>14. Placed(I, m) BY <1>3, <1>4, <1>5, <1>6, <1>10, <1>12, <1>13, Zenon DEF Placed, na, nr, nd, a
<1>15. AreLines(I)
  <2>1. \A i \in 1 .. Len(I) : I[i] \in V BY <1>10, ElementOfSeq
  <2>2. I \in Seq(Seq(Text))
    <3>1. V \subseteq Seq(Text) BY DEF V
    <3> QED BY <1>10, <3>1
  <2> QED BY <2>1, <2>2 DEF AreLines, V
<1> QED BY <1>11, <1>14, <1>15

-----------------------------------------------------------------------------
(***************************************************************************)
(* What reading an image makes of the tables, part by part.                *)
(***************************************************************************)

\* What does not change from one number to the next is the same throughout.
LEMMA Constant ==
  ASSUME NEW F, NEW lo \in Nat, NEW k \in Nat, \A i \in 1 .. k : F[lo + i] = F[lo + i - 1]
  PROVE  \A i \in 0 .. k : F[lo + i] = F[lo]
<1> DEFINE G == {i \in 0 .. k : F[lo + i] = F[lo]}
<1>1. 0 \in G OBVIOUS
<1>2. ASSUME NEW i \in 1 .. k, i - 1 \in G PROVE i \in G
  <2>1. F[lo + (i - 1)] = F[lo] BY <1>2
  <2>2. lo + (i - 1) = lo + i - 1 OBVIOUS
  <2> QED BY <2>1, <2>2
<1> HIDE DEF G
<1>3. \A i \in 0 .. k : i \in G BY <1>1, <1>2, Upward
<1> QED BY <1>3 DEF G

\* What the line of a rule makes of the rules.
UserOf(q) == [q EXCEPT !.name = IF q.name = Empty THEN Untitled ELSE q.name]

ReadRule(rules, q) ==
  IF q.builtin
  THEN IF q.name = Empty THEN rules ELSE LoadBuiltin(rules, q.name, q.enabled)
  ELSE IF q.action # Empty /\ Len(rules) < MaxRules THEN Append(rules, UserOf(q)) ELSE rules

SameHead(y, x) == y.posture = x.posture /\ y.out = x.out

LEMMA RuleLineIs ==
  ASSUME NEW x \in Settled, NEW q \in RuleEntries
  PROVE  LoadLine(x, RuleLine(q)) = [x EXCEPT !.rules = ReadRule(x.rules, q)]
<1> DEFINE e == Switch(q.enabled)
<1>1. q.name \in RuleNames /\ e \in Switches /\ q.action \in RuleActions /\ (e = "1") = q.enabled
  BY SwitchesAre DEF RuleEntries, RuleNames, RuleActions
<1>2. [x EXCEPT !.rules = x.rules] = x BY DEF Settled, Tables
<1>3. CASE q.builtin
  <2>1. RuleLine(q) = <<"builtin", q.name, e>> BY <1>3 DEF RuleLine
  <2> HIDE DEF e
  <2>2. /\ q.name = Empty => LoadLine(x, <<"builtin", q.name, e>>) = x
        /\ q.name # Empty => LoadLine(x, <<"builtin", q.name, e>>) =
                              [x EXCEPT !.rules = LoadBuiltin(x.rules, q.name, e = "1")]
    BY <1>1, BuiltinLineRead
  <2>3. CASE q.name = Empty
    <3>1. ReadRule(x.rules, q) = x.rules BY <1>3, <2>3 DEF ReadRule
    <3> QED BY <1>2, <2>1, <2>2, <2>3, <3>1, Zenon
  <2>4. CASE q.name # Empty
    <3>1. ReadRule(x.rules, q) = LoadBuiltin(x.rules, q.name, q.enabled) BY <1>3, <2>4 DEF ReadRule
    <3> QED BY <1>1, <2>1, <2>2, <2>4, <3>1, Zenon
  <2> QED BY <2>3, <2>4
<1>4. CASE ~q.builtin
  <2> DEFINE n == IF q.name = Empty THEN Untitled ELSE q.name
  <2>1. RuleLine(q) = <<"rule", e, q.action, n>> BY <1>4 DEF RuleLine
  <2>2. n \in RuleNames \ {Empty} BY <1>1, Texts DEF RuleNames
  <2>3. UserRule(e, q.action, n) = UserOf(q)
    <3>1. UserRule(e, q.action, n) = [name |-> n, action |-> q.action, enabled |-> q.enabled, builtin |-> FALSE]
      BY <1>1, Zenon DEF UserRule
    <3>2. UserOf(q) = [q EXCEPT !.name = n] BY DEF UserOf
    <3>3. q \in RuleEntries /\ n \in RuleNames /\ q.builtin = FALSE BY <1>4, <2>2 DEF RuleEntries
    <3> HIDE DEF n, e
    <3> DEFINE u == [q EXCEPT !.name = n]
    <3>4. u \in RuleEntries BY <3>3 DEF RuleEntries, RuleNames
    <3>5. u.name = n /\ u.action = q.action /\ u.enabled = q.enabled /\ u.builtin = FALSE
      BY <3>3 DEF RuleEntries
    <3> HIDE DEF u
    <3>6. u = [name |-> u.name, action |-> u.action, enabled |-> u.enabled, builtin |-> u.builtin]
      BY <3>4 DEF RuleEntries
    <3>7. u = UserOf(q) BY <3>2 DEF u
    <3> QED BY <3>1, <3>5, <3>6, <3>7
  <2> HIDE DEF e, n
  <2>4. /\ q.action = Empty => LoadLine(x, <<"rule", e, q.action, n>>) = x
        /\ q.action # Empty => LoadLine(x, <<"rule", e, q.action, n>>) =
                                [x EXCEPT !.rules = LoadRule(x.rules, <<"rule", e, q.action, n>>)]
    BY <1>1, <2>2, RuleLineRead
  <2>5. LoadRule(x.rules, <<"rule", e, q.action, n>>) =
          IF Len(x.rules) < MaxRules THEN Append(x.rules, UserRule(e, q.action, n)) ELSE x.rules
    BY DEF LoadRule, UserRule
  <2>6. CASE q.action = Empty
    <3>1. ReadRule(x.rules, q) = x.rules BY <1>4, <2>6 DEF ReadRule
    <3> QED BY <1>2, <2>1, <2>4, <2>6, <3>1, Zenon
  <2>7. CASE q.action # Empty
    <3>1. ReadRule(x.rules, q) = LoadRule(x.rules, <<"rule", e, q.action, n>>)
      BY <1>4, <2>3, <2>5, <2>7, Zenon DEF ReadRule
    <3> QED BY <2>1, <2>4, <2>7, <3>1, Zenon
  <2> QED BY <2>6, <2>7
<1> QED BY <1>3, <1>4

\* How the tables go on while the image of m is read.
Steps(T, m) ==
  LET a == Len(Kept(m))
      r == Len(m.rules)
      d == Len(m.devices)
      keeps(y, x) == y.apps = x.apps /\ y.rules = x.rules /\ y.devices = x.devices
  IN /\ T[1].posture = m.posture /\ T[1].out = T[0].out /\ keeps(T[1], T[0])
     /\ T[2].posture = T[1].posture /\ T[2].out = m.out /\ keeps(T[2], T[1])
     /\ \A i \in 1 .. a :
          /\ SameHead(T[2 + i], T[2 + i - 1])
          /\ T[2 + i].rules = T[2 + i - 1].rules /\ T[2 + i].devices = T[2 + i - 1].devices
          /\ T[2 + i].apps = PutApp(T[2 + i - 1].apps, Kept(m)[i].name, Kept(m)[i].policy)
     /\ \A i \in 1 .. r :
          /\ SameHead(T[2 + a + i], T[2 + a + i - 1])
          /\ T[2 + a + i].apps = T[2 + a + i - 1].apps
          /\ T[2 + a + i].devices = T[2 + a + i - 1].devices
          /\ T[2 + a + i].rules = ReadRule(T[2 + a + i - 1].rules, m.rules[i])
     /\ \A i \in 1 .. d :
          /\ SameHead(T[2 + a + r + i], T[2 + a + r + i - 1])
          /\ T[2 + a + r + i].apps = T[2 + a + r + i - 1].apps
          /\ T[2 + a + r + i].rules = T[2 + a + r + i - 1].rules
          /\ T[2 + a + r + i].devices =
               IF Len(T[2 + a + r + i - 1].devices) < MaxDevices
               THEN Append(T[2 + a + r + i - 1].devices, m.devices[i])
               ELSE T[2 + a + r + i - 1].devices

LEMMA StepsAre ==
  ASSUME NEW m, m \in Tables, NEW T, ReadUp(T, Image(m))
  PROVE  Steps(T, m)
<1> DEFINE I == Image(m)
           k == Kept(m)
           a == Len(k)
           r == Len(m.rules)
           d == Len(m.devices)
           n == Len(I)
<1>1. /\ m.posture \in Postures /\ m.out \in Words /\ m.rules \in Seq(RuleEntries)
      /\ m.devices \in Seq(Macs) /\ k \in Seq(AppEntries)
  BY KeptIs DEF Tables
<1>2. a \in Nat /\ r \in Nat /\ d \in Nat BY <1>1, LenProperties
<1>3. Placed(I, m) BY ImageIs
<1>4. n = 2 + a + r + d BY <1>3 DEF Placed
<1>5. /\ I[1] = <<"posture", m.posture>> /\ I[2] = <<"setting", m.out>>
      /\ \A i \in 1 .. a : I[2 + i] = AppLine(k[i])
      /\ \A i \in 1 .. r : I[2 + a + i] = RuleLine(m.rules[i])
      /\ \A i \in 1 .. d : I[2 + a + r + i] = DeviceLine(m.devices[i])
  BY <1>3, Zenon DEF Placed
<1>6. \A i \in 0 .. n : T[i] \in Settled BY DEF ReadUp
<1>7. \A i \in 1 .. n : T[i] = LoadLine(T[i - 1], I[i]) BY DEF ReadUp
<1>8. /\ \A i \in 1 .. a : k[i] \in AppEntries
      /\ \A i \in 1 .. r : m.rules[i] \in RuleEntries
      /\ \A i \in 1 .. d : m.devices[i] \in Macs
  BY <1>1, ElementOfSeq
<1> DEFINE keeps(y, x) == y.apps = x.apps /\ y.rules = x.rules /\ y.devices = x.devices
<1> HIDE DEF I, k, a, r, d, n
<1>9. T[1].posture = m.posture /\ T[1].out = T[0].out /\ keeps(T[1], T[0])
  <2>1. 1 \in 1 .. n /\ 1 - 1 = 0 /\ 0 \in 0 .. n BY <1>2, <1>4
  <2>2. T[1] = LoadLine(T[0], <<"posture", m.posture>>) /\ T[0] \in Settled
    BY <1>5, <1>6, <1>7, <2>1
  <2>3. T[1] = [T[0] EXCEPT !.posture = m.posture] BY <1>1, <2>2, PostureLine
  <2> QED BY <2>2, <2>3 DEF Settled, Tables
<1>10. T[2].posture = T[1].posture /\ T[2].out = m.out /\ keeps(T[2], T[1])
  <2>1. 2 \in 1 .. n /\ 2 - 1 = 1 /\ 1 \in 0 .. n BY <1>2, <1>4
  <2>2. T[2] = LoadLine(T[1], <<"setting", m.out>>) /\ T[1] \in Settled
    BY <1>5, <1>6, <1>7, <2>1
  <2>3. T[2] = [T[1] EXCEPT !.out = m.out] BY <1>1, <2>2, SettingLine
  <2> QED BY <2>2, <2>3 DEF Settled, Tables
<1>11. ASSUME NEW i \in 1 .. a
       PROVE  /\ SameHead(T[2 + i], T[2 + i - 1])
              /\ T[2 + i].rules = T[2 + i - 1].rules /\ T[2 + i].devices = T[2 + i - 1].devices
              /\ T[2 + i].apps = PutApp(T[2 + i - 1].apps, k[i].name, k[i].policy)
  <2> DEFINE x == T[2 + i - 1]
             s == PutApp(x.apps, k[i].name, k[i].policy)
  <2>1. 2 + i \in 1 .. n /\ 2 + i - 1 \in 0 .. n BY <1>2, <1>4
  <2>2. T[2 + i] = LoadLine(x, AppLine(k[i])) /\ x \in Settled BY <1>2, <1>5, <1>6, <1>7, <2>1
  <2>3. k[i].policy \in Words /\ k[i].name \in AppNames BY <1>8 DEF AppEntries
  <2> HIDE DEF x
  <2>4. T[2 + i] = [x EXCEPT !.apps = s] BY <2>2, <2>3, AppLineRead DEF AppLine
  <2> HIDE DEF s
  <2>5. SameHead(T[2 + i], x) /\ T[2 + i].rules = x.rules /\ T[2 + i].devices = x.devices /\ T[2 + i].apps = s
    BY <2>2, <2>4 DEF Settled, Tables, SameHead
  <2> QED BY <2>5 DEF x, s
<1>12. ASSUME NEW i \in 1 .. r
       PROVE  /\ SameHead(T[2 + a + i], T[2 + a + i - 1])
              /\ T[2 + a + i].apps = T[2 + a + i - 1].apps
              /\ T[2 + a + i].devices = T[2 + a + i - 1].devices
              /\ T[2 + a + i].rules = ReadRule(T[2 + a + i - 1].rules, m.rules[i])
  <2> DEFINE x == T[2 + a + i - 1]
             s == ReadRule(x.rules, m.rules[i])
  <2>1. 2 + a + i \in 1 .. n /\ 2 + a + i - 1 \in 0 .. n BY <1>2, <1>4
  <2>2. T[2 + a + i] = LoadLine(x, RuleLine(m.rules[i])) /\ x \in Settled BY <1>2, <1>5, <1>6, <1>7, <2>1
  <2> HIDE DEF x
  <2>3. T[2 + a + i] = [x EXCEPT !.rules = s] BY <1>8, <2>2, RuleLineIs
  <2> HIDE DEF s
  <2>4. /\ SameHead(T[2 + a + i], x) /\ T[2 + a + i].apps = x.apps
        /\ T[2 + a + i].devices = x.devices /\ T[2 + a + i].rules = s
    BY <2>2, <2>3 DEF Settled, Tables, SameHead
  <2> QED BY <2>4 DEF x, s
<1>13. ASSUME NEW i \in 1 .. d
       PROVE  /\ SameHead(T[2 + a + r + i], T[2 + a + r + i - 1])
              /\ T[2 + a + r + i].apps = T[2 + a + r + i - 1].apps
              /\ T[2 + a + r + i].rules = T[2 + a + r + i - 1].rules
              /\ T[2 + a + r + i].devices =
                   IF Len(T[2 + a + r + i - 1].devices) < MaxDevices
                   THEN Append(T[2 + a + r + i - 1].devices, m.devices[i])
                   ELSE T[2 + a + r + i - 1].devices
  <2> DEFINE x == T[2 + a + r + i - 1]
             y == T[2 + a + r + i]
             s == Append(x.devices, m.devices[i])
  <2>1. 2 + a + r + i \in 1 .. n /\ 2 + a + r + i - 1 \in 0 .. n BY <1>2, <1>4
  <2>2. y = LoadLine(x, DeviceLine(m.devices[i])) /\ x \in Settled BY <1>2, <1>5, <1>6, <1>7, <2>1
  <2>3. m.devices[i] \in Macs BY <1>8
  <2> HIDE DEF x, y
  <2>4. y = IF Len(x.devices) < MaxDevices THEN [x EXCEPT !.devices = s] ELSE x
    BY <2>2, <2>3, DeviceLineRead DEF DeviceLine
  <2> HIDE DEF s
  <2>5. CASE Len(x.devices) < MaxDevices
    <3>1. y = [x EXCEPT !.devices = s] BY <2>4, <2>5, Zenon
    <3>2. SameHead(y, x) /\ y.apps = x.apps /\ y.rules = x.rules /\ y.devices = s
      BY <2>2, <3>1 DEF Settled, Tables, SameHead
    <3> QED BY <2>5, <3>2 DEF x, y, s
  <2>6. CASE ~(Len(x.devices) < MaxDevices)
    <3>1. y = x BY <2>4, <2>6, Zenon
    <3> QED BY <2>6, <3>1 DEF x, y, s, SameHead
  <2> QED BY <2>5, <2>6
<1> QED BY <1>9, <1>10, <1>11, <1>12, <1>13, Zenon DEF Steps, a, r, d, k

\* The parts that the lines of another part leave alone.
Parts(T, m) ==
  LET a == Len(Kept(m))
      r == Len(m.rules)
      d == Len(m.devices)
  IN /\ Reads(m).posture = m.posture /\ Reads(m).out = m.out
     /\ T[2].apps = <<>> /\ Reads(m).apps = T[2 + a].apps
     /\ T[2 + a].rules = Seed.rules /\ Reads(m).rules = T[2 + a + r].rules
     /\ T[2 + a + r].devices = <<>> /\ Reads(m).devices = T[2 + a + r + d].devices

LEMMA PartsAre ==
  ASSUME NEW m, m \in Tables, NEW T, ReadUp(T, Image(m))
  PROVE  Parts(T, m)
<1> DEFINE k == Kept(m)
           a == Len(k)
           r == Len(m.rules)
           d == Len(m.devices)
           n == Len(Image(m))
<1>1. m.rules \in Seq(RuleEntries) /\ m.devices \in Seq(Macs) /\ k \in Seq(AppEntries)
  BY KeptIs DEF Tables
<1>2. a \in Nat /\ r \in Nat /\ d \in Nat BY <1>1, LenProperties
<1>3. n = 2 + a + r + d BY ImageIs DEF Placed
<1>4. T[0] = Seed /\ T[n] = Reads(m) BY DEF ReadUp, Reads
<1>5. Steps(T, m) BY StepsAre
<1> HIDE DEF k, a, r, d, n
<1> DEFINE keeps(y, x) == y.apps = x.apps /\ y.rules = x.rules /\ y.devices = x.devices
<1>6. T[1].posture = m.posture /\ T[2].posture = T[1].posture /\ T[2].out = m.out
  BY <1>5, Zenon DEF Steps
<1>7. keeps(T[1], T[0]) /\ keeps(T[2], T[1]) BY <1>5, Zenon DEF Steps
<1>8. \A i \in 1 .. a :
        /\ SameHead(T[2 + i], T[2 + i - 1])
        /\ T[2 + i].rules = T[2 + i - 1].rules /\ T[2 + i].devices = T[2 + i - 1].devices
  BY <1>5, Zenon DEF Steps, a, k
<1>9. \A i \in 1 .. r :
        /\ SameHead(T[2 + a + i], T[2 + a + i - 1])
        /\ T[2 + a + i].apps = T[2 + a + i - 1].apps
        /\ T[2 + a + i].devices = T[2 + a + i - 1].devices
  BY <1>5, Zenon DEF Steps, a, k, r
<1>10. \A i \in 1 .. d :
        /\ SameHead(T[2 + a + r + i], T[2 + a + r + i - 1])
        /\ T[2 + a + r + i].apps = T[2 + a + r + i - 1].apps
        /\ T[2 + a + r + i].rules = T[2 + a + r + i - 1].rules
  BY <1>5, Zenon DEF Steps, a, k, r, d
<1>11. /\ \A i \in 0 .. 2 + a + r + d : i \in 0 .. n
       /\ \A i \in 1 .. a : 2 + i \in 0 .. n /\ 2 + i - 1 \in 0 .. n
       /\ \A i \in 1 .. r : 2 + a + i \in 0 .. n /\ 2 + a + i - 1 \in 0 .. n
       /\ \A i \in 1 .. d : 2 + a + r + i \in 0 .. n /\ 2 + a + r + i - 1 \in 0 .. n
       /\ 2 \in 0 .. n /\ 2 + a \in 0 .. n /\ 2 + a + r \in 0 .. n /\ n \in 0 .. n
  BY <1>2, <1>3
<1>12. /\ 2 + a \in Nat /\ 2 + a + r \in Nat /\ 2 \in Nat
       /\ a \in 0 .. a /\ r \in 0 .. r /\ d \in 0 .. d
  BY <1>2
<1>13. Reads(m).posture = m.posture
  <2> DEFINE F == [i \in 0 .. n |-> T[i].posture]
  <2>1. \A i \in 1 .. a : F[2 + i] = F[2 + i - 1] BY <1>8, <1>11 DEF SameHead
  <2>2. \A i \in 1 .. r : F[2 + a + i] = F[2 + a + i - 1] BY <1>9, <1>11 DEF SameHead
  <2>3. \A i \in 1 .. d : F[2 + a + r + i] = F[2 + a + r + i - 1] BY <1>10, <1>11 DEF SameHead
  <2>4. F[2] = m.posture /\ F[n] = Reads(m).posture BY <1>4, <1>6, <1>11
  <2> HIDE DEF F
  <2>5. F[2 + a] = F[2] BY <1>2, <1>12, <2>1, Constant
  <2>6. F[2 + a + r] = F[2 + a] BY <1>2, <1>12, <2>2, Constant
  <2>7. F[2 + a + r + d] = F[2 + a + r] BY <1>2, <1>12, <2>3, Constant
  <2> QED BY <1>3, <2>4, <2>5, <2>6, <2>7
<1>14. Reads(m).out = m.out
  <2> DEFINE F == [i \in 0 .. n |-> T[i].out]
  <2>1. \A i \in 1 .. a : F[2 + i] = F[2 + i - 1] BY <1>8, <1>11 DEF SameHead
  <2>2. \A i \in 1 .. r : F[2 + a + i] = F[2 + a + i - 1] BY <1>9, <1>11 DEF SameHead
  <2>3. \A i \in 1 .. d : F[2 + a + r + i] = F[2 + a + r + i - 1] BY <1>10, <1>11 DEF SameHead
  <2>4. F[2] = m.out /\ F[n] = Reads(m).out BY <1>4, <1>6, <1>11
  <2> HIDE DEF F
  <2>5. F[2 + a] = F[2] BY <1>2, <1>12, <2>1, Constant
  <2>6. F[2 + a + r] = F[2 + a] BY <1>2, <1>12, <2>2, Constant
  <2>7. F[2 + a + r + d] = F[2 + a + r] BY <1>2, <1>12, <2>3, Constant
  <2> QED BY <1>3, <2>4, <2>5, <2>6, <2>7
<1>15. T[2].apps = <<>> /\ Reads(m).apps = T[2 + a].apps
  <2> DEFINE F == [i \in 0 .. n |-> T[i].apps]
  <2>1. \A i \in 1 .. r : F[2 + a + i] = F[2 + a + i - 1] BY <1>9, <1>11
  <2>2. \A i \in 1 .. d : F[2 + a + r + i] = F[2 + a + r + i - 1] BY <1>10, <1>11
  <2>3. F[2 + a] = T[2 + a].apps /\ F[n] = Reads(m).apps BY <1>4, <1>11
  <2> HIDE DEF F
  <2>4. F[2 + a + r] = F[2 + a] BY <1>2, <1>12, <2>1, Constant
  <2>5. F[2 + a + r + d] = F[2 + a + r] BY <1>2, <1>12, <2>2, Constant
  <2>6. T[2].apps = <<>> BY <1>4, <1>7 DEF Seed
  <2> QED BY <1>3, <2>3, <2>4, <2>5, <2>6
<1>16. T[2 + a].rules = Seed.rules /\ Reads(m).rules = T[2 + a + r].rules
  <2> DEFINE F == [i \in 0 .. n |-> T[i].rules]
  <2>1. \A i \in 1 .. a : F[2 + i] = F[2 + i - 1] BY <1>8, <1>11
  <2>2. \A i \in 1 .. d : F[2 + a + r + i] = F[2 + a + r + i - 1] BY <1>10, <1>11
  <2>3. /\ F[2] = T[2].rules /\ F[2 + a] = T[2 + a].rules
        /\ F[2 + a + r] = T[2 + a + r].rules /\ F[n] = Reads(m).rules
    BY <1>4, <1>11
  <2> HIDE DEF F
  <2>4. F[2 + a] = F[2] BY <1>2, <1>12, <2>1, Constant
  <2>5. F[2 + a + r + d] = F[2 + a + r] BY <1>2, <1>12, <2>2, Constant
  <2>6. T[2].rules = Seed.rules BY <1>4, <1>7
  <2> QED BY <1>3, <2>3, <2>4, <2>5, <2>6
<1>17. T[2 + a + r].devices = <<>> /\ Reads(m).devices = T[2 + a + r + d].devices
  <2> DEFINE F == [i \in 0 .. n |-> T[i].devices]
  <2>1. \A i \in 1 .. a : F[2 + i] = F[2 + i - 1] BY <1>8, <1>11
  <2>2. \A i \in 1 .. r : F[2 + a + i] = F[2 + a + i - 1] BY <1>9, <1>11
  <2>3. F[2] = T[2].devices /\ F[2 + a + r] = T[2 + a + r].devices BY <1>11
  <2> HIDE DEF F
  <2>4. F[2 + a] = F[2] BY <1>2, <1>12, <2>1, Constant
  <2>5. F[2 + a + r] = F[2 + a] BY <1>2, <1>12, <2>2, Constant
  <2>6. T[2].devices = <<>> BY <1>4, <1>7, SeedSettled
  <2> QED BY <1>3, <1>4, <2>3, <2>4, <2>5, <2>6
<1> QED BY <1>13, <1>14, <1>15, <1>16, <1>17, Zenon DEF Parts, a, k, r, d

\* What is distinct by name stays so when some is left out.
LEMMA OnlyDistinct ==
  ASSUME NEW V, NEW s \in Seq(V), NEW S, IsInjective([i \in DOMAIN s |-> s[i].name])
  PROVE  IsInjective([i \in DOMAIN Only(s, S) |-> Only(s, S)[i].name])
<1> DEFINE n == Len(s)
<1>1. n \in Nat /\ DOMAIN s = 1 .. n BY LenProperties
<1>2. PICK f \in [0 .. n -> Seq(V)] : Sifts(f, s, S) BY OnlyIs
<1>3. \A j, k \in 1 .. n : s[j].name = s[k].name => j = k BY <1>1 DEF IsInjective
<1> DEFINE From(g, i) == \A j \in 1 .. Len(g) : \E k \in 1 .. i : g[j] = s[k]
           Once(g) == \A j, l \in 1 .. Len(g) : g[j].name = g[l].name => j = l
           G == {i \in 0 .. n : From(f[i], i) /\ Once(f[i])}
<1>4. 0 \in G
  <2>1. f[0] = <<>> /\ 0 \in 0 .. n BY <1>1, <1>2 DEF Sifts
  <2> QED BY <2>1
<1>5. ASSUME NEW i \in 1 .. n, i - 1 \in G PROVE i \in G
  <2> DEFINE h == f[i - 1]
             g == f[i]
             p == Len(h)
  <2>1. h \in Seq(V) /\ i \in 0 .. n /\ s[i] \in V BY <1>1, <1>2, ElementOfSeq
  <2>2. p \in Nat BY <2>1, LenProperties
  <2>3. g = IF s[i] \in S THEN Append(h, s[i]) ELSE h BY <1>2 DEF Sifts
  <2>4. From(h, i - 1) /\ Once(h) BY <1>5
  <2>5. \A k \in 1 .. i - 1 : k \in 1 .. i /\ k \in 1 .. n /\ k # i BY <1>1
  <2>6. CASE s[i] \in S
    <3>1. g = Append(h, s[i]) BY <2>3, <2>6
    <3>2. Len(g) = p + 1 /\ (\A j \in 1 .. p : g[j] = h[j]) /\ g[p + 1] = s[i] BY <2>1, <3>1
    <3> HIDE DEF g, h, p
    <3>3. \A j \in 1 .. p + 1 : j \in 1 .. p \/ j = p + 1 BY <2>2
    <3>4. From(g, i)
      <4>1. ASSUME NEW j \in 1 .. p PROVE \E k \in 1 .. i : g[j] = s[k]
        <5>1. PICK k \in 1 .. i - 1 : h[j] = s[k] BY <2>4 DEF p
        <5> QED BY <2>5, <3>2, <5>1
      <4>2. i \in 1 .. i BY <1>1
      <4> QED BY <3>2, <3>3, <4>1, <4>2
    <3>5. Once(g)
      <4>1. ASSUME NEW j \in 1 .. p PROVE g[j].name # s[i].name
        <5>1. PICK k \in 1 .. i - 1 : h[j] = s[k] BY <2>4 DEF p
        <5> QED BY <1>3, <2>5, <3>2, <5>1
      <4>2. \A j, l \in 1 .. p : g[j].name = g[l].name => j = l BY <2>4, <3>2 DEF p
      <4> QED BY <3>2, <3>3, <4>1, <4>2
    <3> QED BY <2>1, <3>4, <3>5 DEF g
  <2>7. CASE s[i] \notin S
    <3>1. g = h BY <2>3, <2>7
    <3>2. From(h, i) BY <2>4, <2>5
    <3> QED BY <2>1, <2>4, <3>1, <3>2
  <2> QED BY <2>6, <2>7
<1>6. n \in G
  <2> HIDE DEF G
  <2>1. \A i \in 0 .. n : i \in G BY <1>1, <1>4, <1>5, Upward
  <2> QED BY <1>1, <2>1
<1>7. f[n] = Only(s, S) /\ f[n] \in Seq(V) BY <1>1, <1>2 DEF Sifts
<1>8. DOMAIN Only(s, S) = 1 .. Len(Only(s, S)) BY <1>7, LenProperties
<1> QED BY <1>6, <1>7, <1>8 DEF IsInjective

\* Two sequences of one length with the same members are one.
LEMMA Alike ==
  ASSUME NEW V, NEW W, NEW s \in Seq(V), NEW t \in Seq(W), Len(s) = Len(t),
         \A i \in 1 .. Len(s) : s[i] = t[i]
  PROVE  s = t
  BY SeqEqual

Decided(e) == [e EXCEPT !.pinned = TRUE]

\* The applications that were remembered, each with its policy.
LEMMA AppsRead ==
  ASSUME NEW m, m \in Tables, AppsOk(m.apps)
  PROVE  /\ Reads(m).apps \in Seq(AppEntries) /\ Len(Reads(m).apps) = Len(Kept(m))
         /\ \A i \in 1 .. Len(Kept(m)) : Reads(m).apps[i] = Decided(Kept(m)[i])
<1> DEFINE k == Kept(m)
           a == Len(k)
<1>1. k \in Seq(AppEntries) BY KeptIs
<1>2. a \in Nat /\ \A i \in 1 .. a : k[i] \in AppEntries BY <1>1, LenProperties, ElementOfSeq
<1>3. PICK T : ReadUp(T, Image(m)) BY ImageIs, Reading
<1>4. Parts(T, m) /\ Steps(T, m) BY <1>3, PartsAre, StepsAre
<1>5. T[2].apps = <<>> /\ Reads(m).apps = T[2 + a].apps BY <1>4, Zenon DEF Parts
<1>6. \A i \in 1 .. a : T[2 + i].apps = PutApp(T[2 + i - 1].apps, k[i].name, k[i].policy)
  BY <1>4, Zenon DEF Steps
<1>7. \A i, j \in 1 .. a : k[i].name = k[j].name => i = j
  <2>1. m.apps \in Seq(AppEntries) BY DEF Tables
  <2>2. IsInjective([i \in DOMAIN k |-> k[i].name]) BY <2>1, OnlyDistinct DEF Kept, AppsOk
  <2>3. DOMAIN k = 1 .. a BY <1>1, LenProperties
  <2> HIDE DEF k
  <2> QED BY <2>2, <2>3 DEF IsInjective
<1> HIDE DEF k, a
<1> DEFINE Ok(s, i) == /\ s \in Seq(AppEntries) /\ Len(s) = i
                       /\ \A j \in 1 .. i : s[j] = Decided(k[j])
           G == {i \in 0 .. a : Ok(T[2 + i].apps, i)}
<1>8. 0 \in G
  <2>1. Ok(<<>>, 0) OBVIOUS
  <2>2. 2 + 0 = 2 /\ 0 \in 0 .. a BY <1>2
  <2> HIDE DEF Ok
  <2>3. Ok(T[2 + 0].apps, 0) BY <1>5, <2>1, <2>2, Zenon
  <2> QED BY <2>2, <2>3
<1>9. ASSUME NEW i \in 1 .. a, i - 1 \in G PROVE i \in G
  <2> DEFINE s == T[2 + i - 1].apps
             e == [name |-> k[i].name, policy |-> k[i].policy, pinned |-> TRUE]
  <2>1. 2 + i - 1 = 2 + (i - 1) /\ i \in 0 .. a /\ i - 1 \in Nat BY <1>2
  <2>2. Ok(s, i - 1) BY <1>9, <2>1
  <2>3. /\ \A j \in 1 .. i - 1 : j \in 1 .. a /\ j # i
        /\ \A j \in 1 .. i : j \in 1 .. i - 1 \/ j = i
    BY <1>2
  <2>4. k[i] \in AppEntries BY <1>2
  <2>5. e = Decided(k[i]) /\ e \in AppEntries
    <3> DEFINE u == Decided(k[i])
    <3>1. u \in AppEntries /\ u.name = k[i].name /\ u.policy = k[i].policy /\ u.pinned = TRUE
      BY <2>4 DEF Decided, AppEntries
    <3> HIDE DEF u
    <3>2. u = [name |-> u.name, policy |-> u.policy, pinned |-> u.pinned] BY <3>1 DEF AppEntries
    <3> QED BY <3>1, <3>2 DEF u
  <2>6. T[2 + i].apps = PutApp(s, k[i].name, k[i].policy) BY <1>6
  <2> HIDE DEF s
  <2>7. DOMAIN s = 1 .. i - 1 BY <2>2, LenProperties
  <2>8. ~\E j \in DOMAIN s : s[j].name = k[i].name
    <3>1. ASSUME NEW j \in 1 .. i - 1 PROVE s[j].name # k[i].name
      <4>1. s[j] = Decided(k[j]) /\ k[j] \in AppEntries BY <1>2, <2>2, <2>3
      <4>2. s[j].name = k[j].name BY <4>1 DEF Decided, AppEntries
      <4> QED BY <1>7, <2>3, <4>2
    <3> QED BY <2>7, <3>1
  <2>9. T[2 + i].apps = Append(s, e) BY <2>6, <2>8, Zenon DEF PutApp
  <2> HIDE DEF e
  <2>10. /\ Append(s, e) \in Seq(AppEntries) /\ Len(Append(s, e)) = i
         /\ (\A j \in 1 .. i - 1 : Append(s, e)[j] = s[j]) /\ Append(s, e)[i] = e
    BY <2>1, <2>2, <2>5
  <2>11. Ok(Append(s, e), i)
    <3>1. ASSUME NEW j \in 1 .. i PROVE Append(s, e)[j] = Decided(k[j])
      <4>1. CASE j = i BY <2>5, <2>10, <4>1
      <4>2. CASE j \in 1 .. i - 1 BY <2>2, <2>10, <4>2
      <4> QED BY <2>3, <4>1, <4>2
    <3> QED BY <2>10, <3>1
  <2> QED BY <2>1, <2>9, <2>11
<1>10. a \in G
  <2> HIDE DEF G
  <2>1. \A i \in 0 .. a : i \in G BY <1>2, <1>8, <1>9, Upward
  <2> QED BY <1>2, <2>1
<1> QED BY <1>5, <1>10 DEF a, k

\* The devices come back as they were.
LEMMA DevicesRead ==
  ASSUME NEW m, m \in Tables, Len(m.devices) <= MaxDevices
  PROVE  Reads(m).devices = m.devices
<1> DEFINE lo == 2 + Len(Kept(m)) + Len(m.rules)
           v == m.devices
           d == Len(v)
<1>1. v \in Seq(Macs) BY DEF Tables
<1>2. d \in Nat /\ \A i \in 1 .. d : v[i] \in Macs BY <1>1, LenProperties, ElementOfSeq
<1>3. PICK T : ReadUp(T, Image(m)) BY ImageIs, Reading
<1>4. Parts(T, m) /\ Steps(T, m) BY <1>3, PartsAre, StepsAre
<1>5. T[lo].devices = <<>> /\ Reads(m).devices = T[lo + d].devices BY <1>4, Zenon DEF Parts
<1>6. \A i \in 1 .. d : T[lo + i].devices =
        IF Len(T[lo + i - 1].devices) < MaxDevices
        THEN Append(T[lo + i - 1].devices, v[i]) ELSE T[lo + i - 1].devices
  BY <1>4, Zenon DEF Steps
<1>7. lo \in Nat
  <2>1. m.rules \in Seq(RuleEntries) /\ Kept(m) \in Seq(AppEntries) BY KeptIs DEF Tables
  <2> DEFINE x == Len(Kept(m))
             y == Len(m.rules)
  <2>2. x \in Nat /\ y \in Nat BY <2>1, LenProperties
  <2>3. lo = 2 + x + y OBVIOUS
  <2> HIDE DEF x, y, lo
  <2> QED BY <2>2, <2>3
<1>8. MaxDevices \in Nat BY StateAssumption
<1>9. d <= MaxDevices OBVIOUS
<1> HIDE DEF lo, v, d
<1> DEFINE Ok(s, i) == s \in Seq(Macs) /\ Len(s) = i /\ \A j \in 1 .. i : s[j] = v[j]
           G == {i \in 0 .. d : Ok(T[lo + i].devices, i)}
<1>10. 0 \in G
  <2>1. Ok(<<>>, 0) OBVIOUS
  <2>2. lo + 0 = lo /\ 0 \in 0 .. d BY <1>2, <1>7
  <2> HIDE DEF Ok
  <2>3. Ok(T[lo + 0].devices, 0) BY <1>5, <2>1, <2>2, Zenon
  <2> QED BY <2>2, <2>3
<1>11. ASSUME NEW i \in 1 .. d, i - 1 \in G PROVE i \in G
  <2> DEFINE s == T[lo + i - 1].devices
  <2>1. lo + i - 1 = lo + (i - 1) /\ i \in 0 .. d /\ i - 1 \in Nat /\ i - 1 < MaxDevices
    BY <1>2, <1>7, <1>8, <1>9
  <2>2. Ok(s, i - 1) BY <1>11, <2>1
  <2>3. T[lo + i].devices = Append(s, v[i])
    <3>1. Len(s) < MaxDevices BY <2>1, <2>2
    <3> QED BY <1>6, <3>1
  <2>4. \A j \in 1 .. i : j \in 1 .. i - 1 \/ j = i BY <1>2
  <2>5. v[i] \in Macs BY <1>2
  <2> HIDE DEF s
  <2>6. /\ Append(s, v[i]) \in Seq(Macs) /\ Len(Append(s, v[i])) = i
        /\ (\A j \in 1 .. i - 1 : Append(s, v[i])[j] = s[j]) /\ Append(s, v[i])[i] = v[i]
    BY <2>1, <2>2, <2>5
  <2>7. Ok(Append(s, v[i]), i) BY <2>2, <2>4, <2>6
  <2> QED BY <2>1, <2>3, <2>7
<1>12. d \in G
  <2> HIDE DEF G
  <2>1. \A i \in 0 .. d : i \in G BY <1>2, <1>10, <1>11, Upward
  <2> QED BY <1>2, <2>1
<1>13. Ok(T[lo + d].devices, d) BY <1>12
<1>14. T[lo + d].devices = v BY <1>1, <1>13, Alike DEF d
<1> QED BY <1>5, <1>14 DEF v

\* Settled rules come back as they were: the lines of the built in rules give each
\* its switch, the lines of the others add them in their order.
LEMMA RulesRead ==
  ASSUME NEW m \in Settled
  PROVE  Reads(m).rules = m.rules
<1> DEFINE lo == 2 + Len(Kept(m))
           rs == m.rules
           r == Len(rs)
           b == Len(Builtins)
<1>0. m \in Tables /\ SettledRules(rs) BY DEF Settled
<1>1. rs \in Seq(RuleEntries) /\ b <= r /\ r <= MaxRules BY <1>0 DEF SettledRules
<1>2. r \in Nat /\ b \in Nat /\ MaxRules \in Nat /\ \A i \in 1 .. r : rs[i] \in RuleEntries
  BY <1>1, StateAssumption, LenProperties, ElementOfSeq
<1>3. PICK T : ReadUp(T, Image(m)) BY <1>0, ImageIs, Reading
<1>4. Parts(T, m) /\ Steps(T, m) BY <1>0, <1>3, PartsAre, StepsAre
<1>5. T[lo].rules = Seed.rules /\ Reads(m).rules = T[lo + r].rules BY <1>4, Zenon DEF Parts
<1>6. \A i \in 1 .. r : T[lo + i].rules = ReadRule(T[lo + i - 1].rules, rs[i])
  BY <1>4, Zenon DEF Steps
<1>7. lo \in Nat
  <2> DEFINE x == Len(Kept(m))
  <2>1. x \in Nat BY <1>0, KeptIs, LenProperties
  <2>2. lo = 2 + x OBVIOUS
  <2> HIDE DEF x, lo
  <2> QED BY <2>1, <2>2
<1>8. /\ \A i \in 1 .. b : rs[i].builtin /\ rs[i].name = Builtins[i] /\ rs[i].action = "block"
      /\ \A i, j \in 1 .. b : Builtins[i] = Builtins[j] => rs[i].enabled = rs[j].enabled
      /\ \A i \in b + 1 .. r : ~rs[i].builtin /\ rs[i].name # Empty /\ rs[i].action # Empty
  BY <1>0 DEF SettledRules
<1>9. SettledRules(Seed.rules) BY SeedSettled DEF Settled
<1>10. \A i \in 1 .. b : Builtins[i] # Empty
  <2>1. DOMAIN Builtins = 1 .. b BY StateAssumption, LenProperties
  <2> QED BY <2>1, Texts
<1>11. \A i \in 1 .. b : i \in 1 .. r BY <1>1, <1>2
<1>12. Len(Seed.rules) = b
  <2>1. Seed.rules = [i \in DOMAIN Builtins |-> BuiltinRule(Builtins[i])] BY DEF Seed
  <2>2. DOMAIN Builtins = 1 .. b BY StateAssumption, LenProperties
  <2>3. DOMAIN Seed.rules = 1 .. b BY <2>1, <2>2
  <2>4. Seed.rules \in Seq(RuleEntries) BY <1>9 DEF SettledRules
  <2> HIDE DEF b
  <2>5. DOMAIN Seed.rules = 1 .. Len(Seed.rules) /\ Len(Seed.rules) \in Nat BY <2>4, LenProperties
  <2> QED BY <1>2, <2>3, <2>5
<1> HIDE DEF lo, rs, r, b
<1> DEFINE One(s, i) == /\ s \in Seq(RuleEntries) /\ Len(s) = b
                        /\ \A j \in 1 .. b : /\ s[j].builtin /\ s[j].name = Builtins[j] /\ s[j].action = "block"
                                             /\ \A k \in 1 .. i : Builtins[k] = Builtins[j] =>
                                                  s[j].enabled = rs[j].enabled
           G == {i \in 0 .. b : One(T[lo + i].rules, i)}
<1>13. 0 \in G
  <2>1. One(Seed.rules, 0)
    <3>1. Seed.rules \in Seq(RuleEntries) BY <1>9 DEF SettledRules
    <3>2. \A j \in 1 .. b : /\ Seed.rules[j].builtin /\ Seed.rules[j].name = Builtins[j]
                            /\ Seed.rules[j].action = "block"
      BY <1>9 DEF SettledRules, b
    <3> QED BY <1>12, <3>1, <3>2
  <2>2. lo + 0 = lo /\ 0 \in 0 .. b BY <1>2, <1>7
  <2> HIDE DEF One
  <2>3. One(T[lo + 0].rules, 0) BY <1>5, <2>1, <2>2, Zenon
  <2> QED BY <2>2, <2>3
<1>14. ASSUME NEW i \in 1 .. b, i - 1 \in G PROVE i \in G
  <2> DEFINE s == T[lo + i - 1].rules
             t == T[lo + i].rules
             e == rs[i].enabled
  <2>1. lo + i - 1 = lo + (i - 1) /\ i \in 0 .. b /\ i \in 1 .. r BY <1>2, <1>7, <1>11
  <2>2. One(s, i - 1) BY <1>14, <2>1
  <2>3. t = ReadRule(s, rs[i]) BY <1>6, <2>1
  <2> HIDE DEF s, t
  <2>4. t = LoadBuiltin(s, Builtins[i], e)
    <3>1. rs[i].builtin /\ rs[i].name = Builtins[i] /\ rs[i].name # Empty BY <1>8, <1>10
    <3> QED BY <2>3, <3>1, Zenon DEF ReadRule
  <2>5. e \in BOOLEAN BY <1>2, <2>1 DEF RuleEntries
  <2> HIDE DEF e
  <2>6. DOMAIN s = 1 .. b /\ s \in [1 .. b -> RuleEntries] BY <2>2, LenProperties
  <2>7. \A j \in 1 .. b : /\ t[j] \in RuleEntries /\ t[j].builtin = s[j].builtin /\ t[j].name = s[j].name
                          /\ t[j].action = s[j].action
                          /\ t[j].enabled = IF Builtins[j] = Builtins[i] THEN e ELSE s[j].enabled
    BY <2>2, <2>4, <2>5, <2>6 DEF LoadBuiltin, RuleEntries
  <2>8. t \in [1 .. b -> RuleEntries]
    <3>1. DOMAIN t = 1 .. b /\ t = [j \in 1 .. b |-> t[j]] BY <2>4, <2>6 DEF LoadBuiltin
    <3> QED BY <2>7, <3>1
  <2>9. t \in Seq(RuleEntries) /\ Len(t) = b BY <1>2, <2>8, IsASeq, LenProperties
  <2>10. ASSUME NEW j \in 1 .. b, NEW k \in 1 .. i, Builtins[k] = Builtins[j]
         PROVE  t[j].enabled = rs[j].enabled
    <3>1. CASE Builtins[j] = Builtins[i] BY <1>8, <2>7, <3>1 DEF e
    <3>2. CASE Builtins[j] # Builtins[i]
      <4>1. k \in 1 .. i - 1 BY <1>2, <2>10, <3>2
      <4> QED BY <2>2, <2>7, <2>10, <3>2, <4>1
    <3> QED BY <3>1, <3>2
  <2>11. One(t, i) BY <2>2, <2>7, <2>9, <2>10
  <2> QED BY <2>1, <2>11 DEF t
<1>15. One(T[lo + b].rules, b)
  <2> HIDE DEF G
  <2>1. \A i \in 0 .. b : i \in G BY <1>2, <1>13, <1>14, Upward
  <2>2. b \in G BY <1>2, <2>1
  <2> QED BY <2>2 DEF G
<1> DEFINE Two1(s, i) == s \in Seq(RuleEntries) /\ Len(s) = b + i /\ \A j \in 1 .. b + i : s[j] = rs[j]
           H == {i \in 0 .. r - b : Two1(T[lo + b + i].rules, i)}
<1>16. 0 \in H
  <2> DEFINE s == T[lo + b].rules
  <2>1. lo + b + 0 = lo + b /\ b + 0 = b /\ 0 \in 0 .. r - b BY <1>1, <1>2, <1>7
  <2>2. One(s, b) BY <1>15
  <2> HIDE DEF s
  <2>3. ASSUME NEW j \in 1 .. b PROVE s[j] = rs[j]
    <3> DEFINE u == s[j]
               v == rs[j]
    <3>1. s[j] \in RuleEntries /\ rs[j] \in RuleEntries BY <1>2, <1>11, <2>2, ElementOfSeq
    <3>2. s[j].enabled = rs[j].enabled BY <2>2
    <3>3. /\ s[j].name = rs[j].name /\ s[j].action = rs[j].action
          /\ s[j].builtin = rs[j].builtin
      BY <1>8, <2>2, <3>1 DEF RuleEntries
    <3>4. u \in RuleEntries /\ v \in RuleEntries /\ u.name = v.name /\ u.action = v.action
          /\ u.enabled = v.enabled /\ u.builtin = v.builtin
      BY <3>1, <3>2, <3>3
    <3> HIDE DEF u, v
    <3>5. u = [name |-> u.name, action |-> u.action, enabled |-> u.enabled, builtin |-> u.builtin]
      BY <3>4 DEF RuleEntries
    <3>6. v = [name |-> v.name, action |-> v.action, enabled |-> v.enabled, builtin |-> v.builtin]
      BY <3>4 DEF RuleEntries
    <3>7. u = v BY <3>4, <3>5, <3>6, Zenon
    <3> QED BY <3>7 DEF u, v
  <2>4. Two1(s, 0) BY <2>1, <2>2, <2>3
  <2> QED BY <2>1, <2>4 DEF s
<1>17. ASSUME NEW i \in 1 .. r - b, i - 1 \in H PROVE i \in H
  <2> DEFINE s == T[lo + b + i - 1].rules
             t == T[lo + b + i].rules
             q == rs[b + i]
  <2>1. /\ lo + b + i - 1 = lo + b + (i - 1) /\ b + (i - 1) = b + i - 1 /\ i \in 0 .. r - b
        /\ b + i \in 1 .. r /\ b + i \in b + 1 .. r /\ b + i - 1 \in Nat /\ b + i - 1 < MaxRules
        /\ lo + b + i = lo + (b + i) /\ lo + b + i - 1 = lo + (b + i) - 1
    BY <1>1, <1>2, <1>7
  <2>2. Two1(s, i - 1) BY <1>17, <2>1
  <2>3. t = ReadRule(s, q) BY <1>6, <2>1
  <2>4. q \in RuleEntries /\ ~q.builtin /\ q.name # Empty /\ q.action # Empty BY <1>2, <1>8, <2>1
  <2> HIDE DEF s, t, q
  <2>5. UserOf(q) = q
    <3>1. UserOf(q) = [q EXCEPT !.name = q.name] BY <2>4 DEF UserOf
    <3> QED BY <2>4, <3>1 DEF RuleEntries
  <2>6. t = Append(s, q)
    <3>1. Len(s) < MaxRules BY <2>1, <2>2
    <3> QED BY <2>3, <2>4, <2>5, <3>1 DEF ReadRule
  <2> DEFINE p == b + i - 1
  <2>7. p \in Nat /\ b + i = p + 1 /\ Len(s) = p /\ s \in Seq(RuleEntries)
        /\ \A j \in 1 .. p : s[j] = rs[j]
    <3>1. i \in Int BY <1>1, <1>2
    <3>2. p \in Nat /\ b + i = p + 1 /\ b + (i - 1) = p BY <1>2, <2>1, <3>1
    <3> HIDE DEF p
    <3> QED BY <2>2, <3>2, Zenon
  <2> HIDE DEF p
  <2>8. /\ Append(s, q) \in Seq(RuleEntries) /\ Len(Append(s, q)) = p + 1
        /\ (\A j \in 1 .. p : Append(s, q)[j] = s[j]) /\ Append(s, q)[p + 1] = q
    BY <2>4, <2>7
  <2>9. \A j \in 1 .. p + 1 : j \in 1 .. p \/ j = p + 1 BY <2>7
  <2>10. Two1(t, i)
    <3>1. rs[p + 1] = q BY <2>7 DEF q
    <3>2. \A j \in 1 .. p + 1 : t[j] = rs[j] BY <2>6, <2>7, <2>8, <2>9, <3>1
    <3> QED BY <2>6, <2>7, <2>8, <3>2, Zenon
  <2> QED BY <2>1, <2>10 DEF t
<1>18. Two1(T[lo + b + (r - b)].rules, r - b)
  <2> HIDE DEF H
  <2>1. r - b \in Nat BY <1>1, <1>2
  <2>2. \A i \in 0 .. r - b : i \in H BY <1>16, <1>17, <2>1, Upward
  <2>3. r - b \in H BY <2>1, <2>2
  <2> QED BY <2>3 DEF H
<1>19. lo + b + (r - b) = lo + r /\ b + (r - b) = r BY <1>2, <1>7
<1>20. T[lo + r].rules = rs BY <1>1, <1>18, <1>19, Alike DEF r
<1> QED BY <1>5, <1>20 DEF rs

LEMMA LoadSettled ==
  ASSUME NEW lines, AreLines(lines)
  PROVE  Load(lines) \in Settled
<1>1. PICK T : ReadUp(T, lines) BY Reading
<1>2. Len(lines) \in Nat BY LenProperties DEF AreLines
<1> QED BY <1>1, <1>2 DEF ReadUp

\* What is read, written and read again is the same.
LEMMA ReadsAgain ==
  ASSUME NEW m \in Settled
  PROVE  Reads(m) = m
<1> DEFINE back == Reads(m)
<1>1. m \in Tables /\ SettledApps(m.apps) /\ Len(m.devices) <= MaxDevices BY DEF Settled
<1>2. back \in Settled BY <1>1, ImageIs, LoadSettled DEF Reads
<1>3. back.posture = m.posture /\ back.out = m.out
  <2>1. PICK T : ReadUp(T, Image(m)) BY <1>1, ImageIs, Reading
  <2>2. Parts(T, m) BY <1>1, <2>1, PartsAre
  <2> QED BY <2>2 DEF Parts
<1>4. back.rules = m.rules BY RulesRead
<1>5. back.devices = m.devices BY <1>1, DevicesRead
<1>6. back.apps = m.apps
  <2> DEFINE s == m.apps
  <2>1. s \in Seq(AppEntries) /\ DOMAIN s = 1 .. Len(s) /\ \A i \in 1 .. Len(s) : s[i] \in AppEntries
    <3>1. s \in Seq(AppEntries) BY <1>1 DEF Tables
    <3> QED BY <3>1, LenProperties, ElementOfSeq
  <2>2. \A i \in 1 .. Len(s) : s[i].pinned BY <1>1, <2>1 DEF SettledApps
  <2>3. Kept(m) = s
    <3> DEFINE S == {a \in ToSet(s) : Remembers(a)}
    <3>1. \A i \in 1 .. Len(s) : s[i] \in S BY <2>1, <2>2 DEF ToSet, Remembers
    <3>2. Kept(m) = Only(s, S) BY DEF Kept
    <3> HIDE DEF S, s
    <3> QED BY <2>1, <3>1, <3>2, OnlyAll
  <2>4. AppsOk(s) BY <1>1 DEF SettledApps
  <2>5. back.apps \in Seq(AppEntries) /\ Len(back.apps) = Len(s)
        /\ \A i \in 1 .. Len(s) : back.apps[i] = Decided(s[i])
    BY <1>1, <2>3, <2>4, AppsRead
  <2>6. ASSUME NEW i \in 1 .. Len(s) PROVE Decided(s[i]) = s[i]
    <3> DEFINE e == s[i]
               u == Decided(e)
    <3>1. e \in AppEntries /\ e.pinned = TRUE BY <2>1, <2>2 DEF AppEntries
    <3> HIDE DEF e
    <3>2. u \in AppEntries /\ u.name = e.name /\ u.policy = e.policy /\ u.pinned = e.pinned
      BY <3>1 DEF Decided, AppEntries
    <3> HIDE DEF u
    <3>3. u = [name |-> u.name, policy |-> u.policy, pinned |-> u.pinned] BY <3>2 DEF AppEntries
    <3>4. e = [name |-> e.name, policy |-> e.policy, pinned |-> e.pinned] BY <3>1 DEF AppEntries
    <3> QED BY <3>2, <3>3, <3>4, Zenon DEF u, e
  <2> HIDE DEF s, back
  <2>7. back.apps = s BY <2>1, <2>5, <2>6, Alike
  <2> QED BY <2>7 DEF s
<1> HIDE DEF back
<1>7. back = [posture |-> back.posture, out |-> back.out, apps |-> back.apps, rules |-> back.rules,
              devices |-> back.devices]
  BY <1>2 DEF Settled, Tables
<1>8. m = [posture |-> m.posture, out |-> m.out, apps |-> m.apps, rules |-> m.rules,
           devices |-> m.devices]
  BY <1>1 DEF Tables
<1> QED BY <1>3, <1>4, <1>5, <1>6, <1>7, <1>8, Zenon DEF back

\* A file has a line about a device once.
DevicesOnce(lines) ==
  \A i, j \in 1 .. Len(lines) : \A d \in Macs :
    lines[i] = DeviceLine(d) /\ lines[j] = DeviceLine(d) => i = j

\* What a read of such lines enters is distinct.
LEMMA LoadWhole ==
  ASSUME NEW lines, AreLines(lines), DevicesOnce(lines)
  PROVE  Whole(Load(lines))
<1> DEFINE n == Len(lines)
<1>1. n \in Nat BY LenProperties DEF AreLines
<1>2. PICK T : ReadUp(T, lines) BY Reading
<1>3. \A i \in 0 .. n : T[i] \in Settled BY <1>2 DEF ReadUp
<1>4. T[0] = Seed /\ T[n] = Load(lines) BY <1>2 DEF ReadUp
<1>5. \A i \in 1 .. n : T[i] = LoadLine(T[i - 1], lines[i]) /\ Line(lines[i])
  BY <1>2 DEF ReadUp, AreLines
<1>6. \A i, j \in 1 .. n : \A d \in Macs :
        lines[i] = DeviceLine(d) /\ lines[j] = DeviceLine(d) => i = j
  BY DEF DevicesOnce
<1> HIDE DEF n
<1> DEFINE From(v, i) == \A j \in 1 .. Len(v) : \E k \in 1 .. i : lines[k] = DeviceLine(v[j])
           Distinct(v) == \A j, l \in 1 .. Len(v) : v[j] = v[l] => j = l
           G == {i \in 0 .. n : From(T[i].devices, i) /\ Distinct(T[i].devices)}
<1>7. 0 \in G
  <2>1. 0 \in 0 .. n /\ T[0].devices = <<>> BY <1>1, <1>4, SeedSettled
  <2> QED BY <2>1
<1>8. ASSUME NEW i \in 1 .. n, i - 1 \in G PROVE i \in G
  <2> DEFINE x == T[i - 1]
             v == x.devices
             w == T[i].devices
             p == Len(v)
  <2>1. i - 1 \in 0 .. n /\ i \in 0 .. n BY <1>1
  <2>2. x \in Settled /\ T[i] = LoadLine(x, lines[i]) /\ Line(lines[i]) BY <1>3, <1>5, <2>1
  <2>3. v \in Seq(Macs) BY <2>2 DEF Settled, Tables
  <2>4. p \in Nat /\ \A j \in 1 .. p : v[j] \in Macs BY <2>3, LenProperties, ElementOfSeq
  <2>5. From(v, i - 1) /\ Distinct(v) BY <1>8
  <2>6. \A k \in 1 .. i - 1 : k \in 1 .. i /\ k \in 1 .. n /\ k # i BY <1>1
  <2>7. w = v \/ \E d \in Macs : lines[i] = DeviceLine(d) /\ w = Append(v, d)
    <3> HIDE DEF x
    <3>1. CASE \E q \in Postures : lines[i] = <<"posture", q>>
      <4>1. PICK q \in Postures : lines[i] = <<"posture", q>> BY <3>1
      <4>2. LoadLine(x, <<"posture", q>>) = [x EXCEPT !.posture = q]
        BY PostureLine
      <4>3. T[i] = [x EXCEPT !.posture = q] BY <2>2, <4>1, <4>2, Zenon
      <4> QED BY <2>2, <4>3 DEF Settled, Tables
    <3>2. CASE \E q \in Words : lines[i] = <<"setting", q>>
      <4>1. PICK q \in Words : lines[i] = <<"setting", q>> BY <3>2
      <4>2. LoadLine(x, <<"setting", q>>) = [x EXCEPT !.out = q]
        BY SettingLine
      <4>3. T[i] = [x EXCEPT !.out = q] BY <2>2, <4>1, <4>2, Zenon
      <4> QED BY <2>2, <4>3 DEF Settled, Tables
    <3>3. CASE \E q \in Words, a \in AppNames : lines[i] = <<"app", q, a>>
      <4>1. PICK q \in Words, a \in AppNames : lines[i] = <<"app", q, a>> BY <3>3
      <4>2. LoadLine(x, <<"app", q, a>>) = [x EXCEPT !.apps = PutApp(x.apps, a, q)]
        BY AppLineRead
      <4>3. T[i] = [x EXCEPT !.apps = PutApp(x.apps, a, q)] BY <2>2, <4>1, <4>2, Zenon
      <4> QED BY <2>2, <4>3 DEF Settled, Tables
    <3>4. CASE \E nm \in RuleNames, b \in Switches : lines[i] = <<"builtin", nm, b>>
      <4>1. PICK nm \in RuleNames, b \in Switches : lines[i] = <<"builtin", nm, b>> BY <3>4
      <4> DEFINE s == LoadBuiltin(x.rules, nm, b = "1")
      <4>2. /\ nm = Empty => LoadLine(x, <<"builtin", nm, b>>) = x
            /\ nm # Empty => LoadLine(x, <<"builtin", nm, b>>) = [x EXCEPT !.rules = s]
        BY BuiltinLineRead
      <4> HIDE DEF s
      <4>3. T[i] = x \/ T[i] = [x EXCEPT !.rules = s] BY <2>2, <4>1, <4>2, Zenon
      <4> QED BY <2>2, <4>3 DEF Settled, Tables
    <3>5. CASE \E b \in Switches, c \in RuleActions, nm \in RuleNames \ {Empty} :
                 lines[i] = <<"rule", b, c, nm>>
      <4>1. PICK b \in Switches, c \in RuleActions, nm \in RuleNames \ {Empty} :
                   lines[i] = <<"rule", b, c, nm>>
        BY <3>5
      <4> DEFINE s == LoadRule(x.rules, <<"rule", b, c, nm>>)
      <4>2. /\ c = Empty => LoadLine(x, <<"rule", b, c, nm>>) = x
            /\ c # Empty => LoadLine(x, <<"rule", b, c, nm>>) = [x EXCEPT !.rules = s]
        BY RuleLineRead
      <4> HIDE DEF s
      <4>3. T[i] = x \/ T[i] = [x EXCEPT !.rules = s] BY <2>2, <4>1, <4>2, Zenon
      <4> QED BY <2>2, <4>3 DEF Settled, Tables
    <3>6. CASE \E d \in Macs : lines[i] = <<"device", d>>
      <4>1. PICK d \in Macs : lines[i] = <<"device", d>> BY <3>6
      <4> DEFINE s == Append(x.devices, d)
      <4>2. LoadLine(x, <<"device", d>>) = IF Len(x.devices) < MaxDevices THEN [x EXCEPT !.devices = s] ELSE x
        BY DeviceLineRead
      <4> HIDE DEF s
      <4>3. T[i] = x \/ T[i] = [x EXCEPT !.devices = s] BY <2>2, <4>1, <4>2, Zenon
      <4>4. T[i].devices = x.devices \/ T[i].devices = s BY <2>2, <4>3 DEF Settled, Tables
      <4> QED BY <4>1, <4>4, Zenon DEF s, DeviceLine
    <3> QED BY <2>2, <3>1, <3>2, <3>3, <3>4, <3>5, <3>6, Zenon DEF Line
  <2> HIDE DEF v, w
  <2>8. CASE w = v
    <3>1. From(w, i) BY <2>5, <2>6, <2>8
    <3> QED BY <2>1, <2>5, <2>8, <3>1 DEF w
  <2>9. CASE w # v
    <3>1. PICK d \in Macs : lines[i] = DeviceLine(d) /\ w = Append(v, d) BY <2>7, <2>9
    <3>2. Len(w) = p + 1 /\ (\A j \in 1 .. p : w[j] = v[j]) /\ w[p + 1] = d BY <2>3, <3>1
    <3> HIDE DEF p
    <3>3. \A j \in 1 .. p + 1 : j \in 1 .. p \/ j = p + 1 BY <2>4
    <3>4. From(w, i)
      <4>1. ASSUME NEW j \in 1 .. p PROVE \E k \in 1 .. i : lines[k] = DeviceLine(w[j])
        <5>1. PICK k \in 1 .. i - 1 : lines[k] = DeviceLine(v[j]) BY <2>5 DEF p
        <5>2. k \in 1 .. i /\ w[j] = v[j] BY <2>6, <3>2
        <5> QED BY <5>1, <5>2, Zenon
      <4>2. i \in 1 .. i BY <1>1
      <4> QED BY <3>1, <3>2, <3>3, <4>1, <4>2
    <3>5. Distinct(w)
      <4>1. ASSUME NEW j \in 1 .. p PROVE w[j] # d
        <5>1. PICK k \in 1 .. i - 1 : lines[k] = DeviceLine(v[j]) BY <2>5 DEF p
        <5>2. v[j] # d BY <1>6, <2>6, <3>1, <5>1, Zenon
        <5> QED BY <3>2, <5>2
      <4>2. \A j, l \in 1 .. p : w[j] = w[l] => j = l BY <2>5, <3>2 DEF p
      <4> QED BY <3>2, <3>3, <4>1, <4>2
    <3> QED BY <2>1, <3>4, <3>5 DEF w
  <2> QED BY <2>8, <2>9
<1>9. n \in G
  <2> HIDE DEF G
  <2>1. \A i \in 0 .. n : i \in G BY <1>1, <1>7, <1>8, Upward
  <2> QED BY <1>1, <2>1
<1> DEFINE back == Load(lines)
<1>10. back \in Settled BY LoadSettled
<1>11. Distinct(back.devices) BY <1>4, <1>9
<1> HIDE DEF back
<1>12. back.devices \in Seq(Macs) BY <1>10 DEF Settled, Tables
<1>13. IsInjective(back.devices) BY <1>11, <1>12, LenProperties DEF IsInjective
<1>14. Whole(back) BY <1>10, <1>13 DEF Whole, Settled, SettledApps, SettledRules
<1> QED BY <1>14 DEF back

-----------------------------------------------------------------------------
(***************************************************************************)
(* What the requests make of the tables, and what is left of an image.     *)
(***************************************************************************)

\* An image has the line of a device once.
LEMMA ImageOnce ==
  ASSUME NEW m, Whole(m)
  PROVE  DevicesOnce(Image(m))
<1> DEFINE I == Image(m)
           k == Kept(m)
           a == Len(k)
           r == Len(m.rules)
           v == m.devices
           d == Len(v)
           n == Len(I)
           lo == 2 + a + r
<1>0. m \in Tables /\ IsInjective(v) BY DEF Whole
<1>1. m.rules \in Seq(RuleEntries) /\ v \in Seq(Macs) /\ k \in Seq(AppEntries)
  BY <1>0, KeptIs DEF Tables
<1>2. a \in Nat /\ r \in Nat /\ d \in Nat BY <1>1, LenProperties
<1>3. Placed(I, m) BY <1>0, ImageIs
<1>4. n = lo + d BY <1>3 DEF Placed
<1>5. /\ I[1] = <<"posture", m.posture>> /\ I[2] = <<"setting", m.out>>
      /\ \A i \in 1 .. a : I[2 + i] = AppLine(k[i])
      /\ \A i \in 1 .. r : I[2 + a + i] = RuleLine(m.rules[i])
      /\ \A i \in 1 .. d : I[lo + i] = DeviceLine(v[i])
  BY <1>3, Zenon DEF Placed
<1>6. \A x \in Macs : DeviceLine(x)[1] = "device" /\ DeviceLine(x)[2] = x BY DEF DeviceLine
<1>7. I[1][1] # "device" /\ I[2][1] # "device" BY <1>5
<1>8. \A e : AppLine(e)[1] # "device" BY DEF AppLine
<1>9. \A e : RuleLine(e)[1] # "device" BY DEF RuleLine
<1> HIDE DEF I, k, a, r, v, d, n
<1>10. lo \in Nat BY <1>2
<1>11. ASSUME NEW i \in 1 .. n, NEW x \in Macs, I[i] = DeviceLine(x)
       PROVE  \E l \in 1 .. d : i = lo + l /\ v[l] = x
  <2>1. I[i][1] = "device" BY <1>6, <1>11
  <2>2. i # 1 /\ i # 2 BY <1>7, <2>1
  <2>3. ~(i \in 3 .. 2 + a)
    <3>1. ASSUME i \in 3 .. 2 + a PROVE FALSE
      <4>1. i - 2 \in 1 .. a /\ 2 + (i - 2) = i BY <1>2, <3>1
      <4>2. I[i] = AppLine(k[i - 2]) BY <1>5, <4>1
      <4> QED BY <1>8, <2>1, <4>2
    <3> QED BY <3>1
  <2>4. ~(i \in 3 + a .. lo)
    <3>1. ASSUME i \in 3 + a .. lo PROVE FALSE
      <4>1. i - 2 - a \in 1 .. r /\ 2 + a + (i - 2 - a) = i BY <1>2, <3>1
      <4>2. I[i] = RuleLine(m.rules[i - 2 - a]) BY <1>5, <4>1
      <4> QED BY <1>9, <2>1, <4>2
    <3> QED BY <3>1
  <2>5. i - lo \in 1 .. d /\ i = lo + (i - lo) BY <1>2, <1>4, <1>10, <2>2, <2>3, <2>4
  <2>6. I[i] = DeviceLine(v[i - lo]) BY <1>5, <2>5
  <2>7. v[i - lo] \in Macs BY <1>1, <2>5, ElementOfSeq DEF d
  <2>8. v[i - lo] = x BY <1>6, <1>11, <2>6, <2>7
  <2> QED BY <2>5, <2>8
<1>12. ASSUME NEW i \in 1 .. n, NEW j \in 1 .. n, NEW x \in Macs,
              I[i] = DeviceLine(x), I[j] = DeviceLine(x)
       PROVE  i = j
  <2>1. PICK l \in 1 .. d : i = lo + l /\ v[l] = x BY <1>11, <1>12
  <2>2. PICK h \in 1 .. d : j = lo + h /\ v[h] = x BY <1>11, <1>12
  <2>3. DOMAIN v = 1 .. d BY <1>1, LenProperties DEF d
  <2>4. l = h BY <1>0, <2>1, <2>2, <2>3 DEF IsInjective
  <2> QED BY <2>1, <2>2, <2>4
<1> QED BY <1>12 DEF DevicesOnce, n, I

\* What there is to read: no file, or lines of which none is twice about a device.
Readable(f) == f = None \/ (AreLines(f) /\ DevicesOnce(f))

LEMMA ImageReadable ==
  ASSUME NEW m, Whole(m)
  PROVE  Readable(Image(m))
  BY ImageIs, ImageOnce DEF Readable, Whole

LEMMA PrefixReadable ==
  ASSUME NEW m, Whole(m), NEW n \in 0 .. Len(Image(m)) - 1
  PROVE  Readable(SubSeq(Image(m), 1, n))
<1> DEFINE I == Image(m)
           s == SubSeq(I, 1, n)
<1>1. AreLines(I) /\ DevicesOnce(I) BY ImageIs, ImageOnce DEF Whole
<1> HIDE DEF I
<1>2. I \in Seq(Seq(Text)) /\ Len(I) \in Nat BY <1>1, LenProperties DEF AreLines
<1>3. n \in Nat /\ n <= Len(I) BY <1>2 DEF I
<1>4. s \in Seq(Seq(Text)) /\ Len(s) = n /\ \A i \in 1 .. n : s[i] = I[i] BY <1>2, <1>3
<1> HIDE DEF s
<1>5. \A i \in 1 .. n : i \in 1 .. Len(I) BY <1>2, <1>3
<1>6. AreLines(s) BY <1>1, <1>4, <1>5 DEF AreLines
<1>7. DevicesOnce(s) BY <1>1, <1>4, <1>5 DEF DevicesOnce
<1> QED BY <1>6, <1>7 DEF Readable, s, I

\* What a start reads.
LEMMA LoadReadable ==
  ASSUME NEW f, Readable(f)
  PROVE  Whole(Load(f)) /\ Load(f) \in Settled
<1>1. CASE f = None
  <2>1. Load(f) = Seed BY <1>1 DEF Load
  <2>2. IsInjective(<<>>) BY DEF IsInjective
  <2> QED BY <2>1, <2>2, SeedSettled DEF Whole, Settled, SettledApps, SettledRules
<1>2. CASE f # None BY <1>2, LoadSettled, LoadWhole DEF Readable
<1> QED BY <1>1, <1>2

\* A member that is left out changes nothing.
LEMMA OnlyAppend ==
  ASSUME NEW V, NEW s \in Seq(V), NEW x \in V, NEW S, NEW R, x \notin R,
         \A i \in 1 .. Len(s) : s[i] \in S <=> s[i] \in R
  PROVE  Only(Append(s, x), R) = Only(s, S)
<1> DEFINE n == Len(s)
           t == Append(s, x)
<1>1. n \in Nat BY LenProperties
<1>2. t \in Seq(V) /\ Len(t) = n + 1 /\ (\A i \in 1 .. n : t[i] = s[i]) /\ t[n + 1] = x BY <1>1
<1> HIDE DEF t
<1>3. PICK f \in [0 .. n -> Seq(V)] : Sifts(f, s, S) BY OnlyIs
<1>4. PICK g \in [0 .. Len(t) -> Seq(V)] : Sifts(g, t, R) BY <1>2, OnlyIs
<1>5. f[0] = <<>> /\ g[0] = <<>> /\ f[n] = Only(s, S) /\ g[n + 1] = Only(t, R)
  BY <1>2, <1>3, <1>4 DEF Sifts
<1>6. \A i \in 1 .. n : f[i] = IF s[i] \in S THEN Append(f[i - 1], s[i]) ELSE f[i - 1]
  BY <1>3 DEF Sifts
<1>7. \A i \in 1 .. n + 1 : g[i] = IF t[i] \in R THEN Append(g[i - 1], t[i]) ELSE g[i - 1]
  BY <1>2, <1>4 DEF Sifts
<1> HIDE DEF n
<1> DEFINE G == {i \in 0 .. n : g[i] = f[i]}
<1>8. 0 \in G BY <1>1, <1>5
<1>9. ASSUME NEW i \in 1 .. n, i - 1 \in G PROVE i \in G
  <2>1. i \in 1 .. n + 1 /\ i \in 0 .. n BY <1>1
  <2>2. g[i - 1] = f[i - 1] BY <1>9
  <2>3. t[i] = s[i] /\ (s[i] \in S <=> t[i] \in R) BY <1>2 DEF n
  <2> QED BY <1>6, <1>7, <2>1, <2>2, <2>3
<1>10. n \in G
  <2> HIDE DEF G
  <2>1. \A i \in 0 .. n : i \in G BY <1>1, <1>8, <1>9, Upward
  <2> QED BY <1>1, <2>1
<1>11. g[n + 1] = g[n]
  <2> DEFINE p == n + 1
  <2>1. p \in 1 .. p /\ p - 1 = n /\ ~(t[p] \in R) BY <1>1, <1>2
  <2>2. \A i \in 1 .. p : t[i] \notin R => g[i] = g[i - 1] BY <1>7
  <2> HIDE DEF p
  <2>3. g[p] = g[p - 1] BY <2>1, <2>2, Zenon
  <2> QED BY <2>1, <2>3 DEF p
<1> QED BY <1>5, <1>10, <1>11 DEF t

\* An application that is only seen is not written.
LEMMA SeenNotWritten ==
  ASSUME NEW m, m \in Tables, NEW e \in AppEntries, ~Remembers(e)
  PROVE  Image([m EXCEPT !.apps = Append(m.apps, e)]) = Image(m)
<1> DEFINE s == m.apps
           t == Append(s, e)
           w == [m EXCEPT !.apps = t]
           S == {a \in ToSet(s) : Remembers(a)}
           R == {a \in ToSet(t) : Remembers(a)}
<1>1. s \in Seq(AppEntries) BY DEF Tables
<1>2. Len(s) \in Nat /\ DOMAIN s = 1 .. Len(s) BY <1>1, LenProperties
<1>3. t \in Seq(AppEntries) /\ DOMAIN t = 1 .. Len(s) + 1 /\ \A i \in 1 .. Len(s) : t[i] = s[i]
  BY <1>1, <1>2
<1> HIDE DEF s
<1>4. \A i \in 1 .. Len(s) : s[i] \in ToSet(s) BY <1>2 DEF ToSet
<1>5. \A i \in 1 .. Len(s) : s[i] \in ToSet(t)
  <2> HIDE DEF t
  <2>1. \A i \in 1 .. Len(s) : i \in DOMAIN t BY <1>2, <1>3
  <2> QED BY <1>3, <2>1 DEF ToSet
<1>6. \A i \in 1 .. Len(s) : s[i] \in S <=> s[i] \in R BY <1>4, <1>5
<1>7. e \notin R OBVIOUS
<1>8. Only(t, R) = Only(s, S)
  <2> HIDE DEF S, R
  <2> QED BY <1>1, <1>6, <1>7, OnlyAppend
<1>9. w.posture = m.posture /\ w.out = m.out /\ w.rules = m.rules /\ w.devices = m.devices /\ w.apps = t
  BY DEF Tables, s
<1> HIDE DEF t, w, S, R
<1>10. /\ Image(w) = <<<<"posture", w.posture>>, <<"setting", w.out>>>>
                       \o Each(Only(w.apps, {a \in ToSet(w.apps) : Remembers(a)}), AppLine)
                       \o Each(w.rules, RuleLine) \o Each(w.devices, LAMBDA d : <<"device", d>>)
       /\ Image(m) = <<<<"posture", m.posture>>, <<"setting", m.out>>>>
                       \o Each(Only(m.apps, {a \in ToSet(m.apps) : Remembers(a)}), AppLine)
                       \o Each(m.rules, RuleLine) \o Each(m.devices, LAMBDA d : <<"device", d>>)
  BY Zenon DEF Image
<1>11. Image(w) = Image(m) BY <1>8, <1>9, <1>10, Zenon DEF S, R, s
<1> QED BY <1>11 DEF w, t, s

-----------------------------------------------------------------------------
(***************************************************************************)
(* The inductive invariant.                                                *)
(***************************************************************************)

\* Who is saving has the lock.
Held == \A h \in Handlers : pc[h] \in {"open", "write", "replace"} <=> lock = h

\* The file gives the tables written last, unless it is cut short; they are those
\* of the last change unless that was not written, and those in memory but for
\* what is not written at all.
Written ==
  /\ Whole(old) /\ Whole(new) /\ Readable(file) /\ Readable(tmp)
  /\ torn \in BOOLEAN /\ behind \in BOOLEAN
  /\ ~torn => Load(file) = Reads(old)
  /\ ~behind => old = new
  /\ lock # None => on /\ behind /\ mem = new
  /\ on /\ ~behind /\ ~torn => Reads(mem) = Reads(old)

Stopped == ~on => lock = None /\ \A h \in Handlers : pc[h] = "idle"

\* Of the requests for the start entry at most one is past it, and what that has
\* found is what there is.
Entry ==
  /\ clash \in BOOLEAN
  /\ \A h \in Handlers : (pc[h] = "entry" => want[h] \in BOOLEAN) /\ (pc[h] = "show" => saw[h] \in BOOLEAN)
  /\ on /\ ~clash =>
       /\ Asking = {} => shown = startup
       /\ \A h \in Handlers : pc[h] = "show" => saw[h] = startup
       /\ \A g, h \in Asking : g = h

\* Until a change is lost the devices announced are devices that are remembered.
Announced ==
  /\ told \in Seq(Macs) /\ lost \in BOOLEAN
  /\ ~lost =>
       /\ IsInjective(told) /\ ToSet(told) \subseteq ToSet(new.devices)
       /\ on => mem.devices = new.devices
       /\ ~on => ~behind /\ ~torn

IInv == TypeOK /\ Held /\ Written /\ Stopped /\ Entry /\ Announced

LEMMA MemWhole == TypeOK => Whole(mem)
  BY DEF TypeOK, Whole, AppsOk, Tables

\* Tables with one part changed.
LEMMA ChangedWhole ==
  ASSUME NEW m, Whole(m)
  PROVE  /\ \A p \in Postures : /\ Whole([m EXCEPT !.posture = p])
                                /\ [m EXCEPT !.posture = p].devices = m.devices
         /\ \A w \in Words : /\ Whole([m EXCEPT !.out = w])
                             /\ [m EXCEPT !.out = w].devices = m.devices
         /\ \A s : AppsOk(s) => /\ Whole([m EXCEPT !.apps = s])
                                /\ [m EXCEPT !.apps = s].devices = m.devices
         /\ \A s \in Seq(RuleEntries) : Len(s) <= MaxRules =>
              /\ Whole([m EXCEPT !.rules = s]) /\ [m EXCEPT !.rules = s].devices = m.devices
         /\ \A s \in Seq(Macs) : Len(s) <= MaxDevices /\ IsInjective(s) =>
              /\ Whole([m EXCEPT !.devices = s]) /\ [m EXCEPT !.devices = s].devices = s
<1>1. m \in Tables BY DEF Whole
<1>2. ASSUME NEW p \in Postures
      PROVE  Whole([m EXCEPT !.posture = p]) /\ [m EXCEPT !.posture = p].devices = m.devices
  BY <1>1 DEF Whole, Tables
<1>3. ASSUME NEW w \in Words
      PROVE  Whole([m EXCEPT !.out = w]) /\ [m EXCEPT !.out = w].devices = m.devices
  BY <1>1 DEF Whole, Tables
<1>4. ASSUME NEW s, AppsOk(s)
      PROVE  Whole([m EXCEPT !.apps = s]) /\ [m EXCEPT !.apps = s].devices = m.devices
  <2>1. s \in Seq(AppEntries) BY <1>4 DEF AppsOk
  <2>2. [m EXCEPT !.apps = s].apps = s BY <1>1 DEF Tables
  <2> QED BY <1>1, <1>4, <2>1, <2>2 DEF Whole, Tables
<1>5. ASSUME NEW s \in Seq(RuleEntries), Len(s) <= MaxRules
      PROVE  Whole([m EXCEPT !.rules = s]) /\ [m EXCEPT !.rules = s].devices = m.devices
  BY <1>1, <1>5 DEF Whole, Tables
<1>6. ASSUME NEW s \in Seq(Macs), Len(s) <= MaxDevices, IsInjective(s)
      PROVE  Whole([m EXCEPT !.devices = s]) /\ [m EXCEPT !.devices = s].devices = s
  BY <1>1, <1>6 DEF Whole, Tables
<1> QED BY <1>2, <1>3, <1>4, <1>5, <1>6

\* Distinct members, followed by other distinct ones.
LEMMA JoinedDistinct ==
  ASSUME NEW V, NEW s \in Seq(V), NEW t \in Seq(V), IsInjective(s), IsInjective(t),
         ToSet(s) \cap ToSet(t) = {}
  PROVE  IsInjective(s \o t) /\ ToSet(s \o t) = ToSet(s) \cup ToSet(t)
<1> DEFINE n == Len(s)
           k == Len(t)
           u == s \o t
<1>1. n \in Nat /\ k \in Nat /\ DOMAIN s = 1 .. n /\ DOMAIN t = 1 .. k BY LenProperties
<1>2. Joins(u, s, t, V) BY Joined, Zenon
<1>3. DOMAIN u = 1 .. n + k BY <1>2, LenProperties DEF Joins
<1>4. (\A i \in 1 .. n : u[i] = s[i]) /\ (\A i \in 1 .. k : u[n + i] = t[i]) BY <1>2 DEF Joins
<1> HIDE DEF n, k, u
<1>5. \A i \in 1 .. n + k : i \in 1 .. n \/ (i - n \in 1 .. k /\ n + (i - n) = i) BY <1>1
<1>6. \A i \in 1 .. n : s[i] \in ToSet(s) BY <1>1 DEF ToSet
<1>7. \A i \in 1 .. k : t[i] \in ToSet(t) BY <1>1 DEF ToSet
<1>8. ASSUME NEW i \in 1 .. n + k PROVE u[i] \in ToSet(s) \cup ToSet(t) BY <1>4, <1>5, <1>6, <1>7
<1>9. ASSUME NEW i \in 1 .. n + k, NEW j \in 1 .. n + k, u[i] = u[j] PROVE i = j
  <2>1. CASE i \in 1 .. n /\ j \in 1 .. n BY <1>1, <1>4, <1>9, <2>1 DEF IsInjective
  <2>2. CASE i \in 1 .. n /\ j - n \in 1 .. k /\ n + (j - n) = j
    BY <1>4, <1>6, <1>7, <1>9, <2>2
  <2>3. CASE j \in 1 .. n /\ i - n \in 1 .. k /\ n + (i - n) = i
    BY <1>4, <1>6, <1>7, <1>9, <2>3
  <2>4. CASE i - n \in 1 .. k /\ n + (i - n) = i /\ j - n \in 1 .. k /\ n + (j - n) = j
    <3>1. t[i - n] = t[j - n] BY <1>4, <1>9, <2>4
    <3>2. i - n = j - n BY <1>1, <2>4, <3>1 DEF IsInjective
    <3> QED BY <2>4, <3>2
  <2> QED BY <1>5, <2>1, <2>2, <2>3, <2>4
<1>10. IsInjective(u) BY <1>3, <1>9 DEF IsInjective
<1>11. ToSet(u) \subseteq ToSet(s) \cup ToSet(t) BY <1>3, <1>8 DEF ToSet
<1>12. ToSet(s) \subseteq ToSet(u)
  <2>1. \A i \in 1 .. n : i \in 1 .. n + k BY <1>1
  <2> QED BY <1>1, <1>3, <1>4, <2>1 DEF ToSet
<1>13. ToSet(t) \subseteq ToSet(u)
  <2>1. \A i \in 1 .. k : n + i \in 1 .. n + k BY <1>1
  <2> QED BY <1>1, <1>3, <1>4, <2>1 DEF ToSet
<1> QED BY <1>10, <1>11, <1>12, <1>13 DEF u

\* What a request changes: tables that may be in memory are saved, with the devices
\* that were known and those that are announced or not.
Requested(h, m, entry) ==
  /\ Change(h, m, entry) /\ Whole(m) /\ entry \in BOOLEAN \cup {None} /\ scanned' \in BOOLEAN
  /\ \/ m.devices = mem.devices /\ told' = told
     \/ \E added \in Seq(Macs) :
          /\ IsInjective(added) /\ ToSet(mem.devices) \cap ToSet(added) = {}
          /\ m.devices = mem.devices \o added /\ told' \in {told, told \o added}

LEMMA RequestIs ==
  ASSUME TypeOK, NEW h \in Handlers, Request(h)
  PROVE  \E m, entry : Requested(h, m, entry)
<1>1. Whole(mem) BY MemWhole
<1>2. mem \in Tables /\ scanned \in BOOLEAN /\ mem.rules \in Seq(RuleEntries) /\ mem.devices \in Seq(Macs)
      /\ AppsOk(mem.apps) /\ mem.out \in Words /\ Len(mem.rules) <= MaxRules
      /\ Len(mem.devices) <= MaxDevices /\ IsInjective(mem.devices)
  BY <1>1 DEF TypeOK, Whole, Tables
<1> DEFINE Kept1(m) == m.devices = mem.devices /\ scanned' = scanned /\ told' = told
<1>3. ASSUME NEW m, NEW entry \in BOOLEAN \cup {None}, Change(h, m, entry), Whole(m),
             m.devices = mem.devices, scanned' = scanned, told' = told
      PROVE  Requested(h, m, entry)
  BY <1>2, <1>3 DEF Requested
<1>4. ASSUME NEW p \in Postures, SetPosture(h, p) PROVE \E m, entry : Requested(h, m, entry)
  <2> DEFINE m == [mem EXCEPT !.posture = p]
  <2>1. Whole(m) /\ m.devices = mem.devices BY <1>1, ChangedWhole
  <2>2. Change(h, m, None) /\ scanned' = scanned /\ told' = told BY <1>4 DEF SetPosture
  <2> HIDE DEF m
  <2> QED BY <1>3, <2>1, <2>2
<1>5. ASSUME NEW w \in Words, NEW entry \in BOOLEAN \cup {None}, PatchSettings(h, w, entry)
      PROVE  \E m, e : Requested(h, m, e)
  <2> DEFINE m == [mem EXCEPT !.out = w]
  <2>1. Whole(m) /\ m.devices = mem.devices BY <1>1, ChangedWhole
  <2>2. Change(h, m, entry) /\ scanned' = scanned /\ told' = told BY <1>5 DEF PatchSettings
  <2> HIDE DEF m
  <2> QED BY <1>3, <2>1, <2>2
<1>6. ASSUME NEW a \in AppNames, NEW p \in Words, SetPolicy(h, a, p)
      PROVE  \E m, entry : Requested(h, m, entry)
  <2> DEFINE s == PutApp(mem.apps, a, p)
             m == [mem EXCEPT !.apps = s]
  <2>1. AppsOk(s) BY <1>2, PutAppOk
  <2>2. Change(h, m, None) /\ scanned' = scanned /\ told' = told BY <1>6 DEF SetPolicy
  <2> HIDE DEF s
  <2>3. Whole(m) /\ m.devices = mem.devices BY <1>1, <2>1, ChangedWhole
  <2> HIDE DEF m
  <2> QED BY <1>3, <2>2, <2>3
<1>7. ASSUME NEW r \in RuleEntries, CreateRule(h, r) PROVE \E m, entry : Requested(h, m, entry)
  <2> DEFINE s == Append(mem.rules, r)
             m == [mem EXCEPT !.rules = s]
  <2>1. s \in Seq(RuleEntries) /\ Len(s) <= MaxRules
    <3>1. Len(mem.rules) \in Nat /\ MaxRules \in Nat BY <1>2, StateAssumption, LenProperties
    <3>2. Len(mem.rules) < MaxRules BY <1>7 DEF CreateRule
    <3> QED BY <1>2, <3>1, <3>2
  <2>2. Change(h, m, None) /\ scanned' = scanned /\ told' = told BY <1>7 DEF CreateRule
  <2> HIDE DEF s
  <2>3. Whole(m) /\ m.devices = mem.devices BY <1>1, <2>1, ChangedWhole
  <2> HIDE DEF m
  <2> QED BY <1>3, <2>2, <2>3
<1>8. ASSUME NEW i \in DOMAIN mem.rules, NEW name \in Names \cup {mem.rules[i].name}, NEW action \in Actions,
             NEW enabled \in BOOLEAN, PatchRule(h, i, name, action, enabled)
      PROVE  \E m, entry : Requested(h, m, entry)
  <2> DEFINE m == [mem EXCEPT !.rules[i].name = name, !.rules[i].action = action, !.rules[i].enabled = enabled]
             s == m.rules
  <2>1. Change(h, m, None) /\ scanned' = scanned /\ told' = told BY <1>8 DEF PatchRule
  <2>2. DOMAIN mem.rules = 1 .. Len(mem.rules) /\ Len(mem.rules) \in Nat
        /\ \A j \in DOMAIN mem.rules : mem.rules[j] \in RuleEntries
    BY <1>2, LenProperties, ElementOfSeq
  <2> DEFINE v == mem.rules
             q == [v[i] EXCEPT !.name = name, !.action = action, !.enabled = enabled]
  <2>3. q \in RuleEntries BY <2>2 DEF RuleEntries
  <2>4. s = [v EXCEPT ![i] = q] BY <1>2, <2>2 DEF Tables
  <2>5. m.posture = mem.posture /\ m.out = mem.out /\ m.apps = mem.apps /\ m.devices = mem.devices
    BY <1>2 DEF Tables
  <2> HIDE DEF q
  <2>6. s \in Seq(RuleEntries) /\ Len(s) = Len(mem.rules)
    <3> DEFINE u == [v EXCEPT ![i] = q]
               n == Len(v)
    <3>1. n \in Nat /\ DOMAIN v = 1 .. n /\ v \in [1 .. n -> RuleEntries] BY <1>2, LenProperties
    <3>2. u \in [1 .. n -> RuleEntries] BY <2>3, <3>1
    <3> HIDE DEF u, n
    <3>3. u \in Seq(RuleEntries) /\ Len(u) = n BY <3>1, <3>2, IsASeq, LenProperties
    <3> QED BY <2>4, <3>3 DEF u, n
  <2>7. m \in Tables
    <3>1. DOMAIN m = DOMAIN mem /\ m = [x \in DOMAIN mem |-> m[x]] OBVIOUS
    <3>2. m \in [{"posture", "out", "apps", "rules", "devices"} -> {m[x] : x \in DOMAIN mem}]
      BY <1>2, <3>1 DEF Tables
    <3> QED BY <1>2, <2>5, <2>6, <3>2 DEF Tables
  <2> HIDE DEF m
  <2>8. Whole(m) BY <1>1, <1>2, <2>5, <2>6, <2>7 DEF Whole
  <2> QED BY <1>3, <2>1, <2>5, <2>8
<1>9. ASSUME NEW i \in DOMAIN mem.rules, DeleteRule(h, i) PROVE \E m, entry : Requested(h, m, entry)
  <2> DEFINE s == RemoveAt(mem.rules, i)
             m == [mem EXCEPT !.rules = s]
  <2>1. s \in Seq(RuleEntries) /\ Len(s) <= MaxRules
    <3> DEFINE v == mem.rules
               n == Len(v)
               x == SubSeq(v, 1, i - 1)
               y == SubSeq(v, i + 1, n)
    <3>1. n \in Nat /\ i \in 1 .. n /\ v \in Seq(RuleEntries) /\ n <= MaxRules /\ MaxRules \in Nat
      BY <1>2, StateAssumption, LenProperties
    <3> HIDE DEF v
    <3>2. x \in Seq(RuleEntries) /\ Len(x) = i - 1 /\ y \in Seq(RuleEntries) /\ Len(y) = n - i BY <3>1
    <3>3. s = x \o y BY DEF RemoveAt, v
    <3> HIDE DEF x, y, n, s
    <3>4. x \o y \in Seq(RuleEntries) /\ Len(x \o y) = Len(x) + Len(y) BY <3>2
    <3> QED BY <3>1, <3>2, <3>3, <3>4
  <2>2. Change(h, m, None) /\ scanned' = scanned /\ told' = told BY <1>9 DEF DeleteRule
  <2> HIDE DEF s
  <2>3. Whole(m) /\ m.devices = mem.devices BY <1>1, <2>1, ChangedWhole
  <2> HIDE DEF m
  <2> QED BY <1>3, <2>2, <2>3
<1>10. ASSUME NEW met \in SetToAllKPermutations(Macs), ScanDevices(h, met)
       PROVE  \E m, entry : Requested(h, m, entry)
  <2> DEFINE v == mem.devices
             room == MaxDevices - Len(v)
             k == Min({Len(met), room})
             added == SubSeq(met, 1, k)
             s == v \o added
             m == [mem EXCEPT !.devices = s]
  <2>1. met \in Seq(Macs) /\ IsInjective(met)
    <3>1. PICK S \in SUBSET Macs : met \in SetToSeqs(S) BY DEF SetToAllKPermutations
    <3>2. IsFiniteSet(S) BY StateAssumption, FS_Subset
    <3>3. Cardinality(S) \in Nat BY <3>2, FS_CardinalityType
    <3>4. met \in [1 .. Cardinality(S) -> S] /\ \A i, j \in 1 .. Cardinality(S) : i # j => met[i] # met[j]
      BY <3>1 DEF SetToSeqs
    <3>5. met \in [1 .. Cardinality(S) -> Macs] BY <3>4
    <3>6. met \in Seq(Macs) BY <3>3, <3>5, IsASeq
    <3> QED BY <3>4, <3>6 DEF IsInjective
  <2>2. Len(met) \in Nat /\ Len(v) \in Nat /\ room \in Nat /\ MaxDevices \in Nat
    BY <1>2, <2>1, StateAssumption, LenProperties
  <2>3. k \in 0 .. Len(met) /\ k <= room
    <3> DEFINE a == Len(met)
               P(x) == x \in {a, room} /\ \A y \in {a, room} : x <= y
    <3>1. a \in Nat /\ room \in Nat BY <2>2
    <3> HIDE DEF a, room
    <3>2. \E x : P(x)
      <4>1. P(a) \/ P(room) BY <3>1
      <4> QED BY <4>1
    <3>3. P(CHOOSE x : P(x)) BY <3>2, Zenon
    <3>4. k = CHOOSE x : P(x) BY DEF Min, a
    <3>5. P(k) BY <3>3, <3>4, Zenon
    <3> QED BY <3>1, <3>5 DEF a
  <2>4. /\ ToSet(met) \cap ToSet(v) = {} /\ told' \in {told, told \o added} /\ scanned' \in BOOLEAN
        /\ Change(h, m, None)
    BY <1>10 DEF ScanDevices
  <2> HIDE DEF k, room
  <2>5. added \in Seq(Macs) /\ Len(added) = k /\ \A i \in 1 .. k : added[i] = met[i] BY <2>1, <2>2, <2>3
  <2> HIDE DEF added
  <2>6. DOMAIN added = 1 .. k /\ DOMAIN met = 1 .. Len(met) BY <2>1, <2>5, LenProperties
  <2>7. \A i \in 1 .. k : i \in 1 .. Len(met) BY <2>2, <2>3
  <2>8. IsInjective(added) BY <2>1, <2>5, <2>6, <2>7 DEF IsInjective
  <2>9. ToSet(v) \cap ToSet(added) = {} BY <2>4, <2>5, <2>6, <2>7 DEF ToSet
  <2> HIDE DEF v
  <2>10. v \in Seq(Macs) /\ IsInjective(v) /\ room = MaxDevices - Len(v) BY <1>2 DEF v, room
  <2>11. IsInjective(s) BY <2>5, <2>8, <2>9, <2>10, JoinedDistinct
  <2>12. s \in Seq(Macs) /\ Len(s) = Len(v) + k BY <2>5, <2>10
  <2>13. Len(s) <= MaxDevices BY <2>2, <2>3, <2>10, <2>12
  <2> HIDE DEF s
  <2>14. Whole(m) /\ m.devices = s BY <1>1, <2>11, <2>12, <2>13, ChangedWhole
  <2> HIDE DEF m
  <2>15. m.devices = mem.devices \o added BY <2>14 DEF s, v
  <2>16. Requested(h, m, None) BY <2>4, <2>5, <2>8, <2>9, <2>14, <2>15 DEF Requested, v
  <2> QED BY <2>16
<1>11. ASSUME NEW name \in Names, NEW action \in Actions, NEW enabled \in BOOLEAN
       PROVE  [name |-> name, action |-> action, enabled |-> enabled, builtin |-> FALSE] \in RuleEntries
  BY DEF RuleEntries
<1> QED BY <1>2, <1>4, <1>5, <1>6, <1>7, <1>8, <1>9, <1>10, <1>11 DEF Request

USE DEF disk, ghosts

LEMMA InitCorrect == Init => IInv
<1> SUFFICES ASSUME Init PROVE IInv OBVIOUS
<1>1. Seed \in Settled /\ Seed \in Tables /\ Seed.devices = <<>> BY SeedSettled DEF Settled
<1>2. Whole(Seed)
  <2>1. IsInjective(<<>>) BY DEF IsInjective
  <2> QED BY <1>1, <2>1 DEF Whole, Settled, SettledApps, SettledRules
<1>3. PICK known \in {<<>>} \cup {<<d>> : d \in Macs} :
        /\ old = [Seed EXCEPT !.devices = known] /\ new = old
        /\ file = IF known = <<>> THEN None ELSE Image(old)
  BY DEF Init
<1>4. known \in Seq(Macs) /\ Len(known) <= MaxDevices /\ IsInjective(known)
  <2>1. MaxDevices \in Nat \ {0} BY StateAssumption
  <2>2. CASE known = <<>> BY <2>1, <2>2 DEF IsInjective
  <2>3. CASE \E d \in Macs : known = <<d>> BY <2>1, <2>3 DEF IsInjective
  <2> QED BY <2>2, <2>3
<1>5. Whole(old) BY <1>2, <1>3, <1>4, ChangedWhole
<1>6. Readable(file) BY <1>3, <1>5, ImageReadable DEF Readable
<1>7. Load(file) = Reads(old)
  <2>1. CASE known = <<>>
    <3>1. old = Seed BY <1>1, <1>3, <2>1 DEF Tables
    <3>2. Load(file) = Seed BY <1>3, <2>1 DEF Load
    <3> QED BY <1>1, <3>1, <3>2, ReadsAgain
  <2>2. CASE known # <<>> BY <1>3, <2>2 DEF Reads
  <2> QED BY <2>1, <2>2
<1>8. None \notin Handlers BY StateAssumption
<1>9. TypeOK
  <2>1. mem = Seed /\ Whole(mem) BY <1>2 DEF Init
  <2>2. /\ mem \in Tables /\ Len(mem.rules) <= MaxRules /\ Len(mem.devices) <= MaxDevices
        /\ IsInjective(mem.devices) /\ IsInjective([i \in DOMAIN mem.apps |-> mem.apps[i].name])
    BY <2>1 DEF Whole, AppsOk
  <2> QED BY <2>2 DEF Init, TypeOK
<1>10. Held BY <1>8 DEF Init, Held
<1>11. Written BY <1>3, <1>5, <1>6, <1>7 DEF Init, Written, Readable
<1>12. Stopped BY DEF Init, Stopped
<1>13. Entry BY DEF Init, Entry, Asking
<1>14. Announced
  <2>1. told = <<>> /\ ~on /\ ~behind /\ ~torn /\ lost = FALSE BY DEF Init
  <2>2. IsInjective(<<>>) /\ ToSet(<<>>) = {} /\ <<>> \in Seq(Macs) BY DEF IsInjective, ToSet
  <2> QED BY <2>1, <2>2 DEF Announced
<1> QED BY <1>9, <1>10, <1>11, <1>12, <1>13, <1>14 DEF IInv

\* A start reads tables that may be in memory, and writing them back would change
\* nothing.
LEMMA StartKeeps == IInv /\ Start => IInv'
<1> SUFFICES ASSUME IInv, Start PROVE IInv' OBVIOUS
<1> DEFINE m == Load(file)
<1>1. Whole(m) /\ m \in Settled BY LoadReadable DEF IInv, Written
<1>2. Reads(m) = m BY <1>1, ReadsAgain
<1>3. mem' = m /\ scanned' = (m.devices # <<>>) BY DEF Start
<1> HIDE DEF m
<1>4. TypeOK'
  <2>1. /\ m \in Tables /\ Len(m.rules) <= MaxRules /\ Len(m.devices) <= MaxDevices
        /\ IsInjective(m.devices) /\ IsInjective([i \in DOMAIN m.apps |-> m.apps[i].name])
    BY <1>1 DEF Whole, AppsOk
  <2> QED BY <1>3, <2>1 DEF IInv, TypeOK, Start
<1>5. Held' BY DEF IInv, Held, Start
<1>6. Written'
  <2>1. ~torn => Reads(m) = Reads(old) BY <1>2 DEF IInv, Written, m
  <2>2. lock = None BY DEF IInv, Stopped, Start
  <2> QED BY <1>3, <2>1, <2>2 DEF IInv, Written, Start
<1>7. Stopped' BY DEF Stopped, Start
<1>8. Entry' BY DEF IInv, Entry, Stopped, Start, Asking
<1>9. Announced'
  <2>1. ASSUME ~lost PROVE m.devices = new.devices
    <3>1. ~behind /\ ~torn BY <2>1 DEF IInv, Announced, Start
    <3>2. old = new /\ m = Reads(old) /\ Whole(old) BY <3>1 DEF IInv, Written, m
    <3> QED BY <3>2, DevicesRead DEF Whole
  <2> QED BY <1>3, <2>1 DEF IInv, Announced, Start
<1> QED BY <1>4, <1>5, <1>6, <1>7, <1>8, <1>9 DEF IInv

LEMMA CrashKeeps == IInv /\ Crash => IInv'
<1> SUFFICES ASSUME IInv, Crash PROVE IInv' OBVIOUS
<1>1. Whole(Seed)
  <2>1. IsInjective(<<>>) BY DEF IsInjective
  <2> QED BY <2>1, SeedSettled DEF Whole, Settled, SettledApps, SettledRules
<1>2. TypeOK'
  <2>1. mem' = Seed BY DEF Crash
  <2>2. /\ Seed \in Tables /\ Len(Seed.rules) <= MaxRules /\ Len(Seed.devices) <= MaxDevices
        /\ IsInjective(Seed.devices) /\ IsInjective([i \in DOMAIN Seed.apps |-> Seed.apps[i].name])
    BY <1>1 DEF Whole, AppsOk
  <2> QED BY <2>1, <2>2 DEF IInv, TypeOK, Crash
<1>3. Held'
  <2>1. None \notin Handlers BY StateAssumption
  <2> QED BY <2>1 DEF Held, Crash
<1>4. Written' BY DEF IInv, Written, Crash
<1>5. Stopped' BY DEF Stopped, Crash
<1>6. Entry' BY DEF Entry, Crash, Asking
<1>7. Announced' BY DEF IInv, Announced, Written, Crash
<1> QED BY <1>2, <1>3, <1>4, <1>5, <1>6, <1>7 DEF IInv

LEMMA SeeKeeps == ASSUME IInv, NEW a \in AppNames, SeeApp(a) PROVE IInv'
<1> DEFINE e == [name |-> a, policy |-> "allow", pinned |-> FALSE]
           s == Append(mem.apps, e)
           m == [mem EXCEPT !.apps = s]
<1>1. mem' = m /\ lock = None /\ on BY DEF SeeApp
<1>2. Whole(mem) BY MemWhole DEF IInv
<1>3. mem \in Tables /\ AppsOk(mem.apps) BY <1>2 DEF Whole
<1>4. e \in AppEntries /\ ~Remembers(e) BY StateAssumption DEF AppEntries, Remembers
<1>5. \A i \in DOMAIN mem.apps : mem.apps[i].name # e.name BY DEF SeeApp
<1> HIDE DEF e
<1>6. AppsOk(s) BY <1>3, <1>4, <1>5, AddAppOk
<1>7. Image(m) = Image(mem) BY <1>3, <1>4, SeenNotWritten
<1> HIDE DEF s
<1>8. Whole(m) /\ m.devices = mem.devices BY <1>2, <1>6, ChangedWhole
<1> HIDE DEF m
<1>9. Reads(m) = Reads(mem) BY <1>7 DEF Reads
<1>10. TypeOK'
  <2>1. /\ m \in Tables /\ Len(m.rules) <= MaxRules /\ Len(m.devices) <= MaxDevices
        /\ IsInjective(m.devices) /\ IsInjective([i \in DOMAIN m.apps |-> m.apps[i].name])
    BY <1>8 DEF Whole, AppsOk
  <2> QED BY <1>1, <2>1 DEF IInv, TypeOK, SeeApp
<1>11. Held' BY DEF IInv, Held, SeeApp
<1>12. Written' BY <1>1, <1>9 DEF IInv, Written, SeeApp
<1>13. Stopped' BY DEF IInv, Stopped, SeeApp
<1>14. Entry' BY DEF IInv, Entry, SeeApp, Asking
<1>15. Announced' BY <1>1, <1>8 DEF IInv, Announced, SeeApp
<1> QED BY <1>10, <1>11, <1>12, <1>13, <1>14, <1>15 DEF IInv

LEMMA RequestKeeps == ASSUME IInv, NEW h \in Handlers, Request(h) PROVE IInv'
<1>1. PICK m, entry : Requested(h, m, entry) BY RequestIs DEF IInv
<1>2. /\ on /\ lock = None /\ pc[h] = "idle" /\ mem' = m /\ new' = m
      /\ want' = [want EXCEPT ![h] = entry]
      /\ lock' = h /\ pc' = [pc EXCEPT ![h] = "open"] /\ behind' = TRUE
      /\ UNCHANGED <<on, saw, file, tmp, startup, shown, old, torn, clash, lost, faults>>
  BY <1>1 DEF Requested, Change, Begin, Saves
<1>3. Whole(m) /\ entry \in BOOLEAN \cup {None} /\ scanned' \in BOOLEAN BY <1>1 DEF Requested
<1>4. TypeOK'
  <2>1. /\ m \in Tables /\ Len(m.rules) <= MaxRules /\ Len(m.devices) <= MaxDevices
        /\ IsInjective(m.devices) /\ IsInjective([i \in DOMAIN m.apps |-> m.apps[i].name])
    BY <1>3 DEF Whole, AppsOk
  <2> QED BY <1>2, <1>3, <2>1 DEF IInv, TypeOK
<1>5. Held' BY <1>2, StateAssumption DEF IInv, TypeOK, Held
<1>6. Written' BY <1>2, <1>3 DEF IInv, Written
<1>7. Stopped' BY <1>2 DEF Stopped
<1>8. Entry'
  <2>1. \A g \in Handlers : pc'[g] \in {"entry", "look", "show"} => g # h /\ pc'[g] = pc[g] /\ want'[g] = want[g]
    BY <1>2 DEF IInv, TypeOK
  <2>2. Asking' = Asking BY <1>2 DEF IInv, TypeOK, Asking
  <2> QED BY <1>2, <2>1, <2>2 DEF IInv, Entry
<1>9. Announced'
  <2>1. CASE m.devices = mem.devices /\ told' = told BY <1>2, <2>1 DEF IInv, Announced
  <2>2. CASE \E added \in Seq(Macs) :
               /\ IsInjective(added) /\ ToSet(mem.devices) \cap ToSet(added) = {}
               /\ m.devices = mem.devices \o added /\ told' \in {told, told \o added}
    <3>1. PICK added \in Seq(Macs) :
                 /\ IsInjective(added) /\ ToSet(mem.devices) \cap ToSet(added) = {}
                 /\ m.devices = mem.devices \o added /\ told' \in {told, told \o added}
      BY <2>2
    <3>2. told \in Seq(Macs) /\ mem.devices \in Seq(Macs) /\ IsInjective(mem.devices)
      BY DEF IInv, Announced, TypeOK, Tables
    <3>3. told' \in Seq(Macs)
      <4>1. told \o added \in Seq(Macs) BY <3>1, <3>2
      <4>2. told' = told \/ told' = told \o added BY <3>1
      <4> QED BY <3>2, <4>1, <4>2, Zenon
    <3>4. ASSUME ~lost PROVE IsInjective(told') /\ ToSet(told') \subseteq ToSet(m.devices)
      <4>1. IsInjective(told) /\ ToSet(told) \subseteq ToSet(mem.devices)
        BY <1>2, <3>4 DEF IInv, Announced
      <4>2. ToSet(m.devices) = ToSet(mem.devices) \cup ToSet(added) BY <3>1, <3>2, JoinedDistinct
      <4>3. IsInjective(told \o added) /\ ToSet(told \o added) = ToSet(told) \cup ToSet(added)
        BY <3>1, <3>2, <4>1, JoinedDistinct
      <4> QED BY <3>1, <4>1, <4>2, <4>3
    <3> QED BY <1>2, <3>3, <3>4 DEF IInv, Announced
  <2> QED BY <1>1, <2>1, <2>2 DEF Requested
<1> QED BY <1>4, <1>5, <1>6, <1>7, <1>8, <1>9 DEF IInv

LEMMA OpenKeeps == ASSUME IInv, NEW h \in Handlers, OpenTmp(h) PROVE IInv'
<1>1. /\ pc[h] = "open" /\ lock = h /\ UNCHANGED <<on, mem, scanned, want, saw, startup, shown, ghosts, told>>
      /\ on /\ behind
  <2>1. pc[h] = "open" /\ UNCHANGED <<on, mem, scanned, want, saw, startup, shown, ghosts, told>>
    BY DEF OpenTmp
  <2>2. lock = h BY <2>1 DEF IInv, Held
  <2> QED BY <2>1, <2>2, StateAssumption DEF IInv, Written
<1>2. CASE tmp' = <<>> /\ UNCHANGED <<file, lock>> /\ pc' = [pc EXCEPT ![h] = "write"]
  <2>1. Readable(<<>>)
    <3>1. AreLines(<<>>) /\ DevicesOnce(<<>>) BY DEF AreLines, DevicesOnce
    <3> QED BY <3>1 DEF Readable
  <2>2. TypeOK' BY <1>1, <1>2 DEF IInv, TypeOK
  <2>3. Held' BY <1>1, <1>2 DEF IInv, TypeOK, Held
  <2>4. Written' BY <1>1, <1>2, <2>1 DEF IInv, Written
  <2>5. Stopped' BY <1>1 DEF Stopped
  <2>6. Asking' = Asking BY <1>1, <1>2 DEF IInv, TypeOK, Asking
  <2>7. Entry' BY <1>1, <1>2, <2>6 DEF IInv, TypeOK, Entry
  <2>8. Announced' BY <1>1 DEF IInv, Announced
  <2> QED BY <2>2, <2>3, <2>4, <2>5, <2>7, <2>8 DEF IInv
<1>3. CASE Leave(h) /\ UNCHANGED <<file, tmp>>
  <2>1. /\ lock' = None /\ None \notin Handlers
        /\ pc' = [pc EXCEPT ![h] = IF want[h] = None THEN "idle" ELSE "entry"]
    BY <1>3, StateAssumption DEF Leave
  <2>2. TypeOK' BY <1>1, <2>1 DEF IInv, TypeOK
  <2>3. Held' BY <1>1, <2>1 DEF IInv, TypeOK, Held
  <2>4. Written' BY <1>1, <1>3, <2>1 DEF IInv, Written
  <2>5. Stopped' BY <1>1 DEF Stopped
  <2>6. Asking' = Asking BY <1>1, <2>1 DEF IInv, TypeOK, Asking
  <2>7. Entry' BY <1>1, <2>1, <2>6 DEF IInv, TypeOK, Entry
  <2>8. Announced' BY <1>1 DEF IInv, Announced
  <2> QED BY <2>2, <2>3, <2>4, <2>5, <2>7, <2>8 DEF IInv
<1> QED BY <1>2, <1>3 DEF OpenTmp, Opened

LEMMA WriteKeeps == ASSUME IInv, NEW h \in Handlers, WriteTmp(h) PROVE IInv'
<1>1. /\ pc[h] = "write" /\ pc' = [pc EXCEPT ![h] = "replace"]
      /\ UNCHANGED <<on, mem, scanned, lock, want, saw, file, startup, shown, ghosts, told>>
      /\ lock = h /\ on
  <2>1. /\ pc[h] = "write" /\ pc' = [pc EXCEPT ![h] = "replace"]
        /\ UNCHANGED <<on, mem, scanned, lock, want, saw, file, startup, shown, ghosts, told>>
    BY DEF WriteTmp
  <2>2. lock = h BY <2>1 DEF IInv, Held
  <2> QED BY <2>1, <2>2, StateAssumption DEF IInv, Written
<1>2. Readable(tmp')
  <2>1. Whole(mem) BY MemWhole DEF IInv
  <2>2. \/ tmp' = Image(mem)
        \/ \E n \in 0 .. Len(Image(mem)) - 1 : tmp' = SubSeq(Image(mem), 1, n)
    BY DEF WriteTmp
  <2> QED BY <2>1, <2>2, ImageReadable, PrefixReadable
<1>3. TypeOK' BY <1>1 DEF IInv, TypeOK
<1>4. Held' BY <1>1 DEF IInv, TypeOK, Held
<1>5. Written' BY <1>1, <1>2 DEF IInv, Written
<1>6. Stopped' BY <1>1 DEF Stopped
<1>7. Asking' = Asking BY <1>1 DEF IInv, TypeOK, Asking
<1>8. Entry' BY <1>1, <1>7 DEF IInv, TypeOK, Entry
<1>9. Announced' BY <1>1 DEF IInv, Announced
<1> QED BY <1>3, <1>4, <1>5, <1>6, <1>8, <1>9 DEF IInv

\* The file that has been written replaces the one before: the tables written last
\* are now those of the last change.
LEMMA ReplaceKeeps == ASSUME IInv, NEW h \in Handlers, Replace(h) PROVE IInv'
<1>1. /\ pc[h] = "replace" /\ lock' = None
      /\ pc' = [pc EXCEPT ![h] = IF want[h] = None THEN "idle" ELSE "entry"]
      /\ UNCHANGED <<on, mem, scanned, want, saw, startup, shown, new, clash, lost, told>>
      /\ lock = h /\ on /\ behind /\ mem = new /\ None \notin Handlers
  <2>1. /\ pc[h] = "replace" /\ lock' = None
        /\ pc' = [pc EXCEPT ![h] = IF want[h] = None THEN "idle" ELSE "entry"]
        /\ UNCHANGED <<on, mem, scanned, want, saw, startup, shown, new, clash, lost, told>>
    BY DEF Replace, Leave
  <2>2. lock = h BY <2>1 DEF IInv, Held
  <2> QED BY <2>1, <2>2, StateAssumption DEF IInv, Written
<1>2. TypeOK' BY <1>1 DEF IInv, TypeOK
<1>3. Held' BY <1>1 DEF IInv, TypeOK, Held
<1>4. Written'
  <2>1. CASE /\ file' = tmp /\ tmp' = None /\ torn' = (tmp # Image(mem)) /\ behind' = FALSE /\ old' = mem
    <3>1. ~torn' => Load(file') = Reads(mem) BY <2>1 DEF Reads
    <3>2. Whole(mem) BY MemWhole DEF IInv
    <3>3. Readable(None) BY DEF Readable
    <3> QED BY <1>1, <2>1, <3>1, <3>2, <3>3 DEF IInv, Written
  <2>2. CASE UNCHANGED <<file, tmp, torn, behind, old>> BY <1>1, <2>2 DEF IInv, Written
  <2> QED BY <2>1, <2>2 DEF Replace
<1>5. Stopped' BY <1>1 DEF Stopped
<1>6. Asking' = Asking BY <1>1 DEF IInv, TypeOK, Asking
<1>7. Entry' BY <1>1, <1>6 DEF IInv, TypeOK, Entry
<1>8. Announced' BY <1>1 DEF IInv, Announced
<1> QED BY <1>2, <1>3, <1>4, <1>5, <1>7, <1>8 DEF IInv

LEMMA SetKeeps == ASSUME IInv, NEW h \in Handlers, SetEntry(h) PROVE IInv'
<1>1. /\ pc[h] = "entry" /\ pc' = [pc EXCEPT ![h] = "look"] /\ startup' \in {startup, want[h]}
      /\ clash' = (clash \/ Asking # {})
      /\ UNCHANGED <<on, mem, scanned, lock, want, saw, file, tmp, shown, old, new, torn, behind, lost, told>>
  BY DEF SetEntry
<1>2. want[h] \in BOOLEAN BY <1>1 DEF IInv, Entry
<1>3. TypeOK' BY <1>1, <1>2 DEF IInv, TypeOK
<1>4. Held' BY <1>1 DEF IInv, TypeOK, Held
<1>5. Written' BY <1>1 DEF IInv, Written
<1>6. Stopped' BY <1>1 DEF IInv, Stopped
<1>7. Entry'
  <2>1. clash' \in BOOLEAN BY <1>1 DEF IInv, Entry
  <2>2. \A g \in Handlers : (pc'[g] = "entry" => want'[g] \in BOOLEAN) /\ (pc'[g] = "show" => saw'[g] \in BOOLEAN)
    BY <1>1 DEF IInv, Entry, TypeOK
  <2>3. ASSUME ~clash' PROVE Asking' = {h} /\ \A g \in Handlers : pc'[g] # "show"
    <3>1. Asking = {} BY <1>1, <2>3
    <3>2. \A g \in Handlers : pc[g] \notin {"look", "show"} BY <3>1 DEF Asking
    <3> QED BY <1>1, <3>2 DEF IInv, TypeOK, Asking
  <2> QED BY <2>1, <2>2, <2>3 DEF Entry
<1>8. Announced' BY <1>1 DEF IInv, Announced
<1> QED BY <1>3, <1>4, <1>5, <1>6, <1>7, <1>8 DEF IInv

LEMMA LookKeeps == ASSUME IInv, NEW h \in Handlers, LookEntry(h) PROVE IInv'
<1>1. /\ pc[h] = "look" /\ pc' = [pc EXCEPT ![h] = "show"] /\ saw' = [saw EXCEPT ![h] = startup]
      /\ UNCHANGED <<on, mem, scanned, lock, want, disk, shown, ghosts, told>>
  BY DEF LookEntry, Found
<1>2. TypeOK' BY <1>1 DEF IInv, TypeOK
<1>3. Held' BY <1>1 DEF IInv, TypeOK, Held
<1>4. Written' BY <1>1 DEF IInv, Written
<1>5. Stopped' BY <1>1 DEF IInv, Stopped
<1>6. Entry'
  <2>1. Asking' = Asking BY <1>1 DEF IInv, TypeOK, Asking
  <2>2. \A g \in Handlers : (pc'[g] = "entry" => want'[g] \in BOOLEAN) /\ (pc'[g] = "show" => saw'[g] \in BOOLEAN)
    BY <1>1 DEF IInv, Entry, TypeOK
  <2>3. (\A g \in Handlers : pc[g] = "show" => saw[g] = startup) =>
          \A g \in Handlers : pc'[g] = "show" => saw'[g] = startup
    BY <1>1 DEF IInv, TypeOK
  <2> QED BY <1>1, <2>1, <2>2, <2>3 DEF IInv, Entry
<1>7. Announced' BY <1>1 DEF IInv, Announced
<1> QED BY <1>2, <1>3, <1>4, <1>5, <1>6, <1>7 DEF IInv

LEMMA ShowKeeps == ASSUME IInv, NEW h \in Handlers, ShowEntry(h) PROVE IInv'
<1>1. /\ pc[h] = "show" /\ pc' = [pc EXCEPT ![h] = "idle"] /\ shown' = saw[h]
      /\ saw' = [saw EXCEPT ![h] = None] /\ want' = [want EXCEPT ![h] = None]
      /\ UNCHANGED <<on, mem, scanned, lock, disk, ghosts, told>>
  BY DEF ShowEntry
<1>2. saw[h] \in BOOLEAN BY <1>1 DEF IInv, Entry
<1>3. TypeOK' BY <1>1, <1>2 DEF IInv, TypeOK
<1>4. Held' BY <1>1 DEF IInv, TypeOK, Held
<1>5. Written' BY <1>1 DEF IInv, Written
<1>6. Stopped' BY <1>1 DEF IInv, TypeOK, Stopped
<1>7. Entry'
  <2>1. \A g \in Handlers : (pc'[g] = "entry" => want'[g] \in BOOLEAN) /\ (pc'[g] = "show" => saw'[g] \in BOOLEAN)
    BY <1>1 DEF IInv, Entry, TypeOK
  <2>2. ASSUME on, ~clash PROVE Asking' = {} /\ shown' = startup
    <3>1. h \in Asking /\ \A g \in Asking : g = h BY <1>1, <2>2 DEF IInv, Entry, Asking
    <3>2. saw[h] = startup BY <1>1, <2>2 DEF IInv, Entry
    <3> QED BY <1>1, <3>1, <3>2 DEF IInv, TypeOK, Asking
  <2>3. ASSUME on, ~clash PROVE \A g \in Handlers : pc'[g] # "show" BY <2>2, <2>3 DEF Asking
  <2> QED BY <1>1, <2>1, <2>2, <2>3 DEF IInv, Entry
<1>8. Announced' BY <1>1 DEF IInv, Announced
<1> QED BY <1>3, <1>4, <1>5, <1>6, <1>7, <1>8 DEF IInv

LEMMA NextKeeps == IInv /\ [Next]_vars => IInv'
<1> SUFFICES ASSUME IInv, [Next]_vars PROVE IInv' OBVIOUS
<1>1. CASE Start BY <1>1, StartKeeps
<1>2. CASE Crash BY <1>2, CrashKeeps
<1>3. CASE \E a \in AppNames : SeeApp(a) BY <1>3, SeeKeeps
<1>4. ASSUME NEW h \in Handlers, Request(h) PROVE IInv' BY <1>4, RequestKeeps
<1>5. ASSUME NEW h \in Handlers, OpenTmp(h) PROVE IInv' BY <1>5, OpenKeeps
<1>6. ASSUME NEW h \in Handlers, WriteTmp(h) PROVE IInv' BY <1>6, WriteKeeps
<1>7. ASSUME NEW h \in Handlers, Replace(h) PROVE IInv' BY <1>7, ReplaceKeeps
<1>8. ASSUME NEW h \in Handlers, SetEntry(h) PROVE IInv' BY <1>8, SetKeeps
<1>9. ASSUME NEW h \in Handlers, LookEntry(h) PROVE IInv' BY <1>9, LookKeeps
<1>10. ASSUME NEW h \in Handlers, ShowEntry(h) PROVE IInv' BY <1>10, ShowKeeps
<1>11. CASE UNCHANGED vars
  BY <1>11 DEF vars, IInv, TypeOK, Held, Written, Stopped, Entry, Announced, Asking
<1> QED BY <1>1, <1>2, <1>3, <1>4, <1>5, <1>6, <1>7, <1>8, <1>9, <1>10, <1>11 DEF Next

LEMMA Invariance == Spec => []IInv
  BY InitCorrect, NextKeeps, PTL DEF Spec

-----------------------------------------------------------------------------
(***************************************************************************)
(* What the user decided: each line read either leaves what an earlier one *)
(* gave, or is about the same thing.                                       *)
(***************************************************************************)

\* The rules as the lines of the rules are read.
RulesGo(R, m) ==
  /\ R[0] = Seed.rules /\ R[Len(m.rules)] = Reads(m).rules
  /\ \A i \in 0 .. Len(m.rules) : SettledRules(R[i])
  /\ \A i \in 1 .. Len(m.rules) : R[i] = ReadRule(R[i - 1], m.rules[i])

LEMMA RulesUp ==
  ASSUME NEW m, m \in Tables
  PROVE  \E R : RulesGo(R, m)
<1> DEFINE a == Len(Kept(m))
           r == Len(m.rules)
           d == Len(m.devices)
           n == Len(Image(m))
<1>1. a \in Nat /\ r \in Nat /\ d \in Nat
  <2>1. m.rules \in Seq(RuleEntries) /\ m.devices \in Seq(Macs) /\ Kept(m) \in Seq(AppEntries)
    BY KeptIs DEF Tables
  <2> QED BY <2>1, LenProperties
<1>2. PICK T : ReadUp(T, Image(m)) BY ImageIs, Reading
<1>3. Parts(T, m) /\ Steps(T, m) BY <1>2, PartsAre, StepsAre
<1>4. Placed(Image(m), m) BY ImageIs
<1>5. n = 2 + a + r + d BY <1>4 DEF Placed
<1>6. \A i \in 0 .. n : T[i] \in Settled BY <1>2 DEF ReadUp
<1>7. T[2 + a].rules = Seed.rules /\ Reads(m).rules = T[2 + a + r].rules BY <1>3, Zenon DEF Parts
<1>8. \A i \in 1 .. r : T[2 + a + i].rules = ReadRule(T[2 + a + i - 1].rules, m.rules[i])
  BY <1>3, Zenon DEF Steps
<1> HIDE DEF a, r, d, n
<1> DEFINE R == [i \in 0 .. r |-> T[2 + a + i].rules]
<1>9. \A i \in 0 .. r : SettledRules(R[i])
  <2> TAKE i \in 0 .. r
  <2>1. 2 + a + i \in 0 .. n BY <1>1, <1>5
  <2>2. T[2 + a + i] \in Settled BY <1>6, <2>1
  <2> QED BY <2>2 DEF Settled
<1>10. \A i \in 1 .. r : R[i] = ReadRule(R[i - 1], m.rules[i])
  <2> TAKE i \in 1 .. r
  <2>1. i \in 0 .. r /\ i - 1 \in 0 .. r /\ 2 + a + i - 1 = 2 + a + (i - 1) BY <1>1
  <2>2. R[i] = T[2 + a + i].rules /\ R[i - 1] = T[2 + a + i - 1].rules BY <2>1
  <2> QED BY <1>8, <2>2
<1>11. R[0] = Seed.rules /\ R[r] = Reads(m).rules
  <2>1. 0 \in 0 .. r /\ r \in 0 .. r /\ 2 + a + 0 = 2 + a BY <1>1
  <2> QED BY <1>7, <2>1
<1> HIDE DEF R
<1>12. RulesGo(R, m) BY <1>9, <1>10, <1>11, Zenon DEF RulesGo, r
<1> QED BY <1>12

\* If what is in S is what comes after the first b, that is what is left.
LEMMA OnlyTail ==
  ASSUME NEW V, NEW s \in Seq(V), NEW S, NEW b \in 0 .. Len(s),
         \A i \in 1 .. Len(s) : s[i] \in S <=> i > b
  PROVE  /\ Only(s, S) \in Seq(V) /\ Len(Only(s, S)) = Len(s) - b
         /\ \A i \in 1 .. Len(s) - b : Only(s, S)[i] = s[b + i]
<1> DEFINE n == Len(s)
<1>1. n \in Nat /\ (\A i \in 1 .. n : s[i] \in V) /\ b \in Nat /\ b <= n BY LenProperties, ElementOfSeq
<1>2. PICK f \in [0 .. n -> Seq(V)] : Sifts(f, s, S) BY OnlyIs
<1> DEFINE Ok(g, i) == /\ i <= b => g = <<>>
                       /\ i >= b => Len(g) = i - b /\ \A j \in 1 .. i - b : g[j] = s[b + j]
           G == {i \in 0 .. n : Ok(f[i], i)}
<1>3. 0 \in G BY <1>1, <1>2 DEF Sifts
<1>4. ASSUME NEW i \in 1 .. n, i - 1 \in G PROVE i \in G
  <2> DEFINE h == f[i - 1]
             g == f[i]
  <2>1. h \in Seq(V) /\ i \in 0 .. n /\ i - 1 \in 0 .. n BY <1>1, <1>2
  <2>2. Ok(h, i - 1) BY <1>4
  <2>3. g = IF s[i] \in S THEN Append(h, s[i]) ELSE h BY <1>2 DEF Sifts
  <2> HIDE DEF g, h
  <2>4. CASE i <= b
    <3>1. g = h /\ h = <<>> BY <1>1, <2>2, <2>3, <2>4
    <3> QED BY <1>1, <2>1, <2>4, <3>1 DEF g
  <2>5. CASE i > b
    <3>1. g = Append(h, s[i]) /\ s[i] \in V BY <1>1, <2>3, <2>5
    <3> DEFINE p == i - 1 - b
    <3>2. /\ p \in Nat /\ Len(h) = p /\ (\A j \in 1 .. p : h[j] = s[b + j])
          /\ i - b = p + 1 /\ b + (p + 1) = i
      BY <1>1, <2>2, <2>5
    <3> HIDE DEF p
    <3>3. Len(g) = p + 1 /\ (\A j \in 1 .. p : g[j] = h[j]) /\ g[p + 1] = s[i]
      BY <2>1, <3>1, <3>2
    <3>4. \A j \in 1 .. p + 1 : j \in 1 .. p \/ j = p + 1 BY <3>2
    <3>5. \A j \in 1 .. p + 1 : g[j] = s[b + j] BY <3>2, <3>3, <3>4
    <3>6. Ok(g, i) BY <1>1, <2>5, <3>2, <3>3, <3>5
    <3> QED BY <2>1, <3>6 DEF g
  <2> QED BY <1>1, <2>4, <2>5
<1>5. n \in G
  <2> HIDE DEF G
  <2>1. \A i \in 0 .. n : i \in G BY <1>1, <1>3, <1>4, Upward
  <2> QED BY <1>1, <2>1
<1>6. n \in 0 .. n BY <1>1
<1> QED BY <1>1, <1>2, <1>5, <1>6 DEF Sifts

-----------------------------------------------------------------------------
\* The decisions about applications.
LEMMA AppsKept ==
  ASSUME NEW m, m \in Tables, AppsOk(m.apps)
  PROVE  /\ \A a \in ToSet(m.apps) :
              a.pinned => \E b \in ToSet(Reads(m).apps) : b.name = a.name /\ b.policy = a.policy
         /\ \A b \in ToSet(Reads(m).apps) :
              \E a \in ToSet(m.apps) : b.name = a.name /\ b.policy = a.policy
<1> DEFINE k == Kept(m)
           s == Reads(m).apps
           S == {a \in ToSet(m.apps) : Remembers(a)}
<1>1. s \in Seq(AppEntries) /\ Len(s) = Len(k) /\ \A i \in 1 .. Len(k) : s[i] = Decided(k[i])
  BY AppsRead
<1>2. m.apps \in Seq(AppEntries) BY DEF Tables
<1>3. k \in Seq(AppEntries) /\ ToSet(k) = ToSet(m.apps) \cap S
  <2>1. k = Only(m.apps, S) BY DEF Kept
  <2> HIDE DEF S, k
  <2> QED BY <1>2, <2>1, OnlyElems
<1> HIDE DEF k, s
<1>4. ToSet(k) = {k[i] : i \in 1 .. Len(k)} /\ ToSet(s) = {s[i] : i \in 1 .. Len(k)}
  BY <1>1, <1>3, LenProperties DEF ToSet
<1>5. \A i \in 1 .. Len(k) : s[i].name = k[i].name /\ s[i].policy = k[i].policy
  <2> TAKE i \in 1 .. Len(k)
  <2>1. k[i] \in AppEntries /\ s[i] = Decided(k[i]) BY <1>1, <1>3, ElementOfSeq
  <2> QED BY <2>1 DEF Decided, AppEntries
<1>6. ASSUME NEW a \in ToSet(m.apps), a.pinned
      PROVE  \E b \in ToSet(s) : b.name = a.name /\ b.policy = a.policy
  <2>1. a \in ToSet(k) BY <1>3, <1>6 DEF Remembers
  <2>2. PICK i \in 1 .. Len(k) : a = k[i] BY <1>4, <2>1
  <2> QED BY <1>4, <1>5, <2>2
<1>7. ASSUME NEW b \in ToSet(s)
      PROVE  \E a \in ToSet(m.apps) : b.name = a.name /\ b.policy = a.policy
  <2>1. PICK i \in 1 .. Len(k) : b = s[i] BY <1>4, <1>7
  <2>2. k[i] \in ToSet(m.apps) BY <1>3, <1>4
  <2> QED BY <1>5, <2>1, <2>2
<1> QED BY <1>6, <1>7 DEF s

\* The built in rules named x have the switch e.
Switched(rules, x, e) == \A i \in 1 .. Len(rules) : rules[i].builtin /\ rules[i].name = x => rules[i].enabled = e

\* A line about one of another name, or about a rule of the user, leaves them.
LEMMA SwitchesStay ==
  ASSUME NEW rules, SettledRules(rules), NEW x \in RuleNames, NEW e \in BOOLEAN,
         Switched(rules, x, e), NEW q \in RuleEntries, q.builtin => q.name # x
  PROVE  Switched(ReadRule(rules, q), x, e)
<1>1. rules \in Seq(RuleEntries) BY DEF SettledRules
<1>2. Len(rules) \in Nat /\ DOMAIN rules = 1 .. Len(rules) BY <1>1, LenProperties
<1>3. CASE q.builtin /\ q.name # Empty
  <2> DEFINE t == LoadBuiltin(rules, q.name, q.enabled)
  <2>1. ReadRule(rules, q) = t BY <1>3 DEF ReadRule
  <2>2. \A i \in 1 .. Len(rules) : rules[i] \in RuleEntries BY <1>1, ElementOfSeq
  <2>3. /\ DOMAIN t = 1 .. Len(rules)
        /\ \A i \in 1 .. Len(rules) : t[i].builtin = rules[i].builtin /\ t[i].name = rules[i].name
                                      /\ (rules[i].name # q.name => t[i].enabled = rules[i].enabled)
    BY <1>2, <2>2 DEF LoadBuiltin, RuleEntries
  <2>4. t = [i \in 1 .. Len(rules) |-> t[i]] BY <1>2 DEF LoadBuiltin
  <2> HIDE DEF t
  <2>5. Len(t) = Len(rules) BY <1>2, <2>3, <2>4
  <2> QED BY <1>3, <2>1, <2>3, <2>5 DEF Switched
<1>4. CASE ~q.builtin /\ q.action # Empty /\ Len(rules) < MaxRules
  <2> DEFINE u == UserOf(q)
             t == Append(rules, u)
  <2>1. ReadRule(rules, q) = t BY <1>4 DEF ReadRule
  <2>2. ~u.builtin BY <1>4 DEF UserOf, RuleEntries
  <2> HIDE DEF u
  <2>3. Len(t) = Len(rules) + 1 /\ (\A i \in 1 .. Len(rules) : t[i] = rules[i]) /\ t[Len(rules) + 1] = u
    BY <1>1
  <2>4. \A i \in 1 .. Len(rules) + 1 : i \in 1 .. Len(rules) \/ i = Len(rules) + 1 BY <1>2
  <2> HIDE DEF t
  <2> QED BY <2>1, <2>2, <2>3, <2>4 DEF Switched
<1>5. CASE ReadRule(rules, q) = rules BY <1>5
<1> QED BY <1>3, <1>4, <1>5 DEF ReadRule

\* The line about it sets them.
LEMMA SwitchesSet ==
  ASSUME NEW rules, SettledRules(rules), NEW q \in RuleEntries, q.builtin
  PROVE  Switched(ReadRule(rules, q), q.name, q.enabled)
<1>1. rules \in Seq(RuleEntries) BY DEF SettledRules
<1>2. Len(rules) \in Nat /\ DOMAIN rules = 1 .. Len(rules) BY <1>1, LenProperties
<1>3. \A i \in 1 .. Len(rules) : rules[i] \in RuleEntries BY <1>1, ElementOfSeq
<1>4. CASE q.name # Empty
  <2> DEFINE t == LoadBuiltin(rules, q.name, q.enabled)
  <2>1. ReadRule(rules, q) = t BY <1>4 DEF ReadRule
  <2>2. /\ DOMAIN t = 1 .. Len(rules)
        /\ \A i \in 1 .. Len(rules) : t[i].builtin /\ t[i].name = q.name => t[i].enabled = q.enabled
    BY <1>2, <1>3 DEF LoadBuiltin, RuleEntries
  <2>3. t = [i \in 1 .. Len(rules) |-> t[i]] BY <1>2 DEF LoadBuiltin
  <2> HIDE DEF t
  <2>4. Len(t) = Len(rules) BY <1>2, <2>2, <2>3
  <2> QED BY <2>1, <2>2, <2>4 DEF Switched
<1>5. CASE q.name = Empty
  <2>1. ReadRule(rules, q) = rules BY <1>5 DEF ReadRule
  <2>2. ASSUME NEW i \in 1 .. Len(rules), rules[i].builtin PROVE rules[i].name # Empty
    <3>1. DOMAIN Builtins = 1 .. Len(Builtins) /\ Len(Builtins) \in Nat BY StateAssumption, LenProperties
    <3>2. i \in 1 .. Len(Builtins)
      <4>1. i \in 1 .. Len(Builtins) \/ i \in Len(Builtins) + 1 .. Len(rules) BY <1>2, <3>1
      <4> QED BY <2>2, <4>1 DEF SettledRules
    <3>3. rules[i].name = Builtins[i] BY <3>2 DEF SettledRules
    <3> QED BY <3>1, <3>2, <3>3, Texts
  <2> QED BY <1>5, <2>1, <2>2 DEF Switched
<1> QED BY <1>4, <1>5

\* The switch of a built in rule that shares its name with no other.
LEMMA SwitchKept ==
  ASSUME NEW m, m \in Tables, NEW q \in ToSet(m.rules), q.builtin,
         \A p \in ToSet(m.rules) \ {q} : p.builtin => p.name # q.name
  PROVE  Switched(Reads(m).rules, q.name, q.enabled)
<1> DEFINE rs == m.rules
           r == Len(rs)
<1>1. rs \in Seq(RuleEntries) BY DEF Tables
<1>2. /\ r \in Nat /\ \A i \in 1 .. r : rs[i] \in RuleEntries
      /\ ToSet(rs) = {rs[i] : i \in 1 .. r}
  BY <1>1, LenProperties, ElementOfSeq DEF ToSet
<1>3. PICK R : RulesGo(R, m) BY RulesUp
<1>4. /\ R[r] = Reads(m).rules /\ \A i \in 0 .. r : SettledRules(R[i])
      /\ \A i \in 1 .. r : R[i] = ReadRule(R[i - 1], rs[i])
  BY <1>3, Zenon DEF RulesGo
<1> HIDE DEF r, rs
<1>5. PICK k \in 1 .. r : q = rs[k] BY <1>2 DEF rs
<1>6. q \in RuleEntries /\ q.name \in RuleNames /\ q.enabled \in BOOLEAN
  <2>1. q \in RuleEntries BY <1>2, <1>5
  <2> QED BY <2>1 DEF RuleEntries, RuleNames
<1> DEFINE G == {i \in 0 .. r : i >= k => Switched(R[i], q.name, q.enabled)}
<1>7. 0 \in G BY <1>2
<1>8. ASSUME NEW i \in 1 .. r, i - 1 \in G PROVE i \in G
  <2> DEFINE s == R[i - 1]
  <2>1. i \in 0 .. r /\ i - 1 \in 0 .. r /\ rs[i] \in RuleEntries BY <1>2
  <2>2. R[i] = ReadRule(s, rs[i]) /\ SettledRules(s) BY <1>4, <2>1
  <2>3. i - 1 >= k => Switched(s, q.name, q.enabled) BY <1>8
  <2> HIDE DEF s
  <2>4. CASE rs[i] = q
    <3>1. Switched(ReadRule(s, q), q.name, q.enabled) BY <1>6, <2>2, SwitchesSet
    <3>2. Switched(R[i], q.name, q.enabled) BY <2>2, <2>4, <3>1, Zenon
    <3> QED BY <2>1, <3>2
  <2>5. CASE rs[i] # q
    <3>1. SUFFICES ASSUME i >= k PROVE Switched(R[i], q.name, q.enabled) BY <2>1
    <3>2. i - 1 >= k BY <1>2, <1>5, <2>5, <3>1
    <3>3. rs[i].builtin => rs[i].name # q.name
      <4>1. rs[i] \in ToSet(m.rules) BY <1>2 DEF rs
      <4> QED BY <2>5, <4>1
    <3>4. Switched(ReadRule(s, rs[i]), q.name, q.enabled)
      BY <1>6, <2>1, <2>2, <2>3, <3>2, <3>3, SwitchesStay
    <3> QED BY <2>2, <3>4, Zenon
  <2> QED BY <2>4, <2>5
<1>9. r \in G
  <2> HIDE DEF G
  <2>1. \A i \in 0 .. r : i \in G BY <1>2, <1>7, <1>8, Upward
  <2> QED BY <1>2, <2>1
<1> QED BY <1>2, <1>4, <1>5, <1>9

\* The rules of the user that are read back.
Full(m) == Only(m.rules, {r \in ToSet(m.rules) : User(r) /\ Complete(r)})

\* After the built in rules come those of g, as far as there is room.
Follows(rules, g) ==
  /\ Len(rules) = IF Len(Builtins) + Len(g) <= MaxRules THEN Len(Builtins) + Len(g) ELSE MaxRules
  /\ \A j \in 1 .. Len(rules) - Len(Builtins) : rules[Len(Builtins) + j] = UserOf(g[j])

\* A line about a built in rule, or about an incomplete one, adds none.
LEMMA FollowsStill ==
  ASSUME NEW rules, SettledRules(rules), NEW g \in Seq(RuleEntries), Follows(rules, g),
         NEW q \in RuleEntries, q.builtin \/ q.action = Empty
  PROVE  Follows(ReadRule(rules, q), g)
<1>1. rules \in Seq(RuleEntries) BY DEF SettledRules
<1>2. Len(rules) \in Nat /\ DOMAIN rules = 1 .. Len(rules) BY <1>1, LenProperties
<1>3. CASE q.builtin /\ q.name # Empty
  <2> DEFINE t == LoadBuiltin(rules, q.name, q.enabled)
             b == Len(Builtins)
  <2>1. ReadRule(rules, q) = t BY <1>3 DEF ReadRule
  <2>2. b \in Nat BY StateAssumption, LenProperties
  <2>3. \A i \in b + 1 .. Len(rules) : ~rules[i].builtin BY DEF SettledRules
  <2> HIDE DEF b
  <2>4. DOMAIN t = 1 .. Len(rules) /\ \A i \in 1 .. Len(rules) : ~rules[i].builtin => t[i] = rules[i]
    BY <1>2 DEF LoadBuiltin
  <2>5. t = [i \in 1 .. Len(rules) |-> t[i]] BY <1>2 DEF LoadBuiltin
  <2> HIDE DEF t
  <2>6. Len(t) = Len(rules) BY <1>2, <2>4, <2>5
  <2>7. \A j \in 1 .. Len(rules) - b : b + j \in b + 1 .. Len(rules) /\ b + j \in 1 .. Len(rules)
    BY <1>2, <2>2
  <2>8. \A j \in 1 .. Len(rules) - b : t[b + j] = rules[b + j] BY <2>3, <2>4, <2>7
  <2> QED BY <2>1, <2>6, <2>8 DEF Follows, b
<1>4. CASE ReadRule(rules, q) = rules BY <1>4
<1> QED BY <1>3, <1>4 DEF ReadRule

\* Another adds one, if there is room.
LEMMA FollowsOn ==
  ASSUME NEW rules, SettledRules(rules), NEW g \in Seq(RuleEntries), Follows(rules, g),
         NEW q \in RuleEntries, ~q.builtin, q.action # Empty
  PROVE  Follows(ReadRule(rules, q), Append(g, q))
<1> DEFINE b == Len(Builtins)
           l == Len(g)
           n == Len(rules)
           h == Append(g, q)
           u == UserOf(q)
<1>1. rules \in Seq(RuleEntries) BY DEF SettledRules
<1>2. n \in Nat /\ l \in Nat /\ b \in Nat /\ MaxRules \in Nat /\ b <= MaxRules
  BY <1>1, StateAssumption, LenProperties
<1>3. Len(h) = l + 1 /\ (\A j \in 1 .. l : h[j] = g[j]) /\ h[l + 1] = q OBVIOUS
<1>4. n = IF b + l <= MaxRules THEN b + l ELSE MaxRules BY DEF Follows
<1>5. \A j \in 1 .. n - b : rules[b + j] = UserOf(g[j]) BY DEF Follows
<1>6. \A j \in 1 .. n - b : j \in 1 .. l BY <1>2, <1>4
<1> HIDE DEF b, l, n, h
<1>7. CASE n < MaxRules
  <2> DEFINE t == Append(rules, u)
  <2>1. ReadRule(rules, q) = t BY <1>7 DEF ReadRule, n
  <2> HIDE DEF u
  <2>2. Len(t) = n + 1 /\ (\A j \in 1 .. n : t[j] = rules[j]) /\ t[n + 1] = u BY <1>1, <1>2 DEF n
  <2> HIDE DEF t
  <2>3. n = b + l /\ n - b = l /\ n + 1 - b = l + 1 /\ b + (l + 1) = n + 1 /\ b + (l + 1) <= MaxRules
    BY <1>2, <1>4, <1>7
  <2>4. \A j \in 1 .. l : b + j \in 1 .. n BY <1>2, <2>3
  <2>5. \A j \in 1 .. l : t[b + j] = UserOf(h[j]) BY <1>3, <1>5, <2>2, <2>3, <2>4
  <2>6. t[b + (l + 1)] = UserOf(h[l + 1]) BY <1>3, <2>2, <2>3 DEF u
  <2>7. \A j \in 1 .. l + 1 : j \in 1 .. l \/ j = l + 1 BY <1>2
  <2>8. \A j \in 1 .. l + 1 : t[b + j] = UserOf(h[j]) BY <2>5, <2>6, <2>7
  <2>9. Follows(t, h) BY <1>3, <2>2, <2>3, <2>8 DEF Follows, b
  <2> QED BY <2>1, <2>9, Zenon DEF h
<1>8. CASE ~(n < MaxRules)
  <2>1. ReadRule(rules, q) = rules BY <1>8 DEF ReadRule, n
  <2>2. n = MaxRules /\ ~(b + (l + 1) <= MaxRules) BY <1>2, <1>4, <1>8
  <2>3. \A j \in 1 .. n - b : rules[b + j] = UserOf(h[j]) BY <1>3, <1>5, <1>6
  <2>4. Follows(rules, h) BY <1>3, <2>2, <2>3 DEF Follows, b, n
  <2> QED BY <2>1, <2>4, Zenon DEF h
<1> QED BY <1>7, <1>8

LEMMA RulesFollow ==
  ASSUME NEW m, m \in Tables
  PROVE  /\ Full(m) \in Seq(RuleEntries) /\ SettledRules(Reads(m).rules)
         /\ Follows(Reads(m).rules, Full(m))
<1> DEFINE rs == m.rules
           r == Len(rs)
           S == {q \in ToSet(rs) : User(q) /\ Complete(q)}
<1>1. rs \in Seq(RuleEntries) BY DEF Tables
<1>2. /\ r \in Nat /\ \A i \in 1 .. r : rs[i] \in RuleEntries
      /\ ToSet(rs) = {rs[i] : i \in 1 .. r}
  BY <1>1, LenProperties, ElementOfSeq DEF ToSet
<1>3. PICK R : RulesGo(R, m) BY RulesUp
<1>4. /\ R[0] = Seed.rules /\ R[r] = Reads(m).rules /\ \A i \in 0 .. r : SettledRules(R[i])
      /\ \A i \in 1 .. r : R[i] = ReadRule(R[i - 1], rs[i])
  BY <1>3, Zenon DEF RulesGo
<1>5. Full(m) = Only(rs, S) BY DEF Full
<1>6. \A i \in 1 .. r : rs[i] \in S <=> ~rs[i].builtin /\ rs[i].action # Empty
  BY <1>2 DEF User, Complete
<1> HIDE DEF r, rs, S
<1>7. PICK f \in [0 .. Len(rs) -> Seq(RuleEntries)] : Sifts(f, rs, S) BY <1>1, OnlyIs
<1>8. /\ f[0] = <<>> /\ f[r] = Full(m) /\ \A i \in 0 .. r : f[i] \in Seq(RuleEntries)
      /\ \A i \in 1 .. r : f[i] = IF rs[i] \in S THEN Append(f[i - 1], rs[i]) ELSE f[i - 1]
  BY <1>5, <1>7 DEF Sifts, r
<1> DEFINE G == {i \in 0 .. r : Follows(R[i], f[i])}
<1>9. 0 \in G
  <2> DEFINE s == Seed.rules
             b == Len(Builtins)
  <2>1. b \in Nat /\ DOMAIN Builtins = 1 .. b /\ b <= MaxRules BY StateAssumption, LenProperties
  <2>2. s = [i \in DOMAIN Builtins |-> BuiltinRule(Builtins[i])] BY DEF Seed
  <2> HIDE DEF b
  <2>3. s = [i \in 1 .. b |-> s[i]] BY <2>1, <2>2
  <2> HIDE DEF s
  <2>4. Len(s) = b BY <2>1, <2>3
  <2>5. Len(<<>>) = 0 /\ b + 0 = b /\ \A j \in 1 .. b - b : FALSE BY <2>1
  <2>6. Follows(s, <<>>) BY <2>1, <2>4, <2>5 DEF Follows, b
  <2>7. Follows(R[0], f[0]) BY <1>4, <1>8, <2>6, Zenon DEF s
  <2> QED BY <1>2, <2>7
<1>10. ASSUME NEW i \in 1 .. r, i - 1 \in G PROVE i \in G
  <2> DEFINE s == R[i - 1]
             g == f[i - 1]
             q == rs[i]
  <2>1. i \in 0 .. r /\ i - 1 \in 0 .. r /\ q \in RuleEntries BY <1>2
  <2>2. R[i] = ReadRule(s, q) /\ SettledRules(s) /\ g \in Seq(RuleEntries) BY <1>4, <1>8, <2>1
  <2>3. Follows(s, g) BY <1>10
  <2>4. q \in S <=> ~q.builtin /\ q.action # Empty BY <1>6
  <2>5. f[i] = IF q \in S THEN Append(g, q) ELSE g BY <1>8
  <2> HIDE DEF s, g, q
  <2>6. CASE q \in S
    <3>1. Follows(ReadRule(s, q), Append(g, q)) BY <2>1, <2>2, <2>3, <2>4, <2>6, FollowsOn
    <3>2. Follows(R[i], f[i]) BY <2>2, <2>5, <2>6, <3>1, Zenon
    <3> QED BY <2>1, <3>2
  <2>7. CASE q \notin S
    <3>1. q.builtin \/ q.action = Empty BY <2>1, <2>4, <2>7
    <3>2. Follows(ReadRule(s, q), g) BY <2>1, <2>2, <2>3, <3>1, FollowsStill
    <3>3. Follows(R[i], f[i]) BY <2>2, <2>5, <2>7, <3>2, Zenon
    <3> QED BY <2>1, <3>3
  <2> QED BY <2>6, <2>7
<1>11. r \in G
  <2> HIDE DEF G
  <2>1. \A i \in 0 .. r : i \in G BY <1>2, <1>9, <1>10, Upward
  <2> QED BY <1>2, <2>1
<1>12. r \in 0 .. r BY <1>2
<1>13. SettledRules(Reads(m).rules) /\ Full(m) \in Seq(RuleEntries) BY <1>4, <1>8, <1>12
<1>14. Follows(Reads(m).rules, Full(m)) BY <1>4, <1>8, <1>11
<1> QED BY <1>13, <1>14

\* The rules of the user, in their order and as far as there is room.
LEMMA UsersKept ==
  ASSUME NEW m, m \in Tables
  PROVE  LET back == Reads(m).rules
             own == Only(back, {r \in ToSet(back) : User(r)})
             full == Full(m)
         IN /\ own = SubSeq(Each(full, UserOf), 1, Len(own))
            /\ (Len(full) + Len(Builtins) <= MaxRules) => Len(own) = Len(full)
<1> DEFINE back == Reads(m).rules
           S == {r \in ToSet(back) : User(r)}
           own == Only(back, S)
           full == Full(m)
           b == Len(Builtins)
           n == Len(back)
<1>1. full \in Seq(RuleEntries) /\ SettledRules(back) /\ Follows(back, full) BY RulesFollow
<1>2. back \in Seq(RuleEntries) BY <1>1 DEF SettledRules
<1>3. n \in Nat /\ b \in Nat /\ MaxRules \in Nat /\ b <= MaxRules /\ Len(full) \in Nat
  BY <1>1, <1>2, StateAssumption, LenProperties
<1>4. b <= n /\ (\A i \in 1 .. b : back[i].builtin) /\ \A i \in b + 1 .. n : ~back[i].builtin
  BY <1>1 DEF SettledRules
<1>5. ToSet(back) = {back[i] : i \in 1 .. n} BY <1>2, LenProperties DEF ToSet
<1>6. /\ n = IF b + Len(full) <= MaxRules THEN b + Len(full) ELSE MaxRules
      /\ \A j \in 1 .. n - b : back[b + j] = UserOf(full[j])
  BY <1>1 DEF Follows
<1>7. \A i \in 1 .. n : back[i] \in S <=> i > b
  <2> TAKE i \in 1 .. n
  <2>1. back[i] \in S <=> ~back[i].builtin BY <1>5 DEF User
  <2>2. i \in 1 .. b \/ i \in b + 1 .. n BY <1>3
  <2>3. i \in 1 .. b => ~(i > b) BY <1>3
  <2>4. i \in b + 1 .. n => i > b BY <1>3
  <2> QED BY <1>4, <2>1, <2>2, <2>3, <2>4
<1> HIDE DEF b, S, full, back
<1>8. b \in 0 .. n BY <1>3, <1>4
<1>9. /\ own \in Seq(RuleEntries) /\ Len(own) = n - b
      /\ \A i \in 1 .. n - b : own[i] = back[b + i]
  BY <1>2, <1>7, <1>8, OnlyTail
<1> HIDE DEF own, n
<1> DEFINE all == Each(full, UserOf)
           part == SubSeq(all, 1, Len(own))
<1>10. n - b \in 0 .. Len(full) /\ (Len(full) + b <= MaxRules => n - b = Len(full))
  BY <1>3, <1>4, <1>6
<1>11. all = [i \in 1 .. Len(full) |-> UserOf(full[i])] BY <1>1, LenProperties DEF Each
<1>12. all \in Seq({UserOf(full[i]) : i \in 1 .. Len(full)}) /\ Len(all) = Len(full)
  BY <1>3, <1>11, IsASeq
<1> HIDE DEF all
<1>13. part \in Seq({UserOf(full[i]) : i \in 1 .. Len(full)}) /\ Len(part) = n - b
       /\ \A i \in 1 .. n - b : part[i] = all[i]
  BY <1>9, <1>10, <1>12
<1>14. \A i \in 1 .. n - b : i \in 1 .. Len(full) BY <1>10
<1>15. \A i \in 1 .. n - b : own[i] = part[i] BY <1>6, <1>9, <1>11, <1>13, <1>14
<1> HIDE DEF part
<1>16. own = part BY <1>9, <1>13, <1>15, Alike
<1> QED BY <1>9, <1>10, <1>16 DEF part, own, all, full, back, S, b

-----------------------------------------------------------------------------
(***************************************************************************)
(* The theorems.                                                           *)
(***************************************************************************)

\* The tables keep their types, and neither exceed their room nor have a device or
\* an application twice; until a change is lost no device is announced twice, over
\* any number of restarts (load_state, save_state, scan_devices).
THEOREM InvCorrect == Spec => []Inv
<1>1. IInv => Inv BY DEF IInv, Inv, Announced, ToldOnce
<1> QED BY <1>1, Invariance, PTL

\* Whenever nobody is saving the file gives what the tables give, unless a write
\* failed or was cut short; so a start, a save and a start again keep them.
THEOREM DurableCorrect == Spec => []Durable
<1>1. IInv => Durable BY DEF IInv, Durable, Written
<1> QED BY <1>1, Invariance, PTL

\* Whenever the program stops, the file is the one before the change or the one
\* after it (save_state writes beside it and replaces it).
THEOREM OldOrNewCorrect == Spec => []OldOrNew
<1>1. IInv => OldOrNew BY DEF IInv, OldOrNew, Written
<1> QED BY <1>1, Invariance, PTL

\* The start entry that is shown is the one of the system, unless two requests for
\* it overlapped (api_patch_settings, after the lock).
THEOREM EntryShownCorrect == Spec => []EntryShown
<1>1. IInv => EntryShown BY DEF IInv, EntryShown, Entry, Asking
<1> QED BY <1>1, Invariance, PTL

\* Every decision of the user that can be written is read back: the rules in
\* their order, the switches of the built in rules and the policies of the
\* applications (save_state, load_state).
THEOREM DecisionsKeptCorrect == Spec => []DecisionsKept
<1>1. TypeOK => DecisionsKept
  <2> SUFFICES ASSUME TypeOK PROVE DecisionsKept OBVIOUS
  <2> DEFINE back == Reads(mem)
             own == Only(back.rules, {r \in ToSet(back.rules) : User(r)})
             full == Full(mem)
  <2>1. mem \in Tables /\ AppsOk(mem.apps) BY DEF TypeOK, AppsOk, Tables
  <2>2. /\ own = SubSeq(Each(full, UserOf), 1, Len(own))
        /\ (Len(full) + Len(Builtins) <= MaxRules) => Len(own) = Len(full)
    BY <2>1, UsersKept
  <2>3. ASSUME NEW q \in ToSet(mem.rules), q.builtin,
               \A p \in ToSet(mem.rules) \ {q} : p.builtin => p.name # q.name,
               NEW b \in ToSet(back.rules), b.builtin, b.name = q.name
        PROVE  b.enabled = q.enabled
    <3>1. Switched(back.rules, q.name, q.enabled) BY <2>1, <2>3, SwitchKept
    <3>2. back.rules \in Seq(RuleEntries) BY <2>1, RulesFollow DEF SettledRules
    <3> HIDE DEF back
    <3>3. PICK i \in 1 .. Len(back.rules) : b = back.rules[i] BY <2>3, <3>2, LenProperties DEF ToSet
    <3> QED BY <2>3, <3>1, <3>3 DEF Switched
  <2>4. /\ \A a \in ToSet(mem.apps) :
             a.pinned => \E b \in ToSet(back.apps) : b.name = a.name /\ b.policy = a.policy
        /\ \A b \in ToSet(back.apps) : \E a \in ToSet(mem.apps) : b.name = a.name /\ b.policy = a.policy
    BY <2>1, AppsKept
  <2> HIDE DEF back
  <2> QED BY <2>2, <2>3, <2>4, Zenon DEF DecisionsKept, Full, Each, UserOf, back
<1>2. IInv => DecisionsKept BY <1>1 DEF IInv
<1> QED BY <1>2, Invariance, PTL

=============================================================================
