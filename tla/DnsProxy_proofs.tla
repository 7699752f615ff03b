-------------------------- MODULE DnsProxy_proofs --------------------------
(***************************************************************************)
(* Theorems about DnsProxy, for any number of slots, servers, queries and  *)
(* random bits, and any retry interval and deadline.                       *)
(*                                                                         *)
(* The last part is about what sends the queries of a Windows machine to   *)
(* the proxy, and back to its own servers: the theorems of WinDnsRedirect. *)
(***************************************************************************)
EXTENDS DnsProxy, WinDnsRedirect, TLAPS

\* The range of g_slots is not empty and contains the first slot.
LEMMA SlotFacts == 0 \in Slots /\ 0 \in Tags /\ \A s \in Slots : s \in Int /\ After(s) \in Slots
  BY SlotAssumption DEF Slots, Tags, After

\* What the turn of a server is computed with.
LEMMA RemainderRange ==
  ASSUME NEW n \in Nat, NEW k \in Nat, k > 0
  PROVE  n % k \in 0 .. k - 1
  OBVIOUS

(***************************************************************************)
(* Type correctness.                                                       *)
(***************************************************************************)
LEMMA TypeInit == Init => TypeOK
<1> SUFFICES ASSUME Init PROVE TypeOK OBVIOUS
<1>1. stops \in 0 .. MaxStops /\ moves \in 0 .. MaxMoves
  BY BoundAssumption DEF Init
<1>2. first \in [Slots -> 0 .. GIVE_UP + 1] /\ sent \in [Slots -> 0 .. RETRY + 1]
  BY TimeAssumption DEF Init
<1>3. next \in 0 .. SLOTS /\ maxTries \in Nat
  BY SlotAssumption DEF Init
<1>4. wire \subseteq [slot : Slots, tag : Tags, query : Queries]
  BY DEF Init
<1> QED BY <1>1, <1>2, <1>3, <1>4, SlotFacts DEF Init, TypeOK

\* What sending, telling a client and giving a slot back do to the types.
LEMMA SendType ==
  ASSUME TypeOK, NEW s \in Slots, NEW q \in Queries, NEW g \in Tags, NEW n \in Nat,
         SendUpstream(s, q, g, n)
  PROVE  /\ tries' \in [Slots -> Nat]
         /\ sent' \in [Slots -> 0 .. RETRY + 1]
         /\ wire' \subseteq [slot : Slots, tag : Tags, query : Queries]
         /\ asked' \in [Queries -> SUBSET Servers]
<1>1. tries' \in [Slots -> Nat] BY DEF SendUpstream, TypeOK
<1>2. sent' \in [Slots -> 0 .. RETRY + 1] BY TimeAssumption DEF SendUpstream, TypeOK
<1>3. wire' \subseteq [slot : Slots, tag : Tags, query : Queries]
  BY DEF SendUpstream, TypeOK
<1>4. up # <<>> => Turn(n) \in Servers
  <2> HAVE up # <<>>
  <2>1. up \in Seq(Servers) BY ServerAssumption DEF TypeOK
  <2>2. Len(up) \in Nat /\ Len(up) > 0 BY <2>1
  <2>3. PICK k \in Nat : k = Len(up) BY <2>2
  <2>4. (n % k) \in 0 .. k - 1 BY <2>2, <2>3, RemainderRange
  <2>5. (n % k) + 1 \in 1 .. k BY <2>4
  <2>6. Turn(n) = up[(n % k) + 1] BY <2>3 DEF Turn
  <2> QED BY <2>1, <2>3, <2>5, <2>6
<1>5. asked' \in [Queries -> SUBSET Servers]
  <2>1. CASE up = <<>> BY <2>1 DEF SendUpstream, TypeOK
  <2>2. CASE up # <<>>
    <3>1. asked[q] \cup {Turn(n)} \in SUBSET Servers BY <1>4, <2>2 DEF TypeOK
    <3>2. asked' = [asked EXCEPT ![q] = asked[q] \cup {Turn(n)}]
      BY <2>2 DEF SendUpstream
    <3>3. asked \in [Queries -> SUBSET Servers] BY DEF TypeOK
    <3> QED BY <3>1, <3>2, <3>3
  <2> QED BY <2>1, <2>2
<1> QED BY <1>1, <1>2, <1>3, <1>5

LEMMA TellType ==
  ASSUME TypeOK, NEW q \in Queries, NEW outcome \in Outcomes, Tell(q, outcome)
  PROVE  /\ status' \in [Queries -> {"unsent", "pending"} \cup Outcomes]
         /\ replies' \in [Queries -> Nat]
  BY DEF Tell, TypeOK

LEMMA FreeType ==
  ASSUME TypeOK, NEW s \in Slots, Free(s)
  PROVE  /\ owner' \in [Slots -> Queries \cup {Nobody}] /\ tag' \in [Slots -> Tags]
         /\ first' \in [Slots -> 0 .. GIVE_UP + 1] /\ sent' \in [Slots -> 0 .. RETRY + 1]
         /\ tries' \in [Slots -> Nat]
  BY SlotFacts, TimeAssumption DEF Free, TypeOK

LEMMA ExpireType ==
  ASSUME TypeOK, EnterExpire
  PROVE  pc' = "expire" /\ next' \in 0 .. SLOTS /\ maxTries' \in Nat
<1>1. up \in Seq(Servers) BY ServerAssumption DEF TypeOK
<1>2. Len(up) \in Nat BY <1>1
<1> QED BY <1>2, SlotAssumption DEF EnterExpire

LEMMA StepType ==
  ASSUME TypeOK, NEW s \in Slots, s = next, Step
  PROVE  pc' \in {"select", "client", "upstream", "expire"} /\ next' \in 0 .. SLOTS
           /\ maxTries' \in Nat
  BY SlotAssumption DEF Step, TypeOK, Slots

\* One step of each kind keeps the types.
LEMMA TypeStep == TypeOK /\ [Next]_vars => TypeOK'
<1> SUFFICES ASSUME TypeOK, [Next]_vars PROVE TypeOK' OBVIOUS
<1> USE DEF slotVars, histVars, userVars, loopVars, confVars
<1>1. CASE Wake BY <1>1 DEF Wake, Goto, TypeOK
<1>2. CASE Elapse
  <2>1. \A s \in Slots : Older(first[s], GIVE_UP) \in 0 .. GIVE_UP + 1
    BY TimeAssumption DEF Older, TypeOK
  <2>2. \A s \in Slots : Older(sent[s], RETRY) \in 0 .. RETRY + 1
    BY TimeAssumption DEF Older, TypeOK
  <2>3. first' \in [Slots -> 0 .. GIVE_UP + 1] BY <1>2, <2>1 DEF Elapse, TypeOK
  <2>4. sent' \in [Slots -> 0 .. RETRY + 1] BY <1>2, <2>2 DEF Elapse, TypeOK
  <2> QED BY <1>2, <2>3, <2>4 DEF Elapse, Goto, TypeOK
<1>3. ASSUME NEW q \in Queries, Refuse(q) \/ Full(q) PROVE TypeOK'
  BY <1>3, TellType DEF Refuse, Full, Goto, Outcomes, TypeOK
<1>4. ASSUME NEW q \in Queries, NEW s \in Slots, NEW g \in Tags, Forward(q, s, g) PROVE TypeOK'
  <2>1. SendUpstream(s, q, g, 0) BY <1>4 DEF Forward
  <2>2. first' \in [Slots -> 0 .. GIVE_UP + 1] BY <1>4, TimeAssumption DEF Forward, TypeOK
  <2>3. owner' \in [Slots -> Queries \cup {Nobody}] /\ tag' \in [Slots -> Tags]
    BY <1>4 DEF Forward, TypeOK
  <2>4. status' \in [Queries -> {"unsent", "pending"} \cup Outcomes] /\ collided' \subseteq Queries
    BY <1>4 DEF Forward, TypeOK
  <2>5. cursor' \in Slots BY <1>4, SlotFacts DEF Forward
  <2>6. /\ UNCHANGED <<moved, replies, active, up, stops, moves, next, maxTries>>
        /\ pc' = "upstream"
    BY <1>4 DEF Forward, Goto
  <2> QED BY <2>1, <2>2, <2>3, <2>4, <2>5, <2>6, SendType DEF TypeOK
<1>5. CASE NoQuery BY <1>5 DEF NoQuery, Goto, TypeOK
<1>6. ASSUME NEW p \in wire, Reply(p) PROVE TypeOK'
  <2>1. p.slot \in Slots /\ owner[p.slot] \in Queries
    BY <1>6 DEF Reply, Matches, Used, TypeOK
  <2>2. PICK o \in Outcomes : Tell(owner[p.slot], o) BY <1>6 DEF Reply, Outcomes
  <2>3. Free(p.slot) /\ EnterExpire BY <1>6 DEF Reply
  <2>4. UNCHANGED <<cursor, wire, asked, moved, collided, active, up, stops, moves>>
    BY <1>6 DEF Reply
  <2> QED BY <2>1, <2>2, <2>3, <2>4, TellType, FreeType, ExpireType DEF TypeOK
<1>7. CASE NoReply BY <1>7, ExpireType DEF NoReply, TypeOK
<1>8. ASSUME NEW s \in Slots, Fail(s) PROVE TypeOK'
  <2>1. owner[s] \in Queries BY <1>8 DEF Fail, Used, TypeOK
  <2>2. Tell(owner[s], "failed") /\ Free(s) /\ s = next /\ Step BY <1>8 DEF Fail
  <2>3. UNCHANGED <<cursor, wire, asked, moved, collided, active, up, stops, moves>>
    BY <1>8 DEF Fail
  <2> QED BY <2>1, <2>2, <2>3, TellType, FreeType, StepType DEF Outcomes, TypeOK
<1>9. ASSUME NEW s \in Slots, Retry(s) PROVE TypeOK'
  <2>1. owner[s] \in Queries /\ tag[s] \in Tags /\ tries[s] \in Nat
    BY <1>9 DEF Retry, Used, TypeOK
  <2>2. SendUpstream(s, owner[s], tag[s], tries[s]) /\ s = next /\ Step BY <1>9 DEF Retry
  <2>3. UNCHANGED <<owner, tag, first, cursor, moved, collided, status, replies,
                    active, up, stops, moves>>
    BY <1>9 DEF Retry
  <2> QED BY <2>1, <2>2, <2>3, SendType, StepType DEF TypeOK
<1>10. ASSUME NEW s \in Slots, Keep(s) PROVE TypeOK'
  BY <1>10, StepType DEF Keep, TypeOK
<1>11. CASE Stop
  <2>1. status' \in [Queries -> {"unsent", "pending"} \cup Outcomes]
    BY <1>11 DEF Stop, DropPending, Outcomes, TypeOK
  <2>2. stops' \in 0 .. MaxStops BY <1>11, BoundAssumption DEF Stop, TypeOK
  <2> QED BY <1>11, <2>1, <2>2 DEF Stop, TypeOK
<1>12. CASE Start
  <2>1. first' \in [Slots -> 0 .. GIVE_UP + 1] /\ sent' \in [Slots -> 0 .. RETRY + 1]
    BY <1>12, TimeAssumption DEF Start, Clear
  <2> QED BY <1>12, <2>1, SlotFacts DEF Start, Clear, TypeOK
<1>13. ASSUME NEW list \in UpLists, SetUpstreams(list) PROVE TypeOK'
  BY <1>13, BoundAssumption DEF SetUpstreams, TypeOK
<1>14. CASE UNCHANGED vars BY <1>14 DEF vars, TypeOK
<1> QED
  BY <1>1, <1>2, <1>3, <1>4, <1>5, <1>6, <1>7, <1>8, <1>9, <1>10, <1>11, <1>12, <1>13, <1>14
  DEF Next, Loop, Client, Upstream, Expire

\* Every variable keeps its type, whatever arrives and whenever time passes.
THEOREM TypeCorrect == Spec => []TypeOK
<1> QED BY TypeInit, TypeStep, PTL DEF Spec

(***************************************************************************)
(* The inductive invariant.                                                *)
(***************************************************************************)
LEMMA InvInit == Init => IInv
<1> SUFFICES ASSUME Init PROVE IInv OBVIOUS
<1>1. \A s \in Slots : ~Used(s) BY DEF Init, Used
<1>2. OneSlotEach BY <1>1 DEF Init, OneSlotEach
<1>3. Reckoning BY DEF Init, Reckoning
<1>4. OwnTransmissions /\ NoneLeft BY DEF Init, OwnTransmissions, NoneLeft
<1>5. Ages BY <1>1 DEF Ages
<1>6. AnswersMatch BY DEF Init, AnswersMatch
<1> QED BY <1>2, <1>3, <1>4, <1>5, <1>6 DEF IInv

\* A slot in use and the query in it.
LEMMA Holder ==
  ASSUME TypeOK, IInv, active, NEW s \in Slots, Used(s)
  PROVE  /\ owner[s] \in Queries /\ status[owner[s]] = "pending"
         /\ \A r \in Slots : owner[r] = owner[s] => r = s
  BY DEF TypeOK, IInv, OneSlotEach, Used

\* A query that gets its one answer gives its slot back.
LEMMA AnswerSlot ==
  ASSUME TypeOK, IInv, active, NEW s \in Slots, Used(s),
         NEW outcome \in {"answered", "mixedUp", "failed"},
         Tell(owner[s], outcome), Free(s), active', wire' = wire, collided' = collided,
         outcome = "mixedUp" => owner[s] \in collided
  PROVE  OneSlotEach' /\ Reckoning' /\ OwnTransmissions' /\ NoneLeft' /\ AnswersMatch'
<1>1. /\ owner[s] \in Queries /\ status[owner[s]] = "pending"
      /\ \A r \in Slots : owner[r] = owner[s] => r = s
  BY Holder
<1>2. owner' = [owner EXCEPT ![s] = Nobody] /\ tag' = [tag EXCEPT ![s] = 0]
  BY DEF Free
<1>3. status' = [status EXCEPT ![owner[s]] = outcome]
      /\ replies' = [replies EXCEPT ![owner[s]] = @ + 1]
  BY DEF Tell
<1>4. OneSlotEach'
  <2>1. \A r \in Slots : Used(r)' => r # s /\ owner'[r] = owner[r] /\ Used(r)
    BY <1>2 DEF TypeOK, Used
  <2>2. \A r \in Slots : Used(r)' => status'[owner'[r]] = "pending"
    BY <1>1, <1>3, <2>1 DEF IInv, OneSlotEach, TypeOK, Used
  <2>3. \A q \in Queries : status'[q] = "pending" => \E r \in Slots : owner'[r] = q
    BY <1>1, <1>2, <1>3 DEF IInv, OneSlotEach, TypeOK
  <2>4. \A r, t \in Slots : Used(t)' /\ owner'[r] = owner'[t] => r = t
    BY <2>1, <1>2, QueryAssumption DEF IInv, OneSlotEach, TypeOK, Used
  <2> QED BY <2>2, <2>3, <2>4 DEF OneSlotEach
<1>5. Reckoning' BY <1>1, <1>3 DEF IInv, Reckoning, TypeOK
<1>6. OwnTransmissions'
  <2>1. \A p \in wire : p.slot \in Slots BY DEF TypeOK
  <2>2. \A p \in wire : Matches(p)' => p.slot # s /\ owner'[p.slot] = owner[p.slot] /\ Matches(p)
    BY <1>2, <2>1 DEF TypeOK, Matches, Used
  <2> QED BY <2>2 DEF IInv, OwnTransmissions
<1>7. NoneLeft' BY DEF NoneLeft
<1>8. AnswersMatch' BY <1>1, <1>3 DEF IInv, AnswersMatch, TypeOK
<1> QED BY <1>4, <1>5, <1>6, <1>7, <1>8

\* A step that only moves the loop, the clock or the list of servers.
LEMMA Bystander ==
  ASSUME TypeOK, IInv, owner' = owner, tag' = tag, wire' = wire, status' = status,
         replies' = replies, active' = active, collided' = collided
  PROVE  OneSlotEach' /\ Reckoning' /\ OwnTransmissions' /\ NoneLeft' /\ AnswersMatch'
  BY DEF IInv, OneSlotEach, Reckoning, OwnTransmissions, NoneLeft, AnswersMatch, Used, Matches

\* Every slot expire_slots has looked at is within the limits after its look.
LEMMA AgesStep ==
  ASSUME TypeOK, IInv, active, pc = "expire", NEW s \in Slots, s = next, Step, active',
         Used(s)' => first'[s] <= GIVE_UP /\ sent'[s] <= RETRY,
         \A r \in Slots : r # s => /\ Used(r)' => Used(r)
                                   /\ first'[r] = first[r] /\ sent'[r] = sent[r]
  PROVE  Ages'
<1>1. \A r \in Slots : Visited(r)' => r = s \/ Visited(r)
  BY DEF Step, Visited, Slots
<1> QED BY <1>1 DEF IInv, Ages

LEMMA InvStep == TypeOK /\ IInv /\ [Next]_vars => IInv'
<1> SUFFICES ASSUME TypeOK, IInv, [Next]_vars PROVE IInv' OBVIOUS
<1> USE DEF slotVars, histVars, userVars, loopVars, confVars
<1>1. ASSUME Wake \/ Elapse \/ NoQuery PROVE IInv'
  <2>1. pc' \in {"client", "upstream"} BY <1>1 DEF Wake, Elapse, NoQuery, Goto
  <2>2. Ages' BY <2>1 DEF Ages, Visited
  <2> QED BY <1>1, <2>2, Bystander DEF Wake, Elapse, NoQuery, IInv
<1>2. ASSUME NEW q \in Queries, Refuse(q) \/ Full(q) PROVE IInv'
  <2>1. PICK outcome \in {"refused", "full"} : Tell(q, outcome)
    BY <1>2 DEF Refuse, Full
  <2>2. /\ active /\ active' /\ pc' = "upstream" /\ status[q] = "unsent"
        /\ UNCHANGED <<owner, tag, wire, collided>>
    BY <1>2 DEF Refuse, Full, Goto
  <2>3. status' = [status EXCEPT ![q] = outcome] /\ replies' = [replies EXCEPT ![q] = @ + 1]
    BY <2>1 DEF Tell
  <2>4. OneSlotEach' BY <2>2, <2>3 DEF IInv, OneSlotEach, TypeOK, Used
  <2>5. Reckoning' BY <2>2, <2>3 DEF IInv, Reckoning, TypeOK
  <2>6. OwnTransmissions' BY <2>2 DEF IInv, OwnTransmissions, Matches, Used
  <2>7. NoneLeft' /\ Ages' BY <2>2 DEF NoneLeft, Ages, Visited
  <2>8. AnswersMatch' BY <2>2, <2>3 DEF IInv, AnswersMatch, TypeOK
  <2> QED BY <2>4, <2>5, <2>6, <2>7, <2>8 DEF IInv
<1>3. ASSUME NEW q \in Queries, NEW s \in Slots, NEW g \in Tags, Forward(q, s, g) PROVE IInv'
  <2>1. /\ active /\ active' /\ pc' = "upstream" /\ status[q] = "unsent" /\ ~Used(s)
        /\ owner' = [owner EXCEPT ![s] = q] /\ tag' = [tag EXCEPT ![s] = g]
        /\ status' = [status EXCEPT ![q] = "pending"] /\ replies' = replies
    BY <1>3 DEF Forward, Goto, NextFree
  <2>2. \A r \in Slots : owner[r] # q
    BY <2>1, QueryAssumption DEF IInv, OneSlotEach, TypeOK, Used
  <2>3. OneSlotEach'
    <3>1. \A r \in Slots : Used(r)' => status'[owner'[r]] = "pending"
      BY <2>1, <2>2 DEF IInv, OneSlotEach, TypeOK, Used
    <3>2. \A k \in Queries : status'[k] = "pending" => \E r \in Slots : owner'[r] = k
      <4>1. s \in Slots /\ owner'[s] = q BY <2>1 DEF TypeOK
      <4>2. ASSUME NEW k \in Queries, k # q, status'[k] = "pending"
            PROVE  \E r \in Slots : owner'[r] = k
        <5>1. PICK r \in Slots : owner[r] = k
          BY <2>1, <4>2 DEF IInv, OneSlotEach, TypeOK
        <5>2. r # s BY <2>1, <5>1, QueryAssumption DEF Used
        <5> QED BY <2>1, <5>1, <5>2 DEF TypeOK
      <4> QED BY <4>1, <4>2
    <3>3. \A r, t \in Slots : Used(t)' /\ owner'[r] = owner'[t] => r = t
      BY <2>1, <2>2 DEF IInv, OneSlotEach, TypeOK, Used
    <3> QED BY <3>1, <3>2, <3>3 DEF OneSlotEach
  <2>4. Reckoning' BY <2>1 DEF IInv, Reckoning, TypeOK
  <2>5. OwnTransmissions'
    <3> SUFFICES ASSUME NEW p \in wire', Matches(p)'
                 PROVE  p.query = owner'[p.slot] \/ owner'[p.slot] \in collided'
      BY DEF OwnTransmissions
    <3>1. collided \subseteq collided' BY <1>3 DEF Forward
    <3>2. p \in wire \/ (p.slot = s /\ p.query = q)
      BY <1>3 DEF Forward, SendUpstream
    <3>3. CASE p \in wire /\ p.slot # s
      <4>1. p.slot \in Slots BY <3>3 DEF TypeOK
      <4>2. Matches(p) /\ owner'[p.slot] = owner[p.slot]
        BY <2>1, <3>3, <4>1 DEF Matches, Used, TypeOK
      <4> QED BY <2>1, <3>1, <3>3, <4>2 DEF IInv, OwnTransmissions
    <3>4. CASE p \in wire /\ p.slot = s
      <4>1. p.tag = g BY <2>1, <3>4 DEF Matches, TypeOK
      <4>2. q \in collided' BY <1>3, <3>4, <4>1 DEF Forward
      <4> QED BY <2>1, <3>4, <4>2 DEF TypeOK
    <3>5. CASE p.slot = s /\ p.query = q BY <2>1, <3>5 DEF TypeOK
    <3> QED BY <3>2, <3>3, <3>4, <3>5
  <2>6. NoneLeft' /\ Ages' BY <2>1 DEF NoneLeft, Ages, Visited
  <2>7. AnswersMatch'
    <3>1. collided \subseteq collided' BY <1>3 DEF Forward
    <3> QED BY <2>1, <3>1 DEF IInv, AnswersMatch, TypeOK
  <2> QED BY <2>3, <2>4, <2>5, <2>6, <2>7 DEF IInv
<1>4. ASSUME NEW p \in wire, Reply(p) PROVE IInv'
  <2>1. p.slot \in Slots BY DEF TypeOK
  <2>2. /\ active /\ active' /\ pc' = "expire" /\ next' = 0 /\ Matches(p) /\ Used(p.slot)
        /\ Free(p.slot) /\ wire' = wire /\ collided' = collided
    BY <1>4 DEF Reply, EnterExpire, Matches
  <2>3. PICK outcome \in {"answered", "mixedUp"} :
          /\ Tell(owner[p.slot], outcome)
          /\ outcome = "mixedUp" => p.query # owner[p.slot]
    BY <1>4 DEF Reply
  <2>4. outcome = "mixedUp" => owner[p.slot] \in collided
    BY <2>2, <2>3 DEF IInv, OwnTransmissions
  <2>5. Ages' BY <2>2 DEF Ages, Visited, Slots
  <2> QED BY <2>1, <2>2, <2>3, <2>4, <2>5, AnswerSlot DEF IInv
<1>5. CASE NoReply
  <2>1. pc' = "expire" /\ next' = 0 BY <1>5 DEF NoReply, EnterExpire
  <2>2. Ages' BY <2>1 DEF Ages, Visited, Slots
  <2> QED BY <1>5, <2>2, Bystander DEF NoReply, IInv
<1>6. ASSUME NEW s \in Slots, Fail(s) PROVE IInv'
  <2>1. /\ active /\ active' /\ pc = "expire" /\ s = next /\ Step /\ Used(s) /\ Free(s)
        /\ Tell(owner[s], "failed") /\ wire' = wire /\ collided' = collided
    BY <1>6 DEF Fail
  <2>2. ~Used(s)' BY <2>1 DEF Free, Used, TypeOK
  <2>3. \A r \in Slots : r # s => /\ Used(r)' => Used(r)
                                  /\ first'[r] = first[r] /\ sent'[r] = sent[r]
    BY <2>1 DEF Free, Used, TypeOK
  <2>4. Ages' BY <2>1, <2>2, <2>3, AgesStep
  <2> QED BY <2>1, <2>4, AnswerSlot DEF IInv
<1>7. ASSUME NEW s \in Slots, Retry(s) PROVE IInv'
  <2>1. /\ active /\ active' /\ pc = "expire" /\ s = next /\ Step /\ Used(s) /\ ~GivenUp(s)
        /\ SendUpstream(s, owner[s], tag[s], tries[s])
        /\ UNCHANGED <<owner, tag, first, collided, status, replies>>
    BY <1>7 DEF Retry
  <2>2. sent' = [sent EXCEPT ![s] = 0] BY <2>1 DEF SendUpstream
  <2>3. first[s] <= GIVE_UP BY <2>1, TimeAssumption DEF GivenUp, TypeOK
  <2>4. Ages'
    <3>1. sent'[s] <= RETRY BY <2>2, TimeAssumption DEF TypeOK
    <3>2. \A r \in Slots : r # s => sent'[r] = sent[r] BY <2>2 DEF TypeOK
    <3> QED BY <2>1, <2>3, <3>1, <3>2, AgesStep DEF Used
  <2>5. OneSlotEach' /\ Reckoning' /\ NoneLeft' /\ AnswersMatch'
    BY <2>1 DEF IInv, OneSlotEach, Reckoning, NoneLeft, AnswersMatch, Used
  <2>6. OwnTransmissions'
    <3>1. \A p \in wire' : p \in wire \/ (p.slot = s /\ p.query = owner[s])
      BY <2>1 DEF SendUpstream
    <3> QED BY <2>1, <3>1 DEF IInv, OwnTransmissions, Matches, Used
  <2> QED BY <2>4, <2>5, <2>6 DEF IInv
<1>8. ASSUME NEW s \in Slots, Keep(s) PROVE IInv'
  <2>1. /\ active /\ active' /\ pc = "expire" /\ s = next /\ Step
        /\ UNCHANGED <<owner, tag, first, sent, wire, collided, status, replies>>
        /\ Used(s) => ~GivenUp(s) /\ sent[s] <= RETRY
    BY <1>8 DEF Keep
  <2>2. Used(s) => first[s] <= GIVE_UP BY <2>1, TimeAssumption DEF GivenUp, TypeOK
  <2>3. Ages' BY <2>1, <2>2, AgesStep DEF Used
  <2>4. active' = active BY <1>8 DEF Keep
  <2> QED BY <2>1, <2>3, <2>4, Bystander DEF IInv
<1>9. CASE Stop
  <2>1. /\ ~active' /\ wire' = {} /\ replies' = replies /\ collided' = collided
        /\ status' = [q \in Queries |-> IF status[q] = "pending" THEN "dropped" ELSE status[q]]
    BY <1>9 DEF Stop, DropPending
  <2>2. OneSlotEach' /\ Ages' /\ OwnTransmissions' BY <2>1 DEF OneSlotEach, Ages, OwnTransmissions
  <2>3. Reckoning' /\ NoneLeft' /\ AnswersMatch'
    BY <2>1 DEF IInv, Reckoning, NoneLeft, AnswersMatch, TypeOK
  <2> QED BY <2>2, <2>3 DEF IInv
<1>10. CASE Start
  <2>1. /\ ~active /\ owner' = [s \in Slots |-> Nobody]
        /\ UNCHANGED <<wire, status, replies, collided>> /\ active'
    BY <1>10 DEF Start, Clear
  <2>2. \A s \in Slots : ~Used(s)' BY <2>1 DEF Used
  <2>3. OneSlotEach' BY <2>1, <2>2 DEF IInv, OneSlotEach, NoneLeft
  <2>4. OwnTransmissions' /\ NoneLeft' BY <2>1 DEF IInv, NoneLeft, OwnTransmissions
  <2>5. Ages' BY <2>2 DEF Ages
  <2>6. Reckoning' /\ AnswersMatch' BY <2>1 DEF IInv, Reckoning, AnswersMatch
  <2> QED BY <2>3, <2>4, <2>5, <2>6 DEF IInv
<1>11. ASSUME NEW list \in UpLists, SetUpstreams(list) PROVE IInv'
  <2>1. Ages' BY <1>11 DEF SetUpstreams, IInv, Ages, Used, Visited
  <2> QED BY <1>11, <2>1, Bystander DEF SetUpstreams, IInv
<1>12. CASE UNCHANGED vars
  <2>1. Ages' BY <1>12 DEF vars, IInv, Ages, Used, Visited
  <2> QED BY <1>12, <2>1, Bystander DEF vars, IInv
<1> QED
  BY <1>1, <1>2, <1>3, <1>4, <1>5, <1>6, <1>7, <1>8, <1>9, <1>10, <1>11, <1>12
  DEF Next, Loop, Client, Upstream, Expire

\* The bookkeeping of the slots: one slot per waiting query, one datagram per
\* query that ended, only own transmissions under a slot's id, and no slot older
\* than its limits once expire_slots has looked at it.
THEOREM IInvCorrect == Spec => []IInv
<1>1. Init => TypeOK /\ IInv BY TypeInit, InvInit
<1>2. TypeOK /\ IInv /\ [Next]_vars => (TypeOK /\ IInv)' BY TypeStep, InvStep
<1> QED BY <1>1, <1>2, PTL DEF Spec

\* A client gets one datagram at most, whatever is retried, duplicated or late.
THEOREM OneAnswer == Spec => []AnsweredOnce
<1>1. IInv => AnsweredOnce
  <2> SUFFICES ASSUME IInv, NEW q \in Queries PROVE replies[q] <= 1
    BY DEF AnsweredOnce
  <2>1. replies[q] = 0 \/ replies[q] = 1 BY DEF IInv, Reckoning
  <2> QED BY <2>1
<1> QED BY <1>1, IInvCorrect, PTL

\* Only a repeated id can bring a client the answer to another question.
THEOREM OwnAnswer == Spec => []AnswersMatch
<1>1. IInv => AnswersMatch BY DEF IInv
<1> QED BY <1>1, IInvCorrect, PTL

(***************************************************************************)
(* No server is passed over.                                               *)
(***************************************************************************)
\* Every try of the slot was the turn of one server, which was asked then.
TurnsAsked(s) == \A k \in 0 .. tries[s] - 1 : Turn(k) \in asked[owner[s]]

\* The list is still the one the waiting queries were sent to, and the number
\* of tries expire_slots read before it looked at the slots covers it; a failed
\* query has left its slot.
TurnsTaken ==
  /\ maxTries >= 2
  /\ \A s \in Slots : Used(s) => status[owner[s]] # "failed"
  /\ active => \A s \in Slots : Used(s) /\ owner[s] \notin moved /\ up # <<>> =>
                  TurnsAsked(s) /\ (pc = "expire" => Len(up) <= maxTries)

LEMMA TurnsInit == Init => TurnsTaken
  BY DEF Init, TurnsTaken, Used

\* A query that is given up: it has tried for as long as it may, or every server
\* of the list had its turn.
LEMMA TurnsCover ==
  ASSUME TypeOK, NEW s \in Slots, up # <<>>, TurnsAsked(s), tries[s] >= Len(up)
  PROVE  \A i \in 1 .. Len(up) : up[i] \in asked[owner[s]]
<1>1. up \in Seq(Servers) BY ServerAssumption DEF TypeOK
<1>2. Len(up) \in Nat /\ tries[s] \in Nat BY <1>1 DEF TypeOK
<1> SUFFICES ASSUME NEW i \in 1 .. Len(up) PROVE up[i] \in asked[owner[s]] OBVIOUS
<1>3. i - 1 \in 0 .. tries[s] - 1 BY <1>2
<1>4. Turn(i - 1) = up[i]
  <2>1. PICK k \in Nat : k = Len(up) BY <1>2
  <2>2. (i - 1) % k = i - 1 BY <2>1
  <2> QED BY <2>1, <2>2 DEF Turn
<1> QED BY <1>3, <1>4 DEF TurnsAsked

\* A slot that a step leaves alone keeps the turns it has taken.
LEMMA TurnsKept ==
  ASSUME TypeOK, NEW s \in Slots, owner'[s] = owner[s], tries'[s] = tries[s], up' = up,
         owner[s] \in Queries, asked[owner[s]] \subseteq asked'[owner[s]], TurnsAsked(s)
  PROVE  TurnsAsked(s)'
  BY DEF TurnsAsked, Turn

\* A step of the loop that sends nothing.
LEMMA TurnsQuiet ==
  ASSUME TypeOK, IInv, TurnsTaken, active, active',
         up' = up, asked' = asked, moved' = moved, maxTries' = maxTries,
         pc' = "expire" => pc = "expire",
         \A r \in Slots : Used(r)' => /\ owner'[r] = owner[r] /\ tries'[r] = tries[r]
                                      /\ status'[owner[r]] # "failed"
  PROVE  TurnsTaken'
<1>1. \A r \in Slots : Used(r)' => Used(r) /\ owner[r] \in Queries
  BY DEF TypeOK, Used
<1>2. \A r \in Slots : Used(r)' /\ TurnsAsked(r) => TurnsAsked(r)'
  BY <1>1, TurnsKept
<1> QED BY <1>1, <1>2 DEF TurnsTaken

\* expire_slots begins: it reads a number of tries that covers the list.
LEMMA TurnsEnter ==
  ASSUME TypeOK, IInv, TurnsTaken, active, active', EnterExpire,
         up' = up, asked' = asked, moved' = moved,
         \A r \in Slots : Used(r)' => /\ owner'[r] = owner[r] /\ tries'[r] = tries[r]
                                      /\ status'[owner[r]] # "failed"
  PROVE  TurnsTaken'
<1>1. \A r \in Slots : Used(r)' => Used(r) /\ owner[r] \in Queries
  BY DEF TypeOK, Used
<1>2. \A r \in Slots : Used(r)' /\ TurnsAsked(r) => TurnsAsked(r)'
  BY <1>1, TurnsKept
<1>3. up \in Seq(Servers) BY ServerAssumption DEF TypeOK
<1>4. maxTries' >= 2 /\ Len(up) <= maxTries' BY <1>3 DEF EnterExpire
<1> QED BY <1>1, <1>2, <1>4 DEF TurnsTaken

\* What one query waits for does not change what became of another.
LEMMA OthersUntouched ==
  ASSUME TypeOK, IInv, active, NEW q \in Queries, NEW outcome \in Outcomes, Tell(q, outcome)
  PROVE  \A r \in Slots : Used(r) /\ owner[r] # q => status'[owner[r]] # "failed"
  BY Holder DEF Tell, TypeOK

LEMMA TurnsStep == TypeOK /\ IInv /\ TurnsTaken /\ [Next]_vars => TurnsTaken'
<1> SUFFICES ASSUME TypeOK, IInv, TurnsTaken, [Next]_vars PROVE TurnsTaken' OBVIOUS
<1> USE DEF slotVars, histVars, userVars, loopVars, confVars
<1>0. active => \A r \in Slots : Used(r) => status[owner[r]] # "failed"
  BY DEF TurnsTaken
<1>1. ASSUME Wake \/ Elapse \/ NoQuery PROVE TurnsTaken'
  BY <1>1, <1>0, TurnsQuiet DEF Wake, Elapse, NoQuery, Goto, Used
<1>2. ASSUME NEW q \in Queries, Refuse(q) \/ Full(q) PROVE TurnsTaken'
  <2>1. PICK outcome \in Outcomes : Tell(q, outcome) BY <1>2 DEF Refuse, Full, Outcomes
  <2>2. /\ active /\ active' /\ status[q] = "unsent" /\ pc' = "upstream"
        /\ UNCHANGED <<owner, tries, up, asked, moved, maxTries>>
    BY <1>2 DEF Refuse, Full, Goto
  <2>3. \A r \in Slots : Used(r) => owner[r] # q BY <2>2, Holder
  <2>4. \A r \in Slots : Used(r) => status'[owner[r]] # "failed"
    BY <2>1, <2>2, <2>3, OthersUntouched
  <2> QED BY <2>2, <2>4, TurnsQuiet DEF Used
<1>3. ASSUME NEW q \in Queries, NEW s \in Slots, NEW g \in Tags, Forward(q, s, g) PROVE TurnsTaken'
  <2>1. /\ active /\ active' /\ pc' = "upstream" /\ up' = up /\ moved' = moved
        /\ maxTries' = maxTries /\ status[q] = "unsent"
        /\ owner' = [owner EXCEPT ![s] = q] /\ status' = [status EXCEPT ![q] = "pending"]
        /\ tries' = [tries EXCEPT ![s] = 1]
    BY <1>3 DEF Forward, Goto, SendUpstream
  <2>2. up # <<>> => asked' = [asked EXCEPT ![q] = @ \cup {Turn(0)}]
    BY <1>3 DEF Forward, SendUpstream
  <2>3. \A r \in Slots : Used(r)' => status'[owner'[r]] # "failed"
    BY <2>1, <1>0 DEF TypeOK, Used
  <2>4. ASSUME up # <<>> PROVE TurnsAsked(s)'
    BY <2>1, <2>2, <2>4 DEF TurnsAsked, Turn, TypeOK
  <2>5. ASSUME NEW r \in Slots, r # s, Used(r)', owner'[r] \notin moved', up # <<>>
        PROVE  TurnsAsked(r)'
    <3>1. owner'[r] = owner[r] /\ tries'[r] = tries[r] /\ Used(r) BY <2>1, <2>5 DEF TypeOK, Used
    <3>2. owner[r] \in Queries BY <3>1 DEF TypeOK, Used
    <3>3. asked[owner[r]] \subseteq asked'[owner[r]] BY <2>2, <2>5, <3>2 DEF TypeOK
    <3>4. TurnsAsked(r) BY <2>1, <2>5, <3>1 DEF TurnsTaken
    <3> QED BY <2>1, <3>1, <3>2, <3>3, <3>4, TurnsKept
  <2> QED BY <2>1, <2>3, <2>4, <2>5 DEF TurnsTaken
<1>4. ASSUME NEW p \in wire, Reply(p) PROVE TurnsTaken'
  <2>1. p.slot \in Slots BY DEF TypeOK
  <2>2. /\ active /\ active' /\ EnterExpire /\ Used(p.slot) /\ Free(p.slot)
        /\ UNCHANGED <<up, asked, moved>>
    BY <1>4 DEF Reply, Matches
  <2>3. PICK outcome \in {"answered", "mixedUp"} : Tell(owner[p.slot], outcome)
    BY <1>4 DEF Reply
  <2>4. \A r \in Slots : Used(r)' => /\ owner'[r] = owner[r] /\ tries'[r] = tries[r]
                                     /\ status'[owner[r]] # "failed"
    BY <2>1, <2>2, <2>3, <1>0, Holder DEF Free, Tell, Used, TypeOK
  <2> QED BY <2>2, <2>4, TurnsEnter
<1>5. CASE NoReply
  BY <1>5, <1>0, TurnsEnter DEF NoReply, Used
<1>6. ASSUME NEW s \in Slots, Fail(s) PROVE TurnsTaken'
  <2>1. /\ active /\ active' /\ pc = "expire" /\ Used(s) /\ Free(s)
        /\ Tell(owner[s], "failed") /\ UNCHANGED <<up, asked, moved, maxTries>>
    BY <1>6 DEF Fail, Step
  <2>2. \A r \in Slots : Used(r)' => r # s /\ Used(r) /\ owner'[r] = owner[r] /\ tries'[r] = tries[r]
    BY <2>1 DEF Free, Used, TypeOK
  <2>3. owner[s] \in Queries /\ \A r \in Slots : owner[r] = owner[s] => r = s BY <2>1, Holder
  <2>4. \A r \in Slots : Used(r)' => status'[owner[r]] # "failed"
    BY <2>1, <2>2, <2>3, OthersUntouched DEF Outcomes
  <2> QED BY <2>1, <2>2, <2>4, TurnsQuiet
<1>7. ASSUME NEW s \in Slots, Retry(s) PROVE TurnsTaken'
  <2>1. /\ active /\ active' /\ pc = "expire" /\ Used(s)
        /\ SendUpstream(s, owner[s], tag[s], tries[s])
        /\ UNCHANGED <<owner, moved, status, up, maxTries>>
    BY <1>7 DEF Retry, Step
  <2>2. owner[s] \in Queries /\ tries[s] \in Nat BY <2>1 DEF Used, TypeOK
  <2>3. tries' = [tries EXCEPT ![s] = tries[s] + 1] BY <2>1 DEF SendUpstream
  <2>4. up # <<>> => asked' = [asked EXCEPT ![owner[s]] = @ \cup {Turn(tries[s])}]
    BY <2>1 DEF SendUpstream
  <2>5. ASSUME NEW r \in Slots, Used(r)', owner'[r] \notin moved', up # <<>>
        PROVE  TurnsAsked(r)' /\ Len(up) <= maxTries
    <3>1. Used(r) /\ owner[r] \in Queries BY <2>1, <2>5 DEF Used, TypeOK
    <3>2. TurnsAsked(r) /\ Len(up) <= maxTries BY <2>1, <2>5, <3>1 DEF TurnsTaken
    <3>3. asked[owner[r]] \subseteq asked'[owner[r]] BY <2>4, <2>5, <3>1 DEF TypeOK
    <3>4. CASE r # s
      <4>1. tries'[r] = tries[r] BY <2>3, <3>4 DEF TypeOK
      <4> QED BY <2>1, <3>1, <3>2, <3>3, <4>1, TurnsKept
    <3>5. CASE r = s
      <4>1. Turn(tries[s]) \in asked'[owner[s]] BY <2>2, <2>4, <2>5 DEF TypeOK
      <4>2. tries'[s] = tries[s] + 1 BY <2>3 DEF TypeOK
      <4>3. \A k \in 0 .. tries[s] : k = tries[s] \/ k \in 0 .. tries[s] - 1 BY <2>2
      <4>4. \A k \in 0 .. tries'[s] - 1 : Turn(k) \in asked'[owner'[s]]
        BY <2>1, <2>2, <3>2, <3>3, <3>5, <4>1, <4>2, <4>3 DEF TurnsAsked
      <4> QED BY <2>1, <3>2, <3>5, <4>4 DEF TurnsAsked, Turn
    <3> QED BY <3>2, <3>4, <3>5
  <2> QED BY <2>1, <2>5, <1>0 DEF TurnsTaken, Used
<1>8. ASSUME NEW s \in Slots, Keep(s) PROVE TurnsTaken'
  BY <1>8, <1>0, TurnsQuiet DEF Keep, Step, Used
<1>9. CASE Stop
  <2>1. \A q \in Queries : status[q] # "failed" => status'[q] # "failed"
    BY <1>9 DEF Stop, DropPending, TypeOK
  <2>2. \A r \in Slots : Used(r)' => Used(r) /\ owner[r] \in Queries /\ owner'[r] = owner[r]
    BY <1>9 DEF Stop, Used, TypeOK
  <2> QED BY <1>9, <2>1, <2>2 DEF Stop, TurnsTaken
<1>10. CASE Start
  <2>1. \A s \in Slots : ~Used(s)' BY <1>10 DEF Start, Clear, Used
  <2> QED BY <1>10, <2>1 DEF Start, TurnsTaken
<1>11. ASSUME NEW list \in UpLists, SetUpstreams(list) PROVE TurnsTaken'
  <2>1. UNCHANGED <<owner, status, maxTries, active>> BY <1>11 DEF SetUpstreams
  <2>2. active => \A s \in Slots : Used(s) => owner[s] \in moved'
    BY <1>11, Holder DEF SetUpstreams
  <2> QED BY <2>1, <2>2 DEF TurnsTaken, Used
<1>12. CASE UNCHANGED vars
  BY <1>12 DEF vars, TurnsTaken, TurnsAsked, Turn, Used
<1> QED
  BY <1>1, <1>2, <1>3, <1>4, <1>5, <1>6, <1>7, <1>8, <1>9, <1>10, <1>11, <1>12
  DEF Next, Loop, Client, Upstream, Expire

\* Only expire_slots lets a query fail.
LEMMA OnlyFail ==
  ASSUME TypeOK, Next, NEW q \in Queries, status[q] # "failed", status'[q] = "failed"
  PROVE  \E r \in Slots : Fail(r)
<1> USE DEF slotVars, histVars, userVars, loopVars, confVars
<1>1. ~Wake /\ ~Elapse /\ ~NoQuery /\ ~NoReply /\ ~Start
  BY DEF Wake, Elapse, NoQuery, NoReply, Start
<1>2. \A r \in Queries : ~Refuse(r) /\ ~Full(r) BY DEF Refuse, Full, Tell, TypeOK
<1>3. \A r \in Queries, s \in Slots, g \in Tags : ~Forward(r, s, g) BY DEF Forward, TypeOK
<1>4. \A p \in wire : ~Reply(p) BY DEF Reply, Tell, TypeOK
<1>5. \A s \in Slots : ~Retry(s) /\ ~Keep(s) BY DEF Retry, Keep
<1>6. ~Stop BY DEF Stop, DropPending
<1>7. \A list \in UpLists : ~SetUpstreams(list) BY DEF SetUpstreams
<1> QED
  BY <1>1, <1>2, <1>3, <1>4, <1>5, <1>6, <1>7 DEF Next, Loop, Client, Upstream, Expire

\* FailsLate: a query that did not wait while the list changed fails only after
\* every server of the list was asked, and at least two tries, or at the deadline.
THEOREM FailsLateCorrect == Spec => FailsLate
<1> DEFINE Late ==
  \A s \in Slots :
    Used(s) /\ owner[s] \notin moved /\ status'[owner[s]] = "failed" =>
      \/ first[s] > GIVE_UP
      \/ tries[s] >= 2 /\ \A i \in 1 .. Len(up) : up[i] \in asked[owner[s]]
<1>1. TypeOK /\ IInv /\ TurnsTaken /\ [Next]_vars => [Late]_vars
  <2> SUFFICES ASSUME TypeOK, IInv, TurnsTaken, Next,
                      NEW s \in Slots, Used(s), owner[s] \notin moved, status'[owner[s]] = "failed"
               PROVE  \/ first[s] > GIVE_UP
                      \/ tries[s] >= 2 /\ \A i \in 1 .. Len(up) : up[i] \in asked[owner[s]]
    OBVIOUS
  <2>1. owner[s] \in Queries /\ status[owner[s]] # "failed" BY DEF TurnsTaken, TypeOK, Used
  <2>2. PICK r \in Slots : Fail(r) BY <2>1, OnlyFail
  <2>3. /\ active /\ pc = "expire" /\ Used(r) /\ GivenUp(r) /\ Tell(owner[r], "failed")
    BY <2>2 DEF Fail
  <2>4. r = s
    <3>1. owner[r] = owner[s] BY <2>1, <2>3 DEF Tell, TypeOK
    <3> QED BY <2>3, <3>1, Holder
  <2> SUFFICES ASSUME ~(first[s] > GIVE_UP)
               PROVE  tries[s] >= 2 /\ \A i \in 1 .. Len(up) : up[i] \in asked[owner[s]]
    OBVIOUS
  <2>5. tries[s] >= maxTries BY <2>3, <2>4 DEF GivenUp
  <2>6. tries[s] \in Nat /\ maxTries \in Nat /\ maxTries >= 2 BY DEF TypeOK, TurnsTaken
  <2>7. up \in Seq(Servers) BY ServerAssumption DEF TypeOK
  <2>8. CASE up = <<>> BY <2>5, <2>6, <2>8
  <2>9. CASE up # <<>>
    <3>1. TurnsAsked(s) /\ Len(up) <= maxTries BY <2>3, <2>9 DEF TurnsTaken
    <3>2. Len(up) \in Nat BY <2>7
    <3>3. tries[s] >= Len(up) BY <2>5, <2>6, <3>1, <3>2
    <3> QED BY <2>5, <2>6, <2>9, <3>1, <3>3, TurnsCover
  <2> QED BY <2>8, <2>9
<1>2. Init => TypeOK /\ IInv /\ TurnsTaken BY TypeInit, InvInit, TurnsInit
<1>3. TypeOK /\ IInv /\ TurnsTaken /\ [Next]_vars => (TypeOK /\ IInv /\ TurnsTaken)'
  BY TypeStep, InvStep, TurnsStep
<1>4. Spec => [][Late]_vars BY <1>1, <1>2, <1>3, PTL DEF Spec
<1> QED BY <1>4 DEF FailsLate

-----------------------------------------------------------------------------
(***************************************************************************)
(* WinDnsRedirect, for any set of adapters, any size of the table of       *)
(* backups, and any number of crashes and starts.                          *)
(*                                                                         *)
(* AdaptersTypeOK /\ AdaptersInv is inductive.  Each part of it is shown   *)
(* to be preserved by cases on the actions: the types of the settings and  *)
(* of the places, then LinesTrue, ChangedListed, Places, Progress and      *)
(* Redirected.  The other properties follow from it in the state itself,   *)
(* but InUse, which needs to know that changed remembers an adapter        *)
(* (AdapterUsed).                                                          *)
(***************************************************************************)

USE DEF NoBackup, PCs, runVars, procVars, adapterVars

\* The two parts of the type invariant.
DataTypes ==
  /\ orig \in [Adapters -> [Families -> {"dhcp", "fixed"}]]
  /\ conf \in [Adapters -> Settings]
  /\ file \in [Adapters -> [Families -> {"-", "fixed", "ours"}] \cup {None}]
  /\ backup \in [Adapters -> Settings \cup {None}]

AdaptersPlaceTypes ==
  /\ redirected \in BOOLEAN /\ serving \in BOOLEAN /\ changed \in BOOLEAN
  /\ todo \subseteq Adapters /\ cur \in Adapters \cup {None}
  /\ at \in PCs /\ ret \in {"run", "down"}
  /\ spoiled \subseteq Adapters
  /\ crashed \in BOOLEAN
  /\ launches \in 0 .. MaxLaunches

LEMMA AdaptersTypeParts == AdaptersTypeOK <=> DataTypes /\ AdaptersPlaceTypes
  BY DEF AdaptersTypeOK, DataTypes, AdaptersPlaceTypes

-----------------------------------------------------------------------------
\* Settings are equal when both families are.
LEMMA SameSettings ==
  ASSUME NEW s \in Settings, NEW t \in Settings, s["v4"] = t["v4"], s["v6"] = t["v6"]
  PROVE  s = t
  BY DEF Settings, Families

\* A line of the file reads as the settings it was written from.
LEMMA RoundTrip ==
  ASSUME NEW s \in Settings
  PROVE  /\ [f \in Families |-> Text(s[f])] \in [Families -> {"-", "fixed", "ours"}]
         /\ [f \in Families |-> FromText([g \in Families |-> Text(s[g])][f])] = s
<1>1. \A f \in Families : Text(s[f]) \in {"-", "fixed", "ours"} /\ FromText(Text(s[f])) = s[f]
  BY DEF Settings, AdapterServers, Text, FromText
<1>2. [f \in Families |-> FromText([g \in Families |-> Text(s[g])][f])]
        = [f \in Families |-> s[f]]
  BY <1>1
<1>3. [f \in Families |-> s[f]] = s BY DEF Settings
<1> QED BY <1>1, <1>2, <1>3

\* What a start reads is settings.
LEMMA ReadSettings ==
  ASSUME AdaptersTypeOK, NEW a \in Adapters, file[a] # None
  PROVE  ReadFile[a] \in Settings /\ ReadFile[a] = [f \in Families |-> FromText(file[a][f])]
<1>1. file[a] \in [Families -> {"-", "fixed", "ours"}] BY DEF AdaptersTypeOK
<1>2. \A f \in Families : FromText(file[a][f]) \in AdapterServers BY <1>1 DEF FromText, AdapterServers
<1> QED BY <1>2 DEF ReadFile, Settings

\* set_servers changes one family of one adapter, or nothing.
LEMMA PutChanges ==
  ASSUME conf \in [Adapters -> Settings], NEW a \in Adapters, NEW f \in Families,
         NEW s \in AdapterServers, NEW works \in BOOLEAN, Put(a, f, s, works)
  PROVE  /\ conf' \in [Adapters -> Settings]
         /\ \A x \in Adapters \ {a} : conf'[x] = conf[x]
         /\ \A g \in Families \ {f} : conf'[a][g] = conf[a][g]
         /\ works => conf'[a][f] = s
<1>1. CASE works
  <2>1. conf' = [conf EXCEPT ![a] = [conf[a] EXCEPT ![f] = s]] BY <1>1 DEF Put
  <2>2. [conf[a] EXCEPT ![f] = s] \in Settings BY DEF Settings
  <2>3. conf'[a] = [conf[a] EXCEPT ![f] = s] BY <2>1
  <2> QED BY <2>1, <2>2, <2>3 DEF Settings
<1>2. CASE ~works BY <1>2 DEF Put
<1> QED BY <1>1, <1>2

\* Before the first start nothing is changed.
LEMMA AdaptersInitCorrect ==
  AdaptersInit => AdaptersTypeOK /\ AdaptersInv
<1> SUFFICES ASSUME AdaptersInit PROVE AdaptersTypeOK /\ AdaptersInv OBVIOUS
<1>1. AdaptersTypeOK
  <2>1. conf \in [Adapters -> Settings] BY DEF AdaptersInit, Settings, AdapterServers
  <2>2. launches \in 0 .. MaxLaunches BY SizeAssumption DEF AdaptersInit
  <2> QED BY <2>1, <2>2 DEF AdaptersInit, AdaptersTypeOK, NoBackup, PCs
<1>2. LinesTrue /\ ChangedListed BY DEF AdaptersInit, LinesTrue, ChangedListed, NoBackup, Unspoiled
<1>3. Places /\ Progress /\ Redirected BY DEF AdaptersInit, Places, Progress, Redirected
<1> QED BY <1>1, <1>2, <1>3 DEF AdaptersInv

-----------------------------------------------------------------------------
\* Taking the proxy's server changes the adapter at hand only.
LEMMA TakeChanges ==
  ASSUME AdaptersTypeOK, AdaptersInv, SetV4 \/ SetV6
  PROVE  /\ conf' \in [Adapters -> Settings]
         /\ cur \in Adapters
         /\ \A x \in Adapters \ {cur} : conf'[x] = conf[x]
         /\ conf[cur]["v4"] = "ours" => conf'[cur]["v4"] = "ours"
         /\ changed' => changed \/ conf'[cur]["v4"] = "ours"
<1>1. cur \in Adapters BY DEF AdaptersTypeOK, AdaptersInv, Places, SetV4, SetV6
<1>2. CASE SetV4
  <2>1. PICK works \in BOOLEAN : Put(cur, "v4", "ours", works) /\ changed' = (changed \/ (works /\ TRUE))
    BY <1>2 DEF SetV4, Take, Counts
  <2>2. ~works => conf' = conf BY <2>1 DEF Put
  <2> QED BY <1>1, <2>1, <2>2, PutChanges DEF AdaptersTypeOK, AdapterServers, Families
<1>3. CASE SetV6
  <2>1. PICK works \in BOOLEAN : Put(cur, "v6", "ours", works) /\ changed' = (changed \/ FALSE)
    BY <1>3 DEF SetV6, Take, Counts
  <2> QED BY <1>1, <2>1, PutChanges DEF AdaptersTypeOK, AdapterServers, Families
<1> QED BY <1>2, <1>3

\* Putting back the IPv4 servers of an adapter changes that adapter only, and
\* its IPv4 servers are the user's then, or it is excused.
LEMMA PutBack4Changes ==
  ASSUME AdaptersTypeOK, AdaptersInv, End4 \/ Recover4
  PROVE  /\ conf' \in [Adapters -> Settings]
         /\ cur' \in todo /\ todo' = todo \ {cur'}
         /\ \A x \in Adapters \ {cur'} : conf'[x] = conf[x]
         /\ cur' \notin spoiled' => conf'[cur']["v4"] = orig[cur']["v4"]
         /\ conf'[cur']["v6"] = conf[cur']["v6"]
<1>1. CASE End4
  <2>1. PICK a \in todo, works \in BOOLEAN :
          cur' = a /\ todo' = todo \ {a} /\ Put(a, "v4", backup[a]["v4"],
            works) /\ Spoil(a, works)
    BY <1>1 DEF End4, PutBack4
  <2>2. a \in Adapters /\ backup[a] # None
    BY <1>1 DEF AdaptersInv, Places, Listed, End4, PutBack4, AdaptersTypeOK
  <2>3. backup[a]["v4"] \in AdapterServers BY <2>2 DEF AdaptersTypeOK, Settings, Families
  <2>4. a \notin spoiled' => works /\ backup[a] = orig[a]
    BY <2>1, <2>2 DEF Spoil, AdaptersInv, LinesTrue, Unspoiled
  <2> QED BY <2>1, <2>2, <2>3, <2>4, PutChanges DEF AdaptersTypeOK, Families
<1>2. CASE Recover4
  <2>1. PICK a \in todo, works \in BOOLEAN :
          cur' = a /\ todo' = todo \ {a} /\ Put(a, "v4", ReadFile[a]["v4"],
            works) /\ Spoil(a, works)
    BY <1>2 DEF Recover4, PutBack4
  <2>2. a \in Adapters /\ file[a] # None
    BY <1>2 DEF AdaptersInv, Places, Listed, Recover4, PutBack4, AdaptersTypeOK
  <2>3. ReadFile[a]["v4"] \in AdapterServers BY <2>2, ReadSettings DEF Settings, Families
  <2>4. a \notin spoiled' => works /\ ReadFile[a] = orig[a]
    BY <2>1, <2>2 DEF Spoil, AdaptersInv, LinesTrue, Unspoiled
  <2> QED BY <2>1, <2>2, <2>3, <2>4, PutChanges DEF AdaptersTypeOK, Families
<1> QED BY <1>1, <1>2

\* After its IPv6 servers the adapter at hand is the user's, or it is excused.
LEMMA PutBack6Changes ==
  ASSUME AdaptersTypeOK, AdaptersInv, End6 \/ Recover6
  PROVE  /\ conf' \in [Adapters -> Settings]
         /\ cur \in Adapters
         /\ \A x \in Adapters \ {cur} : conf'[x] = conf[x]
         /\ cur \notin spoiled' => conf'[cur] = orig[cur]
<1>0. cur \in Adapters BY DEF AdaptersTypeOK, AdaptersInv, Places, End6, Recover6, PutBack6
<1>1. PICK s \in AdapterServers, works \in BOOLEAN :
        /\ Put(cur, "v6", s, works)
        /\ cur \notin spoiled' => works /\ cur \notin spoiled /\ s = orig[cur]["v6"]
  <2>1. CASE End6
    <3>1. PICK works \in BOOLEAN : Put(cur, "v6", backup[cur]["v6"], works) /\ Spoil(cur, works)
      BY <2>1 DEF End6, PutBack6
    <3>2. backup[cur] # None BY <2>1 DEF AdaptersInv, Places, Listed, End6, PutBack6
    <3>3. backup[cur]["v6"] \in AdapterServers BY <1>0, <3>2 DEF AdaptersTypeOK, Settings, Families
    <3>4. cur \notin spoiled' => works /\ cur \notin spoiled /\ backup[cur] = orig[cur]
      BY <1>0, <3>1, <3>2 DEF Spoil, AdaptersInv, LinesTrue, Unspoiled
    <3> QED BY <3>1, <3>3, <3>4
  <2>2. CASE Recover6
    <3>1. PICK works \in BOOLEAN : Put(cur, "v6", ReadFile[cur]["v6"], works) /\ Spoil(cur, works)
      BY <2>2 DEF Recover6, PutBack6
    <3>2. file[cur] # None BY <2>2 DEF AdaptersInv, Places, Listed, Recover6, PutBack6
    <3>3. ReadFile[cur]["v6"] \in AdapterServers BY <1>0, <3>2, ReadSettings DEF Settings, Families
    <3>4. cur \notin spoiled' => works /\ cur \notin spoiled /\ ReadFile[cur] = orig[cur]
      BY <1>0, <3>1, <3>2 DEF Spoil, AdaptersInv, LinesTrue, Unspoiled
    <3> QED BY <3>1, <3>3, <3>4
  <2> QED BY <2>1, <2>2
<1>2. /\ conf' \in [Adapters -> Settings]
      /\ \A x \in Adapters \ {cur} : conf'[x] = conf[x]
      /\ conf'[cur]["v4"] = conf[cur]["v4"]
      /\ cur \notin spoiled' => conf'[cur]["v6"] = orig[cur]["v6"]
  BY <1>0, <1>1, PutChanges DEF AdaptersTypeOK, Families
<1>3. cur \notin spoiled' => conf[cur]["v4"] = orig[cur]["v4"]
  BY <1>0, <1>1 DEF AdaptersInv, Progress, Unspoiled, End6, Recover6, PutBack6
<1>4. orig[cur] \in Settings /\ conf'[cur] \in Settings
  BY <1>0, <1>2 DEF AdaptersTypeOK, Settings, AdapterServers
<1> QED BY <1>0, <1>2, <1>3, <1>4, SameSettings

\* The user's settings are not touched, and an adapter that is excused stays excused.
LEMMA Grows == [AdaptersNext]_adaptersVars => orig' = orig /\ spoiled \subseteq spoiled'
<1> SUFFICES ASSUME [AdaptersNext]_adaptersVars
  PROVE orig' = orig /\ spoiled \subseteq spoiled' OBVIOUS
<1>1. CASE Redirect
  <2>1. CASE ReadAdapters BY <2>1 DEF ReadAdapters
  <2>2. CASE \E a \in Adapters : Adapter(a) BY <2>2 DEF Adapter, AfterRead, Listed, Spoil
  <2>3. CASE SaveOpen BY <2>3 DEF SaveOpen, Saved
  <2>4. CASE SaveWrite BY <2>4 DEF SaveWrite, Saved, Lines, Line, Text
  <2>5. CASE SetV4 BY <2>5 DEF SetV4, Take, Put, Counts
  <2>6. CASE SetV6 BY <2>6 DEF SetV6, Take, Put, Counts
  <2>7. CASE BeginDone BY <2>7 DEF BeginDone, Undo, Listed
  <2> QED BY <1>1, <2>1, <2>2, <2>3, <2>4, <2>5, <2>6, <2>7 DEF Redirect
<1>2. CASE Restore
  <2>1. CASE End4 BY <2>1 DEF End4, PutBack4, Put, Spoil, Listed
  <2>2. CASE End6 BY <2>2 DEF End6, PutBack6, Put, Spoil, Listed
  <2>3. CASE EndDone BY <2>3 DEF EndDone
  <2>4. CASE Recover4 BY <2>4 DEF Recover4, PutBack4, Put, Spoil, Listed, ReadFile, FromText
  <2>5. CASE Recover6 BY <2>5 DEF Recover6, PutBack6, Put, Spoil, Listed, ReadFile, FromText
  <2>6. CASE RecoverDone BY <2>6 DEF RecoverDone
  <2> QED BY <1>2, <2>1, <2>2, <2>3, <2>4, <2>5, <2>6 DEF Restore
<1>3. CASE Engine
  <2>1. CASE Launch BY <2>1 DEF Launch, Listed
  <2>2. CASE TurnOn BY <2>2 DEF TurnOn
  <2>3. CASE TurnOff BY <2>3 DEF TurnOff, Stopping, Listed
  <2>4. CASE Quit BY <2>4 DEF Quit, Stopping, Listed
  <2>5. CASE QuitPlain BY <2>5 DEF QuitPlain
  <2> QED BY <1>3, <2>1, <2>2, <2>3, <2>4, <2>5 DEF Engine
<1>4. CASE Crash BY <1>4 DEF Crash
<1>5. CASE Finished \/ UNCHANGED adaptersVars BY <1>5 DEF Finished, adaptersVars, ReadFile,
  FromText, Listed
<1> QED BY <1>1, <1>2, <1>3, <1>4, <1>5 DEF AdaptersNext

\* The settings, the file and the table hold what the code writes to them.
LEMMA DataTypesStep == AdaptersTypeOK /\ AdaptersInv /\ [AdaptersNext]_adaptersVars => DataTypes'
<1> SUFFICES ASSUME AdaptersTypeOK /\ AdaptersInv, [AdaptersNext]_adaptersVars PROVE DataTypes' OBVIOUS
<1> USE DEF AdaptersTypeOK, DataTypes
<1>1. CASE Redirect
  <2>1. CASE ReadAdapters BY <2>1 DEF ReadAdapters
  <2>2. CASE \E a \in Adapters : Adapter(a)
    <3>1. PICK a \in Adapters : Adapter(a) BY <2>2
    <3>2. [f \in Families |-> "dhcp"] \in Settings /\ conf[a] \in Settings
      BY DEF Settings, AdapterServers, AdaptersTypeOK
    <3> QED BY <3>1, <3>2 DEF Adapter, AdaptersTypeOK, DataTypes
  <2>3. CASE SaveOpen BY <2>3 DEF SaveOpen, Saved
  <2>4. CASE SaveWrite
    <3>1. \A a \in Adapters : Line(backup[a]) \in [Families -> {"-", "fixed", "ours"}] \cup {None}
      BY RoundTrip DEF Line, AdaptersTypeOK
    <3> QED BY <2>4, <3>1 DEF SaveWrite, Lines, AdaptersTypeOK, DataTypes
  <2>5. CASE SetV4
    <3>1. conf' \in [Adapters -> Settings] BY <2>5, TakeChanges
    <3> QED BY <2>5, <3>1 DEF SetV4, DataTypes, AdaptersTypeOK
  <2>6. CASE SetV6
    <3>1. conf' \in [Adapters -> Settings] BY <2>6, TakeChanges
    <3> QED BY <2>6, <3>1 DEF SetV6, DataTypes, AdaptersTypeOK
  <2>7. CASE BeginDone BY <2>7 DEF BeginDone, Undo, Listed
  <2> QED BY <1>1, <2>1, <2>2, <2>3, <2>4, <2>5, <2>6, <2>7 DEF Redirect
<1>2. CASE Restore
  <2>1. CASE End4
    <3>1. conf' \in [Adapters -> Settings] BY <2>1, PutBack4Changes
    <3> QED BY <2>1, <3>1 DEF End4, PutBack4, DataTypes, AdaptersTypeOK
  <2>2. CASE End6
    <3>1. conf' \in [Adapters -> Settings] BY <2>2, PutBack6Changes
    <3> QED BY <2>2, <3>1 DEF End6, PutBack6, DataTypes, AdaptersTypeOK
  <2>3. CASE EndDone BY <2>3 DEF EndDone
  <2>4. CASE Recover4
    <3>1. conf' \in [Adapters -> Settings] BY <2>4, PutBack4Changes
    <3> QED BY <2>4, <3>1 DEF Recover4, PutBack4, DataTypes, AdaptersTypeOK
  <2>5. CASE Recover6
    <3>1. conf' \in [Adapters -> Settings] BY <2>5, PutBack6Changes
    <3> QED BY <2>5, <3>1 DEF Recover6, PutBack6, DataTypes, AdaptersTypeOK
  <2>6. CASE RecoverDone BY <2>6 DEF RecoverDone
  <2> QED BY <1>2, <2>1, <2>2, <2>3, <2>4, <2>5, <2>6 DEF Restore
<1>3. CASE Engine
  <2>1. CASE Launch BY <2>1 DEF Launch, Listed
  <2>2. CASE TurnOn BY <2>2 DEF TurnOn
  <2>3. CASE TurnOff BY <2>3 DEF TurnOff, Stopping, Listed
  <2>4. CASE Quit BY <2>4 DEF Quit, Stopping, Listed
  <2>5. CASE QuitPlain BY <2>5 DEF QuitPlain
  <2> QED BY <1>3, <2>1, <2>2, <2>3, <2>4, <2>5 DEF Engine
<1>4. CASE Crash BY <1>4 DEF Crash
<1>5. CASE Finished \/ UNCHANGED adaptersVars BY <1>5 DEF Finished, adaptersVars, ReadFile,
  FromText, Listed
<1> QED BY <1>1, <1>2, <1>3, <1>4, <1>5 DEF AdaptersNext

\* The engine stays in the program, and its loops among the adapters.
LEMMA AdaptersPlaceTypesStep ==
  AdaptersTypeOK /\ AdaptersInv /\ [AdaptersNext]_adaptersVars => AdaptersPlaceTypes'
<1> SUFFICES ASSUME AdaptersTypeOK /\ AdaptersInv, [AdaptersNext]_adaptersVars
  PROVE AdaptersPlaceTypes' OBVIOUS
<1> USE DEF AdaptersTypeOK, AdaptersPlaceTypes
<1>1. CASE Redirect
  <2>1. CASE ReadAdapters BY <2>1 DEF ReadAdapters
  <2>2. CASE \E a \in Adapters : Adapter(a) BY <2>2 DEF Adapter, AfterRead, Listed, Spoil
  <2>3. CASE SaveOpen BY <2>3 DEF SaveOpen, Saved
  <2>4. CASE SaveWrite BY <2>4 DEF SaveWrite, Saved, Lines, Line, Text
  <2>5. CASE SetV4
    <3>1. changed' \in BOOLEAN BY <2>5 DEF SetV4, Take
    <3> QED BY <2>5, <3>1 DEF SetV4
  <2>6. CASE SetV6
    <3>1. changed' \in BOOLEAN BY <2>6 DEF SetV6, Take
    <3> QED BY <2>6, <3>1 DEF SetV6
  <2>7. CASE BeginDone BY <2>7 DEF BeginDone, Undo, Listed
  <2> QED BY <1>1, <2>1, <2>2, <2>3, <2>4, <2>5, <2>6, <2>7 DEF Redirect
<1>2. CASE Restore
  <2>1. CASE End4
    <3>1. PICK a \in todo, works \in BOOLEAN : cur' = a /\ todo' = todo \ {a} /\ Spoil(a, works)
      BY <2>1 DEF End4, PutBack4
    <3> QED BY <2>1, <3>1 DEF End4, PutBack4, Spoil
  <2>2. CASE End6
    <3>1. PICK works \in BOOLEAN : Spoil(cur, works) BY <2>2 DEF End6, PutBack6
    <3>2. spoiled' \subseteq Adapters BY <2>2, <3>1, PutBack6Changes DEF Spoil
    <3> QED BY <2>2, <3>2 DEF End6, PutBack6
  <2>3. CASE EndDone BY <2>3 DEF EndDone
  <2>4. CASE Recover4
    <3>1. PICK a \in todo, works \in BOOLEAN : cur' = a /\ todo' = todo \ {a} /\ Spoil(a, works)
      BY <2>4 DEF Recover4, PutBack4
    <3> QED BY <2>4, <3>1 DEF Recover4, PutBack4, Spoil
  <2>5. CASE Recover6
    <3>1. PICK works \in BOOLEAN : Spoil(cur, works) BY <2>5 DEF Recover6, PutBack6
    <3>2. spoiled' \subseteq Adapters BY <2>5, <3>1, PutBack6Changes DEF Spoil
    <3> QED BY <2>5, <3>2 DEF Recover6, PutBack6
  <2>6. CASE RecoverDone BY <2>6 DEF RecoverDone
  <2> QED BY <1>2, <2>1, <2>2, <2>3, <2>4, <2>5, <2>6 DEF Restore
<1>3. CASE Engine
  <2>1. CASE Launch
    <3>1. launches' \in 0 .. MaxLaunches BY <2>1, SizeAssumption DEF Launch
    <3> QED BY <2>1, <3>1 DEF Launch, Listed
  <2>2. CASE TurnOn BY <2>2 DEF TurnOn
  <2>3. CASE TurnOff BY <2>3 DEF TurnOff, Stopping, Listed
  <2>4. CASE Quit BY <2>4 DEF Quit, Stopping, Listed
  <2>5. CASE QuitPlain BY <2>5 DEF QuitPlain
  <2> QED BY <1>3, <2>1, <2>2, <2>3, <2>4, <2>5 DEF Engine
<1>4. CASE Crash BY <1>4 DEF Crash, Exposed
<1>5. CASE Finished \/ UNCHANGED adaptersVars BY <1>5 DEF Finished, adaptersVars, ReadFile,
  FromText, Listed
<1> QED BY <1>1, <1>2, <1>3, <1>4, <1>5 DEF AdaptersNext

-----------------------------------------------------------------------------
\* The parts of the invariant for one adapter.
TrueAt(x) ==
  /\ file[x] # None => ReadFile[x] = orig[x]
  /\ backup[x] # None => backup[x] = orig[x]

ListedAt(x) == conf[x] # orig[x] =>
  /\ at # "write" => file[x] # None
  /\ at \notin {"down", "recover", "recover6"} => backup[x] # None

ProgressAt(x) ==
  /\ at \in {"begin", "save", "write", "set", "set6"} /\ x \in todo => conf[x] = orig[x]
  /\ at \in {"end", "recover"} /\ x \notin todo => conf[x] = orig[x]
  /\ at \in {"end6", "recover6"} /\ x \notin todo /\ x # cur => conf[x] = orig[x]
  /\ at \in {"end6", "recover6"} /\ x = cur => conf[x]["v4"] = orig[x]["v4"]

\* No step writes a wrong line.
LEMMA LinesTrueStep ==
  AdaptersTypeOK /\ AdaptersInv /\ [AdaptersNext]_adaptersVars => LinesTrue'
<1> SUFFICES ASSUME AdaptersTypeOK, AdaptersInv, [AdaptersNext]_adaptersVars, NEW x \in Adapters,
  x \notin spoiled'
             PROVE  TrueAt(x)'
  BY DEF LinesTrue, Unspoiled, TrueAt
<1>0. x \notin spoiled /\ orig' = orig BY Grows
<1>a. TrueAt(x) /\ ListedAt(x) /\ ProgressAt(x)
  BY <1>0 DEF AdaptersInv, LinesTrue, ChangedListed, Progress, Unspoiled, TrueAt, ListedAt, ProgressAt
<1>b. file' = file => ReadFile' = ReadFile BY DEF ReadFile
<1>1. CASE Redirect
  <2>1. CASE ReadAdapters BY <1>0, <1>a, <1>b, <2>1 DEF ReadAdapters, TrueAt
  <2>2. CASE \E a \in Adapters : Adapter(a)
    <3>1. PICK a \in Adapters : Adapter(a) BY <2>2
    <3> QED BY <1>0, <1>a, <1>b, <3>1 DEF Adapter, Spoil, TrueAt, ProgressAt, AdaptersTypeOK
  <2>3. CASE SaveOpen BY <1>0, <1>a, <1>b, <2>3 DEF SaveOpen, Saved, TrueAt
  <2>4. CASE SaveWrite
    <3>1. file'[x] = Line(backup[x]) /\ backup' = backup BY <2>4 DEF SaveWrite, Lines
    <3>2. ReadFile'[x] = IF file'[x] = None THEN None ELSE [f \in Families |-> FromText(file'[x][f])]
      BY DEF ReadFile
    <3>3. CASE backup[x] = None BY <1>0, <1>a, <3>1, <3>3 DEF Line, TrueAt
    <3>4. CASE backup[x] # None
      <4>1. backup[x] \in Settings /\ backup[x] = orig[x] BY <1>a, <3>4 DEF AdaptersTypeOK, TrueAt
      <4>2. file'[x] = [f \in Families |-> Text(backup[x][f])] BY <3>1, <3>4
        DEF Line
      <4>3. file'[x] # None => ReadFile'[x] = backup[x] BY <3>2, <4>1, <4>2, RoundTrip
      <4> QED BY <1>0, <3>1, <4>1, <4>3 DEF TrueAt
    <3> QED BY <3>3, <3>4
  <2>5. CASE SetV4
    <3>1. file' = file /\ backup' = backup BY <2>5 DEF SetV4
    <3> QED BY <1>0, <1>a, <1>b, <3>1 DEF TrueAt
  <2>6. CASE SetV6
    <3>1. file' = file /\ backup' = backup BY <2>6 DEF SetV6
    <3> QED BY <1>0, <1>a, <1>b, <3>1 DEF TrueAt
  <2>7. CASE BeginDone BY <1>0, <1>a, <1>b, <2>7 DEF BeginDone, Undo, Listed, TrueAt
  <2> QED BY <1>1, <2>1, <2>2, <2>3, <2>4, <2>5, <2>6, <2>7 DEF Redirect
<1>2. CASE Restore
  <2>1. CASE End4
    <3>1. file' = file /\ backup' = backup BY <2>1 DEF End4, PutBack4
    <3> QED BY <1>0, <1>a, <1>b, <3>1 DEF TrueAt
  <2>2. CASE End6
    <3>1. file' = file /\ backup' = backup BY <2>2 DEF End6, PutBack6
    <3> QED BY <1>0, <1>a, <1>b, <3>1 DEF TrueAt
  <2>3. CASE EndDone BY <1>0, <1>a, <1>b, <2>3 DEF EndDone, TrueAt
  <2>4. CASE Recover4
    <3>1. file' = file /\ backup' = backup BY <2>4 DEF Recover4, PutBack4
    <3> QED BY <1>0, <1>a, <1>b, <3>1 DEF TrueAt
  <2>5. CASE Recover6
    <3>1. file' = file /\ backup' = backup BY <2>5 DEF Recover6, PutBack6
    <3> QED BY <1>0, <1>a, <1>b, <3>1 DEF TrueAt
  <2>6. CASE RecoverDone BY <1>0, <1>a, <1>b, <2>6 DEF RecoverDone, TrueAt
  <2> QED BY <1>2, <2>1, <2>2, <2>3, <2>4, <2>5, <2>6 DEF Restore
<1>3. CASE Engine
  <2>1. CASE Launch BY <1>0, <1>a, <1>b, <2>1 DEF Launch, Listed, TrueAt
  <2>2. CASE TurnOn BY <1>0, <1>a, <1>b, <2>2 DEF TurnOn, TrueAt
  <2>3. CASE TurnOff BY <1>0, <1>a, <1>b, <2>3 DEF TurnOff, Stopping, Listed, TrueAt
  <2>4. CASE Quit BY <1>0, <1>a, <1>b, <2>4 DEF Quit, Stopping, Listed, TrueAt
  <2>5. CASE QuitPlain BY <1>0, <1>a, <1>b, <2>5 DEF QuitPlain, TrueAt
  <2> QED BY <1>3, <2>1, <2>2, <2>3, <2>4, <2>5 DEF Engine
<1>4. CASE Crash BY <1>0, <1>a, <1>b, <1>4 DEF Crash, TrueAt
<1>5. CASE Finished \/ UNCHANGED adaptersVars
  BY <1>0, <1>a, <1>b, <1>5 DEF Finished, adaptersVars, ReadFile, FromText, Listed, TrueAt
<1> QED BY <1>1, <1>2, <1>3, <1>4, <1>5 DEF AdaptersNext

\* No adapter is changed that has no line.
LEMMA ChangedListedStep ==
  AdaptersTypeOK /\ AdaptersInv /\ [AdaptersNext]_adaptersVars => ChangedListed'
<1> SUFFICES ASSUME AdaptersTypeOK, AdaptersInv, [AdaptersNext]_adaptersVars, NEW x \in Adapters,
  x \notin spoiled'
             PROVE  ListedAt(x)'
  BY DEF ChangedListed, Unspoiled, ListedAt
<1>0. x \notin spoiled /\ orig' = orig BY Grows
<1>a. TrueAt(x) /\ ListedAt(x) /\ ProgressAt(x)
  BY <1>0 DEF AdaptersInv, LinesTrue, ChangedListed, Progress, Unspoiled, TrueAt, ListedAt, ProgressAt
<1>b. file' = file => ReadFile' = ReadFile BY DEF ReadFile
<1>1. CASE Redirect
  <2>1. CASE ReadAdapters
    <3>1. conf[x] = orig[x] BY <1>0, <2>1 DEF ReadAdapters, AdaptersInv, Redirected, Unspoiled
    <3> QED BY <1>0, <3>1, <2>1 DEF ReadAdapters, ListedAt
  <2>2. CASE \E a \in Adapters : Adapter(a)
    <3>1. PICK a \in Adapters : Adapter(a) BY <2>2
    <3>2. conf[a] # None /\ [f \in Families |-> "dhcp"] # None
      BY NoneAssumption DEF AdaptersTypeOK, Settings, AdapterServers
    <3> QED BY <1>0, <1>a, <3>1, <3>2 DEF Adapter, AfterRead, ListedAt, AdaptersTypeOK
  <2>3. CASE SaveOpen BY <1>0, <1>a, <2>3 DEF SaveOpen, Saved, ListedAt
  <2>4. CASE SaveWrite
    <3>1. file'[x] = Line(backup[x]) /\ backup' = backup /\ conf' = conf /\ at = "write"
      BY <2>4 DEF SaveWrite, Lines
    <3>2. backup[x] # None => file'[x] # None
      BY <3>1, RoundTrip, NoneAssumption DEF Line, AdaptersTypeOK, AdapterServers
    <3> QED BY <1>0, <1>a, <3>1, <3>2 DEF ListedAt
  <2>5. CASE SetV4
    <3>1. conf'[x] # conf[x] => x = cur BY <2>5, TakeChanges
    <3>2. x = cur => file[x] # None /\ backup[x] # None BY <1>0, <2>5 DEF SetV4, AdaptersInv, Places
    <3> QED BY <1>0, <1>a, <3>1, <3>2, <2>5 DEF SetV4, ListedAt
  <2>6. CASE SetV6
    <3>1. conf'[x] # conf[x] => x = cur BY <2>6, TakeChanges
    <3>2. x = cur => file[x] # None /\ backup[x] # None BY <1>0, <2>6 DEF SetV6, AdaptersInv, Places
    <3> QED BY <1>0, <1>a, <3>1, <3>2, <2>6 DEF SetV6, ListedAt
  <2>7. CASE BeginDone BY <1>0, <1>a, <2>7 DEF BeginDone, Undo, Listed, ListedAt
  <2> QED BY <1>1, <2>1, <2>2, <2>3, <2>4, <2>5, <2>6, <2>7 DEF Redirect
<1>2. CASE Restore
  <2>1. CASE End4
    <3>1. /\ conf'[x] # conf[x] => x = cur'
          /\ x = cur' => conf'[x]["v4"] = orig[x]["v4"] /\ conf'[x]["v6"] = conf[x]["v6"]
          /\ conf'[x] \in Settings /\ orig[x] \in Settings /\ cur' \in todo
      BY <2>1, PutBack4Changes DEF AdaptersTypeOK, Settings, AdapterServers
    <3>2. conf[x] = orig[x] => conf'[x] = orig[x] BY <3>1, SameSettings
    <3>3. todo \subseteq Listed(backup) BY <2>1 DEF End4, PutBack4, AdaptersInv, Places
    <3> QED BY <1>0, <1>a, <3>1, <3>2, <3>3, <2>1 DEF End4, PutBack4, ListedAt, Listed
  <2>2. CASE End6
    <3>1. conf'[x] # conf[x] => x = cur /\ conf'[x] = orig[x] BY <2>2, PutBack6Changes
    <3> QED BY <1>0, <1>a, <3>1, <2>2 DEF End6, PutBack6, ListedAt
  <2>3. CASE EndDone
    <3>1. conf[x] = orig[x] BY <1>a, <2>3 DEF EndDone, ProgressAt
    <3> QED BY <1>0, <3>1, <2>3 DEF EndDone, ListedAt
  <2>4. CASE Recover4
    <3>1. /\ conf'[x] # conf[x] => x = cur'
          /\ x = cur' => conf'[x]["v4"] = orig[x]["v4"] /\ conf'[x]["v6"] = conf[x]["v6"]
          /\ conf'[x] \in Settings /\ orig[x] \in Settings /\ cur' \in todo
      BY <2>4, PutBack4Changes DEF AdaptersTypeOK, Settings, AdapterServers
    <3>2. conf[x] = orig[x] => conf'[x] = orig[x] BY <3>1, SameSettings
    <3>3. todo \subseteq Listed(file) BY <2>4 DEF Recover4, PutBack4, AdaptersInv, Places
    <3> QED BY <1>0, <1>a, <3>1, <3>2, <3>3, <2>4 DEF Recover4, PutBack4, ListedAt, Listed
  <2>5. CASE Recover6
    <3>1. conf'[x] # conf[x] => x = cur /\ conf'[x] = orig[x] BY <2>5, PutBack6Changes
    <3> QED BY <1>0, <1>a, <3>1, <2>5 DEF Recover6, PutBack6, ListedAt
  <2>6. CASE RecoverDone
    <3>1. conf[x] = orig[x] BY <1>a, <2>6 DEF RecoverDone, ProgressAt
    <3> QED BY <1>0, <3>1, <2>6 DEF RecoverDone, ListedAt
  <2> QED BY <1>2, <2>1, <2>2, <2>3, <2>4, <2>5, <2>6 DEF Restore
<1>3. CASE Engine
  <2>1. CASE Launch BY <1>0, <1>a, <2>1 DEF Launch, Listed, ListedAt
  <2>2. CASE TurnOn BY <1>0, <1>a, <2>2 DEF TurnOn, ListedAt
  <2>3. CASE TurnOff BY <1>0, <1>a, <2>3 DEF TurnOff, Stopping, Listed, ListedAt
  <2>4. CASE Quit BY <1>0, <1>a, <2>4 DEF Quit, Stopping, Listed, ListedAt
  <2>5. CASE QuitPlain BY <1>0, <1>a, <2>5 DEF QuitPlain, ListedAt
  <2> QED BY <1>3, <2>1, <2>2, <2>3, <2>4, <2>5 DEF Engine
<1>4. CASE Crash BY <1>0, <1>a, <1>4 DEF Crash, Exposed, ListedAt
<1>5. CASE Finished \/ UNCHANGED adaptersVars
  BY <1>0, <1>a, <1>5 DEF Finished, adaptersVars, ReadFile, FromText, Listed, ListedAt
<1> QED BY <1>1, <1>2, <1>3, <1>4, <1>5 DEF AdaptersNext

\* The loops keep to the adapters of the table or of the file.
LEMMA PlacesStep ==
  AdaptersTypeOK /\ AdaptersInv /\ [AdaptersNext]_adaptersVars => Places'
<1> SUFFICES ASSUME AdaptersTypeOK /\ AdaptersInv, [AdaptersNext]_adaptersVars PROVE Places' OBVIOUS
<1>1. CASE Redirect
  <2>1. CASE ReadAdapters BY <2>1 DEF ReadAdapters, Places, AdaptersInv, AdaptersTypeOK
  <2>2. CASE \E a \in Adapters : Adapter(a)
    <3>1. PICK a \in Adapters : Adapter(a) BY <2>2
    <3>2. a # None /\ conf[a] # None /\ [f \in Families |-> "dhcp"] # None
      BY NoneAssumption, AdapterAssumption DEF AdaptersTypeOK, Settings, AdapterServers
    <3> QED BY <3>1, <3>2 DEF Adapter, AfterRead, Places, AdaptersTypeOK, Listed
  <2>3. CASE SaveOpen BY <2>3 DEF SaveOpen, Saved, Places, AdaptersInv, AdaptersTypeOK
  <2>4. CASE SaveWrite
    <3>1. CASE cur = None BY <2>4, <3>1 DEF SaveWrite, Saved, AdaptersInv, Places, Listed
    <3>2. CASE cur # None
      <4>1. cur \in Adapters /\ backup[cur] # None BY <2>4, <3>2 DEF SaveWrite, AdaptersInv,
        Places, AdaptersTypeOK
      <4>2. file'[cur] = Line(backup[cur]) BY <2>4, <4>1 DEF SaveWrite, Lines
      <4>3. file'[cur] # None
        BY <4>1, <4>2, RoundTrip, NoneAssumption DEF Line, AdaptersTypeOK, AdapterServers
      <4> QED BY <2>4, <3>2, <4>1, <4>3 DEF SaveWrite, Saved, AdaptersInv, Places, Listed
    <3> QED BY <3>1, <3>2
  <2>5. CASE SetV4 BY <2>5 DEF SetV4, Take, Put, Counts, Places, AdaptersInv, AdaptersTypeOK
  <2>6. CASE SetV6 BY <2>6 DEF SetV6, Take, Put, Counts, Places, AdaptersInv, AdaptersTypeOK
  <2>7. CASE BeginDone BY <2>7, AdapterAssumption DEF BeginDone, Undo, Listed, Places,
      AdaptersInv, AdaptersTypeOK
  <2> QED BY <1>1, <2>1, <2>2, <2>3, <2>4, <2>5, <2>6, <2>7 DEF Redirect
<1>2. CASE Restore
  <2>1. CASE End4 BY <2>1, AdapterAssumption DEF End4, PutBack4, Listed, Places,
      AdaptersInv, AdaptersTypeOK
  <2>2. CASE End6 BY <2>2 DEF End6, PutBack6, Listed, Places, AdaptersInv, AdaptersTypeOK
  <2>3. CASE EndDone BY <2>3 DEF EndDone, Places, AdaptersInv, AdaptersTypeOK
  <2>4. CASE Recover4 BY <2>4, AdapterAssumption DEF Recover4, PutBack4, Listed, Places,
      AdaptersInv, AdaptersTypeOK
  <2>5. CASE Recover6 BY <2>5 DEF Recover6, PutBack6, Listed, Places, AdaptersInv, AdaptersTypeOK
  <2>6. CASE RecoverDone BY <2>6 DEF RecoverDone, Places, AdaptersInv, AdaptersTypeOK
  <2> QED BY <1>2, <2>1, <2>2, <2>3, <2>4, <2>5, <2>6 DEF Restore
<1>3. CASE Engine
  <2>1. CASE Launch BY <2>1 DEF Launch, Listed, Places, AdaptersInv, AdaptersTypeOK
  <2>2. CASE TurnOn BY <2>2 DEF TurnOn, Places, AdaptersInv, AdaptersTypeOK
  <2>3. CASE TurnOff BY <2>3 DEF TurnOff, Stopping, Listed, Places, AdaptersInv, AdaptersTypeOK
  <2>4. CASE Quit BY <2>4 DEF Quit, Stopping, Listed, Places, AdaptersInv, AdaptersTypeOK
  <2>5. CASE QuitPlain BY <2>5 DEF QuitPlain, Places, AdaptersInv, AdaptersTypeOK
  <2> QED BY <1>3, <2>1, <2>2, <2>3, <2>4, <2>5 DEF Engine
<1>4. CASE Crash BY <1>4 DEF Crash, Places, AdaptersInv
<1>5. CASE Finished \/ UNCHANGED adaptersVars BY <1>5 DEF Finished, adaptersVars, Listed,
  Places, AdaptersInv
<1> QED BY <1>1, <1>2, <1>3, <1>4, <1>5 DEF AdaptersNext

\* The loops take every adapter in turn.
LEMMA ProgressStep == AdaptersTypeOK /\ AdaptersInv /\ [AdaptersNext]_adaptersVars => Progress'
<1> SUFFICES ASSUME AdaptersTypeOK, AdaptersInv, [AdaptersNext]_adaptersVars, NEW x \in Adapters,
  x \notin spoiled'
             PROVE  ProgressAt(x)'
  BY DEF Progress, Unspoiled, ProgressAt
<1>0. x \notin spoiled /\ orig' = orig BY Grows
<1>a. TrueAt(x) /\ ListedAt(x) /\ ProgressAt(x)
  BY <1>0 DEF AdaptersInv, LinesTrue, ChangedListed, Progress, Unspoiled, TrueAt, ListedAt, ProgressAt
<1>b. file' = file => ReadFile' = ReadFile BY DEF ReadFile
<1>1. CASE Redirect
  <2>1. CASE ReadAdapters
    <3>1. conf[x] = orig[x] BY <1>0, <2>1 DEF ReadAdapters, AdaptersInv, Redirected, Unspoiled
    <3> QED BY <1>0, <3>1, <2>1 DEF ReadAdapters, ProgressAt
  <2>2. CASE \E a \in Adapters : Adapter(a)
    <3>1. PICK a \in Adapters : Adapter(a) BY <2>2
    <3> QED BY <1>0, <1>a, <3>1 DEF Adapter, AfterRead, ProgressAt
  <2>3. CASE SaveOpen BY <1>0, <1>a, <2>3 DEF SaveOpen, Saved, ProgressAt, ListedAt
  <2>4. CASE SaveWrite BY <1>0, <1>a, <2>4 DEF SaveWrite, Saved, ProgressAt
  <2>5. CASE SetV4
    <3>1. conf'[x] # conf[x] => x = cur BY <2>5, TakeChanges
    <3>2. cur \notin todo BY <2>5 DEF SetV4, AdaptersInv, Places
    <3> QED BY <1>0, <1>a, <3>1, <3>2, <2>5 DEF SetV4, ProgressAt
  <2>6. CASE SetV6
    <3>1. conf'[x] # conf[x] => x = cur BY <2>6, TakeChanges
    <3>2. cur \notin todo BY <2>6 DEF SetV6, AdaptersInv, Places
    <3> QED BY <1>0, <1>a, <3>1, <3>2, <2>6 DEF SetV6, ProgressAt
  <2>7. CASE BeginDone BY <1>0, <1>a, <2>7 DEF BeginDone, Undo, Listed, ProgressAt, ListedAt
  <2> QED BY <1>1, <2>1, <2>2, <2>3, <2>4, <2>5, <2>6, <2>7 DEF Redirect
<1>2. CASE Restore
  <2>1. CASE End4
    <3>1. /\ todo' = todo \ {cur'} /\ (x # cur' => conf'[x] = conf[x])
          /\ x = cur' => conf'[x]["v4"] = orig[x]["v4"]
      BY <2>1, PutBack4Changes
    <3> QED BY <1>0, <1>a, <3>1, <2>1 DEF End4, PutBack4, ProgressAt
  <2>2. CASE End6
    <3>1. (x # cur => conf'[x] = conf[x]) /\ (x = cur => conf'[x] = orig[x])
      BY <1>0, <2>2, PutBack6Changes
    <3> QED BY <1>0, <1>a, <3>1, <2>2 DEF End6, PutBack6, ProgressAt
  <2>3. CASE EndDone BY <1>0, <1>a, <2>3 DEF EndDone, ProgressAt, ListedAt
  <2>4. CASE Recover4
    <3>1. /\ todo' = todo \ {cur'} /\ (x # cur' => conf'[x] = conf[x])
          /\ x = cur' => conf'[x]["v4"] = orig[x]["v4"]
      BY <2>4, PutBack4Changes
    <3> QED BY <1>0, <1>a, <3>1, <2>4 DEF Recover4, PutBack4, ProgressAt
  <2>5. CASE Recover6
    <3>1. (x # cur => conf'[x] = conf[x]) /\ (x = cur => conf'[x] = orig[x])
      BY <1>0, <2>5, PutBack6Changes
    <3> QED BY <1>0, <1>a, <3>1, <2>5 DEF Recover6, PutBack6, ProgressAt
  <2>6. CASE RecoverDone BY <1>0, <1>a, <2>6 DEF RecoverDone, ProgressAt, ListedAt
  <2> QED BY <1>2, <2>1, <2>2, <2>3, <2>4, <2>5, <2>6 DEF Restore
<1>3. CASE Engine
  <2>1. CASE Launch BY <1>0, <1>a, <2>1 DEF Launch, Listed, ProgressAt, ListedAt
  <2>2. CASE TurnOn BY <1>0, <1>a, <2>2 DEF TurnOn, ProgressAt, ListedAt
  <2>3. CASE TurnOff BY <1>0, <1>a, <2>3 DEF TurnOff, Stopping, Listed, ProgressAt, ListedAt
  <2>4. CASE Quit BY <1>0, <1>a, <2>4 DEF Quit, Stopping, Listed, ProgressAt, ListedAt
  <2>5. CASE QuitPlain BY <1>0, <1>a, <2>5 DEF QuitPlain, ProgressAt, ListedAt
  <2> QED BY <1>3, <2>1, <2>2, <2>3, <2>4, <2>5 DEF Engine
<1>4. CASE Crash BY <1>0, <1>a, <1>4 DEF Crash, ProgressAt, ListedAt
<1>5. CASE Finished \/ UNCHANGED adaptersVars
  BY <1>0, <1>a, <1>5 DEF Finished, adaptersVars, ReadFile, FromText, Listed, ProgressAt, ListedAt
<1> QED BY <1>1, <1>2, <1>3, <1>4, <1>5 DEF AdaptersNext

\* What is left when the redirection is off.
LEMMA RedirectedStep == AdaptersTypeOK /\ AdaptersInv /\ [AdaptersNext]_adaptersVars => Redirected'
<1> SUFFICES ASSUME AdaptersTypeOK /\ AdaptersInv, [AdaptersNext]_adaptersVars PROVE Redirected' OBVIOUS
<1>1. CASE Redirect
  <2>1. CASE ReadAdapters BY <2>1 DEF ReadAdapters, Redirected, AdaptersInv, Progress, Unspoiled
  <2>2. CASE \E a \in Adapters : Adapter(a)
    <3>1. PICK a \in Adapters : Adapter(a) BY <2>2
    <3> QED BY <3>1 DEF Adapter, AfterRead, Redirected, AdaptersInv
  <2>3. CASE SaveOpen
    <3>1. CASE at' = "write" BY <2>3, <3>1 DEF SaveOpen, Saved, AdaptersInv, Redirected
    <3>2. CASE at' = "set" BY <2>3, <3>2 DEF SaveOpen, Saved, AdaptersInv, Redirected
    <3>3. CASE at' = "run" BY <2>3, <3>3 DEF SaveOpen, Saved, AdaptersInv, Redirected
    <3> QED BY <2>3, <3>1, <3>2, <3>3 DEF SaveOpen, Saved
  <2>4. CASE SaveWrite
    BY <2>4 DEF SaveWrite, Saved, Lines, Line, Text, Redirected, AdaptersInv, Progress, Unspoiled
  <2>5. CASE SetV4 BY <2>5 DEF SetV4, Redirected, AdaptersInv
  <2>6. CASE SetV6 BY <2>6 DEF SetV6, Redirected, AdaptersInv
  <2>7. CASE BeginDone BY <2>7 DEF BeginDone, Undo, Listed, Redirected, AdaptersInv, Progress, Unspoiled
  <2> QED BY <1>1, <2>1, <2>2, <2>3, <2>4, <2>5, <2>6, <2>7 DEF Redirect
<1>2. CASE Restore
  <2>1. CASE End4 BY <2>1 DEF End4, PutBack4, Redirected, AdaptersInv
  <2>2. CASE End6 BY <2>2 DEF End6, PutBack6, Redirected, AdaptersInv
  <2>3. CASE EndDone BY <2>3 DEF EndDone, Redirected, AdaptersInv, Progress, Unspoiled
  <2>4. CASE Recover4 BY <2>4 DEF Recover4, PutBack4, Redirected, AdaptersInv
  <2>5. CASE Recover6 BY <2>5 DEF Recover6, PutBack6, Redirected, AdaptersInv
  <2>6. CASE RecoverDone BY <2>6 DEF RecoverDone, Redirected, AdaptersInv, Progress, Unspoiled
  <2> QED BY <1>2, <2>1, <2>2, <2>3, <2>4, <2>5, <2>6 DEF Restore
<1>3. CASE Engine
  <2>1. CASE Launch BY <2>1 DEF Launch, Listed, Redirected, AdaptersInv, Progress, Unspoiled
  <2>2. CASE TurnOn BY <2>2 DEF TurnOn, Redirected, AdaptersInv, Progress, Unspoiled
  <2>3. CASE TurnOff BY <2>3 DEF TurnOff, Stopping, Listed, Redirected, AdaptersInv, Progress, Unspoiled
  <2>4. CASE Quit BY <2>4 DEF Quit, Stopping, Listed, Redirected, AdaptersInv, Progress, Unspoiled
  <2>5. CASE QuitPlain BY <2>5 DEF QuitPlain, Redirected, AdaptersInv, Progress, Unspoiled
  <2> QED BY <1>3, <2>1, <2>2, <2>3, <2>4, <2>5 DEF Engine
<1>4. CASE Crash BY <1>4 DEF Crash, Redirected, AdaptersInv
<1>5. CASE Finished \/ UNCHANGED adaptersVars BY <1>5 DEF Finished, adaptersVars,
  Redirected, AdaptersInv, Unspoiled
<1> QED BY <1>1, <1>2, <1>3, <1>4, <1>5 DEF AdaptersNext

-----------------------------------------------------------------------------
\* What the flags of the redirection say of the adapters and of the proxy.
AdapterUsed ==
  /\ at \in {"begin", "save", "write", "set", "set6"} /\ changed =>
       \E a \in Adapters : conf[a]["v4"] = "ours"
  /\ at \in {"save", "write"} /\ cur = None => changed
  /\ at = "run" /\ redirected => \E a \in Adapters : conf[a]["v4"] = "ours"
  /\ at \in {"read", "begin", "save", "write", "set", "set6"} => serving /\ ~redirected
  /\ at \in {"down", "recover", "recover6"} => ~serving /\ ~redirected
  /\ at = "run" => redirected = serving

\* A redirection is for an adapter that uses the proxy.
LEMMA UsedStep ==
  AdaptersTypeOK /\ AdaptersInv /\ AdapterUsed /\ [AdaptersNext]_adaptersVars => AdapterUsed'
<1> SUFFICES ASSUME AdaptersTypeOK /\ AdaptersInv /\ AdapterUsed, [AdaptersNext]_adaptersVars
             PROVE  AdapterUsed'
  OBVIOUS
<1>1. CASE Redirect
  <2>1. CASE ReadAdapters BY <2>1 DEF ReadAdapters, AdapterUsed, AdaptersTypeOK
  <2>2. CASE \E a \in Adapters : Adapter(a)
    <3>1. PICK a \in Adapters : Adapter(a) BY <2>2
    <3> QED BY <3>1, AdapterAssumption DEF Adapter, AfterRead, AdapterUsed
  <2>3. CASE SaveOpen
    <3>1. CASE at' = "write" BY <2>3, <3>1 DEF SaveOpen, Saved, AdapterUsed
    <3>2. CASE at' = "set" BY <2>3, <3>2 DEF SaveOpen, Saved, AdapterUsed
    <3>3. CASE at' = "run" BY <2>3, <3>3 DEF SaveOpen, Saved, AdapterUsed
    <3> QED BY <2>3, <3>1, <3>2, <3>3 DEF SaveOpen, Saved
  <2>4. CASE SaveWrite BY <2>4 DEF SaveWrite, Saved, Lines, Line, Text, AdapterUsed, AdaptersTypeOK
  <2>5. CASE SetV4
    <3>1. /\ \A x \in Adapters : conf[x]["v4"] = "ours" => conf'[x]["v4"] = "ours"
          /\ cur \in Adapters /\ (changed' => changed \/ conf'[cur]["v4"] = "ours")
      BY <2>5, TakeChanges
    <3> QED BY <2>5, <3>1 DEF SetV4, AdapterUsed
  <2>6. CASE SetV6
    <3>1. /\ \A x \in Adapters : conf[x]["v4"] = "ours" => conf'[x]["v4"] = "ours"
          /\ cur \in Adapters /\ (changed' => changed \/ conf'[cur]["v4"] = "ours")
      BY <2>6, TakeChanges
    <3> QED BY <2>6, <3>1 DEF SetV6, AdapterUsed
  <2>7. CASE BeginDone
    <3>1. CASE changed BY <2>7, <3>1 DEF BeginDone, Undo, AdapterUsed
    <3>2. CASE ~changed BY <2>7, <3>2 DEF BeginDone, Undo, AdapterUsed
    <3> QED BY <3>1, <3>2
  <2> QED BY <1>1, <2>1, <2>2, <2>3, <2>4, <2>5, <2>6, <2>7 DEF Redirect
<1>2. CASE Restore
  <2>1. CASE End4 BY <2>1 DEF End4, PutBack4, AdapterUsed
  <2>2. CASE End6 BY <2>2 DEF End6, PutBack6, AdapterUsed
  <2>3. CASE EndDone BY <2>3 DEF EndDone, AdapterUsed, AdaptersTypeOK
  <2>4. CASE Recover4 BY <2>4 DEF Recover4, PutBack4, AdapterUsed
  <2>5. CASE Recover6 BY <2>5 DEF Recover6, PutBack6, AdapterUsed
  <2>6. CASE RecoverDone BY <2>6 DEF RecoverDone, AdapterUsed, AdaptersTypeOK
  <2> QED BY <1>2, <2>1, <2>2, <2>3, <2>4, <2>5, <2>6 DEF Restore
<1>3. CASE Engine
  <2>1. CASE Launch BY <2>1 DEF Launch, Listed, AdapterUsed, AdaptersTypeOK
  <2>2. CASE TurnOn BY <2>2 DEF TurnOn, AdapterUsed, AdaptersTypeOK
  <2>3. CASE TurnOff BY <2>3 DEF TurnOff, Stopping, Listed, AdapterUsed, AdaptersTypeOK
  <2>4. CASE Quit BY <2>4 DEF Quit, Stopping, Listed, AdapterUsed, AdaptersTypeOK
  <2>5. CASE QuitPlain BY <2>5 DEF QuitPlain, AdapterUsed, AdaptersTypeOK
  <2> QED BY <1>3, <2>1, <2>2, <2>3, <2>4, <2>5 DEF Engine
<1>4. CASE Crash BY <1>4 DEF Crash, AdapterUsed
<1>5. CASE Finished \/ UNCHANGED adaptersVars BY <1>5 DEF Finished, adaptersVars, AdapterUsed
<1> QED BY <1>1, <1>2, <1>3, <1>4, <1>5 DEF AdaptersNext

-----------------------------------------------------------------------------
\* AdaptersTypeOK, AdaptersInv and AdapterUsed together are inductive.
LEMMA AdaptersInvariance ==
  AdaptersSpec => [](AdaptersTypeOK /\ AdaptersInv /\ AdapterUsed)
<1>1. AdaptersInit => AdaptersTypeOK /\ AdaptersInv /\ AdapterUsed
  <2>1. AdaptersInit => AdapterUsed BY DEF AdaptersInit, AdapterUsed
  <2> QED BY <2>1, AdaptersInitCorrect
<1>2. AdaptersTypeOK /\ AdaptersInv /\ AdapterUsed /\ [AdaptersNext]_adaptersVars
        => (AdaptersTypeOK /\ AdaptersInv /\ AdapterUsed)'
  <2> SUFFICES ASSUME AdaptersTypeOK, AdaptersInv, AdapterUsed, [AdaptersNext]_adaptersVars
    PROVE AdaptersTypeOK' /\ AdaptersInv' /\ AdapterUsed' OBVIOUS
  <2>1. DataTypes' /\ AdaptersPlaceTypes' BY DataTypesStep, AdaptersPlaceTypesStep
  <2>2. AdaptersTypeOK' BY <2>1 DEF AdaptersTypeOK, DataTypes, AdaptersPlaceTypes
  <2>3. LinesTrue' /\ ChangedListed' BY LinesTrueStep, ChangedListedStep
  <2>4. Places' /\ Progress' /\ Redirected' BY PlacesStep, ProgressStep, RedirectedStep
  <2>5. AdapterUsed' BY UsedStep
  <2> QED BY <2>2, <2>3, <2>4, <2>5 DEF AdaptersInv
<1> QED BY <1>1, <1>2, PTL DEF AdaptersSpec

\* The variables keep their types.
THEOREM AdaptersTypeCorrect ==
  AdaptersSpec => []AdaptersTypeOK
  BY AdaptersInvariance, PTL

\* The adapters, the file and the table agree with each other and with where the
\* engine is, at every system call and after a crash at any of them.
THEOREM AdaptersInvCorrect ==
  AdaptersSpec => []AdaptersInv
  BY AdaptersInvariance, PTL

\* However often the process dies, but while it rewrites the file, each adapter
\* has the user's servers or a line the next start puts back.
THEOREM AdaptersNothingLost ==
  AdaptersSpec => []Recoverable
<1>1. AdaptersTypeOK /\ AdaptersInv => Recoverable
  <2> SUFFICES ASSUME AdaptersTypeOK, AdaptersInv, at # "write", NEW a \in Unspoiled,
    NEW f \in Families,
                      conf[a][f] # orig[a][f]
               PROVE  file[a] # None /\ ReadFile[a][f] = orig[a][f]
    BY DEF Recoverable
  <2>1. conf[a] # orig[a] OBVIOUS
  <2>2. file[a] # None BY <2>1 DEF AdaptersInv, ChangedListed
  <2> QED BY <2>2 DEF AdaptersInv, LinesTrue
<1> QED BY <1>1, AdaptersInvariance, PTL

\* An engine that has started, and one that has stopped, without the redirection
\* has put every adapter back and left no backup.
THEOREM AdaptersRestoredCorrect ==
  AdaptersSpec => []Restored
<1>1. AdaptersInv => Restored BY DEF AdaptersInv, Redirected, Restored
<1> QED BY <1>1, AdaptersInvariance, PTL

\* The redirection counts as on only while the proxy serves an adapter.
THEOREM InUseCorrect ==
  AdaptersSpec => []InUse
<1>1. AdapterUsed => InUse BY DEF AdapterUsed, InUse
<1> QED BY <1>1, AdaptersInvariance, PTL

=============================================================================
