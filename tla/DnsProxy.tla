------------------------------ MODULE DnsProxy ------------------------------
(***************************************************************************)
(* The resolver thread of src/core/dnsd.c: one loop that takes a query of  *)
(* a client, a reply of an upstream server and then looks after the slots  *)
(* of the queries that wait.  The upstream servers, the network and the    *)
(* clients are external: what was sent may be answered never, late, twice, *)
(* or after the slot holds another query.                                  *)
(*                                                                         *)
(* Time passes in steps, and the loop looks at every slot between any two  *)
(* of them: its select waits a quarter of a second at most.  A slot keeps  *)
(* the age of its first and of its latest transmission instead of the two  *)
(* time stamps.                                                            *)
(*                                                                         *)
(* Abstracted: packet bytes (a malformed packet changes nothing), the pair *)
(* of IPv4 and IPv6 sockets, counters, the log, the host name table, and   *)
(* tcp_session, which keeps no slot.  Whether a name is refused (g_enforce *)
(* and the blocklist) is a free choice.                                    *)
(***************************************************************************)
EXTENDS Integers, Sequences

CONSTANTS
  Queries,      \* the datagrams clients send, each once
  Nobody,       \* owner of a slot that is not in use
  Servers,      \* upstream servers
  UpLists,      \* lists dnsd_set_upstreams may leave in g_up
  SLOTS,        \* size of g_slots; a power of two in the code
  TAGS,         \* number of values of the random bits of up_id; 64 in the code
  RETRY,        \* RETRY_MS, in steps of time
  GIVE_UP,      \* GIVE_UP_MS, in steps of time
  MaxStops,     \* bound on the number of dnsd_stop
  MaxMoves      \* bound on the number of changes of the upstream list

ASSUME QueryAssumption  == Nobody \notin Queries
ASSUME SlotAssumption   == SLOTS \in Nat \ {0} /\ TAGS \in Nat \ {0}
ASSUME TimeAssumption   == RETRY \in Nat /\ GIVE_UP \in Nat
ASSUME ServerAssumption == UpLists \subseteq Seq(Servers)
ASSUME BoundAssumption  == MaxStops \in Nat /\ MaxMoves \in Nat

Slots == 0 .. SLOTS - 1
Tags  == 0 .. TAGS - 1

VARIABLES
  active,      \* g_active: the sockets are open and the thread runs
  up,          \* g_up
  owner,       \* the query in a slot (used, orig_id, client, via, pkt, name)
  tag,         \* the random bits of g_slots[].up_id, above the slot number
  first,       \* time since first_ms
  sent,        \* time since sent_ms
  tries,       \* g_slots[].tries
  cursor,      \* g_cursor
  wire,        \* transmissions an upstream server may still answer
  status,      \* what became of a query
  replies,     \* datagrams sent to the client of a query
  asked,       \* servers whose turn came for a query
  moved,       \* queries that waited while the upstream list changed
  collided,    \* queries that took the up_id of an earlier transmission
  pc, next, maxTries,    \* the loop; i and max_tries of expire_slots
  stops, moves

slotVars == <<owner, tag, first, sent, tries>>
histVars == <<asked, moved, collided>>
userVars == <<status, replies>>
loopVars == <<pc, next, maxTries>>
confVars == <<active, up, stops, moves>>
vars == <<slotVars, cursor, wire, histVars, userVars, loopVars, confVars>>

Outcomes == {"answered", "mixedUp", "failed", "refused", "full", "dropped"}

TypeOK ==
  /\ active \in BOOLEAN /\ up \in UpLists
  /\ stops \in 0 .. MaxStops /\ moves \in 0 .. MaxMoves
  /\ owner \in [Slots -> Queries \cup {Nobody}] /\ tag \in [Slots -> Tags]
  /\ first \in [Slots -> 0 .. GIVE_UP + 1] /\ sent \in [Slots -> 0 .. RETRY + 1]
  /\ tries \in [Slots -> Nat]
  /\ cursor \in Slots
  /\ wire \subseteq [slot : Slots, tag : Tags, query : Queries]
  /\ status \in [Queries -> {"unsent", "pending"} \cup Outcomes]
  /\ replies \in [Queries -> Nat]
  /\ asked \in [Queries -> SUBSET Servers]
  /\ moved \subseteq Queries /\ collided \subseteq Queries
  /\ pc \in {"select", "client", "upstream", "expire"}
  /\ next \in 0 .. SLOTS /\ maxTries \in Nat

\* dnsd_start: the slots are cleared, the thread is at the head of its loop.
Init ==
  /\ active = TRUE /\ up \in UpLists
  /\ owner = [s \in Slots |-> Nobody] /\ tag = [s \in Slots |-> 0]
  /\ first = [s \in Slots |-> 0] /\ sent = [s \in Slots |-> 0]
  /\ tries = [s \in Slots |-> 0]
  /\ cursor = 0 /\ wire = {}
  /\ status = [q \in Queries |-> "unsent"] /\ replies = [q \in Queries |-> 0]
  /\ asked = [q \in Queries |-> {}] /\ moved = {} /\ collided = {}
  /\ pc = "select" /\ next = 0 /\ maxTries = 2
  /\ stops = 0 /\ moves = 0

-----------------------------------------------------------------------------
(***************************************************************************)
(* Sending.                                                                *)
(***************************************************************************)

\* The server of the next try; _First is a mutant.
Turn_First(n) == up[1]

Turn(n) == up[(n % Len(up)) + 1]

\* send_upstream: a try counts, and its time starts, also when there is no
\* server to send it to.
SendUpstream(s, q, g, n) ==
  /\ tries' = [tries EXCEPT ![s] = n + 1]
  /\ sent' = [sent EXCEPT ![s] = 0]
  /\ IF up = <<>>
       THEN UNCHANGED <<wire, asked>>
       ELSE /\ wire' = wire \cup {[slot |-> s, tag |-> g, query |-> q]}
            /\ asked' = [asked EXCEPT ![q] = @ \cup {Turn(n)}]

\* sendto the client.
Tell(q, outcome) ==
  /\ status' = [status EXCEPT ![q] = outcome]
  /\ replies' = [replies EXCEPT ![q] = @ + 1]

\* A slot without owner is not read again; _Kept is a mutant.
Used(s) == owner[s] # Nobody

Free_Kept(s) == UNCHANGED slotVars

Free(s) ==
  /\ owner' = [owner EXCEPT ![s] = Nobody]
  /\ tag' = [tag EXCEPT ![s] = 0] /\ tries' = [tries EXCEPT ![s] = 0]
  /\ first' = [first EXCEPT ![s] = 0] /\ sent' = [sent EXCEPT ![s] = 0]

-----------------------------------------------------------------------------
(***************************************************************************)
(* The loop.                                                               *)
(***************************************************************************)

\* select returns; a step of time may have passed.  Ages above their limit are
\* not told apart.
Older(age, limit) == IF age > limit THEN age ELSE age + 1

Goto(label) == pc' = label /\ UNCHANGED <<next, maxTries>>

Wake ==
  /\ active /\ pc = "select" /\ Goto("client")
  /\ UNCHANGED <<slotVars, cursor, wire, histVars, userVars, confVars>>

Elapse ==
  /\ active /\ pc = "select" /\ Goto("client")
  /\ first' = [s \in Slots |-> IF Used(s) THEN Older(first[s], GIVE_UP) ELSE first[s]]
  /\ sent'  = [s \in Slots |-> IF Used(s) THEN Older(sent[s], RETRY) ELSE sent[s]]
  /\ UNCHANGED <<owner, tag, tries, cursor, wire, histVars, userVars, confVars>>

\* handle_client: a refused name is answered at once.
Refuse(q) ==
  /\ active /\ pc = "client" /\ status[q] = "unsent" /\ Goto("upstream")
  /\ Tell(q, "refused")
  /\ UNCHANGED <<slotVars, cursor, wire, histVars, confVars>>

\* The first slot from the cursor on that is not used.
Offset(s) == (s - cursor) % SLOTS
NextFree(s) == ~Used(s) /\ \A r \in Slots : ~Used(r) => Offset(s) <= Offset(r)

After(s) == IF s + 1 = SLOTS THEN 0 ELSE s + 1

\* handle_client: no slot is left.
Full(q) ==
  /\ active /\ pc = "client" /\ status[q] = "unsent" /\ Goto("upstream")
  /\ \A s \in Slots : Used(s)
  /\ Tell(q, "full")
  /\ UNCHANGED <<slotVars, cursor, wire, histVars, confVars>>

\* handle_client: the query takes a slot and goes to the first server.
Forward(q, s, g) ==
  /\ active /\ pc = "client" /\ status[q] = "unsent" /\ Goto("upstream")
  /\ NextFree(s)
  /\ owner' = [owner EXCEPT ![s] = q]
  /\ tag' = [tag EXCEPT ![s] = g]
  /\ first' = [first EXCEPT ![s] = 0]
  /\ cursor' = After(s)
  /\ SendUpstream(s, q, g, 0)
  /\ status' = [status EXCEPT ![q] = "pending"]
  /\ collided' = IF \E p \in wire : p.slot = s /\ p.tag = g
                   THEN collided \cup {q} ELSE collided
  /\ UNCHANGED <<moved, replies, confVars>>

NoQuery ==
  /\ active /\ pc = "client" /\ Goto("upstream")
  /\ UNCHANGED <<slotVars, cursor, wire, histVars, userVars, confVars>>

\* expire_slots begins: max_tries is read once for all slots.  _SkipFirst is a
\* mutant.
EnterExpire_SkipFirst ==
  pc' = "expire" /\ next' = 1 /\ maxTries' = IF Len(up) < 2 THEN 2 ELSE Len(up)

EnterExpire ==
  pc' = "expire" /\ next' = 0 /\ maxTries' = IF Len(up) < 2 THEN 2 ELSE Len(up)

\* A reply belongs to the slot its id names if that slot is in use with the
\* same random bits; _SlotOnly is a mutant.
Matches_SlotOnly(p) == Used(p.slot)

Matches(p) == Used(p.slot) /\ tag[p.slot] = p.tag

\* handle_upstream: the client of the slot gets whatever answer has its id.
Reply(p) ==
  /\ active /\ pc = "upstream" /\ p \in wire /\ EnterExpire
  /\ Matches(p)
  /\ Tell(owner[p.slot], IF p.query = owner[p.slot] THEN "answered" ELSE "mixedUp")
  /\ Free(p.slot)
  /\ UNCHANGED <<cursor, wire, histVars, confVars>>

\* No reply, or one nobody waits for.
NoReply ==
  /\ active /\ pc = "upstream" /\ EnterExpire
  /\ UNCHANGED <<slotVars, cursor, wire, histVars, userVars, confVars>>

\* expire_slots, one slot.
Step ==
  /\ next' = next + 1 /\ UNCHANGED maxTries
  /\ pc' = IF next + 1 = SLOTS THEN "select" ELSE pc

GivenUp(s) == first[s] > GIVE_UP \/ (sent[s] > RETRY /\ tries[s] >= maxTries)

Fail(s) ==
  /\ active /\ pc = "expire" /\ s = next /\ Step
  /\ Used(s) /\ GivenUp(s)
  /\ Tell(owner[s], "failed") /\ Free(s)
  /\ UNCHANGED <<cursor, wire, histVars, confVars>>

Retry(s) ==
  /\ active /\ pc = "expire" /\ s = next /\ Step
  /\ Used(s) /\ ~GivenUp(s) /\ sent[s] > RETRY
  /\ SendUpstream(s, owner[s], tag[s], tries[s])
  /\ UNCHANGED <<owner, tag, first, cursor, moved, collided, userVars, confVars>>

Keep(s) ==
  /\ active /\ pc = "expire" /\ s = next /\ Step
  /\ Used(s) => ~GivenUp(s) /\ sent[s] <= RETRY
  /\ UNCHANGED <<slotVars, cursor, wire, histVars, userVars, confVars>>

-----------------------------------------------------------------------------
(***************************************************************************)
(* Calls of the engine.                                                    *)
(***************************************************************************)

\* dnsd_set_upstreams, by any thread at any time.
SetUpstreams(list) ==
  /\ moves < MaxMoves /\ moves' = moves + 1
  /\ list # up /\ up' = list
  /\ moved' = moved \cup {q \in Queries : status[q] = "pending"}
  /\ UNCHANGED <<slotVars, cursor, wire, asked, collided, userVars, loopVars, active, stops>>

\* dnsd_stop waits for the thread and closes the sockets: the clients that wait
\* get no answer, and no answer to an earlier transmission arrives any more.
DropPending == [q \in Queries |-> IF status[q] = "pending" THEN "dropped" ELSE status[q]]

Stop ==
  /\ stops < MaxStops /\ stops' = stops + 1
  /\ active /\ pc = "select"
  /\ active' = FALSE /\ status' = DropPending /\ wire' = {}
  /\ UNCHANGED <<slotVars, cursor, histVars, replies, loopVars, up, moves>>

\* dnsd_start.
Clear ==
  /\ owner' = [s \in Slots |-> Nobody] /\ tag' = [s \in Slots |-> 0]
  /\ first' = [s \in Slots |-> 0] /\ sent' = [s \in Slots |-> 0]
  /\ tries' = [s \in Slots |-> 0]

Start ==
  /\ ~active /\ active' = TRUE /\ Clear
  /\ UNCHANGED <<cursor, wire, histVars, userVars, loopVars, up, stops, moves>>

-----------------------------------------------------------------------------
Client   == NoQuery \/ \E q \in Queries :
              Refuse(q) \/ Full(q) \/ \E s \in Slots, g \in Tags : Forward(q, s, g)
Upstream == NoReply \/ \E p \in wire : Reply(p)
Expire   == \E s \in Slots : Fail(s) \/ Retry(s) \/ Keep(s)
Loop     == Wake \/ Elapse \/ Client \/ Upstream \/ Expire

Next == Loop \/ Stop \/ Start \/ \E list \in UpLists : SetUpstreams(list)

\* The thread runs and time passes; nobody has to ask, answer, stop or start.
Fairness == WF_vars(Loop) /\ SF_vars(Elapse)

Spec == Init /\ [][Next]_vars /\ Fairness

-----------------------------------------------------------------------------
(***************************************************************************)
(* Properties.                                                             *)
(***************************************************************************)
\* expire_slots has looked at the slot since time last passed.
Visited(s) == pc = "select" \/ (pc = "expire" /\ s < next)

\* A query waits in exactly one slot, and a slot in use holds a query that waits.
OneSlotEach ==
  active =>
    /\ \A s \in Slots : Used(s) => status[owner[s]] = "pending"
    /\ \A q \in Queries : status[q] = "pending" => \E s \in Slots : owner[s] = q
    /\ \A r, s \in Slots : Used(s) /\ owner[r] = owner[s] => r = s

\* Only a query that was answered by the proxy has had a datagram, and one.
Reckoning ==
  \A q \in Queries :
    replies[q] = IF status[q] \in {"unsent", "pending", "dropped"} THEN 0 ELSE 1

\* What is on its way under the id of a slot in use was sent for its query,
\* unless that query took an id that was still on its way.
OwnTransmissions ==
  \A p \in wire :
    active /\ Matches(p) => p.query = owner[p.slot] \/ owner[p.slot] \in collided

\* Nobody waits for a proxy that is stopped.
NoneLeft == ~active => wire = {} /\ \A q \in Queries : status[q] # "pending"

\* expire_slots leaves no slot older than its limits.
Ages ==
  active =>
    \A s \in Slots : Used(s) /\ Visited(s) => first[s] <= GIVE_UP /\ sent[s] <= RETRY

\* A client gets the answer to its own question, unless the six random bits of
\* its id repeated those of an earlier query of the same slot that a server may
\* still answer; a duplicate or late reply is never enough.
AnswersMatch == \A q \in Queries : status[q] = "mixedUp" => q \in collided

\* The inductive invariant of the proxy.
IInv == OneSlotEach /\ Reckoning /\ OwnTransmissions /\ NoneLeft /\ Ages /\ AnswersMatch

\* However often a query was retried and however many servers answer, and also
\* across dnsd_stop and dnsd_start, its client gets at most one datagram.
AnsweredOnce == \A q \in Queries : replies[q] <= 1

\* A query fails for want of an answer only after every upstream server was
\* asked, and at least two tries, or after the whole GIVE_UP_MS; queries that
\* waited while the list changed are excepted.
FailsLate ==
  [][\A s \in Slots :
       Used(s) /\ owner[s] \notin moved /\ status'[owner[s]] = "failed" =>
         \/ first[s] > GIVE_UP
         \/ tries[s] >= 2 /\ \A i \in 1 .. Len(up) : up[i] \in asked[owner[s]]]_vars

\* Every query that got a slot is answered, failed, or dropped by a stop, even
\* with no upstream server at all.
QueryEnds == \A q \in Queries : status[q] = "pending" ~> status[q] # "pending"

=============================================================================
