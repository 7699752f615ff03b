----------------------------- MODULE WfpEvents -----------------------------
(***************************************************************************)
(* How the Windows packet filter learns what it refused                    *)
(* (src/windows/fw_wfp.c): the system calls on_net_event for a packet that *)
(* was dropped, some time after it was and with no more than the number of *)
(* the filter, which is looked up in the table of the filters installed    *)
(* last.  The table changes after the filters do.                          *)
(*                                                                         *)
(* A filter is the list of rules it was installed with and its rule's      *)
(* place there: the numbers of filters are never used again.               *)
(*                                                                         *)
(* Abstracted: the address, port and program of a packet; filters of other *)
(* programs and of no rule.                                                *)
(***************************************************************************)
EXTENDS Naturals, Sequences, FiniteSets

CONSTANTS
  Rules,
  None,
  RingCap,          \* DROP_CAP: the reports that wait at most
  MaxPackets,       \* bound on the packets that are refused
  MaxApplies        \* bound on the changes of the policy

VARIABLES
  filters,   \* the filters installed: the number of the policy and its rules
  known,     \* g_filters and g_rule_ids
  pending,   \* the rules being installed, or None
  events,    \* the packets that were dropped and not yet told
  queue,     \* g_drops, from g_drop_head
  matched,   \* the packets each rule has refused
  missed     \* those no report will ever hold

wfpVars == <<filters, known, pending, events, queue, matched, missed>>

\* Policies have the rules in an order of their own.
Policies == [number : 0 .. MaxApplies, rules : UNION {[1 .. n -> Rules] : n \in 0 .. Cardinality(Rules)}]

NoPolicy == [number |-> 0, rules |-> <<>>]

WfpTypeOK ==
  /\ filters \in Policies /\ known \in Policies /\ pending \in Policies \cup {None}
  /\ events \in Seq([number : 0 .. MaxApplies, place : 1 .. Cardinality(Rules), rule : Rules])

WfpInit ==
  /\ filters = NoPolicy /\ known = NoPolicy /\ pending = None /\ events = <<>>

\* FwpmTransactionCommit0: the new filters replace the old ones.
Commit(order) ==
  /\ pending = None /\ filters.number < MaxApplies
  /\ pending' = [number |-> filters.number + 1, rules |-> order]
  /\ filters' = pending'
  /\ UNCHANGED <<known, events, queue, matched, missed>>

\* The tables of the filters and of the rules they belong to change together.
Publish ==
  /\ pending # None
  /\ known' = pending /\ pending' = None
  /\ UNCHANGED <<filters, events, queue, matched, missed>>

Refuse(i) ==
  /\ i \in DOMAIN filters.rules
  /\ LET r == filters.rules[i]
     IN /\ matched[r] < MaxPackets
        /\ matched' = [matched EXCEPT ![r] = @ + 1]
        /\ events' = Append(events, [number |-> filters.number, place |-> i, rule |-> r])
  /\ UNCHANGED <<filters, known, pending, queue, missed>>

\* find_filter; _Place is a mutant that takes the place for the number.
Finds_Place(e) == e.place \in DOMAIN known.rules

Finds(e) == e.number = known.number

\* What waits when one more report comes: a full ring loses its oldest.  _Grows
\* is a mutant that does not move its head.
Pushed_Grows(d) == Append(queue, d)

Pushed(d) == Append(IF Len(queue) < RingCap THEN queue ELSE Tail(queue), d)

\* on_net_event.
Event ==
  /\ events # <<>> /\ events' = Tail(events)
  /\ LET e == Head(events)
     IN IF Finds(e)
        THEN /\ queue' = Pushed([rule |-> known.rules[e.place], count |-> 1])
             /\ missed' = IF Len(queue) < RingCap THEN missed
                          ELSE [missed EXCEPT ![Head(queue).rule] = @ + Head(queue).count]
        ELSE /\ missed' = [missed EXCEPT ![e.rule] = @ + 1]
             /\ UNCHANGED queue
  /\ UNCHANGED <<filters, known, pending, matched>>

Orders == {order \in UNION {[1 .. n -> Rules] : n \in 0 .. Cardinality(Rules)} :
             \A i, j \in DOMAIN order : order[i] = order[j] => i = j}

WfpNext ==
  \/ (\E order \in Orders : Commit(order)) \/ Publish
  \/ (\E i \in 1 .. Cardinality(Rules) : Refuse(i)) \/ Event

\* Every packet a rule refused is reported, about to be told, or was missed
\* where its filter was not in the table or the ring was full.
WfpAccounted(reported) ==
  \A r \in Rules :
    matched[r] = reported[r] + missed[r] + Cardinality({i \in DOMAIN events : events[i].rule = r})

=============================================================================
