---------------------------- MODULE DropReports ----------------------------
(***************************************************************************)
(* What the engine makes of the packets the packet filter refused: the     *)
(* hits of each rule, the number of blocked packets, and lines in the log  *)
(* (core/engine.c, drain_drops), from the reports of the filter of either  *)
(* system.  NftCounters and WfpEvents share the queue with it.             *)
(*                                                                         *)
(* Abstracted: the discovery of an application by its refused packet, in   *)
(* module Enforcement; rules are not deleted while their reports wait.     *)
(***************************************************************************)
EXTENDS Naturals, Sequences, FiniteSets

CONSTANTS
  Rules, Lines, None, Ticker, Handler, QueueCap, RingCap, MaxPackets, MaxApplies, MaxReadings,
  Guards,       \* rules whose packets are DNS queries past the proxy
  Name,         \* what the log calls the packets of a rule
  DrainCap,     \* 256: the reports taken at once
  MaxNames      \* 32: the names the log tells apart at once

ASSUME DropsAssumption ==
  /\ None \notin Rules /\ None \notin Nat /\ Ticker # Handler /\ None \notin {Ticker, Handler}
  /\ IsFiniteSet(Rules)
  /\ Lines \in Seq(Rules) /\ Guards \subseteq Rules
  /\ {QueueCap, RingCap, DrainCap, MaxNames, MaxPackets} \subseteq Nat \ {0}
  /\ MaxApplies \in Nat /\ MaxReadings \in Nat

VARIABLES
  platform,                                             \* "linux" or "windows"
  count, table, stored, read, pc, listing, lock, at, readings, crossed,   \* of NftCounters
  filters, known, pending, events,                      \* of WfpEvents
  queue, matched, missed,                               \* of both
  hits,       \* of each rule
  blocked,    \* g_blocked24h
  logged,     \* packets told in lines of their own
  held,       \* g_dns_guard_blocked: told together, once a minute
  untold      \* those of more names than the log tells apart

Nft == INSTANCE NftCounters
Wfp == INSTANCE WfpEvents

nftOnly == <<count, table, stored, read, pc, listing, lock, at, readings, crossed>>
wfpOnly == <<filters, known, pending, events>>
engine  == <<hits, blocked, logged, held, untold>>
vars == <<platform, nftOnly, wfpOnly, queue, matched, missed, engine>>

Zero == [r \in Rules |-> 0]

TypeOK ==
  /\ platform \in {"linux", "windows"}
  /\ Nft!NftTypeOK /\ Wfp!WfpTypeOK
  /\ queue \in Seq([rule : Rules, count : 1 .. MaxPackets])
  /\ Len(queue) <= IF platform = "linux" THEN QueueCap ELSE RingCap
  /\ matched \in [Rules -> 0 .. MaxPackets] /\ missed \in [Rules -> Nat]
  /\ hits \in [Rules -> Nat] /\ {blocked, logged, held, untold} \subseteq Nat

Init ==
  /\ platform \in {"linux", "windows"}
  /\ Nft!NftInit /\ Wfp!WfpInit
  /\ queue = <<>> /\ matched = Zero /\ missed = Zero
  /\ hits = Zero /\ blocked = 0 /\ logged = 0 /\ held = 0 /\ untold = 0

-----------------------------------------------------------------------------
\* The packets of the reports of a rule, and of a set of rules.
Packets(reports, R) ==
  LET upTo[i \in 0 .. Len(reports)] ==
        IF i = 0 THEN 0
        ELSE upTo[i - 1] + (IF reports[i].rule \in R THEN reports[i].count ELSE 0)
  IN upTo[Len(reports)]

\* The names of the reports, while they are told apart: the first ones.
Names(reports) ==
  LET firstOf(n) == CHOOSE i \in DOMAIN reports :
                      Name[reports[i].rule] = n /\ \A j \in 1 .. i - 1 : Name[reports[j].rule] # n
      names == {Name[reports[i].rule] : i \in DOMAIN reports}
  IN {n \in names : Cardinality({m \in names : firstOf(m) < firstOf(n)}) < MaxNames}

\* The last report of a name says where its packets went.
ToGuard(reports, n) ==
  LET all == {i \in DOMAIN reports : Name[reports[i].rule] = n}
      last == CHOOSE i \in all : \A j \in all : j <= i
  IN platform = "windows" /\ reports[last].rule \in Guards

\* What fw_take_drops of either filter leaves: Linux throws away the rest.
Rest(reports) ==
  IF platform = "linux" THEN <<>> ELSE SubSeq(queue, Len(reports) + 1, Len(queue))

\* What is held back for the line of the minute that is due or not; _Dropped is
\* a mutant that forgets what it has just added.
Held_Dropped(guarded, due) == IF due THEN 0 ELSE guarded

Held(guarded, due) == IF due THEN 0 ELSE held + guarded

\* drain_drops, by the tick thread.
Drain ==
  LET reports == SubSeq(queue, 1, IF Len(queue) < DrainCap THEN Len(queue) ELSE DrainCap)
      named   == {r \in Rules : Name[r] \in Names(reports)}
  IN /\ queue # <<>> /\ pc[Ticker] = "idle" /\ lock = None
     /\ queue' = Rest(reports)
     /\ missed' = IF platform = "linux"
                  THEN [r \in Rules |-> missed[r] +
                          Packets(SubSeq(queue, Len(reports) + 1, Len(queue)), {r})]
                  ELSE missed
     /\ hits' = [r \in Rules |-> hits[r] + Packets(reports, {r})]
     /\ blocked' = blocked + Packets(reports, Rules)
     /\ untold' = untold + Packets(reports, Rules \ named)
     /\ \E active, due \in BOOLEAN :
          LET guarded == {r \in named : active /\ ToGuard(reports, Name[r])}
              n == Packets(reports, guarded)
          IN /\ due => n > 0
             /\ held' = Held(n, due)
             /\ logged' = logged + Packets(reports, named \ guarded) + (IF due THEN held + n ELSE 0)
     /\ UNCHANGED <<platform, nftOnly, wfpOnly, matched>>

Next ==
  \/ platform = "linux" /\ Nft!NftNext /\ UNCHANGED <<platform, wfpOnly, engine>>
  \/ platform = "windows" /\ Wfp!WfpNext /\ UNCHANGED <<platform, nftOnly, engine>>
  \/ Drain

Spec == Init /\ [][Next]_vars

-----------------------------------------------------------------------------
(***************************************************************************)
(* Properties.                                                             *)
(***************************************************************************)

Reported == [r \in Rules |-> hits[r] + Packets(queue, {r})]

\* No packet is counted for a rule that did not match it, nor twice, however
\* policies change between the packet and its report.  On Linux the packets of a
\* rule of several lines are, and those of any rule when a listing of an older
\* table or moment is read after a newer one.
HitsMatched ==
  IF platform = "linux" THEN Nft!NftMatched(Reported)
  ELSE \A r \in Rules : Reported[r] <= matched[r]

\* Every packet is counted, or waits, or was missed where the code misses it: on
\* Linux of the rules of one line, unless listings crossed.
Accounted ==
  IF platform = "linux" THEN Nft!NftAccounted(Reported) ELSE Wfp!WfpAccounted(Reported)

\* Every blocked packet is told in the log, held for the line of the minute, or
\* of a name too many.
Told == blocked = logged + held + untold

\* No queue holds more than its room, and no packet is invented between the filter
\* and the log.
Inv == TypeOK /\ HitsMatched /\ Told

=============================================================================
