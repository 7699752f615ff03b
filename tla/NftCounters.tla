---------------------------- MODULE NftCounters ----------------------------
(***************************************************************************)
(* How the Linux packet filter learns what it refused                      *)
(* (src/linux/fw_nft.c): it lists the table and takes the difference of    *)
(* each counter from the listing before.  The tick thread does it, and the *)
(* handler in fw_apply after it has installed a new table, whose counters  *)
(* start at zero.                                                          *)
(*                                                                         *)
(* Each listing is made by a program of its own, before or after the lock  *)
(* is taken, so an old listing may be read after a new one.  A rule is a   *)
(* tag; its lines have a counter each, whether they accept or drop.  What  *)
(* was read last is kept once for a tag: a rule with addresses of both     *)
(* families has two lines and encrypted DNS three, each of them compared   *)
(* with the one before it, so their packets are reported again and again.  *)
(*                                                                         *)
(* Abstracted: chains and their directions (a tag is one rule in one       *)
(* direction), the cap of 512 tags, the turn of one tick in three, and     *)
(* that the lines change with the policy.                                  *)
(***************************************************************************)
EXTENDS Naturals, Sequences, FiniteSets

CONSTANTS
  Rules,            \* the tags
  Lines,            \* the tag of each line of the table, in their order
  None,
  Ticker, Handler,
  QueueCap,         \* 256: the reports that wait at most
  MaxPackets,       \* bound on the packets that match
  MaxApplies,       \* bound on the changes of the policy
  MaxReadings       \* bound on the readings of the tick thread

Threads == {Ticker, Handler}

VARIABLES
  count,     \* packets the counter of each line of the installed table has seen
  table,     \* which table is installed
  stored,    \* g_counters: what was read last, or None
  read,      \* the table that was read last
  queue,     \* g_drops
  pc,        \* where a thread is
  listing,   \* the counters it has a listing of, and of which table
  lock,      \* who holds the lock to read its listing
  at,        \* the line it has come to
  readings,  \* how often the tick thread has read
  matched,   \* the packets each rule has matched
  missed,    \* those no report will ever hold
  crossed    \* a listing was compared with one of another table, or a later one

nftVars ==
  <<count, table, stored, read, queue, pc, listing, lock, at, readings, matched, missed, crossed>>

Zero == [i \in DOMAIN Lines |-> 0]

NftTypeOK ==
  /\ count \in [DOMAIN Lines -> 0 .. MaxPackets] /\ table \in 0 .. MaxApplies
  /\ stored \in [Rules -> (0 .. MaxPackets) \cup {None}] /\ read \in 0 .. MaxApplies
  /\ pc \in [Threads -> {"idle", "reset", "list", "scan", "lines"}]
  /\ listing \in [Threads -> [count : [DOMAIN Lines -> 0 .. MaxPackets], table : 0 .. MaxApplies]]
  /\ lock \in Threads \cup {None} /\ at \in 1 .. Len(Lines) + 1
  /\ readings \in 0 .. MaxReadings /\ crossed \in BOOLEAN

NftInit ==
  /\ count = Zero /\ table = 0
  /\ stored = [r \in Rules |-> None] /\ read = 0
  /\ pc = [t \in Threads |-> "idle"]
  /\ listing = [t \in Threads |-> [count |-> Zero, table |-> 0]]
  /\ lock = None /\ at = 1 /\ readings = 0
  /\ crossed = FALSE

Goto(t, label) == pc' = [pc EXCEPT ![t] = label]

\* The tags of one line, and the line of such a tag.
Single == {r \in Rules : \E i \in DOMAIN Lines : \A j \in DOMAIN Lines : Lines[j] = r <=> j = i}

LineOf(r) == CHOOSE i \in DOMAIN Lines : Lines[i] = r

\* The packets of such a tag the last reading did not see.
Unread(r) ==
  LET n == count[LineOf(r)]
  IN IF stored[r] = None THEN n ELSE IF n > stored[r] THEN n - stored[r] ELSE 0

\* A packet line i matches; the counter comes before the verdict.
Match(i) ==
  LET r == Lines[i]
  IN /\ matched[r] < MaxPackets
     /\ count' = [count EXCEPT ![i] = @ + 1] /\ matched' = [matched EXCEPT ![r] = @ + 1]
     /\ UNCHANGED <<table, stored, read, queue, pc, listing, lock, at, readings, missed, crossed>>

\* nft -f: a new table, with counters of its own.
Install ==
  /\ pc[Handler] = "idle" /\ table < MaxApplies
  /\ table' = table + 1 /\ count' = Zero
  /\ missed' = [r \in Rules |-> missed[r] + (IF r \in Single THEN Unread(r) ELSE 0)]
  /\ Goto(Handler, "reset")
  /\ UNCHANGED <<stored, read, queue, listing, lock, at, readings, matched, crossed>>

\* g_counter_count = 0; _Kept is a mutant that compares with the old table.
Forgotten_Kept == stored

Forgotten == [r \in Rules |-> None]

Reset ==
  /\ pc[Handler] = "reset" /\ lock = None /\ Goto(Handler, "list")
  /\ stored' = Forgotten /\ read' = table
  /\ UNCHANGED <<count, table, queue, listing, lock, at, readings, matched, missed, crossed>>

ReadStart ==
  /\ pc[Ticker] = "idle" /\ readings < MaxReadings
  /\ Goto(Ticker, "list") /\ readings' = readings + 1
  /\ UNCHANGED <<count, table, stored, read, queue, listing, lock, at, matched, missed, crossed>>

List(t) ==
  /\ pc[t] = "list" /\ Goto(t, "scan")
  /\ listing' = [listing EXCEPT ![t] = [count |-> count, table |-> table]]
  /\ UNCHANGED <<count, table, stored, read, queue, lock, at, readings, matched, missed, crossed>>

\* nft cannot be started: nothing is read.
ListFails(t) ==
  /\ pc[t] = "list" /\ Goto(t, "idle")
  /\ UNCHANGED <<count, table, stored, read, queue, listing, lock, at, readings, matched, missed, crossed>>

\* read_counters, under the lock.
ScanLock(t) ==
  /\ pc[t] = "scan" /\ lock = None /\ Goto(t, "lines")
  /\ lock' = t
  /\ UNCHANGED <<count, table, stored, read, queue, listing, at, readings, matched, missed, crossed>>

\* One line of n packets: a tag that is seen for the first time reports nothing, a
\* counter that has grown does while there is room.
Recorded(r, n) ==
  IF stored[r] # None /\ n > stored[r] /\ Len(queue) < QueueCap
  THEN queue' = Append(queue, [rule |-> r, count |-> n - stored[r]]) /\ UNCHANGED missed
  ELSE /\ UNCHANGED queue
       /\ missed' = [missed EXCEPT ![r] = @ +
            (IF stored[r] = None THEN n ELSE IF n > stored[r] THEN n - stored[r] ELSE 0)]

ScanLine(t) ==
  /\ pc[t] = "lines" /\ at \in DOMAIN Lines
  /\ LET r == Lines[at]
         n == listing[t].count[at]
     IN /\ Recorded(r, n)
        /\ stored' = [stored EXCEPT ![r] = n]
        /\ crossed' = \/ crossed \/ listing[t].table # read \/ table # read
                      \/ r \in Single /\ stored[r] # None /\ n < stored[r]
  /\ at' = at + 1
  /\ UNCHANGED <<count, table, read, pc, listing, lock, readings, matched>>

ScanUnlock(t) ==
  /\ pc[t] = "lines" /\ at = Len(Lines) + 1 /\ Goto(t, "idle")
  /\ lock' = None /\ at' = 1
  /\ listing' = [listing EXCEPT ![t] = [count |-> Zero, table |-> 0]]
  /\ UNCHANGED <<count, table, stored, read, queue, readings, matched, missed, crossed>>

NftNext ==
  \/ \E i \in DOMAIN Lines : Match(i)
  \/ Install \/ Reset \/ ReadStart
  \/ \E t \in Threads : List(t) \/ ListFails(t) \/ ScanLock(t) \/ ScanLine(t) \/ ScanUnlock(t)

\* Every packet of a rule of one line is reported, waits in a counter for the
\* next reading, or was missed where a new table or a first reading came between.
NftAccounted(reported) ==
  ~crossed /\ read = table =>
    \A r \in Single : matched[r] = reported[r] + Unread(r) + missed[r]

\* No rule of one line has more packets than it matched, and no rule of several
\* has any when it matched none.
NftMatched(reported) ==
  /\ ~crossed => \A r \in Single : reported[r] <= matched[r]
  /\ \A r \in Rules : reported[r] > 0 => matched[r] > 0

=============================================================================
