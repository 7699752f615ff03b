------------------------------- MODULE Usage -------------------------------
(***************************************************************************)
(* The accounting of traffic in the engine (src/core/engine.c): the tick   *)
(* reads the counters of the interfaces, of the TCP connections and of the *)
(* UDP flows (src/windows/flows_etw.c), and adds what they gained to one   *)
(* row per day and one row per day and application; the rows are saved,    *)
(* read back at the next start, and compared with the data limit.          *)
(*                                                                         *)
(* None of the counters is the program's: a connection closes, is reopened *)
(* or passes to another process, more of them exist than the tables hold,  *)
(* a table cannot be read, an interface disappears, the clock is set back, *)
(* a save fails or fills the disk, the program crashes.  strange records   *)
(* which of these has happened, for the properties that one of them        *)
(* excuses.                                                                *)
(*                                                                         *)
(* Abstracted: received and sent bytes are counted alike and one of them   *)
(* is kept; the rates, ages, names and addresses of the connections; the   *)
(* hash table of the flows is a function of the flow.  A denied byte count *)
(* is one that stays unreadable.                                           *)
(***************************************************************************)
EXTENDS Integers, Sequences, FiniteSets, SequencesExt, FiniteSetsExt, Functions

CONSTANTS
  Apps, Tcp, Udp,       \* process names, and the identities of TCP connections and UDP flows
  Home,                 \* the programs that open it: a TCP identity names one process
  None,
  Calendar,             \* the dates of the days that pass, as keys yyyymmdd
  MaxConns,             \* ENG_MAX_CONNS
  MaxFlows,             \* three quarters of TABLE_SIZE
  MaxApps,              \* ENG_MAX_APPS
  UsageDays, UsageRows, \* USAGE_DAYS and USAGE_APP_ROWS
  KeepDays,             \* USAGE_KEEP_DAYS
  ResetDay, DataLimit,  \* g_settings.dataResetDay and dataLimitMb
  CheckEvery, SaveEvery,\* the ticks between two checks of the limit, and between two saves
  Packet,               \* the bytes of a packet
  MaxBytes, MaxStrange  \* bounds on the traffic and on what goes wrong

VARIABLES
  day,      \* the place of today in Calendar
  owner,    \* the process that has the socket, or None
  sent,     \* the bytes of a TCP connection since it was opened
  octets,   \* the octets of the interfaces
  on,       \* the program runs
  n,        \* the ticks since its start
  base,     \* g_if_in, or None before the first reading
  late,     \* the clock is not past g_if_ms
  flows,    \* g_table: the flows with their process and bytes
  conns,    \* g_conns
  apps,     \* g_apps: retired and counted bytes
  totals, rows, \* g_totals and g_day_apps
  limit,    \* g_limit_period and g_limit_level
  disk,     \* usage.tsv and the limit line of the state file
  carried,  \* the octets of the interfaces between the readings of each run
  due,      \* the bytes an application may be charged with
  told,     \* the alerts of the data limit
  strange,  \* what went wrong
  spent     \* the bytes sent so far

program == <<on, n, base, late, flows, conns, apps, totals, rows, limit>>
world   == <<day, owner, sent, octets>>
vars    == <<world, program, disk, carried, due, told, strange, spent>>

Conns == Tcp \cup Udp

\* The bytes of the connections S of f, and of the rows of t at the places P.
BytesOf(f, S) ==
  LET over[T \in SUBSET S] ==
        IF T = {} THEN 0 ELSE LET c == CHOOSE c \in T : TRUE IN f[c].bytes + over[T \ {c}]
  IN over[S]

BytesAt(t, P) ==
  LET upTo[i \in 0 .. Len(t)] ==
        IF i = 0 THEN 0 ELSE upTo[i - 1] + (IF i \in P THEN t[i].bytes ELSE 0)
  IN upTo[Len(t)]

(***************************************************************************)
(* Dates                                                                   *)
(***************************************************************************)
Year(key)  == key \div 10000
Month(key) == (key \div 100) % 100
Day(key)   == key % 100
Key(y, m, d) == y * 10000 + m * 100 + d

\* The days are dates in their order; each identity is of one kind and, if of a TCP
\* connection, of one program.
ASSUME UsageAssumption ==
  /\ IsFiniteSet(Apps) /\ IsFiniteSet(Tcp) /\ IsFiniteSet(Udp) /\ Tcp \cap Udp = {}
  /\ Home \in [Conns -> SUBSET Apps] /\ (\A c \in Tcp : Cardinality(Home[c]) <= 1)
  /\ None \notin Apps \cup Nat
  /\ Calendar \in Seq(Nat) /\ Len(Calendar) > 0
  /\ \A i \in DOMAIN Calendar :
       /\ Year(Calendar[i]) > 0 /\ Month(Calendar[i]) \in 1 .. 12 /\ Day(Calendar[i]) \in 1 .. 31
       /\ \A j \in i + 1 .. Len(Calendar) : Calendar[i] < Calendar[j]
  /\ MaxConns \in Nat /\ MaxFlows \in Nat /\ MaxApps \in Nat
  /\ UsageDays \in Nat \ {0} /\ UsageRows \in Nat \ {0} /\ KeepDays \in Nat /\ ResetDay \in Int
  /\ DataLimit \in Nat \ {0} /\ CheckEvery \in Nat \ {0} /\ SaveEvery \in Nat \ {0}
  /\ Packet \in Nat \ {0} /\ MaxBytes \in Nat /\ MaxStrange \in Nat

\* The days of an era of 400 years before a year of it, and of a year before a month
\* of it; and the year of the era and the month of the year a day is in.  A year
\* begins in March.
YearStart(y)  == y * 365 + y \div 4 - y \div 100
MonthStart(m) == (153 * m + 2) \div 5
YearAt(doe)   == (doe - doe \div 1460 + doe \div 36524 - doe \div 146096) \div 365
MonthAt(doy)  == (5 * doy + 2) \div 153

\* key_days and days_from_civil: days since 1970-01-01.
KeyDays(key) ==
  LET m   == Month(key)
      y   == IF m <= 2 THEN Year(key) - 1 ELSE Year(key)
      era == y \div 400
      doy == MonthStart(IF m > 2 THEN m - 3 ELSE m + 9) + Day(key) - 1
  IN era * 146097 + YearStart(y - era * 400) + doy - 719468

\* civil_key; _March is a mutant that begins the civil year in March.
CivilKeyAt(z, shift) ==
  LET era == (z + 719468) \div 146097
      doe == z + 719468 - era * 146097
      yoe == YearAt(doe)
      doy == doe - YearStart(yoe)
      mp  == MonthAt(doy)
      m   == IF mp < 10 THEN mp + 3 ELSE mp - 9
  IN Key(yoe + era * 400 + (IF m <= shift THEN 1 ELSE 0), m, doy - MonthStart(mp) + 1)

CivilKey_March(z) == CivilKeyAt(z, 3)
CivilKey(z) == CivilKeyAt(z, 2)

\* The civil calendar, which is the world's.
Leap(y) == y % 4 = 0 /\ (y % 100 # 0 \/ y % 400 = 0)
MonthDays(y, m) == IF m = 2 THEN IF Leap(y) THEN 29 ELSE 28 ELSE IF m \in {4, 6, 9, 11} THEN 30 ELSE 31
IsDate(key) == Month(key) \in 1 .. 12 /\ Day(key) \in 1 .. MonthDays(Year(key), Month(key))
DayAfter(key) ==
  LET y == Year(key)
      m == Month(key)
  IN IF Day(key) < MonthDays(y, m) THEN key + 1 ELSE IF m < 12 THEN Key(y, m + 1, 1) ELSE Key(y + 1, 1, 1)

\* The days that pass are dates of it, and none is left out.
ASSUME CalendarAssumption ==
  \A i \in DOMAIN Calendar : IsDate(Calendar[i]) /\ (i > 1 => Calendar[i] = DayAfter(Calendar[i - 1]))

Today == Calendar[day]

\* period_start_key: the day of reset, this month or the month before.
PeriodStart ==
  LET r == IF ResetDay < 1 THEN 1 ELSE IF ResetDay > 28 THEN 28 ELSE ResetDay
      y == Year(Today)
      m == Month(Today)
  IN IF Day(Today) >= r THEN Key(y, m, r)
     ELSE IF m = 1 THEN Key(y - 1, 12, r) ELSE Key(y, m - 1, r)

(***************************************************************************)
(* The rows                                                                *)
(***************************************************************************)

\* usage_total: the place of a day's row, searched from the last row back to the
\* first that is older, or 0.
PlaceOf(t, key) ==
  LET found == {i \in DOMAIN t : t[i].day = key /\ \A j \in i + 1 .. Len(t) : t[j].day > key}
  IN IF found = {} THEN 0 ELSE Max(found)

\* The table with a row of that day; a full one loses its first row for it.
WithTotal(t, key) ==
  IF PlaceOf(t, key) # 0 THEN t
  ELSE Append(IF Len(t) = UsageDays THEN Tail(t) ELSE t, [day |-> key, bytes |-> 0])

\* usage_app: as above, the search passes the newer rows; a full table loses
\* every row of the day it begins with.
AppPlace(r, key, app) ==
  LET found == {i \in DOMAIN r : /\ r[i].day = key /\ r[i].app = app
                                 /\ \A j \in i + 1 .. Len(r) : r[j].day >= key}
  IN IF found = {} THEN 0 ELSE Max(found)

FirstDayLength(r) ==
  Cardinality({i \in DOMAIN r : \A j \in 1 .. i : r[j].day = r[1].day})

\* What is left for one row more; _Grows is a mutant that drops nothing.
AppRoom_Grows(r) == r
AppRoom(r) == IF Len(r) = UsageRows THEN SubSeq(r, FirstDayLength(r) + 1, Len(r)) ELSE r

WithApp(r, key, app) ==
  IF AppPlace(r, key, app) # 0 THEN r
  ELSE Append(AppRoom(r), [day |-> key, app |-> app, bytes |-> 0])

\* load_usage: the rows of the file from the cutoff on, each set to what it
\* holds, so that a second row of one day replaces the first.
Cutoff == CivilKey(KeyDays(Today) - KeepDays)

LoadTotal(t, x) ==
  IF x.day < Cutoff THEN t
  ELSE LET u == WithTotal(t, x.day) IN [u EXCEPT ![PlaceOf(u, x.day)].bytes = x.bytes]

LoadRow(r, x) ==
  IF x.day < Cutoff THEN r
  ELSE LET u == WithApp(r, x.day, x.app) IN [u EXCEPT ![AppPlace(u, x.day, x.app)].bytes = x.bytes]

LoadTotals(saved) ==
  LET upTo[i \in 0 .. Len(saved)] == IF i = 0 THEN <<>> ELSE LoadTotal(upTo[i - 1], saved[i])
  IN upTo[Len(saved)]

LoadRows(saved) ==
  LET upTo[i \in 0 .. Len(saved)] == IF i = 0 THEN <<>> ELSE LoadRow(upTo[i - 1], saved[i])
  IN upTo[Len(saved)]

\* save_usage: a row without bytes is not written.
Written(r) ==
  LET upTo[i \in 0 .. Len(r)] ==
        IF i = 0 THEN <<>> ELSE IF r[i].bytes > 0 THEN Append(upTo[i - 1], r[i]) ELSE upTo[i - 1]
  IN upTo[Len(r)]

\* The first digits of a number.
Begins(y, x) == \E k \in 0 .. 9 : y = x \div 10 ^ k

\* What a full disk leaves of the lines of t, and of r: the last of them may be cut
\* within its number, or within its name, which then is any program's.
CutTotals(t) ==
  {<<>>} \cup UNION {{Append(SubSeq(t, 1, i - 1), [t[i] EXCEPT !.bytes = b])
                       : b \in {y \in 1 .. t[i].bytes : Begins(y, t[i].bytes)}} : i \in DOMAIN t}
CutRows(r) ==
  {<<>>} \cup UNION {{Append(SubSeq(r, 1, i - 1), [r[i] EXCEPT !.app = a]) : a \in Apps} : i \in DOMAIN r}

\* The disk after a save of t and r: nobody looks at what the writes returned, and
\* the file stays as it was where no new one can be opened.
UsageFiles(t, r, lost) ==
  IF "unsaved" \in lost THEN {disk}
  ELSE IF "cut" \in lost
  THEN {[disk EXCEPT !.totals = u, !.rows = <<>>] : u \in CutTotals(t)}
       \cup {[disk EXCEPT !.totals = t, !.rows = v] : v \in CutRows(Written(r))}
  ELSE {[disk EXCEPT !.totals = t, !.rows = Written(r)]}

PeriodBytes(t, start) == BytesAt(t, {i \in DOMAIN t : t[i].day >= start})

(***************************************************************************)
(* State                                                                   *)
(***************************************************************************)
Rows   == [day : ToSet(Calendar), bytes : Nat]
AppRow == [day : ToSet(Calendar), app : Apps, bytes : Nat]
Counts == [app : Apps, bytes : Nat]
Limits == [period : Nat, level : 0 .. 2]

TypeOK ==
  /\ day \in DOMAIN Calendar /\ octets \in Nat /\ sent \in [Tcp -> Nat]
  /\ owner \in [Conns -> Apps \cup {None}]
  /\ on \in BOOLEAN /\ late \in BOOLEAN /\ n \in Nat /\ base \in Nat \cup {None}
  /\ DOMAIN flows \subseteq Udp /\ Cardinality(DOMAIN flows) <= MaxFlows
  /\ Range(flows) \subseteq [app : Apps, bytes : Nat, fresh : BOOLEAN]
  /\ DOMAIN conns \subseteq Conns /\ Range(conns) \subseteq Counts
  /\ Cardinality(DOMAIN conns) <= MaxConns /\ Cardinality(DOMAIN apps) <= MaxApps
  /\ DOMAIN apps \subseteq Apps /\ Range(apps) \subseteq [retired : Nat, counted : Nat]
  /\ totals \in Seq(Rows) /\ Len(totals) <= UsageDays
  /\ rows \in Seq(AppRow) /\ Len(rows) <= UsageRows
  /\ limit \in Limits /\ disk \in [totals : Seq(Rows), rows : Seq(AppRow), limit : Limits]

NoLimit == [period |-> 0, level |-> 0]

ClearProgram ==
  /\ on' = FALSE /\ n' = 0 /\ base' = None /\ late' = FALSE
  /\ flows' = <<>> /\ conns' = <<>> /\ apps' = <<>>
  /\ totals' = <<>> /\ rows' = <<>> /\ limit' = NoLimit

Init ==
  /\ day = 1 /\ owner = [c \in Conns |-> None] /\ sent = [c \in Tcp |-> 0] /\ octets = 0
  /\ on = FALSE /\ n = 0 /\ base = None /\ late = FALSE
  /\ flows = <<>> /\ conns = <<>> /\ apps = <<>>
  /\ totals = <<>> /\ rows = <<>> /\ limit = NoLimit
  /\ disk = [totals |-> <<>>, rows |-> <<>>, limit |-> NoLimit]
  /\ carried = 0 /\ due = [a \in Apps |-> 0] /\ told = <<>> /\ strange = {} /\ spent = 0

Add(f, x, v) == [y \in DOMAIN f \cup {x} |-> IF y = x THEN v ELSE f[y]]
May(what) == what \notin strange /\ Cardinality(strange) < MaxStrange
Losses(S) ==
  {lost \in SUBSET S : /\ \A x \in lost : May(x)
                       /\ lost # {} => Cardinality(strange \cup lost) <= MaxStrange}
Pending == IF base = None THEN 0 ELSE IF octets >= base THEN octets - base ELSE 0

(***************************************************************************)
(* The network and the clock                                               *)
(***************************************************************************)

\* A flow in the table without a socket was another process's.
Left(c, b) == owner[c] = None /\ c \in DOMAIN flows /\ flows[c].app # b

\* The bytes that are counted for whoever has the socket from now on.
Inherited(c) ==
  IF c \in Tcp THEN sent[c] ELSE IF c \in DOMAIN flows THEN flows[c].bytes ELSE 0

Open(c, a) ==
  /\ owner[c] = None /\ a \in Home[c] /\ ~Left(c, a)
  /\ owner' = [owner EXCEPT ![c] = a]
  /\ sent' = IF c \in Tcp THEN [sent EXCEPT ![c] = 0] ELSE sent
  /\ UNCHANGED <<day, octets, program, disk, carried, due, told, strange, spent>>

Close(c) ==
  /\ owner[c] # None
  /\ owner' = [owner EXCEPT ![c] = None]
  /\ UNCHANGED <<day, sent, octets, program, disk, carried, due, told, strange, spent>>

\* on_event with lookup: a flow is entered while there is room.
Seen(c) ==
  IF c \in DOMAIN flows
  THEN Add(flows, c, [app |-> owner[c], bytes |-> flows[c].bytes + Packet, fresh |-> TRUE])
  ELSE IF Cardinality(DOMAIN flows) < MaxFlows
  THEN Add(flows, c, [app |-> owner[c], bytes |-> Packet, fresh |-> TRUE])
  ELSE flows

Traffic(c) ==
  /\ owner[c] # None /\ spent + Packet <= MaxBytes /\ spent' = spent + Packet
  /\ octets' = octets + Packet
  /\ sent' = IF c \in Tcp THEN [sent EXCEPT ![c] = @ + Packet] ELSE sent
  /\ flows' = IF on /\ c \in Udp THEN Seen(c) ELSE flows
  /\ due' = [due EXCEPT ![owner[c]] = @ + Packet]
  /\ carried' = IF on /\ base # None THEN carried + Packet ELSE carried
  /\ UNCHANGED <<day, owner, on, n, base, late, conns, apps, totals, rows, limit, disk, told, strange>>

\* The process of the socket begins another program or hands it on, or the port
\* of a flow in the table is taken by another: a flow's identity has no process.
HandOver(c, b) ==
  /\ (owner[c] \notin {None, b} \/ Left(c, b)) /\ May("moved")
  /\ owner' = [owner EXCEPT ![c] = b]
  /\ due' = [due EXCEPT ![b] = @ + Inherited(c)]
  /\ strange' = strange \cup {"moved"}
  /\ UNCHANGED <<day, sent, octets, program, disk, carried, told, spent>>

\* An interface goes away with its counters.
CounterReset ==
  /\ octets > 0 /\ May("reset")
  /\ octets' = 0 /\ strange' = strange \cup {"reset"}
  /\ carried' = carried - Pending
  /\ UNCHANGED <<day, owner, sent, program, disk, due, told, spent>>

NextDay ==
  /\ day < Len(Calendar)
  /\ day' = day + 1 /\ late' = FALSE
  /\ UNCHANGED <<owner, sent, octets, on, n, base, flows, conns, apps, totals, rows, limit,
                 disk, carried, due, told, strange, spent>>

ClockBack ==
  /\ day > 1 /\ May("clock")
  /\ day' = day - 1 /\ late' = on /\ strange' = strange \cup {"clock"}
  /\ UNCHANGED <<owner, sent, octets, on, n, base, flows, conns, apps, totals, rows, limit,
                 disk, carried, due, told, spent>>

(***************************************************************************)
(* refresh_from_system and account_usage                                   *)
(***************************************************************************)

\* The octets since the last reading.  _Kept is a mutant that does not keep the
\* new reading.
Gained == IF base = None \/ late \/ octets < base THEN 0 ELSE octets - base

Based_Kept(read) == IF read /\ base = None THEN octets ELSE base
Based(read) == IF read THEN octets ELSE base

\* g_fresh: the listed connections with the bytes read for those that can be.
Fresh(listed, kept, readable) ==
  [c \in listed |->
     IF c \in Udp THEN [app |-> kept[c].app, bytes |-> kept[c].bytes]
     ELSE [app |-> owner[c],
           bytes |-> IF c \in readable THEN sent[c]
                     ELSE IF c \in DOMAIN conns THEN conns[c].bytes ELSE 0]]

\* What the connections that are gone carried stays with their application.
Retired(a, fresh) == BytesOf(conns, {c \in DOMAIN conns \ DOMAIN fresh : conns[c].app = a})

Live(a, fresh) == BytesOf(fresh, {c \in DOMAIN fresh : fresh[c].app = a})

\* The rows an application gets in its day: the bytes before the program began
\* are not its own.  _All is a mutant that charges them.
Charges_All(initial, a, gain) == gain > 0
Charges(initial, a, gain) == ~initial /\ gain > 0

\* The rows r with what each of the applications S gained, one after the other.
Charged(r, S, gain) ==
  LET after[T \in SUBSET S] ==
        IF T = {} THEN r
        ELSE LET a == CHOOSE a \in T : TRUE
                 u == WithApp(after[T \ {a}], Today, a)
             IN [u EXCEPT ![AppPlace(u, Today, a)].bytes = @ + gain[a]]
  IN after[S]

\* The tables after a pass over the connections.
Account(initial, fresh, known, gained, t0, r0) ==
  LET retired == [a \in known |-> (IF a \in DOMAIN apps THEN apps[a].retired ELSE 0) + Retired(a, fresh)]
      bytes   == [a \in known |-> retired[a] + Live(a, fresh)]
      gain    == [a \in known |-> bytes[a] - (IF a \in DOMAIN apps THEN apps[a].counted ELSE 0)]
      ledger  == WithTotal(t0, Today)
  IN /\ totals' = IF gained > 0 THEN [ledger EXCEPT ![PlaceOf(ledger, Today)].bytes = @ + gained] ELSE t0
     /\ rows' = Charged(r0, {a \in known : Charges(initial, a, gain[a])}, gain)
     /\ apps' = [a \in known |-> [retired |-> retired[a], counted |-> bytes[a]]]
     /\ conns' = fresh

Passes(initial, t0, r0, gained, marks) ==
  \E idle \in SUBSET {c \in DOMAIN flows : ~flows[c].fresh} :
    LET kept == [c \in DOMAIN flows \ idle |-> [flows[c] EXCEPT !.fresh = FALSE]]
        open == {c \in Tcp : owner[c] # None}
    IN \E tcp \in kSubset(Min({Cardinality(open), MaxConns}), open) :
       \E udp \in kSubset(Min({Cardinality(DOMAIN kept), MaxConns - Cardinality(tcp)}), DOMAIN kept) :
       \E readable \in (IF May("blind") THEN SUBSET tcp ELSE {tcp}) :
         LET fresh == Fresh(tcp \cup udp, kept, readable)
             new   == {fresh[c].app : c \in DOMAIN fresh} \ DOMAIN apps
         IN \E named \in kSubset(Min({Cardinality(new), MaxApps - Cardinality(DOMAIN apps)}), new) :
              /\ Account(initial, fresh, DOMAIN apps \cup named, gained, t0, r0)
              /\ flows' = kept
              /\ strange' = strange \cup marks
                   \cup (IF readable # tcp THEN {"blind"} ELSE {})
                   \cup (IF tcp \cup udp # open \cup DOMAIN kept THEN {"crowded"} ELSE {})
                   \cup (IF Len(totals') < Len(t0) + (IF gained > 0 /\ PlaceOf(t0, Today) = 0 THEN 1 ELSE 0)
                         THEN {"full"} ELSE {})

\* The octets are read first and kept; a pass that cannot read the connections
\* ends there.
Refresh(initial, t0, r0, marks) ==
  \E read \in BOOLEAN :
    /\ ~read => May("failed")
    /\ base' = Based(read) /\ late' = (late /\ ~read)
    /\ \/ Passes(initial, t0, r0, IF read THEN Gained ELSE 0, marks \cup (IF read THEN {} ELSE {"failed"}))
       \/ /\ read /\ May("failed")
          /\ strange' = strange \cup marks \cup {"failed"}
          /\ totals' = t0 /\ rows' = r0
          /\ UNCHANGED <<flows, conns, apps>>

(***************************************************************************)
(* check_data_limit                                                        *)
(***************************************************************************)
Level(used) == IF used >= DataLimit THEN 2 ELSE IF used * 10 >= DataLimit * 8 THEN 1 ELSE 0

\* A new period begins at level 0; _Kept is a mutant that keeps the level.
InPeriod_Kept(start) == [limit EXCEPT !.period = start]
InPeriod(start) == IF start = limit.period THEN limit ELSE [period |-> start, level |-> 0]

\* The state file is written with the alert; _Unsaved is a mutant that waits.
SavedLimit_Unsaved(l) == disk.limit
SavedLimit(l) == l

\* save_state: the limit in the state file, which may stay as it was or be cut
\* before it.
StateLimits(l, lost) == IF "forgot" \in lost THEN {disk.limit, NoLimit} ELSE {SavedLimit(l)}

CheckLimit(file, lost) ==
  LET now   == InPeriod(PeriodStart)
      level == Level(PeriodBytes(totals', PeriodStart))
      l     == [now EXCEPT !.level = level]
  IN IF level > now.level
     THEN /\ limit' = l /\ told' = Append(told, l)
          /\ \E kept \in StateLimits(l, lost) : disk' = [file EXCEPT !.limit = kept]
     ELSE "forgot" \notin lost /\ limit' = now /\ disk' = file /\ UNCHANGED told

(***************************************************************************)
(* The program                                                             *)
(***************************************************************************)
Start ==
  /\ ~on
  /\ on' = TRUE /\ n' = 0 /\ limit' = disk.limit
  /\ Refresh(TRUE, LoadTotals(disk.totals), LoadRows(disk.rows),
             IF \E x \in ToSet(disk.totals) : x.day < Cutoff THEN {"aged"} ELSE {})
  /\ UNCHANGED <<world, disk, carried, due, told, spent>>

\* What a turn may lose is what it writes.
TickFiles ==
  (IF n' % SaveEvery = 0 THEN {"unsaved", "cut"} ELSE {}) \cup (IF n' % CheckEvery = 0 THEN {"forgot"} ELSE {})

\* One turn of tick_thread; the counter of turns is kept modulo both periods.
Tick ==
  /\ on
  /\ n' = (n + 1) % (CheckEvery * SaveEvery)
  /\ \E lost \in Losses(TickFiles) :
       /\ Refresh(FALSE, totals, rows, lost)
       /\ \E file \in IF n' % SaveEvery = 0 THEN UsageFiles(totals', rows', lost) ELSE {disk} :
            IF n' % CheckEvery = 0 THEN CheckLimit(file, lost)
            ELSE disk' = file /\ UNCHANGED <<limit, told>>
  /\ UNCHANGED <<world, on, carried, due, spent>>

\* engine_stop saves both files.  _StateOnly is a mutant that skips one.
Saved_StateOnly(lost) == {disk}
Saved(lost) == UsageFiles(totals, rows, lost)

Stop ==
  /\ on
  /\ \E lost \in Losses({"unsaved", "cut", "forgot"}) :
       /\ \E file \in Saved(lost), kept \in StateLimits(limit, lost) : disk' = [file EXCEPT !.limit = kept]
       /\ strange' = strange \cup lost
  /\ carried' = carried - Pending
  /\ ClearProgram /\ UNCHANGED <<world, due, told, spent>>

Crash ==
  /\ on /\ May("crash")
  /\ strange' = strange \cup {"crash"} /\ carried' = carried - Pending
  /\ ClearProgram /\ UNCHANGED <<world, disk, due, told, spent>>

Next ==
  \/ \E c \in Conns, a \in Apps : Open(c, a) \/ HandOver(c, a)
  \/ \E c \in Conns : Close(c) \/ Traffic(c)
  \/ CounterReset \/ NextDay \/ ClockBack
  \/ Start \/ Tick \/ Stop \/ Crash

Spec == Init /\ [][Next]_vars

(***************************************************************************)
(* Properties                                                              *)
(***************************************************************************)
Kept  == IF on THEN totals ELSE disk.totals
KeptApps == IF on THEN rows ELSE disk.rows
Excused(by) == strange \cap by # {}
Bytes(t) == BytesAt(t, DOMAIN t)

\* No octet is in two days: whatever fails, restarts or is set back, the rows of
\* the days hold no more than the interfaces carried while the program ran.
TotalsOnce == Bytes(Kept) <= carried

\* And none is left out: unless the connections could not be read, a counter or
\* the clock went back, the program died, a save failed or was cut, or the oldest
\* day had to go, the rows hold every octet between the first and the last reading
\* of each run.
TotalsComplete ==
  ~Excused({"failed", "reset", "clock", "crash", "unsaved", "cut", "full", "aged"}) =>
    Bytes(Kept) = carried - Pending

\* An application is charged no more than its sockets carried, with what they
\* had carried when it got them from another: over closed and reopened
\* connections, evicted flows, restarts and saves that fail.  A connection that a
\* full table hid, or that the first pass could not read, is charged again, and a
\* full disk may cut a name to another's.
AppsOnce ==
  ~Excused({"crowded", "failed", "blind", "cut"}) =>
    \A a \in Apps : BytesAt(KeptApps, {i \in DOMAIN KeptApps : KeptApps[i].app = a}) <= due[a]

\* The alerts of a period come once and in the order of their levels, over
\* crashes and restarts, unless the clock goes back into an earlier period or the
\* state file lost the level.
LimitOnce ==
  ~Excused({"clock", "forgot"}) =>
    \A i, j \in DOMAIN told : (i < j /\ told[i].period = told[j].period) => told[i].level < told[j].level

\* The tables hold no more than they have room for, and nothing is in them, or
\* told, twice.
Inv == TypeOK /\ TotalsOnce /\ LimitOnce

\* A start keeps the rows of the last KeepDays days of the calendar, over the
\* ends of months and leap days, and no older ones.
RecentKept ==
  [][ (~on /\ on' /\ ~Excused({"clock"})) =>
        \A i \in DOMAIN disk.totals :
          LET x == disk.totals[i]
          IN (x.day \in {Calendar[j] : j \in Max({1, day - KeepDays}) .. day}) <=>
             (\E k \in DOMAIN totals' : totals'[k].day = x.day /\ totals'[k].bytes >= x.bytes) ]_vars

\* After a turn that checks the limit the alerts are those of the rows: a period
\* at its limit has been told so, and nothing of the period before is left over.
LimitTold ==
  [][ (on /\ on' /\ n' # n /\ n' % CheckEvery = 0) =>
        /\ limit'.period = PeriodStart
        /\ limit'.level >= Level(PeriodBytes(totals', PeriodStart))
        /\ (limit'.level > 0 => \E i \in DOMAIN told' : told'[i] = limit') ]_vars

=============================================================================
