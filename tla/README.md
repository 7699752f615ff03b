# WireCee: formal model

A TLA+ model of WireCee, a per-program firewall with a DNS filter for Linux and
Windows. It covers the parts whose correctness depends on order: of lock
sections, of system calls, of replies, of filter lines and weights. Bytes, text
and pictures are left out.

Source paths below are relative to the repository. The C program is under
`src/core` (shared), `src/linux` and `src/windows`; `src/web` is its interface.

## 1. The system

### How it runs

One process. Its threads:

| Thread | Where | What it does |
|---|---|---|
| main | `linux/main.c`, `windows/host.c` | `engine_start`, waits, `engine_stop` |
| HTTP workers (8) | `core/api.c` | each runs one request: reads a snapshot or calls one `engine_*` function |
| tick | `core/engine.c` (`tick_thread`) | once a second: connections, usage, refused events, alerts |
| monitor | `core/engine.c` | devices and network changes |
| resolver | `core/dnsd.c` | the UDP loop of the DNS proxy; a short-lived thread for each TCP session |

The processes of the program find each other through the instance file: a start
gives way to an engine that answers, `stop` and `status` ask it, and whoever finds
the record stale removes it.

Two locks order the engine. `g_lock` is a read-write lock over the tables.
`g_enforce_lock` is a recursive mutex: it serialises the installers, it may be
held while `g_lock` is taken, and is taken again by `apply_enforcement` inside
`dns_apply`. The other modules have a mutex each (in `dnsd.c` over the upstream list and
the blocklist).

A change goes this way: a worker takes the write side of `g_lock`, changes the
settings, gives it back, saves the state file, and **then** calls
`dns_apply`, `apply_enforcement` and `cut_connections_of` as the change
requires. These take `g_enforce_lock`, read the tables again under `g_lock`,
and call the packet filter (`fw_apply`) and the resolver (`dnsd_start`,
`dns_redirect_enable`). What is stored and what is in force therefore differ for
a while, and two changes are stored and installed in orders that are not the
same. Most hazards of this program are there.

What outlives the process: the kernel's filter table (Linux; on Windows the
session is dynamic and its filters go with it), `/etc/resolv.conf` with its two
backup files or the DNS settings of the Windows adapters, `state.tsv`,
`usage.tsv`, the blocklist, and the instance file.

### Components

| Component | State | Operations | Talks to | Status |
|---|---|---|---|---|
| Enforcement core (`engine.c`) | settings, posture, policy and pin of each program, rules, what is in force | the `engine_set_*` and rule handlers, `dns_apply`, `apply_enforcement`, `cut_connections_of`, `drain_drops`, discovery, `engine_start`, `engine_stop` | packet filter, resolver, redirect | modelled |
| Engine bookkeeping (`engine.c`) | usage, data limit, rules, decisions, devices, start entry, alerts, snapshots, the two files | `load_state`, `save_state`, `refresh_from_system`, `account_usage`, `check_data_limit`, `scan_devices`, `drain_drops`, `monitor_thread` | flow sources, connection tables, packet filter, API | partly |
| DNS resolver (`dnsd.c`) | slots of waiting queries, upstream list, blocklist and its index | query, reply, retry, expiry, start, stop; add, remove, import, save, load | clients, upstream servers, host names | partly |
| Host names and DNS log (`hostmap.c`) | table address to name, ring of entries | note, look up, read log | resolver, engine | not modelled |
| Packet filter, Linux (`fw_nft.c`) | table `inet wirecee`, control groups, counters | `fw_start`, `fw_apply`, `fw_tick`, `fw_take_drops`, `fw_stop` | kernel | modelled |
| Packet filter, Windows (`fw_wfp.c`) | dynamic session, filter ids, ring of 512 events | the same | kernel | partly |
| System DNS redirect (`platform_linux.c`, `platform_win.c`) | resolver configuration and its backup | enable, disable, recover | system | modelled |
| Flow sources (`flows_etw.c`, `flows_conntrack.c`) | table of flows | start, take, stop | bookkeeping | partly |
| Connection enumeration (`netenum_*.c`) | none | list | engine | not modelled |
| HTTP API (`api.c`) | worker pool | routing, JSON, start, stop | engine | partly |
| Command line and instance record (`cli.c`, `main.c`) | instance file | start, status, stop | API | partly |
| Platform layer (`platform.h`, `platform_*.c`) | locks, paths, processes | | all | partly |
| Desktop host (`host.c`, `shell.c`) | service, tray, window | start, service, quit | API | partly |
| Web interface (`src/web`) | a copy of the snapshots | | API | not modelled |

### Behaviours that are hard, and what makes each part correct

- **Enforcement core.** Handlers, tick thread, start and shutdown interleave
  between two locks; `fw_apply` may fail after the settings were stored. Correct
  when: what the user decided is in force once nobody owes an installation and
  the last one succeeded; the system resolver points at the proxy only while the
  proxy answers; the DNS filter rests as its setting says; after `engine_stop`
  nothing of WireCee is left; a posture reaches the kernel; every call returns
  through the recursive mutex.
- **DNS resolver.** UDP replies that are lost, late or double; retries under one
  id; slots that are reused; a server list that changes; stop and start with
  queries in the slots. Correct when: a client gets at most one datagram for a
  query, and the answer to its own question; a query fails only after every
  server was asked; every query ends.
- **Blocklist.** An index with deletion by moving, growth, several handlers that
  save the file without a lock, crashes. Correct when: a listed name and the
  names below it are refused, nothing else is; no name is listed twice; every
  probe ends; the file holds the list or the one before the change.
- **Packet filters.** One policy, written twice: as the order of nftables lines
  and as weights of Windows filters. Correct when: both decide alike; a blocked
  program and the DNS guard cannot be overridden by a rule; an edit that
  forbids opens nothing. On Linux a program is its
  control group, which a scan of `/proc` once a second sets, in two threads, while
  processes fork, exec and end. Correct when: each process ends up in the group
  of its program, and one that is blocked keeps no connection it had.
- **Reports of refused packets.** Linux has counters that restart with each table
  and are listed by a program of their own; Windows has events that come late,
  with a number to look up in a table that changes after the filters do.
  Correct when: a packet is charged to the rule that refused it, and once.
- **System DNS redirect.** Several system calls, each may fail, and the process
  may die between them while the kernel keeps the guard. Correct when: the
  user's file is never lost, is back after the next start and after a stop, and
  names resolve whenever the engine rests. On Windows the same of the servers of
  each adapter and address family, with adapters that come and go.
- **Bookkeeping.** Counters that belong to the system and restart, tables that
  are full, days that roll over, readings that fail. Correct when: an octet is
  in one row, a program is charged no more than its sockets carried, the data
  limit alerts once per level and period, over crashes as well.
- **State file.** Written whole by every change, read over the built in rules.
  Correct when: a stop at any moment leaves the tables before or after a change,
  and what the user decided comes back.
- **Instances.** A record without a lock, process numbers and ports that are
  used again. Correct when: one engine runs, the record names it, and a quit
  that was answered ends it.

Every place where one of these can go wrong is listed, with its line, under
`hazards` in `PROJECT.json`, with the properties that look after it or the
reason why none does.

## 2. The modules

| Module | Models | State |
|---|---|---|
| `Enforcement` | `engine.c`: handlers, installers, start, stop | configuration, owed calls, mutex, kernel policy, resolver |
| `PolicyInstaller` | abstract: a serial installer | wanted, in force, owed |
| `DnsProxy` | `dnsd.c`: the UDP loop | slots, transmissions in flight |
| `DnsRedirect` | `platform_linux.c`, and the calls around it | three files, kernel guard |
| `PacketPolicy` | `fw.h`: what a filter is given, what it sees | none (operators) |
| `NftChains` | `fw_nft.c`: the chains of `fw_apply` | none (operators) |
| `WfpFilters` | `fw_wfp.c`: the filters of `fw_apply` | none (operators) |
| `PacketFilter` | both builds under the edits of the user | policy, packets each build lets through |
| `Blocklist` | `dnsd.c`: list, index, file | list, index, inodes, handlers |
| `WinDnsRedirect` | `platform_win.c`, and the calls around it | adapters, table, backup file |
| `NftRuntime` | `fw_nft.c`: `fw_tick`, control groups, cut connections | processes, sockets, groups, two threads |
| `NftCounters` | `fw_nft.c`: counters and reports | table, listings, what was read, queue |
| `WfpEvents` | `fw_wfp.c`: events and reports | filters, known filters, events, ring |
| `DropReports` | `engine.c`: `drain_drops`, over either of the two | hits, blocked, log lines |
| `Usage` | `engine.c`: accounting, data limit, `usage.tsv` | sockets, flows, rows, disk |
| `StateFile` | `engine.c`: tables, `save_state`, `load_state`, start entry | tables, two files, handlers |
| `Instances` | `cli.c`, `main.c`, `host.c`: processes and their record | processes, ports, record |
| `*_proofs` | theorems; `PacketFilter_proofs` has those of `NftRuntime` too, `DnsProxy_proofs` those of `WinDnsRedirect`, and `Enforcement_proofs` those of `Instances` | |
| `MC*` | small instances for TLC | |

Two specifications whose theorems share a module have different names, so that
one of them has an `AdaptersSpec`, a `RuntimeSpec` or an `EnginesSpec`.
Definitions keep the names of the source where they can; `map` in `PROJECT.json`
gives the lines each one stands for.

### Enforcement

A thread is at a step (`pc`) of one call and owes others (`todo[t]`). An action
is one critical section or one call to another component, never more:

- the write sections of the handlers (`engine_set_posture`,
  `engine_settings_patch`, `engine_set_policy`, `engine_rule_create`, `_patch` and
  `_delete`): change
  `cfg` and put into `todo` the calls the code makes afterwards, on the path it
  takes (`posture` owes `dnsd_set_enforce` and `apply_enforcement`, a DNS field
  owes `dns_apply`, and so on);
- `apply_enforcement`: take the mutex, take the snapshot under the read side of
  `g_lock`, call `fw_apply` (which may fail and then leaves what was in force),
  give the mutex back to the depth it had;
- `dns_apply`: take the mutex, read the wish, start the proxy and redirect, or
  restore and stop, in the order of the code, with every failure it has; then
  `apply_enforcement` inside it;
- the tick thread: a program seen in the connection table, a refused event
  drained from the filter;
- `engine_start` and `engine_stop`: the order of their calls; `engine_stop`
  takes no mutex, after `api_stop` has joined the workers.

The abstract specification is `PolicyInstaller`. It has one installer that takes a whole
policy and either puts it in force or keeps the old one, and it remembers who
still owes an installation. `Enforcement` implements it under the mapping in
`Installer == INSTANCE PolicyInstaller WITH ...`: the snapshot is the moment of
commitment, everything about the two locks and the DNS filter is a stutter.

### DnsProxy

The loop thread takes one event at a time: a query (a slot is found from the
cursor on, or the query is refused), a reply (the slot is the low bits of the
id, the rest of the id must match), or the look at all slots (a slot that is
late is sent again to the next server, one past its deadline or its tries is
failed and given back). `dnsd_set_upstreams`, `dnsd_stop` and `dnsd_start` come
between any two. What was sent stays on the network for good, so that a reply
may come late, twice, or for a slot that holds another query.

### DnsRedirect

Each system call of `backup_resolv`, `dns_redirect_enable` and `restore_resolv`
is one action, and so is each call of `engine_start`, `dns_apply` and
`engine_stop` around them that changes what names resolve through. `Crash` is
possible at every step; `Launch` starts again with what the files and the kernel
kept. A file is what it holds: the user's link or file, the rewritten one, or one
that was opened and not written yet.

### PacketPolicy, NftChains, WfpFilters, PacketFilter

`NftChains` gives, for a policy and a packet, the verdicts of the lines that
match, in order; the first decides. `WfpFilters` gives the weights and actions of
the filters that match; one of the greatest weight decides, and the platform does
not say which, so a tie of two actions is ambiguous. `PacketFilter` runs both
under the edits of the user: rules are made, deleted and switched, programs are
blocked and allowed, defaults, posture, guard and encrypted DNS change. Each edit
is installed at once, since the races are the matter of `Enforcement`.

Each build has its own list of the public resolvers that serve encrypted DNS
(`DOH_V4` and `DOH_V6` at `fw_nft.c:12` and `fw_wfp.c:27`), so there are two
constants, `NftResolvers` and `WfpResolvers`, any two sets of addresses.

The builds differ, by design or by platform, on packets that `SameDecision`
names one by one: ICMP, DHCPv6 and client DHCP ports, inbound packets of allowed
programs, DNS of programs that run as root on Linux while the guard is on,
connections that exist already, which Windows filters do not look at, and, with
encrypted DNS blocked, HTTPS to a resolver that only one build lists. On
everything else they must agree. `GuardHolds` is stated of each build for its own
list.

### Blocklist

A change of the list is one step (it is under a mutex); the save is not, and is
modelled system call by system call with inodes, because two handlers open,
truncate, write and rename the same temporary file. `Crash` may come between any
two steps and `Load` reads what is there. The results of writing are not looked
at: a full disk takes the first lines of the list (`SaveCut`), and these replace
the file. The index is modelled with its hash,
its probes, its deletions and its growth.

### WinDnsRedirect

`plat_dns_redirect_begin` goes through the adapters: it reads the settings of
each (an adapter without servers of its own has none), puts them in the table
`g_backup`, empties and writes the file, and sets the servers of either family.
`_end` goes through the table, `_recover` at the start through the file. A step
is one of these calls; an adapter may be away at any of them, so that its
settings are refused or read as none. `spoiled` holds the adapters this has
happened to and those of a crash while the file was empty: the code keeps no
record of them, and the properties are about the others.

### NftRuntime

Outside are processes with a program, a group and sockets; they fork, exec, end
and reuse numbers at any step. `fw_tick` and `fw_apply` go through the numbers
one by one: read the program, read the group, move, then look at the sockets of
those that were moved, list the system's connections and kill the ones that
match. The mutex is held for the scan and not for the cutting, as in the code.
The tick scans on every other turn. The code looks at no result, so every call may
fail without notice: `/proc` is not opened, a group does not take the process,
descriptors are not read, `ss` does not start or does not reset a connection. A
move that was refused is tried again by the next scan; a reset is not, since the
process is in the group by then. The tables of processes and of sockets have the
limits of the code, and what is beyond them keeps its connections. `spared` holds
the sockets of all of these.

### NftCounters, WfpEvents, DropReports

`NftCounters` has the counters of the table in the kernel, the listing a thread
has made and the counts read last; `fw_apply` replaces the table, forgets the
counts and reads, while the tick may read too, line by line under the mutex. Each
line of the table has a counter, but one count is stored for a tag: a rule with
addresses of both families has two lines, encrypted DNS three. Each of them is
compared with the one before it in the listing, as in `read_counters`, so that
their packets are reported again at every reading. `WfpEvents` has filters that are
committed, a table of them that is published afterwards, and events between the
refusal and the callback. Both write a queue of reports (by adding to the report
that waits, or by overwriting the oldest), which `Drain` takes: hits of the
rule, the number of blocked packets, and a log line per name, held back for
queries past the proxy. `DropReports` is the composition: it instantiates both
and takes one of them, by `platform`.

### Usage

Outside are sockets with an owner and the bytes they have carried, the octets of
the interfaces, the calendar, and whatever goes wrong. `Tick` is one turn of
`tick_thread`: `refresh_from_system` (octets first, then the connections and
flows, then the programs and their retired and live bytes, then the rows),
`check_data_limit` and the saves, each on the turns the code does it. `Start`
loads the files and does a first pass that charges nobody, `Stop` saves, `Crash`
does not. A save may fail without notice (`unsaved`: the file of before stays),
or be cut by a full disk (`cut`: a part of the rows replaces the file, the last
of them cut within its number or its name), and so may that of the limit
(`forgot`). The settings of the limit are fixed: what `engine_settings_patch`
resets when they change is not modelled. Dates are the decimal keys of the code, computed by its algorithm.

### StateFile

The requests of the interface and `scan_devices` change the tables and call
`save_state`, in one hold of the write lock; the save is open, write and replace.
A line is a sequence of fields, and the reader drops empty fields, as
`strtok` does. The entry that starts the program with the system is set, looked
up and shown after the lock is given back, step by step.

### Instances

A process is at a step of what it was launched for. A start reads the record,
asks the engine it names, clears a stale record, picks a port, starts and
serves, writes the record; stops by closing the port, then everything else, then
removing the record. `status` and `stop` read and ask. The builds differ where
the code does: the service on Windows does not look for an engine, a dead process
that somebody still holds is not noticed, and a quit reaches a window that is
not there at once.

### How they fit

`Enforcement` takes a redirect, an installation and a reply of the resolver for
one step each and proves the order in which they are called. `DnsRedirect`,
`WinDnsRedirect`, `PacketFilter`, `NftRuntime` and `DnsProxy` open those steps.
What each assumes of the others
is what the others check: both redirects have the order `dns_apply` has
in `Enforcement`; `PacketFilter` is given any policy `apply_enforcement` can
hand over. `DropReports` begins where `PacketFilter` ends, with a packet that a
rule matched, and discovery by such a packet is in `Enforcement`. `StateFile`
opens the save that `Enforcement` has inside its write sections, and the limit
line of `Usage` is one of its lines.

## 3. The runs

| Run | Asks | Properties |
|---|---|---|
| `enforcement` | two handlers, tick thread, start, stop at every step | `DecisionsEnforced`: with nothing owed and the last installation a success, the kernel holds every decision. `RedirectServed`: the redirect is on only while the proxy answers. `DnsSettled`: at rest the filter runs only if its setting says so, and the guard only with the proxy. `StoppedClean`: nothing left after shutdown. `ImplementsInstaller`: refinement. `PostureReaches`: a posture is enforced, replaced, or its installation failed. `CallsReturn`: no call hangs on the mutex. |
| `dns_proxy` | late, double, lost replies, reuse of slots, stop and start, new servers, silent servers and none | `AnswersMatch`: only a repeated id can bring another's answer. `AnsweredOnce`. `FailsLate`: no failure before every server was asked, or the deadline passed. `QueryEnds` |
| `dns_redirect` | crash between any two system calls, failing calls | `Recoverable`: the user's file is in place or in a backup the next start reads. `Restored`: a start or stop puts it back. `NamesResolve`: at rest and after a stop, if the filter could be installed |
| `packet_filter` | every policy the edits reach, packets of every kind | `SameDecision`, `WfpUnambiguous`, `BlockedStaysBlocked`, `GuardHolds`, and `Tightens`: an edit that forbids opens nothing |
| `blocklist` | two handlers, failing calls, a full disk, crashes | `Inv`: `RoomInIndex` (a probe ends) and `ListedOnce`. `BlocksListed`: the index finds what is listed and nothing else. `FileWhole`: the file holds the list before or after the changes, unless two saves overlapped or the last one failed or met a full disk |
| `win_dns_redirect` | two adapters, refused settings, a crash anywhere | `Recoverable`, `Restored` as above, of each adapter |
| `nft_runtime` | two threads, processes that do what they like, calls that fail | `Inv`: `ConnectionsCut` (a blocked process keeps no connection from before, but those the code gives up). `GroupsSettle`: every process ends up in the group of its program |
| `drop_reports` | tables replaced between a packet and its report, full queues | `Inv`: `HitsMatched` (no packet of a rule of one line is charged twice, and none to another rule) and `Told` (every blocked packet is in the log, or held for its line). `Accounted`: a packet is counted, or waits, or was lost where the code loses it |
| `usage` | sockets closed, reopened, handed over; full tables, failed readings and saves, days, crashes | `Inv`: `TotalsOnce` (octets are in one row) and `LimitOnce` (an alert comes once). `TotalsComplete`: no octet is left out. `AppsOnce`: nobody is charged more than its sockets carried. `LimitTold`: each alert comes. `RecentKept`: a start keeps exactly the last days |
| `state_file` | changes, saves that fail or are cut short, crashes | `Durable`: between two requests the file says what the tables say. `OldOrNew`: a stop in a write leaves one or the other. `DecisionsKept`: rules and decisions come back in their order. `EntryShown`: the interface shows the entry that is set. `Inv`: `ToldOnce` (a device is announced once, over restarts) |
| `instances` | starts, service, status, stop, crashes, reused numbers and ports | `Inv`: `OneEngine` (one engine runs) and `RecordTrue` (it is the one in the record, which only a crash leaves behind). `QuitEnds`: an engine that answered a quit ends |

`Inv` of a module also holds its type invariant. Of the
other modules `TypeOK` and the inductive `IInv` are theorems; TLC found both to
hold on the instances above before they were proved.

A property that excuses something says so in its comment, and names it by a
variable of the module (`ioFailed`, `clash`, `lost`, `spoiled`, `overlap`, `handed`,
`spared`, `crossed`, `strange`, `torn`, `odd`). Each stands for something the code does not handle;
without the excuse the run finds it. They are listed in section 5.

One run is expected to find a violation. It states something the
repository says of the program, and shows that the code does not do it:

| Run | The repository says | The run shows |
|---|---|---|
| `posture_race` (`EnforceFollowsPosture`) | the posture decides whether names are refused | `engine_set_posture` calls `dnsd_set_enforce` after its lock is given back: two postures may be stored in one order and written to the proxy in the other. In the trace the proxy answers the queries of the system, with the wrong flag, and no call is left that would correct it; the next `dns_apply` does |

### Bounds, and why they are enough

- `enforcement`: two handlers, one program, one rule, two state-changing
  requests; a first start, or one with a saved decision. Every race of this code
  is between two calls (write sections and installations in different orders),
  and the tick thread and shutdown come on top of the two. One program can be
  decided, met and discovered; the proofs are for any number of programs. No
  symmetry, since liveness is checked.
- `dns_proxy`: three queries on two slots (a slot is reused and the table is
  full), two values of the random part of an id (a repeated id and a different
  one), lists of none and of two servers, one stop and start, one change of
  servers. `RETRY` is 0 and `GIVE_UP` 2 steps of time (800 ms and 4 s in the
  code): time enough for a try at either server and for the deadline. The
  constraint `InTurn` names the queries in the order in which they are asked: they
  are interchangeable, nobody is obliged to ask, and it cuts off nothing else.
- `dns_redirect`: two crashes (the second while the first is being repaired) and
  three starts. The proof is for any number.
- `packet_filter`: one program besides WireCee, three addresses (a resolver both
  builds list, one that only Windows lists, as 1.1.1.3, and an address that is
  neither), a menu of three rules and at most two of them (order matters
  between two), and packets of every direction, protocol and distinguished port.
- `blocklist`: a domain, a domain below it and a top-level one, with the texts
  that lead to them and one that leads nowhere; the hash makes all of them
  collide or wrap; the smallest size of the index is 2 instead of 1024, so that
  it grows. Four changes, with any number of crashes, failing calls and full disks.
- `win_dns_redirect`: two adapters, each with either kind of settings in either
  family, and three starts: a crash, a crash while that is repaired, and a start
  that repairs both. Failures without bound. Adapters are interchangeable. The
  proof is for any number of each.
- `nft_runtime`: two processes (a parent and a child, or two programs), two
  programs, two sockets, two changes of processes, one change of the policy next
  to the tick. Two changes suffice for a number to be reused, or a socket handed
  to a child that then runs another program. One call fails; a pass has room for one
  process and one socket (512 and 4096 in the code), so that the second of either
  is beyond it. The first process has one connection or two at the start; the
  others are opened. The theorems are for any of these.
- `drop_reports`: a rule that allows, of one line, and one that guards, of two;
  two packets of each, queues of two, a log that tells one name apart: every table
  is full once. Two tables, so that a listing of the first meets the second; the tick
  reads twice, and the handler after each change, so that packets are reported again.
- `usage`: a TCP connection and a UDP flow, each opened by a program of its own,
  which may hand it to the other; room for one flow and two days; two days over a
  leap day, with rows kept for none; packets of 9 with a limit of 10, so that the
  first warns and the second reaches it; one thing goes wrong besides (a failed or
  partial reading, a reset counter, a clock set back, a failed or cut save, a
  crash). Two faults, or two sockets of a kind, have too many states.
- `state_file`: one built in rule and room for another, one program, two devices
  of which both or one fit, two changes, one failing call, any number of crashes.
  A change and what it finds of the one before is what the file is about. The
  handlers are interchangeable.
- `instances`: two processes at a time, four launches, two faults, two ports of
  which one is the service's, both builds.

`CHECK_DEADLOCK FALSE` is used in `drop_reports`, `usage`, `state_file` and
`instances`, where the bounds leave nothing to do. Elsewhere
the specification says so with an action of its own.

### Fairness

- `Enforcement`: weak fairness of each thread's steps, and of the steps of
  start-up and shutdown once begun. The scheduler of the system runs a thread
  that can run, and no step can be disabled and enabled again for ever within the
  bounded number of requests. Nobody is obliged to send a request or to stop the
  engine.
- `DnsProxy`: weak fairness of the loop, strong fairness of the passing of time:
  `select` waits 250 ms at most, so time goes on between two turns of the loop.
  No client has to ask and no server has to answer.
- `NftRuntime`: weak fairness of the steps of both threads, which the scheduler
  runs; nothing of the processes or of the policy.
- `Instances`: weak fairness of every process that is under way. Nobody has to
  begin one, to ask an engine to quit, or to give back a port.
- The other modules state safety only.

## 4. What is proved

TLC checks the instances above. The theorems hold for every value of the
constants, under the named assumptions in the modules (threads are
distinct, no process or program is the value that stands for none, bounds are
natural numbers, configurations have their type).

| Theorem | Module | Says |
|---|---|---|
| `TypeCorrect`, `IInvCorrect` | `Enforcement_proofs` | types, and the inductive invariant |
| `RedirectIsServed`, `StopIsClean` | `Enforcement_proofs` | `[]RedirectServed`, `[]StoppedClean` |
| `AgreementHolds` | `Enforcement_proofs` | the abstract installer agrees with what is wanted once nothing is owed |
| `Refinement` | `Enforcement_proofs` | `Spec => Installer!Spec` |
| `DecisionsAreEnforced`, `DnsIsSettled` | `Enforcement_proofs` | both follow from the refinement and the invariant |
| `TypeCorrect`, `IInvCorrect`, `OneAnswer`, `OwnAnswer`, `FailsLateCorrect` | `DnsProxy_proofs` | slots, `AnsweredOnce`, `AnswersMatch`, `FailsLate`: any slots, servers and lists of them |
| `TypeCorrect`, `IInvCorrect`, `NothingLost`, `RestoredCorrect`, `NamesResolveCorrect` | `DnsRedirect_proofs` | any number of crashes and starts |
| `AdaptersTypeCorrect`, `AdaptersInvCorrect`, `AdaptersNothingLost`, `AdaptersRestoredCorrect`, `InUseCorrect` | `DnsProxy_proofs` | `WinDnsRedirect`: any number of adapters, crashes and starts |
| `TypeCorrect`, `BlockedCorrect`, `GuardCorrect`, `UnambiguousCorrect` | `PacketFilter_proofs` | any rules, programs, addresses |
| `SameDecisionCorrect`, `TightensCorrect` | `PacketFilter_proofs` | the two builds decide alike but for the differences named, for any two lists of resolvers; an edit that forbids opens nothing |
| `RuntimeTypeCorrect`, `ConnectionsCutCorrect` | `PacketFilter_proofs` | `NftRuntime`: any processes, programs, sockets, policies, failures and sizes of the tables |
| `IInvCorrect`, `InvCorrect`, `BlocksListedCorrect`, `FileWholeCorrect` | `Blocklist_proofs` | any names, hashes, sizes, files, handlers and full disks |
| `AccountedCorrect`, `InvCorrect` | `DropReports_proofs` | any rules with any lines, rooms of the queues, numbers of packets and readings, both systems |
| `InvCorrect`, `DurableCorrect`, `OldOrNewCorrect`, `EntryShownCorrect`, `DecisionsKeptCorrect` | `StateFile_proofs` | any tables, names, handlers, faults, crashes and starts |
| `Inductive`, `InvCorrect`, `TotalsCompleteCorrect`, `AppsOnceCorrect`, `LimitToldCorrect` | `Usage_proofs` | any sockets, programs, dates, sizes of tables, traffic and failures |
| `DatesBack`, `RecentKeptCorrect` | `Usage_proofs` | a date that was counted in days is found again, for every date; any calendar and number of days to keep |
| `RecordAgrees`, `OneEngineCorrect` | `Enforcement_proofs` | `EnginesInv` and `Inv` of `Instances`: any numbers of processes, ports, launches, crashes |

The arguments:

- **Enforcement.** None of the properties is inductive: they hold because of
  where every thread is. `IInv` is the conjunction of `MutexDiscipline` (who is
  inside `apply_enforcement` or `dns_apply` holds the mutex, at the depth of its
  place), `PhaseDiscipline` (no handler is busy before the workers start or after
  they were joined), `FilterDiscipline` (a snapshot that differs from the
  configuration is owed by somebody), `DnsDiscipline` (what runs and what is
  redirected, at each step of `dns_apply`), `DnsIntent` (a DNS setting that
  differs from what runs is owed by somebody) and `PinDiscipline`. The proof has
  a step per action. `Refinement` uses it at each step; `DecisionsEnforced` then
  comes from `AgreementHolds` of the abstract specification.
- **DnsProxy.** `OneSlotEach` and `Reckoning` say where each query is (not
  asked, in one slot, ended with its datagram), `OwnTransmissions` and
  `NoneLeft` that what is on the network under the id of a slot is its query's
  or carries a repeated id, `Ages` that times stay in range. `FailsLate` needs
  `TurnsTaken` besides: each try of a slot was the turn of one server of the
  present list, unless its query waited while the list changed, and the number of
  tries that `expire_slots` reads once covers that list.
- **DnsRedirect.** `FilesAgree` says which combinations of the three files can
  be met at each step, `BackupProgress` and `EngineProgress` what was done
  before it. The type invariant is inductive only together with these, since
  what `restore_resolv` writes is what it found in the backup.
- **WinDnsRedirect.** `LinesTrue` says that whatever the file or the table says
  of an adapter is what the user had, `ChangedListed` that an adapter that is
  changed is in both, but while the file is rewritten, `Places` where the loop
  is, `Progress` what it has done of the adapters behind it and not yet of those
  ahead, and `Redirected` what is left when it is off. `Recoverable` is
  `ChangedListed` and `LinesTrue`; `Restored` needs `Redirected`, and that
  needs `Progress` at the end of a loop.
- **PacketFilter.** What is in force is computed from the policy (`Installed`).
  In the chains the lines before the rules decide; among the weights, all that
  forbid a blocked program or a query past the proxy are above `W_RULE`, and the
  weights of rules are different as long as there are fewer than `MaxRules`.
  `SameDecision` compares the two builds chain by chain: both decide by the same
  list of reasons (posture, essential service, guard, program, rules, default),
  and the first rule of a sequence that matches is the one of the greatest
  weight. `Tightens` goes through the edits that forbid: each of the reasons can
  only turn from a yes into a no.
- **NftRuntime.** The connections are reset some time after the process was
  moved, so `ConnectionsCut` holds only between. `Pursued` holds always: of each
  connection that escapes, a thread has the process among the moved ones, and
  once it has looked, the connection among those it found. `TableFilled` says
  that the shared table still names what a thread has found, unless two threads
  use it at once. A connection that is spared is in neither: a thread that gives a
  socket up, since a call failed or a table is full, puts it there in the same
  step. The theorem is for policies of programs that are either blocked or allowed
  (`NftAssumption`), and any sizes of the tables.
- **DropReports.** On Linux `LinuxAccount` counts a packet of a rule of one line as
  reported, as not read yet or as missed with its table, `ListingsPast` says that
  what was listed of a table is no more than it counts, and `OnlyMatched` that a
  rule whose lines matched nothing has nothing in any of them. On Windows `WindowsInv` says
  which of the two policies the callback may know and that an event whose number
  it knows is named by the rule that refused it. Reports are summed by a function
  on their length, which the lemmas on `Tallies` say exists, is one, and grows
  with an append or shrinks with a drain.
- **Blocklist.** Of the index: `Reached` says that no slot is empty between the
  one a name hashes to and the one it is in, that every name of the list is in
  one slot, and that the index is less than half full, which the growth keeps; so
  a probe meets the name or an empty slot. A removal fills the index again. Of
  the file: `IInv` says that, until two saves overlap, one handler at a time has a
  file open and it is the one of the temporary name (`Alone`), that what is in it
  is, unless the disk was full, the list as it was when its call locked it (`Written`), and that such a list
  is one there was since the last call ended (`Kept`). There is an inode left for
  each save because handlers are finite and so is what they hold open.
- **StateFile.** `IInv` says who holds the lock and where (`Held`), what the two
  files have of the tables at each step of a save (`Written`), that without a
  process there are no tables and nothing asked (`Stopped`), who has the start
  entry (`Entry`) and that every device announced is in the tables or in the file
  (`Announced`). `Written` compares what the files are read as, not the tables: a
  decision that is written and read is another record, with its pin. It is kept
  over a restart because reading and writing again changes nothing
  (`ReadsAgain`): the lines of the applications, rules and devices each give
  back what they are made from (`AppsRead`, `RulesRead`, `DevicesRead`), and what
  is read has no empty field. `StateAssumption` says what that needs: only what
  users type into a rule can be empty, the rules of `seed` fit into the table,
  there is room for a device, and "no file" is not a file. `DecisionsKept` is a
  consequence of the types alone, line by line: what is read of the rules is the
  built in ones and after them as much of the user's as there is room for
  (`Follows`), and a switch stays as its line set it through all the lines of
  other names that follow (`Switched`).
- **Usage.** `OctetsOnce` says that the rows of the program, and those of the file,
  which a crash would leave, hold no more than the interfaces carried up to the
  last reading (`carried - Pending`): a turn takes what is pending and adds no more
  than that (`TurnedOnce`), a full table only loses. `OctetsAll` says that they hold
  exactly that unless something `TotalsComplete` names went wrong, and what a cut
  save leaves is still no more than was written (`UsageFiles`). It needs
  `DaysOrdered`: while the clock goes forward the rows of the program and of the
  file are in the order of their days up to today. Such a table is searched and
  extended without loss (`LedgerOrder`), and of the file the rows that are not
  older than the cutoff are read back, in their order, and no others
  (`LoadTotalsRecent`). `RecentKept` follows once it is known which days the cutoff
  spares, and that is arithmetic: every number of days has a `Spot`, an era of 400
  years, a year of it that begins in March, a month and a day (`SpotOfDay`),
  `civil_key` finds it (`CivilOfSpot`, with `YearOfEra` for the division that corrects
  for leap years), a date has the spot that `key_days` counts to (`SpotOfDate`), and
  of two spots the later has the greater key (`SpotsApart`). So `civil_key` gives back
  the date that was counted (`DatesBack`), the next day of the calendar counts one
  more (`DayAfterIs`), and a day is before the cutoff if and only if it is more than
  `KeepDays` days back (`CutoffIs`). `LimitsKnown` puts the alerts, the limit of the file and the
  limit of the program in one order of periods and levels; a later day is in no
  earlier period (`PeriodLater`). `AppsOnce` is about the rows that are kept; what
  makes it inductive is what the next pass will add to them. `Owes` is what it may
  charge a program for a socket, `Debt` the sum over the sockets, and `AppsOwed`
  says that rows and debt together are no more than the due, and the saved rows,
  whose sockets a crash forgets, no more than that alone. A socket that carries, or
  passes to another program, grows the debt by no more than the due
  (`OwesOutside`). A pass turns debt into rows: a program is charged no more than its
  connections gained (`GainIs`), and each of them owes that much less
  (`RefreshPays`). That needs `AppsCounted`: the count of a program is that of its
  connections in the table, with what the closed ones left, and who has none found
  the table full. `UsageAssumption` says that the days are
  in their order and that the sizes of the tables are not zero; `CalendarAssumption`,
  which only `RecentKept` needs, that they are dates of the civil calendar and that
  each follows the one before, as days do.
- **Instances.** `OneEngine` holds because a start that meets an engine learns of
  it in time. `StartsAlone` says that without a race a start meets nobody but
  engines that serve or begin to stop; `ServingKnown` that such an engine is the
  one in the record, that whoever calls has its port, and that nobody is about
  to remove the record or to pick a port; `PortsMatch` that a call to that port
  is answered. `RecordOwned` holds with races too. The last three of `EnginesInv` are
  under `Even`, which is never true again once it is false.

Only model-checked:

- `PostureReaches`, `CallsReturn`, `QueryEnds`, `GroupsSettle`, `QuitEnds`:
  liveness under fairness is out of the prover's reach.

Where a definition is by recursion (`Sizes`, the filling of the index, the sums of
reports, of rows and of connections, the reading of `state.tsv`) the induction
theorems of the library cannot be cited, since they take an operator. The proofs
go by the least counterexample instead: the set of numbers at which the claim
fails has a least member (`NatLeast`, `FirstFailure`), and the one before it gives
the contradiction.

## 5. What is not modelled, and what is excused

Not modelled:

- **Bytes and text**: packet parsing, JSON, HTTP, nft's grammar, formats of files.
  Where a text can be refused it is an installation that fails.
- **TCP sessions of the proxy**: each has a thread and no state in the slots.
- **Web interface, icons, menus, balloons**: clients of the API. They keep a
  copy of what the engine returns.
- **Connection tables**: stateless reading of system tables. They
  appear as the free choice of which program and which socket is seen.
- **Decoding of the kernel trace and of conntrack**: `Usage` begins with the
  table of flows.
- **Host names and the DNS log**: a table for display; a lost entry shows an
  address instead of a name.
- **The ring of the log, notices, snapshots**: for display.
- **A tick thread that outlives the shutdown.** `engine_stop` waits for it for a
  bounded time. `Enforcement` lets the shutdown go on without it; what
  it would write into the two files afterwards is not in `Usage` or `StateFile`.

Excused, because the code does not handle it (the model does it, and the property
is stated for the other behaviours):

| Where | What happens | Excused by |
|---|---|---|
| `platform_linux.c`, `restore_resolv` | the backup is deleted although the copy or link failed | `ioFailed` |
| `fw_nft.c`, the DNS guard | the kernel keeps it when the process dies, so that the fallback servers in `resolv.conf` are refused until the next start | `crashed` |
| `platform_win.c`, `save_backup` | the file is emptied before it is written: a crash then loses the adapters changed before | `spoiled`, `at = "write"` |
| `platform_win.c`, settings of an adapter that is away | they read as none, or are refused and not tried again | `spoiled` |
| `fw_nft.c`, `fw_wfp.c`: `DOH_V4`, `DOH_V6` | Windows lists twelve resolvers that Linux does not: 1.1.1.3, 1.0.0.3, 9.9.9.10, 149.112.112.10, 9.9.9.11, 149.112.112.11, 76.76.2.0, 76.76.10.0 and four of IPv6. With encrypted DNS blocked, HTTPS to them passes on Linux and is refused on Windows | `ListedOnce` |
| `dnsd.c`, `dnsd_block_save` | two handlers write one temporary file | `clash`, `lost` |
| `dnsd.c:286`, `dnsd_block_save` | the results of writing are not looked at: a full disk replaces the file by a part of the list | `lost` |
| `fw_nft.c`, `cut_sockets` | two threads share one static table, without a lock | `overlap` |
| `fw_nft.c`, `sync_processes` | a child that got a socket after its parent was moved keeps it | `handed` |
| `fw_nft.c:348`, `:361`, `cut_sockets` | `ss` does not start, or does not reset a connection: the process is in the blocked group already and is not looked at again | `spared` |
| `fw_nft.c:335`, `:399` | what is beyond 512 processes or 4096 sockets of one pass keeps its connections | `spared` |
| `fw_nft.c`, `read_counters` | a listing made before a new table is read after it | `crossed` |
| `fw_nft.c:435`, `read_counters` | one count is stored for all lines of a tag: a lower one replaces it and the packets of the higher are reported again at every reading, for a rule with addresses of both families and for encrypted DNS | `Single` |
| `engine.c`, `refresh_from_system` | the octets of a turn are taken before the connections are read, and are lost when that fails | `failed` in `strange` |
| `engine.c`, accounting | a connection that a full table hid is charged again when it is seen | `crowded` in `strange` |
| `engine.c:490`, `save_usage` | a file that cannot be opened, or a full disk, is not noticed: the octets since the last save, or a part of the rows, are lost at a stop, and a name that is cut may be that of another program | `unsaved`, `cut` in `strange` |
| `engine.c`, `save_state` for the limit | the level is lost when that file is not written, and the alert is told again | `forgot` in `strange` |
| `engine.c`, `save_state` | results of writing are not looked at: a full disk replaces the file by a part of it | `torn` |
| `engine.c`, devices | the program dies before a device it has announced is in the file, also in the middle of that save: it is announced again | `lost` in `ToldOnce` |
| `engine.c`, start entry | two requests overlap, and the later write shows what the earlier saw | `clash` |
| `main.c`, `host.c` | the last removal of the record also removes that of an engine started meanwhile; the Windows service does not look for an engine | `raced` in `odd` |
| `cli.c`, `instance_write` | the record cannot be written: the engine runs unknown | `unwritten` in `odd` |
| `host.c`, `host_quit` | a quit before there is a window is answered and lost | `early` in `odd` |

Seen while modelling, and left without a run: `drain_drops` gives the policy block
to a program it first meets in an event of a rule, and its log line names a default that
allows; a program met first in the connection table has the policy allow, though
the default is Ask; `com.` is added to the blocklist as `com`, which `normalize` then
refuses, so that it can neither be removed nor loaded; a built in rule that was
deleted is back, and on, after the next start, since `load_state` reads the file
over `seed`.

## 6. Plan

The parts with state are modelled. What is left, the first being worth most:

1. The late writes of a tick thread that outlives the shutdown, in `StateFile` and
   `Usage`.
2. `HostNames`: eviction of the table and the ring of the log.
