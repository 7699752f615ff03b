---------------------------- MODULE NftRuntime -----------------------------
(***************************************************************************)
(* How the Linux packet filter finds the processes of a blocked            *)
(* application (src/linux/fw_nft.c): fw_tick looks through /proc, moves    *)
(* processes between control groups and resets the connections they had    *)
(* before.  The tick thread calls it once a second, and every handler that *)
(* changes the policy calls it from fw_apply, at the same time.            *)
(*                                                                         *)
(* External: a process belongs to one group, which its children inherit,   *)
(* and a socket to the group it was made in, whoever moves later; the      *)
(* kernel refuses the packets of sockets of the blocked group.  Processes  *)
(* fork, run other programs, end and have their numbers reused at any      *)
(* moment, and children share the sockets of their parents.                *)
(*                                                                         *)
(* The calls may fail, and the code looks at no result: /proc or the       *)
(* descriptors of a process cannot be read, a group does not take a        *)
(* process, ss does not start or does not reset a socket.                  *)
(*                                                                         *)
(* Abstracted: the cap of 256 paths; reading the counters, in module       *)
(* DropReports; WireCee's own process, which is left alone.                *)
(***************************************************************************)
EXTENDS Naturals, FiniteSets, Sequences

CONSTANTS
  Pids,        \* process numbers
  Programs,    \* programs
  Socks,       \* sockets
  None,        \* no program, no process, no thread, no socket
  Ticker, Handler,
  Policies,    \* the lists of blocked and of allowed programs a policy can have
  Running,     \* the programs processes may run at first
  Holding,     \* the sockets they may have at first
  MaxMoves,    \* 512: the processes of one pass whose connections are reset
  MaxInodes,   \* 4096: the sockets the table has room for
  MaxChanges,  \* bound on what processes do
  MaxApplies,  \* bound on the changes of the policy
  MaxFailures  \* bound on the calls that fail

Threads == {Ticker, Handler}
Groups  == {"none", "blocked", "allowed"}
Kinds   == {"connected", "open"}   \* with a remote address, or without

ASSUME NftAssumption ==
  /\ Ticker # Handler
  /\ IsFiniteSet(Pids) /\ IsFiniteSet(Socks)
  /\ Running \subseteq [Pids -> Programs \cup {None}]
  /\ Holding \subseteq [Socks -> {{}} \cup {{p} : p \in Pids}]
  /\ Policies \subseteq {[block |-> B, allow |-> A \ B] : B, A \in SUBSET Programs}
  /\ None \notin Pids \cup Programs \cup Socks \cup Threads
  /\ MaxMoves \in Nat /\ MaxInodes \in Nat
  /\ MaxChanges \in Nat /\ MaxApplies \in Nat /\ MaxFailures \in Nat

VARIABLES
  exe, group,        \* of a process: its program (None: no process) and its group
  holders,           \* of a socket: the processes that have it open
  made, kind,        \* the group it was made in, and whether it is connected
  blocked, allowed,  \* g_block_paths and g_allow_paths
  lock,              \* the owner of g_lock
  odd,               \* g_tick % 2
  inodes,            \* the static table of cut_sockets
  pc,                \* where a thread is in fw_tick
  left,              \* the processes its pass has still to look at
  look,              \* the process it is about to move, and where to
  moved, found,      \* the processes it blocked, and their sockets it found
  overlap,           \* two threads used the table at the same time
  handed,            \* the sockets children got from a process about to lose them
  spared,            \* the sockets a failure or a full table kept from being reset
  changes, applies, failures

procs   == <<exe, group>>
socks   == <<holders, made, kind>>
lists   == <<blocked, allowed>>
locals  == <<left, look, moved, found>>
ghost   == <<overlap, handed, spared>>
bounds  == <<changes, applies, failures>>
runtimeVars == <<procs, socks, lists, lock, odd, inodes, pc, locals, ghost, bounds>>

Slots == 1 .. MaxInodes

Nowhere == [pid |-> None, to |-> "none"]

RuntimeTypeOK ==
  /\ exe \in [Pids -> Programs \cup {None}] /\ group \in [Pids -> Groups]
  /\ holders \in [Socks -> SUBSET Pids]
  /\ made \in [Socks -> Groups] /\ kind \in [Socks -> Kinds]
  /\ blocked \subseteq Programs /\ allowed \subseteq Programs
  /\ lock \in Threads \cup {None} /\ odd \in BOOLEAN
  /\ inodes \in [Slots -> Socks \cup {None}]
  /\ pc \in [Threads -> {"idle", "tick", "sync", "pass", "move", "collect", "kill", "count"}]
  /\ left \in [Threads -> SUBSET Pids]
  /\ look \in [Threads -> [pid : Pids \cup {None}, to : Groups]]
  /\ moved \in [Threads -> SUBSET Pids] /\ found \in [Threads -> SUBSET Socks]
  /\ overlap \in BOOLEAN /\ handed \subseteq Socks /\ spared \subseteq Socks
  /\ changes \in 0 .. MaxChanges /\ applies \in 0 .. MaxApplies /\ failures \in 0 .. MaxFailures

\* Processes that ran before, some with a connection, none in a group.
RuntimeInit ==
  /\ exe \in Running
  /\ group = [p \in Pids |-> "none"]
  /\ holders \in Holding /\ \A s \in Socks : \A p \in holders[s] : exe[p] # None
  /\ made = [s \in Socks |-> "none"] /\ kind = [s \in Socks |-> "connected"]
  /\ blocked = {} /\ allowed = {}
  /\ lock = None /\ odd = FALSE
  /\ inodes = [i \in Slots |-> None]
  /\ pc = [t \in Threads |-> "idle"]
  /\ left = [t \in Threads |-> {}] /\ look = [t \in Threads |-> Nowhere]
  /\ moved = [t \in Threads |-> {}] /\ found = [t \in Threads |-> {}]
  /\ overlap = FALSE /\ handed = {} /\ spared = {} /\ changes = 0 /\ applies = 0 /\ failures = 0

Goto(t, label) == pc' = [pc EXCEPT ![t] = label]

Alive(p) == exe[p] # None

\* A call that fails.
Failure == failures < MaxFailures /\ failures' = failures + 1

-----------------------------------------------------------------------------
(***************************************************************************)
(* The processes.                                                          *)
(***************************************************************************)

Change == changes < MaxChanges /\ changes' = changes + 1

\* A child in its parent's group, with its parent's sockets and another number.
Fork(p, c) ==
  /\ Alive(p) /\ ~Alive(c) /\ Change
  /\ exe' = [exe EXCEPT ![c] = exe[p]] /\ group' = [group EXCEPT ![c] = group[p]]
  /\ holders' = [s \in Socks |-> IF p \in holders[s] THEN holders[s] \cup {c} ELSE holders[s]]
  /\ handed' = IF \E t \in Threads : p \in moved[t]
               THEN handed \cup {s \in Socks : p \in holders[s]} ELSE handed
  /\ UNCHANGED <<made, kind, lists, lock, odd, inodes, pc, locals, overlap, spared, applies, failures>>

Exec(p, a) ==
  /\ Alive(p) /\ exe[p] # a /\ Change
  /\ exe' = [exe EXCEPT ![p] = a]
  /\ UNCHANGED <<group, socks, lists, lock, odd, inodes, pc, locals, ghost, applies, failures>>

\* Its number is free again; a new process with it starts in no group.
Exit(p) ==
  /\ Alive(p) /\ Change
  /\ exe' = [exe EXCEPT ![p] = None] /\ group' = [group EXCEPT ![p] = "none"]
  /\ holders' = [s \in Socks |-> holders[s] \ {p}]
  /\ UNCHANGED <<made, kind, lists, lock, odd, inodes, pc, locals, ghost, applies, failures>>

Open(p, s, k) ==
  /\ Alive(p) /\ holders[s] = {} /\ Change
  /\ holders' = [holders EXCEPT ![s] = {p}]
  /\ made' = [made EXCEPT ![s] = group[p]] /\ kind' = [kind EXCEPT ![s] = k]
  /\ handed' = handed \ {s} /\ spared' = spared \ {s}
  /\ UNCHANGED <<procs, lists, lock, odd, inodes, pc, locals, overlap, applies, failures>>

-----------------------------------------------------------------------------
(***************************************************************************)
(* fw_apply, after nft has taken the new table, and the calls of fw_tick.  *)
(***************************************************************************)

\* The lists of the new policy.
Apply(policy) ==
  /\ pc[Handler] = "idle" /\ lock = None /\ applies < MaxApplies
  /\ applies' = applies + 1
  /\ blocked' = policy.block /\ allowed' = policy.allow
  /\ odd' = FALSE
  /\ Goto(Handler, "tick")
  /\ UNCHANGED <<procs, socks, lock, inodes, locals, ghost, changes, failures>>

Tick ==
  /\ pc[Ticker] = "idle" /\ Goto(Ticker, "tick")
  /\ UNCHANGED <<procs, socks, lists, lock, odd, inodes, locals, ghost, bounds>>

\* Every second tick looks at the processes.
TickSync(t) ==
  /\ pc[t] = "tick" /\ ~odd /\ Goto(t, "sync")
  /\ UNCHANGED <<procs, socks, lists, lock, odd, inodes, locals, ghost, bounds>>

TickSkip(t) ==
  /\ pc[t] = "tick" /\ odd /\ Goto(t, "count")
  /\ UNCHANGED <<procs, socks, lists, lock, odd, inodes, locals, ghost, bounds>>

\* g_tick++ without a lock: the tick of the other thread may be lost.
TickCount(t) ==
  /\ pc[t] = "count" /\ Goto(t, "idle")
  /\ odd' \in {~odd} \cup (IF \E u \in Threads \ {t} : pc[u] \in {"tick", "count"} THEN {odd} ELSE {})
  /\ UNCHANGED <<procs, socks, lists, lock, inodes, locals, ghost, bounds>>

-----------------------------------------------------------------------------
(***************************************************************************)
(* sync_processes.                                                         *)
(***************************************************************************)

SyncLock(t) ==
  /\ pc[t] = "sync" /\ lock = None
  /\ lock' = t /\ left' = [left EXCEPT ![t] = Pids] /\ Goto(t, "pass")
  /\ UNCHANGED <<procs, socks, lists, odd, inodes, look, moved, found, ghost, bounds>>

\* /proc cannot be opened.
SyncFail(t) ==
  /\ pc[t] = "sync" /\ Failure /\ Goto(t, "count")
  /\ UNCHANGED <<procs, socks, lists, lock, odd, inodes, locals, ghost, changes, applies>>

\* Where a process of program a belongs; _Kept is a mutant that never lets go.
Wanted_Kept(a, g) == IF a \in blocked THEN "blocked" ELSE IF a \in allowed THEN "allowed" ELSE g

Wanted(a, g) == IF a \in blocked THEN "blocked" ELSE IF a \in allowed THEN "allowed" ELSE "none"

\* readlink and group_of, before anything is moved.
SyncLook(t, p) ==
  /\ pc[t] = "pass" /\ p \in left[t]
  /\ left' = [left EXCEPT ![t] = @ \ {p}]
  /\ \/ /\ ~Alive(p) \/ group[p] = Wanted(exe[p], group[p])
        /\ UNCHANGED <<pc, look>>
     \/ /\ Alive(p) /\ group[p] # Wanted(exe[p], group[p])
        /\ look' = [look EXCEPT ![t] = [pid |-> p, to |-> Wanted(exe[p], group[p])]]
        /\ Goto(t, "move")
  /\ UNCHANGED <<procs, socks, lists, lock, odd, inodes, moved, found, ghost, bounds>>

\* The processes whose connections are reset; _FromNone is a mutant that leaves
\* out those that were in the other group.
Cuts_FromNone(t) == look[t].to = "blocked" /\ group[look[t].pid] = "none"

Cuts(t) == look[t].to = "blocked"

Held(P) == {s \in Socks : holders[s] \cap P # {}}

\* move_pid, of whatever process has the number now.  That the group did not take
\* it goes unnoticed, and so does a process there is no more room to note.
SyncMove(t) ==
  LET p    == look[t].pid
      room == Cardinality(moved[t]) < MaxMoves
  IN /\ pc[t] = "move" /\ Goto(t, "pass")
     /\ \/ /\ group' = IF Alive(p) THEN [group EXCEPT ![p] = look[t].to] ELSE group
           /\ UNCHANGED failures
        \/ Failure /\ UNCHANGED group
     /\ moved' = IF Cuts(t) /\ room THEN [moved EXCEPT ![t] = @ \cup {p}] ELSE moved
     /\ spared' = IF room THEN spared ELSE spared \cup Held({p})
     /\ look' = [look EXCEPT ![t] = Nowhere]
     /\ UNCHANGED <<exe, socks, lists, lock, odd, inodes, left, found, overlap, handed,
                    changes, applies>>

SyncUnlock(t) ==
  /\ pc[t] = "pass" /\ left[t] = {}
  /\ lock' = None /\ Goto(t, "collect")
  /\ UNCHANGED <<procs, socks, lists, odd, inodes, locals, ghost, bounds>>

-----------------------------------------------------------------------------
(***************************************************************************)
(* cut_sockets, without the lock and with a table both threads share.      *)
(***************************************************************************)

Full(t) == Cardinality(found[t]) >= MaxInodes

\* One more socket of a process that was moved.
Collect(t, s) ==
  /\ pc[t] = "collect" /\ s \in Held(moved[t]) \ found[t] /\ ~Full(t)
  /\ inodes' = [inodes EXCEPT ![Cardinality(found[t]) + 1] = s]
  /\ found' = [found EXCEPT ![t] = @ \cup {s}]
  /\ overlap' = (overlap \/ \E u \in Threads \ {t} : found[u] # {})
  /\ UNCHANGED <<procs, socks, lists, lock, odd, pc, left, look, moved, handed, spared, bounds>>

\* All are found, or as many as there is room for, or descriptors cannot be read.
CollectDone(t) ==
  /\ pc[t] = "collect" /\ Goto(t, "kill")
  /\ \/ (Held(moved[t]) \subseteq found[t] \/ Full(t)) /\ UNCHANGED failures
     \/ ~(Held(moved[t]) \subseteq found[t] \/ Full(t)) /\ Failure
  /\ spared' = spared \cup (Held(moved[t]) \ found[t])
  /\ UNCHANGED <<procs, socks, lists, lock, odd, inodes, locals, overlap, handed, changes, applies>>

\* The sockets the table names now, as far as this thread has filled it.
Named(t) == {inodes[i] : i \in 1 .. Cardinality(found[t])}

\* ss -K, of the connected ones.  Those that are not reset, all of them when ss
\* cannot be started, are not tried again.
Kill(t) ==
  /\ pc[t] = "kill" /\ Goto(t, "count")
  /\ \E kept \in SUBSET {s \in Socks : s \in Named(t) /\ kind[s] = "connected"} :
       /\ \/ kept = {} /\ UNCHANGED failures
          \/ kept # {} /\ Failure
       /\ holders' = [s \in Socks |-> IF s \in Named(t) \ kept /\ kind[s] = "connected" THEN {}
                                     ELSE holders[s]]
       /\ spared' = spared \cup kept
  /\ found' = [found EXCEPT ![t] = {}] /\ moved' = [moved EXCEPT ![t] = {}]
  /\ UNCHANGED <<procs, made, kind, lists, lock, odd, inodes, left, look, overlap, handed,
                 changes, applies>>

-----------------------------------------------------------------------------
Processes ==
  \E p \in Pids :
    \/ \E c \in Pids : Fork(p, c)
    \/ \E a \in Programs : Exec(p, a)
    \/ Exit(p)
    \/ \E s \in Socks, k \in Kinds : Open(p, s, k)

Run(t) ==
  \/ TickSync(t) \/ TickSkip(t) \/ TickCount(t)
  \/ SyncLock(t) \/ SyncFail(t) \/ (\E p \in Pids : SyncLook(t, p)) \/ SyncMove(t) \/ SyncUnlock(t)
  \/ (\E s \in Socks : Collect(t, s)) \/ CollectDone(t) \/ Kill(t)

RuntimeNext ==
  \/ Processes
  \/ Tick \/ (\E policy \in Policies : Apply(policy))
  \/ \E t \in Threads : Run(t)

\* The tick thread ticks every second, and a call that has begun goes on.
Fairness == WF_runtimeVars(Tick) /\ \A t \in Threads : WF_runtimeVars(Run(t))

RuntimeSpec == RuntimeInit /\ [][RuntimeNext]_runtimeVars /\ Fairness

-----------------------------------------------------------------------------
(***************************************************************************)
(* Properties.                                                             *)
(***************************************************************************)

\* A thread still has connections to reset.
Cutting(t) == moved[t] # {}

\* A connection of process p from before it was blocked, which the kernel lets
\* pass.
Escapes(p, s) == Alive(p) /\ group[p] = "blocked" /\ p \in holders[s] /\ made[s] # "blocked"

\* No process that has been blocked keeps a connection it made before, whatever
\* processes run and hand on, unless two threads shared the table, a process
\* handed it to a child after it was moved and before its sockets were looked at,
\* or it was spared: a call failed or a table was full, and nobody tries again.
ConnectionsCut ==
  ~overlap /\ (\A t \in Threads : ~Cutting(t)) =>
    \A p \in Pids, s \in Socks :
      kind[s] = "connected" /\ s \notin handed \cup spared => ~Escapes(p, s)

\* A process that is blocked keeps no old connection, and the two threads that
\* share fw_tick leave groups, sockets and tables well formed.
Inv == RuntimeTypeOK /\ ConnectionsCut

\* However ticks are lost, numbers reused and moves refused, every process ends up
\* in the group of its program when the policy and the processes rest and moves
\* fail no more.
Belongs(p) ==
  /\ exe[p] \in blocked <=> group[p] = "blocked"
  /\ exe[p] \in allowed <=> group[p] = "allowed"

GroupsSettle == <>[](\A p \in Pids : Alive(p) => Belongs(p))

=============================================================================
