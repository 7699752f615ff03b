---------------------------- MODULE Enforcement ----------------------------
(***************************************************************************)
(* The control core of the WireCee engine (src/core/engine.c): how a       *)
(* change of the configuration made by an HTTP worker, by the tick thread  *)
(* or at start-up reaches the packet filter and the DNS filter.            *)
(*                                                                         *)
(* Every section the code runs under the write side of g_lock is one       *)
(* action.  g_enforce_lock, the recursive mutex that serialises the        *)
(* installers, is the pair <<holder, depth>>; what a thread reads or       *)
(* writes between taking and releasing it is one action per step, so that  *)
(* other threads' configuration changes interleave.  After its write       *)
(* section a handler still owes calls (set_enforce, dns_apply,             *)
(* apply_enforcement, cut_connections_of); todo[t] holds them.             *)
(*                                                                         *)
(* Abstracted: log lines, notices, snapshots for the interface, the        *)
(* connection table (so cut_connections_of only takes and releases the     *)
(* mutex), upstream server lists, rule bodies and rule order (module       *)
(* PacketFilter), the state file, and the inside of the resolv.conf        *)
(* rewrite (module DnsRedirect).                                           *)
(***************************************************************************)
EXTENDS Naturals

CONSTANTS
  Apps,          \* programs with an executable path
  Rules,         \* rule slots (g_rules); at most ENG_MAX_RULES of them
  Handlers,      \* HTTP worker threads
  Main,          \* the thread that runs engine_start and engine_stop
  NoThread,      \* nobody holds g_enforce_lock
  InitConfigs,   \* configurations load_state may produce
  Patches,       \* bodies of PATCH /settings, the fields the installers read
  MaxRequests    \* bound on the number of API requests that change state

Postures == {"on", "off", "lockdown"}
Words    == {"allow", "ask", "block"}
Dirs     == {"out", "in"}

\* What load_state, the handlers and the tick thread keep under g_lock.
Config ==
  [posture   : Postures,
   default   : [Dirs -> Words],
   policy    : [Apps -> Words \cup {"unseen"}],
   rules     : [Rules -> {"absent", "off", "on"}],
   dnsFilter : BOOLEAN,
   doh       : BOOLEAN]

ASSUME ThreadAssumption ==
  /\ Main \notin Handlers
  /\ NoThread \notin Handlers \cup {Main}
ASSUME ConfigAssumption == InitConfigs \subseteq Config
ASSUME PatchAssumption ==
  Patches \subseteq [default : [Dirs -> Words], dnsFilter : BOOLEAN, doh : BOOLEAN]
ASSUME BoundAssumption == MaxRequests \in Nat

Threads == Handlers \cup {Main}
Tasks   == {"enforce", "dns", "apply", "cut"}

\* What fw_apply is given (FwPolicy) and, once it succeeds, what the kernel holds.
FwPolicies ==
  [posture : Postures, default : [Dirs -> Words], block : SUBSET Apps,
   allow : SUBSET Apps, rules : SUBSET Rules, guard : BOOLEAN, doh : BOOLEAN]

\* No table, no filters: what fw_start and fw_stop leave.
NoPolicy ==
  [posture |-> "off", default |-> [d \in Dirs |-> "allow"], block |-> {},
   allow |-> {}, rules |-> {}, guard |-> FALSE, doh |-> FALSE]

VARIABLES
  cfg,         \* g_settings, g_posture, g_apps[].policy, g_rules
  pinned,      \* g_apps[].pinned: the user decided this program's policy
  drops,       \* first refused direction of a program, queued in the filter's ring
  dnsActive,   \* g_dns_active
  resolver,    \* dnsd's g_active: the proxy answers on 127.0.0.1:53
  redirected,  \* the system resolver points at the proxy
  enforce,     \* dnsd's g_enforce: the proxy refuses listed names
  admin,       \* plat_is_admin()
  fwActive,    \* fw_active()
  installed,   \* the policy the kernel holds
  applyOk,     \* the last fw_apply succeeded
  snap,        \* g_fw_apps, g_fw_rules and the FwPolicy built from them
  local,       \* locals of the dns_apply in progress
  holder, depth,        \* g_enforce_lock
  pc, todo, arg,        \* control state of each thread; arg is set_posture's argument
  phase, requests

cfgVars  == <<cfg, pinned, drops>>
dnsVars  == <<dnsActive, resolver, redirected, enforce>>
fwVars   == <<fwActive, installed, applyOk>>
lockVars == <<holder, depth>>
bufVars  == <<snap, local>>
ctlVars  == <<pc, todo, arg>>
lifeVars == <<phase, requests, admin>>
vars == <<cfgVars, dnsVars, fwVars, lockVars, bufVars, ctlVars, lifeVars>>

PCs ==
  {"ready",                                     \* outside the mutex
   "dnsRead", "dnsEnforce", "dnsAct", "dnsRedirect", "dnsStop", "dnsLog", "dnsUnlock",
   "snap", "install", "log",                    \* inside apply_enforcement
   "stopRedirect", "stopResolver", "stopFw"}    \* inside engine_stop

Locals == [want : BOOLEAN, enforce : BOOLEAN, changed : BOOLEAN]

TypeOK ==
  /\ cfg \in Config
  /\ pinned \in [Apps -> BOOLEAN]
  /\ drops \in [Apps -> Dirs \cup {"none"}]
  /\ dnsActive \in BOOLEAN /\ resolver \in BOOLEAN
  /\ redirected \in BOOLEAN /\ enforce \in BOOLEAN
  /\ admin \in BOOLEAN /\ fwActive \in BOOLEAN /\ applyOk \in BOOLEAN
  /\ installed \in FwPolicies /\ snap \in FwPolicies
  /\ local \in Locals
  /\ holder \in Threads \cup {NoThread} /\ depth \in 0..2
  /\ pc \in [Threads -> PCs]
  /\ todo \in [Threads -> SUBSET Tasks]
  /\ arg \in [Threads -> Postures]
  /\ phase \in {"starting", "running", "stopping", "stopped"}
  /\ requests \in 0..MaxRequests

(***************************************************************************)
(* engine_start up to dns_apply: the saved configuration is loaded, every  *)
(* program a line of state.tsv names is pinned, the first look at the      *)
(* connection table has added programs that are not, fw_start has          *)
(* succeeded or not, and the main thread owes dns_apply and                *)
(* apply_enforcement.                                                      *)
(***************************************************************************)
NoLocal == [want |-> FALSE, enforce |-> FALSE, changed |-> FALSE]

Init ==
  /\ cfg \in InitConfigs
  /\ pinned \in [Apps -> BOOLEAN]
  /\ \A a \in Apps : ~pinned[a] => cfg.policy[a] \in {"unseen", "allow"}
  /\ \A a \in Apps : pinned[a] => cfg.policy[a] # "unseen"
  /\ drops = [a \in Apps |-> "none"]
  /\ dnsActive = FALSE /\ resolver = FALSE /\ redirected = FALSE /\ enforce = TRUE
  /\ admin \in BOOLEAN /\ fwActive \in BOOLEAN /\ (fwActive => admin)
  /\ installed = NoPolicy /\ snap = NoPolicy /\ applyOk = TRUE
  /\ local = NoLocal
  /\ holder = NoThread /\ depth = 0
  /\ pc = [t \in Threads |-> "ready"]
  /\ todo = [t \in Threads |-> IF t = Main THEN {"dns", "apply"} ELSE {}]
  /\ arg = [t \in Threads |-> "on"]
  /\ phase = "starting" /\ requests = 0

-----------------------------------------------------------------------------
(***************************************************************************)
(* What the code reads and who may run.                                    *)
(***************************************************************************)

\* The FwPolicy apply_enforcement builds from the state it reads.
Desired ==
  [posture |-> cfg.posture,
   default |-> cfg.default,
   block   |-> {a \in Apps : cfg.policy[a] \in {"ask", "block"}},
   allow   |-> {a \in Apps : cfg.policy[a] = "allow"},
   rules   |-> {r \in Rules : cfg.rules[r] = "on"},
   guard   |-> dnsActive,
   doh     |-> cfg.doh]

\* The calls a handler makes after its write section, in program order.
Earlier ==
  [enforce |-> {}, dns |-> {}, apply |-> {"enforce", "dns"}, cut |-> {"apply"}]

Idle(t) == pc[t] = "ready" /\ todo[t] = {}

Starts(t, k) == pc[t] = "ready" /\ k \in todo[t] /\ todo[t] \cap Earlier[k] = {}

Goto(t, label) == pc' = [pc EXCEPT ![t] = label] /\ UNCHANGED <<todo, arg>>

Enter(t, k, label) ==
  /\ pc' = [pc EXCEPT ![t] = label]
  /\ todo' = [todo EXCEPT ![t] = @ \ {k}]
  /\ UNCHANGED arg

\* plat_mutex_lock by a thread that does not hold the mutex; _NoWait is a mutant.
Acquire_NoWait(t) == holder' = t /\ depth' = depth + 1

Acquire(t) == holder = NoThread /\ holder' = t /\ depth' = 1

\* The last plat_mutex_unlock; _Leak is a mutant.
Release_Leak == holder' = holder /\ depth' = 0

Release == holder' = NoThread /\ depth' = 0

-----------------------------------------------------------------------------
(***************************************************************************)
(* Requests.  One action is the write section of one handler; todo' is     *)
(* what the handler calls after it.                                        *)
(***************************************************************************)
Request(h, tasks) ==
  /\ phase = "running" /\ requests < MaxRequests
  /\ Idle(h)
  /\ requests' = requests + 1
  /\ todo' = [todo EXCEPT ![h] = tasks]
  /\ UNCHANGED <<drops, dnsVars, fwVars, lockVars, bufVars, pc, phase, admin>>

\* engine_set_policy: a program not in g_apps is not found.
SetPolicyTasks_BlockOnly(word) == IF word = "allow" THEN {} ELSE {"apply", "cut"}

SetPolicyTasks(word) == IF word = "allow" THEN {"apply"} ELSE {"apply", "cut"}

SetPolicy(h, a, word) ==
  /\ cfg.policy[a] # "unseen"
  /\ cfg' = [cfg EXCEPT !.policy[a] = word]
  /\ pinned' = [pinned EXCEPT ![a] = TRUE]
  /\ Request(h, SetPolicyTasks(word)) /\ UNCHANGED arg

\* engine_rule_create, engine_rule_patch, engine_rule_delete: after an edit a
\* rule is absent, off or on; a patch may leave the modelled part as it was.
RuleTasks == {"apply"}

RuleCreate(h, r, state) ==
  /\ cfg.rules[r] = "absent" /\ state # "absent"
  /\ cfg' = [cfg EXCEPT !.rules[r] = state]
  /\ Request(h, RuleTasks) /\ UNCHANGED <<pinned, arg>>

RulePatch(h, r, state) ==
  /\ cfg.rules[r] # "absent" /\ state # "absent"
  /\ cfg' = [cfg EXCEPT !.rules[r] = state]
  /\ Request(h, RuleTasks) /\ UNCHANGED <<pinned, arg>>

RuleDelete(h, r) ==
  /\ cfg.rules[r] # "absent"
  /\ cfg' = [cfg EXCEPT !.rules[r] = "absent"]
  /\ Request(h, RuleTasks) /\ UNCHANGED <<pinned, arg>>

\* engine_settings_patch: dns_apply only for a changed DNS filter or upstream,
\* apply_enforcement only for a changed default or encrypted-DNS setting.
SettingsTasks_EnableOnly(p, upstreamChanged) ==
  (IF (p.dnsFilter /\ ~cfg.dnsFilter) \/ upstreamChanged THEN {"dns"} ELSE {})
    \cup (IF p.doh # cfg.doh \/ p.default # cfg.default THEN {"apply"} ELSE {})

SettingsTasks(p, upstreamChanged) ==
  (IF p.dnsFilter # cfg.dnsFilter \/ upstreamChanged THEN {"dns"} ELSE {})
    \cup (IF p.doh # cfg.doh \/ p.default # cfg.default THEN {"apply"} ELSE {})

SettingsPatch(h, p, upstreamChanged) ==
  /\ cfg' = [cfg EXCEPT !.default = p.default, !.dnsFilter = p.dnsFilter, !.doh = p.doh]
  /\ Request(h, SettingsTasks(p, upstreamChanged)) /\ UNCHANGED <<pinned, arg>>

\* engine_set_posture keeps its argument for the call of dnsd_set_enforce.
SetPostureTasks_NoApply == {"enforce"}

SetPostureTasks == {"enforce", "apply"}

SetPosture(h, p) ==
  /\ cfg' = [cfg EXCEPT !.posture = p]
  /\ arg' = [arg EXCEPT ![h] = p]
  /\ Request(h, SetPostureTasks) /\ UNCHANGED pinned

HandlerRequest(h) ==
  \/ \E a \in Apps, word \in Words : SetPolicy(h, a, word)
  \/ \E r \in Rules, state \in {"off", "on"} : RuleCreate(h, r, state) \/ RulePatch(h, r, state)
  \/ \E r \in Rules : RuleDelete(h, r)
  \/ \E p \in Patches, upstreamChanged \in BOOLEAN : SettingsPatch(h, p, upstreamChanged)
  \/ \E p \in Postures : SetPosture(h, p)

-----------------------------------------------------------------------------
(***************************************************************************)
(* dnsd_set_enforce as set_posture calls it: g_enforce is written with no  *)
(* lock held, from the handler's own argument.                             *)
(***************************************************************************)
SetEnforce(t) ==
  /\ Starts(t, "enforce")
  /\ enforce' = (arg[t] # "off")
  /\ Enter(t, "enforce", "ready")
  /\ UNCHANGED <<cfgVars, dnsActive, resolver, redirected, fwVars, lockVars, bufVars, lifeVars>>

(***************************************************************************)
(* dns_apply, under g_enforce_lock.                                        *)
(***************************************************************************)
DnsLock(t) ==
  /\ Starts(t, "dns") /\ Acquire(t)
  /\ Enter(t, "dns", "dnsRead")
  /\ UNCHANGED <<cfgVars, dnsVars, fwVars, bufVars, lifeVars>>

DnsRead(t) ==
  /\ pc[t] = "dnsRead" /\ Goto(t, "dnsEnforce")
  /\ local' = [want |-> cfg.dnsFilter, enforce |-> cfg.posture # "off", changed |-> FALSE]
  /\ UNCHANGED <<cfgVars, dnsVars, fwVars, lockVars, snap, lifeVars>>

DnsEnforce(t) ==
  /\ pc[t] = "dnsEnforce" /\ Goto(t, "dnsAct")
  /\ enforce' = local.enforce
  /\ UNCHANGED <<cfgVars, dnsActive, resolver, redirected, fwVars, lockVars, bufVars, lifeVars>>

\* Taking the filter down, here and in engine_stop: plat_dns_redirect_end first,
\* dnsd_stop second.  _Swapped is a mutant.
EndRedirect_Swapped == resolver' = FALSE /\ UNCHANGED <<dnsActive, redirected>>

EndRedirect == redirected' = FALSE /\ UNCHANGED <<dnsActive, resolver>>

EndResolver == resolver' = FALSE /\ dnsActive' = FALSE /\ UNCHANGED redirected

\* dnsd_start: not tried without administrator rights, and it may fail.
DnsStart(t) ==
  /\ pc[t] = "dnsAct" /\ local.want /\ ~dnsActive
  /\ local' = [local EXCEPT !.changed = TRUE]
  /\ \/ Goto(t, "dnsLog") /\ UNCHANGED resolver
     \/ admin /\ resolver' = TRUE /\ Goto(t, "dnsRedirect")
  /\ UNCHANGED <<cfgVars, dnsActive, redirected, enforce, fwVars, lockVars, snap, lifeVars>>

\* plat_dns_redirect_begin succeeds, or the resolver is stopped again.
DnsRedirect(t) ==
  /\ pc[t] = "dnsRedirect" /\ Goto(t, "dnsLog")
  /\ \/ redirected' = TRUE /\ dnsActive' = TRUE /\ UNCHANGED resolver
     \/ resolver' = FALSE /\ UNCHANGED <<redirected, dnsActive>>
  /\ UNCHANGED <<cfgVars, enforce, fwVars, lockVars, bufVars, lifeVars>>

DnsEnd(t) ==
  /\ pc[t] = "dnsAct" /\ ~local.want /\ dnsActive /\ Goto(t, "dnsStop")
  /\ EndRedirect
  /\ local' = [local EXCEPT !.changed = TRUE]
  /\ UNCHANGED <<cfgVars, enforce, fwVars, lockVars, snap, lifeVars>>

DnsStop(t) ==
  /\ pc[t] = "dnsStop" /\ Goto(t, "dnsLog")
  /\ EndResolver
  /\ UNCHANGED <<cfgVars, enforce, fwVars, lockVars, bufVars, lifeVars>>

\* Already as wanted: only the upstream servers are set again.
DnsKeep(t) ==
  /\ pc[t] = "dnsAct" /\ local.want = dnsActive /\ Goto(t, "dnsLog")
  /\ UNCHANGED <<cfgVars, dnsVars, fwVars, lockVars, bufVars, lifeVars>>

\* The closing write section; a change calls apply_enforcement with the
\* recursive mutex held.
DnsLog(t) ==
  /\ pc[t] = "dnsLog"
  /\ IF local.changed /\ fwActive
       THEN Goto(t, "snap") /\ depth' = 2
       ELSE Goto(t, "dnsUnlock") /\ UNCHANGED depth
  /\ local' = NoLocal
  /\ UNCHANGED <<cfgVars, dnsVars, fwVars, holder, snap, lifeVars>>

DnsUnlock(t) ==
  /\ pc[t] = "dnsUnlock" /\ Goto(t, "ready") /\ Release
  /\ UNCHANGED <<cfgVars, dnsVars, fwVars, bufVars, lifeVars>>

-----------------------------------------------------------------------------
(***************************************************************************)
(* apply_enforcement: return at once when the filter is not running, else  *)
(* take the mutex, build the policy under the read lock, hand it to        *)
(* fw_apply with no lock on the state, log, release.                       *)
(***************************************************************************)
ApplySkip(t) ==
  /\ Starts(t, "apply") /\ ~fwActive
  /\ Enter(t, "apply", "ready")
  /\ UNCHANGED <<cfgVars, dnsVars, fwVars, lockVars, bufVars, lifeVars>>

ApplyLock(t) ==
  /\ Starts(t, "apply") /\ fwActive /\ Acquire(t)
  /\ Enter(t, "apply", "snap")
  /\ UNCHANGED <<cfgVars, dnsVars, fwVars, bufVars, lifeVars>>

Snapshot(t) ==
  /\ pc[t] = "snap" /\ Goto(t, "install")
  /\ snap' = Desired
  /\ UNCHANGED <<cfgVars, dnsVars, fwVars, lockVars, local, lifeVars>>

\* fw_apply: one nft transaction or one WFP transaction, all or nothing.  The
\* static buffers are not read again once it returns.
Install(t) ==
  /\ pc[t] = "install" /\ Goto(t, "log")
  /\ \/ installed' = snap /\ applyOk' = TRUE
     \/ installed' = installed /\ applyOk' = FALSE
  /\ snap' = NoPolicy
  /\ UNCHANGED <<cfgVars, dnsVars, fwActive, lockVars, local, lifeVars>>

ApplyUnlock(t) ==
  /\ pc[t] = "log"
  /\ \/ depth = 2 /\ depth' = 1 /\ Goto(t, "dnsUnlock") /\ UNCHANGED holder
     \/ depth = 1 /\ Release /\ Goto(t, "ready")
  /\ UNCHANGED <<cfgVars, dnsVars, fwVars, bufVars, lifeVars>>

\* cut_connections_of: the resets do not touch the modelled state.
Cut(t) ==
  /\ Starts(t, "cut") /\ (fwActive => holder = NoThread)
  /\ Enter(t, "cut", "ready")
  /\ UNCHANGED <<cfgVars, dnsVars, fwVars, lockVars, bufVars, lifeVars>>

-----------------------------------------------------------------------------
(***************************************************************************)
(* The tick thread.  Its work is done in write sections of its own; the    *)
(* code waits at most 2.5 s for it in engine_stop, so a slow tick may      *)
(* still run while the engine stops.                                       *)
(***************************************************************************)
TickRuns == phase \in {"running", "stopping"}

\* refresh_from_system meets a program in the connection table (app_for).
ConnSeen(a) ==
  /\ TickRuns /\ cfg.policy[a] = "unseen"
  /\ cfg' = [cfg EXCEPT !.policy[a] = "allow"]
  /\ UNCHANGED <<pinned, drops, dnsVars, fwVars, lockVars, bufVars, ctlVars, lifeVars>>

\* A policy that can refuse program a in direction d.
MayRefuse(p, a, d) ==
  /\ p.posture # "off"
  /\ \/ p.posture = "lockdown" \/ p.default[d] # "allow"
     \/ a \in p.block \/ p.rules # {}
     \/ d = "out" /\ (p.guard \/ p.doh)

\* The filter refuses a packet of a program and queues the event with its path
\* (on_net_event).  Only the first event of a program not yet known matters.
DropSeen(a, d) ==
  /\ fwActive /\ MayRefuse(installed, a, d)
  /\ drops[a] = "none" /\ cfg.policy[a] = "unseen"
  /\ drops' = [drops EXCEPT ![a] = d]
  /\ UNCHANGED <<cfg, pinned, dnsVars, fwVars, lockVars, bufVars, ctlVars, lifeVars>>

\* drain_drops: a program first met in a refused event gets the policy of the
\* default of that direction; enforcement is not applied again.
DiscoveredPolicy(a) == IF cfg.default[drops[a]] = "ask" THEN "ask" ELSE "block"

Drain ==
  /\ TickRuns /\ \E a \in Apps : drops[a] # "none"
  /\ cfg' = [cfg EXCEPT !.policy =
       [a \in Apps |-> IF drops[a] # "none" /\ cfg.policy[a] = "unseen"
                         THEN DiscoveredPolicy(a) ELSE cfg.policy[a]]]
  /\ drops' = [a \in Apps |-> "none"]
  /\ UNCHANGED <<pinned, dnsVars, fwVars, lockVars, bufVars, ctlVars, lifeVars>>

-----------------------------------------------------------------------------
(***************************************************************************)
(* engine_start ends, the workers and the tick thread start; engine_stop   *)
(* runs after api_stop has waited for the workers, and takes no mutex.     *)
(***************************************************************************)
Started ==
  /\ phase = "starting" /\ Idle(Main)
  /\ phase' = "running"
  /\ UNCHANGED <<cfgVars, dnsVars, fwVars, lockVars, bufVars, ctlVars, requests, admin>>

WorkersDone_NotJoined == TRUE

WorkersDone == \A h \in Handlers : Idle(h)

Stop ==
  /\ phase = "running" /\ WorkersDone
  /\ phase' = "stopping"
  /\ Goto(Main, IF dnsActive THEN "stopRedirect" ELSE "stopFw")
  /\ UNCHANGED <<cfgVars, dnsVars, fwVars, lockVars, bufVars, requests, admin>>

StopRedirect ==
  /\ pc[Main] = "stopRedirect" /\ Goto(Main, "stopResolver")
  /\ EndRedirect
  /\ UNCHANGED <<cfgVars, enforce, fwVars, lockVars, bufVars, lifeVars>>

StopResolver ==
  /\ pc[Main] = "stopResolver" /\ Goto(Main, "stopFw")
  /\ EndResolver
  /\ UNCHANGED <<cfgVars, enforce, fwVars, lockVars, bufVars, lifeVars>>

StopFw ==
  /\ pc[Main] = "stopFw" /\ Goto(Main, "ready")
  /\ installed' = NoPolicy /\ fwActive' = FALSE
  /\ phase' = "stopped"
  /\ UNCHANGED <<cfgVars, dnsVars, applyOk, lockVars, bufVars, requests, admin>>

\* The process has exited.
Stopped == phase = "stopped" /\ UNCHANGED vars

-----------------------------------------------------------------------------
DnsStep(t) ==
  \/ DnsLock(t) \/ DnsRead(t) \/ DnsEnforce(t) \/ DnsStart(t) \/ DnsRedirect(t)
  \/ DnsEnd(t) \/ DnsStop(t) \/ DnsKeep(t) \/ DnsLog(t) \/ DnsUnlock(t)

ApplyStep(t) ==
  ApplySkip(t) \/ ApplyLock(t) \/ Snapshot(t) \/ Install(t) \/ ApplyUnlock(t)

ThreadStep(t) == SetEnforce(t) \/ DnsStep(t) \/ ApplyStep(t) \/ Cut(t)

Tick == Drain \/ \E a \in Apps : ConnSeen(a)

Lifecycle == Started \/ StopRedirect \/ StopResolver \/ StopFw

Next ==
  \/ \E h \in Handlers : HandlerRequest(h)
  \/ \E t \in Threads : ThreadStep(t)
  \/ Tick
  \/ \E a \in Apps, d \in Dirs : DropSeen(a, d)
  \/ Lifecycle \/ Stop \/ Stopped

\* A thread that has called something finishes it; requests are bounded, so
\* weak fairness of the mutex is enough.  Nobody has to send a request, the
\* network may stay silent, and nobody has to stop the engine.
Fairness ==
  /\ \A t \in Threads : WF_vars(ThreadStep(t))
  /\ WF_vars(Lifecycle)

Spec == Init /\ [][Next]_vars /\ Fairness

-----------------------------------------------------------------------------
(***************************************************************************)
(* Properties.                                                             *)
(***************************************************************************)
StopPCs == {"stopRedirect", "stopResolver", "stopFw"}
InMutex(t) == pc[t] \notin StopPCs \cup {"ready"}

\* Thread t will still read the configuration for an installation.
Owes(t) ==
  \/ "apply" \in todo[t] \/ pc[t] = "snap"
  \/ pc[t] = "dnsLog" /\ local.changed

Owed == phase = "stopping" \/ \E t \in Threads : Owes(t)
Busy == \E t \in Threads : pc[t] = "install"

\* Nothing a handler started is unfinished.
Quiet == phase = "running" /\ \A t \in Threads : Idle(t)

\* dns_apply has read that the DNS filter is wanted, or that it is not.
WantsOn(t)  == pc[t] = "dnsRedirect" \/ (pc[t] \in {"dnsEnforce", "dnsAct"} /\ local.want)
WantsOff(t) == pc[t] = "dnsStop" \/ (pc[t] \in {"dnsEnforce", "dnsAct"} /\ ~local.want)

Settled == {a \in Apps : pinned[a]}

Installer == INSTANCE PolicyInstaller WITH
  Policies <- FwPolicies, Nothing <- NoPolicy,
  want <- Desired, settled <- Settled, busy <- Busy, taken <- snap,
  inForce <- installed, ok <- applyOk, open <- fwActive, owed <- Owed

\* g_enforce_lock: exactly the thread inside dns_apply or apply_enforcement
\* holds it, and its recursion depth is that of the calls, so the nested
\* apply_enforcement at the end of dns_apply neither blocks nor frees it early.
MutexDiscipline ==
  /\ \A t \in Threads : InMutex(t) <=> holder = t
  /\ holder = NoThread <=> depth = 0
  /\ \A t \in Threads : InMutex(t) /\ pc[t] \notin {"snap", "install", "log"} => depth = 1

\* Handlers work only while the engine runs, engine_start and engine_stop alone.
PhaseDiscipline ==
  /\ \A h \in Handlers : pc[h] \notin StopPCs /\ (phase # "running" => Idle(h))
  /\ phase # "starting" => todo[Main] = {}
  /\ phase \in {"running", "stopped"} => pc[Main] = "ready"
  /\ phase = "stopping" <=> pc[Main] \in StopPCs

\* Without a running filter nothing is, or is about to be, installed.
FilterDiscipline ==
  /\ ~fwActive => installed = NoPolicy
  /\ \A t \in Threads : pc[t] \in {"snap", "install"} => fwActive
  /\ phase = "stopped" => ~fwActive

\* The order of dnsd_start, redirect, g_dns_active and their reverse.
DnsDiscipline ==
  /\ redirected => dnsActive
  /\ dnsActive => resolver /\ (redirected \/ \E t \in Threads : pc[t] \in {"dnsStop", "stopResolver"})
  /\ resolver => dnsActive \/ \E t \in Threads : pc[t] = "dnsRedirect"
  /\ \A t \in Threads : pc[t] = "dnsRedirect" => ~dnsActive /\ resolver
  /\ \A t \in Threads : pc[t] \in {"dnsStop", "stopResolver"} => ~redirected
  /\ \A t \in Threads : pc[t] \in {"dnsRedirect", "dnsStop"} => local.changed
  /\ pc[Main] = "stopFw" \/ phase = "stopped" => ~dnsActive

\* With the filter switched off somebody still looks, is switching it off, or
\* it is off and nobody is about to switch it on.
DnsIntent ==
  ~cfg.dnsFilter =>
    \/ \E t \in Threads : "dns" \in todo[t] \/ pc[t] = "dnsRead" \/ WantsOff(t)
    \/ ~dnsActive /\ \A t \in Threads : ~WantsOn(t)

\* The user decides only about programs the engine has met.
PinDiscipline == \A a \in Apps : pinned[a] => cfg.policy[a] # "unseen"

\* The inductive invariant the theorems of Enforcement_proofs rest on.
IInv ==
  /\ MutexDiscipline /\ PhaseDiscipline /\ FilterDiscipline
  /\ DnsDiscipline /\ DnsIntent /\ PinDiscipline

\* Every decision of the user (posture, defaults, pinned programs, rules, DNS
\* guard, encrypted DNS) is what the kernel holds, once no thread still has to
\* read the configuration and the last installation succeeded: no interleaving
\* of two handlers leaves an older snapshot in force.
DecisionsEnforced == Installer!Agreement

\* The concurrent handlers, dns_apply and apply_enforcement implement one
\* installer that takes the policy as a whole and commits or keeps the old one.
ImplementsInstaller == Installer!Spec

\* Names are redirected to the proxy only while the proxy answers, in every
\* intermediate state of dns_apply and engine_stop.
RedirectServed == redirected => resolver

\* When all calls have returned, the DNS filter runs only if the setting asks
\* for it, whatever the order of the handlers that toggled it, and the guard in
\* the packet filter that refuses other DNS servers is in force only if the
\* proxy serves the system.
DnsSettled ==
  Quiet =>
    /\ dnsActive => cfg.dnsFilter
    /\ applyOk /\ installed.guard => resolver /\ redirected

\* engine_stop leaves no filter, no redirect and no half-done call behind.
StoppedClean ==
  phase = "stopped" =>
    /\ installed = NoPolicy /\ ~fwActive
    /\ ~redirected /\ ~resolver
    /\ \A t \in Threads : Idle(t)

\* A posture the user sets reaches the packet filter, or is replaced by a later
\* one, or an installation failed, or there is no filter (any more).
PostureReaches ==
  \A p \in Postures :
    (phase = "running" /\ cfg.posture = p) ~>
      (installed.posture = p \/ cfg.posture # p \/ ~applyOk \/ ~fwActive)

\* Every call a handler makes returns: the mutex is recursive where the code
\* relies on it and is always given back.
CallsReturn == \A t \in Threads : todo[t] # {} ~> (todo[t] = {} /\ pc[t] = "ready")

-----------------------------------------------------------------------------
(***************************************************************************)
(* What the interface says, and the code does not keep.                    *)
(***************************************************************************)

\* src/web/index.html calls the posture off "Monitor without blocking": with no
\* call in progress, the proxy that answers the system's DNS queries refuses the
\* listed names exactly when the posture is on or lockdown.
EnforceFollowsPosture ==
  Quiet /\ redirected /\ resolver => (enforce <=> cfg.posture # "off")

=============================================================================
