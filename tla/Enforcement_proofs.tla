------------------------ MODULE Enforcement_proofs ------------------------
(***************************************************************************)
(* Theorems about Enforcement, for any set of programs, rules and handlers *)
(* and any number of requests.                                             *)
(*                                                                         *)
(* The last part is about the engines themselves, of which one is to run   *)
(* on a machine: the theorems of Instances.                                *)
(***************************************************************************)
EXTENDS Enforcement, Instances, FiniteSetTheorems, TLAPS

USE DEF Threads, Tasks, Postures, Words, Dirs, PCs

(***************************************************************************)
(* Type correctness.                                                       *)
(***************************************************************************)
LEMMA DesiredType == TypeOK => Desired \in FwPolicies
  BY DEF TypeOK, Desired, FwPolicies, Config

LEMMA NoPolicyType == NoPolicy \in FwPolicies
  BY DEF NoPolicy, FwPolicies

LEMMA TypeInit == Init => TypeOK
<1> SUFFICES ASSUME Init PROVE TypeOK OBVIOUS
<1>1. cfg \in Config /\ requests \in 0..MaxRequests
  BY ConfigAssumption, BoundAssumption DEF Init
<1>2. local \in Locals BY DEF Init, Locals, NoLocal
<1>3. drops \in [Apps -> Dirs \cup {"none"}] /\ pc \in [Threads -> PCs]
      /\ arg \in [Threads -> Postures]
  BY DEF Init
<1>4. todo \in [Threads -> SUBSET Tasks] BY DEF Init
<1>5. /\ dnsActive \in BOOLEAN /\ resolver \in BOOLEAN /\ redirected \in BOOLEAN
      /\ enforce \in BOOLEAN /\ applyOk \in BOOLEAN
  BY DEF Init
<1> QED BY <1>1, <1>2, <1>3, <1>4, <1>5, NoPolicyType DEF Init, TypeOK

\* The parts of the state that a request changes keep their type.
LEMMA RequestType ==
  ASSUME TypeOK, NEW h \in Handlers, HandlerRequest(h)
  PROVE  TypeOK'
<1>1. \A tasks \in SUBSET Tasks :
        Request(h, tasks) /\ cfg' \in Config /\ pinned' \in [Apps -> BOOLEAN]
          /\ arg' \in [Threads -> Postures] => TypeOK'
  BY BoundAssumption DEF TypeOK, Request, dnsVars, fwVars, lockVars, bufVars
<1>2. ASSUME NEW a \in Apps, NEW word \in Words, SetPolicy(h, a, word) PROVE TypeOK'
  <2>1. cfg' \in Config BY <1>2 DEF SetPolicy, TypeOK, Config
  <2>2. pinned' \in [Apps -> BOOLEAN] /\ arg' \in [Threads -> Postures]
    BY <1>2 DEF SetPolicy, TypeOK
  <2>3. SetPolicyTasks(word) \in SUBSET Tasks BY DEF SetPolicyTasks
  <2> QED BY <1>1, <1>2, <2>1, <2>2, <2>3 DEF SetPolicy
<1>3. ASSUME NEW r \in Rules, NEW state \in {"off", "on"}, RuleCreate(h, r, state) \/ RulePatch(h, r, state)
      PROVE TypeOK'
  <2>1. cfg' \in Config BY <1>3 DEF RuleCreate, RulePatch, TypeOK, Config
  <2> QED BY <1>1, <1>3, <2>1 DEF RuleCreate, RulePatch, RuleTasks, TypeOK
<1>4. ASSUME NEW r \in Rules, RuleDelete(h, r) PROVE TypeOK'
  <2>1. cfg' \in Config BY <1>4 DEF RuleDelete, TypeOK, Config
  <2> QED BY <1>1, <1>4, <2>1 DEF RuleDelete, RuleTasks, TypeOK
<1>5. ASSUME NEW p \in Patches, NEW u \in BOOLEAN, SettingsPatch(h, p, u) PROVE TypeOK'
  <2>1. cfg' \in Config BY <1>5, PatchAssumption DEF SettingsPatch, TypeOK, Config
  <2>2. SettingsTasks(p, u) \in SUBSET Tasks BY DEF SettingsTasks
  <2> QED BY <1>1, <1>5, <2>1, <2>2 DEF SettingsPatch, TypeOK
<1>6. ASSUME NEW p \in Postures, SetPosture(h, p) PROVE TypeOK'
  <2>1. cfg' \in Config BY <1>6 DEF SetPosture, TypeOK, Config
  <2>2. arg' \in [Threads -> Postures] BY <1>6 DEF SetPosture, TypeOK
  <2> QED BY <1>1, <1>6, <2>1, <2>2 DEF SetPosture, SetPostureTasks, TypeOK
<1> QED BY <1>2, <1>3, <1>4, <1>5, <1>6 DEF HandlerRequest

LEMMA DnsType ==
  ASSUME TypeOK, NEW t \in Threads, DnsStep(t)
  PROVE  TypeOK'
<1> USE DEF TypeOK, Goto, Enter, Acquire, Release, cfgVars, dnsVars, fwVars, lockVars, bufVars,
            lifeVars, Locals
<1>1. CASE DnsLock(t) BY <1>1 DEF DnsLock, Starts
<1>2. CASE DnsRead(t)
  <2>1. local' \in Locals BY <1>2 DEF DnsRead, Config
  <2> QED BY <1>2, <2>1 DEF DnsRead
<1>3. CASE DnsEnforce(t) BY <1>3 DEF DnsEnforce
<1>4. CASE DnsStart(t)
  <2>1. local' \in Locals BY <1>4 DEF DnsStart
  <2>2. resolver' \in BOOLEAN BY <1>4 DEF DnsStart
  <2>3. pc' \in [Threads -> PCs] BY <1>4 DEF DnsStart
  <2> QED BY <1>4, <2>1, <2>2, <2>3 DEF DnsStart
<1>5. CASE DnsRedirect(t)
  <2>1. redirected' \in BOOLEAN /\ dnsActive' \in BOOLEAN /\ resolver' \in BOOLEAN
    BY <1>5 DEF DnsRedirect
  <2> QED BY <1>5, <2>1 DEF DnsRedirect
<1>6. CASE DnsEnd(t)
  <2>1. local' \in Locals BY <1>6 DEF DnsEnd
  <2> QED BY <1>6, <2>1 DEF DnsEnd, EndRedirect
<1>7. CASE DnsStop(t)
  <2>1. dnsActive' \in BOOLEAN /\ resolver' \in BOOLEAN BY <1>7 DEF DnsStop, EndResolver
  <2> QED BY <1>7, <2>1 DEF DnsStop, EndResolver
<1>8. CASE DnsKeep(t) BY <1>8 DEF DnsKeep
<1>9. CASE DnsLog(t) BY <1>9 DEF DnsLog, NoLocal
<1>10. CASE DnsUnlock(t) BY <1>10 DEF DnsUnlock
<1> QED BY <1>1, <1>2, <1>3, <1>4, <1>5, <1>6, <1>7, <1>8, <1>9, <1>10 DEF DnsStep

LEMMA ApplyType ==
  ASSUME TypeOK, NEW t \in Threads, SetEnforce(t) \/ ApplyStep(t) \/ Cut(t)
  PROVE  TypeOK'
<1> USE DEF TypeOK, Goto, Enter, Acquire, Release, cfgVars, dnsVars, fwVars, lockVars, bufVars,
            lifeVars
<1>1. CASE SetEnforce(t) BY <1>1 DEF SetEnforce
<1>2. CASE ApplySkip(t) BY <1>2 DEF ApplySkip
<1>3. CASE ApplyLock(t) BY <1>3 DEF ApplyLock
<1>4. CASE Snapshot(t) BY <1>4, DesiredType DEF Snapshot
<1>5. CASE Install(t) BY <1>5, NoPolicyType DEF Install
<1>6. CASE ApplyUnlock(t) BY <1>6 DEF ApplyUnlock
<1>7. CASE Cut(t) BY <1>7 DEF Cut
<1> QED BY <1>1, <1>2, <1>3, <1>4, <1>5, <1>6, <1>7 DEF ApplyStep

LEMMA OtherType ==
  ASSUME TypeOK,
         Tick \/ Lifecycle \/ Stop \/ Stopped \/ \E a \in Apps, d \in Dirs : DropSeen(a, d)
  PROVE  TypeOK'
<1> USE DEF TypeOK, Goto, cfgVars, dnsVars, fwVars, lockVars, bufVars, ctlVars, lifeVars
<1> DEFINE Found == [a \in Apps |-> IF drops[a] # "none" /\ cfg.policy[a] = "unseen"
                                      THEN DiscoveredPolicy(a) ELSE cfg.policy[a]]
<1>1. CASE Drain
  <2>1. \A a \in Apps : Found[a] \in Words \cup {"unseen"} BY DEF DiscoveredPolicy, Config
  <2>2. Found \in [Apps -> Words \cup {"unseen"}] BY <2>1
  <2>3. cfg' \in Config BY <1>1, <2>2 DEF Drain, Config
  <2> QED BY <1>1, <2>3 DEF Drain
<1>2. ASSUME NEW a \in Apps, ConnSeen(a) PROVE TypeOK'
  <2>1. cfg' \in Config BY <1>2 DEF ConnSeen, Config
  <2> QED BY <1>2, <2>1 DEF ConnSeen
<1>3. ASSUME NEW a \in Apps, NEW d \in Dirs, DropSeen(a, d) PROVE TypeOK'
  BY <1>3 DEF DropSeen
<1>4. CASE Lifecycle
  <2>1. CASE Started BY <2>1 DEF Started
  <2>2. CASE StopRedirect
    <3>1. redirected' \in BOOLEAN BY <2>2 DEF StopRedirect, EndRedirect
    <3> QED BY <2>2, <3>1 DEF StopRedirect, EndRedirect
  <2>3. CASE StopResolver
    <3>1. dnsActive' \in BOOLEAN /\ resolver' \in BOOLEAN BY <2>3 DEF StopResolver, EndResolver
    <3> QED BY <2>3, <3>1 DEF StopResolver, EndResolver
  <2>4. CASE StopFw
    <3>1. fwActive' \in BOOLEAN BY <2>4 DEF StopFw
    <3> QED BY <2>4, <3>1, NoPolicyType DEF StopFw
  <2> QED BY <1>4, <2>1, <2>2, <2>3, <2>4 DEF Lifecycle
<1>5. CASE Stop BY <1>5 DEF Stop
<1>6. CASE Stopped BY <1>6 DEF Stopped, vars
<1> QED BY <1>1, <1>2, <1>3, <1>4, <1>5, <1>6 DEF Tick

LEMMA TypeStep == TypeOK /\ [Next]_vars => TypeOK'
<1> SUFFICES ASSUME TypeOK, [Next]_vars PROVE TypeOK' OBVIOUS
<1>1. CASE UNCHANGED vars
  BY <1>1 DEF TypeOK, vars, cfgVars, dnsVars, fwVars, lockVars, bufVars, ctlVars, lifeVars
<1>2. ASSUME NEW h \in Handlers, HandlerRequest(h) PROVE TypeOK' BY <1>2, RequestType
<1>3. ASSUME NEW t \in Threads, ThreadStep(t) PROVE TypeOK'
  BY <1>3, DnsType, ApplyType DEF ThreadStep
<1>4. CASE Tick \/ Lifecycle \/ Stop \/ Stopped \/ \E a \in Apps, d \in Dirs : DropSeen(a, d)
  BY <1>4, OtherType
<1> QED BY <1>1, <1>2, <1>3, <1>4 DEF Next

\* Every variable keeps its type in every reachable state.
THEOREM TypeCorrect == Spec => []TypeOK
  BY TypeInit, TypeStep, PTL DEF Spec

(***************************************************************************)
(* What requests, the tick thread and the network leave alone.             *)
(***************************************************************************)
LEMMA RequestFrame ==
  ASSUME NEW h \in Handlers, HandlerRequest(h)
  PROVE  /\ \E tasks \in SUBSET Tasks : Request(h, tasks)
         /\ UNCHANGED <<dnsVars, fwVars, lockVars, bufVars, pc, phase>>
<1>1. ASSUME NEW tasks, Request(h, tasks)
      PROVE  UNCHANGED <<dnsVars, fwVars, lockVars, bufVars, pc, phase>>
  BY <1>1 DEF Request
<1>2. \E tasks \in SUBSET Tasks : Request(h, tasks)
  BY DEF HandlerRequest, SetPolicy, RuleCreate, RulePatch, RuleDelete, SettingsPatch, SetPosture,
         SetPolicyTasks, RuleTasks, SettingsTasks, SetPostureTasks
<1> QED BY <1>1, <1>2

LEMMA TickFrame ==
  ASSUME Tick \/ Stopped \/ \E a \in Apps, d \in Dirs : DropSeen(a, d)
  PROVE  /\ UNCHANGED <<dnsVars, fwVars, lockVars, bufVars, ctlVars, phase>>
         /\ pinned' = pinned
BY DEF Tick, Drain, ConnSeen, DropSeen, Stopped, vars, cfgVars, lifeVars

LEMMA ThreadFrame ==
  ASSUME NEW t \in Threads, ThreadStep(t)
  PROVE  UNCHANGED <<cfgVars, phase>>
<1> USE DEF cfgVars, lifeVars
<1>1. CASE DnsStep(t)
  BY <1>1 DEF DnsStep, DnsLock, DnsRead, DnsEnforce, DnsStart, DnsRedirect, DnsEnd, DnsStop, DnsKeep,
              DnsLog, DnsUnlock
<1>2. CASE ApplyStep(t)
  BY <1>2 DEF ApplyStep, ApplySkip, ApplyLock, Snapshot, Install, ApplyUnlock
<1>3. CASE SetEnforce(t) \/ Cut(t) BY <1>3 DEF SetEnforce, Cut
<1> QED BY <1>1, <1>2, <1>3 DEF ThreadStep

(***************************************************************************)
(* The mutex.                                                              *)
(***************************************************************************)
LEMMA MutexStep ==
  ASSUME TypeOK, MutexDiscipline, PhaseDiscipline, [Next]_vars
  PROVE  MutexDiscipline'
<1> USE ThreadAssumption DEF MutexDiscipline, InMutex, StopPCs, TypeOK, Goto, Enter, Acquire, Release,
        Starts, lockVars, ctlVars, lifeVars
<1>1. CASE UNCHANGED vars BY <1>1 DEF vars
<1>2. ASSUME NEW h \in Handlers, HandlerRequest(h) PROVE MutexDiscipline'
  BY <1>2, RequestFrame
<1>3. ASSUME NEW t \in Threads, DnsStep(t) PROVE MutexDiscipline'
  <2>1. CASE DnsLock(t) BY <2>1 DEF DnsLock
  <2>2. CASE DnsRead(t) BY <2>2 DEF DnsRead
  <2>3. CASE DnsEnforce(t) BY <2>3 DEF DnsEnforce
  <2>4. CASE DnsStart(t) BY <2>4 DEF DnsStart
  <2>5. CASE DnsRedirect(t) BY <2>5 DEF DnsRedirect
  <2>6. CASE DnsEnd(t) BY <2>6 DEF DnsEnd
  <2>7. CASE DnsStop(t) BY <2>7 DEF DnsStop
  <2>8. CASE DnsKeep(t) BY <2>8 DEF DnsKeep
  <2>9. CASE DnsLog(t) BY <2>9 DEF DnsLog
  <2>10. CASE DnsUnlock(t) BY <2>10 DEF DnsUnlock
  <2> QED BY <1>3, <2>1, <2>2, <2>3, <2>4, <2>5, <2>6, <2>7, <2>8, <2>9, <2>10 DEF DnsStep
<1>4. ASSUME NEW t \in Threads, SetEnforce(t) \/ ApplyStep(t) \/ Cut(t) PROVE MutexDiscipline'
  <2>1. CASE SetEnforce(t) BY <2>1 DEF SetEnforce
  <2>2. CASE ApplySkip(t) BY <2>2 DEF ApplySkip
  <2>3. CASE ApplyLock(t) BY <2>3 DEF ApplyLock
  <2>4. CASE Snapshot(t) BY <2>4 DEF Snapshot
  <2>5. CASE Install(t) BY <2>5 DEF Install
  <2>6. CASE ApplyUnlock(t) BY <2>6 DEF ApplyUnlock
  <2>7. CASE Cut(t) BY <2>7 DEF Cut
  <2> QED BY <1>4, <2>1, <2>2, <2>3, <2>4, <2>5, <2>6, <2>7 DEF ApplyStep
<1>5. CASE Tick \/ Stopped \/ \E a \in Apps, d \in Dirs : DropSeen(a, d)
  BY <1>5, TickFrame
<1>6. CASE Lifecycle
  BY <1>6 DEF Lifecycle, Started, StopRedirect, StopResolver, StopFw
<1>7. CASE Stop
  BY <1>7 DEF Stop, PhaseDiscipline
<1> QED BY <1>1, <1>2, <1>3, <1>4, <1>5, <1>6, <1>7 DEF Next, ThreadStep

(***************************************************************************)
(* The phases.                                                             *)
(***************************************************************************)
LEMMA PhaseStep ==
  ASSUME TypeOK, PhaseDiscipline, [Next]_vars
  PROVE  PhaseDiscipline'
<1> USE ThreadAssumption DEF PhaseDiscipline, StopPCs, Idle, TypeOK, Goto, Enter, Starts, ctlVars, lifeVars
<1>1. CASE UNCHANGED vars BY <1>1 DEF vars
<1>2. ASSUME NEW h \in Handlers, HandlerRequest(h) PROVE PhaseDiscipline'
  BY <1>2, RequestFrame DEF Request
<1>3. ASSUME NEW t \in Threads, DnsStep(t) PROVE PhaseDiscipline'
  <2>1. CASE DnsLock(t) BY <2>1 DEF DnsLock
  <2>2. CASE DnsRead(t) BY <2>2 DEF DnsRead
  <2>3. CASE DnsEnforce(t) BY <2>3 DEF DnsEnforce
  <2>4. CASE DnsStart(t) BY <2>4 DEF DnsStart
  <2>5. CASE DnsRedirect(t) BY <2>5 DEF DnsRedirect
  <2>6. CASE DnsEnd(t) BY <2>6 DEF DnsEnd
  <2>7. CASE DnsStop(t) BY <2>7 DEF DnsStop
  <2>8. CASE DnsKeep(t) BY <2>8 DEF DnsKeep
  <2>9. CASE DnsLog(t) BY <2>9 DEF DnsLog
  <2>10. CASE DnsUnlock(t) BY <2>10 DEF DnsUnlock
  <2> QED BY <1>3, <2>1, <2>2, <2>3, <2>4, <2>5, <2>6, <2>7, <2>8, <2>9, <2>10 DEF DnsStep
<1>4. ASSUME NEW t \in Threads, SetEnforce(t) \/ ApplyStep(t) \/ Cut(t) PROVE PhaseDiscipline'
  <2>1. CASE SetEnforce(t) BY <2>1 DEF SetEnforce
  <2>2. CASE ApplySkip(t) BY <2>2 DEF ApplySkip
  <2>3. CASE ApplyLock(t) BY <2>3 DEF ApplyLock
  <2>4. CASE Snapshot(t) BY <2>4 DEF Snapshot
  <2>5. CASE Install(t) BY <2>5 DEF Install
  <2>6. CASE ApplyUnlock(t) BY <2>6 DEF ApplyUnlock
  <2>7. CASE Cut(t) BY <2>7 DEF Cut
  <2> QED BY <1>4, <2>1, <2>2, <2>3, <2>4, <2>5, <2>6, <2>7 DEF ApplyStep
<1>5. CASE Tick \/ Stopped \/ \E a \in Apps, d \in Dirs : DropSeen(a, d)
  BY <1>5, TickFrame
<1>6. CASE Lifecycle
  BY <1>6 DEF Lifecycle, Started, StopRedirect, StopResolver, StopFw
<1>7. CASE Stop BY <1>7 DEF Stop, WorkersDone
<1> QED BY <1>1, <1>2, <1>3, <1>4, <1>5, <1>6, <1>7 DEF Next, ThreadStep

(***************************************************************************)
(* The packet filter.                                                      *)
(***************************************************************************)
LEMMA FilterStep ==
  ASSUME TypeOK, PhaseDiscipline, FilterDiscipline, [Next]_vars
  PROVE  FilterDiscipline'
<1> USE ThreadAssumption DEF PhaseDiscipline, FilterDiscipline, StopPCs, Idle, TypeOK, Goto, Enter,
        Starts, fwVars, ctlVars, lifeVars
<1>1. CASE UNCHANGED vars BY <1>1 DEF vars
<1>2. ASSUME NEW h \in Handlers, HandlerRequest(h) PROVE FilterDiscipline'
  BY <1>2, RequestFrame
<1>3. ASSUME NEW t \in Threads, DnsStep(t) PROVE FilterDiscipline'
  <2>1. CASE DnsLock(t) BY <2>1 DEF DnsLock
  <2>2. CASE DnsRead(t) BY <2>2 DEF DnsRead
  <2>3. CASE DnsEnforce(t) BY <2>3 DEF DnsEnforce
  <2>4. CASE DnsStart(t) BY <2>4 DEF DnsStart
  <2>5. CASE DnsRedirect(t) BY <2>5 DEF DnsRedirect
  <2>6. CASE DnsEnd(t) BY <2>6 DEF DnsEnd
  <2>7. CASE DnsStop(t) BY <2>7 DEF DnsStop
  <2>8. CASE DnsKeep(t) BY <2>8 DEF DnsKeep
  <2>9. CASE DnsLog(t) BY <2>9 DEF DnsLog
  <2>10. CASE DnsUnlock(t) BY <2>10 DEF DnsUnlock
  <2> QED BY <1>3, <2>1, <2>2, <2>3, <2>4, <2>5, <2>6, <2>7, <2>8, <2>9, <2>10 DEF DnsStep
<1>4. ASSUME NEW t \in Threads, SetEnforce(t) \/ ApplyStep(t) \/ Cut(t) PROVE FilterDiscipline'
  <2>1. CASE SetEnforce(t) BY <2>1 DEF SetEnforce
  <2>2. CASE ApplySkip(t) BY <2>2 DEF ApplySkip
  <2>3. CASE ApplyLock(t) BY <2>3 DEF ApplyLock
  <2>4. CASE Snapshot(t) BY <2>4 DEF Snapshot
  <2>5. CASE Install(t) BY <2>5 DEF Install
  <2>6. CASE ApplyUnlock(t) BY <2>6 DEF ApplyUnlock
  <2>7. CASE Cut(t) BY <2>7 DEF Cut
  <2> QED BY <1>4, <2>1, <2>2, <2>3, <2>4, <2>5, <2>6, <2>7 DEF ApplyStep
<1>5. CASE Tick \/ Stopped \/ \E a \in Apps, d \in Dirs : DropSeen(a, d)
  BY <1>5, TickFrame
<1>6. CASE Lifecycle
  <2>1. CASE Started BY <2>1 DEF Started
  <2>2. CASE StopRedirect BY <2>2 DEF StopRedirect
  <2>3. CASE StopResolver BY <2>3 DEF StopResolver
  <2>4. CASE StopFw BY <2>4 DEF StopFw
  <2> QED BY <1>6, <2>1, <2>2, <2>3, <2>4 DEF Lifecycle
<1>7. CASE Stop BY <1>7 DEF Stop, WorkersDone
<1> QED BY <1>1, <1>2, <1>3, <1>4, <1>5, <1>6, <1>7 DEF Next, ThreadStep

(***************************************************************************)
(* The DNS filter: the order of starting and stopping it.                  *)
(***************************************************************************)
LEMMA DnsDisciplineStep ==
  ASSUME TypeOK, MutexDiscipline, PhaseDiscipline, DnsDiscipline, [Next]_vars
  PROVE  DnsDiscipline'
<1> USE ThreadAssumption DEF MutexDiscipline, InMutex, PhaseDiscipline, DnsDiscipline, StopPCs, Idle,
        TypeOK, Locals, Goto, Enter, Starts, dnsVars, bufVars, ctlVars, lifeVars
<1>1. CASE UNCHANGED vars BY <1>1 DEF vars
<1>2. ASSUME NEW h \in Handlers, HandlerRequest(h) PROVE DnsDiscipline'
  BY <1>2, RequestFrame DEF Request
<1>3. ASSUME NEW t \in Threads, DnsStep(t) PROVE DnsDiscipline'
  <2>1. CASE DnsLock(t) BY <2>1 DEF DnsLock, Acquire
  <2>2. CASE DnsRead(t) BY <2>2 DEF DnsRead
  <2>3. CASE DnsEnforce(t) BY <2>3 DEF DnsEnforce
  <2>4. CASE DnsStart(t) BY <2>4 DEF DnsStart
  <2>5. CASE DnsRedirect(t) BY <2>5 DEF DnsRedirect
  <2>6. CASE DnsEnd(t) BY <2>6 DEF DnsEnd, EndRedirect
  <2>7. CASE DnsStop(t) BY <2>7 DEF DnsStop, EndResolver
  <2>8. CASE DnsKeep(t) BY <2>8 DEF DnsKeep
  <2>9. CASE DnsLog(t) BY <2>9 DEF DnsLog
  <2>10. CASE DnsUnlock(t) BY <2>10 DEF DnsUnlock
  <2> QED BY <1>3, <2>1, <2>2, <2>3, <2>4, <2>5, <2>6, <2>7, <2>8, <2>9, <2>10 DEF DnsStep
<1>4. ASSUME NEW t \in Threads, SetEnforce(t) \/ ApplyStep(t) \/ Cut(t) PROVE DnsDiscipline'
  <2>1. CASE SetEnforce(t) BY <2>1 DEF SetEnforce
  <2>2. CASE ApplySkip(t) BY <2>2 DEF ApplySkip
  <2>3. CASE ApplyLock(t) BY <2>3 DEF ApplyLock
  <2>4. CASE Snapshot(t) BY <2>4 DEF Snapshot
  <2>5. CASE Install(t) BY <2>5 DEF Install
  <2>6. CASE ApplyUnlock(t) BY <2>6 DEF ApplyUnlock
  <2>7. CASE Cut(t) BY <2>7 DEF Cut
  <2> QED BY <1>4, <2>1, <2>2, <2>3, <2>4, <2>5, <2>6, <2>7 DEF ApplyStep
<1>5. CASE Tick \/ Stopped \/ \E a \in Apps, d \in Dirs : DropSeen(a, d)
  BY <1>5, TickFrame
<1>6. CASE Lifecycle
  <2>1. CASE Started BY <2>1 DEF Started
  <2>2. CASE StopRedirect BY <2>2 DEF StopRedirect, EndRedirect
  <2>3. CASE StopResolver BY <2>3 DEF StopResolver, EndResolver
  <2>4. CASE StopFw BY <2>4 DEF StopFw
  <2> QED BY <1>6, <2>1, <2>2, <2>3, <2>4 DEF Lifecycle
<1>7. CASE Stop BY <1>7 DEF Stop, WorkersDone
<1> QED BY <1>1, <1>2, <1>3, <1>4, <1>5, <1>6, <1>7 DEF Next, ThreadStep


(***************************************************************************)
(* The DNS filter: a filter that was switched off does not stay on.        *)
(***************************************************************************)
LEMMA DnsIntentStep ==
  ASSUME TypeOK, MutexDiscipline, PhaseDiscipline, DnsIntent, [Next]_vars
  PROVE  DnsIntent'
<1> USE ThreadAssumption DEF MutexDiscipline, InMutex, PhaseDiscipline, DnsIntent, WantsOn, WantsOff,
        StopPCs, Idle, TypeOK, Locals, Goto, Enter, Starts, dnsVars, cfgVars, bufVars, ctlVars, lifeVars
<1>1. CASE UNCHANGED vars BY <1>1 DEF vars
<1>2. ASSUME NEW h \in Handlers, HandlerRequest(h) PROVE DnsIntent'
  <2>1. PICK tasks \in SUBSET Tasks : Request(h, tasks) BY <1>2, RequestFrame
  <2>2. /\ pc' = pc /\ local' = local /\ dnsActive' = dnsActive
        /\ todo' = [todo EXCEPT ![h] = tasks] /\ todo[h] = {}
    BY <2>1 DEF Request
  <2>3. cfg'.dnsFilter = cfg.dnsFilter \/ "dns" \in todo'[h]
    <3>1. ASSUME NEW p \in Patches, NEW u \in BOOLEAN, SettingsPatch(h, p, u)
          PROVE  cfg'.dnsFilter = cfg.dnsFilter \/ "dns" \in todo'[h]
      <4>1. cfg'.dnsFilter = p.dnsFilter BY <3>1 DEF SettingsPatch, Config
      <4>2. todo'[h] = SettingsTasks(p, u) BY <3>1 DEF SettingsPatch, Request
      <4> QED BY <4>1, <4>2 DEF SettingsTasks
    <3>2. ASSUME NEW a \in Apps, NEW word \in Words, SetPolicy(h, a, word)
          PROVE  cfg'.dnsFilter = cfg.dnsFilter
      BY <3>2 DEF SetPolicy, Config
    <3>3. ASSUME NEW r \in Rules, NEW state \in {"off", "on"},
                 RuleCreate(h, r, state) \/ RulePatch(h, r, state) \/ RuleDelete(h, r)
          PROVE  cfg'.dnsFilter = cfg.dnsFilter
      BY <3>3 DEF RuleCreate, RulePatch, RuleDelete, Config
    <3>4. ASSUME NEW p \in Postures, SetPosture(h, p) PROVE cfg'.dnsFilter = cfg.dnsFilter
      BY <3>4 DEF SetPosture, Config
    <3> QED BY <1>2, <3>1, <3>2, <3>3, <3>4 DEF HandlerRequest
  <2>4. CASE cfg'.dnsFilter = cfg.dnsFilter
    <3>1. \A t \in Threads : todo[t] \subseteq todo'[t] BY <2>2
    <3> QED BY <2>2, <2>4, <3>1
  <2>5. CASE "dns" \in todo'[h] BY <2>5
  <2> QED BY <2>3, <2>4, <2>5
<1>3. ASSUME NEW t \in Threads, DnsStep(t) PROVE DnsIntent'
  <2>1. CASE DnsLock(t) BY <2>1 DEF DnsLock, Acquire
  <2>2. CASE DnsRead(t) BY <2>2 DEF DnsRead, Config
  <2>3. CASE DnsEnforce(t) BY <2>3 DEF DnsEnforce
  <2>4. CASE DnsStart(t) BY <2>4 DEF DnsStart
  <2>5. CASE DnsRedirect(t) BY <2>5 DEF DnsRedirect
  <2>6. CASE DnsEnd(t) BY <2>6 DEF DnsEnd, EndRedirect
  <2>7. CASE DnsStop(t) BY <2>7 DEF DnsStop, EndResolver
  <2>8. CASE DnsKeep(t) BY <2>8 DEF DnsKeep
  <2>9. CASE DnsLog(t) BY <2>9 DEF DnsLog
  <2>10. CASE DnsUnlock(t) BY <2>10 DEF DnsUnlock
  <2> QED BY <1>3, <2>1, <2>2, <2>3, <2>4, <2>5, <2>6, <2>7, <2>8, <2>9, <2>10 DEF DnsStep
<1>4. ASSUME NEW t \in Threads, SetEnforce(t) \/ ApplyStep(t) \/ Cut(t) PROVE DnsIntent'
  <2>1. CASE SetEnforce(t) BY <2>1 DEF SetEnforce
  <2>2. CASE ApplySkip(t) BY <2>2 DEF ApplySkip
  <2>3. CASE ApplyLock(t) BY <2>3 DEF ApplyLock
  <2>4. CASE Snapshot(t) BY <2>4 DEF Snapshot
  <2>5. CASE Install(t) BY <2>5 DEF Install
  <2>6. CASE ApplyUnlock(t) BY <2>6 DEF ApplyUnlock
  <2>7. CASE Cut(t) BY <2>7 DEF Cut
  <2> QED BY <1>4, <2>1, <2>2, <2>3, <2>4, <2>5, <2>6, <2>7 DEF ApplyStep
<1>5. CASE Tick \/ Stopped \/ \E a \in Apps, d \in Dirs : DropSeen(a, d)
  <2>1. cfg'.dnsFilter = cfg.dnsFilter
    BY <1>5 DEF Tick, Drain, ConnSeen, DropSeen, Stopped, vars, cfgVars, Config
  <2> QED BY <1>5, <2>1, TickFrame
<1>6. CASE Lifecycle
  <2>1. CASE Started BY <2>1 DEF Started
  <2>2. CASE StopRedirect BY <2>2 DEF StopRedirect, EndRedirect
  <2>3. CASE StopResolver BY <2>3 DEF StopResolver, EndResolver
  <2>4. CASE StopFw BY <2>4 DEF StopFw
  <2> QED BY <1>6, <2>1, <2>2, <2>3, <2>4 DEF Lifecycle
<1>7. CASE Stop BY <1>7 DEF Stop, WorkersDone
<1> QED BY <1>1, <1>2, <1>3, <1>4, <1>5, <1>6, <1>7 DEF Next, ThreadStep

LEMMA PinStep ==
  ASSUME TypeOK, PinDiscipline, [Next]_vars
  PROVE  PinDiscipline'
<1> USE DEF PinDiscipline, TypeOK, Config, cfgVars
<1>1. ASSUME UNCHANGED <<cfg, pinned>> PROVE PinDiscipline' BY <1>1
<1>2. ASSUME NEW h \in Handlers, HandlerRequest(h) PROVE PinDiscipline'
  <2>1. ASSUME NEW a \in Apps, NEW word \in Words, SetPolicy(h, a, word) PROVE PinDiscipline'
    <3>1. cfg'.policy = [cfg.policy EXCEPT ![a] = word] BY <2>1 DEF SetPolicy
    <3>2. pinned' = [pinned EXCEPT ![a] = TRUE] BY <2>1 DEF SetPolicy
    <3>3. ASSUME NEW b \in Apps, pinned'[b] PROVE cfg'.policy[b] # "unseen"
      <4>1. CASE b = a BY <4>1, <3>1
      <4>2. CASE b # a BY <4>2, <3>1, <3>2, <3>3
      <4> QED BY <4>1, <4>2
    <3> QED BY <3>3
  <2>2. ASSUME cfg'.policy = cfg.policy, pinned' = pinned PROVE PinDiscipline' BY <2>2
  <2>3. ASSUME NEW r \in Rules, NEW state \in {"off", "on"},
               RuleCreate(h, r, state) \/ RulePatch(h, r, state) \/ RuleDelete(h, r)
        PROVE  PinDiscipline'
    BY <2>3, <2>2 DEF RuleCreate, RulePatch, RuleDelete
  <2>4. ASSUME NEW p \in Patches, NEW u \in BOOLEAN, SettingsPatch(h, p, u) PROVE PinDiscipline'
    BY <2>4, <2>2 DEF SettingsPatch
  <2>5. ASSUME NEW p \in Postures, SetPosture(h, p) PROVE PinDiscipline'
    BY <2>5, <2>2 DEF SetPosture
  <2> QED BY <1>2, <2>1, <2>3, <2>4, <2>5 DEF HandlerRequest
<1>3. CASE Tick
  <2>1. pinned' = pinned /\ \A a \in Apps : cfg.policy[a] # "unseen" => cfg'.policy[a] = cfg.policy[a]
    BY <1>3 DEF Tick, Drain, ConnSeen
  <2> QED BY <2>1
<1>4. ASSUME NEW t \in Threads, ThreadStep(t) PROVE PinDiscipline'
  BY <1>4, <1>1, ThreadFrame
<1>5. CASE Lifecycle \/ Stop \/ Stopped \/ \E a \in Apps, d \in Dirs : DropSeen(a, d)
  BY <1>5, <1>1 DEF Lifecycle, Started, StopRedirect, StopResolver, StopFw, Stop, Stopped, vars, DropSeen
<1>6. CASE UNCHANGED vars BY <1>6, <1>1 DEF vars
<1> QED BY <1>2, <1>3, <1>4, <1>5, <1>6 DEF Next

(***************************************************************************)
(* The invariant, and the properties that follow from it.                  *)
(***************************************************************************)
LEMMA IInvInit == Init => IInv
<1> SUFFICES ASSUME Init PROVE IInv OBVIOUS
<1> USE ThreadAssumption DEF Init, StopPCs, InMutex, Idle
<1>1. MutexDiscipline BY DEF MutexDiscipline
<1>2. PhaseDiscipline BY DEF PhaseDiscipline
<1>3. FilterDiscipline BY DEF FilterDiscipline
<1>4. DnsDiscipline BY DEF DnsDiscipline
<1>5. DnsIntent BY DEF DnsIntent, WantsOn, WantsOff
<1>6. PinDiscipline BY DEF PinDiscipline
<1> QED BY <1>1, <1>2, <1>3, <1>4, <1>5, <1>6 DEF IInv

LEMMA IInvStep == TypeOK /\ IInv /\ [Next]_vars => IInv'
  BY MutexStep, PhaseStep, FilterStep, DnsDisciplineStep, DnsIntentStep, PinStep DEF IInv

\* The inductive invariant holds in every reachable state.
THEOREM IInvCorrect == Spec => []IInv
  BY IInvInit, IInvStep, TypeCorrect, PTL DEF Spec

\* The system resolver points at the proxy only while the proxy answers.
THEOREM RedirectIsServed == Spec => []RedirectServed
<1>1. IInv => RedirectServed BY DEF IInv, DnsDiscipline, RedirectServed
<1> QED BY <1>1, IInvCorrect, PTL

\* engine_stop leaves nothing of the engine in the system.
THEOREM StopIsClean == Spec => []StoppedClean
<1>1. TypeOK /\ IInv => StoppedClean
  BY ThreadAssumption DEF TypeOK, IInv, PhaseDiscipline, FilterDiscipline, DnsDiscipline, StoppedClean,
                          Idle, StopPCs
<1> QED BY <1>1, TypeCorrect, IInvCorrect, PTL

-----------------------------------------------------------------------------
(***************************************************************************)
(* What one installer, taking and committing whole policies, promises.     *)
(***************************************************************************)

\* What an installation took is what is wanted, until a later decision.
InstallerInv ==
  /\ Busy => fwActive
  /\ Busy /\ ~Owed => Installer!Same(snap, Desired, Settled)
  /\ Installer!Agreement

LEMMA InstallerInit == Installer!Init => InstallerInv
  BY DEF Installer!Init, InstallerInv, Installer!Agreement

LEMMA InstallerStep == InstallerInv /\ [Installer!Next]_(Installer!vars) => InstallerInv'
<1> SUFFICES ASSUME InstallerInv, [Installer!Next]_(Installer!vars) PROVE InstallerInv' OBVIOUS
<1> USE DEF InstallerInv, Installer!Agreement, Installer!Same
<1>1. CASE Installer!Decide BY <1>1 DEF Installer!Decide
<1>2. CASE Installer!Discover BY <1>2 DEF Installer!Discover
<1>3. CASE Installer!Take BY <1>3 DEF Installer!Take
<1>4. CASE Installer!Commit BY <1>4 DEF Installer!Commit
<1>5. CASE Installer!Excuse BY <1>5 DEF Installer!Excuse
<1>6. CASE Installer!Close BY <1>6 DEF Installer!Close
<1>7. CASE UNCHANGED Installer!vars BY <1>7 DEF Installer!vars
<1> QED BY <1>1, <1>2, <1>3, <1>4, <1>5, <1>6, <1>7 DEF Installer!Next

\* One installer, taking and committing whole policies, keeps the agreement.
THEOREM AgreementHolds == Installer!Spec => []Installer!Agreement
<1>1. InstallerInv => Installer!Agreement BY DEF InstallerInv
<1> QED BY <1>1, InstallerInit, InstallerStep, PTL DEF Installer!Spec

-----------------------------------------------------------------------------
(***************************************************************************)
(* The concurrent handlers implement one installer: every step of          *)
(* Enforcement is a step of PolicyInstaller or leaves it alone.            *)
(***************************************************************************)

\* The view of the installer has not changed, except that something may be
\* owed from now on.
LEMMA Stutter ==
  ASSUME TypeOK, TypeOK', UNCHANGED <<Desired, Settled, fwVars, snap>>, Busy' = Busy,
         Owed' = Owed \/ Owed' \/ ~fwActive
  PROVE  [Installer!Next]_(Installer!vars)
<1> USE DEF Installer!vars, fwVars
<1>1. CASE Owed' = Owed BY <1>1
<1>2. CASE Owed' = TRUE
  <2>1. Installer!Decide BY <1>2, DesiredType DEF Installer!Decide, Settled
  <2> QED BY <2>1 DEF Installer!Next
<1>3. CASE ~fwActive
  <2>1. Installer!Excuse BY <1>3 DEF Installer!Excuse, Owed
  <2> QED BY <2>1 DEF Installer!Next
<1> QED BY <1>1, <1>2, <1>3

LEMMA DesiredTypeNext == TypeOK' => Desired' \in FwPolicies
  BY DEF TypeOK, Desired, FwPolicies, Config

\* The policy asked for depends on the configuration and the DNS filter.
LEMMA DesiredFrame == UNCHANGED <<cfg, dnsActive>> => Desired' = Desired
  BY DEF Desired
LEMMA SettledFrame == pinned' = pinned => Settled' = Settled
  BY DEF Settled

LEMMA RequestRefines ==
  ASSUME TypeOK, TypeOK', IInv, NEW h \in Handlers, HandlerRequest(h)
  PROVE  [Installer!Next]_(Installer!vars)
<1> USE DEF Installer!vars, fwVars
<1>1. Busy' = Busy /\ UNCHANGED <<fwVars, snap, dnsActive, pc, local, phase>>
  BY RequestFrame DEF Busy, dnsVars, bufVars
<1>2. phase = "running" /\ \A t \in Threads : todo[t] \subseteq todo'[t]
  BY RequestFrame DEF Request, Idle, TypeOK
<1>3. CASE "apply" \in todo'[h]
  <2>1. Owed' = TRUE BY <1>3 DEF Owed, Owes
  <2>2. Settled \subseteq Settled'
    BY DEF HandlerRequest, SetPolicy, RuleCreate, RulePatch, RuleDelete, SettingsPatch, SetPosture,
           Settled, TypeOK
  <2>3. Installer!Decide BY <1>1, <2>1, <2>2, DesiredTypeNext DEF Installer!Decide, Settled
  <2> QED BY <2>3 DEF Installer!Next
<1>4. CASE "apply" \notin todo'[h]
  <2>1. PICK p \in Patches, u \in BOOLEAN : SettingsPatch(h, p, u) /\ "apply" \notin SettingsTasks(p, u)
    <3>1. \A tasks : Request(h, tasks) => todo'[h] = tasks BY DEF Request, TypeOK
    <3>2. ASSUME NEW a \in Apps, NEW word \in Words, SetPolicy(h, a, word) PROVE FALSE
      BY <1>4, <3>1, <3>2 DEF SetPolicy, SetPolicyTasks
    <3>3. ASSUME NEW r \in Rules, NEW state \in {"off", "on"},
                 RuleCreate(h, r, state) \/ RulePatch(h, r, state) \/ RuleDelete(h, r)
          PROVE  FALSE
      BY <1>4, <3>1, <3>3 DEF RuleCreate, RulePatch, RuleDelete, RuleTasks
    <3>4. ASSUME NEW p \in Postures, SetPosture(h, p) PROVE FALSE
      BY <1>4, <3>1, <3>4 DEF SetPosture, SetPostureTasks
    <3>5. \E p \in Patches, u \in BOOLEAN : SettingsPatch(h, p, u)
      BY <3>2, <3>3, <3>4 DEF HandlerRequest
    <3> QED BY <1>4, <3>1, <3>5 DEF SettingsPatch
  <2>2. p.doh = cfg.doh /\ p.default = cfg.default BY <2>1 DEF SettingsTasks
  <2>3. Desired' = Desired BY <1>1, <2>1, <2>2 DEF SettingsPatch, Desired, TypeOK, Config
  <2>4. Settled' = Settled BY <2>1, SettledFrame DEF SettingsPatch
  <2>5. \A t \in Threads : Owes(t)' = Owes(t)
    BY <1>1, <2>1, <1>4 DEF Owes, SettingsPatch, Request, Idle, TypeOK
  <2>6. Owed' = Owed BY <1>1, <2>5 DEF Owed
  <2> QED BY <1>1, <2>3, <2>4, <2>6, Stutter
<1> QED BY <1>3, <1>4

LEMMA DnsRefines ==
  ASSUME TypeOK, TypeOK', IInv, NEW t \in Threads, DnsStep(t)
  PROVE  [Installer!Next]_(Installer!vars)
<1> USE DEF TypeOK, Locals, Goto, Enter, Acquire, Release, Starts, cfgVars, dnsVars, fwVars, bufVars,
            ctlVars, lifeVars
<1>1. Settled' = Settled BY ThreadFrame, SettledFrame DEF ThreadStep
<1>2. cfg' = cfg /\ phase' = phase BY ThreadFrame DEF ThreadStep
<1>3. \A u \in Threads : u # t => pc'[u] = pc[u] /\ todo'[u] = todo[u]
  BY DEF DnsStep, DnsLock, DnsRead, DnsEnforce, DnsStart, DnsRedirect, DnsEnd, DnsStop, DnsKeep,
         DnsLog, DnsUnlock
<1>4. UNCHANGED <<fwVars, snap>>
  BY DEF DnsStep, DnsLock, DnsRead, DnsEnforce, DnsStart, DnsRedirect, DnsEnd, DnsStop, DnsKeep,
         DnsLog, DnsUnlock
<1>5. pc[t] # "install" /\ pc'[t] # "install"
  BY DEF DnsStep, DnsLock, DnsRead, DnsEnforce, DnsStart, DnsRedirect, DnsEnd, DnsStop, DnsKeep,
         DnsLog, DnsUnlock
<1>6. Busy' = Busy BY <1>3, <1>5 DEF Busy
<1>7. \A u \in Threads : u # t /\ pc[t] # "ready" => pc[u] # "dnsLog"
  BY DEF IInv, MutexDiscipline, InMutex, StopPCs, DnsStep, DnsLock, DnsRead, DnsEnforce, DnsStart,
         DnsRedirect, DnsEnd, DnsStop, DnsKeep, DnsLog, DnsUnlock
\* A step that changes only t's duty.
<1>8. ASSUME UNCHANGED local \/ pc[t] # "ready", Owes(t)' = Owes(t) PROVE Owed' = Owed
  <2>1. \A u \in Threads : Owes(u)' = Owes(u) BY <1>3, <1>7, <1>8 DEF Owes
  <2> QED BY <2>1, <1>2 DEF Owed
<1>9. ASSUME Owes(t)' PROVE Owed' = TRUE BY <1>9 DEF Owed
<1>10. CASE DnsLock(t)
  <2>1. Owed' = Owed BY <1>10, <1>8 DEF DnsLock, Owes
  <2> QED BY <1>1, <1>2, <1>4, <1>6, <1>10, <2>1, Stutter, DesiredFrame DEF DnsLock
<1>11. CASE DnsRead(t) \/ DnsEnforce(t) \/ DnsUnlock(t)
  <2>1. Owed' = Owed BY <1>11, <1>8 DEF DnsRead, DnsEnforce, DnsUnlock, Owes
  <2> QED BY <1>1, <1>2, <1>4, <1>6, <1>11, <2>1, Stutter, DesiredFrame DEF DnsRead, DnsEnforce, DnsUnlock
<1>12. CASE DnsStart(t) \/ DnsEnd(t) \/ DnsKeep(t)
  <2>1. Owed' = Owed \/ Owed'
    BY <1>12, <1>8, <1>9 DEF DnsStart, DnsEnd, DnsKeep, Owes
  <2>2. UNCHANGED dnsActive BY <1>12 DEF DnsStart, DnsEnd, DnsKeep, EndRedirect
  <2> QED BY <1>1, <1>2, <1>4, <1>6, <2>1, <2>2, Stutter, DesiredFrame
<1>13. CASE DnsRedirect(t) \/ DnsStop(t)
  <2>1. local.changed /\ local' = local /\ pc'[t] = "dnsLog"
    BY <1>13 DEF IInv, DnsDiscipline, DnsRedirect, DnsStop
  <2>2. Owed' = TRUE BY <1>9, <2>1 DEF Owes
  <2>3. Installer!Decide BY <1>1, <1>4, <1>6, <2>2, DesiredTypeNext DEF Installer!Decide, Settled
  <2> QED BY <2>3 DEF Installer!Next
<1>14. CASE DnsLog(t)
  <2>1. Owed' = Owed \/ Owed' \/ ~fwActive
    BY <1>14, <1>8, <1>9 DEF DnsLog, Owes, NoLocal
  <2> QED BY <1>1, <1>2, <1>4, <1>6, <1>14, <2>1, Stutter, DesiredFrame DEF DnsLog
<1> QED BY <1>10, <1>11, <1>12, <1>13, <1>14 DEF DnsStep

LEMMA ApplyRefines ==
  ASSUME TypeOK, TypeOK', IInv, NEW t \in Threads, SetEnforce(t) \/ ApplyStep(t) \/ Cut(t)
  PROVE  [Installer!Next]_(Installer!vars)
<1> USE DEF TypeOK, Goto, Enter, Acquire, Release, Starts, cfgVars, dnsVars, fwVars, bufVars,
            ctlVars, lifeVars
<1>1. UNCHANGED <<Settled, Desired, phase, local, fwActive>>
  <2>1. UNCHANGED <<cfg, pinned, dnsActive, phase, local, fwActive>>
    BY DEF SetEnforce, ApplyStep, ApplySkip, ApplyLock, Snapshot, Install, ApplyUnlock, Cut
  <2> QED BY <2>1, SettledFrame, DesiredFrame
<1>2. \A u \in Threads : u # t => pc'[u] = pc[u] /\ todo'[u] = todo[u]
  BY DEF SetEnforce, ApplyStep, ApplySkip, ApplyLock, Snapshot, Install, ApplyUnlock, Cut
<1>3. \A u \in Threads : u # t => Owes(u)' = Owes(u) BY <1>1, <1>2 DEF Owes
<1>4. ASSUME Owes(t)' = Owes(t) PROVE Owed' = Owed BY <1>1, <1>3, <1>4 DEF Owed
<1>5. ASSUME Owes(t)' PROVE Owed' = TRUE BY <1>5 DEF Owed
<1>6. ASSUME pc[t] # "install", pc'[t] # "install" PROVE Busy' = Busy BY <1>2, <1>6 DEF Busy
<1>7. ASSUME UNCHANGED <<fwVars, snap>>, Busy' = Busy, Owed' = Owed \/ Owed' \/ ~fwActive
      PROVE  [Installer!Next]_(Installer!vars)
  BY <1>1, <1>7, Stutter
<1>8. CASE SetEnforce(t) \/ Cut(t)
  <2>1. Owed' = Owed BY <1>8, <1>4 DEF SetEnforce, Cut, Owes
  <2>2. Busy' = Busy BY <1>8, <1>6 DEF SetEnforce, Cut
  <2> QED BY <1>7, <1>8, <2>1, <2>2 DEF SetEnforce, Cut
<1>9. CASE ApplySkip(t)
  <2>1. Busy' = Busy BY <1>9, <1>6 DEF ApplySkip
  <2> QED BY <1>7, <1>9, <2>1 DEF ApplySkip
<1>10. CASE ApplyLock(t)
  <2>1. Owed' = TRUE BY <1>10, <1>5 DEF ApplyLock, Owes
  <2>2. Busy' = Busy BY <1>10, <1>6 DEF ApplyLock
  <2> QED BY <1>7, <1>10, <2>1, <2>2 DEF ApplyLock
<1>11. CASE Snapshot(t)
  <2>1. ~Busy
    BY <1>11 DEF Snapshot, Busy, IInv, MutexDiscipline, InMutex, StopPCs
  <2>2. Busy' BY <1>11 DEF Snapshot, Busy
  <2>3. fwActive BY <1>11 DEF Snapshot, IInv, FilterDiscipline
  <2>4. Owed BY <1>11 DEF Snapshot, Owed, Owes
  <2>5. snap' = Desired /\ UNCHANGED fwVars BY <1>11 DEF Snapshot
  <2>6. Busy' = TRUE /\ Owed' \in {Owed, FALSE} BY <2>2, <2>4 DEF Busy, Owed
  <2>7. Installer!Take BY <1>1, <2>1, <2>3, <2>5, <2>6 DEF Installer!Take
  <2> QED BY <2>7 DEF Installer!Next
<1>12. CASE Install(t)
  <2>1. Busy BY <1>12 DEF Install, Busy
  <2>2. \A u \in Threads : u # t => pc[u] # "install"
    BY <1>12 DEF Install, IInv, MutexDiscipline, InMutex, StopPCs
  <2>3. Busy' = FALSE BY <1>2, <1>12, <2>2 DEF Install, Busy
  <2>4. Owed' = Owed BY <1>12, <1>4 DEF Install, Owes
  <2>5. /\ snap' = NoPolicy
        /\ \/ installed' = snap /\ applyOk' = TRUE
           \/ installed' = installed /\ applyOk' = FALSE
    BY <1>12 DEF Install
  <2>6. Installer!Commit BY <1>1, <2>1, <2>3, <2>4, <2>5 DEF Installer!Commit
  <2> QED BY <2>6 DEF Installer!Next
<1>13. CASE ApplyUnlock(t)
  <2>1. Owed' = Owed BY <1>13, <1>4 DEF ApplyUnlock, Owes
  <2>2. Busy' = Busy BY <1>13, <1>6 DEF ApplyUnlock
  <2> QED BY <1>7, <1>13, <2>1, <2>2 DEF ApplyUnlock
<1> QED BY <1>8, <1>9, <1>10, <1>11, <1>12, <1>13 DEF ApplyStep

LEMMA TickRefines ==
  ASSUME TypeOK, TypeOK', IInv,
         Tick \/ Stopped \/ \E a \in Apps, d \in Dirs : DropSeen(a, d)
  PROVE  [Installer!Next]_(Installer!vars)
<1> USE DEF Installer!vars, dnsVars, fwVars, bufVars, ctlVars
<1>1. UNCHANGED <<fwVars, snap, Busy, Owed, Settled>>
  BY TickFrame, SettledFrame DEF Busy, Owed, Owes
<1>2. CASE Tick
  <2>1. \A a \in Settled : cfg'.policy[a] = cfg.policy[a]
    BY <1>2 DEF Tick, Drain, ConnSeen, IInv, PinDiscipline, Settled, TypeOK, Config
  <2>2. /\ cfg'.posture = cfg.posture /\ cfg'.default = cfg.default
        /\ cfg'.rules = cfg.rules /\ cfg'.doh = cfg.doh
    BY <1>2 DEF Tick, Drain, ConnSeen, TypeOK, Config
  <2>3. dnsActive' = dnsActive BY TickFrame
  <2>4. Installer!Same(Desired', Desired, Settled)
    <3>1. Desired'.block \cap Settled = Desired.block \cap Settled BY <2>1 DEF Desired, Settled
    <3>2. Desired'.allow \cap Settled = Desired.allow \cap Settled BY <2>1 DEF Desired, Settled
    <3> QED BY <2>2, <2>3, <3>1, <3>2 DEF Installer!Same, Desired
  <2>5. Installer!Discover BY <1>1, <2>4, DesiredTypeNext DEF Installer!Discover
  <2> QED BY <2>5 DEF Installer!Next
<1>3. CASE Stopped \/ \E a \in Apps, d \in Dirs : DropSeen(a, d)
  <2>1. Desired' = Desired
    BY <1>3, TickFrame, DesiredFrame DEF Stopped, vars, cfgVars, DropSeen
  <2> QED BY <1>1, <2>1
<1> QED BY <1>2, <1>3

LEMMA LifecycleRefines ==
  ASSUME TypeOK, TypeOK', IInv, Lifecycle \/ Stop
  PROVE  [Installer!Next]_(Installer!vars)
<1> USE DEF TypeOK, Goto, cfgVars, dnsVars, fwVars, lockVars, bufVars, ctlVars, lifeVars
<1>1. Settled' = Settled /\ cfg' = cfg
  BY SettledFrame DEF Lifecycle, Started, StopRedirect, StopResolver, StopFw, Stop
<1>2. ~Busy /\ ~Busy'
  BY ThreadAssumption DEF Lifecycle, Started, StopRedirect, StopResolver, StopFw, Stop, Busy, Idle,
     IInv, PhaseDiscipline, StopPCs, WorkersDone
<1>3. Busy' = Busy BY <1>2 DEF Busy
<1>4. CASE Started
  <2>1. \A t \in Threads : Owes(t)' = Owes(t) BY <1>4 DEF Started, Owes
  <2>2. Owed' = Owed BY <1>4, <2>1 DEF Owed, Started
  <2> QED BY <1>1, <1>3, <1>4, <2>2, Stutter, DesiredFrame DEF Started
<1>5. CASE Stop \/ StopRedirect \/ StopResolver
  <2>1. phase' = "stopping"
    BY <1>5 DEF Stop, StopRedirect, StopResolver, IInv, PhaseDiscipline, StopPCs
  <2>2. Owed' = TRUE BY <2>1 DEF Owed
  <2>3. UNCHANGED <<fwVars, snap>>
    BY <1>5 DEF Stop, StopRedirect, StopResolver
  <2>4. Installer!Decide BY <1>1, <1>3, <2>2, <2>3, DesiredTypeNext DEF Installer!Decide, Settled
  <2> QED BY <2>4 DEF Installer!Next
<1>6. CASE StopFw
  <2>1. Desired' = Desired /\ UNCHANGED <<applyOk, snap>> BY <1>1, <1>6, DesiredFrame DEF StopFw
  <2>2. Owed' \in BOOLEAN BY DEF Owed
  <2>3. installed' = NoPolicy /\ fwActive' = FALSE BY <1>6 DEF StopFw
  <2>4. Installer!Close BY <1>1, <1>2, <1>3, <2>1, <2>2, <2>3 DEF Installer!Close
  <2> QED BY <2>4 DEF Installer!Next
<1> QED BY <1>4, <1>5, <1>6 DEF Lifecycle

LEMMA InitRefines == Init => Installer!Init
<1> SUFFICES ASSUME Init PROVE Installer!Init OBVIOUS
<1>1. Desired \in FwPolicies BY TypeInit, DesiredType
<1>2. Settled \subseteq Apps BY DEF Settled
<1>3. Busy = FALSE BY DEF Init, Busy
<1>4. Owed = TRUE
  <2>1. "apply" \in todo[Main] BY DEF Init
  <2> QED BY <2>1 DEF Owed, Owes
<1>5. fwActive \in BOOLEAN BY TypeInit DEF TypeOK
<1> QED BY <1>1, <1>2, <1>3, <1>4, <1>5 DEF Init, Installer!Init

LEMMA StepRefines ==
  TypeOK /\ TypeOK' /\ IInv /\ [Next]_vars => [Installer!Next]_(Installer!vars)
<1> SUFFICES ASSUME TypeOK, TypeOK', IInv, [Next]_vars PROVE [Installer!Next]_(Installer!vars)
  OBVIOUS
<1>1. CASE UNCHANGED vars
  <2>1. UNCHANGED <<Desired, Settled, fwVars, snap, Busy, Owed>>
    BY <1>1, DesiredFrame, SettledFrame
       DEF vars, cfgVars, dnsVars, bufVars, ctlVars, lifeVars, Busy, Owed, Owes
  <2> QED BY <2>1, Stutter
<1>2. CASE \E h \in Handlers : HandlerRequest(h) BY <1>2, RequestRefines
<1>3. CASE \E t \in Threads : ThreadStep(t) BY <1>3, DnsRefines, ApplyRefines DEF ThreadStep
<1>4. CASE Tick \/ Stopped \/ \E a \in Apps, d \in Dirs : DropSeen(a, d) BY <1>4, TickRefines
<1>5. CASE Lifecycle \/ Stop BY <1>5, LifecycleRefines
<1> QED BY <1>1, <1>2, <1>3, <1>4, <1>5 DEF Next

\* Concurrent handlers, dns_apply and apply_enforcement implement one installer.
THEOREM Refinement == Spec => ImplementsInstaller
<1>1. Spec => []TypeOK /\ []IInv BY TypeCorrect, IInvCorrect, PTL
<1> QED BY <1>1, InitRefines, StepRefines, PTL DEF Spec, ImplementsInstaller, Installer!Spec

\* Once nothing is owed, the user's decisions are what the kernel holds.
THEOREM DecisionsAreEnforced == Spec => []DecisionsEnforced
<1>1. ImplementsInstaller => []DecisionsEnforced
  BY AgreementHolds DEF ImplementsInstaller, DecisionsEnforced
<1> QED BY <1>1, Refinement, PTL

\* At rest the DNS filter follows its setting and its guard is served.
THEOREM DnsIsSettled == Spec => []DnsSettled
<1>1. TypeOK /\ IInv /\ DecisionsEnforced => DnsSettled
  <2> SUFFICES ASSUME TypeOK, IInv, DecisionsEnforced, Quiet PROVE
        /\ dnsActive => cfg.dnsFilter
        /\ applyOk /\ installed.guard => resolver /\ redirected
    BY DEF DnsSettled
  <2>1. \A t \in Threads : pc[t] = "ready" /\ todo[t] = {} BY DEF Quiet, Idle
  <2>2. dnsActive => cfg.dnsFilter BY <2>1 DEF IInv, DnsIntent, WantsOff
  <2>3. dnsActive => resolver /\ redirected BY <2>1 DEF IInv, DnsDiscipline
  <2>4. ~Owed /\ ~Busy BY <2>1 DEF Owed, Owes, Busy, Quiet
  <2>5. CASE fwActive /\ applyOk
    <3>1. installed.guard = Desired.guard
      BY <2>4, <2>5 DEF DecisionsEnforced, Installer!Agreement, Installer!Same
    <3> QED BY <2>2, <2>3, <3>1 DEF Desired
  <2>6. CASE ~fwActive
    <3>1. ~installed.guard BY <2>6 DEF IInv, FilterDiscipline, NoPolicy
    <3> QED BY <2>2, <3>1
  <2>7. CASE ~applyOk BY <2>2, <2>7
  <2> QED BY <2>5, <2>6, <2>7
<1> QED BY <1>1, TypeCorrect, IInvCorrect, DecisionsAreEnforced, PTL

-----------------------------------------------------------------------------
(***************************************************************************)
(* Instances, for any sets of process numbers and of ports, and any number *)
(* of launches and faults: what the starts and the ends of engines, clean  *)
(* or by a crash, do to the other file that outlives them.                 *)
(*                                                                         *)
(* EnginesInv is inductive: each of its parts is preserved by every        *)
(* action, the last three as long as there was no race, which is never     *)
(* undone.  The parts say together that a start that meets an engine finds *)
(* its record and its port, and goes no further.                           *)
(***************************************************************************)

USE DEF system, ghosts, bounds

\* What ends a process keeps the types.
LEMMA EndTypes ==
  ASSUME EnginesTypeOK, NEW p \in Pids, End(p)
  PROVE  /\ kind' \in [Pids -> Engines \cup Commands \cup {None}] /\ at' \in [Pids -> Labels]
         /\ port' \in [Pids -> Ports \cup {None}] /\ quit' \in [Pids -> BOOLEAN]
         /\ listener' \in [Ports -> Pids \cup {"other", None}]
         /\ asked' \subseteq Pids
<1>1. kind' \in [Pids -> Engines \cup Commands \cup {None}] BY DEF End, EnginesTypeOK
<1>2. at' \in [Pids -> Labels] BY DEF End, Proceed, EnginesTypeOK, Labels
<1>3. port' \in [Pids -> Ports \cup {None}] /\ quit' \in [Pids -> BOOLEAN] BY DEF End, EnginesTypeOK
<1>4. listener' \in [Ports -> Pids \cup {"other", None}] BY DEF End, EnginesTypeOK
<1>5. asked' \subseteq Pids BY DEF End, EnginesTypeOK
<1> QED BY <1>1, <1>2, <1>3, <1>4, <1>5

\* So does going on to another step.
LEMMA ProceedTypes ==
  ASSUME EnginesTypeOK, NEW p \in Pids, NEW l \in Labels, Proceed(p, l)
  PROVE  at' \in [Pids -> Labels]
  BY DEF Proceed, EnginesTypeOK

\* Every step keeps the types; a caller has the port of a record, so that an
\* engine that answers is a process.
LEMMA EnginesTypeStep == EnginesTypeOK /\ PortsMatch /\ [EnginesNext]_enginesVars => EnginesTypeOK'
<1> SUFFICES ASSUME EnginesTypeOK, PortsMatch, [EnginesNext]_enginesVars PROVE EnginesTypeOK' OBVIOUS
<1>1. ASSUME NEW p \in Pids, ReadRecord(p) PROVE EnginesTypeOK'
  <2>1. CASE Absent(p) BY <1>1, <2>1, EndTypes, ProceedTypes DEF ReadRecord, Absent,
      EnginesTypeOK, Labels
  <2>2. CASE Proceed(p, "unlink") /\ UNCHANGED <<kind, port, quit, listener, asked>>
    BY <1>1, <2>2, ProceedTypes DEF ReadRecord, EnginesTypeOK, Labels
  <2>3. CASE Recorded /\ port' = [port EXCEPT ![p] = record.port] /\ Proceed(p, "call")
    <3>1. record.port \in Ports BY <2>3 DEF EnginesTypeOK, Recorded
    <3>2. port' \in [Pids -> Ports \cup {None}] BY <2>3, <3>1 DEF EnginesTypeOK
    <3>3. at' \in [Pids -> Labels] BY <2>3, ProceedTypes DEF Labels
    <3>4. UNCHANGED <<kind, quit, listener, asked>> \/ Absent(p) \/ Proceed(p, "unlink")
      BY <1>1 DEF ReadRecord
    <3> QED BY <1>1, <2>3, <3>1, <3>2, <3>3 DEF ReadRecord, EnginesTypeOK
  <2> QED BY <1>1, <2>1, <2>2, <2>3 DEF ReadRecord
<1>2. ASSUME NEW p \in Pids, Unlink(p) PROVE EnginesTypeOK'
  BY <1>2, EndTypes, ProceedTypes DEF Unlink, Absent, EnginesTypeOK, Labels
<1>3. ASSUME NEW p \in Pids, CallEngine(p) PROVE EnginesTypeOK'
  <2> DEFINE q == listener[port[p]]
  <2>1. CASE End(p) BY <1>3, <2>1, EndTypes DEF CallEngine, EnginesTypeOK, Races
  <2>2. CASE Proceed(p, "clear") /\ UNCHANGED <<kind, port, quit, listener, asked, odd>>
    BY <1>3, <2>2, ProceedTypes DEF CallEngine, EnginesTypeOK, Labels
  <2>3. CASE kind[p] = "stop" /\ ~End(p)
    <3>1. at' \in [Pids -> Labels] BY <1>3, <2>3, ProceedTypes DEF CallEngine, Labels
    <3>2. kind' \in [Pids -> Engines \cup Commands \cup {None}] /\ port' \in [Pids -> Ports \cup {None}]
      BY <1>3, <2>3 DEF CallEngine, EnginesTypeOK
    <3>3. quit' \in [Pids -> BOOLEAN]
      <4>1. (quit[q] \/ Reaches(q)) \in BOOLEAN BY DEF Reaches
      <4> QED BY <1>3, <2>3, <4>1 DEF CallEngine, Start, Engines, EnginesTypeOK
    <3>4. asked' \subseteq Pids /\ odd' \subseteq Races /\ UNCHANGED listener
      BY <1>3, <2>3 DEF CallEngine, EnginesTypeOK, Races
    <3> QED BY <1>3, <3>1, <3>2, <3>3, <3>4 DEF CallEngine, EnginesTypeOK
  <2> QED BY <1>3, <2>1, <2>2, <2>3 DEF CallEngine
<1>4. ASSUME NEW p \in Pids, CallFails(p) PROVE EnginesTypeOK'
  BY <1>4, EndTypes, ProceedTypes DEF CallFails, EnginesTypeOK, Labels
<1>5. ASSUME NEW p \in Pids, Clear(p) PROVE EnginesTypeOK'
  BY <1>5, EndTypes, ProceedTypes DEF Clear, Absent, EnginesTypeOK, Labels
<1>6. ASSUME NEW p \in Pids, Pick(p) PROVE EnginesTypeOK'
  BY <1>6, EndTypes, ProceedTypes DEF Pick, EnginesTypeOK, Labels
<1>7. ASSUME NEW p \in Pids, Bind(p) PROVE EnginesTypeOK'
  BY <1>7, EndTypes, ProceedTypes DEF Bind, EnginesTypeOK, Labels
<1>8. ASSUME NEW p \in Pids, OpenRecord(p) PROVE EnginesTypeOK'
  BY <1>8, ProceedTypes DEF OpenRecord, Served, EnginesTypeOK, Labels, Races
<1>9. ASSUME NEW p \in Pids, WriteRecord(p) PROVE EnginesTypeOK'
  BY <1>9, ProceedTypes DEF WriteRecord, Served, Written, PortsMatch, Listening, EnginesTypeOK, Labels
<1>10. ASSUME NEW p \in Pids, Tray(p) PROVE EnginesTypeOK'
  BY <1>10, ProceedTypes DEF Tray, EnginesTypeOK, Labels
<1>11. ASSUME NEW p \in Pids, Leave(p) PROVE EnginesTypeOK'
  BY <1>11, ProceedTypes DEF Leave, EnginesTypeOK, Labels
<1>12. ASSUME NEW p \in Pids, CloseApi(p) PROVE EnginesTypeOK'
  BY <1>12, ProceedTypes DEF CloseApi, EnginesTypeOK, Labels, Races
<1>13. ASSUME NEW p \in Pids, Halt(p) PROVE EnginesTypeOK'
  BY <1>13, EndTypes DEF Halt, Left, EnginesTypeOK
<1>14. ASSUME NEW p \in Pids, Exit(p) PROVE EnginesTypeOK'
  BY <1>14 DEF Exit, EnginesTypeOK
<1>15. ASSUME NEW p \in Pids, Crash(p) PROVE EnginesTypeOK'
  BY <1>15, EndTypes DEF Crash, EnginesTypeOK
<1>16. ASSUME NEW p \in Pids, TakePid(p) PROVE EnginesTypeOK'
  BY <1>16 DEF TakePid, EnginesTypeOK
<1>17. ASSUME NEW p \in Pids, NEW k \in Engines \cup Commands, Launch(p, k) PROVE EnginesTypeOK'
  BY <1>17, ProceedTypes DEF Launch, EnginesTypeOK, Labels, Races
<1>18. ASSUME NEW x \in Ports, TakePort(x) PROVE EnginesTypeOK'
  BY <1>18 DEF TakePort, EnginesTypeOK
<1>19. CASE GiveBack BY <1>19 DEF GiveBack, EnginesTypeOK
<1>20. CASE UNCHANGED enginesVars BY <1>20 DEF enginesVars, EnginesTypeOK
<1> QED BY <1>1, <1>2, <1>3, <1>4, <1>5, <1>6, <1>7, <1>8, <1>9, <1>10, <1>11, <1>12, <1>13,
       <1>14, <1>15, <1>16, <1>17, <1>18, <1>19, <1>20 DEF EnginesNext, Step

-----------------------------------------------------------------------------
\* Every process is at a step of what it was launched for.
LEMMA KindsStep ==
  EnginesTypeOK /\ KindsMatch /\ [EnginesNext]_enginesVars => KindsMatch'
<1> SUFFICES ASSUME EnginesTypeOK, KindsMatch, [EnginesNext]_enginesVars PROVE KindsMatch' OBVIOUS
<1>1. ASSUME NEW p \in Pids, ReadRecord(p) PROVE KindsMatch'
  BY <1>1 DEF ReadRecord, Absent, Proceed, End, EnginesTypeOK, KindsMatch, Start
<1>2. ASSUME NEW p \in Pids, Unlink(p) PROVE KindsMatch'
  BY <1>2 DEF Unlink, Absent, Proceed, End, EnginesTypeOK, KindsMatch, Start
<1>3. ASSUME NEW p \in Pids, CallEngine(p) PROVE KindsMatch'
  BY <1>3 DEF CallEngine, Proceed, End, EnginesTypeOK, KindsMatch, Start
<1>4. ASSUME NEW p \in Pids, CallFails(p) PROVE KindsMatch'
  BY <1>4 DEF CallFails, Proceed, End, EnginesTypeOK, KindsMatch, Start
<1>5. ASSUME NEW p \in Pids, Clear(p) PROVE KindsMatch'
  BY <1>5 DEF Clear, Absent, Proceed, End, EnginesTypeOK, KindsMatch, Start
<1>6. ASSUME NEW p \in Pids, Pick(p) PROVE KindsMatch'
  BY <1>6 DEF Pick, Proceed, End, EnginesTypeOK, KindsMatch, Start
<1>7. ASSUME NEW p \in Pids, Bind(p) PROVE KindsMatch'
  BY <1>7 DEF Bind, Proceed, End, EnginesTypeOK, KindsMatch, Start
<1>8. ASSUME NEW p \in Pids, OpenRecord(p) PROVE KindsMatch'
  BY <1>8 DEF OpenRecord, Proceed, Served, EnginesTypeOK, KindsMatch, Start
<1>9. ASSUME NEW p \in Pids, WriteRecord(p) PROVE KindsMatch'
  BY <1>9 DEF WriteRecord, Proceed, Served, EnginesTypeOK, KindsMatch, Start
<1>10. ASSUME NEW p \in Pids, Tray(p) PROVE KindsMatch'
  BY <1>10 DEF Tray, Proceed, EnginesTypeOK, KindsMatch, Start
<1>11. ASSUME NEW p \in Pids, Leave(p) PROVE KindsMatch'
  BY <1>11 DEF Leave, Proceed, EnginesTypeOK, KindsMatch, Start
<1>12. ASSUME NEW p \in Pids, CloseApi(p) PROVE KindsMatch'
  BY <1>12 DEF CloseApi, Proceed, EnginesTypeOK, KindsMatch, Start
<1>13. ASSUME NEW p \in Pids, Halt(p) PROVE KindsMatch'
  BY <1>13 DEF Halt, Proceed, End, EnginesTypeOK, KindsMatch, Start
<1>14. ASSUME NEW p \in Pids, Exit(p) PROVE KindsMatch'
  BY <1>14 DEF Exit, KindsMatch, Start
<1>15. ASSUME NEW p \in Pids, Crash(p) PROVE KindsMatch'
  BY <1>15 DEF Crash, Proceed, End, EnginesTypeOK, KindsMatch, Start
<1>16. ASSUME NEW p \in Pids, TakePid(p) PROVE KindsMatch'
  BY <1>16 DEF TakePid, KindsMatch, Start
<1>17. ASSUME NEW p \in Pids, NEW k \in Engines \cup Commands, Launch(p, k) PROVE KindsMatch'
  BY <1>17, InstancesAssumption DEF Launch, Proceed, EnginesTypeOK, KindsMatch, Start, Engines, Commands
<1>18. ASSUME NEW x \in Ports, TakePort(x) PROVE KindsMatch'
  BY <1>18 DEF TakePort, KindsMatch, Start
<1>19. CASE GiveBack BY <1>19 DEF GiveBack, KindsMatch, Start
<1>20. CASE UNCHANGED enginesVars BY <1>20 DEF enginesVars, KindsMatch, Start
<1> QED BY <1>1, <1>2, <1>3, <1>4, <1>5, <1>6, <1>7, <1>8, <1>9, <1>10, <1>11, <1>12, <1>13,
       <1>14, <1>15, <1>16, <1>17, <1>18, <1>19, <1>20 DEF EnginesNext, Step

\* A port has its listener, and a listener its port.
LEMMA PortsStep ==
  EnginesTypeOK /\ PortsMatch /\ [EnginesNext]_enginesVars => PortsMatch'
<1> SUFFICES ASSUME EnginesTypeOK, PortsMatch, [EnginesNext]_enginesVars PROVE PortsMatch' OBVIOUS
<1>1. ASSUME NEW p \in Pids, ReadRecord(p) PROVE PortsMatch'
  BY <1>1 DEF ReadRecord, Absent, Recorded, Proceed, End, EnginesTypeOK, PortsMatch, Listening
<1>2. ASSUME NEW p \in Pids, Unlink(p) PROVE PortsMatch'
  BY <1>2 DEF Unlink, Absent, Proceed, End, EnginesTypeOK, PortsMatch, Listening
<1>3. ASSUME NEW p \in Pids, CallEngine(p) PROVE PortsMatch'
  BY <1>3 DEF CallEngine, Proceed, End, EnginesTypeOK, PortsMatch, Listening
<1>4. ASSUME NEW p \in Pids, CallFails(p) PROVE PortsMatch'
  BY <1>4 DEF CallFails, Proceed, End, EnginesTypeOK, PortsMatch, Listening
<1>5. ASSUME NEW p \in Pids, Clear(p) PROVE PortsMatch'
  BY <1>5 DEF Clear, Absent, Proceed, End, EnginesTypeOK, PortsMatch, Listening
<1>6. ASSUME NEW p \in Pids, Pick(p) PROVE PortsMatch'
  BY <1>6 DEF Pick, Proceed, End, EnginesTypeOK, PortsMatch, Listening
<1>7. ASSUME NEW p \in Pids, Bind(p) PROVE PortsMatch'
  BY <1>7, InstancesAssumption DEF Bind, Proceed, End, Free, EnginesTypeOK, PortsMatch, Listening
<1>8. ASSUME NEW p \in Pids, OpenRecord(p) PROVE PortsMatch'
  BY <1>8 DEF OpenRecord, Proceed, Served, EnginesTypeOK, PortsMatch, Listening
<1>9. ASSUME NEW p \in Pids, WriteRecord(p) PROVE PortsMatch'
  BY <1>9 DEF WriteRecord, Proceed, Served, PortsMatch, Listening
<1>10. ASSUME NEW p \in Pids, Tray(p) PROVE PortsMatch'
  BY <1>10 DEF Tray, Proceed, EnginesTypeOK, PortsMatch, Listening
<1>11. ASSUME NEW p \in Pids, Leave(p) PROVE PortsMatch'
  BY <1>11 DEF Leave, Proceed, PortsMatch, Listening
<1>12. ASSUME NEW p \in Pids, CloseApi(p) PROVE PortsMatch'
  BY <1>12, InstancesAssumption DEF CloseApi, Proceed, EnginesTypeOK, PortsMatch, Listening
<1>13. ASSUME NEW p \in Pids, Halt(p) PROVE PortsMatch'
  BY <1>13 DEF Halt, Proceed, End, PortsMatch, Listening
<1>14. ASSUME NEW p \in Pids, Exit(p) PROVE PortsMatch'
  BY <1>14 DEF Exit, PortsMatch
<1>15. ASSUME NEW p \in Pids, Crash(p) PROVE PortsMatch'
  BY <1>15, InstancesAssumption DEF Crash, Proceed, End, EnginesTypeOK, PortsMatch, Listening
<1>16. ASSUME NEW p \in Pids, TakePid(p) PROVE PortsMatch'
  BY <1>16 DEF TakePid, PortsMatch
<1>17. ASSUME NEW p \in Pids, NEW k \in Engines \cup Commands, Launch(p, k) PROVE PortsMatch'
  BY <1>17 DEF Launch, Alive, Proceed, PortsMatch, Listening
<1>18. ASSUME NEW x \in Ports, TakePort(x) PROVE PortsMatch'
  BY <1>18, InstancesAssumption DEF TakePort, Free, PortsMatch
<1>19. CASE GiveBack BY <1>19, InstancesAssumption DEF GiveBack, EnginesTypeOK, PortsMatch
<1>20. CASE UNCHANGED enginesVars BY <1>20 DEF enginesVars, PortsMatch
<1> QED BY <1>1, <1>2, <1>3, <1>4, <1>5, <1>6, <1>7, <1>8, <1>9, <1>10, <1>11, <1>12, <1>13,
       <1>14, <1>15, <1>16, <1>17, <1>18, <1>19, <1>20 DEF EnginesNext, Step

\* A record names an engine, or one that crashed.
LEMMA OwnedStep == EnginesTypeOK /\ RecordOwned /\ [EnginesNext]_enginesVars => RecordOwned'
<1> SUFFICES ASSUME EnginesTypeOK, RecordOwned, [EnginesNext]_enginesVars PROVE RecordOwned' OBVIOUS
<1>1. ASSUME NEW p \in Pids, ReadRecord(p) PROVE RecordOwned'
  BY <1>1 DEF ReadRecord, Recorded, Proceed, EnginesTypeOK, RecordOwned, Recorded
<1>2. ASSUME NEW p \in Pids, Unlink(p) PROVE RecordOwned'
  BY <1>2 DEF Unlink, RecordOwned, Recorded
<1>3. ASSUME NEW p \in Pids, CallEngine(p) PROVE RecordOwned'
  BY <1>3 DEF CallEngine, Proceed, End, EnginesTypeOK, RecordOwned, Recorded
<1>4. ASSUME NEW p \in Pids, CallFails(p) PROVE RecordOwned'
  BY <1>4 DEF CallFails, Proceed, End, EnginesTypeOK, RecordOwned, Recorded
<1>5. ASSUME NEW p \in Pids, Clear(p) PROVE RecordOwned'
  BY <1>5 DEF Clear, RecordOwned, Recorded
<1>6. ASSUME NEW p \in Pids, Pick(p) PROVE RecordOwned'
  BY <1>6 DEF Pick, Proceed, End, EnginesTypeOK, RecordOwned, Recorded
<1>7. ASSUME NEW p \in Pids, Bind(p) PROVE RecordOwned'
  BY <1>7 DEF Bind, Proceed, End, EnginesTypeOK, RecordOwned, Recorded
<1>8. ASSUME NEW p \in Pids, OpenRecord(p) PROVE RecordOwned'
  BY <1>8 DEF OpenRecord, Proceed, Served, EnginesTypeOK, RecordOwned, Recorded
<1>9. ASSUME NEW p \in Pids, WriteRecord(p) PROVE RecordOwned'
  BY <1>9 DEF WriteRecord, Proceed, Served, Written, EnginesTypeOK, RecordOwned
<1>10. ASSUME NEW p \in Pids, Tray(p) PROVE RecordOwned'
  BY <1>10 DEF Tray, Proceed, EnginesTypeOK, RecordOwned, Recorded
<1>11. ASSUME NEW p \in Pids, Leave(p) PROVE RecordOwned'
  BY <1>11 DEF Leave, Proceed, RecordOwned, Recorded
<1>12. ASSUME NEW p \in Pids, CloseApi(p) PROVE RecordOwned'
  BY <1>12 DEF CloseApi, Proceed, RecordOwned, Recorded
<1>13. ASSUME NEW p \in Pids, Halt(p) PROVE RecordOwned'
  BY <1>13 DEF Halt, Left, RecordOwned, Recorded
<1>14. ASSUME NEW p \in Pids, Exit(p) PROVE RecordOwned'
  BY <1>14 DEF Exit, RecordOwned, Recorded
<1>15. ASSUME NEW p \in Pids, Crash(p) PROVE RecordOwned'
  BY <1>15 DEF Crash, Proceed, End, RecordOwned, Recorded
<1>16. ASSUME NEW p \in Pids, TakePid(p) PROVE RecordOwned'
  BY <1>16 DEF TakePid, RecordOwned, Recorded
<1>17. ASSUME NEW p \in Pids, NEW k \in Engines \cup Commands, Launch(p, k) PROVE RecordOwned'
  BY <1>17 DEF Launch, Alive, Proceed, RecordOwned, Recorded
<1>18. ASSUME NEW x \in Ports, TakePort(x) PROVE RecordOwned'
  BY <1>18 DEF TakePort, RecordOwned, Recorded
<1>19. CASE GiveBack BY <1>19 DEF GiveBack, RecordOwned, Recorded
<1>20. CASE UNCHANGED enginesVars BY <1>20 DEF enginesVars, RecordOwned, Recorded
<1> QED BY <1>1, <1>2, <1>3, <1>4, <1>5, <1>6, <1>7, <1>8, <1>9, <1>10, <1>11, <1>12, <1>13,
       <1>14, <1>15, <1>16, <1>17, <1>18, <1>19, <1>20 DEF EnginesNext, Step

-----------------------------------------------------------------------------
\* A start that meets another start, a command or a stop is a race.
LEMMA StartsAloneStep ==
  ASSUME EnginesTypeOK, KindsMatch, PortsMatch, StartsAlone, OneOn,
      ServingKnown, [EnginesNext]_enginesVars, Even'
  PROVE  StartsAlone'
<1>1. ASSUME NEW p \in Pids, ReadRecord(p) PROVE StartsAlone'
  BY <1>1, InstancesAssumption DEF ReadRecord, Absent, Proceed, End, StartsAlone, Starting, Start,
         EnginesTypeOK, Engines
<1>2. ASSUME NEW p \in Pids, Unlink(p) PROVE StartsAlone'
  BY <1>2, InstancesAssumption DEF Unlink, Absent, Proceed, End, StartsAlone, Starting, Start,
         EnginesTypeOK, Engines
<1>3. ASSUME NEW p \in Pids, CallEngine(p) PROVE StartsAlone'
  BY <1>3, InstancesAssumption DEF CallEngine, Proceed, End, StartsAlone, Starting, Start, EnginesTypeOK,
         Engines
<1>4. ASSUME NEW p \in Pids, CallFails(p) PROVE StartsAlone'
  BY <1>4, InstancesAssumption DEF CallFails, Proceed, End, StartsAlone, Starting, Start, EnginesTypeOK,
         Engines
<1>5. ASSUME NEW p \in Pids, Clear(p) PROVE StartsAlone'
  BY <1>5, InstancesAssumption DEF Clear, Absent, Proceed, End, StartsAlone,
     Starting, Start, EnginesTypeOK,
         Engines
<1>6. ASSUME NEW p \in Pids, Pick(p) PROVE StartsAlone'
  BY <1>6 DEF Pick, Proceed, End, StartsAlone, Starting, Start, KindsMatch, EnginesTypeOK
<1>7. ASSUME NEW p \in Pids, Bind(p) PROVE StartsAlone'
  BY <1>7 DEF Bind, Proceed, End, StartsAlone, Starting, Start, KindsMatch, EnginesTypeOK
<1>8. ASSUME NEW p \in Pids, OpenRecord(p) PROVE StartsAlone'
  BY <1>8 DEF OpenRecord, Proceed, Served, StartsAlone, Starting, Start, EnginesTypeOK
<1>9. ASSUME NEW p \in Pids, WriteRecord(p) PROVE StartsAlone'
  BY <1>9 DEF WriteRecord, Proceed, Served, StartsAlone, Starting, Start
<1>10. ASSUME NEW p \in Pids, Tray(p) PROVE StartsAlone'
  BY <1>10 DEF Tray, Proceed, StartsAlone, Starting, Start, EnginesTypeOK
<1>11. ASSUME NEW p \in Pids, Leave(p) PROVE StartsAlone'
  BY <1>11 DEF Leave, Proceed, StartsAlone, Starting, Start
<1>12. ASSUME NEW p \in Pids, CloseApi(p) PROVE StartsAlone'
  BY <1>12, InstancesAssumption DEF CloseApi, Proceed, StartsAlone, Starting, Start, KindsMatch,
         Engines, Even, Unsettled
<1>13. ASSUME NEW p \in Pids, Halt(p) PROVE StartsAlone'
  BY <1>13, InstancesAssumption DEF Halt, Proceed, End, StartsAlone, Starting,
     Start, EnginesTypeOK, Engines
<1>14. ASSUME NEW p \in Pids, Exit(p) PROVE StartsAlone'
  BY <1>14 DEF Exit, StartsAlone, Starting, Start
<1>15. ASSUME NEW p \in Pids, Crash(p) PROVE StartsAlone'
  BY <1>15, InstancesAssumption DEF Crash, Proceed, End, StartsAlone, Starting,
     Start, EnginesTypeOK, Engines
<1>16. ASSUME NEW p \in Pids, TakePid(p) PROVE StartsAlone'
  BY <1>16 DEF TakePid, StartsAlone, Starting, Start
<1>17. ASSUME NEW p \in Pids, NEW k \in Engines \cup Commands, Launch(p, k) PROVE StartsAlone'
  BY <1>17, InstancesAssumption DEF Launch, Alive, Proceed, StartsAlone, Starting, Start, KindsMatch,
         Engines, Even, Unsettled
<1>18. ASSUME NEW x \in Ports, TakePort(x) PROVE StartsAlone'
  BY <1>18 DEF TakePort, StartsAlone, Starting, Start
<1>19. CASE GiveBack BY <1>19 DEF GiveBack, StartsAlone, Starting, Start
<1>20. CASE UNCHANGED enginesVars BY <1>20 DEF enginesVars, StartsAlone, Starting, Start
<1> QED BY <1>1, <1>2, <1>3, <1>4, <1>5, <1>6, <1>7, <1>8, <1>9, <1>10, <1>11, <1>12, <1>13,
       <1>14, <1>15, <1>16, <1>17, <1>18, <1>19, <1>20 DEF EnginesNext, Step

\* A start picks a port only if nobody serves: ServingKnown.
LEMMA OneOnStep ==
  ASSUME EnginesTypeOK, KindsMatch, PortsMatch, StartsAlone, OneOn, ServingKnown,
      [EnginesNext]_enginesVars, Even'
  PROVE  OneOn'
<1>1. ASSUME NEW p \in Pids, ReadRecord(p) PROVE OneOn'
  BY <1>1 DEF ReadRecord, Absent, Proceed, End, OneOn, EngineOn, EnginesTypeOK
<1>2. ASSUME NEW p \in Pids, Unlink(p) PROVE OneOn'
  BY <1>2 DEF Unlink, Absent, Proceed, End, OneOn, EngineOn, EnginesTypeOK
<1>3. ASSUME NEW p \in Pids, CallEngine(p) PROVE OneOn'
  BY <1>3 DEF CallEngine, Proceed, End, OneOn, EngineOn, EnginesTypeOK
<1>4. ASSUME NEW p \in Pids, CallFails(p) PROVE OneOn'
  BY <1>4 DEF CallFails, Proceed, End, OneOn, EngineOn, EnginesTypeOK
<1>5. ASSUME NEW p \in Pids, Clear(p) PROVE OneOn'
  BY <1>5 DEF Clear, Absent, Proceed, End, OneOn, EngineOn, EnginesTypeOK
<1>6. ASSUME NEW p \in Pids, Pick(p) PROVE OneOn'
  BY <1>6 DEF Pick, Proceed, End, OneOn, EngineOn, StartsAlone, Starting, KindsMatch, ServingKnown,
         EnginesTypeOK
<1>7. ASSUME NEW p \in Pids, Bind(p) PROVE OneOn'
  BY <1>7 DEF Bind, Proceed, End, OneOn, EngineOn, EnginesTypeOK
<1>8. ASSUME NEW p \in Pids, OpenRecord(p) PROVE OneOn'
  BY <1>8 DEF OpenRecord, Proceed, Served, OneOn, EngineOn, EnginesTypeOK
<1>9. ASSUME NEW p \in Pids, WriteRecord(p) PROVE OneOn'
  BY <1>9 DEF WriteRecord, Proceed, Served, OneOn, EngineOn
<1>10. ASSUME NEW p \in Pids, Tray(p) PROVE OneOn'
  BY <1>10 DEF Tray, Proceed, OneOn, EngineOn, EnginesTypeOK
<1>11. ASSUME NEW p \in Pids, Leave(p) PROVE OneOn'
  BY <1>11 DEF Leave, Proceed, OneOn, EngineOn
<1>12. ASSUME NEW p \in Pids, CloseApi(p) PROVE OneOn'
  BY <1>12 DEF CloseApi, Proceed, OneOn, EngineOn
<1>13. ASSUME NEW p \in Pids, Halt(p) PROVE OneOn'
  BY <1>13 DEF Halt, Proceed, End, OneOn, EngineOn
<1>14. ASSUME NEW p \in Pids, Exit(p) PROVE OneOn'
  BY <1>14 DEF Exit, OneOn, EngineOn
<1>15. ASSUME NEW p \in Pids, Crash(p) PROVE OneOn'
  BY <1>15 DEF Crash, Proceed, End, OneOn, EngineOn
<1>16. ASSUME NEW p \in Pids, TakePid(p) PROVE OneOn'
  BY <1>16 DEF TakePid, OneOn, EngineOn
<1>17. ASSUME NEW p \in Pids, NEW k \in Engines \cup Commands, Launch(p, k) PROVE OneOn'
  BY <1>17 DEF Launch, Proceed, OneOn, EngineOn
<1>18. ASSUME NEW x \in Ports, TakePort(x) PROVE OneOn'
  BY <1>18 DEF TakePort, OneOn, EngineOn
<1>19. CASE GiveBack BY <1>19 DEF GiveBack, OneOn, EngineOn
<1>20. CASE UNCHANGED enginesVars BY <1>20 DEF enginesVars, OneOn, EngineOn
<1> QED BY <1>1, <1>2, <1>3, <1>4, <1>5, <1>6, <1>7, <1>8, <1>9, <1>10, <1>11, <1>12, <1>13,
       <1>14, <1>15, <1>16, <1>17, <1>18, <1>19, <1>20 DEF EnginesNext, Step

\* While an engine serves nobody else writes the record, and who reads it calls
\* and is answered.
LEMMA ServingKnownStep ==
  ASSUME EnginesTypeOK, KindsMatch, PortsMatch, StartsAlone, OneOn,
      ServingKnown, [EnginesNext]_enginesVars, Even'
  PROVE  ServingKnown'
<1>1. ASSUME NEW p \in Pids, ReadRecord(p) PROVE ServingKnown'
  BY <1>1, InstancesAssumption DEF ReadRecord, Absent, Recorded, Dead, Alive, Proceed, End,
         ServingKnown, Written, PortsMatch, Listening, EnginesTypeOK
<1>2. ASSUME NEW p \in Pids, Unlink(p) PROVE ServingKnown'
  BY <1>2 DEF Unlink, Absent, Proceed, End, ServingKnown, Starting,
     StartsAlone, KindsMatch, EnginesTypeOK
<1>3. ASSUME NEW p \in Pids, CallEngine(p) PROVE ServingKnown'
  <2>1. at'[p] = "gone" /\ \A q \in Pids \ {p} : at'[q] = at[q] /\ port'[q] = port[q]
    BY <1>3 DEF CallEngine, GivesWay, Proceed, End, EnginesTypeOK
  <2>2. record' = record BY <1>3 DEF CallEngine
  <2> QED BY <2>1, <2>2 DEF ServingKnown, Written
<1>4. ASSUME NEW p \in Pids, CallFails(p) PROVE ServingKnown'
  BY <1>4 DEF CallFails, Proceed, End, ServingKnown, Written, PortsMatch, Listening, EnginesTypeOK
<1>5. ASSUME NEW p \in Pids, Clear(p) PROVE ServingKnown'
  BY <1>5 DEF Clear, Absent, Proceed, End, ServingKnown, Starting, StartsAlone, KindsMatch, EnginesTypeOK
<1>6. ASSUME NEW p \in Pids, Pick(p) PROVE ServingKnown'
  BY <1>6 DEF Pick, Proceed, End, ServingKnown, Written, EnginesTypeOK
<1>7. ASSUME NEW p \in Pids, Bind(p) PROVE ServingKnown'
  BY <1>7 DEF Bind, Proceed, End, ServingKnown, Written, EnginesTypeOK
<1>8. ASSUME NEW p \in Pids, OpenRecord(p) PROVE ServingKnown'
  BY <1>8 DEF OpenRecord, Proceed, ServingKnown, OneOn, EngineOn, EnginesTypeOK, Even
<1>9. ASSUME NEW p \in Pids, WriteRecord(p) PROVE ServingKnown'
  BY <1>9 DEF WriteRecord, Proceed, Served, Written, ServingKnown, Starting, StartsAlone, OneOn,
         EngineOn, KindsMatch, EnginesTypeOK
<1>10. ASSUME NEW p \in Pids, Tray(p) PROVE ServingKnown'
  BY <1>10 DEF Tray, Proceed, ServingKnown, Written, Starting, StartsAlone, KindsMatch, EnginesTypeOK
<1>11. ASSUME NEW p \in Pids, Leave(p) PROVE ServingKnown'
  BY <1>11 DEF Leave, Proceed, ServingKnown, Written
<1>12. ASSUME NEW p \in Pids, CloseApi(p) PROVE ServingKnown'
  BY <1>12 DEF CloseApi, Proceed, ServingKnown, Written
<1>13. ASSUME NEW p \in Pids, Halt(p) PROVE ServingKnown'
  BY <1>13 DEF Halt, Proceed, End, ServingKnown, OneOn, EngineOn
<1>14. ASSUME NEW p \in Pids, Exit(p) PROVE ServingKnown'
  BY <1>14 DEF Exit, ServingKnown, Written
<1>15. ASSUME NEW p \in Pids, Crash(p) PROVE ServingKnown'
  BY <1>15 DEF Crash, Proceed, End, ServingKnown, Written, EnginesTypeOK
<1>16. ASSUME NEW p \in Pids, TakePid(p) PROVE ServingKnown'
  BY <1>16 DEF TakePid, ServingKnown, Written
<1>17. ASSUME NEW p \in Pids, NEW k \in Engines \cup Commands, Launch(p, k) PROVE ServingKnown'
  BY <1>17 DEF Launch, Proceed, ServingKnown, Written, EngineOn, Even
<1>18. ASSUME NEW x \in Ports, TakePort(x) PROVE ServingKnown'
  BY <1>18 DEF TakePort, ServingKnown, Written
<1>19. CASE GiveBack BY <1>19 DEF GiveBack, ServingKnown, Written
<1>20. CASE UNCHANGED enginesVars BY <1>20 DEF enginesVars, ServingKnown, Written
<1> QED BY <1>1, <1>2, <1>3, <1>4, <1>5, <1>6, <1>7, <1>8, <1>9, <1>10, <1>11, <1>12, <1>13,
       <1>14, <1>15, <1>16, <1>17, <1>18, <1>19, <1>20 DEF EnginesNext, Step

-----------------------------------------------------------------------------
\* A race that has happened stays.
LEMMA EvenBefore == [EnginesNext]_enginesVars /\ Even' => Even
<1> SUFFICES ASSUME [EnginesNext]_enginesVars PROVE odd \subseteq odd' BY DEF Even
<1>1. ASSUME NEW p \in Pids, ReadRecord(p) PROVE odd \subseteq odd' BY <1>1 DEF ReadRecord
<1>2. ASSUME NEW p \in Pids, Unlink(p) PROVE odd \subseteq odd' BY <1>2 DEF Unlink
<1>3. ASSUME NEW p \in Pids, CallEngine(p) PROVE odd \subseteq odd' BY <1>3 DEF CallEngine
<1>4. ASSUME NEW p \in Pids, CallFails(p) PROVE odd \subseteq odd' BY <1>4 DEF CallFails
<1>5. ASSUME NEW p \in Pids, Clear(p) PROVE odd \subseteq odd' BY <1>5 DEF Clear
<1>6. ASSUME NEW p \in Pids, Pick(p) PROVE odd \subseteq odd' BY <1>6 DEF Pick
<1>7. ASSUME NEW p \in Pids, Bind(p) PROVE odd \subseteq odd' BY <1>7 DEF Bind
<1>8. ASSUME NEW p \in Pids, OpenRecord(p) PROVE odd \subseteq odd' BY <1>8 DEF OpenRecord
<1>9. ASSUME NEW p \in Pids, WriteRecord(p) PROVE odd \subseteq odd' BY <1>9 DEF WriteRecord
<1>10. ASSUME NEW p \in Pids, Tray(p) PROVE odd \subseteq odd' BY <1>10 DEF Tray
<1>11. ASSUME NEW p \in Pids, Leave(p) PROVE odd \subseteq odd' BY <1>11 DEF Leave
<1>12. ASSUME NEW p \in Pids, CloseApi(p) PROVE odd \subseteq odd' BY <1>12 DEF CloseApi
<1>13. ASSUME NEW p \in Pids, Halt(p) PROVE odd \subseteq odd' BY <1>13 DEF Halt
<1>14. ASSUME NEW p \in Pids, Exit(p) PROVE odd \subseteq odd' BY <1>14 DEF Exit
<1>15. ASSUME NEW p \in Pids, Crash(p) PROVE odd \subseteq odd' BY <1>15 DEF Crash
<1>16. ASSUME NEW p \in Pids, TakePid(p) PROVE odd \subseteq odd' BY <1>16 DEF TakePid
<1>17. ASSUME NEW p \in Pids, NEW k \in Engines \cup Commands, Launch(p, k) PROVE odd \subseteq odd'
  BY <1>17 DEF Launch
<1>18. ASSUME NEW x \in Ports, TakePort(x) PROVE odd \subseteq odd' BY <1>18 DEF TakePort
<1>19. CASE GiveBack BY <1>19 DEF GiveBack
<1>20. CASE UNCHANGED enginesVars BY <1>20 DEF enginesVars
<1> QED BY <1>1, <1>2, <1>3, <1>4, <1>5, <1>6, <1>7, <1>8, <1>9, <1>10, <1>11, <1>12, <1>13,
       <1>14, <1>15, <1>16, <1>17, <1>18, <1>19, <1>20 DEF EnginesNext, Step

\* Nothing runs at first, and there is no record.
LEMMA EnginesInitCorrect ==
  EnginesInit => EnginesInv
<1> SUFFICES ASSUME EnginesInit PROVE EnginesInv OBVIOUS
<1>1. EnginesTypeOK BY DEF EnginesInit, EnginesTypeOK, Labels
<1>2. KindsMatch /\ PortsMatch /\ RecordOwned
  BY InstancesAssumption DEF EnginesInit, KindsMatch, PortsMatch, Listening, RecordOwned, Recorded
<1>3. StartsAlone /\ OneOn /\ ServingKnown
  BY DEF EnginesInit, StartsAlone, OneOn, EngineOn, ServingKnown
<1> QED BY <1>1, <1>2, <1>3 DEF EnginesInv

\* EnginesInv is inductive.
LEMMA EnginesInvariance ==
  EnginesSpec => []EnginesInv
<1>1. EnginesInv /\ [EnginesNext]_enginesVars => EnginesInv'
  <2> SUFFICES ASSUME EnginesInv, [EnginesNext]_enginesVars PROVE EnginesInv' OBVIOUS
  <2>1. EnginesTypeOK' /\ KindsMatch' BY EnginesTypeStep, KindsStep DEF EnginesInv
  <2>2. PortsMatch' /\ RecordOwned' BY PortsStep, OwnedStep DEF EnginesInv
  <2>3. ASSUME Even' PROVE StartsAlone' /\ OneOn' /\ ServingKnown'
    <3>1. Even BY <2>3, EvenBefore
    <3> QED BY <2>3, <3>1, StartsAloneStep, OneOnStep, ServingKnownStep DEF EnginesInv
  <2> QED BY <2>1, <2>2, <2>3 DEF EnginesInv
<1> QED BY <1>1, EnginesInitCorrect, PTL DEF EnginesSpec

\* The processes, the ports and the record agree at every step, whatever crashes
\* and whoever takes numbers and ports.
THEOREM RecordAgrees ==
  EnginesSpec => []EnginesInv
  BY EnginesInvariance

\* Without a race one engine runs at most, the record names it while it serves,
\* and a record of a process that is gone was left by a crash.
THEOREM OneEngineCorrect ==
  EnginesSpec => []Inv
<1>1. EnginesInv => OneEngine
  <2> SUFFICES ASSUME EnginesInv, Even
               PROVE  Cardinality({p \in Pids : EngineOn(p)}) <= 1
    BY DEF OneEngine
  <2>1. CASE {p \in Pids : EngineOn(p)} = {} BY <2>1, FS_EmptySet
  <2>2. CASE \E p \in Pids : EngineOn(p)
    <3>1. PICK p \in Pids : EngineOn(p) BY <2>2
    <3>2. {q \in Pids : EngineOn(q)} = {p} BY <3>1 DEF EnginesInv, OneOn
    <3>3. Cardinality({p}) = 1 BY FS_Singleton
    <3> QED BY <3>2, <3>3
  <2> QED BY <2>1, <2>2
<1>2. EnginesInv => RecordTrue
  <2> SUFFICES ASSUME EnginesInv, Even
               PROVE  /\ \A p \in Pids : at[p] = "run" => record = [port |-> port[p], pid |-> p]
                      /\ Recorded => Alive(record.pid) \/ record.pid \in crashed
    BY DEF RecordTrue
  <2>1. ASSUME NEW p \in Pids, at[p] = "run" PROVE record = [port |-> port[p], pid |-> p]
    BY <2>1 DEF EnginesInv, ServingKnown, Written
  <2>2. Recorded => Alive(record.pid) \/ record.pid \in crashed BY DEF EnginesInv, RecordOwned, Alive
  <2> QED BY <2>1, <2>2
<1>3. EnginesInv => Inv BY <1>1, <1>2 DEF Inv, EnginesInv
<1> QED BY <1>3, EnginesInvariance, PTL

=============================================================================
