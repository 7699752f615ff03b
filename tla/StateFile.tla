----------------------------- MODULE StateFile -----------------------------
(***************************************************************************)
(* What the engine remembers (src/core/engine.c): posture, settings,       *)
(* decisions about applications, rules and devices are kept in memory and  *)
(* written to state.tsv, whole, by every change, under the engine's lock;  *)
(* the next start reads the file over the built in rules and defaults.     *)
(*                                                                         *)
(* The file is a sequence of lines of fields.  A field may be empty and    *)
(* the reader takes the words between the tabs, so an empty field is none. *)
(* The write can be cut short by a full disk, whose errors are not looked  *)
(* at; the file may fail to open or to be replaced; the program may stop   *)
(* between any two steps.                                                  *)
(*                                                                         *)
(* The entry that starts the program with the system is not in the file:   *)
(* a patch of the settings asks for it after the lock is released.         *)
(*                                                                         *)
(* Abstracted: of the settings the default policy, of a rule its name,     *)
(* action and switch, of a device its address, of an application its name  *)
(* are kept; tabs and line ends in a name are spaces.                      *)
(***************************************************************************)
EXTENDS Naturals, Sequences, FiniteSets, SequencesExt

CONSTANTS
  Handlers,      \* the threads that change the tables
  None,
  Builtins,      \* the names of the rules that seed enters, in their order
  Postures,      \* the postures there are, "on" among them
  Words,         \* is_policy_word: the policies, "allow" among them
  Names, Actions,\* what requests put into a rule; "" among them
  AppNames, Macs,
  MaxRules, MaxDevices,        \* ENG_MAX_RULES and ENG_MAX_DEVICES
  MaxChanges, MaxFaults        \* bounds on the requests, and on what fails

Empty    == ""
Untitled == "Untitled rule"

\* What a field of the file can be.
Text ==
  {"posture", "setting", "app", "builtin", "rule", "device", "block", Untitled, "0", "1"}
    \cup Postures \cup Words \cup Names \cup Actions \cup AppNames \cup Macs \cup ToSet(Builtins)

\* Only what the user types can be empty; the rules of seed fit in the table.
ASSUME StateAssumption ==
  /\ None \notin Handlers \cup BOOLEAN \cup Seq(Seq(Text))
  /\ Builtins \in Seq(ToSet(Builtins)) /\ Len(Builtins) <= MaxRules
  /\ "on" \in Postures /\ "allow" \in Words
  /\ Empty \notin Postures \cup Words \cup AppNames \cup Macs \cup ToSet(Builtins)
  /\ MaxRules \in Nat /\ MaxDevices \in Nat \ {0} /\ MaxChanges \in Nat /\ MaxFaults \in Nat
  /\ IsFiniteSet(Macs)

VARIABLES
  on,        \* the program runs
  mem,       \* the engine's tables
  scanned,   \* g_devices_scanned
  lock,      \* who holds g_lock
  pc,        \* where each handler is
  want,      \* the start entry a handler asks for, or None
  saw,       \* the start entry it has found
  file, tmp, \* state.tsv and state.tsv.tmp, or None
  startup,   \* the start entry of the system
  shown,     \* g_settings.startWithWindows
  old, new,  \* the tables written last, and those of the last change
  torn,      \* a short file has replaced the whole one
  behind,    \* the last change was not written
  clash,     \* two requests for the start entry overlapped
  lost,      \* the program ended with a change that was not in the file
  told,      \* the devices an alert has been raised for, in order
  changes, faults

disk == <<file, tmp, startup>>
ghosts == <<old, new, torn, behind, clash, lost>>
vars == <<on, mem, scanned, lock, pc, want, saw, disk, shown, ghosts, told, changes, faults>>

(***************************************************************************)
(* seed, save_state and load_state                                         *)
(***************************************************************************)
BuiltinRule(b) == [name |-> b, action |-> "block", enabled |-> TRUE, builtin |-> TRUE]

Seed == [posture |-> "on", out |-> "allow", apps |-> <<>>, devices |-> <<>>,
         rules |-> [i \in DOMAIN Builtins |-> BuiltinRule(Builtins[i])]]

Switch(b) == IF b THEN "1" ELSE "0"

\* An allowed application is written when the user has decided so; _Drop is a
\* mutant that forgets those.
Remembers_Drop(a) == a.policy # "allow"
Remembers(a) == a.policy # "allow" \/ a.pinned

AppLine(a) == <<"app", a.policy, a.name>>

\* An empty name is written as "Untitled rule"; other fields as they are.
RuleLine(r) ==
  IF r.builtin THEN <<"builtin", r.name, Switch(r.enabled)>>
  ELSE <<"rule", Switch(r.enabled), r.action, IF r.name = Empty THEN Untitled ELSE r.name>>

Each(s, Line(_)) == [i \in DOMAIN s |-> Line(s[i])]

\* The members of s that are in S, in their order.
Only(s, S) ==
  LET upTo[i \in 0 .. Len(s)] ==
        IF i = 0 THEN <<>> ELSE IF s[i] \in S THEN Append(upTo[i - 1], s[i]) ELSE upTo[i - 1]
  IN upTo[Len(s)]

Image(m) ==
  <<<<"posture", m.posture>>, <<"setting", m.out>>>>
    \o Each(Only(m.apps, {a \in ToSet(m.apps) : Remembers(a)}), AppLine)
    \o Each(m.rules, RuleLine)
    \o Each(m.devices, LAMBDA d : <<"device", d>>)

\* strtok_s: the fields that are not empty.
Fields(line) == Only(line, ToSet(line) \ {Empty})

\* A decision about an application that is known replaces the one before;
\* _Twice is a mutant that adds an entry.
PutApp_Twice(apps, name, policy) == Append(apps, [name |-> name, policy |-> policy, pinned |-> TRUE])

PutApp(apps, name, policy) ==
  IF \E i \in DOMAIN apps : apps[i].name = name
  THEN [i \in DOMAIN apps |-> IF apps[i].name = name
                              THEN [apps[i] EXCEPT !.policy = policy, !.pinned = TRUE] ELSE apps[i]]
  ELSE Append(apps, [name |-> name, policy |-> policy, pinned |-> TRUE])

LoadBuiltin(rules, name, enabled) ==
  [i \in DOMAIN rules |-> IF rules[i].builtin /\ rules[i].name = name
                          THEN [rules[i] EXCEPT !.enabled = enabled] ELSE rules[i]]

LoadRule(rules, f) ==
  IF Len(rules) < MaxRules
  THEN Append(rules, [name |-> f[4], action |-> f[3], enabled |-> f[2] = "1", builtin |-> FALSE])
  ELSE rules

\* What one line does to the tables: one with too few fields is skipped.
LoadLine(m, line) ==
  LET f == Fields(line)
      has(kind, n) == Len(f) >= n /\ f[1] = kind
  IN IF has("posture", 2) /\ f[2] \in Postures THEN [m EXCEPT !.posture = f[2]]
     ELSE IF has("setting", 2) /\ f[2] \in Words THEN [m EXCEPT !.out = f[2]]
     ELSE IF has("app", 3) /\ f[2] \in Words THEN [m EXCEPT !.apps = PutApp(@, f[3], f[2])]
     ELSE IF has("builtin", 3) THEN [m EXCEPT !.rules = LoadBuiltin(@, f[2], f[3] = "1")]
     ELSE IF has("rule", 4) THEN [m EXCEPT !.rules = LoadRule(@, f)]
     ELSE IF has("device", 2) /\ Len(m.devices) < MaxDevices THEN [m EXCEPT !.devices = Append(@, f[2])]
     ELSE m

Load(lines) ==
  IF lines = None THEN Seed
  ELSE LET upTo[i \in 0 .. Len(lines)] == IF i = 0 THEN Seed ELSE LoadLine(upTo[i - 1], lines[i])
       IN upTo[Len(lines)]

(***************************************************************************)
(* State                                                                   *)
(***************************************************************************)
AppEntries  == [name : AppNames, policy : Words, pinned : BOOLEAN]
RuleEntries == [name : Names \cup ToSet(Builtins) \cup {Untitled}, action : Actions \cup {"block"},
                enabled : BOOLEAN, builtin : BOOLEAN]
Tables == [posture : Postures, out : Words, apps : Seq(AppEntries), rules : Seq(RuleEntries),
           devices : Seq(Macs)]

TypeOK ==
  /\ on \in BOOLEAN /\ scanned \in BOOLEAN /\ startup \in BOOLEAN /\ shown \in BOOLEAN
  /\ mem \in Tables /\ Len(mem.rules) <= MaxRules /\ Len(mem.devices) <= MaxDevices
  /\ IsInjective(mem.devices) /\ IsInjective([i \in DOMAIN mem.apps |-> mem.apps[i].name])
  /\ lock \in Handlers \cup {None}
  /\ pc \in [Handlers -> {"idle", "open", "write", "replace", "entry", "look", "show"}]
  /\ want \in [Handlers -> BOOLEAN \cup {None}] /\ saw \in [Handlers -> BOOLEAN \cup {None}]

\* An earlier run has left a file or none.
Init ==
  /\ \E known \in {<<>>} \cup {<<d>> : d \in Macs} :
       /\ old = [Seed EXCEPT !.devices = known] /\ new = old
       /\ file = IF known = <<>> THEN None ELSE Image(old)
  /\ on = FALSE /\ mem = Seed /\ scanned = FALSE /\ lock = None
  /\ pc = [h \in Handlers |-> "idle"]
  /\ want = [h \in Handlers |-> None] /\ saw = [h \in Handlers |-> None]
  /\ tmp = None /\ startup = FALSE /\ shown = FALSE
  /\ torn = FALSE /\ behind = FALSE /\ clash = FALSE /\ lost = FALSE
  /\ told = <<>> /\ changes = 0 /\ faults = 0

\* engine_start: seed, load_state, and the start entry as it is.
Start ==
  /\ ~on
  /\ on' = TRUE /\ mem' = Load(file) /\ scanned' = (Load(file).devices # <<>>)
  /\ shown' = startup
  /\ UNCHANGED <<lock, pc, want, saw, disk, ghosts, told, changes, faults>>

(***************************************************************************)
(* The requests: what each changes under the lock                          *)
(***************************************************************************)
Begin(h) == on /\ lock = None /\ pc[h] = "idle" /\ changes < MaxChanges

\* A change is saved before the lock is released; _Quiet and _Devices are mutants
\* that do not save a rule that is deleted, or a device that is found.
Saves_Quiet(m) == Len(m.rules) >= Len(mem.rules)
Saves_Devices(m) == m.devices = mem.devices
Saves(m) == TRUE

Change(h, m, entry) ==
  /\ Begin(h)
  /\ mem' = m /\ new' = m /\ changes' = changes + 1
  /\ want' = [want EXCEPT ![h] = entry]
  /\ IF Saves(m) THEN lock' = h /\ pc' = [pc EXCEPT ![h] = "open"] /\ behind' = TRUE
     ELSE UNCHANGED <<lock, pc, behind>>
  /\ UNCHANGED <<on, saw, disk, shown, old, torn, clash, lost, faults>>

SetPosture(h, p) == Change(h, [mem EXCEPT !.posture = p], None) /\ UNCHANGED <<scanned, told>>

PatchSettings(h, w, entry) == Change(h, [mem EXCEPT !.out = w], entry) /\ UNCHANGED <<scanned, told>>

SetPolicy(h, a, p) ==
  /\ \E i \in DOMAIN mem.apps : mem.apps[i].name = a
  /\ Change(h, [mem EXCEPT !.apps = PutApp(@, a, p)], None) /\ UNCHANGED <<scanned, told>>

CreateRule(h, r) ==
  /\ Len(mem.rules) < MaxRules
  /\ Change(h, [mem EXCEPT !.rules = Append(@, r)], None) /\ UNCHANGED <<scanned, told>>

PatchRule(h, i, name, action, enabled) ==
  /\ i \in DOMAIN mem.rules
  /\ Change(h, [mem EXCEPT !.rules[i].name = name, !.rules[i].action = action,
                           !.rules[i].enabled = enabled], None)
  /\ UNCHANGED <<scanned, told>>

DeleteRule(h, i) ==
  /\ i \in DOMAIN mem.rules
  /\ Change(h, [mem EXCEPT !.rules = RemoveAt(@, i)], None) /\ UNCHANGED <<scanned, told>>

\* scan_devices, when it meets unknown devices: all that there is room for are
\* kept and written at once, and the first scan raises no alert.
ScanDevices(h, met) ==
  LET added == SubSeq(met, 1, Min({Len(met), MaxDevices - Len(mem.devices)}))
  IN /\ met # <<>> /\ ToSet(met) \cap ToSet(mem.devices) = {} /\ added # <<>>
     /\ told' = IF scanned THEN told \o added ELSE told
     /\ scanned' = TRUE
     /\ Change(h, [mem EXCEPT !.devices = @ \o added], None)

\* app_for in the tick: nothing is saved.
SeeApp(a) ==
  /\ on /\ lock = None /\ a \notin {mem.apps[i].name : i \in DOMAIN mem.apps}
  /\ mem' = [mem EXCEPT !.apps = Append(@, [name |-> a, policy |-> "allow", pinned |-> FALSE])]
  /\ UNCHANGED <<on, scanned, lock, pc, want, saw, disk, shown, ghosts, told, changes, faults>>

(***************************************************************************)
(* save_state, step by step                                                *)
(***************************************************************************)
Fails == faults < MaxFaults /\ faults' = faults + 1

\* The lock is released, and the start entry is asked for.
Leave(h) ==
  /\ lock' = None
  /\ pc' = [pc EXCEPT ![h] = IF want[h] = None THEN "idle" ELSE "entry"]

\* The file the lines go to; _InPlace is a mutant without the second name.
Opened_InPlace == file' = <<>> /\ tmp' = <<>>
Opened == tmp' = <<>> /\ UNCHANGED file

OpenTmp(h) ==
  /\ pc[h] = "open"
  /\ \/ Opened /\ pc' = [pc EXCEPT ![h] = "write"] /\ UNCHANGED <<lock, faults>>
     \/ Fails /\ Leave(h) /\ UNCHANGED <<file, tmp>>
  /\ UNCHANGED <<on, mem, scanned, want, saw, startup, shown, ghosts, told, changes>>

\* A full disk keeps a part of the lines.
WriteTmp(h) ==
  /\ pc[h] = "write"
  /\ \/ tmp' = Image(mem) /\ UNCHANGED faults
     \/ Fails /\ \E n \in 0 .. Len(Image(mem)) - 1 : tmp' = SubSeq(Image(mem), 1, n)
  /\ pc' = [pc EXCEPT ![h] = "replace"]
  /\ UNCHANGED <<on, mem, scanned, lock, want, saw, file, startup, shown, ghosts, told, changes>>

Replace(h) ==
  /\ pc[h] = "replace"
  /\ \/ /\ file' = tmp /\ tmp' = None
        /\ torn' = (tmp # Image(mem)) /\ behind' = FALSE /\ old' = mem
        /\ UNCHANGED faults
     \/ Fails /\ UNCHANGED <<file, tmp, torn, behind, old>>
  /\ Leave(h)
  /\ UNCHANGED <<on, mem, scanned, want, saw, startup, shown, new, clash, lost, told, changes>>

(***************************************************************************)
(* The start entry, after the lock                                         *)
(***************************************************************************)
Asking == {h \in Handlers : pc[h] \in {"look", "show"}}

SetEntry(h) ==
  /\ pc[h] = "entry"
  /\ \/ startup' = want[h] /\ UNCHANGED faults
     \/ Fails /\ UNCHANGED startup
  /\ clash' = (clash \/ Asking # {})
  /\ pc' = [pc EXCEPT ![h] = "look"]
  /\ UNCHANGED <<on, mem, scanned, lock, want, saw, file, tmp, shown, old, new, torn, behind, lost, told, changes>>

\* What is shown is what there is, not what was asked for: _Want is a mutant.
Found_Want(h) == want[h]
Found(h) == startup

LookEntry(h) ==
  /\ pc[h] = "look"
  /\ saw' = [saw EXCEPT ![h] = Found(h)]
  /\ pc' = [pc EXCEPT ![h] = "show"]
  /\ UNCHANGED <<on, mem, scanned, lock, want, disk, shown, ghosts, told, changes, faults>>

ShowEntry(h) ==
  /\ pc[h] = "show" /\ lock = None
  /\ shown' = saw[h]
  /\ pc' = [pc EXCEPT ![h] = "idle"]
  /\ saw' = [saw EXCEPT ![h] = None] /\ want' = [want EXCEPT ![h] = None]
  /\ UNCHANGED <<on, mem, scanned, lock, disk, ghosts, told, changes, faults>>

\* The program ends between two steps, with or without its last save.
Crash ==
  /\ on /\ on' = FALSE /\ mem' = Seed /\ scanned' = FALSE /\ lock' = None
  /\ pc' = [h \in Handlers |-> "idle"]
  /\ want' = [h \in Handlers |-> None] /\ saw' = [h \in Handlers |-> None]
  /\ shown' = FALSE /\ clash' = FALSE /\ lost' = (lost \/ behind \/ torn)
  /\ UNCHANGED <<disk, old, new, torn, behind, told, changes, faults>>

Request(h) ==
  \/ \E p \in Postures \ {mem.posture} : SetPosture(h, p)
  \/ \E w \in Words \ {mem.out} : PatchSettings(h, w, None)
  \/ \E e \in BOOLEAN : PatchSettings(h, mem.out, e)
  \/ \E a \in AppNames, p \in Words : SetPolicy(h, a, p)
  \/ \E name \in Names, action \in Actions, enabled \in BOOLEAN :
       CreateRule(h, [name |-> name, action |-> action, enabled |-> enabled, builtin |-> FALSE])
  \/ \E i \in DOMAIN mem.rules :
       \E name \in Names \cup {mem.rules[i].name}, action \in Actions, enabled \in BOOLEAN :
         PatchRule(h, i, name, action, enabled)
  \/ \E i \in DOMAIN mem.rules : DeleteRule(h, i)
  \/ \E met \in SetToAllKPermutations(Macs) : ScanDevices(h, met)

Next ==
  \/ Start \/ Crash
  \/ \E a \in AppNames : SeeApp(a)
  \/ \E h \in Handlers :
       Request(h) \/ OpenTmp(h) \/ WriteTmp(h) \/ Replace(h) \/ SetEntry(h) \/ LookEntry(h) \/ ShowEntry(h)

Spec == Init /\ [][Next]_vars

(***************************************************************************)
(* Properties                                                              *)
(***************************************************************************)
User(r)     == ~r.builtin
Complete(r) == r.action # Empty
Reads(m)    == Load(Image(m))

\* Between two requests the file says what the tables say, so that a stop at any
\* moment loses no answered request, and reading and writing it again changes
\* nothing more; a write that failed or was cut short leaves it behind.
Durable == (on /\ lock = None /\ ~behind /\ ~torn) => Load(file) = Reads(mem)

\* A stop in the middle of a write leaves the tables of the last write, or those
\* of the change that was being written: never a part of either.
OldOrNew == ~torn => Load(file) \in {Reads(old), Reads(new)}

\* The user's rules whose fields are not empty come back in their order, with
\* their switch and action, and the switches of the built in rules that share
\* their name with no other; so do the decisions about applications.
DecisionsKept ==
  LET back == Reads(mem)
      own == Only(back.rules, {r \in ToSet(back.rules) : User(r)})
      named(r) == [r EXCEPT !.name = IF @ = Empty THEN Untitled ELSE @]
      full == Only(mem.rules, {r \in ToSet(mem.rules) : User(r) /\ Complete(r)})
  IN /\ own = SubSeq(Each(full, named), 1, Len(own))
     /\ (Len(full) + Len(Builtins) <= MaxRules) => Len(own) = Len(full)
     /\ \A q \in ToSet(mem.rules) :
          (q.builtin /\ \A p \in ToSet(mem.rules) \ {q} : p.builtin => p.name # q.name) =>
            \A b \in ToSet(back.rules) : (b.builtin /\ b.name = q.name) => b.enabled = q.enabled
     /\ \A a \in ToSet(mem.apps) :
          a.pinned => \E b \in ToSet(back.apps) : b.name = a.name /\ b.policy = a.policy
     /\ \A b \in ToSet(back.apps) : \E a \in ToSet(mem.apps) : b.name = a.name /\ b.policy = a.policy

\* The start entry that is shown is the one there is when no request for it is
\* under way, unless two of them overlapped.
EntryShown == (on /\ ~clash /\ \A h \in Handlers : pc[h] \notin {"look", "show"}) => shown = startup

\* A device is announced once, over restarts: a start after a write that failed
\* or was cut short has forgotten it.
ToldOnce == ~lost => IsInjective(told)

\* No table has an entry twice or more entries than it has room for, and no device
\* is news twice.
Inv == TypeOK /\ ToldOnce

=============================================================================
