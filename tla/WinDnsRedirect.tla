-------------------------- MODULE WinDnsRedirect ---------------------------
(***************************************************************************)
(* How the Windows build points the system at its DNS proxy and back: the  *)
(* servers of each network adapter, and the backup file                    *)
(* (src/windows/platform_win.c), inside the calls of engine_start,         *)
(* dns_apply and engine_stop that surround it, with a crash between any    *)
(* two system calls.  It is the counterpart of module DnsRedirect.         *)
(*                                                                         *)
(* The backup file is rewritten in place for each adapter that is about to *)
(* be changed.  A file that was just emptied reads like no file, so it is  *)
(* what it says of each adapter.  An adapter can go away and come back at  *)
(* any moment: it may be missing from the list, and its settings may be    *)
(* refused, or read as none.                                               *)
(*                                                                         *)
(* Abstracted: which servers are listed (the proxy first, then the         *)
(* servers in use, as fallbacks), cache flushes, log lines.  Nobody else   *)
(* sets the servers while they are redirected.                             *)
(***************************************************************************)
EXTENDS Naturals, FiniteSets

CONSTANTS
  Adapters,     \* the adapters of the machine
  None,         \* no adapter, no line
  MaxAdapters,  \* MAX_ADAPTERS: the adapters one redirection changes
  MaxLaunches   \* bound on the number of starts of the engine

ASSUME AdapterAssumption == IsFiniteSet(Adapters) /\ None \notin Adapters
ASSUME SizeAssumption == MaxAdapters \in Nat /\ MaxLaunches \in Nat

Families == {"v4", "v6"}

\* No servers of its own ("dhcp"), the user's, or the proxy and its fallbacks.
AdapterServers == {"dhcp", "fixed", "ours"}

Settings == [Families -> AdapterServers]

ASSUME NoneAssumption == None \notin [Families -> AdapterServers \cup {"-"}]

NoBackup == [a \in Adapters |-> None]

VARIABLES
  orig,        \* what each adapter is without WireCee
  conf,        \* what it is
  file,        \* what dns-backup.tsv says of it, or None
  backup,      \* g_backup
  redirected,  \* g_redirected
  serving,     \* the proxy answers on 127.0.0.1:53
  changed,     \* an adapter took the proxy for its IPv4 server
  todo, cur,   \* the adapters still to do, and the one at hand
  at, ret,     \* where the engine is; where plat_dns_redirect_end returns to
  spoiled,     \* the adapters of a crash or a refusal the backup does not cover
  crashed,     \* the last exit was not engine_stop
  launches

runVars == <<crashed, launches>>
procVars == <<redirected, serving>>
adapterVars == <<changed, todo, cur>>
adaptersVars == <<orig, conf, file, backup, procVars, adapterVars, at, ret, spoiled, runVars>>

PCs ==
  {"down", "recover", "recover6", "run", "read", "begin", "save", "write", "set", "set6",
   "end", "end6"}

AdaptersTypeOK ==
  /\ orig \in [Adapters -> [Families -> {"dhcp", "fixed"}]]
  /\ conf \in [Adapters -> Settings]
  /\ file \in [Adapters -> [Families -> {"-", "fixed", "ours"}] \cup {None}]
  /\ backup \in [Adapters -> Settings \cup {None}]
  /\ redirected \in BOOLEAN /\ serving \in BOOLEAN /\ changed \in BOOLEAN
  /\ todo \subseteq Adapters /\ cur \in Adapters \cup {None}
  /\ at \in PCs /\ ret \in {"run", "down"}
  /\ spoiled \subseteq Adapters
  /\ crashed \in BOOLEAN
  /\ launches \in 0 .. MaxLaunches

AdaptersInit ==
  /\ orig \in [Adapters -> [Families -> {"dhcp", "fixed"}]]
  /\ conf = orig
  /\ file = NoBackup /\ backup = NoBackup
  /\ redirected = FALSE /\ serving = FALSE /\ changed = FALSE
  /\ todo = {} /\ cur = None
  /\ at = "down" /\ ret = "run"
  /\ spoiled = {} /\ crashed = FALSE /\ launches = 0

\* The adapters a backup, in memory or in the file, has a line for.
Listed(lines) == {a \in Adapters : lines[a] # None}

\* An adapter without servers of its own has a dash in the file.
Text(servers) == IF servers = "dhcp" THEN "-" ELSE servers

FromText(text) == IF text = "-" THEN "dhcp" ELSE text

\* A line as it is written, and what a start reads from the file.
Line(settings) == IF settings = None THEN None ELSE [f \in Families |-> Text(settings[f])]

ReadFile ==
  [a \in Adapters |->
     IF file[a] = None THEN None ELSE [f \in Families |-> FromText(file[a][f])]]

\* set_servers, which works or not.
Put(a, f, servers, works) ==
  conf' = IF works THEN [conf EXCEPT ![a] = [@ EXCEPT ![f] = servers]] ELSE conf

\* A setting that was not put back is what the user had by luck only.
Spoil(a, works) == spoiled' = IF works THEN spoiled ELSE spoiled \cup {a}

-----------------------------------------------------------------------------
(***************************************************************************)
(* plat_dns_redirect_begin.                                                *)
(***************************************************************************)

\* read_adapters and adapter_eligible: the adapters that are up, or a failure.
ReadAdapters ==
  /\ at = "read"
  /\ \/ /\ at' = "begin" /\ todo' \in SUBSET Adapters
        /\ backup' = NoBackup /\ changed' = FALSE
        /\ UNCHANGED serving
     \/ /\ at' = "run" /\ serving' = FALSE
        /\ UNCHANGED <<todo, backup, changed>>
  /\ UNCHANGED <<orig, conf, file, redirected, cur, ret, spoiled, runVars>>

\* The adapter that is next, if the table of backups has room.  The backup is
\* saved before the settings change.
AfterRead == "save"

\* get_static_servers, which finds none when it fails.
Adapter(a) ==
  /\ at = "begin" /\ at' = AfterRead
  /\ a \in todo /\ Cardinality(Listed(backup)) < MaxAdapters
  /\ todo' = todo \ {a} /\ cur' = a
  /\ \/ backup' = [backup EXCEPT ![a] = conf[a]] /\ UNCHANGED spoiled
     \/ backup' = [backup EXCEPT ![a] = [f \in Families |-> "dhcp"]] /\ Spoil(a, FALSE)
  /\ UNCHANGED <<orig, conf, file, procVars, changed, ret, runVars>>

\* Where the code is after a save: the settings of the adapter at hand, or the
\* end of plat_dns_redirect_begin.
Saved ==
  /\ at' = IF cur # None THEN "set" ELSE "run"
  /\ redirected' = (cur = None)

\* save_backup_file: fopen_s empties the file, or fails.
SaveOpen ==
  /\ at = "save"
  /\ \/ file' = NoBackup /\ at' = "write" /\ UNCHANGED <<redirected, spoiled>>
     \/ Saved /\ spoiled' = spoiled \cup ({cur} \ {None}) /\ UNCHANGED file
  /\ UNCHANGED <<orig, conf, backup, serving, adapterVars, ret, runVars>>

\* What fclose writes; _Last is a mutant that saves the adapter at hand only.
Lines_Last == [a \in Adapters |-> IF a = cur THEN backup[a] ELSE None]

Lines == backup

SaveWrite ==
  /\ at = "write" /\ Saved
  /\ file' = [a \in Adapters |-> Line(Lines[a])]
  /\ UNCHANGED <<orig, conf, backup, serving, adapterVars, ret, spoiled, runVars>>

\* Only an adapter that takes the IPv4 server counts.
Counts(f) == f = "v4"

Take(f) ==
  \E works \in BOOLEAN :
    Put(cur, f, "ours", works) /\ changed' = (changed \/ (works /\ Counts(f)))

SetV4 ==
  /\ at = "set" /\ at' = "set6" /\ Take("v4")
  /\ UNCHANGED <<orig, file, backup, procVars, todo, cur, ret, spoiled, runVars>>

SetV6 ==
  /\ at = "set6" /\ at' = "begin" /\ Take("v6")
  /\ cur' = None
  /\ UNCHANGED <<orig, file, backup, procVars, todo, ret, spoiled, runVars>>

\* All done: saved once more, or undone if no adapter took it.  _Not is a mutant
\* that just returns then, whatever took the IPv6 server.
Undo_Not == at' = "run" /\ serving' = FALSE /\ UNCHANGED <<todo, ret>>

Undo == at' = "end" /\ ret' = "run" /\ todo' = Listed(backup) /\ UNCHANGED serving

BeginDone ==
  /\ at = "begin" /\ (todo = {} \/ Cardinality(Listed(backup)) >= MaxAdapters)
  /\ \/ changed /\ at' = "save" /\ UNCHANGED <<todo, ret, serving>>
     \/ ~changed /\ Undo
  /\ UNCHANGED <<orig, conf, file, backup, redirected, changed, cur, spoiled, runVars>>

-----------------------------------------------------------------------------
(***************************************************************************)
(* plat_dns_redirect_end, and plat_dns_redirect_recover, which does the    *)
(* same from the lines of the file.                                        *)
(***************************************************************************)

\* One adapter: its IPv4 servers, then its IPv6 servers, from the lines.
PutBack4(from, next, lines) ==
  /\ at = from /\ at' = next
  /\ \E a \in todo, works \in BOOLEAN :
       /\ cur' = a /\ todo' = todo \ {a}
       /\ Put(a, "v4", lines[a]["v4"], works) /\ Spoil(a, works)
  /\ UNCHANGED <<orig, file, backup, procVars, changed, ret, runVars>>

PutBack6(from, next, lines) ==
  /\ at = from /\ at' = next
  /\ cur' = None
  /\ \E works \in BOOLEAN :
       Put(cur, "v6", lines[cur]["v6"], works) /\ Spoil(cur, works)
  /\ UNCHANGED <<orig, file, backup, procVars, changed, todo, ret, runVars>>

End4 == PutBack4("end", "end6", backup)
End6 == PutBack6("end6", "end", backup)

\* delete_backup_file, whatever was refused; then dnsd_stop.
EndDone ==
  /\ at = "end" /\ todo = {}
  /\ at' = ret
  /\ file' = NoBackup /\ backup' = NoBackup
  /\ redirected' = FALSE /\ serving' = FALSE
  /\ UNCHANGED <<orig, conf, adapterVars, ret, spoiled, runVars>>

Recover4 == PutBack4("recover", "recover6", ReadFile)
Recover6 == PutBack6("recover6", "recover", ReadFile)

RecoverDone ==
  /\ at = "recover" /\ todo = {}
  /\ at' = "run"
  /\ file' = NoBackup
  /\ UNCHANGED <<orig, conf, backup, procVars, adapterVars, ret, spoiled, runVars>>

-----------------------------------------------------------------------------
(***************************************************************************)
(* The engine around it.                                                   *)
(***************************************************************************)

\* engine_start: plat_dns_redirect_recover first.
Launch ==
  /\ at = "down" /\ launches < MaxLaunches /\ launches' = launches + 1
  /\ at' = "recover" /\ todo' = Listed(file)
  /\ crashed' = FALSE
  /\ UNCHANGED <<orig, conf, file, backup, procVars, changed, cur, ret, spoiled>>

\* dns_apply, the filter wanted; without dnsd_start nothing is redirected.
TurnOn ==
  /\ at = "run" /\ ~redirected /\ at' = "read"
  /\ serving' = TRUE
  /\ UNCHANGED <<orig, conf, file, backup, redirected, adapterVars, ret, spoiled, runVars>>

\* dns_apply, the filter not wanted any more, and engine_stop.
Stopping(next) ==
  /\ at = "run" /\ redirected /\ at' = "end"
  /\ ret' = next /\ todo' = Listed(backup)
  /\ UNCHANGED <<orig, conf, file, backup, procVars, changed, cur, spoiled, runVars>>

TurnOff == Stopping("run")
Quit    == Stopping("down")

QuitPlain ==
  /\ at = "run" /\ ~redirected /\ at' = "down"
  /\ UNCHANGED <<orig, conf, file, backup, procVars, adapterVars, ret, spoiled, runVars>>

\* The adapters a process leaves changed without a line in the file.
Exposed == {a \in Adapters : conf[a] # orig[a] /\ file[a] = None}

\* The process dies; what it did to the adapters and the file stays.  While the
\* file is empty the adapters changed before are lost.
Crash ==
  /\ at # "down" /\ at' = "down"
  /\ backup' = NoBackup /\ redirected' = FALSE /\ serving' = FALSE
  /\ changed' = FALSE /\ todo' = {} /\ cur' = None
  /\ spoiled' = IF at = "write" THEN spoiled \cup Exposed ELSE spoiled
  /\ crashed' = TRUE
  /\ UNCHANGED <<orig, conf, file, ret, launches>>

\* Not started again.
Finished == at = "down" /\ launches = MaxLaunches /\ UNCHANGED adaptersVars

-----------------------------------------------------------------------------
Redirect == ReadAdapters \/ (\E a \in Adapters : Adapter(a)) \/ SaveOpen \/ SaveWrite
              \/ SetV4 \/ SetV6 \/ BeginDone
Restore  == End4 \/ End6 \/ EndDone \/ Recover4 \/ Recover6 \/ RecoverDone
Engine   == Launch \/ TurnOn \/ TurnOff \/ Quit \/ QuitPlain

AdaptersNext == Redirect \/ Restore \/ Engine \/ Crash \/ Finished

AdaptersSpec == AdaptersInit /\ [][AdaptersNext]_adaptersVars

-----------------------------------------------------------------------------
(***************************************************************************)
(* Properties.                                                             *)
(***************************************************************************)

Unspoiled == Adapters \ spoiled

\* The lines of the file and of the table are what the user had.
LinesTrue ==
  \A a \in Unspoiled :
    /\ file[a] # None => ReadFile[a] = orig[a]
    /\ backup[a] # None => backup[a] = orig[a]

\* An adapter that is changed is in the file, but while that is rewritten, and
\* in the table of a process that has read it.
ChangedListed ==
  \A a \in Unspoiled : conf[a] # orig[a] =>
    /\ at # "write" => file[a] # None
    /\ at \notin {"down", "recover", "recover6"} => backup[a] # None

\* The adapter at hand, and the adapters still to do.
Places ==
  /\ at \in {"set", "set6", "end6", "recover6"} => cur # None
  /\ at \in {"down", "run", "read", "begin", "end", "recover"} => cur = None
  /\ at \in {"set", "set6"} => cur \in spoiled \/ file[cur] # None
  /\ at \in {"save", "write", "set", "set6"} /\ cur # None => backup[cur] # None
  /\ at \in {"save", "write", "set", "set6"} => cur \notin todo
  /\ at \in {"end", "end6"} => todo \subseteq Listed(backup)
  /\ at \in {"recover", "recover6"} => todo \subseteq Listed(file)
  /\ at = "end6" => cur \in Listed(backup)
  /\ at = "recover6" => cur \in Listed(file)

\* What the loops have not changed yet, and what they have put back.
Progress ==
  \A a \in Unspoiled :
    /\ at \in {"begin", "save", "write", "set", "set6"} /\ a \in todo => conf[a] = orig[a]
    /\ at \in {"end", "recover"} /\ a \notin todo => conf[a] = orig[a]
    /\ at \in {"end6", "recover6"} /\ a \notin todo /\ a # cur => conf[a] = orig[a]
    /\ at \in {"end6", "recover6"} /\ a = cur => conf[a]["v4"] = orig[a]["v4"]

\* Where the redirection is on, and what is left when it is off.
Redirected ==
  /\ redirected => at \in {"run", "end", "end6"}
  /\ at \in {"run", "read"} /\ ~redirected =>
       file = NoBackup /\ \A a \in Unspoiled : conf[a] = orig[a]
  /\ at = "down" /\ ~crashed =>
       file = NoBackup /\ \A a \in Unspoiled : conf[a] = orig[a]

\* The inductive invariant of the redirection.
AdaptersInv == LinesTrue /\ ChangedListed /\ Places /\ Progress /\ Redirected

\* At every moment but while the file is rewritten, so also after a crash
\* between any two calls, each adapter has the servers the user gave it or a
\* line in the file the next start puts back.
Recoverable ==
  at # "write" =>
    \A a \in Unspoiled, f \in Families :
      conf[a][f] = orig[a][f] \/ (file[a] # None /\ ReadFile[a][f] = orig[a][f])

\* Once the engine has started, and after it has stopped, with the redirection
\* off every adapter is as the user left it and no backup waits, whatever
\* crashed before and at whichever adapter the redirection was given up.
Restored ==
  (at = "run" /\ ~redirected) \/ (at = "down" /\ ~crashed) =>
    file = NoBackup /\ \A a \in Unspoiled : conf[a] = orig[a]

\* The redirection counts as on only while the proxy serves and an adapter uses
\* it, so that the proxy is not left running for nobody, nor the guard against
\* other servers set up without it.
InUse == at = "run" => /\ redirected = serving
                       /\ redirected => \E a \in Adapters : conf[a]["v4"] = "ours"

=============================================================================
