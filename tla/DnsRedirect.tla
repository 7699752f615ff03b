---------------------------- MODULE DnsRedirect ----------------------------
(***************************************************************************)
(* How the Linux build points the system at its DNS proxy and back: the    *)
(* rewriting of /etc/resolv.conf with its backup files                     *)
(* (src/linux/platform_linux.c), inside the calls of engine_start,         *)
(* dns_apply and engine_stop that surround it, with a crash between any    *)
(* two system calls.  Module Enforcement takes each of the redirections    *)
(* for one step; here it is a sequence of system calls.                    *)
(*                                                                         *)
(* A file is the name of what it holds: the user's link or file, the       *)
(* rewritten one ("ours"), one opened for writing and not yet written      *)
(* ("cut"), or none.  External: the kernel keeps its table, so also the    *)
(* guard that refuses other DNS servers, when the process dies.            *)
(*                                                                         *)
(* Abstracted: which servers are listed (the user's, also in "ours", as    *)
(* fallbacks), cache flushes, log lines.  The process runs as root; nobody *)
(* else rewrites resolv.conf while it is redirected.                       *)
(***************************************************************************)
EXTENDS Naturals

CONSTANTS
  MaxCrashes,   \* bound on the number of crashes
  MaxLaunches   \* bound on the number of starts of the engine

ASSUME BoundAssumption == MaxCrashes \in Nat /\ MaxLaunches \in Nat

Originals == {"link", "file", "none"}

VARIABLES
  orig,        \* what resolv.conf is without WireCee
  resolv,      \* /etc/resolv.conf
  meta,        \* dns-backup.tsv
  copy,        \* resolv.conf.backup
  redirected,  \* g_redirected
  serving,     \* the proxy answers on 127.0.0.1:53
  guard,       \* the kernel refuses DNS servers other than the proxy's
  active,      \* g_active: fw_start succeeded
  ioFailed,    \* a copy or a link could not be written while backing up or restoring
  fwFailed,    \* the last fw_start or fw_apply failed
  pc, ret,     \* where the engine is; where restore_resolv returns to
  crashed,     \* the last exit was not engine_stop
  crashes, launches

files    == <<resolv, meta, copy>>
procVars == <<redirected, serving>>
fwVars   == <<guard, active, fwFailed>>
histVars == <<crashed, crashes, launches>>
vars == <<orig, files, procVars, fwVars, ioFailed, pc, ret, histVars>>

PCs ==
  {"down", "clear", "run", "apply", "unserve", "quit",
   "begin", "backup", "fillCopy", "mark", "unlink", "create", "fill",
   "restore", "relink", "link", "recopy", "refill", "dropMeta", "dropCopy"}

TypeOK ==
  /\ orig \in Originals
  /\ resolv \in Originals \cup {"ours", "cut"}
  /\ meta \in {"none", "cut", "link", "file"}
  /\ copy \in {"none", "cut", "file", "ours"}
  /\ redirected \in BOOLEAN /\ serving \in BOOLEAN
  /\ guard \in BOOLEAN /\ active \in BOOLEAN
  /\ ioFailed \in BOOLEAN /\ fwFailed \in BOOLEAN /\ crashed \in BOOLEAN
  /\ pc \in PCs /\ ret \in {"clear", "unserve", "quit"}
  /\ crashes \in 0 .. MaxCrashes /\ launches \in 0 .. MaxLaunches

Init ==
  /\ orig \in Originals
  /\ resolv = orig /\ meta = "none" /\ copy = "none"
  /\ redirected = FALSE /\ serving = FALSE
  /\ guard = FALSE /\ active = FALSE
  /\ ioFailed = FALSE /\ fwFailed = FALSE
  /\ pc = "down" /\ ret = "clear"
  /\ crashed = FALSE /\ crashes = 0 /\ launches = 0

Goto(label) == pc' = label /\ UNCHANGED ret

\* A call of restore_resolv.
CallRestore(from) == pc' = "restore" /\ ret' = from

-----------------------------------------------------------------------------
(***************************************************************************)
(* plat_dns_redirect_begin.                                                *)
(***************************************************************************)

\* Where the backup ends and the rewriting begins; _TooEarly is a mutant that
\* does not wait for the backup of a file.
AfterOpen_TooEarly == "unlink"

AfterOpen == "fillCopy"

\* The backup file is opened, or the redirection is given up.
Begin ==
  /\ pc = "begin"
  /\ \/ meta' = "cut" /\ Goto("backup") /\ UNCHANGED serving
     \/ serving' = FALSE /\ Goto("apply") /\ UNCHANGED meta
  /\ UNCHANGED <<orig, resolv, copy, redirected, fwVars, ioFailed, histVars>>

\* lstat: a link is remembered by its target.
IsLink == resolv = "link"

BackupLink ==
  /\ pc = "backup" /\ IsLink
  /\ meta' = "link" /\ Goto("unlink")
  /\ UNCHANGED <<orig, resolv, copy, procVars, fwVars, ioFailed, histVars>>

\* copy_file, whose result is not looked at.
BackupFile ==
  /\ pc = "backup" /\ ~IsLink /\ resolv # "none"
  /\ \/ copy' = "cut" /\ Goto(AfterOpen) /\ UNCHANGED ioFailed
     \/ ioFailed' = TRUE /\ Goto("mark") /\ UNCHANGED copy
  /\ UNCHANGED <<orig, resolv, meta, procVars, fwVars, histVars>>

BackupNothing ==
  /\ pc = "backup" /\ resolv = "none" /\ Goto("mark")
  /\ UNCHANGED <<orig, files, procVars, fwVars, ioFailed, histVars>>

FillCopy ==
  /\ pc = "fillCopy" /\ Goto("mark")
  /\ copy' = resolv
  /\ UNCHANGED <<orig, resolv, meta, procVars, fwVars, ioFailed, histVars>>

Mark ==
  /\ pc = "mark" /\ Goto("unlink")
  /\ meta' = "file"
  /\ UNCHANGED <<orig, resolv, copy, procVars, fwVars, ioFailed, histVars>>

Unlink ==
  /\ pc = "unlink" /\ Goto("create")
  /\ resolv' = "none"
  /\ UNCHANGED <<orig, meta, copy, procVars, fwVars, ioFailed, histVars>>

\* A resolv.conf that cannot be created is restored, and the proxy stopped.
Create ==
  /\ pc = "create"
  /\ \/ resolv' = "cut" /\ Goto("fill")
     \/ UNCHANGED resolv /\ CallRestore("unserve")
  /\ UNCHANGED <<orig, meta, copy, procVars, fwVars, ioFailed, histVars>>

Fill ==
  /\ pc = "fill" /\ Goto("apply")
  /\ resolv' = "ours" /\ redirected' = TRUE
  /\ UNCHANGED <<orig, meta, copy, serving, fwVars, ioFailed, histVars>>

-----------------------------------------------------------------------------
(***************************************************************************)
(* restore_resolv, called by plat_dns_redirect_recover, by                 *)
(* plat_dns_redirect_end and by a plat_dns_redirect_begin that fails.      *)
(***************************************************************************)
Return == pc' = ret /\ UNCHANGED ret

RestoreNothing ==
  /\ pc = "restore" /\ meta = "none" /\ Return
  /\ redirected' = FALSE
  /\ UNCHANGED <<orig, files, serving, fwVars, ioFailed, histVars>>

\* What the first line of the backup says; a backup that was cut off says nothing.
Kind == [link |-> "relink", file |-> "recopy", cut |-> "dropMeta"]

RestoreRead ==
  /\ pc = "restore" /\ meta # "none" /\ Goto(Kind[meta])
  /\ UNCHANGED <<orig, files, procVars, fwVars, ioFailed, histVars>>

Relink ==
  /\ pc = "relink" /\ Goto("link")
  /\ resolv' = "none"
  /\ UNCHANGED <<orig, meta, copy, procVars, fwVars, ioFailed, histVars>>

Link ==
  /\ pc = "link" /\ Goto("dropMeta")
  /\ \/ resolv' = "link" /\ UNCHANGED ioFailed
     \/ ioFailed' = TRUE /\ UNCHANGED resolv
  /\ UNCHANGED <<orig, meta, copy, procVars, fwVars, histVars>>

\* Without a copy nothing is restored.
Recopy ==
  /\ pc = "recopy"
  /\ \/ copy = "none" /\ Goto("dropMeta") /\ UNCHANGED <<resolv, ioFailed>>
     \/ copy # "none" /\ resolv' = "cut" /\ Goto("refill") /\ UNCHANGED ioFailed
     \/ copy # "none" /\ ioFailed' = TRUE /\ Goto("dropMeta") /\ UNCHANGED resolv
  /\ UNCHANGED <<orig, meta, copy, procVars, fwVars, histVars>>

Refill ==
  /\ pc = "refill" /\ Goto("dropMeta")
  /\ resolv' = copy
  /\ UNCHANGED <<orig, meta, copy, procVars, fwVars, ioFailed, histVars>>

\* The backup is removed, whether it was restored or not; the file that says
\* there is one goes first.
DropMeta ==
  /\ pc = "dropMeta" /\ Goto("dropCopy")
  /\ meta' = "none"
  /\ UNCHANGED <<orig, resolv, copy, procVars, fwVars, ioFailed, histVars>>

DropCopy ==
  /\ pc = "dropCopy" /\ Return
  /\ copy' = "none" /\ redirected' = FALSE
  /\ UNCHANGED <<orig, resolv, meta, serving, fwVars, ioFailed, histVars>>

-----------------------------------------------------------------------------
(***************************************************************************)
(* The engine around it.                                                   *)
(***************************************************************************)

\* engine_start: plat_dns_redirect_recover first.  _NoRecover is a mutant.
FirstCall_NoRecover == pc' = "clear" /\ UNCHANGED ret

FirstCall == CallRestore("clear")

Launch ==
  /\ pc = "down" /\ launches < MaxLaunches /\ launches' = launches + 1
  /\ FirstCall
  /\ crashed' = FALSE
  /\ UNCHANGED <<orig, files, procVars, fwVars, ioFailed, crashes>>

\* fw_start deletes the table an earlier process may have left, or finds no nft.
Clear ==
  /\ pc = "clear" /\ Goto("run")
  /\ \/ active' = TRUE /\ guard' = FALSE /\ fwFailed' = FALSE
     \/ active' = FALSE /\ guard' = guard /\ fwFailed' = TRUE
  /\ UNCHANGED <<orig, files, procVars, ioFailed, histVars>>

\* dns_apply, the filter wanted: dnsd_start may fail.
TurnOn ==
  /\ pc = "run" /\ ~redirected
  /\ \/ serving' = TRUE /\ Goto("begin")
     \/ UNCHANGED serving /\ Goto("apply")
  /\ UNCHANGED <<orig, files, redirected, fwVars, ioFailed, histVars>>

\* dns_apply, the filter not wanted any more.
Restoring(next) == CallRestore(next) /\ UNCHANGED redirected

TurnOff ==
  /\ pc = "run" /\ redirected /\ Restoring("unserve")
  /\ UNCHANGED <<orig, files, serving, fwVars, ioFailed, histVars>>

\* dnsd_stop.
Unserve ==
  /\ pc = "unserve" /\ Goto("apply")
  /\ serving' = FALSE
  /\ UNCHANGED <<orig, files, redirected, fwVars, ioFailed, histVars>>

\* apply_enforcement installs the guard with the rest, or fails, or has no filter
\* to install it in; the posture Off installs none of it.  _Always is a mutant
\* that wants the guard whenever the setting does.
Guarded_Always == TRUE

Guarded == redirected

Apply ==
  /\ pc = "apply" /\ Goto("run")
  /\ \/ /\ active /\ fwFailed' = FALSE
        /\ \E filtering \in BOOLEAN : guard' = (filtering /\ Guarded)
     \/ active /\ guard' = guard /\ fwFailed' = TRUE
     \/ ~active /\ UNCHANGED <<guard, fwFailed>>
  /\ UNCHANGED <<orig, files, procVars, active, ioFailed, histVars>>

\* A handler that changes something else the filter is made from.
Reapply ==
  /\ pc = "run" /\ Goto("apply")
  /\ UNCHANGED <<orig, files, procVars, fwVars, ioFailed, histVars>>

\* engine_stop: the redirection, the proxy and the filter, in this order.
Quit ==
  /\ pc = "run"
  /\ IF redirected THEN Restoring("quit") ELSE Goto("quit") /\ UNCHANGED redirected
  /\ UNCHANGED <<orig, files, serving, fwVars, ioFailed, histVars>>

Exit ==
  /\ pc = "quit" /\ Goto("down")
  /\ serving' = FALSE /\ active' = FALSE
  /\ guard' = (guard /\ ~active)
  /\ UNCHANGED <<orig, files, redirected, ioFailed, fwFailed, histVars>>

\* The process dies: files and the kernel's table stay.
Crash ==
  /\ pc # "down" /\ crashes < MaxCrashes /\ crashes' = crashes + 1
  /\ Goto("down")
  /\ crashed' = TRUE /\ redirected' = FALSE /\ serving' = FALSE /\ active' = FALSE
  /\ UNCHANGED <<orig, files, guard, fwFailed, ioFailed, launches>>

\* Not started again.
Finished == pc = "down" /\ launches = MaxLaunches /\ UNCHANGED vars

-----------------------------------------------------------------------------
Redirect == Begin \/ BackupLink \/ BackupFile \/ BackupNothing \/ FillCopy
              \/ Mark \/ Unlink \/ Create \/ Fill
Restore  == RestoreNothing \/ RestoreRead \/ Relink \/ Link \/ Recopy \/ Refill
              \/ DropMeta \/ DropCopy
Engine   == Launch \/ Clear \/ TurnOn \/ TurnOff \/ Unserve \/ Apply \/ Reapply \/ Quit \/ Exit

Next == Redirect \/ Restore \/ Engine \/ Crash \/ Finished

Spec == Init /\ [][Next]_vars

-----------------------------------------------------------------------------
(***************************************************************************)
(* Properties.                                                             *)
(***************************************************************************)

\* The backup names what the user had.
Backed ==
  \/ orig = "link" /\ meta = "link"
  \/ orig = "file" /\ meta = "file" /\ copy = "file"

\* The restoring can undo the rewriting.
Sound == ~ioFailed /\ orig # "none"

\* The files agree with each other at every moment.
FilesAgree ==
  Sound =>
    /\ meta \in {"none", "cut"} => resolv = orig
    /\ meta \in {"link", "file"} => Backed

\* How far the backup has come where the code writes or reads it.
BackupProgress ==
  /\ pc \in {"backup", "fillCopy", "mark"} => meta = "cut"
  /\ pc = "fillCopy" => resolv \in {"file", "ours", "cut"}
  /\ Sound /\ pc \in {"fillCopy", "mark"} => orig = "file"
  /\ Sound /\ pc = "mark" => copy = "file"
  /\ pc \in {"unlink", "create", "fill"} => meta \in {"link", "file"}
  /\ pc \in {"relink", "link"} => meta = "link"
  /\ pc \in {"recopy", "refill"} => meta = "file"
  /\ Sound /\ pc = "dropMeta" => resolv = orig
  /\ pc \in {"dropCopy", "clear", "begin", "unserve", "quit"} => meta = "none"

\* fw_start has been called.
Started ==
  /\ pc \notin {"down", "clear"}
  /\ pc \in {"restore", "relink", "link", "recopy", "refill", "dropMeta", "dropCopy"} =>
       ret # "clear"

\* g_redirected, the proxy and the guard where the engine is.
EngineProgress ==
  /\ redirected =>
       /\ pc \in {"run", "apply", "restore", "relink", "link", "recopy", "refill",
                  "dropMeta", "dropCopy"}
       /\ pc \in {"run", "apply"} => resolv = "ours" /\ serving
       /\ pc \notin {"run", "apply"} => ret \in {"unserve", "quit"}
  /\ pc \in {"run", "apply"} /\ ~redirected => meta = "none"
  /\ pc \in {"begin", "backup", "fillCopy", "mark", "unlink", "create", "fill"} => serving
  /\ pc = "down" /\ ~crashed => meta = "none" /\ (guard => fwFailed)
  /\ Started => active \/ fwFailed
  /\ pc = "run" /\ guard => redirected \/ fwFailed

\* The inductive invariant of the redirection.
IInv == FilesAgree /\ BackupProgress /\ EngineProgress

\* At every moment, so also after a crash between any two system calls, what
\* the user had in resolv.conf is there or in the backup restore_resolv reads,
\* unless a copy or link could not be written.
Recoverable == Sound => resolv = orig \/ Backed

\* Once the engine has started, and after it has stopped, with the redirection
\* off resolv.conf is the user's and no backup waits, whatever crashed before.
\* Where there was no resolv.conf, ours may stay, or what a crash left of it.
Restored ==
  (pc = "run" /\ ~redirected) \/ (pc = "down" /\ ~crashed) =>
    /\ meta = "none"
    /\ Sound => resolv = orig

\* A program can resolve names: through the proxy, or through one of the user's
\* servers, which are listed in either file, if nothing refuses them.
Resolves == (resolv = "ours" /\ serving) \/ (resolv \in {orig, "ours"} /\ ~guard)

\* Names resolve whenever the engine rests and after it has stopped, unless the
\* filter could not be installed.
NamesResolve ==
  Sound /\ (pc = "run" \/ (pc = "down" /\ ~crashed)) => fwFailed \/ Resolves

=============================================================================
