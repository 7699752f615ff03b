----------------------------- MODULE Instances ------------------------------
(***************************************************************************)
(* The processes of the program on one machine: the engines, started from  *)
(* a terminal or by the service manager (src/linux/main.c,                 *)
(* src/windows/host.c), and the commands that look for them                *)
(* (src/core/cli.c), which know of each other by the file instance.port    *)
(* alone: the port and the process number of an engine, written when it    *)
(* serves and removed when it stops or by whoever finds it stale.  Nothing *)
(* is locked, and a process may die between any two steps.                 *)
(*                                                                         *)
(* External: the process numbers and ports other programs take.            *)
(*                                                                         *)
(* Abstracted: the windows and the tray, but for the moment from which a   *)
(* quit reaches the Windows program; the commands that only ask and print, *)
(* which do what "status" does and leave a stale record alone; ports that  *)
(* are asked for by number.                                                *)
(***************************************************************************)
EXTENDS Naturals, FiniteSets

CONSTANTS
  Builds,       \* of "linux" and "windows"
  Pids, Ports,
  Service,      \* SERVICE_PORT, one of the ports
  None,         \* no process, no port, no record
  MaxLaunches,  \* bound on the processes that are begun
  MaxFaults     \* bound on crashes, failed calls and what other programs take

ASSUME InstancesAssumption ==
  /\ None \notin Pids \cup Ports \cup {"app", "service", "status", "stop"}
  /\ None \notin [port : Ports, pid : Pids]
  /\ "other" \notin Pids

VARIABLES
  build,
  kind, at,   \* what a process is for, and where it is
  port,       \* the port it has read, or picked
  quit,       \* an engine was told to leave its loop
  record,     \* instance.port
  listener,   \* who listens on a port
  others,     \* the process numbers other programs have
  asked,      \* engines that have answered a request to quit
  crashed,    \* numbers of processes that died, and have written no record since
  odd,        \* the races that have happened
  launches, faults

system == <<record, listener, others>>
ghosts == <<asked, crashed, odd>>
bounds == <<launches, faults>>
enginesVars == <<build, kind, at, port, quit, system, ghosts, bounds>>

Engines  == {"app", "service"}
Commands == {"status", "stop"}
Labels == {"gone", "read", "unlink", "call", "clear", "pick", "bind", "open", "write", "tray",
           "run", "close", "halt"}
Races  == {"raced", "unwritten", "early"}

EnginesTypeOK ==
  /\ build \in Builds
  /\ kind \in [Pids -> Engines \cup Commands \cup {None}] /\ at \in [Pids -> Labels]
  /\ port \in [Pids -> Ports \cup {None}] /\ quit \in [Pids -> BOOLEAN]
  /\ record \in [port : Ports, pid : Pids] \cup {None}
  /\ listener \in [Ports -> Pids \cup {"other", None}]
  /\ others \subseteq Pids /\ asked \subseteq Pids /\ crashed \subseteq Pids /\ odd \subseteq Races

EnginesInit ==
  /\ build \in Builds
  /\ kind = [p \in Pids |-> None] /\ at = [p \in Pids |-> "gone"]
  /\ port = [p \in Pids |-> None] /\ quit = [p \in Pids |-> FALSE]
  /\ record = None /\ listener = [x \in Ports |-> None] /\ others = {}
  /\ asked = {} /\ crashed = {} /\ odd = {}
  /\ launches = 0 /\ faults = 0

Proceed(p, label) == at' = [at EXCEPT ![p] = label]
Alive(p)     == at[p] # "gone"
Start(p)     == kind[p] \in Engines
Unsettled(p) == at[p] \notin {"gone", "run"}
EngineOn(p)  == at[p] \in {"bind", "open", "write", "tray", "run", "close", "halt"}
Fault == faults < MaxFaults /\ faults' = faults + 1

\* The process is gone, with its socket.
End(p) ==
  /\ Proceed(p, "gone")
  /\ kind' = [kind EXCEPT ![p] = None] /\ port' = [port EXCEPT ![p] = None]
  /\ quit' = [quit EXCEPT ![p] = FALSE] /\ asked' = asked \ {p}
  /\ listener' = [x \in Ports |-> IF listener[x] = p THEN None ELSE listener[x]]

-----------------------------------------------------------------------------
(***************************************************************************)
(* Every process: instance_read and what follows it.                       *)
(***************************************************************************)

\* The service of Windows does not look for an engine.  There is one service.
Launch(p, k) ==
  /\ ~Alive(p) /\ p \notin others /\ launches < MaxLaunches /\ launches' = launches + 1
  /\ k = "service" => \A q \in Pids : kind[q] # "service"
  /\ kind' = [kind EXCEPT ![p] = k]
  /\ Proceed(p, IF k = "service" /\ build = "windows" THEN "pick" ELSE "read")
  /\ odd' = IF \/ k \in Engines /\ \E q \in Pids : Unsettled(q)
               \/ \E q \in Pids : Start(q) /\ Unsettled(q)
               \/ k = "service" /\ build = "windows" /\ \E q \in Pids : EngineOn(q)
            THEN odd \cup {"raced"} ELSE odd
  /\ UNCHANGED <<build, port, quit, system, asked, crashed, faults>>

\* What a process does when there is no record.
Absent(p) ==
  IF Start(p) THEN Proceed(p, "pick") /\ UNCHANGED <<kind, port, quit, listener, asked>> ELSE End(p)

Recorded == record # None
Dead(p)  == ~Alive(p) /\ p \notin others

\* The process of the record is looked up: Windows knows that it is dead only
\* while somebody still holds it.
ReadRecord(p) ==
  /\ at[p] = "read"
  /\ \/ ~Recorded /\ Absent(p)
     \/ Recorded /\ Dead(record.pid) /\ Proceed(p, "unlink") /\ UNCHANGED <<kind, port, quit, listener, asked>>
     \/ /\ Recorded /\ (~Dead(record.pid) \/ build = "windows")
        /\ port' = [port EXCEPT ![p] = record.port] /\ Proceed(p, "call")
        /\ UNCHANGED <<kind, quit, listener, asked>>
  /\ UNCHANGED <<build, record, others, crashed, odd, bounds>>

\* instance_clear in instance_read, which then answers that there is none.
Unlink(p) ==
  /\ at[p] = "unlink" /\ record' = None /\ Absent(p)
  /\ UNCHANGED <<build, others, crashed, odd, bounds>>

\* An engine that answers is left alone; _App is a mutant where only a start
\* from a terminal does so.
GivesWay_App(p) == kind[p] # "service"
GivesWay(p) == TRUE

\* host_quit and linux_quit: before its window for the tray is there, the Windows
\* program loses it, and answers all the same.  _Window is a mutant that posts to
\* the window only, which a service has not.
Early(q) == at[q] \in {"open", "write", "tray"}
Reaches_Window(q) == build = "linux" \/ (kind[q] = "app" /\ ~Early(q))
Reaches(q) == build = "linux" \/ kind[q] = "service" \/ ~Early(q)

\* http_call and the answer of the program that listens, if any does.
CallEngine(p) ==
  LET q == listener[port[p]]
  IN /\ at[p] = "call" /\ q \in Pids
     /\ \/ Start(p) /\ ~GivesWay(p) /\ Proceed(p, "clear") /\ UNCHANGED <<kind, port, quit, listener, asked, odd>>
        \/ ((Start(p) /\ GivesWay(p)) \/ kind[p] = "status") /\ End(p) /\ UNCHANGED odd
        \/ /\ kind[p] = "stop" /\ Proceed(p, "gone")
           /\ kind' = [kind EXCEPT ![p] = None] /\ port' = [port EXCEPT ![p] = None]
           /\ quit' = [quit EXCEPT ![q] = @ \/ Reaches(q)] /\ asked' = asked \cup {q}
           /\ odd' = IF build = "windows" /\ kind[q] = "app" /\ Early(q) THEN odd \cup {"early"} ELSE odd
           /\ UNCHANGED listener
     /\ UNCHANGED <<build, record, others, crashed, bounds>>

\* No answer, or another program's: the record is stale for a start and for
\* "status".
CallFails(p) ==
  /\ at[p] = "call" /\ listener[port[p]] \notin Pids
  /\ IF kind[p] = "stop" THEN End(p)
     ELSE Proceed(p, "clear") /\ UNCHANGED <<kind, port, quit, listener, asked>>
  /\ UNCHANGED <<build, record, others, crashed, odd, bounds>>

Clear(p) ==
  /\ at[p] = "clear" /\ record' = None /\ Absent(p)
  /\ UNCHANGED <<build, others, crashed, odd, bounds>>

-----------------------------------------------------------------------------
(***************************************************************************)
(* An engine, from its port to its end.                                    *)
(***************************************************************************)
Free(x) == listener[x] = None

\* pick_port, of the service its own port first.  The program of Windows may
\* begin again with administrator rights instead.  engine_start follows.
Pick(p) ==
  /\ at[p] = "pick"
  /\ \/ /\ \E x \in Ports : /\ Free(x)
                            /\ (kind[p] = "service" /\ Free(Service)) => x = Service
                            /\ port' = [port EXCEPT ![p] = x]
        /\ Proceed(p, "bind") /\ UNCHANGED <<kind, quit, listener, asked>>
     \/ /\ (kind[p] = "app" /\ build = "windows") \/ \A x \in Ports : ~Free(x)
        /\ End(p)
  /\ UNCHANGED <<build, record, others, crashed, odd, bounds>>

\* api_start, or engine_stop and the end when another has taken the port.
Bind(p) ==
  /\ at[p] = "bind"
  /\ IF Free(port[p])
     THEN Proceed(p, "open") /\ listener' = [listener EXCEPT ![port[p]] = p] /\ UNCHANGED <<kind, port, quit, asked>>
     ELSE End(p)
  /\ UNCHANGED <<build, record, others, crashed, odd, bounds>>

Served(p) == Proceed(p, IF kind[p] = "app" /\ build = "windows" THEN "tray" ELSE "run")

\* instance_write: fopen_s empties the file, which then reads like none, or
\* fails.
OpenRecord(p) ==
  /\ at[p] = "open"
  /\ \/ record' = None /\ Proceed(p, "write") /\ UNCHANGED <<odd, faults>>
     \/ Fault /\ Served(p) /\ odd' = odd \cup {"unwritten"} /\ UNCHANGED record
  /\ UNCHANGED <<build, kind, port, quit, listener, others, asked, crashed, launches>>

\* Its own number goes with the port; _PortOnly is a mutant without it.
Written_PortOnly(p) == [port |-> port[p]]
Written(p) == [port |-> port[p], pid |-> p]

WriteRecord(p) ==
  /\ at[p] = "write" /\ Served(p) /\ record' = Written(p) /\ crashed' = crashed \ {p}
  /\ UNCHANGED <<build, kind, port, quit, listener, others, asked, odd, bounds>>

\* CreateHiddenWindowForTrayMessages and the window, or tear_down.
Tray(p) ==
  /\ at[p] = "tray"
  /\ \/ Proceed(p, "run") /\ UNCHANGED faults
     \/ Proceed(p, "close") /\ Fault
  /\ UNCHANGED <<build, kind, port, quit, system, ghosts, launches>>

\* A signal, the menu of the tray, a window that was the last, the service manager.
Exit(p) ==
  /\ at[p] = "run" /\ ~quit[p] /\ quit' = [quit EXCEPT ![p] = TRUE]
  /\ UNCHANGED <<build, kind, at, port, system, ghosts, bounds>>

Leave(p) ==
  /\ at[p] = "run" /\ quit[p] /\ Proceed(p, "close")
  /\ UNCHANGED <<build, kind, port, quit, system, ghosts, bounds>>

\* api_stop: the port is free while engine_stop still works.
CloseApi(p) ==
  /\ at[p] = "close" /\ Proceed(p, "halt")
  /\ listener' = [x \in Ports |-> IF listener[x] = p THEN None ELSE listener[x]]
  /\ odd' = IF \E q \in Pids \ {p} : Start(q) /\ Unsettled(q) THEN odd \cup {"raced"} ELSE odd
  /\ UNCHANGED <<build, kind, port, quit, record, others, asked, crashed, bounds>>

\* The last instance_clear, whoever the record names by now; _Kept is a mutant
\* without it.
Left_Kept == record
Left == None

Halt(p) ==
  /\ at[p] = "halt" /\ record' = Left /\ End(p)
  /\ UNCHANGED <<build, others, crashed, odd, bounds>>

Crash(p) ==
  /\ Alive(p) /\ Fault /\ End(p)
  /\ crashed' = crashed \cup {p}
  /\ UNCHANGED <<build, record, others, odd, launches>>

-----------------------------------------------------------------------------
(***************************************************************************)
(* Other programs.                                                         *)
(***************************************************************************)
TakePid(p) ==
  /\ Dead(p) /\ Fault /\ others' = others \cup {p}
  /\ UNCHANGED <<build, kind, at, port, quit, record, listener, ghosts, launches>>

TakePort(x) ==
  /\ Free(x) /\ Fault /\ listener' = [listener EXCEPT ![x] = "other"]
  /\ UNCHANGED <<build, kind, at, port, quit, record, others, ghosts, launches>>

GiveBack ==
  /\ \/ \E p \in others : others' = others \ {p} /\ UNCHANGED listener
     \/ \E x \in Ports : listener[x] = "other" /\ listener' = [listener EXCEPT ![x] = None] /\ UNCHANGED others
  /\ UNCHANGED <<build, kind, at, port, quit, record, ghosts, bounds>>

-----------------------------------------------------------------------------
Step(p) ==
  \/ ReadRecord(p) \/ Unlink(p) \/ CallEngine(p) \/ CallFails(p) \/ Clear(p)
  \/ Pick(p) \/ Bind(p) \/ OpenRecord(p) \/ WriteRecord(p) \/ Tray(p)
  \/ Leave(p) \/ CloseApi(p) \/ Halt(p)

EnginesNext ==
  \/ \E p \in Pids : Step(p) \/ Exit(p) \/ Crash(p) \/ TakePid(p)
  \/ \E p \in Pids, k \in Engines \cup Commands : Launch(p, k)
  \/ (\E x \in Ports : TakePort(x)) \/ GiveBack

\* A process that runs goes on.
EnginesSpec == EnginesInit /\ [][EnginesNext]_enginesVars /\ \A p \in Pids : WF_enginesVars(Step(p))

-----------------------------------------------------------------------------
(***************************************************************************)
(* Properties.                                                             *)
(***************************************************************************)
Even == {"raced", "unwritten"} \cap odd = {}

\* However engines have crashed, and whoever has their numbers and ports since, no
\* two engines run at once, unless one could not write its record, or was started
\* before another command, an earlier start or a stop was over.
OneEngine == Even => Cardinality({p \in Pids : EngineOn(p)}) <= 1

\* And a running engine is the one in the record, which a process that is gone
\* leaves behind by a crash only.
RecordTrue ==
  Even =>
    /\ \A p \in Pids : at[p] = "run" => record = [port |-> port[p], pid |-> p]
    /\ Recorded => Alive(record.pid) \/ record.pid \in crashed

\* What OneEngine and RecordTrue rest on, at every step of every process.

\* Every process is at a step of what it was launched for.
KindsMatch ==
  \A p \in Pids : /\ kind[p] = None <=> at[p] = "gone"
                  /\ at[p] \in Labels \ {"gone", "read", "unlink", "call", "clear"} => Start(p)

\* An engine listens on its port from Bind to CloseApi, and nobody else does.
Listening == {"open", "write", "tray", "run", "close"}
PortsMatch ==
  /\ \A p \in Pids : at[p] \in Listening => port[p] \in Ports /\ listener[port[p]] = p
  /\ \A p \in Pids : at[p] \in {"call", "bind"} => port[p] \in Ports
  /\ \A x \in Ports : listener[x] \in Pids => at[listener[x]] \in Listening /\ port[listener[x]] = x

\* The record names an engine that serves, or one that crashed.
RecordOwned == Recorded => record.pid \in crashed \/ at[record.pid] \in {"tray", "run", "close", "halt"}

\* The next hold unless there was a race.  A start finds only engines that serve
\* or have begun to stop, and if one does it gets no further than the call.
Starting(p) == Start(p) /\ at[p] \notin {"run", "close", "halt"}
StartsAlone == \A p \in Pids : Starting(p) => \A q \in Pids \ {p} : at[q] \in {"gone", "run", "close"}
OneOn == \A p, q \in Pids : EngineOn(p) /\ EngineOn(q) => p = q

\* While an engine serves the record is its own, whoever calls has its port, and
\* nobody is about to remove the record or to pick a port.
ServingKnown ==
  \A p \in Pids :
    /\ at[p] \in {"tray", "run", "close"} => record = Written(p)
    /\ at[p] \in {"run", "close"} =>
         \A q \in Pids : /\ at[q] = "call" => port[q] = port[p]
                         /\ at[q] \notin {"unlink", "clear", "pick"}

EnginesInv ==
  /\ EnginesTypeOK /\ KindsMatch /\ PortsMatch /\ RecordOwned
  /\ Even => StartsAlone /\ OneOn /\ ServingKnown

\* The record is whole when it is read, one engine runs, and it is that one.
Inv == EnginesTypeOK /\ OneEngine /\ RecordTrue

\* An engine that has answered a request to quit ends, a service too, unless it
\* is the Windows program and has no window yet.
QuitEnds == \A p \in Pids : (p \in asked /\ "early" \notin odd) ~> ~Alive(p)

=============================================================================
