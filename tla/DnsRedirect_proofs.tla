------------------------- MODULE DnsRedirect_proofs -------------------------
(***************************************************************************)
(* Theorems about DnsRedirect, for any number of crashes and starts.       *)
(*                                                                         *)
(* The type invariant is inductive only together with IInv: a link is      *)
(* never copied because fillCopy is reached only where resolv.conf is not  *)
(* one.  So TypeOK /\ IInv is shown to be preserved, in three parts for    *)
(* the types (files, flags, places) and one for each part of IInv, each by *)
(* cases on the actions.  The other properties follow from TypeOK /\ IInv  *)
(* in the state itself.                                                    *)
(***************************************************************************)
EXTENDS DnsRedirect, TLAPS

USE DEF Originals, PCs, files, procVars, fwVars, histVars, Goto, CallRestore, Return

FileTypes ==
  /\ orig \in Originals
  /\ resolv \in Originals \cup {"ours", "cut"}
  /\ meta \in {"none", "cut", "link", "file"}
  /\ copy \in {"none", "cut", "file", "ours"}

FlagTypes ==
  /\ redirected \in BOOLEAN /\ serving \in BOOLEAN /\ guard \in BOOLEAN /\ active \in BOOLEAN
  /\ ioFailed \in BOOLEAN /\ fwFailed \in BOOLEAN /\ crashed \in BOOLEAN

PlaceTypes ==
  /\ pc \in PCs /\ ret \in {"clear", "unserve", "quit"}
  /\ crashes \in 0 .. MaxCrashes /\ launches \in 0 .. MaxLaunches

\* The three parts are the type invariant.
LEMMA TypeParts == TypeOK <=> FileTypes /\ FlagTypes /\ PlaceTypes
  BY DEF TypeOK, FileTypes, FlagTypes, PlaceTypes

-----------------------------------------------------------------------------
\* The first state, before the program ever ran, has the types and satisfies IInv.
LEMMA InitCorrect == Init => TypeOK /\ IInv
<1> SUFFICES ASSUME Init PROVE TypeOK /\ IInv OBVIOUS
<1>1. FileTypes BY DEF Init, FileTypes
<1>2. FlagTypes BY DEF Init, FlagTypes
<1>3. PlaceTypes BY BoundAssumption DEF Init, PlaceTypes
<1>4. IInv BY DEF Init, IInv, FilesAgree, BackupProgress, EngineProgress, Started, Sound, Backed
<1> QED BY <1>1, <1>2, <1>3, <1>4, TypeParts

-----------------------------------------------------------------------------
\* The files and the backup hold what the code can write to them.
LEMMA FileTypesStep == TypeOK /\ IInv /\ [Next]_vars => FileTypes'
<1> SUFFICES ASSUME TypeOK /\ IInv, [Next]_vars PROVE FileTypes' OBVIOUS
<1> USE DEF TypeOK, FileTypes
<1>1. CASE Redirect
  <2>1. CASE Begin BY <2>1 DEF Begin
  <2>2. CASE BackupLink BY <2>2 DEF BackupLink, IsLink
  <2>3. CASE BackupFile BY <2>3 DEF BackupFile, IsLink, AfterOpen
  <2>4. CASE BackupNothing BY <2>4 DEF BackupNothing
  <2>5. CASE FillCopy BY <2>5 DEF FillCopy, IInv, BackupProgress
  <2>6. CASE Mark BY <2>6 DEF Mark
  <2>7. CASE Unlink BY <2>7 DEF Unlink
  <2>8. CASE Create BY <2>8 DEF Create
  <2>9. CASE Fill BY <2>9 DEF Fill
  <2> QED BY <1>1, <2>1, <2>2, <2>3, <2>4, <2>5, <2>6, <2>7, <2>8, <2>9 DEF Redirect
<1>2. CASE Restore
  <2>1. CASE RestoreNothing BY <2>1 DEF RestoreNothing
  <2>2. CASE RestoreRead BY <2>2 DEF RestoreRead, Kind
  <2>3. CASE Relink BY <2>3 DEF Relink
  <2>4. CASE Link BY <2>4 DEF Link
  <2>5. CASE Recopy BY <2>5 DEF Recopy
  <2>6. CASE Refill BY <2>6 DEF Refill
  <2>7. CASE DropMeta BY <2>7 DEF DropMeta
  <2>8. CASE DropCopy BY <2>8 DEF DropCopy
  <2> QED BY <1>2, <2>1, <2>2, <2>3, <2>4, <2>5, <2>6, <2>7, <2>8 DEF Restore
<1>3. CASE Engine
  <2>1. CASE Launch BY <2>1, BoundAssumption DEF Launch, FirstCall
  <2>2. CASE Clear BY <2>2 DEF Clear
  <2>3. CASE TurnOn BY <2>3 DEF TurnOn
  <2>4. CASE TurnOff BY <2>4 DEF TurnOff, Restoring
  <2>5. CASE Unserve BY <2>5 DEF Unserve
  <2>6. CASE Apply BY <2>6 DEF Apply, Guarded
  <2>7. CASE Reapply BY <2>7 DEF Reapply
  <2>8. CASE Quit BY <2>8 DEF Quit, Restoring
  <2>9. CASE Exit BY <2>9 DEF Exit
  <2> QED BY <1>3, <2>1, <2>2, <2>3, <2>4, <2>5, <2>6, <2>7, <2>8, <2>9 DEF Engine
<1>4. CASE Crash BY <1>4, BoundAssumption DEF Crash
<1>5. CASE Finished \/ UNCHANGED vars BY <1>5 DEF Finished, vars
<1> QED BY <1>1, <1>2, <1>3, <1>4, <1>5 DEF Next

\* The flags of the process stay truth values.
LEMMA FlagTypesStep == FlagTypes /\ [Next]_vars => FlagTypes'
<1> SUFFICES ASSUME FlagTypes, [Next]_vars PROVE FlagTypes' OBVIOUS
<1> USE DEF FlagTypes
<1>1. CASE Redirect
  <2>1. CASE Begin BY <2>1 DEF Begin
  <2>2. CASE BackupLink BY <2>2 DEF BackupLink, IsLink
  <2>3. CASE BackupFile BY <2>3 DEF BackupFile, IsLink, AfterOpen
  <2>4. CASE BackupNothing BY <2>4 DEF BackupNothing
  <2>5. CASE FillCopy BY <2>5 DEF FillCopy
  <2>6. CASE Mark BY <2>6 DEF Mark
  <2>7. CASE Unlink BY <2>7 DEF Unlink
  <2>8. CASE Create BY <2>8 DEF Create
  <2>9. CASE Fill BY <2>9 DEF Fill
  <2> QED BY <1>1, <2>1, <2>2, <2>3, <2>4, <2>5, <2>6, <2>7, <2>8, <2>9 DEF Redirect
<1>2. CASE Restore
  <2>1. CASE RestoreNothing BY <2>1 DEF RestoreNothing
  <2>2. CASE RestoreRead BY <2>2 DEF RestoreRead, Kind
  <2>3. CASE Relink BY <2>3 DEF Relink
  <2>4. CASE Link BY <2>4 DEF Link
  <2>5. CASE Recopy BY <2>5 DEF Recopy
  <2>6. CASE Refill BY <2>6 DEF Refill
  <2>7. CASE DropMeta BY <2>7 DEF DropMeta
  <2>8. CASE DropCopy BY <2>8 DEF DropCopy
  <2> QED BY <1>2, <2>1, <2>2, <2>3, <2>4, <2>5, <2>6, <2>7, <2>8 DEF Restore
<1>3. CASE Engine
  <2>1. CASE Launch BY <2>1, BoundAssumption DEF Launch, FirstCall
  <2>2. CASE Clear BY <2>2 DEF Clear
  <2>3. CASE TurnOn BY <2>3 DEF TurnOn
  <2>4. CASE TurnOff BY <2>4 DEF TurnOff, Restoring
  <2>5. CASE Unserve BY <2>5 DEF Unserve
  <2>6. CASE Apply BY <2>6 DEF Apply, Guarded
  <2>7. CASE Reapply BY <2>7 DEF Reapply
  <2>8. CASE Quit BY <2>8 DEF Quit, Restoring
  <2>9. CASE Exit BY <2>9 DEF Exit
  <2> QED BY <1>3, <2>1, <2>2, <2>3, <2>4, <2>5, <2>6, <2>7, <2>8, <2>9 DEF Engine
<1>4. CASE Crash BY <1>4, BoundAssumption DEF Crash
<1>5. CASE Finished \/ UNCHANGED vars BY <1>5 DEF Finished, vars
<1> QED BY <1>1, <1>2, <1>3, <1>4, <1>5 DEF Next

\* The engine stays in the program, and the bounds are kept.
LEMMA PlaceTypesStep == TypeOK /\ [Next]_vars => PlaceTypes'
<1> SUFFICES ASSUME TypeOK, [Next]_vars PROVE PlaceTypes' OBVIOUS
<1> USE DEF TypeOK, PlaceTypes
<1>1. CASE Redirect
  <2>1. CASE Begin BY <2>1 DEF Begin
  <2>2. CASE BackupLink BY <2>2 DEF BackupLink, IsLink
  <2>3. CASE BackupFile BY <2>3 DEF BackupFile, IsLink, AfterOpen
  <2>4. CASE BackupNothing BY <2>4 DEF BackupNothing
  <2>5. CASE FillCopy BY <2>5 DEF FillCopy
  <2>6. CASE Mark BY <2>6 DEF Mark
  <2>7. CASE Unlink BY <2>7 DEF Unlink
  <2>8. CASE Create BY <2>8 DEF Create
  <2>9. CASE Fill BY <2>9 DEF Fill
  <2> QED BY <1>1, <2>1, <2>2, <2>3, <2>4, <2>5, <2>6, <2>7, <2>8, <2>9 DEF Redirect
<1>2. CASE Restore
  <2>1. CASE RestoreNothing BY <2>1 DEF RestoreNothing
  <2>2. CASE RestoreRead BY <2>2 DEF RestoreRead, Kind
  <2>3. CASE Relink BY <2>3 DEF Relink
  <2>4. CASE Link BY <2>4 DEF Link
  <2>5. CASE Recopy BY <2>5 DEF Recopy
  <2>6. CASE Refill BY <2>6 DEF Refill
  <2>7. CASE DropMeta BY <2>7 DEF DropMeta
  <2>8. CASE DropCopy BY <2>8 DEF DropCopy
  <2> QED BY <1>2, <2>1, <2>2, <2>3, <2>4, <2>5, <2>6, <2>7, <2>8 DEF Restore
<1>3. CASE Engine
  <2>1. CASE Launch BY <2>1, BoundAssumption DEF Launch, FirstCall
  <2>2. CASE Clear BY <2>2 DEF Clear
  <2>3. CASE TurnOn BY <2>3 DEF TurnOn
  <2>4. CASE TurnOff BY <2>4 DEF TurnOff, Restoring
  <2>5. CASE Unserve BY <2>5 DEF Unserve
  <2>6. CASE Apply BY <2>6 DEF Apply, Guarded
  <2>7. CASE Reapply BY <2>7 DEF Reapply
  <2>8. CASE Quit BY <2>8 DEF Quit, Restoring
  <2>9. CASE Exit BY <2>9 DEF Exit
  <2> QED BY <1>3, <2>1, <2>2, <2>3, <2>4, <2>5, <2>6, <2>7, <2>8, <2>9 DEF Engine
<1>4. CASE Crash BY <1>4, BoundAssumption DEF Crash
<1>5. CASE Finished \/ UNCHANGED vars BY <1>5 DEF Finished, vars
<1> QED BY <1>1, <1>2, <1>3, <1>4, <1>5 DEF Next

-----------------------------------------------------------------------------
\* No step loses the user's resolv.conf or breaks the backup of it.
LEMMA FilesStep == TypeOK /\ IInv /\ [Next]_vars => FilesAgree'
<1> SUFFICES ASSUME TypeOK /\ IInv, [Next]_vars PROVE FilesAgree' OBVIOUS
<1> USE DEF IInv, FilesAgree, BackupProgress, EngineProgress, Started, Sound, Backed, TypeOK
<1>1. CASE Redirect
  <2>1. CASE Begin BY <2>1 DEF Begin
  <2>2. CASE BackupLink BY <2>2 DEF BackupLink, IsLink
  <2>3. CASE BackupFile BY <2>3 DEF BackupFile, IsLink, AfterOpen
  <2>4. CASE BackupNothing BY <2>4 DEF BackupNothing
  <2>5. CASE FillCopy BY <2>5 DEF FillCopy
  <2>6. CASE Mark BY <2>6 DEF Mark
  <2>7. CASE Unlink BY <2>7 DEF Unlink
  <2>8. CASE Create BY <2>8 DEF Create
  <2>9. CASE Fill BY <2>9 DEF Fill
  <2> QED BY <1>1, <2>1, <2>2, <2>3, <2>4, <2>5, <2>6, <2>7, <2>8, <2>9 DEF Redirect
<1>2. CASE Restore
  <2>1. CASE RestoreNothing BY <2>1 DEF RestoreNothing
  <2>2. CASE RestoreRead BY <2>2 DEF RestoreRead, Kind
  <2>3. CASE Relink BY <2>3 DEF Relink
  <2>4. CASE Link BY <2>4 DEF Link
  <2>5. CASE Recopy BY <2>5 DEF Recopy
  <2>6. CASE Refill BY <2>6 DEF Refill
  <2>7. CASE DropMeta BY <2>7 DEF DropMeta
  <2>8. CASE DropCopy BY <2>8 DEF DropCopy
  <2> QED BY <1>2, <2>1, <2>2, <2>3, <2>4, <2>5, <2>6, <2>7, <2>8 DEF Restore
<1>3. CASE Engine
  <2>1. CASE Launch BY <2>1, BoundAssumption DEF Launch, FirstCall
  <2>2. CASE Clear BY <2>2 DEF Clear
  <2>3. CASE TurnOn BY <2>3 DEF TurnOn
  <2>4. CASE TurnOff BY <2>4 DEF TurnOff, Restoring
  <2>5. CASE Unserve BY <2>5 DEF Unserve
  <2>6. CASE Apply BY <2>6 DEF Apply, Guarded
  <2>7. CASE Reapply BY <2>7 DEF Reapply
  <2>8. CASE Quit BY <2>8 DEF Quit, Restoring
  <2>9. CASE Exit BY <2>9 DEF Exit
  <2> QED BY <1>3, <2>1, <2>2, <2>3, <2>4, <2>5, <2>6, <2>7, <2>8, <2>9 DEF Engine
<1>4. CASE Crash BY <1>4, BoundAssumption DEF Crash
<1>5. CASE Finished \/ UNCHANGED vars BY <1>5 DEF Finished, vars
<1> QED BY <1>1, <1>2, <1>3, <1>4, <1>5 DEF Next

\* Every system call leaves the backup as far as the next one expects it.
LEMMA BackupStep == TypeOK /\ IInv /\ [Next]_vars => BackupProgress'
<1> SUFFICES ASSUME TypeOK /\ IInv, [Next]_vars PROVE BackupProgress' OBVIOUS
<1> USE DEF IInv, FilesAgree, BackupProgress, EngineProgress, Started, Sound, Backed, TypeOK
<1>1. CASE Redirect
  <2>1. CASE Begin BY <2>1 DEF Begin
  <2>2. CASE BackupLink BY <2>2 DEF BackupLink, IsLink
  <2>3. CASE BackupFile BY <2>3 DEF BackupFile, IsLink, AfterOpen
  <2>4. CASE BackupNothing BY <2>4 DEF BackupNothing
  <2>5. CASE FillCopy BY <2>5 DEF FillCopy
  <2>6. CASE Mark BY <2>6 DEF Mark
  <2>7. CASE Unlink BY <2>7 DEF Unlink
  <2>8. CASE Create BY <2>8 DEF Create
  <2>9. CASE Fill BY <2>9 DEF Fill
  <2> QED BY <1>1, <2>1, <2>2, <2>3, <2>4, <2>5, <2>6, <2>7, <2>8, <2>9 DEF Redirect
<1>2. CASE Restore
  <2>1. CASE RestoreNothing BY <2>1 DEF RestoreNothing
  <2>2. CASE RestoreRead BY <2>2 DEF RestoreRead, Kind
  <2>3. CASE Relink BY <2>3 DEF Relink
  <2>4. CASE Link BY <2>4 DEF Link
  <2>5. CASE Recopy BY <2>5 DEF Recopy
  <2>6. CASE Refill BY <2>6 DEF Refill
  <2>7. CASE DropMeta BY <2>7 DEF DropMeta
  <2>8. CASE DropCopy BY <2>8 DEF DropCopy
  <2> QED BY <1>2, <2>1, <2>2, <2>3, <2>4, <2>5, <2>6, <2>7, <2>8 DEF Restore
<1>3. CASE Engine
  <2>1. CASE Launch BY <2>1, BoundAssumption DEF Launch, FirstCall
  <2>2. CASE Clear BY <2>2 DEF Clear
  <2>3. CASE TurnOn BY <2>3 DEF TurnOn
  <2>4. CASE TurnOff BY <2>4 DEF TurnOff, Restoring
  <2>5. CASE Unserve BY <2>5 DEF Unserve
  <2>6. CASE Apply BY <2>6 DEF Apply, Guarded
  <2>7. CASE Reapply BY <2>7 DEF Reapply
  <2>8. CASE Quit BY <2>8 DEF Quit, Restoring
  <2>9. CASE Exit BY <2>9 DEF Exit
  <2> QED BY <1>3, <2>1, <2>2, <2>3, <2>4, <2>5, <2>6, <2>7, <2>8, <2>9 DEF Engine
<1>4. CASE Crash BY <1>4, BoundAssumption DEF Crash
<1>5. CASE Finished \/ UNCHANGED vars BY <1>5 DEF Finished, vars
<1> QED BY <1>1, <1>2, <1>3, <1>4, <1>5 DEF Next

\* g_redirected, the proxy and the guard follow the calls.
LEMMA EngineStep == TypeOK /\ IInv /\ [Next]_vars => EngineProgress'
<1> SUFFICES ASSUME TypeOK /\ IInv, [Next]_vars PROVE EngineProgress' OBVIOUS
<1> USE DEF IInv, FilesAgree, BackupProgress, EngineProgress, Started, Sound, Backed, TypeOK
<1>1. CASE Redirect
  <2>1. CASE Begin BY <2>1 DEF Begin
  <2>2. CASE BackupLink BY <2>2 DEF BackupLink, IsLink
  <2>3. CASE BackupFile BY <2>3 DEF BackupFile, IsLink, AfterOpen
  <2>4. CASE BackupNothing BY <2>4 DEF BackupNothing
  <2>5. CASE FillCopy BY <2>5 DEF FillCopy
  <2>6. CASE Mark BY <2>6 DEF Mark
  <2>7. CASE Unlink BY <2>7 DEF Unlink
  <2>8. CASE Create BY <2>8 DEF Create
  <2>9. CASE Fill BY <2>9 DEF Fill
  <2> QED BY <1>1, <2>1, <2>2, <2>3, <2>4, <2>5, <2>6, <2>7, <2>8, <2>9 DEF Redirect
<1>2. CASE Restore
  <2>1. CASE RestoreNothing BY <2>1 DEF RestoreNothing
  <2>2. CASE RestoreRead BY <2>2 DEF RestoreRead, Kind
  <2>3. CASE Relink BY <2>3 DEF Relink
  <2>4. CASE Link BY <2>4 DEF Link
  <2>5. CASE Recopy BY <2>5 DEF Recopy
  <2>6. CASE Refill BY <2>6 DEF Refill
  <2>7. CASE DropMeta BY <2>7 DEF DropMeta
  <2>8. CASE DropCopy BY <2>8 DEF DropCopy
  <2> QED BY <1>2, <2>1, <2>2, <2>3, <2>4, <2>5, <2>6, <2>7, <2>8 DEF Restore
<1>3. CASE Engine
  <2>1. CASE Launch BY <2>1, BoundAssumption DEF Launch, FirstCall
  <2>2. CASE Clear BY <2>2 DEF Clear
  <2>3. CASE TurnOn BY <2>3 DEF TurnOn
  <2>4. CASE TurnOff BY <2>4 DEF TurnOff, Restoring
  <2>5. CASE Unserve BY <2>5 DEF Unserve
  <2>6. CASE Apply BY <2>6 DEF Apply, Guarded
  <2>7. CASE Reapply BY <2>7 DEF Reapply
  <2>8. CASE Quit BY <2>8 DEF Quit, Restoring
  <2>9. CASE Exit BY <2>9 DEF Exit
  <2> QED BY <1>3, <2>1, <2>2, <2>3, <2>4, <2>5, <2>6, <2>7, <2>8, <2>9 DEF Engine
<1>4. CASE Crash BY <1>4, BoundAssumption DEF Crash
<1>5. CASE Finished \/ UNCHANGED vars BY <1>5 DEF Finished, vars
<1> QED BY <1>1, <1>2, <1>3, <1>4, <1>5 DEF Next

-----------------------------------------------------------------------------
\* TypeOK and IInv together are inductive.
LEMMA Invariance == Spec => [](TypeOK /\ IInv)
<1>1. TypeOK /\ IInv /\ [Next]_vars => (TypeOK /\ IInv)'
  <2> SUFFICES ASSUME TypeOK, IInv, [Next]_vars PROVE TypeOK' /\ IInv' OBVIOUS
  <2>1. FileTypes' BY FileTypesStep
  <2>2. FlagTypes' BY FlagTypesStep, TypeParts
  <2>3. PlaceTypes' BY PlaceTypesStep
  <2>4. TypeOK' BY <2>1, <2>2, <2>3 DEF TypeOK, FileTypes, FlagTypes, PlaceTypes
  <2>5. IInv' BY FilesStep, BackupStep, EngineStep DEF IInv
  <2> QED BY <2>4, <2>5
<1> QED BY <1>1, InitCorrect, PTL DEF Spec

\* The variables keep their types: no link is ever copied as a file.
THEOREM TypeCorrect == Spec => []TypeOK
  BY Invariance, PTL

\* The files agree with each other and with where the engine is, at every
\* system call and after a crash at any of them.
THEOREM IInvCorrect == Spec => []IInv
  BY Invariance, PTL

\* However often the process dies, between whichever system calls, what the
\* user had in resolv.conf is in place or in the backup that the next start
\* reads, unless a copy or a link could not be written.
THEOREM NothingLost == Spec => []Recoverable
<1>1. TypeOK /\ IInv => Recoverable
  <2> SUFFICES ASSUME TypeOK, IInv, Sound PROVE resolv = orig \/ Backed
    BY DEF Recoverable
  <2>1. CASE meta \in {"none", "cut"} BY <2>1 DEF IInv, FilesAgree
  <2>2. CASE meta \in {"link", "file"} BY <2>2 DEF IInv, FilesAgree
  <2> QED BY <2>1, <2>2 DEF TypeOK
<1> QED BY <1>1, Invariance, PTL

\* An engine that has started, and one that has stopped, without the redirection
\* has put the user's resolv.conf back and left no backup.
THEOREM RestoredCorrect == Spec => []Restored
<1>1. TypeOK /\ IInv => Restored
  <2> SUFFICES ASSUME TypeOK, IInv, (pc = "run" /\ ~redirected) \/ (pc = "down" /\ ~crashed)
               PROVE meta = "none" /\ (Sound => resolv = orig)
    BY DEF Restored
  <2>1. meta = "none" BY DEF IInv, EngineProgress
  <2>2. Sound => resolv = orig BY <2>1 DEF IInv, FilesAgree
  <2> QED BY <2>1, <2>2
<1> QED BY <1>1, Invariance, PTL

\* Names resolve whenever the engine rests and after it has stopped.
THEOREM NamesResolveCorrect == Spec => []NamesResolve
<1>1. TypeOK /\ IInv => NamesResolve
  <2> SUFFICES ASSUME TypeOK, IInv, Sound, ~fwFailed,
                      pc = "run" \/ (pc = "down" /\ ~crashed)
               PROVE Resolves
    BY DEF NamesResolve
  <2>1. CASE redirected
    <3>1. pc = "run" BY <2>1 DEF IInv, EngineProgress
    <3> QED BY <2>1, <3>1 DEF IInv, EngineProgress, Resolves
  <2>2. CASE ~redirected
    <3>1. meta = "none" /\ ~guard BY <2>2 DEF IInv, EngineProgress
    <3>2. resolv = orig BY <3>1 DEF IInv, FilesAgree
    <3> QED BY <3>1, <3>2 DEF Resolves
  <2> QED BY <2>1, <2>2
<1> QED BY <1>1, Invariance, PTL

=============================================================================
