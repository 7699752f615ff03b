----------------------------- MODULE Blocklist ------------------------------
(***************************************************************************)
(* The domains the DNS proxy refuses (core/dnsd.c): a list, an index over  *)
(* it with open addressing, and the file it is kept in.                    *)
(*                                                                         *)
(* Handlers of the HTTP API change the list under a mutex, so a change is  *)
(* one step; the file is written after the mutex is given back, system     *)
(* call by system call, and two handlers write the same temporary file.    *)
(* The program may die between any two steps, and loads the file when it   *)
(* starts again.                                                           *)
(*                                                                         *)
(* Files are inodes, so that a file two handlers have open, or one that is *)
(* renamed while it is open, is what it is in the system.  The lines of a  *)
(* file are domains of one length: text written over longer text leaves    *)
(* its last lines.  stdio hands its buffer to the system when the file is  *)
(* closed; a full disk takes the first lines of it, which nobody notices.  *)
(*                                                                         *)
(* Abstracted: the memory of the lists never runs out; hosts-file lines of *)
(* an import are the texts in them; a line is not cut within, which would  *)
(* be read as another name or none.                                        *)
(***************************************************************************)
EXTENDS Naturals, Sequences, FiniteSets

CONSTANTS
  Domains,    \* names as the list holds them
  Texts,      \* what a user can ask for
  Bad,        \* no name
  Norm,       \* normalize: the domain of a text, or Bad
  Suffixes,   \* the domains a domain ends with at a dot, itself among them
  Hash,       \* hash_text
  FirstCap,   \* 1024: the smallest size of the index
  Imports,    \* the texts of files a user can import
  Handlers,   \* workers of the HTTP server
  NoFile,
  MaxCalls    \* the changes looked at

Inodes == 1 .. Cardinality(Handlers) + 2

ASSUME BlocklistAssumption ==
  /\ Domains \subseteq Texts /\ Bad \notin Domains /\ NoFile \notin Inodes
  /\ Norm \in [Texts -> Domains \cup {Bad}]
  /\ \A d \in Domains : Norm[d] \in {d, Bad}
  /\ Suffixes \in [Domains -> SUBSET Domains] /\ \A d \in Domains : d \in Suffixes[d]
  /\ Hash \in [Domains -> Nat] /\ FirstCap \in Nat \ {0}
  /\ Imports \subseteq Seq(Texts) /\ MaxCalls \in Nat
  /\ IsFiniteSet(Domains) /\ IsFiniteSet(Handlers)

VARIABLES
  list, index,        \* g_domains and g_index: 0 or a place in the list
  disk, path, tmp,    \* the contents of the inodes; the two directory entries
  running,            \* the program runs
  pc, at, buffer,     \* of a handler: its next step, the inode it has open, what it writes
  clash, lost,        \* two saves overlap; one that did, or failed or was cut, was the last to end
  since,              \* what there was to read back since no handler was in a call
  calls               \* the changes so far

mem   == <<list, index>>
files == <<disk, path, tmp>>
saves == <<pc, at, buffer>>
ghost == <<clash, lost, since>>
vars  == <<mem, files, running, saves, ghost, calls>>

Elems(s) == {s[i] : i \in DOMAIN s}

-----------------------------------------------------------------------------
(***************************************************************************)
(* The index.                                                              *)
(***************************************************************************)

Least(S) == CHOOSE n \in S : \A m \in S : n <= m

Cap(ix) == Cardinality(DOMAIN ix)

\* The slot a probe for d looks at after k steps.
Probe(ix, d, k) == (Hash[d] + k) % Cap(ix)

\* index_insert; without an empty slot the code would not return.
Inserted(ix, l, i) ==
  LET free == {k \in 0 .. Cap(ix) - 1 : ix[Probe(ix, l[i], k)] = 0}
  IN IF free = {} THEN ix ELSE [ix EXCEPT ![Probe(ix, l[i], Least(free))] = i]

\* The sizes index_rebuild tries, and the one it takes; _Full is a mutant that
\* leaves no slot empty.
Sizes(n) ==
  LET doubled[k \in 0 .. n] == IF k = 0 THEN FirstCap ELSE 2 * doubled[k - 1]
  IN {doubled[k] : k \in 0 .. n}

Size_Full(n) == Least({c \in Sizes(n) : c >= n})

Size(n) == Least({c \in Sizes(n + 1) : c >= 2 * n + 2})

\* index_rebuild.
Rebuilt(l) ==
  LET empty == [s \in 0 .. Size(Len(l)) - 1 |-> 0]
      upTo[i \in 0 .. Len(l)] == IF i = 0 THEN empty ELSE Inserted(upTo[i - 1], l, i)
  IN upTo[Len(l)]

\* index_find: the place of d in the list, or 0.
Find(ix, l, d) ==
  LET stops == {k \in 0 .. Cap(ix) - 1 :
                  LET i == ix[Probe(ix, d, k)] IN i = 0 \/ l[i] = d}
  IN IF stops = {} THEN 0 ELSE ix[Probe(ix, d, Least(stops))]

\* add_locked, of a list and its index; _Twice is a mutant that does not look.
Added_Twice(m, text) ==
  LET l == Append(m.list, Norm[text])
  IN IF Norm[text] = Bad THEN m ELSE [list |-> l, index |-> Rebuilt(l)]

Added(m, text) ==
  LET d == Norm[text]
      l == Append(m.list, d)
      n == Len(l)
  IN IF d = Bad \/ Find(m.index, m.list, d) # 0 THEN m
     ELSE [list |-> l, index |-> IF 2 * n >= Cap(m.index) THEN Rebuilt(l) ELSE Inserted(m.index, l, n)]

\* dnsd_block_import and dnsd_block_load.
AllAdded(m, texts) ==
  LET upTo[i \in 0 .. Len(texts)] == IF i = 0 THEN m ELSE Added(upTo[i - 1], texts[i])
  IN upTo[Len(texts)]

\* The last domain takes the place of the one removed.
Without(l, i) == [k \in 1 .. Len(l) - 1 |-> IF k = i THEN l[Len(l)] ELSE l[k]]

\* The index after that; _Patched is a mutant that empties the slot of the one
\* removed and corrects the slot of the one moved.
Reindexed_Patched(m, i) ==
  [s \in DOMAIN m.index |->
     IF m.index[s] = i THEN 0 ELSE IF m.index[s] = Len(m.list) THEN i ELSE m.index[s]]

Reindexed(m, i) == Rebuilt(Without(m.list, i))

\* dnsd_block_remove.
Removed(m, text) ==
  LET d == Norm[text]
      i == IF d = Bad THEN 0 ELSE Find(m.index, m.list, d)
  IN IF i = 0 THEN m ELSE [list |-> Without(m.list, i), index |-> Reindexed(m, i)]

\* The names of a list that a start reads back from its file.
Readable(l) == {d \in Elems(l) : Norm[d] # Bad}

\* dnsd_is_blocked.
IsBlocked(text) ==
  Norm[text] # Bad /\ \E d \in Suffixes[Norm[text]] : Find(index, list, d) # 0

-----------------------------------------------------------------------------
(***************************************************************************)
(* The calls and their saves.                                              *)
(***************************************************************************)

Memory  == [list |-> list, index |-> index]
Nothing == [list |-> <<>>, index |-> Rebuilt(<<>>)]

\* The index is allocated by the first name; an empty one finds as little.
Init ==
  /\ list = <<>> /\ index = Nothing.index
  /\ disk = [i \in Inodes |-> <<>>] /\ path = 1 /\ tmp = NoFile
  /\ running = TRUE
  /\ pc = [h \in Handlers |-> "ready"] /\ at = [h \in Handlers |-> NoFile]
  /\ buffer = [h \in Handlers |-> <<>>]
  /\ clash = FALSE /\ lost = FALSE /\ since = {{}} /\ calls = 0

Step(h, from, to) == running /\ pc[h] = from /\ pc' = [pc EXCEPT ![h] = to]

\* A call that changes nothing saves nothing.
Change(h, m) ==
  /\ Step(h, "ready", "open")
  /\ m # Memory
  /\ list' = m.list /\ index' = m.index
  /\ since' = since \cup {Readable(m.list)}
  /\ calls < MaxCalls /\ calls' = calls + 1
  /\ UNCHANGED <<files, running, at, buffer, clash, lost>>

BlockAdd(h, text)     == Change(h, Added(Memory, text))
BlockRemove(h, text)  == Change(h, Removed(Memory, text))
BlockImport(h, texts) == Change(h, AllAdded(Memory, texts))

Saving(h) == pc[h] \in {"write", "close", "replace", "cut"}

\* A file that has no name and that nobody has open is gone.
Left(contents) ==
  [i \in Inodes |-> IF i \in {path', tmp'} \cup {at'[h] : h \in Handlers} THEN contents[i] ELSE <<>>]

\* The end of a call, after a save that worked or not.
Return(h, ok) ==
  /\ at' = [at EXCEPT ![h] = NoFile] /\ buffer' = [buffer EXCEPT ![h] = <<>>]
  /\ lost' = (clash \/ ~ok)
  /\ clash' = ((clash \/ ~ok) /\ \E g \in Handlers \ {h} : Saving(g))
  /\ since' = IF \A g \in Handlers : pc'[g] = "ready" THEN {Readable(list)} ELSE since

\* _InPlace is a mutant that writes the file itself.
Target_InPlace(h) == path

\* The temporary file, a new one if there is none.
Target(h) ==
  IF tmp # NoFile THEN tmp ELSE Least(Inodes \ ({path} \cup {at[g] : g \in Handlers}))

\* fopen_s empties the file.
SaveOpen(h) ==
  /\ Step(h, "open", "write")
  /\ at' = [at EXCEPT ![h] = Target(h)]
  /\ disk' = [disk EXCEPT ![Target(h)] = <<>>]
  /\ tmp' = IF Target(h) = path THEN tmp ELSE Target(h)
  /\ clash' = (clash \/ \E g \in Handlers : Saving(g))
  /\ UNCHANGED <<mem, path, running, buffer, lost, since, calls>>

\* It fails, on Windows always while another handler has the file open.
SaveRefused(h) ==
  /\ Step(h, "open", "ready")
  /\ Return(h, FALSE)
  /\ UNCHANGED <<mem, files, running, calls>>

\* dnsd_block_each, under the mutex.
SaveWrite(h) ==
  /\ Step(h, "write", "close")
  /\ buffer' = [buffer EXCEPT ![h] = list]
  /\ UNCHANGED <<mem, files, running, at, ghost, calls>>

\* What is written from the start of a file over what is in it.
Over(new, old) == new \o SubSeq(old, Len(new) + 1, Len(old))

SaveClose(h) ==
  /\ Step(h, "close", "replace")
  /\ disk' = [disk EXCEPT ![at[h]] = Over(buffer[h], @)]
  /\ UNCHANGED <<mem, path, tmp, running, at, buffer, ghost, calls>>

\* The disk is full: the results of fprintf and fclose are not looked at.
SaveCut(h) ==
  /\ Step(h, "close", "cut")
  /\ \E n \in 0 .. Len(buffer[h]) - 1 :
       disk' = [disk EXCEPT ![at[h]] = Over(SubSeq(buffer[h], 1, n), @)]
  /\ UNCHANGED <<mem, path, tmp, running, at, buffer, ghost, calls>>

\* plat_replace_file: whatever file has the temporary name now, also one that was
\* cut; it may fail.
SaveReplace(h) ==
  /\ \E from \in {"replace", "cut"} :
       Step(h, from, "ready") /\ Return(h, tmp # NoFile /\ from = "replace")
  /\ path' = IF tmp # NoFile THEN tmp ELSE path
  /\ tmp' = NoFile
  /\ disk' = Left(disk)
  /\ UNCHANGED <<mem, running, calls>>

SaveUnnamed(h) ==
  /\ \E from \in {"replace", "cut"} : Step(h, from, "ready")
  /\ Return(h, FALSE)
  /\ UNCHANGED <<mem, files, running, calls>>

\* The program dies; what was in its buffers is gone.
Crash ==
  /\ running /\ running' = FALSE
  /\ pc' = [h \in Handlers |-> "ready"] /\ at' = [h \in Handlers |-> NoFile]
  /\ buffer' = [h \in Handlers |-> <<>>]
  /\ lost' = (lost \/ clash) /\ clash' = FALSE
  /\ UNCHANGED <<mem, path, tmp, since, calls>>
  /\ disk' = Left(disk)

\* engine_start.
Load ==
  /\ ~running /\ running' = TRUE
  /\ LET m == AllAdded(Nothing, disk[path])
     IN list' = m.list /\ index' = m.index /\ since' = {Readable(m.list)}
  /\ lost' = FALSE
  /\ UNCHANGED <<files, saves, clash, calls>>

Call(h) ==
  \/ \E text \in Texts : BlockAdd(h, text) \/ BlockRemove(h, text)
  \/ \E texts \in Imports : BlockImport(h, texts)

Save(h) ==
  \/ SaveOpen(h) \/ SaveRefused(h) \/ SaveWrite(h)
  \/ SaveClose(h) \/ SaveCut(h) \/ SaveReplace(h) \/ SaveUnnamed(h)

Next == (\E h \in Handlers : Call(h) \/ Save(h)) \/ Crash \/ Load

Spec == Init /\ [][Next]_vars

-----------------------------------------------------------------------------
(***************************************************************************)
(* Properties.                                                             *)
(***************************************************************************)

TypeOK ==
  /\ list \in Seq(Domains) /\ Len(list) <= Cardinality(Domains)
  /\ DOMAIN index = 0 .. Cap(index) - 1 /\ \A s \in DOMAIN index : index[s] \in 0 .. Len(list)
  /\ disk \in [Inodes -> Seq(Domains)] /\ path \in Inodes /\ tmp \in Inodes \cup {NoFile}
  /\ running \in BOOLEAN /\ clash \in BOOLEAN /\ lost \in BOOLEAN
  /\ pc \in [Handlers -> {"ready", "open", "write", "close", "replace", "cut"}]
  /\ at \in [Handlers -> Inodes \cup {NoFile}] /\ buffer \in [Handlers -> Seq(Domains)]
  /\ since \subseteq SUBSET Domains /\ calls \in 0 .. MaxCalls

\* Every probe comes to an end.
RoomInIndex == \E s \in DOMAIN index : index[s] = 0

\* No domain is listed twice, so that one removal removes it.
ListedOnce == \A i, j \in DOMAIN list : list[i] = list[j] => i = j

\* The list and its index keep their shape: what add, remove and import rely on,
\* and what a probe needs to end.
Inv == TypeOK /\ RoomInIndex /\ ListedOnce

\* After any sequence of adds, removes, imports and restarts a query is refused
\* if, and only if, it or a domain it is in is listed.
BlocksListed ==
  \A d \in Domains :
    Norm[d] # Bad => (IsBlocked(d) <=> Suffixes[d] \cap Elems(list) # {})

\* The file is whole at every moment, so also after a crash: it has the names of
\* a list there was since the last call ended, and after the last of the calls
\* those of the list, unless that save failed, was cut by a full disk, or
\* overlapped with another.
FileWhole == ~lost /\ ~clash => Readable(disk[path]) \in since

=============================================================================
