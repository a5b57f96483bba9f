------------------------------ MODULE Persist ------------------------------
(***************************************************************************)
(* How the ingester turns an immutable memtable and its WAL file into      *)
(* files of the wal/files directory, and how a restarted process finishes  *)
(* or redoes what a killed one left behind.                                *)
(*                                                                         *)
(*   ingester/src/immutable.rs  persist_table, persist_files               *)
(*   ingester/src/wal.rs        check_uncompleted_lock_files,              *)
(*                              clean_orphan_par_files, replay_wal_files   *)
(*   ingester/src/lib.rs        init                                       *)
(*                                                                         *)
(* A batch of records is an element of Batches.  A .wal file is its id and *)
(* the set of batches a reader can get out of it.  A dumped file holds one *)
(* batch of one memtable (streams and hours get files of their own) and    *)
(* carries a fresh name on every attempt (ider::generate), so it is the    *)
(* triple <<memtable, attempt, batch>>.  The process may be killed between *)
(* any two file operations; what it had in the page cache survives.        *)
(***************************************************************************)
EXTENDS Integers, FiniteSets

CONSTANTS
    Batches,    \* the record batches a client may ingest
    WalIds,     \* names of WAL files (next_seq)
    MemIds,     \* memtable ids (MEMTABLE_ID_COUNTER)
    None,       \* no file, no table
    MaxTry,     \* bound: persist attempts of one memtable
    MaxCrash,   \* bound: kills of the process
    FailSteps,  \* the file operations that may return an error
    TornLock    \* fs::write of the lock file is a create, then a write

Steps == {"dump", "lock", "unlink", "rename", "discard", "unlock", "orphan", "replay"}

ASSUME PersistAssumption ==
    /\ None \notin WalIds /\ None \notin MemIds
    /\ MaxTry \in Nat /\ MaxCrash \in Nat
    /\ FailSteps \subseteq Steps
    /\ TornLock \in BOOLEAN

Files == MemIds \X (0..MaxTry) \X Batches

VARIABLES
    \* --- the disk ---
    wals,       \* ids of the .wal files that exist
    entries,    \* [WalIds -> batches readable from the file]
    locks,      \* ids of the WAL files whose .lock file exists
    listed,     \* [WalIds -> files named by the .lock file]
    par,        \* .par files
    parquet,    \* .parquet files
    \* --- the memory of the process ---
    rows,       \* [MemIds -> batches in the memtable]
    imm,        \* IMMUTABLES: [WalIds -> memtable or None]
    pc,         \* [MemIds -> step of the persist call working on the memtable]
    path,       \* [MemIds -> WAL path the persist call was given]
    attempt,    \* [MemIds -> persist attempts that failed]
    node,       \* "recover" (init is reading lock files) or "up"
    recWal,     \* the lock file init is working on
    mine,       \* WAL files with an id not below process_start
    old,        \* .par files with an mtime below process_start
    bg,         \* the background task of init: "off", "orphans", "replay"
    todo,       \* WAL files it has still to replay
    replayMem,  \* the memtable it is persisting
    crashes     \* kills so far

disk    == <<wals, entries, locks, listed, par, parquet>>
tables  == <<rows, imm>>
jobs    == <<pc, path, attempt>>
boot    == <<node, recWal, mine, old, bg, todo, replayMem>>
vars    == <<disk, tables, jobs, boot, crashes>>

Pcs == {"idle", "dump", "lock", "unlink", "rename", "discard", "finish"}

TypeOK ==
    /\ wals \subseteq WalIds /\ locks \subseteq WalIds
    /\ entries \in [WalIds -> SUBSET Batches]
    /\ listed \in [WalIds -> SUBSET Files]
    /\ par \subseteq Files /\ parquet \subseteq Files
    /\ rows \in [MemIds -> SUBSET Batches]
    /\ imm \in [WalIds -> MemIds \cup {None}]
    /\ pc \in [MemIds -> Pcs]
    /\ path \in [MemIds -> WalIds \cup {None}]
    /\ attempt \in [MemIds -> 0..MaxTry]
    /\ node \in {"recover", "up"}
    /\ recWal \in WalIds \cup {None}
    /\ mine \subseteq WalIds /\ old \subseteq Files
    /\ bg \in {"off", "orphans", "replay"}
    /\ todo \subseteq WalIds
    /\ replayMem \in MemIds \cup {None}
    /\ crashes \in 0..MaxCrash

Init ==
    /\ wals = {} /\ locks = {} /\ par = {} /\ parquet = {}
    /\ entries = [w \in WalIds |-> {}]
    /\ listed = [w \in WalIds |-> {}]
    /\ rows = [m \in MemIds |-> {}]
    /\ imm = [w \in WalIds |-> None]
    /\ pc = [m \in MemIds |-> "idle"]
    /\ path = [m \in MemIds |-> None]
    /\ attempt = [m \in MemIds |-> 0]
    /\ node = "recover" /\ recWal = None
    /\ mine = {} /\ old = {}
    /\ bg = "off" /\ todo = {} /\ replayMem = None
    /\ crashes = 0

----------------------------------------------------------------------------
(* The writer side, reduced to what it promises: WAL files grow, no batch  *)
(* is written twice, and a WAL file goes to IMMUTABLES together with a     *)
(* memtable of the same batches.  Module Writer shows when the real writer *)
(* keeps that promise, and module Ingester that it then implements these   *)
(* actions.                                                                *)

\* A WAL file of this process that was not handed over yet.
OpenWal(w) == w \in wals /\ w \in mine /\ imm[w] = None

\* Ids come from the clock, so a new one names no file and no table.
FreshWal(w)   == w \notin wals \cup mine \cup locks /\ entries[w] = {}
FreshTable(m) ==
    /\ path[m] = None /\ pc[m] = "idle" /\ \A w \in WalIds : imm[w] # m
    /\ \A f \in par \cup parquet \cup old \cup UNION {listed[w] : w \in WalIds} : f[1] # m
Unwritten(B)  == \A w \in WalIds : B \cap entries[w] = {}

\* Batches reach the file: the buffer is spilled or synced.
GrowWal(w, B) ==
    /\ node = "up" /\ OpenWal(w) /\ Unwritten(B)
    /\ entries' = [entries EXCEPT ![w] = @ \cup B]
    /\ UNCHANGED <<wals, locks, listed, par, parquet, tables, jobs, boot, crashes>>

\* A file is created; on rotation the previous one, v, is synced with it.
NewWal(v, w, B) ==
    /\ node = "up" /\ FreshWal(w) /\ Unwritten(B)
    /\ IF v = None THEN B = {} ELSE OpenWal(v)
    /\ entries' = [u \in WalIds |-> IF u = v THEN entries[u] \cup B ELSE entries[u]]
    /\ wals' = wals \cup {w}
    /\ mine' = mine \cup {w}
    /\ UNCHANGED <<locks, listed, par, parquet, tables, jobs, node, recWal, old, bg,
                   todo, replayMem, crashes>>

\* IMMUTABLES.insert
Seal(w, m) ==
    /\ node = "up" /\ OpenWal(w) /\ FreshTable(m)
    /\ rows' = [rows EXCEPT ![m] = entries[w]]
    /\ imm' = [imm EXCEPT ![w] = m]
    /\ UNCHANGED <<disk, jobs, boot, crashes>>

----------------------------------------------------------------------------
(* Immutable::persist.  The same steps serve a persist worker, which took  *)
(* the memtable from IMMUTABLES, and the replay task, which rebuilt it.    *)

DumpOf(m)  == {<<m, attempt[m], b>> : b \in rows[m]}
Dumped(m)  == DumpOf(m) \subseteq par
Pending(m) == DumpOf(m) \cap par

\* Mutant of ReturnOk: the replay task does not go on to its next file.
ReturnOkHangs(m) ==
    /\ pc' = [pc EXCEPT ![m] = IF m = replayMem THEN "idle" ELSE "finish"]
    /\ replayMem' = replayMem

\* The persist call of m leaves with Ok.  A worker still has to take the
\* entry out of IMMUTABLES; the replay task goes on to its next file.
ReturnOk(m) ==
    /\ pc' = [pc EXCEPT ![m] = IF m = replayMem THEN "idle" ELSE "finish"]
    /\ replayMem' = IF m = replayMem THEN None ELSE replayMem

\* A worker takes a path that no other worker is processing.
PersistTable(w) ==
    /\ node = "up" /\ imm[w] # None
    /\ \A m \in MemIds \ {replayMem} : pc[m] # "idle" => path[m] # w
    /\ pc' = [pc EXCEPT ![imm[w]] = "dump"]
    /\ path' = [path EXCEPT ![imm[w]] = w]
    /\ UNCHANGED <<disk, tables, attempt, boot, crashes>>

\* Mutant of DumpFile: the file takes the name of the next attempt.
DumpFileNextName(m, b) ==
    /\ pc[m] = "dump" /\ b \in rows[m] /\ <<m, attempt[m], b>> \notin par
    /\ par' = par \cup {<<m, attempt[m] + 1, b>>}
    /\ UNCHANGED <<wals, entries, locks, listed, parquet, tables, jobs, boot, crashes>>

\* Step 1: write one .par file.
DumpFile(m, b) ==
    /\ pc[m] = "dump" /\ b \in rows[m] /\ <<m, attempt[m], b>> \notin par
    /\ par' = par \cup {<<m, attempt[m], b>>}
    /\ UNCHANGED <<wals, entries, locks, listed, parquet, tables, jobs, boot, crashes>>

\* Step 2: fs::write creates or truncates the lock file ...
CreateLock(m) ==
    /\ TornLock /\ pc[m] = "dump" /\ Dumped(m)
    /\ locks' = locks \cup {path[m]}
    /\ listed' = [listed EXCEPT ![path[m]] = {}]
    /\ pc' = [pc EXCEPT ![m] = "lock"]
    /\ UNCHANGED <<wals, entries, par, parquet, tables, path, attempt, boot, crashes>>

\* Mutant of WriteLock: the lock file is written before the dump is complete.
WriteLockEarly(m) ==
    /\ pc[m] = IF TornLock THEN "lock" ELSE "dump"
   
    /\ locks' = locks \cup {path[m]}
    /\ listed' = [listed EXCEPT ![path[m]] = Pending(m)]
    /\ pc' = [pc EXCEPT ![m] = "unlink"]
    /\ UNCHANGED <<wals, entries, par, parquet, tables, path, attempt, boot, crashes>>

\* Mutant of WriteLock: the WAL file is deleted together with it.
WriteLockUnlinks(m) ==
    /\ pc[m] = IF TornLock THEN "lock" ELSE "dump"
    /\ Dumped(m)
    /\ locks' = locks \cup {path[m]}
    /\ listed' = [listed EXCEPT ![path[m]] = DumpOf(m)]
    /\ wals' = wals \ {path[m]}
    /\ pc' = [pc EXCEPT ![m] = "unlink"]
    /\ UNCHANGED <<entries, par, parquet, tables, path, attempt, boot, crashes>>

\* ... and writes the names of the dumped files into it.
WriteLock(m) ==
    /\ pc[m] = IF TornLock THEN "lock" ELSE "dump"
    /\ Dumped(m)
    /\ locks' = locks \cup {path[m]}
    /\ listed' = [listed EXCEPT ![path[m]] = DumpOf(m)]
    /\ pc' = [pc EXCEPT ![m] = "unlink"]
    /\ UNCHANGED <<wals, entries, par, parquet, tables, path, attempt, boot, crashes>>

\* Mutant of DeleteWal: a missing WAL file is taken for a deleted one.
DeleteWalIgnoresMissing(m) ==
    /\ pc[m] = "unlink"
    /\ wals' = wals \ {path[m]}
    /\ pc' = [pc EXCEPT ![m] = "rename"]
    /\ UNCHANGED <<entries, locks, listed, par, parquet, tables, path, attempt, boot, crashes>>

\* Step 3: delete the WAL file; if it is gone, discard what was dumped.
DeleteWal(m) ==
    /\ pc[m] = "unlink"
    /\ wals' = wals \ {path[m]}
    /\ pc' = [pc EXCEPT ![m] = IF path[m] \in wals THEN "rename" ELSE "discard"]
    /\ UNCHANGED <<entries, locks, listed, par, parquet, tables, path, attempt, boot, crashes>>

DiscardFile(m, f) ==
    /\ pc[m] = "discard" /\ f \in Pending(m)
    /\ par' = par \ {f}
    /\ UNCHANGED <<wals, entries, locks, listed, parquet, tables, jobs, boot, crashes>>

\* Step 4: rename one .par file to .parquet.
RenameFile(m, f) ==
    /\ pc[m] = "rename" /\ f \in Pending(m)
    /\ par' = par \ {f}
    /\ parquet' = parquet \cup {f}
    /\ UNCHANGED <<wals, entries, locks, listed, tables, jobs, boot, crashes>>

\* Step 5: delete the lock file.  Errors of the discard are ignored.
DeleteLock(m) ==
    /\ \/ pc[m] = "rename" /\ Pending(m) = {}
       \/ pc[m] = "discard" /\ (Pending(m) = {} \/ "discard" \in FailSteps)
    /\ locks' = locks \ {path[m]}
    /\ listed' = [listed EXCEPT ![path[m]] = {}]
    /\ ReturnOk(m)
    /\ UNCHANGED <<wals, entries, par, parquet, tables, path, attempt,
                   node, recWal, mine, old, bg, todo, crashes>>

\* persist_table after Ok: drop the entry of this path from IMMUTABLES.
Finish(m) ==
    /\ pc[m] = "finish"
    /\ imm' = [imm EXCEPT ![path[m]] = None]
    /\ pc' = [pc EXCEPT ![m] = "idle"]
    /\ UNCHANGED <<disk, rows, path, attempt, boot, crashes>>

\* The file operation s is what the persist call of m does next.
AtStep(m, s) ==
    \/ s = "dump"   /\ pc[m] = "dump" /\ ~Dumped(m)
    \/ s = "lock"   /\ pc[m] \in {"dump", "lock"} /\ Dumped(m)
    \/ s = "unlink" /\ pc[m] = "unlink"
    \/ s = "rename" /\ pc[m] = "rename" /\ Pending(m) # {}
    \/ s = "unlock" /\ pc[m] \in {"rename", "discard"} /\ Pending(m) = {}

\* A file operation fails and persist returns Err: a worker leaves the table
\* in IMMUTABLES for another attempt, the replay task goes on to its next file.
Fail(m, s) ==
    /\ AtStep(m, s) /\ attempt[m] < MaxTry
    /\ pc' = [pc EXCEPT ![m] = "idle"]
    /\ attempt' = [attempt EXCEPT ![m] = @ + 1]
    /\ replayMem' = IF m = replayMem THEN None ELSE replayMem
    /\ UNCHANGED <<disk, tables, path, node, recWal, mine, old, bg, todo, crashes>>

----------------------------------------------------------------------------
(* Restart: init(), first the lock files, synchronously.                   *)

\* Kill the process: memory is gone, the files stay.
Crash ==
    /\ crashes < MaxCrash
    /\ crashes' = crashes + 1
    /\ imm' = [w \in WalIds |-> None]
    /\ rows' = [m \in MemIds |-> {}]
    /\ pc' = [m \in MemIds |-> "idle"]
    /\ path' = [m \in MemIds |-> None]
    /\ attempt' = [m \in MemIds |-> 0]
    /\ node' = "recover" /\ recWal' = None
    /\ mine' = {} /\ bg' = "off" /\ todo' = {} /\ replayMem' = None
    /\ UNCHANGED <<disk, old>>

\* Mutant of RecoverLock: the WAL file of the lock file stays.
RecoverLockKeepsWal(w) ==
    /\ node = "recover" /\ recWal = None /\ w \in locks
    /\ recWal' = w
    /\ UNCHANGED <<disk, tables, jobs, node, mine, old, bg, todo, replayMem, crashes>>

\* check_uncompleted_lock_files: the next lock file, its WAL file is deleted.
RecoverLock(w) ==
    /\ node = "recover" /\ recWal = None /\ w \in locks
    /\ recWal' = w
    /\ wals' = wals \ {w}
    /\ UNCHANGED <<entries, locks, listed, par, parquet, tables, jobs, node,
                   mine, old, bg, todo, replayMem, crashes>>

\* ... a listed file that still has its temporary name gets its final one.
RecoverFile(f) ==
    /\ node = "recover" /\ recWal # None
    /\ f \in listed[recWal] /\ f \in par
    /\ par' = par \ {f}
    /\ parquet' = parquet \cup {f}
    /\ UNCHANGED <<wals, entries, locks, listed, tables, jobs, boot, crashes>>

\* ... and the lock file is deleted.
RecoverDone ==
    /\ node = "recover" /\ recWal # None
    /\ listed[recWal] \cap par = {}
    /\ locks' = locks \ {recWal}
    /\ listed' = [listed EXCEPT ![recWal] = {}]
    /\ recWal' = None
    /\ UNCHANGED <<wals, entries, par, parquet, tables, jobs, node,
                   mine, old, bg, todo, replayMem, crashes>>

\* Mutant of InitDone: it does not wait for the lock files.
InitDoneEarly ==
    /\ node = "recover" /\ recWal = None
    /\ node' = "up"
    /\ old' = par
    /\ bg' = "orphans"
    /\ UNCHANGED <<disk, tables, jobs, recWal, mine, todo, replayMem, crashes>>

\* process_start is taken and the background task is spawned.
InitDone ==
    /\ node = "recover" /\ recWal = None /\ locks = {}
    /\ node' = "up"
    /\ old' = par
    /\ bg' = "orphans"
    /\ UNCHANGED <<disk, tables, jobs, recWal, mine, todo, replayMem, crashes>>

\* clean_orphan_par_files: a .par file older than process_start goes.  The
\* first failing removal ends the sweep, and the scan for WAL files follows.
\* What it finds that this process created is skipped by replay_wal_files.
CleanOrphans ==
    /\ bg = "orphans"
    /\ \E kept \in SUBSET (par \cap old) :
          /\ kept = {} \/ "orphan" \in FailSteps
          /\ par' = (par \ old) \cup kept
    /\ bg' = "replay"
    /\ todo' = wals \ mine
    /\ UNCHANGED <<wals, entries, locks, listed, parquet, tables, jobs, node, recWal,
                   mine, old, replayMem, crashes>>

\* replay_wal_files: rebuild a memtable from one WAL file and persist it.
ReplayFile(w, m) ==
    /\ bg = "replay" /\ replayMem = None /\ w \in todo /\ FreshTable(m)
    /\ todo' = todo \ {w}
    /\ replayMem' = m
    /\ rows' = [rows EXCEPT ![m] = entries[w]]
    /\ pc' = [pc EXCEPT ![m] = "dump"]
    /\ path' = [path EXCEPT ![m] = w]
    /\ UNCHANGED <<disk, imm, attempt, node, recWal, mine, old, bg, crashes>>

\* The file cannot be opened: it is skipped.  An entry cannot be decoded:
\* replay_wal_files returns, and the files after it wait for a restart too.
ReplayError(w) ==
    /\ "replay" \in FailSteps
    /\ bg = "replay" /\ replayMem = None /\ w \in todo
    /\ todo' \in {todo \ {w}, {}}
    /\ UNCHANGED <<disk, tables, jobs, node, recWal, mine, old, bg,
                   replayMem, crashes>>

----------------------------------------------------------------------------

PersistStep(m) ==
    \/ CreateLock(m) \/ WriteLock(m) \/ DeleteWal(m)
    \/ DeleteLock(m) \/ Finish(m)
    \/ \E b \in Batches : DumpFile(m, b)
    \/ \E f \in par : DiscardFile(m, f) \/ RenameFile(m, f)

Recovery ==
    \/ \E w \in WalIds : RecoverLock(w)
    \/ \E f \in par : RecoverFile(f)
    \/ RecoverDone \/ InitDone

Background ==
    \/ CleanOrphans
    \/ \E w \in WalIds, m \in MemIds : ReplayFile(w, m)

WriterSide ==
    \/ \E v \in WalIds \cup {None}, w \in WalIds, B \in SUBSET Batches : NewWal(v, w, B)
    \/ \E w \in WalIds, B \in SUBSET Batches : GrowWal(w, B)
    \/ \E w \in WalIds, m \in MemIds : Seal(w, m)

PersistSide ==
    \/ \E w \in WalIds : PersistTable(w)
    \/ \E m \in MemIds : PersistStep(m) \/ \E s \in FailSteps : Fail(m, s)
    \/ Recovery \/ Background
    \/ \E w \in WalIds : ReplayError(w)

Next == WriterSide \/ PersistSide \/ Crash

\* The persist loop, its workers and init's background task run in loops of
\* their own, so none of their enabled steps waits for ever.
Fairness ==
    /\ \A w \in WalIds : WF_vars(PersistTable(w))
    /\ \A m \in MemIds : WF_vars(PersistStep(m))
    /\ WF_vars(Recovery) /\ WF_vars(Background)

Spec     == Init /\ [][Next]_vars
FairSpec == Spec /\ Fairness

----------------------------------------------------------------------------

Stored(b) == \E f \in parquet : f[3] = b

\* The copies of a batch that a restart would turn into, or keep as, a
\* finished file: the finished file itself, a temporary file named by a lock
\* file, and a WAL file without lock file (one with a lock file is deleted).
FinalCopies(b) == {f \in parquet : f[3] = b}
LockCopies(b)  == {f \in par : f[3] = b /\ \E w \in locks : f \in listed[w]}
WalCopies(b)   == {w \in wals \ locks : b \in entries[w]}

Recoverable(b) == FinalCopies(b) # {} \/ LockCopies(b) # {} \/ WalCopies(b) # {}

\* fs::write has truncated the lock file of b's WAL file and written nothing.
Truncated(b) ==
    TornLock /\ \E w \in locks \cap wals : b \in entries[w] /\ listed[w] = {}

(* Once a kill at this very moment would not lose a batch, a kill at any   *)
(* later moment does not lose it: no step of persist_files, of lock file   *)
(* recovery, of the orphan sweep or of the WAL replay takes away the last  *)
(* copy that a restart would find.  The one exception is the lock file     *)
(* that fs::write creates empty.                                           *)
NothingForgotten ==
    [][\A b \in Batches : Recoverable(b) => Recoverable(b)' \/ Truncated(b)']_vars

(* A restart never finds two copies of a batch, whenever the process is    *)
(* killed: the lock file switches from "the WAL file counts" to "the       *)
(* listed files count" in one step, and recovery deletes the WAL file      *)
(* before it renames.  A lock file that cannot be deleted is the exception *)
(* (the retry dumps and lists the batches again).                          *)
NothingDoubled ==
    "unlock" \notin FailSteps => \A b \in Batches :
        /\ \A f, g \in FinalCopies(b) \cup LockCopies(b) : f = g
        /\ \A v, w \in WalCopies(b) : v = w
        /\ WalCopies(b) = {} \/ FinalCopies(b) \cup LockCopies(b) = {}

(* A batch has at most one finished file (immutable.rs:136-138, "discard   *)
(* our dumped files instead of renaming them, otherwise the data would be  *)
(* duplicated"), also when the lock file could not be deleted, as long as  *)
(* the process is not killed during the retry.                             *)
StoredOnce ==
    crashes = 0 \/ "unlock" \notin FailSteps =>
        \A f, g \in parquet : f[3] = g[3] => f = g

(* immutable.rs:135-137: if the WAL file is already gone, "the data is     *)
(* already persisted", so what is being discarded has a finished file.     *)
DiscardOnlyStored ==
    \A m \in MemIds : pc[m] = "discard" => \A b \in rows[m] : Stored(b)

(* wal.rs:47-48: when a lock file exists and the WAL file too, the listed  *)
(* files "actually wrote to disk completely": they hold every batch of the *)
(* WAL file that recovery is about to delete.                              *)
LockListsEverything ==
    node = "recover" => \A w \in locks \cap wals : \A b \in entries[w] :
        \E f \in listed[w] \cap (par \cup parquet) : f[3] = b

\* The replay task failed on the WAL file of b and will not come back to it.
LeftForRestart(b) ==
    \E w \in wals : /\ b \in entries[w] /\ w \notin mine \cup todo
                    /\ bg = "replay" /\ (replayMem = None \/ path[replayMem] # w)

\* The writer has b in a WAL file it has not handed over.
WithWriter(b) == \E w \in wals : OpenWal(w) /\ b \in entries[w]

\* The bound MemIds: the replay task has no memtable left to work with.
OutOfTables == \A m \in MemIds : ~FreshTable(m)

(* Every batch that was handed over, or that a kill left in a WAL file,    *)
(* ends in a finished file, through any finite number of kills and failed  *)
(* attempts; the one exception is a WAL file on which the replay task      *)
(* failed, which waits for a restart.                                      *)
EventuallyStored ==
    \A b \in Batches :
        Recoverable(b) /\ ~WithWriter(b) ~> (Stored(b) \/ LeftForRestart(b) \/ OutOfTables)

============================================================================
