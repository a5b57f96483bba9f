--------------------------- MODULE PersistProofs ---------------------------
(***************************************************************************)
(* Proofs about Persist, for any sets of batches, WAL files and memtables, *)
(* any number of kills and attempts, a lock file written in one step or    *)
(* two, and every failing file operation but the rename.                   *)
(*                                                                         *)
(* What has to be known at each step is who owns a WAL file: the memtable  *)
(* in IMMUTABLES under its path, or the one the replay task rebuilt from   *)
(* it.  The owner is unique, it has every batch of the file, and once the  *)
(* file is deleted, every batch of the owner has a finished file or a      *)
(* temporary one that the owner's persist call is about to rename.         *)
(***************************************************************************)
EXTENDS Persist, TLAPS

\* Nothing of the process exists while init reads the lock files.
BootInv ==
    /\ node = "recover" =>
          /\ \A m \in MemIds : pc[m] = "idle" /\ path[m] = None
          /\ \A w \in WalIds : imm[w] = None
          /\ mine = {} /\ todo = {} /\ replayMem = None /\ bg = "off"
    /\ bg = "orphans" => locks \subseteq mine /\ todo = {}
    /\ bg # "replay" => replayMem = None

\* WAL files in the queue of the replay task are there, not this process's,
\* and have no lock file.
TodoInv == todo \subseteq wals \ mine /\ todo \cap locks = {}

\* IMMUTABLES holds files of this process, each memtable once.
ImmInv ==
    /\ \A w \in WalIds : imm[w] # None => w \in mine
    /\ \A v, w \in WalIds : imm[v] # None /\ imm[v] = imm[w] => v = w

\* A running persist call is the replay task's or owns its path in IMMUTABLES.
JobInv ==
    \A m \in MemIds :
        /\ pc[m] # "idle" /\ m # replayMem => path[m] \in WalIds /\ imm[path[m]] = m
        /\ m = replayMem =>
              /\ pc[m] \notin {"idle", "finish"}
              /\ path[m] \in WalIds \ mine /\ path[m] \in wals \cup locks /\ path[m] \notin todo
              /\ \A w \in WalIds : imm[w] # m

\* The lock file says what was dumped from its writing to its deletion, and
\* the dump is complete from its end to the first rename or removal.
LockInv ==
    /\ \A m \in MemIds :
        /\ pc[m] \in {"lock", "unlink"} => Dumped(m)
        /\ pc[m] \in {"unlink", "rename", "discard"} =>
              path[m] \in locks /\ listed[path[m]] = DumpOf(m)
        /\ pc[m] \in {"rename", "discard", "finish"} => path[m] \notin wals
    /\ \A w \in WalIds : w \notin locks => listed[w] = {}
    /\ \A w \in WalIds : OpenWal(w) => w \notin locks

\* The orphan sweep takes nothing that a lock file or a persist call needs.
OldInv ==
    /\ node = "up" => \A w \in WalIds : listed[w] \cap old = {}
    /\ \A m \in MemIds : path[m] # None \/ (\E w \in WalIds : imm[w] = m) =>
          \A f \in old : f[1] # m

Owner(w, m) == imm[w] = m \/ (m = replayMem /\ path[m] = w)

\* The failure that breaks DiscardOnlyStored: see Persist_rename_retry.cfg.
RenameWorks == "rename" \notin FailSteps

\* What makes it safe to delete a WAL file, or to truncate its lock file.
CoverInv ==
    RenameWorks => \A w \in WalIds, m \in MemIds : Owner(w, m) =>
        /\ w \in wals => entries[w] \subseteq rows[m]
        /\ w \notin wals => \A b \in rows[m] :
              Stored(b) \/ (pc[m] = "rename" /\ <<m, attempt[m], b>> \in par)
        /\ \A f \in listed[w] : f[3] \in rows[m]

IInv == TypeOK /\ BootInv /\ TodoInv /\ ImmInv /\ JobInv /\ LockInv /\ OldInv /\ CoverInv

----------------------------------------------------------------------------
(* For NothingDoubled and StoredOnce: a batch is written to one WAL file,  *)
(* and has a finished file only after that WAL file is gone.               *)

EntriesOnce == \A v, w \in WalIds : entries[v] \cap entries[w] # {} => v = w

StoredOrigin == \A f \in parquet : \E w \in WalIds \ wals : f[3] \in entries[w]

OwnerRows == \A w \in WalIds, m \in MemIds : Owner(w, m) => rows[m] \subseteq entries[w]

\* What a persist call is about to rename has no finished file yet.
RenameUnstored ==
    \A m \in MemIds : pc[m] = "rename" => \A f \in Pending(m) : ~Stored(f[3])

\* A lock file names one file for each of some batches of its WAL file.
ListedOnce ==
    \A w \in WalIds : \A f \in listed[w] :
        f[3] \in entries[w] /\ \A g \in listed[w] : g[3] = f[3] => g = f

\* Unless a lock file cannot be deleted, no persist call starts again after
\* the WAL file is gone, and what recovery will rename has no finished file.
LockOnce ==
    "unlock" \notin FailSteps =>
        /\ \A w \in WalIds, m \in MemIds :
              Owner(w, m) /\ w \notin wals => pc[m] \in {"rename", "finish"}
        /\ \A w \in WalIds : \A f \in listed[w] \cap par : ~Stored(f[3])

RecoverInv ==
    /\ recWal # None => node = "recover" /\ recWal \notin wals
    /\ crashes = 0 /\ node = "recover" => locks = {}

OInv == /\ EntriesOnce /\ StoredOrigin /\ OwnerRows /\ RenameUnstored /\ ListedOnce
        /\ LockOnce /\ RecoverInv /\ StoredOnce

\* A lock file next to its WAL file names a file on disk for every batch of it,
\* also while the process runs and a failed persist call is tried again.
LockFull ==
    \A w \in locks \cap wals : \A b \in entries[w] :
        \E f \in listed[w] \cap (par \cup parquet) : f[3] = b

----------------------------------------------------------------------------

(* The invariant holds when init() starts on an empty disk.                *)
LEMMA CoverInit == Init => IInv /\ OInv
<1> SUFFICES ASSUME Init PROVE IInv /\ OInv
  OBVIOUS
<1>1. TypeOK
  BY PersistAssumption DEF Init, TypeOK, Files, Pcs
<1>2. BootInv /\ TodoInv /\ ImmInv /\ JobInv /\ OldInv
  BY PersistAssumption DEF Init, BootInv, TodoInv, ImmInv, JobInv, OldInv
<1>3. LockInv /\ CoverInv
  BY PersistAssumption DEF Init, LockInv, OpenWal, CoverInv, Owner
<1>4. OInv
  BY PersistAssumption DEF Init, OInv, EntriesOnce, StoredOrigin, OwnerRows, Owner,
     RenameUnstored, ListedOnce, LockOnce, RecoverInv, StoredOnce
<1> QED BY <1>1, <1>2, <1>3, <1>4 DEF IInv

(* Every step of the writer, of a persist call, of recovery and of the     *)
(* background task keeps the owner's hold on what is not stored yet.       *)
LEMMA CoverNext ==
    ASSUME IInv, [Next]_vars PROVE IInv'
<1> USE DEF disk, tables, jobs, boot
<1>1. ASSUME NEW w \in WalIds, NEW B \in SUBSET Batches, GrowWal(w, B) PROVE IInv'
  <2>1. /\ TypeOK' /\ BootInv' /\ TodoInv' /\ ImmInv'
        /\ JobInv' /\ LockInv' /\ OldInv'
      BY <1>1 DEF GrowWal, OpenWal, Unwritten, TypeOK, Files, Pcs, IInv, BootInv,
             TodoInv, ImmInv, JobInv, LockInv, Dumped, DumpOf, OldInv
  <2>2. CoverInv'
      BY <1>1, PersistAssumption DEF GrowWal, OpenWal, Unwritten, CoverInv, Owner,
             Stored, IInv, JobInv
  <2> QED BY <2>1, <2>2 DEF IInv
<1>2. ASSUME NEW v \in WalIds \cup {None}, NEW w \in WalIds, NEW B \in SUBSET Batches,
             NewWal(v, w, B)
      PROVE IInv'
  <2>1. /\ TypeOK' /\ BootInv' /\ TodoInv' /\ ImmInv'
        /\ JobInv' /\ OldInv'
      BY <1>2 DEF NewWal, FreshWal, OpenWal, Unwritten, TypeOK, Files, Pcs, IInv,
             BootInv, TodoInv, ImmInv, JobInv, OldInv
  <2>2. LockInv'
      BY <1>2, PersistAssumption DEF NewWal, FreshWal, OpenWal, Unwritten, LockInv,
             Dumped, DumpOf, IInv, ImmInv, JobInv
  <2>3. CoverInv'
      BY <1>2, PersistAssumption DEF NewWal, FreshWal, OpenWal, Unwritten, CoverInv,
             Owner, Stored, IInv, JobInv
  <2> QED BY <2>1, <2>2, <2>3 DEF IInv
<1>3. ASSUME NEW w \in WalIds, NEW m \in MemIds, Seal(w, m) PROVE IInv'
  <2>1. /\ TypeOK' /\ BootInv' /\ TodoInv' /\ ImmInv'
        /\ LockInv' /\ OldInv'
      BY <1>3 DEF Seal, FreshTable, OpenWal, TypeOK, Files, Pcs, IInv, BootInv, TodoInv,
             ImmInv, LockInv, Dumped, DumpOf, OldInv
  <2>2. JobInv'
      BY <1>3, PersistAssumption DEF Seal, FreshTable, OpenWal, JobInv, IInv
  <2>3. CoverInv'
      BY <1>3, PersistAssumption DEF Seal, FreshTable, OpenWal, CoverInv, Owner, Stored,
             IInv, TypeOK, LockInv
  <2> QED BY <2>1, <2>2, <2>3 DEF IInv
<1>4. ASSUME NEW w \in WalIds, PersistTable(w) PROVE IInv'
  <2>1. /\ TypeOK' /\ BootInv' /\ TodoInv' /\ ImmInv'
        /\ OldInv'
      BY <1>4 DEF PersistTable, TypeOK, Files, Pcs, IInv, BootInv, TodoInv, ImmInv,
             OldInv
  <2>2. JobInv'
      BY <1>4 DEF PersistTable, JobInv, IInv, TypeOK
  <2>3. LockInv'
      BY <1>4 DEF PersistTable, LockInv, Dumped, DumpOf, OpenWal, IInv, TypeOK
  <2>4. CoverInv'
      BY <1>4 DEF PersistTable, CoverInv, Owner, Stored, IInv, ImmInv, JobInv
  <2> QED BY <2>1, <2>2, <2>3, <2>4 DEF IInv
<1>5. ASSUME NEW m \in MemIds, NEW b \in Batches, DumpFile(m, b) PROVE IInv'
  <2>1. /\ TypeOK' /\ BootInv' /\ TodoInv' /\ ImmInv'
        /\ JobInv' /\ LockInv' /\ OldInv' /\ CoverInv'
      BY <1>5 DEF DumpFile, TypeOK, Files, Pcs, IInv, BootInv, TodoInv, ImmInv, JobInv,
             LockInv, Dumped, DumpOf, OpenWal, OldInv, CoverInv, Owner, Stored
  <2> QED BY <2>1 DEF IInv
<1>6. ASSUME NEW m \in MemIds, CreateLock(m) PROVE IInv'
  <2>1. ImmInv' /\ JobInv' /\ OldInv' /\ CoverInv'
      BY <1>6 DEF CreateLock, Dumped, ImmInv, IInv, JobInv, OldInv, CoverInv, Owner,
             Stored
  <2>2. TypeOK'
      BY <1>6 DEF CreateLock, Dumped, TypeOK, Files, Pcs, IInv, JobInv
  <2>3. BootInv'
      BY <1>6 DEF CreateLock, Dumped, BootInv, IInv, ImmInv, JobInv
  <2>4. TodoInv'
      BY <1>6, PersistAssumption DEF CreateLock, Dumped, TodoInv, IInv, ImmInv, JobInv
  <2>5. LockInv'
      BY <1>6, PersistAssumption DEF CreateLock, Dumped, LockInv, DumpOf, OpenWal, IInv,
             ImmInv, JobInv
  <2> QED BY <2>1, <2>2, <2>3, <2>4, <2>5 DEF IInv
<1>7. ASSUME NEW m \in MemIds, WriteLock(m) PROVE IInv'
  <2>1. ImmInv' /\ JobInv'
      BY <1>7 DEF WriteLock, Dumped, DumpOf, ImmInv, IInv, JobInv
  <2>2. TypeOK'
      BY <1>7 DEF WriteLock, Dumped, DumpOf, TypeOK, Files, Pcs, IInv, JobInv
  <2>3. BootInv'
      BY <1>7 DEF WriteLock, Dumped, DumpOf, BootInv, IInv, ImmInv, JobInv
  <2>4. TodoInv'
      BY <1>7, PersistAssumption DEF WriteLock, Dumped, DumpOf, TodoInv, IInv, ImmInv,
             JobInv
  <2>5. LockInv'
      BY <1>7, PersistAssumption DEF WriteLock, Dumped, DumpOf, LockInv, OpenWal, IInv,
             TypeOK, ImmInv, JobInv
  <2>6. OldInv'
      BY <1>7, PersistAssumption DEF WriteLock, Dumped, DumpOf, OldInv, IInv
  <2>7. CoverInv'
      BY <1>7, PersistAssumption DEF WriteLock, Dumped, DumpOf, CoverInv, Owner, Stored,
             IInv, ImmInv, JobInv
  <2> QED BY <2>1, <2>2, <2>3, <2>4, <2>5, <2>6, <2>7 DEF IInv
<1>8. ASSUME NEW m \in MemIds, DeleteWal(m) PROVE IInv'
  <2>1. /\ TypeOK' /\ BootInv' /\ ImmInv' /\ LockInv'
        /\ OldInv'
      BY <1>8 DEF DeleteWal, TypeOK, Files, Pcs, IInv, BootInv, ImmInv, LockInv, Dumped,
             DumpOf, OpenWal, OldInv
  <2>2. TodoInv'
      BY <1>8, PersistAssumption DEF DeleteWal, TodoInv, IInv, ImmInv, JobInv
  <2>3. JobInv'
      BY <1>8 DEF DeleteWal, JobInv, IInv, LockInv
  <2>4. CoverInv'
      BY <1>8, PersistAssumption DEF DeleteWal, CoverInv, Owner, Stored, IInv, TypeOK,
             ImmInv, JobInv, LockInv, Dumped, DumpOf
  <2> QED BY <2>1, <2>2, <2>3, <2>4 DEF IInv
<1>9. ASSUME NEW m \in MemIds, NEW f \in par, DiscardFile(m, f) PROVE IInv'
  <2>1. /\ TypeOK' /\ BootInv' /\ TodoInv' /\ ImmInv'
        /\ JobInv' /\ LockInv' /\ OldInv' /\ CoverInv'
      BY <1>9 DEF DiscardFile, Pending, DumpOf, TypeOK, Files, Pcs, IInv, BootInv,
             TodoInv, ImmInv, JobInv, LockInv, Dumped, OpenWal, OldInv, CoverInv, Owner,
             Stored
  <2> QED BY <2>1 DEF IInv
<1>10. ASSUME NEW m \in MemIds, NEW f \in par, RenameFile(m, f) PROVE IInv'
  <2>1. /\ TypeOK' /\ BootInv' /\ TodoInv' /\ ImmInv'
        /\ JobInv' /\ LockInv' /\ OldInv' /\ CoverInv'
      BY <1>10 DEF RenameFile, Pending, DumpOf, TypeOK, Files, Pcs, IInv, BootInv,
             TodoInv, ImmInv, JobInv, LockInv, Dumped, OpenWal, OldInv, CoverInv, Owner,
             Stored
  <2> QED BY <2>1 DEF IInv
<1>11. ASSUME NEW m \in MemIds, DeleteLock(m) PROVE IInv'
  <2>1. BootInv' /\ TodoInv' /\ ImmInv' /\ OldInv'
      BY <1>11 DEF DeleteLock, ReturnOk, Pending, DumpOf, BootInv, IInv, TodoInv,
             ImmInv, OldInv
  <2>2. TypeOK'
      BY <1>11 DEF DeleteLock, ReturnOk, Pending, DumpOf, TypeOK, Files, Pcs, IInv,
             JobInv
  <2>3. JobInv'
      BY <1>11, PersistAssumption DEF DeleteLock, ReturnOk, Pending, DumpOf, JobInv,
             IInv, TypeOK, ImmInv
  <2>4. LockInv'
      BY <1>11, PersistAssumption DEF DeleteLock, ReturnOk, Pending, DumpOf, LockInv,
             Dumped, OpenWal, IInv, TypeOK, ImmInv, JobInv
  <2>5. CoverInv'
      BY <1>11, PersistAssumption DEF DeleteLock, ReturnOk, Pending, DumpOf, CoverInv,
             Owner, Stored, IInv
  <2> QED BY <2>1, <2>2, <2>3, <2>4, <2>5 DEF IInv
<1>12. ASSUME NEW m \in MemIds, Finish(m) PROVE IInv'
  <2>1. BootInv' /\ TodoInv' /\ ImmInv' /\ LockInv'
      BY <1>12 DEF Finish, BootInv, IInv, TodoInv, ImmInv, LockInv, Dumped, DumpOf,
             OpenWal
  <2>2. TypeOK'
      BY <1>12 DEF Finish, TypeOK, Files, Pcs, IInv, JobInv
  <2>3. JobInv'
      BY <1>12, PersistAssumption DEF Finish, JobInv, IInv, TypeOK
  <2>4. OldInv'
      BY <1>12, PersistAssumption DEF Finish, OldInv, IInv
  <2>5. CoverInv'
      BY <1>12, PersistAssumption DEF Finish, CoverInv, Owner, Stored, IInv
  <2> QED BY <2>1, <2>2, <2>3, <2>4, <2>5 DEF IInv
<1>13. ASSUME NEW m \in MemIds, NEW s \in FailSteps, Fail(m, s)
      PROVE IInv'
  <2>1. BootInv' /\ TodoInv' /\ ImmInv' /\ OldInv'
      BY <1>13 DEF Fail, AtStep, Pending, DumpOf, BootInv, IInv, TodoInv, ImmInv, OldInv
  <2>2. TypeOK'
      BY <1>13, PersistAssumption DEF Fail, AtStep, Pending, DumpOf, TypeOK, Files, Pcs,
             IInv
  <2>3. JobInv'
      BY <1>13, PersistAssumption DEF Fail, AtStep, Pending, DumpOf, JobInv, IInv,
             TypeOK
  <2>4. LockInv'
      BY <1>13 DEF Fail, AtStep, Pending, DumpOf, LockInv, Dumped, OpenWal, IInv, TypeOK
  <2>5. CoverInv'
    <3> SUFFICES ASSUME RenameWorks, NEW w \in WalIds, NEW n \in MemIds, Owner(w, n)'
                 PROVE  /\ w \in wals => entries[w] \subseteq rows[n]
                        /\ w \notin wals => \A b \in rows[n] : Stored(b)
                              \/ (pc'[n] = "rename" /\ <<n, attempt'[n], b>> \in par)
                        /\ \A f \in listed[w] : f[3] \in rows[n]
      BY <1>13 DEF CoverInv, Fail, Stored, disk, tables
    <3>1. Owner(w, n)
      BY <1>13, PersistAssumption DEF Owner, Fail, tables
    <3>2. CASE n # m
      BY <1>13, <3>1, <3>2 DEF IInv, CoverInv, Fail, TypeOK
    <3>3. CASE n = m
      <4>1. ASSUME pc[m] = "rename" PROVE Pending(m) = {}
        BY <1>13, <4>1 DEF Fail, AtStep, RenameWorks
      <4>2. \A b \in rows[m] : ~(pc[m] = "rename" /\ <<m, attempt[m], b>> \in par)
        BY <4>1 DEF Pending, DumpOf
      <4> QED BY <3>1, <3>3, <4>2 DEF IInv, CoverInv
    <3> QED BY <3>2, <3>3
  <2> QED BY <2>1, <2>2, <2>3, <2>4, <2>5 DEF IInv
<1>14. ASSUME Crash PROVE IInv'
  <2>1. BootInv' /\ TodoInv' /\ ImmInv' /\ LockInv'
      BY <1>14 DEF Crash, BootInv, IInv, TodoInv, ImmInv, LockInv, Dumped, DumpOf,
             OpenWal
  <2>2. TypeOK'
      BY <1>14, PersistAssumption DEF Crash, TypeOK, Files, Pcs, IInv
  <2>3. JobInv'
      BY <1>14, PersistAssumption DEF Crash, JobInv, IInv
  <2>4. OldInv'
      BY <1>14, PersistAssumption DEF Crash, OldInv, IInv
  <2>5. CoverInv'
      BY <1>14, PersistAssumption DEF Crash, CoverInv, Owner, Stored, IInv
  <2> QED BY <2>1, <2>2, <2>3, <2>4, <2>5 DEF IInv
<1>15. ASSUME NEW w \in WalIds, RecoverLock(w) PROVE IInv'
  <2>1. /\ TypeOK' /\ BootInv' /\ TodoInv' /\ ImmInv'
        /\ JobInv' /\ LockInv' /\ OldInv'
      BY <1>15 DEF RecoverLock, TypeOK, Files, Pcs, IInv, BootInv, TodoInv, ImmInv,
             JobInv, LockInv, Dumped, DumpOf, OpenWal, OldInv
  <2>2. CoverInv'
      BY <1>15, PersistAssumption DEF RecoverLock, CoverInv, Owner, Stored, IInv,
             BootInv
  <2> QED BY <2>1, <2>2 DEF IInv
<1>16. ASSUME NEW f \in par, RecoverFile(f) PROVE IInv'
  <2>1. /\ TypeOK' /\ BootInv' /\ TodoInv' /\ ImmInv'
        /\ JobInv' /\ OldInv' /\ CoverInv'
      BY <1>16 DEF RecoverFile, TypeOK, Files, Pcs, IInv, BootInv, TodoInv, ImmInv,
             JobInv, OldInv, CoverInv, Owner, Stored
  <2>2. LockInv'
      BY <1>16 DEF RecoverFile, LockInv, Dumped, DumpOf, OpenWal, IInv, BootInv
  <2> QED BY <2>1, <2>2 DEF IInv
<1>17. ASSUME RecoverDone PROVE IInv'
  <2>1. /\ TypeOK' /\ BootInv' /\ TodoInv' /\ ImmInv'
        /\ OldInv' /\ CoverInv'
      BY <1>17 DEF RecoverDone, TypeOK, Files, Pcs, IInv, BootInv, TodoInv, ImmInv,
             OldInv, CoverInv, Owner, Stored
  <2>2. JobInv'
      BY <1>17 DEF RecoverDone, JobInv, IInv, BootInv
  <2>3. LockInv'
      BY <1>17 DEF RecoverDone, LockInv, Dumped, DumpOf, OpenWal, IInv, TypeOK, BootInv
  <2> QED BY <2>1, <2>2, <2>3 DEF IInv
<1>18. ASSUME InitDone PROVE IInv'
  <2>1. /\ TypeOK' /\ BootInv' /\ TodoInv' /\ ImmInv'
        /\ JobInv'
      BY <1>18 DEF InitDone, TypeOK, Files, Pcs, IInv, BootInv, TodoInv, ImmInv, JobInv
  <2>2. LockInv'
      BY <1>18 DEF InitDone, LockInv, Dumped, DumpOf, OpenWal, IInv, BootInv
  <2>3. OldInv'
      BY <1>18, PersistAssumption DEF InitDone, OldInv, IInv, BootInv, LockInv
  <2>4. CoverInv'
      BY <1>18 DEF InitDone, CoverInv, Owner, Stored, IInv, BootInv
  <2> QED BY <2>1, <2>2, <2>3, <2>4 DEF IInv
<1>19. ASSUME CleanOrphans PROVE IInv'
  <2>1. TypeOK' /\ BootInv' /\ ImmInv' /\ OldInv'
      BY <1>19 DEF CleanOrphans, TypeOK, Files, Pcs, IInv, BootInv, ImmInv, OldInv
  <2>2. TodoInv'
      BY <1>19 DEF CleanOrphans, TodoInv, IInv, BootInv
  <2>3. JobInv'
      BY <1>19, PersistAssumption DEF CleanOrphans, JobInv, IInv, BootInv
  <2>4. LockInv'
      BY <1>19, PersistAssumption DEF CleanOrphans, LockInv, Dumped, DumpOf, OpenWal,
             IInv, JobInv, OldInv
  <2>5. CoverInv'
      BY <1>19, PersistAssumption DEF CleanOrphans, CoverInv, Owner, Stored, IInv,
             OldInv
  <2> QED BY <2>1, <2>2, <2>3, <2>4, <2>5 DEF IInv
<1>20. ASSUME NEW w \in WalIds, NEW m \in MemIds, ReplayFile(w, m) PROVE IInv'
  <2>1. /\ TypeOK' /\ BootInv' /\ TodoInv' /\ ImmInv'
        /\ LockInv' /\ OldInv'
      BY <1>20 DEF ReplayFile, FreshTable, TypeOK, Files, Pcs, IInv, BootInv, TodoInv,
             ImmInv, LockInv, Dumped, DumpOf, OpenWal, OldInv
  <2>2. JobInv'
      BY <1>20, PersistAssumption DEF ReplayFile, FreshTable, JobInv, IInv, TypeOK,
             TodoInv
  <2>3. CoverInv'
      BY <1>20 DEF ReplayFile, FreshTable, CoverInv, Owner, Stored, IInv, TypeOK,
             TodoInv, LockInv
  <2> QED BY <2>1, <2>2, <2>3 DEF IInv
<1>21. ASSUME NEW w \in WalIds, ReplayError(w) PROVE IInv'
  <2>1. /\ TypeOK' /\ BootInv' /\ TodoInv' /\ ImmInv'
        /\ JobInv' /\ LockInv' /\ OldInv' /\ CoverInv'
      BY <1>21 DEF ReplayError, TypeOK, Files, Pcs, IInv, BootInv, TodoInv, ImmInv,
             JobInv, LockInv, Dumped, DumpOf, OpenWal, OldInv, CoverInv, Owner, Stored
  <2> QED BY <2>1 DEF IInv
<1>22. CASE UNCHANGED vars
    BY <1>22 DEF vars, disk, tables, jobs, boot, IInv, TypeOK, Files, Pcs, BootInv, TodoInv,
             ImmInv, JobInv, LockInv, Dumped, DumpOf, OpenWal, OldInv, CoverInv, Owner, Stored
<1> QED
    BY <1>1, <1>2, <1>3, <1>4, <1>5, <1>6, <1>7, <1>8, <1>9, <1>10, <1>11, <1>12, <1>13,
           <1>14, <1>15, <1>16, <1>17, <1>18, <1>19, <1>20, <1>21, <1>22
    DEF Next, WriterSide, PersistSide, PersistStep, Recovery, Background

(* The same steps leave one WAL file per batch, and a finished file only   *)
(* where that WAL file is gone.                                            *)
LEMMA OnceNext ==
    ASSUME IInv, OInv, IInv', [Next]_vars, RenameWorks PROVE OInv'
<1> USE DEF disk, tables, jobs, boot
<1>1. ASSUME NEW w \in WalIds, NEW B \in SUBSET Batches, GrowWal(w, B) PROVE OInv'
  <2>1. /\ EntriesOnce' /\ StoredOrigin' /\ OwnerRows' /\ RenameUnstored'
        /\ ListedOnce' /\ LockOnce' /\ RecoverInv' /\ StoredOnce'
      BY <1>1 DEF GrowWal, OpenWal, Unwritten, EntriesOnce, OInv, StoredOrigin,
             OwnerRows, Owner, RenameUnstored, Stored, Pending, DumpOf, ListedOnce,
             LockOnce, RecoverInv, StoredOnce
  <2> QED BY <2>1 DEF OInv
<1>2. ASSUME NEW v \in WalIds \cup {None}, NEW w \in WalIds, NEW B \in SUBSET Batches,
             NewWal(v, w, B)
      PROVE OInv'
  <2>1. /\ EntriesOnce' /\ StoredOrigin' /\ OwnerRows' /\ RenameUnstored'
        /\ ListedOnce' /\ LockOnce' /\ RecoverInv' /\ StoredOnce'
      BY <1>2 DEF NewWal, FreshWal, OpenWal, Unwritten, EntriesOnce, OInv, StoredOrigin,
             OwnerRows, Owner, RenameUnstored, Stored, Pending, DumpOf, ListedOnce,
             LockOnce, RecoverInv, StoredOnce
  <2> QED BY <2>1 DEF OInv
<1>3. ASSUME NEW w \in WalIds, NEW m \in MemIds, Seal(w, m) PROVE OInv'
  <2>1. /\ EntriesOnce' /\ StoredOrigin' /\ RenameUnstored' /\ ListedOnce'
        /\ LockOnce' /\ RecoverInv' /\ StoredOnce'
      BY <1>3 DEF Seal, FreshTable, OpenWal, EntriesOnce, OInv, StoredOrigin,
             RenameUnstored, Stored, Pending, DumpOf, ListedOnce, LockOnce, Owner,
             RecoverInv, StoredOnce
  <2>2. OwnerRows'
      BY <1>3, PersistAssumption DEF Seal, FreshTable, OpenWal, OwnerRows, Owner, OInv,
             TypeOK, IInv
  <2> QED BY <2>1, <2>2 DEF OInv
<1>4. ASSUME NEW w \in WalIds, PersistTable(w) PROVE OInv'
  <2>1. /\ EntriesOnce' /\ StoredOrigin' /\ OwnerRows' /\ RenameUnstored'
        /\ ListedOnce' /\ RecoverInv' /\ StoredOnce'
      BY <1>4 DEF PersistTable, EntriesOnce, OInv, StoredOrigin, OwnerRows, Owner,
             RenameUnstored, Stored, Pending, DumpOf, ListedOnce, RecoverInv, StoredOnce
  <2>2. LockOnce'
      BY <1>4 DEF PersistTable, LockOnce, Owner, Stored, OInv, ImmInv, JobInv, IInv
  <2> QED BY <2>1, <2>2 DEF OInv
<1>5. ASSUME NEW m \in MemIds, NEW b \in Batches, DumpFile(m, b) PROVE OInv'
  <2>1. /\ EntriesOnce' /\ StoredOrigin' /\ OwnerRows' /\ RenameUnstored'
        /\ ListedOnce' /\ RecoverInv' /\ StoredOnce'
      BY <1>5 DEF DumpFile, EntriesOnce, OInv, StoredOrigin, OwnerRows, Owner,
             RenameUnstored, Stored, Pending, DumpOf, ListedOnce, RecoverInv, StoredOnce
  <2>2. LockOnce'
      BY <1>5 DEF DumpFile, LockOnce, Owner, Stored, OInv, JobInv, EntriesOnce,
             StoredOrigin, OwnerRows, IInv
  <2> QED BY <2>1, <2>2 DEF OInv
<1>6. ASSUME NEW m \in MemIds, CreateLock(m) PROVE OInv'
  <2>1. /\ EntriesOnce' /\ StoredOrigin' /\ OwnerRows' /\ RenameUnstored'
        /\ ListedOnce' /\ LockOnce' /\ StoredOnce'
      BY <1>6 DEF CreateLock, Dumped, EntriesOnce, OInv, StoredOrigin, OwnerRows, Owner,
             RenameUnstored, Stored, Pending, DumpOf, ListedOnce, LockOnce, StoredOnce
  <2>2. RecoverInv'
      BY <1>6 DEF CreateLock, Dumped, RecoverInv, OInv, BootInv, IInv
  <2> QED BY <2>1, <2>2 DEF OInv
<1>7. ASSUME NEW m \in MemIds, WriteLock(m) PROVE OInv'
  <2>1. /\ EntriesOnce' /\ StoredOrigin' /\ OwnerRows' /\ RenameUnstored'
        /\ StoredOnce'
      BY <1>7 DEF WriteLock, Dumped, DumpOf, EntriesOnce, OInv, StoredOrigin, OwnerRows,
             Owner, RenameUnstored, Stored, Pending, StoredOnce
  <2>2. ListedOnce'
    <3>1. path[m] \in WalIds /\ Owner(path[m], m)
      BY <1>7 DEF IInv, JobInv, WriteLock, Owner
    <3>2. \A w \in WalIds : listed'[w] = IF w = path[m] THEN DumpOf(m) ELSE listed[w]
      BY <1>7, <3>1 DEF WriteLock, IInv, TypeOK
    <3>3. \A f \in DumpOf(m) : f[3] \in entries[path[m]]
      BY <3>1 DEF DumpOf, OInv, OwnerRows
    <3>4. \A f, g \in DumpOf(m) : g[3] = f[3] => g = f
      BY DEF DumpOf
    <3> QED BY <1>7, <3>2, <3>3, <3>4 DEF ListedOnce, OInv, WriteLock
  <2>3. LockOnce'
      BY <1>7 DEF WriteLock, Dumped, DumpOf, LockOnce, Owner, Stored, OInv, JobInv,
             Pending, EntriesOnce, StoredOrigin, OwnerRows, IInv
  <2>4. RecoverInv'
      BY <1>7 DEF WriteLock, Dumped, DumpOf, RecoverInv, OInv, BootInv, IInv
  <2> QED BY <2>1, <2>2, <2>3, <2>4 DEF OInv
<1>8. ASSUME NEW m \in MemIds, DeleteWal(m) PROVE OInv'
  <2>1. /\ EntriesOnce' /\ StoredOrigin' /\ OwnerRows' /\ ListedOnce'
        /\ RecoverInv' /\ StoredOnce'
      BY <1>8 DEF DeleteWal, EntriesOnce, OInv, StoredOrigin, OwnerRows, Owner,
             ListedOnce, RecoverInv, StoredOnce
  <2>2. RenameUnstored'
      BY <1>8 DEF DeleteWal, RenameUnstored, Stored, Pending, DumpOf, OInv, JobInv,
             Owner, EntriesOnce, StoredOrigin, OwnerRows, IInv
  <2>3. LockOnce'
      BY <1>8, PersistAssumption DEF DeleteWal, LockOnce, Owner, Stored, OInv, TypeOK,
             ImmInv, JobInv, IInv
  <2> QED BY <2>1, <2>2, <2>3 DEF OInv
<1>9. ASSUME NEW m \in MemIds, NEW f \in par, DiscardFile(m, f) PROVE OInv'
  <2>1. /\ EntriesOnce' /\ StoredOrigin' /\ OwnerRows' /\ RenameUnstored'
        /\ ListedOnce' /\ LockOnce' /\ RecoverInv' /\ StoredOnce'
      BY <1>9 DEF DiscardFile, Pending, DumpOf, EntriesOnce, OInv, StoredOrigin,
             OwnerRows, Owner, RenameUnstored, Stored, ListedOnce, LockOnce, RecoverInv,
             StoredOnce
  <2> QED BY <2>1 DEF OInv
<1>10. ASSUME NEW m \in MemIds, NEW f \in par, RenameFile(m, f) PROVE OInv'
  <2>1. EntriesOnce' /\ OwnerRows' /\ ListedOnce' /\ RecoverInv'
      BY <1>10 DEF RenameFile, Pending, DumpOf, EntriesOnce, OInv, OwnerRows, Owner,
             ListedOnce, RecoverInv
  <2>2. StoredOrigin'
      BY <1>10 DEF RenameFile, Pending, DumpOf, StoredOrigin, OInv, JobInv, LockInv,
             Owner, OwnerRows, IInv
  <2>3. RenameUnstored'
      BY <1>10, PersistAssumption DEF RenameFile, Pending, DumpOf, RenameUnstored,
             Stored, OInv, ImmInv, JobInv, Owner, EntriesOnce, OwnerRows, IInv
  <2>4. LockOnce'
      BY <1>10 DEF RenameFile, Pending, DumpOf, LockOnce, Owner, Stored, OInv, TypeOK,
             LockInv, EntriesOnce, OwnerRows, ListedOnce, IInv
  <2>5. StoredOnce'
      BY <1>10 DEF RenameFile, Pending, DumpOf, StoredOnce, OInv, Stored, RenameUnstored
  <2> QED BY <2>1, <2>2, <2>3, <2>4, <2>5 DEF OInv
<1>11. ASSUME NEW m \in MemIds, DeleteLock(m) PROVE OInv'
  <2>1. /\ EntriesOnce' /\ StoredOrigin' /\ RenameUnstored' /\ ListedOnce'
        /\ RecoverInv' /\ StoredOnce'
      BY <1>11 DEF DeleteLock, ReturnOk, Pending, DumpOf, EntriesOnce, OInv,
             StoredOrigin, RenameUnstored, Stored, ListedOnce, RecoverInv, StoredOnce
  <2>2. OwnerRows'
      BY <1>11, PersistAssumption DEF DeleteLock, ReturnOk, Pending, DumpOf, OwnerRows,
             Owner, OInv
  <2>3. LockOnce'
      BY <1>11 DEF DeleteLock, ReturnOk, Pending, DumpOf, LockOnce, Owner, Stored, OInv,
             JobInv, IInv
  <2> QED BY <2>1, <2>2, <2>3 DEF OInv
<1>12. ASSUME NEW m \in MemIds, Finish(m) PROVE OInv'
  <2>1. /\ EntriesOnce' /\ StoredOrigin' /\ RenameUnstored' /\ ListedOnce'
        /\ RecoverInv' /\ StoredOnce'
      BY <1>12 DEF Finish, EntriesOnce, OInv, StoredOrigin, RenameUnstored, Stored,
             Pending, DumpOf, ListedOnce, RecoverInv, StoredOnce
  <2>2. OwnerRows'
      BY <1>12, PersistAssumption DEF Finish, OwnerRows, Owner, OInv
  <2>3. LockOnce'
      BY <1>12, PersistAssumption DEF Finish, LockOnce, Owner, Stored, OInv, TypeOK,
             ImmInv, JobInv, IInv
  <2> QED BY <2>1, <2>2, <2>3 DEF OInv
<1>13. ASSUME NEW m \in MemIds, NEW s \in FailSteps, Fail(m, s)
      PROVE OInv'
  <2>1. /\ EntriesOnce' /\ StoredOrigin' /\ ListedOnce' /\ RecoverInv'
        /\ StoredOnce'
      BY <1>13 DEF Fail, AtStep, Pending, DumpOf, EntriesOnce, OInv, StoredOrigin,
             ListedOnce, RecoverInv, StoredOnce
  <2>2. OwnerRows'
      BY <1>13, PersistAssumption DEF Fail, AtStep, Pending, DumpOf, OwnerRows, Owner,
             OInv
  <2>3. RenameUnstored'
      BY <1>13 DEF Fail, AtStep, Pending, DumpOf, RenameUnstored, Stored, OInv, TypeOK,
             IInv
  <2>4. LockOnce'
      BY <1>13, PersistAssumption DEF Fail, AtStep, Pending, DumpOf, LockOnce, Owner,
             Stored, OInv, RenameWorks
  <2> QED BY <2>1, <2>2, <2>3, <2>4 DEF OInv
<1>14. ASSUME Crash PROVE OInv'
  <2>1. /\ EntriesOnce' /\ StoredOrigin' /\ OwnerRows' /\ RenameUnstored'
        /\ ListedOnce'
      BY <1>14 DEF Crash, EntriesOnce, OInv, StoredOrigin, OwnerRows, Owner,
             RenameUnstored, Stored, Pending, DumpOf, ListedOnce
  <2>2. LockOnce'
      BY <1>14, PersistAssumption DEF Crash, LockOnce, Owner, Stored, OInv
  <2>3. RecoverInv'
      BY <1>14 DEF Crash, RecoverInv, OInv, TypeOK, IInv
  <2>4. StoredOnce'
      BY <1>14 DEF Crash, StoredOnce, OInv, TypeOK, IInv
  <2> QED BY <2>1, <2>2, <2>3, <2>4 DEF OInv
<1>15. ASSUME NEW w \in WalIds, RecoverLock(w) PROVE OInv'
  <2>1. /\ EntriesOnce' /\ StoredOrigin' /\ OwnerRows' /\ RenameUnstored'
        /\ ListedOnce' /\ RecoverInv' /\ StoredOnce'
      BY <1>15 DEF RecoverLock, EntriesOnce, OInv, StoredOrigin, OwnerRows, Owner,
             RenameUnstored, Stored, Pending, DumpOf, ListedOnce, RecoverInv, StoredOnce
  <2>2. LockOnce'
      BY <1>15, PersistAssumption DEF RecoverLock, LockOnce, Owner, Stored, OInv,
             BootInv, IInv
  <2> QED BY <2>1, <2>2 DEF OInv
<1>16. ASSUME NEW f \in par, RecoverFile(f) PROVE OInv'
  <2>1. EntriesOnce' /\ OwnerRows' /\ ListedOnce' /\ RecoverInv'
      BY <1>16 DEF RecoverFile, EntriesOnce, OInv, OwnerRows, Owner, ListedOnce,
             RecoverInv
  <2>2. StoredOrigin'
      BY <1>16 DEF RecoverFile, StoredOrigin, OInv, TypeOK, ListedOnce, RecoverInv, IInv
  <2>3. RenameUnstored'
      BY <1>16 DEF RecoverFile, RenameUnstored, Stored, Pending, DumpOf, OInv, BootInv,
             IInv
  <2>4. LockOnce'
      BY <1>16 DEF RecoverFile, LockOnce, Owner, Stored, OInv, TypeOK, EntriesOnce,
             ListedOnce, IInv
  <2>5. StoredOnce'
      BY <1>16 DEF RecoverFile, StoredOnce, OInv, TypeOK, LockInv, Stored, LockOnce,
             RecoverInv, IInv
  <2> QED BY <2>1, <2>2, <2>3, <2>4, <2>5 DEF OInv
<1>17. ASSUME RecoverDone PROVE OInv'
  <2>1. /\ EntriesOnce' /\ StoredOrigin' /\ OwnerRows' /\ RenameUnstored'
        /\ ListedOnce' /\ LockOnce' /\ RecoverInv' /\ StoredOnce'
      BY <1>17 DEF RecoverDone, EntriesOnce, OInv, StoredOrigin, OwnerRows, Owner,
             RenameUnstored, Stored, Pending, DumpOf, ListedOnce, LockOnce, RecoverInv,
             StoredOnce
  <2> QED BY <2>1 DEF OInv
<1>18. ASSUME InitDone PROVE OInv'
  <2>1. /\ EntriesOnce' /\ StoredOrigin' /\ OwnerRows' /\ RenameUnstored'
        /\ ListedOnce' /\ LockOnce' /\ RecoverInv' /\ StoredOnce'
      BY <1>18 DEF InitDone, EntriesOnce, OInv, StoredOrigin, OwnerRows, Owner,
             RenameUnstored, Stored, Pending, DumpOf, ListedOnce, LockOnce, RecoverInv,
             StoredOnce
  <2> QED BY <2>1 DEF OInv
<1>19. ASSUME CleanOrphans PROVE OInv'
  <2>1. /\ EntriesOnce' /\ StoredOrigin' /\ OwnerRows' /\ RenameUnstored'
        /\ ListedOnce' /\ LockOnce' /\ RecoverInv' /\ StoredOnce'
      BY <1>19 DEF CleanOrphans, EntriesOnce, OInv, StoredOrigin, OwnerRows, Owner,
             RenameUnstored, Stored, Pending, DumpOf, ListedOnce, LockOnce, RecoverInv,
             StoredOnce
  <2> QED BY <2>1 DEF OInv
<1>20. ASSUME NEW w \in WalIds, NEW m \in MemIds, ReplayFile(w, m) PROVE OInv'
  <2>1. /\ EntriesOnce' /\ StoredOrigin' /\ RenameUnstored' /\ ListedOnce'
        /\ RecoverInv' /\ StoredOnce'
      BY <1>20 DEF ReplayFile, FreshTable, EntriesOnce, OInv, StoredOrigin,
             RenameUnstored, Stored, Pending, DumpOf, ListedOnce, RecoverInv, StoredOnce
  <2>2. OwnerRows'
      BY <1>20 DEF ReplayFile, FreshTable, OwnerRows, Owner, OInv, TypeOK, IInv
  <2>3. LockOnce'
      BY <1>20, PersistAssumption DEF ReplayFile, FreshTable, LockOnce, Owner, Stored,
             OInv, TodoInv, IInv
  <2> QED BY <2>1, <2>2, <2>3 DEF OInv
<1>21. ASSUME NEW w \in WalIds, ReplayError(w) PROVE OInv'
  <2>1. /\ EntriesOnce' /\ StoredOrigin' /\ OwnerRows' /\ RenameUnstored'
        /\ ListedOnce' /\ LockOnce' /\ RecoverInv' /\ StoredOnce'
      BY <1>21 DEF ReplayError, EntriesOnce, OInv, StoredOrigin, OwnerRows, Owner,
             RenameUnstored, Stored, Pending, DumpOf, ListedOnce, LockOnce, RecoverInv,
             StoredOnce
  <2> QED BY <2>1 DEF OInv
<1>22. CASE UNCHANGED vars
    BY <1>22 DEF vars, disk, tables, jobs, boot, OInv, EntriesOnce, StoredOrigin, OwnerRows,
             RenameUnstored, ListedOnce, LockOnce, RecoverInv, StoredOnce, Owner, Stored,
             Pending, DumpOf
<1> QED
    BY <1>1, <1>2, <1>3, <1>4, <1>5, <1>6, <1>7, <1>8, <1>9, <1>10, <1>11, <1>12, <1>13,
           <1>14, <1>15, <1>16, <1>17, <1>18, <1>19, <1>20, <1>21, <1>22
    DEF Next, WriterSide, PersistSide, PersistStep, Recovery, Background

(* A step keeps a copy of a batch that a restart would find.               *)
LEMMA KeepsNext ==
    ASSUME IInv, OInv, NEW c \in Batches, Recoverable(c), Next, RenameWorks
    PROVE  Recoverable(c)' \/ Truncated(c)'
<1> USE DEF disk, tables, jobs, boot
<1>1. ASSUME NEW w \in WalIds, NEW B \in SUBSET Batches, GrowWal(w, B)
      PROVE  Recoverable(c)' \/ Truncated(c)'
  BY <1>1 DEF GrowWal, OpenWal, Unwritten, Recoverable, FinalCopies, LockCopies,
         WalCopies, Truncated, IInv
<1>2. ASSUME NEW v \in WalIds \cup {None}, NEW w \in WalIds, NEW B \in SUBSET Batches,
             NewWal(v, w, B)
      PROVE  Recoverable(c)' \/ Truncated(c)'
  BY <1>2 DEF NewWal, FreshWal, OpenWal, Unwritten, Recoverable, FinalCopies,
         LockCopies, WalCopies, Truncated, IInv, TypeOK, CoverInv
<1>3. ASSUME NEW w \in WalIds, NEW m \in MemIds, Seal(w, m)
      PROVE  Recoverable(c)' \/ Truncated(c)'
  BY <1>3 DEF Seal, FreshTable, OpenWal, Recoverable, FinalCopies, LockCopies,
         WalCopies, Truncated, IInv
<1>4. ASSUME NEW w \in WalIds, PersistTable(w)
      PROVE  Recoverable(c)' \/ Truncated(c)'
  BY <1>4 DEF PersistTable, Recoverable, FinalCopies, LockCopies, WalCopies, Truncated,
         IInv
<1>5. ASSUME NEW m \in MemIds, NEW b \in Batches, DumpFile(m, b)
      PROVE  Recoverable(c)' \/ Truncated(c)'
  BY <1>5 DEF DumpFile, Recoverable, FinalCopies, LockCopies, WalCopies, Truncated, IInv
<1>6. ASSUME NEW m \in MemIds, CreateLock(m)
      PROVE  Recoverable(c)' \/ Truncated(c)'
  <2>1. path[m] \in WalIds /\ Owner(path[m], m)
    BY <1>6 DEF IInv, JobInv, CreateLock, Owner
  <2>2. \A w \in WalIds : listed'[w] = IF w = path[m] THEN {} ELSE listed[w]
    BY <1>6, <2>1 DEF CreateLock, IInv, TypeOK
  <2>3. CASE Stored(c)
    BY <1>6, <2>3 DEF CreateLock, Stored, Recoverable, FinalCopies
  <2>4. CASE path[m] \in wals /\ c \in entries[path[m]]
    BY <1>6, <2>1, <2>2, <2>4 DEF CreateLock, Truncated
  <2>5. CASE c \in rows[m] /\ ~Stored(c)
    <3>1. path[m] \in wals
      BY <1>6, <2>1, <2>5 DEF IInv, CoverInv, CreateLock
    <3>2. c \in entries[path[m]]
      BY <2>1, <2>5 DEF OInv, OwnerRows
    <3> QED BY <2>4, <3>1, <3>2
  <2>6. CASE c \notin rows[m] /\ ~Stored(c)
    <3>1. PICK w \in WalIds :
              \/ w \in locks /\ \E f \in par \cap listed[w] : f[3] = c
              \/ w \in wals \ locks /\ c \in entries[w]
      BY <2>6 DEF Recoverable, FinalCopies, LockCopies, WalCopies, Stored, IInv, TypeOK
    <3>2. w # path[m]
      BY <2>1, <2>6, <3>1 DEF IInv, CoverInv
    <3> QED BY <1>6, <2>1, <2>2, <3>1, <3>2
            DEF CreateLock, Recoverable, LockCopies, WalCopies
  <2> QED BY <2>3, <2>5, <2>6
<1>7. ASSUME NEW m \in MemIds, WriteLock(m)
      PROVE  Recoverable(c)' \/ Truncated(c)'
  <2>1. path[m] \in WalIds /\ Owner(path[m], m)
    BY <1>7 DEF IInv, JobInv, WriteLock, Owner
  <2>2. \A w \in WalIds : listed'[w] = IF w = path[m] THEN DumpOf(m) ELSE listed[w]
    BY <1>7, <2>1 DEF WriteLock, IInv, TypeOK
  <2>3. CASE Stored(c)
    BY <1>7, <2>3 DEF WriteLock, Stored, Recoverable, FinalCopies
  <2>4. CASE c \in rows[m]
    <3> DEFINE f == <<m, attempt[m], c>>
    <3>1. f \in DumpOf(m) /\ f \in par /\ f[3] = c
      BY <1>7, <2>4 DEF WriteLock, Dumped, DumpOf
    <3>2. f \in LockCopies(c)'
      BY <1>7, <2>1, <2>2, <3>1 DEF WriteLock, LockCopies
    <3> QED BY <3>2 DEF Recoverable
  <2>5. CASE c \notin rows[m] /\ ~Stored(c)
    <3>1. PICK w \in WalIds :
              \/ w \in locks /\ \E f \in par \cap listed[w] : f[3] = c
              \/ w \in wals \ locks /\ c \in entries[w]
      BY <2>5 DEF Recoverable, FinalCopies, LockCopies, WalCopies, Stored, IInv, TypeOK
    <3>2. w # path[m]
      BY <2>1, <2>5, <3>1 DEF IInv, CoverInv
    <3> QED BY <1>7, <2>1, <2>2, <3>1, <3>2
            DEF WriteLock, Recoverable, LockCopies, WalCopies
  <2> QED BY <2>3, <2>4, <2>5
<1>8. ASSUME NEW m \in MemIds, DeleteWal(m)
      PROVE  Recoverable(c)' \/ Truncated(c)'
  BY <1>8 DEF DeleteWal, Recoverable, FinalCopies, LockCopies, WalCopies, Truncated,
         IInv, LockInv
<1>9. ASSUME NEW m \in MemIds, NEW f \in par, DiscardFile(m, f)
      PROVE  Recoverable(c)' \/ Truncated(c)'
  BY <1>9 DEF DiscardFile, Pending, DumpOf, Recoverable, FinalCopies, LockCopies,
         WalCopies, Truncated, IInv, JobInv, LockInv, CoverInv, Owner, Stored
<1>10. ASSUME NEW m \in MemIds, NEW f \in par, RenameFile(m, f)
      PROVE  Recoverable(c)' \/ Truncated(c)'
  BY <1>10 DEF RenameFile, Pending, DumpOf, Recoverable, FinalCopies, LockCopies,
         WalCopies, Truncated, IInv
<1>11. ASSUME NEW m \in MemIds, DeleteLock(m)
      PROVE  Recoverable(c)' \/ Truncated(c)'
  BY <1>11 DEF DeleteLock, ReturnOk, Pending, DumpOf, Recoverable, FinalCopies,
         LockCopies, WalCopies, Truncated, IInv, JobInv, LockInv, CoverInv, Owner,
         Stored
<1>12. ASSUME NEW m \in MemIds, Finish(m)
      PROVE  Recoverable(c)' \/ Truncated(c)'
  BY <1>12 DEF Finish, Recoverable, FinalCopies, LockCopies, WalCopies, Truncated, IInv
<1>13. ASSUME NEW m \in MemIds, NEW s \in FailSteps, Fail(m, s)
      PROVE  Recoverable(c)' \/ Truncated(c)'
  BY <1>13 DEF Fail, AtStep, Pending, DumpOf, Recoverable, FinalCopies, LockCopies,
         WalCopies, Truncated, IInv
<1>14. ASSUME Crash
      PROVE  Recoverable(c)' \/ Truncated(c)'
  BY <1>14 DEF Crash, Recoverable, FinalCopies, LockCopies, WalCopies, Truncated, IInv
<1>15. ASSUME NEW w \in WalIds, RecoverLock(w)
      PROVE  Recoverable(c)' \/ Truncated(c)'
  BY <1>15 DEF RecoverLock, Recoverable, FinalCopies, LockCopies, WalCopies, Truncated,
         IInv
<1>16. ASSUME NEW f \in par, RecoverFile(f)
      PROVE  Recoverable(c)' \/ Truncated(c)'
  BY <1>16 DEF RecoverFile, Recoverable, FinalCopies, LockCopies, WalCopies, Truncated,
         IInv
<1>17. ASSUME RecoverDone
      PROVE  Recoverable(c)' \/ Truncated(c)'
  BY <1>17 DEF RecoverDone, Recoverable, FinalCopies, LockCopies, WalCopies, Truncated,
         IInv
<1>18. ASSUME InitDone
      PROVE  Recoverable(c)' \/ Truncated(c)'
  BY <1>18 DEF InitDone, Recoverable, FinalCopies, LockCopies, WalCopies, Truncated,
         IInv
<1>19. ASSUME CleanOrphans
      PROVE  Recoverable(c)' \/ Truncated(c)'
  BY <1>19 DEF CleanOrphans, Recoverable, FinalCopies, LockCopies, WalCopies, Truncated,
         IInv, TypeOK, BootInv, OldInv
<1>20. ASSUME NEW w \in WalIds, NEW m \in MemIds, ReplayFile(w, m)
      PROVE  Recoverable(c)' \/ Truncated(c)'
  BY <1>20 DEF ReplayFile, FreshTable, Recoverable, FinalCopies, LockCopies, WalCopies,
         Truncated, IInv
<1>21. ASSUME NEW w \in WalIds, ReplayError(w)
      PROVE  Recoverable(c)' \/ Truncated(c)'
  BY <1>21 DEF ReplayError, Recoverable, FinalCopies, LockCopies, WalCopies, Truncated,
         IInv
<1> QED
    BY <1>1, <1>2, <1>3, <1>4, <1>5, <1>6, <1>7, <1>8, <1>9, <1>10, <1>11, <1>12, <1>13,
           <1>14, <1>15, <1>16, <1>17, <1>18, <1>19, <1>20, <1>21
    DEF Next, WriterSide, PersistSide, PersistStep, Recovery, Background

(* A step leaves no WAL file next to a lock file that says less, when the  *)
(* lock file is written in one step.                                       *)
LEMMA LockFullNext ==
    ASSUME IInv, OInv, LockFull, [Next]_vars, RenameWorks, ~TornLock PROVE LockFull'
<1> USE DEF disk, tables, jobs, boot
<1>1. ASSUME NEW w \in WalIds, NEW B \in SUBSET Batches, GrowWal(w, B) PROVE LockFull'
    BY <1>1 DEF GrowWal, LockFull, OpenWal, IInv, LockInv
<1>2. ASSUME NEW v \in WalIds \cup {None}, NEW w \in WalIds, NEW B \in SUBSET Batches,
             NewWal(v, w, B) PROVE LockFull'
    BY <1>2 DEF NewWal, LockFull, FreshWal, OpenWal, IInv, TypeOK, LockInv
<1>3. ASSUME NEW w \in WalIds, NEW m \in MemIds, Seal(w, m) PROVE LockFull'
    BY <1>3 DEF Seal, LockFull
<1>4. ASSUME NEW w \in WalIds, PersistTable(w) PROVE LockFull'
    BY <1>4 DEF PersistTable, LockFull
<1>5. ASSUME NEW m \in MemIds, NEW b \in Batches, DumpFile(m, b) PROVE LockFull'
    BY <1>5 DEF DumpFile, LockFull
<1>6. ASSUME NEW m \in MemIds, CreateLock(m) PROVE LockFull'
    BY <1>6 DEF CreateLock, LockFull
<1>7. ASSUME NEW m \in MemIds, WriteLock(m) PROVE LockFull'
  <2>1. path[m] \in WalIds /\ Owner(path[m], m)
    BY <1>7 DEF IInv, JobInv, WriteLock, Owner
  <2>2. \A w \in WalIds : listed'[w] = IF w = path[m] THEN DumpOf(m) ELSE listed[w]
    BY <1>7, <2>1 DEF WriteLock, IInv, TypeOK
  <2>3. ASSUME path[m] \in wals, NEW b \in entries[path[m]]
        PROVE  \E f \in DumpOf(m) \cap par : f[3] = b
    <3>1. b \in rows[m]
      BY <2>1, <2>3 DEF IInv, CoverInv
    <3>2. <<m, attempt[m], b>> \in DumpOf(m)
      BY <3>1 DEF DumpOf
    <3> QED BY <1>7, <3>2 DEF WriteLock, Dumped
  <2>4. locks \subseteq WalIds
    BY DEF IInv, TypeOK
  <2> QED BY <1>7, <2>1, <2>2, <2>3, <2>4 DEF WriteLock, LockFull
<1>8. ASSUME NEW m \in MemIds, DeleteWal(m) PROVE LockFull'
    BY <1>8 DEF DeleteWal, LockFull
<1>9. ASSUME NEW m \in MemIds, NEW f \in par, DiscardFile(m, f) PROVE LockFull'
  <2>1. path[m] \in WalIds /\ Owner(path[m], m) /\ path[m] \notin wals
    BY <1>9 DEF IInv, JobInv, LockInv, DiscardFile, Owner
  <2>2. f[3] \in entries[path[m]]
    BY <1>9, <2>1 DEF DiscardFile, Pending, DumpOf, OInv, OwnerRows
  <2>3. \A w \in WalIds \cap wals : f \notin listed[w]
    BY <2>1, <2>2 DEF OInv, ListedOnce, EntriesOnce
  <2>4. locks \subseteq WalIds
    BY DEF IInv, TypeOK
  <2> QED BY <1>9, <2>3, <2>4 DEF DiscardFile, LockFull
<1>10. ASSUME NEW m \in MemIds, NEW f \in par, RenameFile(m, f) PROVE LockFull'
    BY <1>10 DEF RenameFile, LockFull
<1>11. ASSUME NEW m \in MemIds, DeleteLock(m) PROVE LockFull'
  <2>1. \A w \in locks' : w \in locks /\ listed'[w] = listed[w]
    BY <1>11 DEF DeleteLock, IInv, TypeOK
  <2> QED BY <1>11, <2>1 DEF DeleteLock, LockFull
<1>12. ASSUME NEW m \in MemIds, Finish(m) PROVE LockFull'
    BY <1>12 DEF Finish, LockFull
<1>13. ASSUME NEW m \in MemIds, NEW s \in FailSteps, Fail(m, s) PROVE LockFull'
    BY <1>13 DEF Fail, LockFull
<1>14. ASSUME Crash PROVE LockFull'
    BY <1>14 DEF Crash, LockFull
<1>15. ASSUME NEW w \in WalIds, RecoverLock(w) PROVE LockFull'
    BY <1>15 DEF RecoverLock, LockFull
<1>16. ASSUME NEW f \in par, RecoverFile(f) PROVE LockFull'
    BY <1>16 DEF RecoverFile, LockFull
<1>17. ASSUME RecoverDone PROVE LockFull'
    BY <1>17 DEF RecoverDone, LockFull, IInv, TypeOK
<1>18. ASSUME InitDone PROVE LockFull'
    BY <1>18 DEF InitDone, LockFull
<1>19. ASSUME CleanOrphans PROVE LockFull'
    BY <1>19 DEF CleanOrphans, LockFull, IInv, TypeOK, BootInv, OldInv
<1>20. ASSUME NEW w \in WalIds, NEW m \in MemIds, ReplayFile(w, m) PROVE LockFull'
    BY <1>20 DEF ReplayFile, LockFull
<1>21. ASSUME NEW w \in WalIds, ReplayError(w) PROVE LockFull'
    BY <1>21 DEF ReplayError, LockFull
<1>22. CASE UNCHANGED vars
    BY <1>22 DEF vars, LockFull
<1> QED
    BY <1>1, <1>2, <1>3, <1>4, <1>5, <1>6, <1>7, <1>8, <1>9, <1>10, <1>11, <1>12, <1>13,
           <1>14, <1>15, <1>16, <1>17, <1>18, <1>19, <1>20, <1>21, <1>22
    DEF Next, WriterSide, PersistSide, PersistStep, Recovery, Background

----------------------------------------------------------------------------

(* The inductive invariant, for every value of the constants.              *)
LEMMA Inductive == ASSUME RenameWorks PROVE Spec => [](IInv /\ OInv)
<1>1. Init => IInv /\ OInv
  BY CoverInit
<1>2. IInv /\ OInv /\ [Next]_vars => (IInv /\ OInv)'
  BY CoverNext, OnceNext
<1> QED BY <1>1, <1>2, PTL DEF Spec

(* persist_files, lock file recovery and the replay task keep the files,   *)
(* tables and persist calls within their types.                            *)
THEOREM PersistTypes == Spec => []TypeOK
<1>1. Init => IInv
  BY CoverInit
<1>2. IInv /\ [Next]_vars => IInv'
  BY CoverNext
<1>3. IInv => TypeOK
  BY DEF IInv
<1> QED BY <1>1, <1>2, <1>3, PTL DEF Spec

(* immutable.rs:135-137: when persist_files finds the WAL file gone, what  *)
(* it discards has a finished file, as long as no rename fails.            *)
THEOREM DiscardSafe == ASSUME RenameWorks PROVE Spec => []DiscardOnlyStored
<1>1. ASSUME IInv PROVE DiscardOnlyStored
  <2> SUFFICES ASSUME NEW m \in MemIds, pc[m] = "discard" PROVE \A b \in rows[m] : Stored(b)
    BY DEF DiscardOnlyStored
  <2>1. path[m] \in WalIds /\ Owner(path[m], m)
    BY <1>1 DEF IInv, JobInv, Owner
  <2>2. path[m] \notin wals
    BY <1>1 DEF IInv, LockInv
  <2> QED BY <1>1, <2>1, <2>2 DEF IInv, CoverInv
<1> QED BY <1>1, Inductive, PTL

(* No step of persist_files, check_uncompleted_lock_files,                 *)
(* clean_orphan_par_files or replay_wal_files takes away the last copy of  *)
(* a batch that a restart would find, but the truncation of a lock file.   *)
THEOREM NeverForgets == ASSUME RenameWorks PROVE Spec => NothingForgotten
<1>1. IInv /\ OInv /\ [Next]_vars =>
          [\A b \in Batches : Recoverable(b) => Recoverable(b)' \/ Truncated(b)']_vars
  BY KeepsNext
<1> QED BY <1>1, Inductive, PTL DEF Spec, NothingForgotten

(* A batch gets one finished file, whatever fails and is tried again.      *)
THEOREM StoresOnce == ASSUME RenameWorks PROVE Spec => []StoredOnce
<1>1. OInv => StoredOnce
  BY DEF OInv
<1> QED BY <1>1, Inductive, PTL

(* At no moment would a restart find two copies of a batch: what lock      *)
(* files list, what is finished and what is replayed never overlap, unless *)
(* a lock file cannot be deleted.                                          *)
THEOREM NeverDoubles == ASSUME RenameWorks PROVE Spec => []NothingDoubled
<1>1. ASSUME IInv, OInv PROVE NothingDoubled
  <2> SUFFICES ASSUME "unlock" \notin FailSteps, NEW b \in Batches
               PROVE  /\ \A f, g \in FinalCopies(b) \cup LockCopies(b) : f = g
                      /\ \A v, w \in WalCopies(b) : v = w
                      /\ WalCopies(b) = {} \/ FinalCopies(b) \cup LockCopies(b) = {}
    BY DEF NothingDoubled
  <2>1. \A f, g \in FinalCopies(b) : f = g
    BY <1>1 DEF OInv, StoredOnce, FinalCopies
  <2>2. \A f \in LockCopies(b) : FinalCopies(b) = {}
    BY <1>1 DEF IInv, TypeOK, OInv, LockOnce, LockCopies, FinalCopies, Stored
  <2>3. ASSUME NEW f \in LockCopies(b), NEW g \in LockCopies(b) PROVE f = g
    <3>1. PICK v \in locks : f \in listed[v]
      BY DEF LockCopies
    <3>2. PICK w \in locks : g \in listed[w]
      BY DEF LockCopies
    <3>3. b \in entries[v] /\ b \in entries[w] /\ v \in WalIds /\ w \in WalIds
      BY <1>1, <3>1, <3>2 DEF IInv, TypeOK, OInv, ListedOnce, LockCopies
    <3>4. v = w
      BY <1>1, <3>3 DEF OInv, EntriesOnce
    <3> QED BY <1>1, <3>1, <3>2, <3>3, <3>4 DEF OInv, ListedOnce, LockCopies
  <2>4. \A v, w \in WalCopies(b) : v = w
    BY <1>1 DEF IInv, TypeOK, OInv, EntriesOnce, WalCopies
  <2>5. ASSUME NEW v \in WalCopies(b) PROVE FinalCopies(b) = {}
    BY <1>1 DEF IInv, TypeOK, OInv, EntriesOnce, StoredOrigin, WalCopies, FinalCopies
  <2>6. ASSUME NEW v \in WalCopies(b) PROVE LockCopies(b) = {}
    BY <1>1 DEF IInv, TypeOK, OInv, EntriesOnce, ListedOnce, WalCopies, LockCopies
  <2> QED BY <2>1, <2>2, <2>3, <2>4, <2>5, <2>6
<1> QED BY <1>1, Inductive, PTL

(* wal.rs:47-48: the files that a lock file lists hold every batch of the  *)
(* WAL file that recovery deletes, when the lock file is written in one    *)
(* step and no rename fails.                                               *)
THEOREM LockComplete ==
    ASSUME RenameWorks, ~TornLock PROVE Spec => []LockListsEverything
<1>1. Init => LockFull
  BY DEF Init, LockFull
<1>2. IInv /\ OInv /\ LockFull /\ [Next]_vars => LockFull'
  BY LockFullNext
<1>3. LockFull => LockListsEverything
  BY DEF LockFull, LockListsEverything
<1> QED BY <1>1, <1>2, <1>3, Inductive, PTL DEF Spec

============================================================================
