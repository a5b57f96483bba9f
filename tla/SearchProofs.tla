---------------------------- MODULE SearchProofs ----------------------------
(***************************************************************************)
(* Proofs about Search and ParquetMover: for any files, workers and        *)
(* queries, any kills and failing operations, no file is removed before it *)
(* is accounted for, none is uploaded twice, a query finds every table and *)
(* no row twice, and a file it has locked stays.                           *)
(*                                                                         *)
(* The sets in memory carry the argument.  PROCESSING_FILES has every file *)
(* that somebody owns or that is listed, as long as it exists (MarkInv),   *)
(* so a file has one owner (OwnerInv) and goes to the file list once       *)
(* (FreshInv); a listed file is pending deletion or in a worker's hand     *)
(* (HiddenInv), so a query that finds it on disk is excused or does not    *)
(* count it; SEARCHING_FILES counts the locks (LockInv), so that who looks *)
(* before a removal sees them.                                             *)
(***************************************************************************)
EXTENDS Search, FiniteSetTheorems, TLAPS

\* What a worker has in hand, and what the scanning task has taken for one.
Hand(k) == wk[k].rest \cup wk[k].chunk
Taken   == scan.batch \cup chan

\* The steps of a worker after the entry in the file list.
AfterList == {"del", "mark", "rm", "pend", "unmark"}

\* What a worker and the scanning task have in hand at each step: files that
\* were finished.
HandInv ==
    /\ \A k \in Workers :
          /\ wk[k].at \in {"mark", "rm", "pend", "unmark"} => wk[k].file \in wk[k].chunk
          /\ wk[k].at \in {"idle", "start", "drop", "merge"} => wk[k].chunk = {}
          /\ Hand(k) \subseteq made
    /\ scan.at \in {"rm", "release", "forget", "meta"} => scan.file \in made
    /\ scan.todo \cup Taken \cup pending \cup pendingDb \subseteq made
    /\ \A f \in Files \ made : uploads[f] = 0

\* A file is removed, or marked to be, only after its entry was written.
DoneInv ==
    /\ \A f \in pending \cup pendingDb \cup removing \cup blamed : Done(f)
    /\ \A k \in Workers : wk[k].at \in AfterList => \A f \in wk[k].chunk : Done(f)
    /\ scan.at \in {"rm", "release", "forget"} => Done(scan.file)
    /\ scan.at \in {"pend", "rm", "release", "forget"} => \A f \in scan.todo : Done(f)
    /\ RemovedIsListed

\* A file has one owner: the scanning task, the channel or one worker.
OwnerInv ==
    \A f \in Files \ blamed :
        /\ f \in scan.batch => f \notin chan
        /\ \A k \in Workers : f \in Hand(k) => f \notin Taken
        /\ \A k \in Workers : f \in wk[k].rest => f \notin wk[k].chunk
        /\ \A k, l \in Workers : f \in Hand(k) /\ f \in Hand(l) => k = l

\* PROCESSING_FILES has every file that is owned or listed, as long as it
\* exists: so it is not taken a second time.
MarkInv ==
    \A f \in Files \ blamed :
        /\ f \in disk /\ (f \in Taken \/ \E k \in Workers : f \in Hand(k)) => f \in processing
        /\ f \in disk /\ uploads[f] > 0 => f \in processing
        /\ scan.at = "meta" /\ scan.file = f => f \notin processing
        /\ scan.at \in {"release", "forget"} /\ scan.file = f => f \notin disk

\* What is not listed yet has no entry; a listed file has one.
FreshInv ==
    \A f \in Files \ blamed :
        /\ uploads[f] <= 1
        /\ f \in Taken => uploads[f] = 0
        /\ \A k \in Workers : /\ f \in wk[k].rest => uploads[f] = 0
                              /\ f \in wk[k].chunk /\ wk[k].at = "list" => uploads[f] = 0

\* A listed file that exists is pending deletion, or in a worker's hand.
HiddenInv ==
    \A f \in Files \ blamed :
        /\ f \in disk /\ uploads[f] > 0 =>
              f \in pending \/ \E k \in Workers : f \in wk[k].chunk /\ wk[k].at \in AfterList
        /\ \A k \in Workers : wk[k].at = "unmark" /\ wk[k].file = f /\ f \in disk => f \in pending

MoverInv ==
    MoverTypeOK /\ HandInv /\ DoneInv /\ OwnerInv /\ MarkInv /\ FreshInv /\ HiddenInv

\* The file is listed, given up, or lost its entry.
Accounted(f) == Done(f) \/ f \in dropped

\* Where what a query owes is, at each of its steps.
OwedBy(q) ==
    \A f \in query[q].owed :
        /\ query[q].at = "mem" => stage[f] # "none"
        /\ query[q].at = "imm" =>
              f \in query[q].ids \cup query[q].missed \/ stage[f] \in {"swapped", "immutable", "replay", "gone"}
        /\ query[q].at = "scan" => f \in query[q].ids \cup query[q].missed \/ stage[f] = "gone"
        /\ query[q].at \in {"filter", "lock", "check", "read"} =>
              f \in query[q].ids \cup query[q].missed \cup query[q].files \/ Accounted(f)

OwedInv ==
    /\ \A f \in Files : stage[f] = "gone" => f \in made
    /\ \A q \in Queries : OwedBy(q)

\* The local files of a query: none of a table it saw in memory, and a listed
\* one only if it is excused or gone.
SeenBy(q) ==
    /\ query[q].files \subseteq made
    /\ \A f \in query[q].list : uploads[f] > 0
    /\ query[q].files \cap query[q].ids = {}
    /\ query[q].at \in {"mem", "imm", "scan"} => query[q].files = {}
    /\ query[q].at \in {"lock", "check"} =>
          \A f \in query[q].files \cap query[q].list : f \in query[q].over \/ f \notin disk
    /\ query[q].at = "read" => query[q].files \cap query[q].list \subseteq query[q].over

OnceInv == \A q \in Queries : SeenBy(q)

\* The queries that have a lock on f.
Lockers(f) == {q \in Queries : query[q].at \in {"check", "read"} /\ f \in query[q].files}

\* SEARCHING_FILES counts the locks, and a file about to be removed is locked
\* by nobody who came before the remover looked.
LockInv ==
    ~cleaned =>
        /\ \A f \in Files : searching[f] = Cardinality(Lockers(f))
        /\ \A f \in Files : Doomed(f) => \A q \in Lockers(f) : f \in query[q].late

IInv == TypeOK /\ MoverInv /\ OwedInv /\ OnceInv /\ LockInv

----------------------------------------------------------------------------
(* The mover                                                                *)

WkType ==
    [at : {"idle", "start", "drop", "merge", "list", "del", "mark", "rm", "pend", "unmark"},
     rest : SUBSET Files, chunk : SUBSET Files, file : Files \cup {None}]

ScanType ==
    [at : {"idle", "pend", "rm", "release", "forget", "wal", "meta"},
     todo : SUBSET Files, file : Files \cup {None}, batch : SUBSET Files]

\* The types that the proofs about the mover use.
Types ==
    /\ wk \in [Workers -> WkType] /\ scan \in ScanType
    /\ made \subseteq Files /\ disk \subseteq made /\ disk \subseteq Files
    /\ chan \subseteq Files /\ pending \subseteq Files /\ uploads \in [Files -> Nat]

\* They follow from the invariant of the mover.
LEMMA TypesFollow == MoverInv => Types
    BY DEF MoverInv, MoverTypeOK, Types, WkType, ScanType

\* prepare_files takes a file that it found unprocessed, if it still exists.
LEMMA PrepTakeFields ==
    ASSUME MoverInv, PrepTake
    PROVE  /\ UNCHANGED <<made, disk, pendingDb, uploads, unlisted, dropped, pending, removing,
                          searching, chan, wk, blamed, failures, crashes>>
           /\ scan.at = "meta" /\ scan.file \in Files /\ scan' \in ScanType
           /\ scan'.at = "wal" /\ scan'.file = None /\ scan'.todo = scan.todo
           /\ \/ /\ scan.file \in disk /\ processing' = processing \cup {scan.file}
                 /\ scan'.batch = scan.batch \cup {scan.file}
              \/ processing' = processing /\ scan'.batch = scan.batch
<1>0. scan \in ScanType /\ HandInv /\ made \subseteq Files
    BY TypesFollow DEF MoverInv, Types
<1>1. scan.at = "meta" /\ scan.file \in Files
    BY <1>0 DEF PrepTake, HandInv
<1>2. UNCHANGED <<made, disk, pendingDb, uploads, unlisted, dropped, pending, removing,
                  searching, chan, wk, blamed, failures, crashes>>
    BY DEF PrepTake, local, remote, bounds
<1>3. CASE scan.file \in disk
  <2>1. /\ processing' = processing \cup {scan.file}
        /\ scan' = [scan EXCEPT !.at = "wal", !.file = None, !.batch = @ \cup {scan.file}]
    BY <1>3 DEF PrepTake
  <2>2. /\ scan'.at = "wal" /\ scan'.file = None /\ scan'.todo = scan.todo
        /\ scan'.batch = scan.batch \cup {scan.file} /\ scan' \in ScanType
    BY <1>0, <1>1, <2>1 DEF ScanType
  <2> QED BY <1>1, <1>2, <1>3, <2>1, <2>2
<1>4. CASE scan.file \notin disk
  <2>1. processing' = processing /\ scan' = [scan EXCEPT !.at = "wal", !.file = None]
    BY <1>4 DEF PrepTake
  <2>2. /\ scan'.at = "wal" /\ scan'.file = None /\ scan'.todo = scan.todo
        /\ scan'.batch = scan.batch /\ scan' \in ScanType
    BY <1>0, <1>1, <2>1 DEF ScanType
  <2> QED BY <1>1, <1>2, <2>1, <2>2
<1> QED BY <1>3, <1>4

\* The scanning task and the workers stay well typed.
LEMMA ScanTyped == ASSUME MoverInv, MoverStep PROVE scan' \in ScanType
<1>0. Types /\ HandInv
    BY TypesFollow DEF MoverInv
<1> USE <1>0 DEF Types, HandInv, Asleep, ScanType
<1>1. CASE ScanPending
    BY <1>1 DEF ScanPending
<1>7. CASE ScanWal
    BY <1>7 DEF ScanWal
<1>9. CASE Send
    BY <1>9, MoverAssumption DEF Send
<1>2. CASE PendRemove \/ PendRemoveError \/ PendRelease
    BY <1>2 DEF PendRemove, PendRemoveError, PendRelease
<1>3. CASE PendForget \/ PendForgetError
    BY <1>3 DEF PendForget, PendForgetError
<1>4. CASE PrepTake
    BY <1>4, PrepTakeFields
<1>5. ASSUME NEW g \in Files, PendSkip(g) PROVE scan' \in ScanType
    BY <1>5 DEF PendSkip
<1>10. ASSUME NEW g \in Files, PendTake(g) PROVE scan' \in ScanType
    BY <1>10 DEF PendTake
<1>8. ASSUME NEW g \in Files, PrepCheck(g) PROVE scan' \in ScanType
    BY <1>8 DEF PrepCheck
<1>6. ASSUME NEW k \in Workers, \/ WorkerStep(k) \/ GiveUp(k) \/ Postpone(k) \/ MergeError(k)
                                \/ SetLost(k) \/ AddPendingError(k) \/ RemoveError(k)
                                \/ \E f \in Files : DropError(k, f)
      PROVE  scan' = scan
    BY <1>6 DEF WorkerStep, Recv, MergeMissing, Release, SetList, AddPending, MarkRemoving,
        RemoveFile, Unmark, NextChunk, Merge, Decide, DropFile, GiveUp, Postpone, MergeError,
        SetLost, AddPendingError, RemoveError, DropError
<1> QED BY <1>1, <1>2, <1>3, <1>4, <1>5, <1>6, <1>7, <1>8, <1>9, <1>10
    DEF MoverStep, ScanStep, MoverFault

\* The workers keep their types in every step of the mover.
LEMMA WorkersTyped == ASSUME MoverInv, MoverStep PROVE wk' \in [Workers -> WkType]
<1>0. Types
    BY TypesFollow DEF MoverInv
<1> USE <1>0 DEF Types, Idle, WkType
<1>1. CASE ScanStep \/ PendRemoveError \/ PendForgetError
  <2>1. wk' = wk
    BY <1>1 DEF ScanStep, ScanPending, PendRemove, PendRelease, PendForget, ScanWal, PrepTake,
        Send, PendSkip, PendTake, PrepCheck, PendRemoveError, PendForgetError
  <2> QED BY <2>1
<1>2. ASSUME NEW k \in Workers, Recv(k) PROVE wk' \in [Workers -> WkType]
    BY <1>2 DEF Recv
<1>10. ASSUME NEW k \in Workers, GiveUp(k) PROVE wk' \in [Workers -> WkType]
    BY <1>10 DEF GiveUp
<1>3. ASSUME NEW k \in Workers, Postpone(k) \/ MergeError(k) \/ MergeMissing(k)
      PROVE  wk' \in [Workers -> WkType]
    BY <1>3 DEF Postpone, MergeError, MergeMissing, Release
<1>4. ASSUME NEW k \in Workers, SetList(k) \/ SetLost(k) \/ AddPending(k) \/ AddPendingError(k)
      PROVE  wk' \in [Workers -> WkType]
    BY <1>4 DEF SetList, SetLost, AddPending, AddPendingError
<1>5. ASSUME NEW k \in Workers, MarkRemoving(k) \/ RemoveFile(k) \/ RemoveError(k)
      PROVE  wk' \in [Workers -> WkType]
    BY <1>5 DEF MarkRemoving, RemoveFile, RemoveError
<1>6. ASSUME NEW k \in Workers, Unmark(k) PROVE wk' \in [Workers -> WkType]
    BY <1>6 DEF Unmark
<1>11. ASSUME NEW k \in Workers, NextChunk(k) PROVE wk' \in [Workers -> WkType]
    BY <1>11 DEF NextChunk
<1>7. ASSUME NEW k \in Workers, NEW g \in Files, DropFile(k, g) \/ DropError(k, g)
      PROVE  wk' \in [Workers -> WkType]
    BY <1>7 DEF DropFile, DropError
<1>8. ASSUME NEW k \in Workers, NEW g \in Files, Decide(k, g) PROVE wk' \in [Workers -> WkType]
  <2>1. PICK a \in {"pend", "mark"} : wk' = [wk EXCEPT ![k] = [wk[k] EXCEPT !.file = g, !.at = a]]
    BY <1>8 DEF Decide
  <2> QED BY <2>1
<1>9. ASSUME NEW k \in Workers, NEW C \in SUBSET Files, Merge(k, C) PROVE wk' \in [Workers -> WkType]
    BY <1>9 DEF Merge
<1> QED BY <1>1, <1>2, <1>3, <1>4, <1>5, <1>6, <1>7, <1>8, <1>9, <1>10, <1>11
    DEF MoverStep, WorkerStep, MoverFault

\* A worker has the file it works on in its chunk.
LEMMA HandNext == ASSUME MoverInv, MoverStep PROVE HandInv'
<1>0. Types /\ HandInv
    BY TypesFollow DEF MoverInv
<1> USE <1>0 DEF Types
<1> USE DEF marks, local, remote, bounds, At, Idle, Asleep, WkType, ScanType, HandInv, Hand,
        Taken
<1>1. CASE ScanPending
    BY <1>1 DEF ScanPending
<1>2. CASE PendRemove
    BY <1>2 DEF PendRemove
<1>3. CASE PendRemoveError
    BY <1>3 DEF PendRemoveError, Failing
<1>4. CASE PendRelease
    BY <1>4 DEF PendRelease
<1>5. CASE PendForget
    BY <1>5 DEF PendForget
<1>6. CASE PendForgetError
    BY <1>6 DEF PendForgetError, Failing
<1>7. CASE ScanWal
    BY <1>7 DEF ScanWal
<1>8. CASE PrepTake
    BY <1>8, PrepTakeFields
<1>9. CASE Send
    BY <1>9 DEF Send
<1>10. ASSUME NEW g \in Files, PendSkip(g) PROVE HandInv'
    BY <1>10 DEF PendSkip
<1>11. ASSUME NEW g \in Files, PendTake(g) PROVE HandInv'
    BY <1>11 DEF PendTake
<1>12. ASSUME NEW g \in Files, PrepCheck(g) PROVE HandInv'
    BY <1>12 DEF PrepCheck
<1>13. ASSUME NEW k \in Workers, Recv(k) PROVE HandInv'
    BY <1>13 DEF Recv
<1>14. ASSUME NEW k \in Workers, GiveUp(k) PROVE HandInv'
    BY <1>14 DEF GiveUp
<1>15. ASSUME NEW k \in Workers, Postpone(k) PROVE HandInv'
    BY <1>15 DEF Postpone, Release, Failing
<1>16. ASSUME NEW k \in Workers, MergeError(k) PROVE HandInv'
    BY <1>16 DEF MergeError, Release, Failing
<1>17. ASSUME NEW k \in Workers, MergeMissing(k) PROVE HandInv'
    BY <1>17 DEF MergeMissing, Release
<1>18. ASSUME NEW k \in Workers, SetList(k) PROVE HandInv'
    BY <1>18 DEF SetList
<1>19. ASSUME NEW k \in Workers, SetLost(k) PROVE HandInv'
    BY <1>19 DEF SetLost, Failing
<1>20. ASSUME NEW k \in Workers, AddPending(k) PROVE HandInv'
    BY <1>20 DEF AddPending
<1>21. ASSUME NEW k \in Workers, AddPendingError(k) PROVE HandInv'
    BY <1>21 DEF AddPendingError, Failing
<1>22. ASSUME NEW k \in Workers, MarkRemoving(k) PROVE HandInv'
    BY <1>22 DEF MarkRemoving
<1>23. ASSUME NEW k \in Workers, RemoveFile(k) PROVE HandInv'
    BY <1>23 DEF RemoveFile
<1>24. ASSUME NEW k \in Workers, RemoveError(k) PROVE HandInv'
    BY <1>24 DEF RemoveError, Failing
<1>25. ASSUME NEW k \in Workers, Unmark(k) PROVE HandInv'
    BY <1>25 DEF Unmark
<1>26. ASSUME NEW k \in Workers, NextChunk(k) PROVE HandInv'
    BY <1>26 DEF NextChunk
<1>27. ASSUME NEW k \in Workers, NEW g \in Files, DropFile(k, g) PROVE HandInv'
    BY <1>27 DEF DropFile
<1>28. ASSUME NEW k \in Workers, NEW g \in Files, DropError(k, g) PROVE HandInv'
    BY <1>28 DEF DropError, Failing
<1>29. ASSUME NEW k \in Workers, NEW g \in Files, Decide(k, g) PROVE HandInv'
    BY <1>29 DEF Decide
<1>30. ASSUME NEW k \in Workers, NEW C \in SUBSET Files, Merge(k, C) PROVE HandInv'
    BY <1>30 DEF Merge
<1> QED BY <1>1, <1>2, <1>3, <1>4, <1>5, <1>6, <1>7, <1>8, <1>9, <1>10, <1>11, <1>12, <1>13,
        <1>14, <1>15, <1>16, <1>17, <1>18, <1>19, <1>20, <1>21, <1>22, <1>23, <1>24, <1>25,
        <1>26, <1>27, <1>28, <1>29, <1>30
    DEF MoverStep, ScanStep, WorkerStep, MoverFault

\* Only files that are listed, or lost their entry, are marked and removed.
LEMMA DoneNext == ASSUME MoverInv, MoverStep PROVE DoneInv'
<1>0. Types /\ HandInv /\ DoneInv
    BY TypesFollow DEF MoverInv
<1> USE <1>0 DEF Types
<1> USE DEF marks, local, remote, bounds, At, Idle, Asleep, WkType, ScanType, HandInv, Hand,
        Taken, DoneInv, Done, AfterList, RemovedIsListed
<1>1. CASE ScanPending
    BY <1>1 DEF ScanPending
<1>2. CASE PendRemove
    BY <1>2 DEF PendRemove
<1>3. CASE PendRemoveError
    BY <1>3 DEF PendRemoveError, Failing
<1>4. CASE PendRelease
    BY <1>4 DEF PendRelease
<1>5. CASE PendForget
    BY <1>5 DEF PendForget
<1>6. CASE PendForgetError
    BY <1>6 DEF PendForgetError, Failing
<1>7. CASE ScanWal
    BY <1>7 DEF ScanWal
<1>8. CASE PrepTake
    BY <1>8, PrepTakeFields
<1>9. CASE Send
    BY <1>9 DEF Send
<1>10. ASSUME NEW g \in Files, PendSkip(g) PROVE DoneInv'
    BY <1>10 DEF PendSkip
<1>11. ASSUME NEW g \in Files, PendTake(g) PROVE DoneInv'
    BY <1>11 DEF PendTake
<1>12. ASSUME NEW g \in Files, PrepCheck(g) PROVE DoneInv'
    BY <1>12 DEF PrepCheck
<1>13. ASSUME NEW k \in Workers, Recv(k) PROVE DoneInv'
    BY <1>13 DEF Recv
<1>14. ASSUME NEW k \in Workers, GiveUp(k) PROVE DoneInv'
    BY <1>14 DEF GiveUp
<1>15. ASSUME NEW k \in Workers, Postpone(k) PROVE DoneInv'
    BY <1>15 DEF Postpone, Release, Failing
<1>16. ASSUME NEW k \in Workers, MergeError(k) PROVE DoneInv'
    BY <1>16 DEF MergeError, Release, Failing
<1>17. ASSUME NEW k \in Workers, MergeMissing(k) PROVE DoneInv'
    BY <1>17 DEF MergeMissing, Release
<1>18. ASSUME NEW k \in Workers, SetList(k) PROVE DoneInv'
  <2>1. \A f \in Files : Done(f) => Done(f)'
    BY <1>18 DEF SetList
  <2>2. /\ wk'[k].at = "del" /\ wk'[k].chunk = wk[k].chunk /\ \A f \in wk[k].chunk : Done(f)'
        /\ \A l \in Workers \ {k} : wk'[l] = wk[l]
    BY <1>18 DEF SetList
  <2>3. RemovedIsListed'
    BY <1>18, <2>1 DEF SetList
  <2>4. pending \cup pendingDb \cup removing \cup blamed \subseteq Files
    BY DEF MoverInv, MoverTypeOK
  <2>5. UNCHANGED <<pending, pendingDb, removing, blamed, scan>>
    BY <1>18 DEF SetList
  <2> HIDE DEF Done, RemovedIsListed
  <2> QED BY <2>1, <2>2, <2>3, <2>4, <2>5
<1>19. ASSUME NEW k \in Workers, SetLost(k) PROVE DoneInv'
    BY <1>19 DEF SetLost, Failing
<1>20. ASSUME NEW k \in Workers, AddPending(k) PROVE DoneInv'
    BY <1>20 DEF AddPending
<1>21. ASSUME NEW k \in Workers, AddPendingError(k) PROVE DoneInv'
    BY <1>21 DEF AddPendingError, Failing
<1>22. ASSUME NEW k \in Workers, MarkRemoving(k) PROVE DoneInv'
    BY <1>22 DEF MarkRemoving
<1>23. ASSUME NEW k \in Workers, RemoveFile(k) PROVE DoneInv'
    BY <1>23 DEF RemoveFile
<1>24. ASSUME NEW k \in Workers, RemoveError(k) PROVE DoneInv'
    BY <1>24 DEF RemoveError, Failing
<1>25. ASSUME NEW k \in Workers, Unmark(k) PROVE DoneInv'
    BY <1>25 DEF Unmark
<1>26. ASSUME NEW k \in Workers, NextChunk(k) PROVE DoneInv'
    BY <1>26 DEF NextChunk
<1>27. ASSUME NEW k \in Workers, NEW g \in Files, DropFile(k, g) PROVE DoneInv'
    BY <1>27 DEF DropFile
<1>28. ASSUME NEW k \in Workers, NEW g \in Files, DropError(k, g) PROVE DoneInv'
    BY <1>28 DEF DropError, Failing
<1>29. ASSUME NEW k \in Workers, NEW g \in Files, Decide(k, g) PROVE DoneInv'
    BY <1>29 DEF Decide
<1>30. ASSUME NEW k \in Workers, NEW C \in SUBSET Files, Merge(k, C) PROVE DoneInv'
    BY <1>30 DEF Merge
<1> QED BY <1>1, <1>2, <1>3, <1>4, <1>5, <1>6, <1>7, <1>8, <1>9, <1>10, <1>11, <1>12, <1>13,
        <1>14, <1>15, <1>16, <1>17, <1>18, <1>19, <1>20, <1>21, <1>22, <1>23, <1>24, <1>25,
        <1>26, <1>27, <1>28, <1>29, <1>30
    DEF MoverStep, ScanStep, WorkerStep, MoverFault

\* A file is taken only when nobody has it: whoever has it has it marked, or
\* it is gone.
LEMMA OwnerNext == ASSUME MoverInv, MoverStep PROVE OwnerInv'
<1>0. Types /\ HandInv /\ OwnerInv /\ MarkInv
    BY TypesFollow DEF MoverInv
<1> USE <1>0 DEF Types
<1> USE DEF marks, local, remote, bounds, At, Idle, Asleep, WkType, ScanType, HandInv,
        OwnerInv, MarkInv, Hand, Taken
<1>1. CASE ScanPending
    BY <1>1 DEF ScanPending
<1>2. CASE PendRemove
    BY <1>2 DEF PendRemove
<1>3. CASE PendRemoveError
    BY <1>3 DEF PendRemoveError, Failing
<1>4. CASE PendRelease
    BY <1>4 DEF PendRelease
<1>5. CASE PendForget
    BY <1>5 DEF PendForget
<1>6. CASE PendForgetError
    BY <1>6 DEF PendForgetError, Failing
<1>7. CASE ScanWal
    BY <1>7 DEF ScanWal
<1>8. CASE PrepTake
    BY <1>8, PrepTakeFields
<1>9. CASE Send
    BY <1>9 DEF Send
<1>10. ASSUME NEW g \in Files, PendSkip(g) PROVE OwnerInv'
    BY <1>10 DEF PendSkip
<1>11. ASSUME NEW g \in Files, PendTake(g) PROVE OwnerInv'
    BY <1>11 DEF PendTake
<1>12. ASSUME NEW g \in Files, PrepCheck(g) PROVE OwnerInv'
    BY <1>12 DEF PrepCheck
<1>13. ASSUME NEW k \in Workers, Recv(k) PROVE OwnerInv'
    BY <1>13 DEF Recv
<1>14. ASSUME NEW k \in Workers, GiveUp(k) PROVE OwnerInv'
    BY <1>14 DEF GiveUp
<1>15. ASSUME NEW k \in Workers, Postpone(k) PROVE OwnerInv'
    BY <1>15 DEF Postpone, Release, Failing
<1>16. ASSUME NEW k \in Workers, MergeError(k) PROVE OwnerInv'
    BY <1>16 DEF MergeError, Release, Failing
<1>17. ASSUME NEW k \in Workers, MergeMissing(k) PROVE OwnerInv'
    BY <1>17 DEF MergeMissing, Release
<1>18. ASSUME NEW k \in Workers, SetList(k) PROVE OwnerInv'
    BY <1>18 DEF SetList
<1>19. ASSUME NEW k \in Workers, SetLost(k) PROVE OwnerInv'
    BY <1>19 DEF SetLost, Failing
<1>20. ASSUME NEW k \in Workers, AddPending(k) PROVE OwnerInv'
    BY <1>20 DEF AddPending
<1>21. ASSUME NEW k \in Workers, AddPendingError(k) PROVE OwnerInv'
    BY <1>21 DEF AddPendingError, Failing
<1>22. ASSUME NEW k \in Workers, MarkRemoving(k) PROVE OwnerInv'
    BY <1>22 DEF MarkRemoving
<1>23. ASSUME NEW k \in Workers, RemoveFile(k) PROVE OwnerInv'
    BY <1>23 DEF RemoveFile
<1>24. ASSUME NEW k \in Workers, RemoveError(k) PROVE OwnerInv'
    BY <1>24 DEF RemoveError, Failing
<1>25. ASSUME NEW k \in Workers, Unmark(k) PROVE OwnerInv'
    BY <1>25 DEF Unmark
<1>26. ASSUME NEW k \in Workers, NextChunk(k) PROVE OwnerInv'
    BY <1>26 DEF NextChunk
<1>27. ASSUME NEW k \in Workers, NEW g \in Files, DropFile(k, g) PROVE OwnerInv'
    BY <1>27 DEF DropFile
<1>28. ASSUME NEW k \in Workers, NEW g \in Files, DropError(k, g) PROVE OwnerInv'
    BY <1>28 DEF DropError, Failing
<1>29. ASSUME NEW k \in Workers, NEW g \in Files, Decide(k, g) PROVE OwnerInv'
    BY <1>29 DEF Decide
<1>30. ASSUME NEW k \in Workers, NEW C \in SUBSET Files, Merge(k, C) PROVE OwnerInv'
    BY <1>30 DEF Merge
<1> QED BY <1>1, <1>2, <1>3, <1>4, <1>5, <1>6, <1>7, <1>8, <1>9, <1>10, <1>11, <1>12, <1>13,
        <1>14, <1>15, <1>16, <1>17, <1>18, <1>19, <1>20, <1>21, <1>22, <1>23, <1>24, <1>25,
        <1>26, <1>27, <1>28, <1>29, <1>30
    DEF MoverStep, ScanStep, WorkerStep, MoverFault

\* A file loses its mark in PROCESSING_FILES when it is gone, or goes back
\* unlisted.
LEMMA MarkNext == ASSUME MoverInv, MoverStep PROVE MarkInv'
<1>0. Types /\ HandInv /\ OwnerInv /\ MarkInv /\ FreshInv
    BY TypesFollow DEF MoverInv
<1> USE <1>0 DEF Types
<1> USE DEF marks, local, remote, bounds, At, Idle, Asleep, WkType, ScanType, HandInv,
        OwnerInv, MarkInv, Hand, Taken, FreshInv
<1>1. CASE ScanPending
    BY <1>1 DEF ScanPending
<1>2. CASE PendRemove
    BY <1>2 DEF PendRemove
<1>3. CASE PendRemoveError
    BY <1>3 DEF PendRemoveError, Failing
<1>4. CASE PendRelease
    BY <1>4 DEF PendRelease
<1>5. CASE PendForget
    BY <1>5 DEF PendForget
<1>6. CASE PendForgetError
    BY <1>6 DEF PendForgetError, Failing
<1>7. CASE ScanWal
    BY <1>7 DEF ScanWal
<1>8. CASE PrepTake
    BY <1>8, PrepTakeFields
<1>9. CASE Send
    BY <1>9 DEF Send
<1>10. ASSUME NEW g \in Files, PendSkip(g) PROVE MarkInv'
    BY <1>10 DEF PendSkip
<1>11. ASSUME NEW g \in Files, PendTake(g) PROVE MarkInv'
    BY <1>11 DEF PendTake
<1>12. ASSUME NEW g \in Files, PrepCheck(g) PROVE MarkInv'
    BY <1>12 DEF PrepCheck
<1>13. ASSUME NEW k \in Workers, Recv(k) PROVE MarkInv'
    BY <1>13 DEF Recv
<1>14. ASSUME NEW k \in Workers, GiveUp(k) PROVE MarkInv'
    BY <1>14 DEF GiveUp
<1>15. ASSUME NEW k \in Workers, Postpone(k) PROVE MarkInv'
    BY <1>15 DEF Postpone, Release, Failing
<1>16. ASSUME NEW k \in Workers, MergeError(k) PROVE MarkInv'
    BY <1>16 DEF MergeError, Release, Failing
<1>17. ASSUME NEW k \in Workers, MergeMissing(k) PROVE MarkInv'
    BY <1>17 DEF MergeMissing, Release
<1>18. ASSUME NEW k \in Workers, SetList(k) PROVE MarkInv'
    BY <1>18 DEF SetList
<1>19. ASSUME NEW k \in Workers, SetLost(k) PROVE MarkInv'
    BY <1>19 DEF SetLost, Failing
<1>20. ASSUME NEW k \in Workers, AddPending(k) PROVE MarkInv'
    BY <1>20 DEF AddPending
<1>21. ASSUME NEW k \in Workers, AddPendingError(k) PROVE MarkInv'
    BY <1>21 DEF AddPendingError, Failing
<1>22. ASSUME NEW k \in Workers, MarkRemoving(k) PROVE MarkInv'
    BY <1>22 DEF MarkRemoving
<1>23. ASSUME NEW k \in Workers, RemoveFile(k) PROVE MarkInv'
    BY <1>23 DEF RemoveFile
<1>24. ASSUME NEW k \in Workers, RemoveError(k) PROVE MarkInv'
    BY <1>24 DEF RemoveError, Failing
<1>25. ASSUME NEW k \in Workers, Unmark(k) PROVE MarkInv'
    BY <1>25 DEF Unmark
<1>26. ASSUME NEW k \in Workers, NextChunk(k) PROVE MarkInv'
    BY <1>26 DEF NextChunk
<1>27. ASSUME NEW k \in Workers, NEW g \in Files, DropFile(k, g) PROVE MarkInv'
    BY <1>27 DEF DropFile
<1>28. ASSUME NEW k \in Workers, NEW g \in Files, DropError(k, g) PROVE MarkInv'
    BY <1>28 DEF DropError, Failing
<1>29. ASSUME NEW k \in Workers, NEW g \in Files, Decide(k, g) PROVE MarkInv'
    BY <1>29 DEF Decide
<1>30. ASSUME NEW k \in Workers, NEW C \in SUBSET Files, Merge(k, C) PROVE MarkInv'
    BY <1>30 DEF Merge
<1> QED BY <1>1, <1>2, <1>3, <1>4, <1>5, <1>6, <1>7, <1>8, <1>9, <1>10, <1>11, <1>12, <1>13,
        <1>14, <1>15, <1>16, <1>17, <1>18, <1>19, <1>20, <1>21, <1>22, <1>23, <1>24, <1>25,
        <1>26, <1>27, <1>28, <1>29, <1>30
    DEF MoverStep, ScanStep, WorkerStep, MoverFault

\* Only files without an entry are on their way to the file list.
LEMMA FreshNext == ASSUME MoverInv, MoverStep PROVE FreshInv'
<1>0. Types /\ HandInv /\ OwnerInv /\ MarkInv /\ FreshInv
    BY TypesFollow DEF MoverInv
<1> USE <1>0 DEF Types
<1> USE DEF marks, local, remote, bounds, At, Idle, Asleep, WkType, ScanType, HandInv,
        OwnerInv, MarkInv, Hand, Taken, FreshInv
<1>1. CASE ScanPending
    BY <1>1 DEF ScanPending
<1>2. CASE PendRemove
    BY <1>2 DEF PendRemove
<1>3. CASE PendRemoveError
    BY <1>3 DEF PendRemoveError, Failing
<1>4. CASE PendRelease
    BY <1>4 DEF PendRelease
<1>5. CASE PendForget
    BY <1>5 DEF PendForget
<1>6. CASE PendForgetError
    BY <1>6 DEF PendForgetError, Failing
<1>7. CASE ScanWal
    BY <1>7 DEF ScanWal
<1>8. CASE PrepTake
    BY <1>8, PrepTakeFields
<1>9. CASE Send
    BY <1>9 DEF Send
<1>10. ASSUME NEW g \in Files, PendSkip(g) PROVE FreshInv'
    BY <1>10 DEF PendSkip
<1>11. ASSUME NEW g \in Files, PendTake(g) PROVE FreshInv'
    BY <1>11 DEF PendTake
<1>12. ASSUME NEW g \in Files, PrepCheck(g) PROVE FreshInv'
    BY <1>12 DEF PrepCheck
<1>13. ASSUME NEW k \in Workers, Recv(k) PROVE FreshInv'
    BY <1>13 DEF Recv
<1>14. ASSUME NEW k \in Workers, GiveUp(k) PROVE FreshInv'
    BY <1>14 DEF GiveUp
<1>15. ASSUME NEW k \in Workers, Postpone(k) PROVE FreshInv'
    BY <1>15 DEF Postpone, Release, Failing
<1>16. ASSUME NEW k \in Workers, MergeError(k) PROVE FreshInv'
    BY <1>16 DEF MergeError, Release, Failing
<1>17. ASSUME NEW k \in Workers, MergeMissing(k) PROVE FreshInv'
    BY <1>17 DEF MergeMissing, Release
<1>18. ASSUME NEW k \in Workers, SetList(k) PROVE FreshInv'
    BY <1>18 DEF SetList
<1>19. ASSUME NEW k \in Workers, SetLost(k) PROVE FreshInv'
    BY <1>19 DEF SetLost, Failing
<1>20. ASSUME NEW k \in Workers, AddPending(k) PROVE FreshInv'
    BY <1>20 DEF AddPending
<1>21. ASSUME NEW k \in Workers, AddPendingError(k) PROVE FreshInv'
    BY <1>21 DEF AddPendingError, Failing
<1>22. ASSUME NEW k \in Workers, MarkRemoving(k) PROVE FreshInv'
    BY <1>22 DEF MarkRemoving
<1>23. ASSUME NEW k \in Workers, RemoveFile(k) PROVE FreshInv'
    BY <1>23 DEF RemoveFile
<1>24. ASSUME NEW k \in Workers, RemoveError(k) PROVE FreshInv'
    BY <1>24 DEF RemoveError, Failing
<1>25. ASSUME NEW k \in Workers, Unmark(k) PROVE FreshInv'
    BY <1>25 DEF Unmark
<1>26. ASSUME NEW k \in Workers, NextChunk(k) PROVE FreshInv'
    BY <1>26 DEF NextChunk
<1>27. ASSUME NEW k \in Workers, NEW g \in Files, DropFile(k, g) PROVE FreshInv'
    BY <1>27 DEF DropFile
<1>28. ASSUME NEW k \in Workers, NEW g \in Files, DropError(k, g) PROVE FreshInv'
    BY <1>28 DEF DropError, Failing
<1>29. ASSUME NEW k \in Workers, NEW g \in Files, Decide(k, g) PROVE FreshInv'
    BY <1>29 DEF Decide
<1>30. ASSUME NEW k \in Workers, NEW C \in SUBSET Files, Merge(k, C) PROVE FreshInv'
    BY <1>30 DEF Merge
<1> QED BY <1>1, <1>2, <1>3, <1>4, <1>5, <1>6, <1>7, <1>8, <1>9, <1>10, <1>11, <1>12, <1>13,
        <1>14, <1>15, <1>16, <1>17, <1>18, <1>19, <1>20, <1>21, <1>22, <1>23, <1>24, <1>25,
        <1>26, <1>27, <1>28, <1>29, <1>30
    DEF MoverStep, ScanStep, WorkerStep, MoverFault

\* A worker lets go of a listed file only when the file is gone or pending.
LEMMA HiddenNext == ASSUME MoverInv, MoverStep PROVE HiddenInv'
<1>0. Types /\ HandInv /\ OwnerInv /\ MarkInv /\ FreshInv /\ HiddenInv
    BY TypesFollow DEF MoverInv
<1> USE <1>0 DEF Types
<1> USE DEF marks, local, remote, bounds, At, Idle, Asleep, WkType, ScanType, HandInv,
        OwnerInv, MarkInv, Hand, Taken, FreshInv, HiddenInv, AfterList
<1>1. CASE ScanPending
    BY <1>1 DEF ScanPending
<1>2. CASE PendRemove
    BY <1>2 DEF PendRemove
<1>3. CASE PendRemoveError
    BY <1>3 DEF PendRemoveError, Failing
<1>4. CASE PendRelease
    BY <1>4 DEF PendRelease
<1>5. CASE PendForget
    BY <1>5 DEF PendForget
<1>6. CASE PendForgetError
    BY <1>6 DEF PendForgetError, Failing
<1>7. CASE ScanWal
    BY <1>7 DEF ScanWal
<1>8. CASE PrepTake
    BY <1>8, PrepTakeFields
<1>9. CASE Send
    BY <1>9 DEF Send
<1>10. ASSUME NEW g \in Files, PendSkip(g) PROVE HiddenInv'
    BY <1>10 DEF PendSkip
<1>11. ASSUME NEW g \in Files, PendTake(g) PROVE HiddenInv'
    BY <1>11 DEF PendTake
<1>12. ASSUME NEW g \in Files, PrepCheck(g) PROVE HiddenInv'
    BY <1>12 DEF PrepCheck
<1>13. ASSUME NEW k \in Workers, Recv(k) PROVE HiddenInv'
    BY <1>13 DEF Recv
<1>14. ASSUME NEW k \in Workers, GiveUp(k) PROVE HiddenInv'
    BY <1>14 DEF GiveUp
<1>15. ASSUME NEW k \in Workers, Postpone(k) PROVE HiddenInv'
    BY <1>15 DEF Postpone, Release, Failing
<1>16. ASSUME NEW k \in Workers, MergeError(k) PROVE HiddenInv'
    BY <1>16 DEF MergeError, Release, Failing
<1>17. ASSUME NEW k \in Workers, MergeMissing(k) PROVE HiddenInv'
    BY <1>17 DEF MergeMissing, Release
<1>18. ASSUME NEW k \in Workers, SetList(k) PROVE HiddenInv'
    BY <1>18 DEF SetList
<1>19. ASSUME NEW k \in Workers, SetLost(k) PROVE HiddenInv'
    BY <1>19 DEF SetLost, Failing
<1>20. ASSUME NEW k \in Workers, AddPending(k) PROVE HiddenInv'
    BY <1>20 DEF AddPending
<1>21. ASSUME NEW k \in Workers, AddPendingError(k) PROVE HiddenInv'
    BY <1>21 DEF AddPendingError, Failing
<1>22. ASSUME NEW k \in Workers, MarkRemoving(k) PROVE HiddenInv'
    BY <1>22 DEF MarkRemoving
<1>23. ASSUME NEW k \in Workers, RemoveFile(k) PROVE HiddenInv'
    BY <1>23 DEF RemoveFile
<1>24. ASSUME NEW k \in Workers, RemoveError(k) PROVE HiddenInv'
    BY <1>24 DEF RemoveError, Failing
<1>25. ASSUME NEW k \in Workers, Unmark(k) PROVE HiddenInv'
    BY <1>25 DEF Unmark
<1>26. ASSUME NEW k \in Workers, NextChunk(k) PROVE HiddenInv'
    BY <1>26 DEF NextChunk
<1>27. ASSUME NEW k \in Workers, NEW g \in Files, DropFile(k, g) PROVE HiddenInv'
    BY <1>27 DEF DropFile
<1>28. ASSUME NEW k \in Workers, NEW g \in Files, DropError(k, g) PROVE HiddenInv'
    BY <1>28 DEF DropError, Failing
<1>29. ASSUME NEW k \in Workers, NEW g \in Files, Decide(k, g) PROVE HiddenInv'
    BY <1>29 DEF Decide
<1>30. ASSUME NEW k \in Workers, NEW C \in SUBSET Files, Merge(k, C) PROVE HiddenInv'
    BY <1>30 DEF Merge
<1> QED BY <1>1, <1>2, <1>3, <1>4, <1>5, <1>6, <1>7, <1>8, <1>9, <1>10, <1>11, <1>12, <1>13,
        <1>14, <1>15, <1>16, <1>17, <1>18, <1>19, <1>20, <1>21, <1>22, <1>23, <1>24, <1>25,
        <1>26, <1>27, <1>28, <1>29, <1>30
    DEF MoverStep, ScanStep, WorkerStep, MoverFault

\* A step of the mover only adds to the file list and what is given up, and
\* only takes files from the disk; the queries' locks it leaves alone.
LEMMA MoverFrame ==
    ASSUME MoverInv, MoverStep
    PROVE  /\ made' = made /\ searching' = searching /\ disk' \subseteq disk
           /\ uploads' \in [Files -> Nat] /\ \A f \in Files : uploads[f] <= uploads'[f]
           /\ unlisted \subseteq unlisted' /\ dropped \subseteq dropped'
<1>0. Types
    BY TypesFollow
<1> USE <1>0 DEF Types, local, remote
<1>1. CASE ScanStep \/ PendRemoveError \/ PendForgetError
  <2>1. UNCHANGED <<made, searching, uploads, unlisted, dropped>>
    BY <1>1 DEF ScanStep, ScanPending, PendRemove, PendRelease, PendForget, ScanWal, PrepTake,
        Send, PendSkip, PendTake, PrepCheck, PendRemoveError, PendForgetError
  <2>2. disk' \subseteq disk
    BY <1>1 DEF ScanStep, ScanPending, PendRemove, PendRelease, PendForget, ScanWal, PrepTake,
        Send, PendSkip, PendTake, PrepCheck, PendRemoveError, PendForgetError
  <2> QED BY <2>1, <2>2
<1>2. ASSUME NEW k \in Workers, SetList(k)
      PROVE  /\ UNCHANGED <<made, searching, disk, unlisted, dropped>>
             /\ uploads' \in [Files -> Nat] /\ \A f \in Files : uploads[f] <= uploads'[f]
    BY <1>2 DEF SetList
<1>3. ASSUME NEW k \in Workers, \/ WorkerStep(k) /\ ~ SetList(k)
                                \/ GiveUp(k) \/ Postpone(k) \/ MergeError(k)
                                \/ SetLost(k) \/ AddPendingError(k) \/ RemoveError(k)
                                \/ \E f \in Files : DropError(k, f)
      PROVE  /\ UNCHANGED <<made, searching, uploads>>
             /\ disk' \subseteq disk /\ unlisted \subseteq unlisted' /\ dropped \subseteq dropped'
    BY <1>3 DEF WorkerStep, Recv, MergeMissing, Release, AddPending, MarkRemoving,
        RemoveFile, Unmark, NextChunk, Merge, Decide, DropFile, GiveUp, Postpone, MergeError,
        SetLost, AddPendingError, RemoveError, DropError
<1> QED BY <1>1, <1>2, <1>3 DEF MoverStep, MoverFault

\* The rest of the state stays well typed too.
LEMMA MoverTyped == ASSUME MoverInv, MoverStep PROVE MoverTypeOK'
<1>0. Types /\ HandInv
    BY TypesFollow DEF MoverInv
<1> USE DEF Types
<1>1. /\ pendingDb' \subseteq Files /\ unlisted' \subseteq Files /\ dropped' \subseteq Files
      /\ processing' \subseteq Files /\ pending' \subseteq Files /\ removing' \subseteq Files
      /\ chan' \subseteq Files /\ blamed' \subseteq Files
  <2>0. /\ pendingDb \subseteq Files /\ unlisted \subseteq Files /\ dropped \subseteq Files
        /\ processing \subseteq Files /\ removing \subseteq Files /\ blamed \subseteq Files
        /\ scan.batch \subseteq Files
        /\ \A k \in Workers : wk[k].chunk \subseteq Files /\ wk[k].rest \subseteq Files
        /\ \A k \in Workers : wk[k].at \in {"mark", "rm", "pend", "unmark"} => wk[k].file \in Files
        /\ scan.at \in {"rm", "release", "forget", "meta"} => scan.file \in Files
    BY <1>0 DEF MoverInv, MoverTypeOK, WkType, ScanType, HandInv
  <2> USE <1>0, <2>0 DEF local, remote, marks, bounds, At
  <2>1. CASE PrepTake
    BY <2>1, PrepTakeFields
  <2>2. CASE PendRemove \/ PendRelease \/ PendForget \/ Send \/ PendRemoveError \/ PendForgetError
    BY <2>2 DEF PendRemove, PendRelease, PendForget, Send, PendRemoveError, PendForgetError
  <2>3. CASE ScanPending \/ ScanWal \/ \E f \in Files : PendSkip(f) \/ PendTake(f) \/ PrepCheck(f)
    BY <2>3 DEF ScanPending, ScanWal, PendSkip, PendTake, PrepCheck
  <2>4. ASSUME NEW k \in Workers, \/ Recv(k) \/ MergeMissing(k) \/ Postpone(k) \/ MergeError(k)
                                  \/ \E f \in Files : DropFile(k, f) \/ DropError(k, f)
        PROVE  /\ UNCHANGED <<pendingDb, unlisted, pending, removing, blamed>>
               /\ dropped' \subseteq Files /\ processing' \subseteq Files /\ chan' \subseteq Files
    BY <2>4 DEF Recv, MergeMissing, Postpone, MergeError, Release, DropFile, DropError
  <2>5. ASSUME NEW k \in Workers, \/ AddPending(k) \/ AddPendingError(k) \/ MarkRemoving(k)
                                  \/ RemoveFile(k) \/ Unmark(k) \/ SetLost(k) \/ SetList(k)
        PROVE  /\ UNCHANGED <<dropped, chan>>
               /\ pendingDb' \subseteq Files /\ unlisted' \subseteq Files
               /\ processing' \subseteq Files /\ pending' \subseteq Files
               /\ removing' \subseteq Files /\ blamed' \subseteq Files
    BY <2>5 DEF AddPending, AddPendingError, MarkRemoving, RemoveFile, Unmark, SetLost, SetList
  <2>6. ASSUME NEW k \in Workers, \/ GiveUp(k) \/ RemoveError(k) \/ NextChunk(k)
                                  \/ \E C \in SUBSET Files : Merge(k, C)
                                  \/ \E f \in Files : Decide(k, f)
        PROVE  UNCHANGED <<pendingDb, unlisted, dropped, processing, pending, removing, chan, blamed>>
    BY <2>6 DEF GiveUp, RemoveError, NextChunk, Merge, Decide
  <2> QED BY <2>1, <2>2, <2>3, <2>4, <2>5, <2>6 DEF MoverStep, ScanStep, WorkerStep, MoverFault
<1>2. failures' \in 0..MaxFail /\ crashes' \in 0..MaxCrash
  <2>1. crashes' = crashes /\ (failures' = failures \/ (failures < MaxFail /\ failures' = failures + 1))
    <3>1. CASE ScanStep \/ \E k \in Workers : WorkerStep(k)
        BY <3>1 DEF ScanStep, WorkerStep, bounds, ScanPending, PendRemove, PendRelease, PendForget,
            ScanWal, PrepTake, Send, PendSkip, PendTake, PrepCheck, Recv, MergeMissing, SetList,
            AddPending, MarkRemoving, RemoveFile, Unmark, NextChunk, Merge, Decide, DropFile
    <3>2. CASE MoverFault
        BY <3>2 DEF MoverFault, PendRemoveError, PendForgetError, GiveUp, Postpone, MergeError,
            SetLost, AddPendingError, RemoveError, DropError, Failing, bounds
    <3> QED BY <3>1, <3>2 DEF MoverStep
  <2> QED BY <2>1, MoverAssumption DEF MoverInv, MoverTypeOK
<1>3. made' \subseteq Files /\ disk' \subseteq made' /\ searching' \in [Files -> Nat]
    BY <1>0, MoverFrame DEF MoverInv, MoverTypeOK
<1>4. /\ uploads' \in [Files -> Nat] /\ scan' \in ScanType /\ wk' \in [Workers -> WkType]
    BY MoverFrame, ScanTyped, WorkersTyped
<1> QED BY <1>1, <1>2, <1>3, <1>4 DEF MoverTypeOK, ScanType, WkType

\* A step of the mover keeps what the mover relies on.
LEMMA MoverStepOK == ASSUME MoverInv, MoverStep PROVE MoverInv'
<1> QED BY MoverTyped, HandNext, DoneNext, OwnerNext, MarkNext, FreshNext, HiddenNext DEF MoverInv

\* So does a kill: what is listed, on disk and not in the local database of
\* pending deletions is what the properties make an exception of.
LEMMA MoverCrashOK == ASSUME MoverInv, MoverCrash PROVE MoverInv'
<1>0. Types
    BY TypesFollow
<1> USE <1>0 DEF Types, MoverCrash, local, remote
<1>1. MoverTypeOK'
    BY MoverAssumption DEF MoverInv, MoverTypeOK, Asleep, Idle
<1>2. HandInv'
    BY DEF MoverInv, HandInv, Hand, Taken, Asleep, Idle
<1>7. DoneInv'
    BY DEF MoverInv, DoneInv, RemovedIsListed, Done, Asleep, Idle, AfterList
<1>3. OwnerInv'
    BY DEF OwnerInv, Hand, Taken, Asleep, Idle
<1>4. \A f \in Files \ blamed' : f \notin blamed /\ (f \in disk /\ uploads[f] > 0 => f \in pendingDb)
    BY DEF Done
<1>5. MarkInv' /\ HiddenInv'
    BY <1>4 DEF MarkInv, HiddenInv, Hand, Taken, Asleep, Idle
<1>6. FreshInv'
    BY <1>4 DEF MoverInv, FreshInv, Taken, Asleep, Idle
<1> QED BY <1>1, <1>2, <1>3, <1>5, <1>6, <1>7 DEF MoverInv


\* And the file that a persist call finishes: nobody has it.
LEMMA ArriveOK == ASSUME MoverInv, NEW f \in Files, Arrive(f) PROVE MoverInv'
<1>0. Types
    BY TypesFollow
<1>1. /\ f \notin made /\ made' = made \cup {f} /\ disk' = disk \cup {f}
      /\ UNCHANGED <<pendingDb, uploads, unlisted, dropped, processing, pending, removing, searching,
                     scan, chan, wk, blamed, failures, crashes>>
    BY DEF Arrive, remote, marks, bounds
<1>2. /\ f \notin Taken /\ uploads[f] = 0 /\ \A k \in Workers : f \notin Hand(k)
      /\ scan.at \in {"rm", "release", "forget", "meta"} => scan.file # f
      /\ \A k \in Workers : wk[k].at = "unmark" => wk[k].file # f
    BY <1>1 DEF MoverInv, HandInv, Hand
<1>3. MoverTypeOK'
    BY <1>1 DEF MoverInv, MoverTypeOK
<1>4. HandInv'
    BY <1>1 DEF MoverInv, HandInv, Hand, Taken
<1>5. DoneInv'
    BY <1>1 DEF MoverInv, DoneInv, RemovedIsListed, Done
<1>6. OwnerInv' /\ FreshInv'
    BY <1>1 DEF MoverInv, OwnerInv, FreshInv, Hand, Taken
<1>7. MarkInv'
    BY <1>1, <1>2 DEF MoverInv, MarkInv, Hand, Taken
<1>8. HiddenInv'
    BY <1>0, <1>1, <1>2 DEF MoverInv, HiddenInv, Types
<1> QED BY <1>3, <1>4, <1>5, <1>6, <1>7, <1>8 DEF MoverInv

\* Nothing of this depends on more than the state of the mover, nor on the
\* number of locks.
LEMMA MoverStays ==
    ASSUME MoverInv, searching' \in [Files -> Nat], failures' \in 0..MaxFail,
           UNCHANGED <<made, disk, pendingDb, uploads, unlisted, dropped, processing, pending, removing,
                       scan, chan, wk, blamed, crashes>>
    PROVE  MoverInv'
<1>1. MoverTypeOK' /\ HandInv' /\ DoneInv'
    BY DEF MoverInv, MoverTypeOK, HandInv, DoneInv, Hand, Taken, Done, RemovedIsListed
<1>2. OwnerInv' /\ MarkInv' /\ FreshInv' /\ HiddenInv'
    BY DEF MoverInv, OwnerInv, MarkInv, FreshInv, HiddenInv, Hand, Taken
<1> QED BY <1>1, <1>2 DEF MoverInv

----------------------------------------------------------------------------
(* The queries, while the mover moves                                       *)

QueryType ==
    [at : {"idle", "mem", "imm", "scan", "filter", "lock", "check", "read"},
     owed : SUBSET Files, list : SUBSET Files, ids : SUBSET Files, missed : SUBSET Files,
     files : SUBSET Files, over : SUBSET Files, late : SUBSET Files]

\* A file becomes doomed only while nobody has it locked.
LEMMA DoomedNext ==
    ASSUME MoverInv, MoverStep, NEW f \in Files
    PROVE  Doomed(f)' => Doomed(f) \/ ~ Locked(f)
<1>0. Types
    BY TypesFollow
<1> USE <1>0 DEF Types, Doomed, WkType, ScanType
<1>1. CASE ScanPending \/ ScanWal \/ Send
  <2>1. wk' = wk
    BY <1>1 DEF ScanPending, ScanWal, Send
  <2>2. scan' = [Asleep EXCEPT !.at = "pend", !.todo = pending] => scan'.at # "rm"
    BY DEF Asleep
  <2>3. scan' = [Asleep EXCEPT !.at = "wal", !.todo = disk] => scan'.at # "rm"
    BY DEF Asleep
  <2>4. scan' = Asleep => scan'.at # "rm"
    BY DEF Asleep
  <2>5. scan'.at # "rm"
    BY <1>1, <2>2, <2>3, <2>4 DEF ScanPending, ScanWal, Send
  <2> QED BY <2>1, <2>5
<1>2. CASE PendRemove \/ PendRemoveError \/ PendRelease
    BY <1>2 DEF PendRemove, PendRemoveError, PendRelease
<1>3. CASE PendForget \/ PendForgetError
    BY <1>3 DEF PendForget, PendForgetError
<1>4. CASE PrepTake
    BY <1>4, PrepTakeFields
<1>5. ASSUME NEW g \in Files, PendSkip(g) \/ PrepCheck(g) PROVE Doomed(f)' => Doomed(f)
    BY <1>5 DEF PendSkip, PrepCheck
<1>6. ASSUME NEW g \in Files, PendTake(g) PROVE Doomed(f)' => Doomed(f) \/ ~ Locked(f)
    BY <1>6 DEF PendTake
<1>7. ASSUME NEW k \in Workers, Recv(k) PROVE Doomed(f)' => Doomed(f)
    BY <1>7 DEF Recv, Idle
<1>15. ASSUME NEW k \in Workers, GiveUp(k) PROVE Doomed(f)' => Doomed(f)
    BY <1>15 DEF GiveUp
<1>8. ASSUME NEW k \in Workers, Postpone(k) \/ MergeError(k) \/ MergeMissing(k)
      PROVE  Doomed(f)' => Doomed(f)
    BY <1>8 DEF Postpone, MergeError, MergeMissing, Release, Idle
<1>9. ASSUME NEW k \in Workers, SetList(k) \/ SetLost(k) \/ AddPending(k) \/ AddPendingError(k)
      PROVE  Doomed(f)' => Doomed(f)
    BY <1>9 DEF SetList, SetLost, AddPending, AddPendingError
<1>10. ASSUME NEW k \in Workers, MarkRemoving(k) \/ RemoveFile(k) \/ RemoveError(k)
       PROVE  Doomed(f)' => Doomed(f)
    BY <1>10 DEF MarkRemoving, RemoveFile, RemoveError, At
<1>11. ASSUME NEW k \in Workers, Unmark(k) PROVE Doomed(f)' => Doomed(f)
    BY <1>11 DEF Unmark
<1>16. ASSUME NEW k \in Workers, NextChunk(k) PROVE Doomed(f)' => Doomed(f)
    BY <1>16 DEF NextChunk, Idle
<1>12. ASSUME NEW k \in Workers, NEW g \in Files, DropFile(k, g) \/ DropError(k, g)
       PROVE  Doomed(f)' => Doomed(f)
    BY <1>12 DEF DropFile, DropError
<1>13. ASSUME NEW k \in Workers, NEW g \in Files, Decide(k, g)
       PROVE  Doomed(f)' => Doomed(f) \/ ~ Locked(f)
    BY <1>13 DEF Decide
<1>14. ASSUME NEW k \in Workers, NEW C \in SUBSET Files, Merge(k, C) PROVE Doomed(f)' => Doomed(f)
    BY <1>14 DEF Merge
<1> QED BY <1>1, <1>2, <1>3, <1>4, <1>5, <1>6, <1>7, <1>8, <1>9, <1>10, <1>11, <1>12, <1>13, <1>14,
        <1>15, <1>16
    DEF MoverStep, ScanStep, WorkerStep, MoverFault

\* A step of the mover takes a file from the disk only if it was doomed, or is
\* given up.
LEMMA RemovalNext ==
    ASSUME MoverInv, MoverStep, NEW f \in disk \ disk'
    PROVE  Doomed(f) \/ f \in dropped'
<1>1. CASE ScanStep \/ PendRemoveError \/ PendForgetError
    BY <1>1 DEF ScanStep, ScanPending, PendRemove, PendRelease, PendForget, ScanWal, PrepTake,
        Send, PendSkip, PendTake, PrepCheck, PendRemoveError, PendForgetError, local, Doomed
<1>2. ASSUME NEW k \in Workers, RemoveFile(k) PROVE Doomed(f)
    BY <1>2 DEF RemoveFile, Doomed, At
<1>3. ASSUME NEW k \in Workers, NEW g \in Files, DropFile(k, g) PROVE f \in dropped'
    BY <1>3 DEF DropFile
<1>4. ASSUME NEW k \in Workers, \/ WorkerStep(k) /\ ~ RemoveFile(k)
                                   /\ ~ \E g \in Files : DropFile(k, g)
                                \/ GiveUp(k) \/ Postpone(k) \/ MergeError(k)
                                \/ SetLost(k) \/ AddPendingError(k) \/ RemoveError(k)
                                \/ \E g \in Files : DropError(k, g)
      PROVE  disk' = disk
    BY <1>4 DEF WorkerStep, Recv, MergeMissing, Release, AddPending, MarkRemoving, SetList,
        Unmark, NextChunk, Merge, Decide, GiveUp, Postpone, MergeError,
        SetLost, AddPendingError, RemoveError, DropError, local
<1> QED BY <1>1, <1>2, <1>3, <1>4 DEF MoverStep, MoverFault

\* Nobody has a lock on a file that counts none.
LEMMA NoLockers ==
    ASSUME IInv, ~ cleaned, NEW f \in Files, ~ Locked(f)
    PROVE  Lockers(f) = {}
<1>1. Lockers(f) \in SUBSET Queries
    BY DEF Lockers
<1>2. IsFiniteSet(Lockers(f))
    BY <1>1, QueriesFinite, FS_Subset
<1>3. searching[f] \in Nat /\ searching[f] = Cardinality(Lockers(f))
    BY DEF IInv, MoverInv, MoverTypeOK, LockInv
<1>4. Cardinality(Lockers(f)) = 0
    BY <1>3 DEF Locked
<1> QED BY <1>2, <1>4, FS_EmptySet

\* The queries are not disturbed by a step of the mover.
LEMMA MoverNext == ASSUME IInv, MoverStep, UNCHANGED qvars PROVE IInv'
<1>0. MoverInv /\ TypeOK
    BY DEF IInv
<1>1. /\ stage' = stage /\ query' = query /\ cleaned' = cleaned
      /\ stage \in [Files -> Stages] /\ query \in [Queries -> QueryType] /\ cleaned \in BOOLEAN
    BY <1>0 DEF qvars, TypeOK, QueryType
<1>2. MoverInv'
    BY <1>0, MoverStepOK
<1>3. /\ made' = made /\ searching' = searching /\ disk' \subseteq disk
      /\ \A f \in Files : uploads[f] > 0 => uploads'[f] > 0
      /\ \A f \in Files : Accounted(f) => Accounted(f)'
  <2>1. /\ made' = made /\ searching' = searching /\ disk' \subseteq disk
        /\ uploads' \in [Files -> Nat] /\ \A f \in Files : uploads[f] <= uploads'[f]
        /\ unlisted \subseteq unlisted' /\ dropped \subseteq dropped'
    BY <1>0, MoverFrame
  <2>2. \A f \in Files : uploads[f] > 0 => uploads'[f] > 0
    BY <1>0, <2>1, TypesFollow DEF Types
  <2> QED BY <2>1, <2>2 DEF Accounted, Done
<1>4. TypeOK'
    BY <1>1, <1>2 DEF TypeOK, MoverInv, QueryType
<1>5. \A q \in Queries : /\ query[q].owed \subseteq Files /\ query[q].list \subseteq Files
                         /\ query[q].files \subseteq Files
    BY <1>1 DEF QueryType
<1>6. OwedInv'
    BY <1>1, <1>3, <1>5 DEF IInv, OwedInv, OwedBy
<1>7. OnceInv'
    BY <1>1, <1>3, <1>5 DEF IInv, OnceInv, SeenBy
<1>8. LockInv'
  <2> SUFFICES ASSUME ~ cleaned, NEW f \in Files
               PROVE  /\ searching'[f] = Cardinality(Lockers(f)')
                      /\ Doomed(f)' => \A q \in Lockers(f)' : f \in query'[q].late
    BY <1>1 DEF LockInv
  <2>1. Lockers(f)' = Lockers(f)
    BY <1>1 DEF Lockers
  <2>2. Doomed(f)' => Doomed(f) \/ Lockers(f) = {}
    BY <1>0, DoomedNext, NoLockers
  <2> QED BY <1>1, <1>3, <2>1, <2>2 DEF IInv, LockInv
<1> QED BY <1>2, <1>4, <1>6, <1>7, <1>8 DEF IInv

----------------------------------------------------------------------------
(* Tables and queries                                                       *)

\* The steps of a table: what a query owes is where it was, or one place on.
LEMMA TableNext ==
    ASSUME IInv, NEW f \in Files, Write(f) \/ Swap(f) \/ Insert(f) \/ Finish(f)
    PROVE  IInv'
<1>1. /\ stage \in [Files -> Stages] /\ query \in [Queries -> QueryType] /\ cleaned \in BOOLEAN
      /\ MoverInv /\ MoverTypeOK
    BY DEF IInv, TypeOK, QueryType
<1>2. /\ query' = query /\ cleaned' = cleaned /\ UNCHANGED mvars
      /\ \/ stage[f] = "none" /\ stage' = [stage EXCEPT ![f] = "active"]
         \/ stage[f] = "active" /\ stage' = [stage EXCEPT ![f] = "swapped"]
         \/ stage[f] = "swapped" /\ stage' = [stage EXCEPT ![f] = "immutable"]
         \/ stage[f] = "immutable" /\ f \in made /\ stage' = [stage EXCEPT ![f] = "gone"]
    BY DEF Write, Swap, Insert, Finish
<1>3. UNCHANGED <<made, disk, pendingDb, uploads, unlisted, dropped, processing, pending, removing,
                  searching, scan, chan, wk, blamed, failures, crashes>>
    BY <1>2 DEF mvars, local, remote, marks, bounds
<1>4. MoverInv'
    BY <1>1, <1>3, MoverStays DEF MoverTypeOK
<1>5. TypeOK'
    BY <1>1, <1>2, <1>4 DEF TypeOK, MoverInv, QueryType, Stages
<1>6. OwedInv'
  <2>1. \A g \in Files : Accounted(g)' <=> Accounted(g)
    BY <1>3 DEF Accounted, Done
  <2>2. /\ \A g \in Files : g # f => stage'[g] = stage[g]
        /\ stage'[f] \in {"active", "swapped", "immutable", "gone"}
        /\ stage[f] \in {"swapped", "immutable", "replay", "gone"} =>
              stage'[f] \in {"swapped", "immutable", "replay", "gone"}
        /\ stage[f] # "gone" /\ (stage'[f] = "gone" => f \in made)
    BY <1>1, <1>2
  <2>3. \A q \in Queries : query[q].owed \subseteq Files
    BY <1>1 DEF QueryType
  <2> QED BY <1>2, <1>3, <2>1, <2>2, <2>3 DEF IInv, OwedInv, OwedBy
<1>7. OnceInv' /\ LockInv'
    BY <1>2, <1>3 DEF IInv, OnceInv, SeenBy, LockInv, Lockers, Doomed
<1> QED BY <1>4, <1>5, <1>6, <1>7 DEF IInv

\* A table's file is finished: no query has seen a file of that name.
LEMMA DumpNext == ASSUME IInv, NEW f \in Files, Dump(f) PROVE IInv'
<1>1. /\ stage \in [Files -> Stages] /\ query \in [Queries -> QueryType] /\ cleaned \in BOOLEAN
      /\ MoverInv /\ MoverTypeOK
    BY DEF IInv, TypeOK, QueryType
<1>2. /\ query' = query /\ cleaned' = cleaned /\ Arrive(f)
      /\ stage' \in [Files -> Stages]
      /\ \A g \in Files : g # f => stage'[g] = stage[g]
      /\ stage'[f] = stage[f] \/ (stage[f] = "replay" /\ stage'[f] = "gone")
    BY <1>1 DEF Dump, Stages
<1>3. /\ f \notin made /\ made' = made \cup {f} /\ disk' = disk \cup {f}
      /\ UNCHANGED <<uploads, unlisted, dropped, searching, scan, wk>>
    BY <1>2 DEF Arrive, remote
<1>4. MoverInv'
    BY <1>1, <1>2, ArriveOK
<1>5. TypeOK'
    BY <1>1, <1>2, <1>4 DEF TypeOK, MoverInv, QueryType
<1>6. OwedInv'
  <2>1. \A g \in Files : Accounted(g)' <=> Accounted(g)
    BY <1>3 DEF Accounted, Done
  <2>2. \A q \in Queries : query[q].owed \subseteq Files
    BY <1>1 DEF QueryType
  <2> QED BY <1>2, <1>3, <2>1, <2>2 DEF IInv, OwedInv, OwedBy
<1>7. OnceInv'
    BY <1>2, <1>3 DEF IInv, OnceInv, SeenBy
<1>8. LockInv'
    BY <1>2, <1>3 DEF IInv, LockInv, Lockers, Doomed
<1> QED BY <1>4, <1>5, <1>6, <1>7, <1>8 DEF IInv

\* A query looks: at the list, the memtable, IMMUTABLES, the directory, the sets.
LEMMA LookNext ==
    ASSUME IInv, NEW q \in Queries,
           QList(q) \/ QMem(q) \/ QImm(q) \/ QReadError(q) \/ QScan(q) \/ QFilter(q)
    PROVE  IInv'
<1>1. /\ stage \in [Files -> Stages] /\ query \in [Queries -> QueryType] /\ cleaned \in BOOLEAN
      /\ MoverInv /\ MoverTypeOK /\ Types /\ blamed \subseteq Files
    BY TypesFollow DEF IInv, TypeOK, QueryType, MoverTypeOK
<1>2. /\ stage' = stage /\ cleaned' = cleaned
      /\ UNCHANGED <<made, disk, pendingDb, uploads, unlisted, dropped, processing, pending, removing,
                     searching, scan, chan, wk, blamed, crashes>>
      /\ failures' \in 0..MaxFail
  <2>1. failures \in 0..MaxFail
    BY <1>1 DEF MoverTypeOK
  <2>2. CASE QReadError(q)
    BY <2>1, <2>2, MoverAssumption DEF QReadError, Failing, Goto, local, remote, marks
  <2>3. CASE ~ QReadError(q)
    BY <2>1, <2>3 DEF QList, QMem, QImm, QScan, QFilter, Goto, mvars, local, remote, marks, bounds
  <2> QED BY <2>2, <2>3
<1>3. MoverInv'
    BY <1>1, <1>2, MoverStays DEF MoverTypeOK
<1>4. \A f \in Files : Accounted(f)' <=> Accounted(f)
    BY <1>2 DEF Accounted, Done
<1>5. OwedBy(q) /\ SeenBy(q) /\ \A f \in Files : stage[f] = "gone" => f \in made
    BY DEF IInv, OwedInv, OnceInv
<1>6. /\ query[q].at \in {"idle", "mem", "imm", "scan", "filter"}
      /\ query'[q].at \in {"mem", "imm", "scan", "filter", "lock"}
      /\ query' \in [Queries -> QueryType] /\ \A p \in Queries \ {q} : query'[p] = query[p]
      /\ OwedBy(q)' /\ SeenBy(q)'
  <2>1. CASE QList(q)
    <3>1. query[q].at = "idle" /\ query' \in [Queries -> QueryType]
          /\ query'[q].at = "mem" /\ query'[q].owed = {f \in Files : stage[f] # "none"}
          /\ query'[q].list = {f \in Files : uploads[f] > 0} /\ query'[q].ids = {}
          /\ query'[q].missed = {} /\ query'[q].files = {}
          /\ query'[q].over = {} /\ query'[q].late = {}
          /\ \A p \in Queries \ {q} : query'[p] = query[p]
        BY <1>1, <2>1 DEF QList, Goto, QueryType, Types, NoQuery
    <3>2. OwedBy(q)'
        BY <1>1, <1>2, <1>5, <3>1 DEF OwedBy, QueryType, Stages
    <3>3. SeenBy(q)'
        BY <1>2, <1>5, <3>1 DEF SeenBy
    <3> QED BY <3>1, <3>2, <3>3
  <2>2. CASE QMem(q)
    <3>1. query[q].at = "mem" /\ query' \in [Queries -> QueryType]
          /\ query'[q].at = "imm" /\ query'[q].owed = query[q].owed
          /\ query'[q].list = query[q].list /\ query'[q].ids = {f \in Files : stage[f] = "active"}
          /\ query'[q].missed = query[q].missed /\ query'[q].files = query[q].files
          /\ query'[q].over = query[q].over /\ query'[q].late = query[q].late
          /\ \A p \in Queries \ {q} : query'[p] = query[p]
        BY <1>1, <2>2 DEF QMem, Goto, QueryType, Types
    <3>2. OwedBy(q)'
        BY <1>1, <1>2, <1>5, <3>1 DEF OwedBy, QueryType, Stages
    <3>3. SeenBy(q)'
        BY <1>2, <1>5, <3>1 DEF SeenBy
    <3> QED BY <3>1, <3>2, <3>3
  <2>3. CASE QImm(q)
    <3>1. query[q].at = "imm" /\ query' \in [Queries -> QueryType]
          /\ query'[q].at = "scan" /\ query'[q].owed = query[q].owed
          /\ query'[q].list = query[q].list /\ query'[q].ids = query[q].ids \cup {f \in Files : stage[f] = "immutable"}
          /\ query'[q].missed = query[q].missed \cup {f \in Files : stage[f] \in {"swapped", "replay"}}
          /\ query'[q].files = query[q].files
          /\ query'[q].over = query[q].over /\ query'[q].late = query[q].late
          /\ \A p \in Queries \ {q} : query'[p] = query[p]
        BY <1>1, <2>3 DEF QImm, Goto, QueryType, Types
    <3>2. OwedBy(q)'
        BY <1>1, <1>2, <1>5, <3>1 DEF OwedBy, QueryType, Stages
    <3>3. SeenBy(q)'
        BY <1>2, <1>5, <3>1 DEF SeenBy
    <3> QED BY <3>1, <3>2, <3>3
  <2>4. CASE QScan(q)
    <3>1. query[q].at = "scan" /\ query' \in [Queries -> QueryType]
          /\ query'[q].at = "filter" /\ query'[q].owed = query[q].owed
          /\ query'[q].list = query[q].list /\ query'[q].ids = query[q].ids
          /\ query'[q].missed = query[q].missed /\ query'[q].files = disk \ query[q].ids
          /\ query'[q].over = query[q].over /\ query'[q].late = query[q].late
          /\ \A p \in Queries \ {q} : query'[p] = query[p]
        BY <1>1, <2>4 DEF QScan, Goto, QueryType, Types
    <3>2. \A f \in made \ disk : Accounted(f)
        BY DEF IInv, MoverInv, DoneInv, RemovedIsListed, Accounted, Done
    <3>3. OwedBy(q)'
        BY <1>1, <1>2, <1>4, <1>5, <3>1, <3>2 DEF OwedBy, QueryType
    <3>4. SeenBy(q)'
        BY <1>1, <1>2, <1>5, <3>1 DEF SeenBy, Types
    <3> QED BY <3>1, <3>3, <3>4
  <2>5. CASE QFilter(q)
    <3>1. query[q].at = "filter" /\ query' \in [Queries -> QueryType]
          /\ query'[q].at = "lock" /\ query'[q].owed = query[q].owed
          /\ query'[q].list = query[q].list /\ query'[q].ids = query[q].ids
          /\ query'[q].missed = query[q].missed /\ query'[q].files = query[q].files \ (pending \cup removing)
          /\ query'[q].over = {f \in Files : Handover(f)} \cup blamed /\ query'[q].late = query[q].late
          /\ \A p \in Queries \ {q} : query'[p] = query[p]
        BY <1>1, <2>5 DEF QFilter, Goto, QueryType, Types
    <3>2. \A f \in pending \cup removing : Accounted(f)
        BY DEF IInv, MoverInv, DoneInv, Accounted
    <3>3. OwedBy(q)'
        BY <1>1, <1>2, <1>4, <1>5, <3>1, <3>2 DEF OwedBy, QueryType
    <3>4. \A f \in Files : f \in disk /\ uploads[f] > 0 =>
              f \in blamed \/ f \in pending \cup removing \/ Handover(f)
        BY DEF IInv, MoverInv, HiddenInv, Handover, AfterList
    <3>5. SeenBy(q)'
        BY <1>1, <1>2, <1>5, <3>1, <3>4 DEF SeenBy, QueryType
    <3> QED BY <3>1, <3>3, <3>5
  <2>6. CASE QReadError(q)
    <3>1. query' \in [Queries -> QueryType]
          /\ \/ /\ query[q].at = "mem" /\ query'[q].at = "imm"
                /\ query'[q].missed = {f \in Files : stage[f] = "active"}
             \/ /\ query[q].at = "imm" /\ query'[q].at = "scan"
                /\ query'[q].missed =
                      query[q].missed \cup {f \in Files : stage[f] \in {"swapped", "replay", "immutable"}}
          /\ query'[q].owed = query[q].owed
          /\ query'[q].list = query[q].list /\ query'[q].ids = query[q].ids
          /\ query'[q].files = query[q].files
          /\ query'[q].over = query[q].over /\ query'[q].late = query[q].late
          /\ \A p \in Queries \ {q} : query'[p] = query[p]
      <4>1. query[q] \in QueryType /\ {f \in Files : stage[f] = "active"} \subseteq Files
            /\ {f \in Files : stage[f] \in {"swapped", "replay", "immutable"}} \subseteq Files
        BY <1>1
      <4>2. CASE Goto(q, "mem", [query[q] EXCEPT
                    !.at = "imm", !.missed = {f \in Files : stage[f] = "active"}])
        BY <1>1, <4>1, <4>2 DEF Goto, QueryType
      <4>3. CASE Goto(q, "imm", [query[q] EXCEPT
                    !.at = "scan",
                    !.missed = @ \cup {f \in Files : stage[f] \in {"swapped", "replay", "immutable"}}])
        BY <1>1, <4>1, <4>3 DEF Goto, QueryType
      <4> QED BY <2>6, <4>2, <4>3 DEF QReadError
    <3>2. OwedBy(q)'
        BY <1>1, <1>2, <1>5, <3>1 DEF OwedBy, QueryType, Stages
    <3>3. SeenBy(q)'
        BY <1>2, <1>5, <3>1 DEF SeenBy
    <3> QED BY <3>1, <3>2, <3>3
  <2> QED BY <2>1, <2>2, <2>3, <2>4, <2>5, <2>6
<1>7. OwedInv' /\ OnceInv'
  <2>1. \A p \in Queries \ {q} : OwedBy(p) => OwedBy(p)'
    BY <1>1, <1>2, <1>4, <1>6 DEF OwedBy, QueryType
  <2>2. \A p \in Queries \ {q} : SeenBy(p) => SeenBy(p)'
    BY <1>2, <1>6 DEF SeenBy
  <2> QED BY <1>2, <1>6, <2>1, <2>2 DEF IInv, OwedInv, OnceInv
<1>8. LockInv'
  <2>1. \A f : Lockers(f)' = Lockers(f)
    BY <1>6 DEF Lockers
  <2>2. \A f : \A p \in Lockers(f) : p # q /\ query'[p] = query[p]
    BY <1>6 DEF Lockers
  <2> QED BY <1>2, <2>1, <2>2 DEF IInv, LockInv, Doomed
<1>9. TypeOK'
    BY <1>1, <1>2, <1>3, <1>6 DEF TypeOK, MoverInv, QueryType
<1> QED BY <1>3, <1>7, <1>8, <1>9 DEF IInv

\* A query lets go of its locks on F.
LEMMA UnlockCounts ==
    ASSUME IInv, ~ cleaned, NEW q \in Queries, NEW F \in SUBSET Files, Unlock(F),
           \A f \in F : q \in Lockers(f) /\ Lockers(f)' = Lockers(f) \ {q},
           \A f \in Files \ F : Lockers(f)' = Lockers(f),
           NEW g \in Files
    PROVE  searching'[g] = Cardinality(Lockers(g)')
<1>1. searching \in [Files -> Nat] /\ searching[g] = Cardinality(Lockers(g))
    BY DEF IInv, MoverInv, MoverTypeOK, LockInv
<1>2. CASE g \in F
  <2>1. IsFiniteSet(Lockers(g))
    <3>1. Lockers(g) \in SUBSET Queries
        BY DEF Lockers
    <3> QED BY <3>1, QueriesFinite, FS_Subset
  <2>2. /\ IsFiniteSet(Lockers(g) \ {q})
        /\ Cardinality(Lockers(g) \ {q}) = Cardinality(Lockers(g)) - 1
    BY <1>2, <2>1, FS_RemoveElement
  <2>3. Cardinality(Lockers(g) \ {q}) \in Nat
    BY <2>2, FS_CardinalityType
  <2>4. searching[g] > 0 /\ searching'[g] = searching[g] - 1
    BY <1>1, <1>2, <2>2, <2>3 DEF Unlock
  <2>5. Lockers(g)' = Lockers(g) \ {q}
    BY <1>2
  <2> QED BY <1>1, <2>2, <2>4, <2>5
<1>3. CASE g \notin F
  <2>1. searching'[g] = searching[g] /\ Lockers(g)' = Lockers(g)
    BY <1>3 DEF Unlock
  <2> QED BY <1>1, <2>1
<1> QED BY <1>2, <1>3

\* A query locks its files, finds some gone, and lets them go at the end.
LEMMA LocksNext ==
    ASSUME IInv, NEW q \in Queries, QLock(q) \/ QCheck(q) \/ QEnd(q) \/ QCancel(q)
    PROVE  IInv'
<1>1. /\ stage \in [Files -> Stages] /\ query \in [Queries -> QueryType] /\ cleaned \in BOOLEAN
      /\ MoverInv /\ MoverTypeOK /\ Types /\ searching \in [Files -> Nat]
    BY TypesFollow DEF IInv, TypeOK, QueryType, MoverTypeOK
<1>2. /\ stage' = stage /\ cleaned' = cleaned
      /\ UNCHANGED <<made, disk, pendingDb, uploads, unlisted, dropped, processing, pending, removing,
                     scan, chan, wk, blamed, failures, crashes>>
    BY DEF QLock, QCheck, QEnd, QCancel, Goto, local, remote, marks, bounds
<1>3. searching' \in [Files -> Nat]
    BY <1>1 DEF QLock, QCheck, QEnd, QCancel, Unlock
<1>4. MoverInv'
    BY <1>1, <1>2, <1>3, MoverStays DEF MoverTypeOK
<1>5. \A f \in Files : (Accounted(f)' <=> Accounted(f)) /\ (Doomed(f)' <=> Doomed(f))
    BY <1>2 DEF Accounted, Done, Doomed
<1>6. OwedBy(q) /\ SeenBy(q) /\ query[q].files \subseteq Files
    BY <1>1 DEF IInv, OwedInv, OnceInv, QueryType
<1>7. /\ query' \in [Queries -> QueryType] /\ \A p \in Queries \ {q} : query'[p] = query[p]
      /\ OwedBy(q)' /\ SeenBy(q)' /\ LockInv'
  <2>1. CASE QLock(q)
    <3>1. /\ query[q].at = "lock" /\ query' \in [Queries -> QueryType]
          /\ query'[q].at = "check" /\ query'[q].owed = query[q].owed
          /\ query'[q].list = query[q].list /\ query'[q].ids = query[q].ids
          /\ query'[q].missed = query[q].missed /\ query'[q].files = query[q].files
          /\ query'[q].over = query[q].over
          /\ query'[q].late = {f \in query[q].files : Doomed(f)}
          /\ \A p \in Queries \ {q} : query'[p] = query[p]
        BY <1>1, <2>1 DEF QLock, Goto, QueryType
    <3>2. OwedBy(q)'
        BY <1>1, <1>2, <1>5, <1>6, <3>1 DEF OwedBy, QueryType
    <3>3. SeenBy(q)'
        BY <1>2, <1>6, <3>1 DEF SeenBy
    <3>4. \A f \in Files : /\ q \notin Lockers(f)
                           /\ f \in query[q].files => Lockers(f)' = Lockers(f) \cup {q}
                           /\ f \notin query[q].files => Lockers(f)' = Lockers(f)
        BY <3>1 DEF Lockers
    <3>5. ASSUME ~ cleaned, NEW f \in Files
          PROVE  /\ searching'[f] = Cardinality(Lockers(f)')
                 /\ Doomed(f)' => \A p \in Lockers(f)' : f \in query'[p].late
      <4>1. /\ searching[f] = Cardinality(Lockers(f))
            /\ Doomed(f) => \A p \in Lockers(f) : f \in query[p].late
        BY <3>5 DEF IInv, LockInv
      <4>2. Lockers(f) \in SUBSET Queries
        BY DEF Lockers
      <4>3. IsFiniteSet(Lockers(f))
        BY <4>2, QueriesFinite, FS_Subset
      <4>4. searching'[f] = IF f \in query[q].files THEN searching[f] + 1 ELSE searching[f]
        BY <1>1, <2>1 DEF QLock
      <4>5. Cardinality(Lockers(f) \cup {q}) = Cardinality(Lockers(f)) + 1
        BY <3>4, <4>3, FS_AddElement
      <4>6. searching'[f] = Cardinality(Lockers(f)')
        BY <3>4, <4>1, <4>4, <4>5
      <4> QED BY <1>5, <3>1, <3>4, <4>1, <4>2, <4>6
    <3>6. LockInv'
        BY <1>2, <3>5 DEF LockInv
    <3> QED BY <3>1, <3>2, <3>3, <3>6
  <2>2. CASE QCheck(q)
    <3>1. /\ query[q].at = "check" /\ query' \in [Queries -> QueryType]
          /\ query'[q].at = "read" /\ query'[q].owed = query[q].owed
          /\ query'[q].list = query[q].list /\ query'[q].ids = query[q].ids
          /\ query'[q].missed = query[q].missed /\ query'[q].files = query[q].files \cap disk
          /\ query'[q].over = query[q].over /\ query'[q].late = query[q].late
          /\ \A p \in Queries \ {q} : query'[p] = query[p]
        BY <1>1, <2>2 DEF QCheck, Goto, QueryType
    <3>2. \A f \in made \ disk : Accounted(f)
        BY DEF IInv, MoverInv, DoneInv, RemovedIsListed, Accounted, Done
    <3>3. OwedBy(q)'
        BY <1>1, <1>2, <1>5, <1>6, <3>1, <3>2 DEF OwedBy, SeenBy, QueryType
    <3>4. SeenBy(q)'
        BY <1>2, <1>6, <3>1 DEF SeenBy
    <3> DEFINE F == query[q].files \ disk
    <3>5. F \in SUBSET Files /\ Unlock(F)
        BY <1>6, <2>2 DEF QCheck
    <3>6. /\ \A f \in F : q \in Lockers(f) /\ Lockers(f)' = Lockers(f) \ {q}
          /\ \A f \in Files \ F : Lockers(f)' = Lockers(f)
        BY <3>1 DEF Lockers
    <3> HIDE DEF F
    <3>7. ~ cleaned => \A f \in Files : searching'[f] = Cardinality(Lockers(f)')
        BY <3>5, <3>6, UnlockCounts
    <3>8. \A f \in Files : \A p \in Lockers(f)' : p \in Lockers(f) /\ query'[p].late = query[p].late
        BY <3>1, <3>6 DEF Lockers
    <3>9. LockInv'
        BY <1>2, <1>5, <3>7, <3>8 DEF IInv, LockInv
    <3> QED BY <3>1, <3>3, <3>4, <3>9
  <2>3. CASE QEnd(q) \/ QCancel(q)
    <3>1. /\ query[q].at \in {"check", "read"} /\ query'[q] = NoQuery
          /\ \A p \in Queries \ {q} : query'[p] = query[p]
          /\ query' \in [Queries -> QueryType]
      <4>1. NoQuery \in QueryType
        BY DEF NoQuery, QueryType
      <4>2. query[q].at \in {"check", "read"} /\ query' = [query EXCEPT ![q] = NoQuery]
        BY <2>3 DEF QEnd, QCancel, Goto
      <4> QED BY <1>1, <4>1, <4>2
    <3>2. OwedBy(q)' /\ SeenBy(q)'
        BY <3>1 DEF OwedBy, SeenBy, NoQuery
    <3> DEFINE F == query[q].files
    <3>3. F \in SUBSET Files /\ Unlock(F)
        BY <1>6, <2>3 DEF QEnd, QCancel
    <3>4. /\ \A f \in F : q \in Lockers(f) /\ Lockers(f)' = Lockers(f) \ {q}
          /\ \A f \in Files \ F : Lockers(f)' = Lockers(f)
        BY <3>1 DEF Lockers, NoQuery
    <3> HIDE DEF F
    <3>5. ~ cleaned => \A f \in Files : searching'[f] = Cardinality(Lockers(f)')
        BY <3>3, <3>4, UnlockCounts
    <3>6. \A f \in Files : \A p \in Lockers(f)' : p \in Lockers(f) /\ query'[p].late = query[p].late
        BY <3>1, <3>4 DEF Lockers, NoQuery
    <3>7. LockInv'
        BY <1>2, <1>5, <3>5, <3>6 DEF IInv, LockInv
    <3> QED BY <3>1, <3>2, <3>7
  <2> QED BY <2>1, <2>2, <2>3
<1>8. OwedInv' /\ OnceInv'
  <2>1. \A p \in Queries \ {q} : OwedBy(p) => OwedBy(p)'
    BY <1>1, <1>2, <1>5, <1>7 DEF OwedBy, QueryType
  <2>2. \A p \in Queries \ {q} : SeenBy(p) => SeenBy(p)'
    BY <1>2, <1>7 DEF SeenBy
  <2> QED BY <1>2, <1>7, <2>1, <2>2 DEF IInv, OwedInv, OnceInv
<1>9. TypeOK'
    BY <1>1, <1>2, <1>4, <1>7 DEF TypeOK, MoverInv, QueryType
<1> QED BY <1>4, <1>7, <1>8, <1>9 DEF IInv

\* The operator cleans the locks.
LEMMA CleanLocksNext == ASSUME IInv, CleanLocks PROVE IInv'
<1>1. /\ stage' = stage /\ query' = query /\ cleaned' = TRUE
      /\ UNCHANGED <<made, disk, pendingDb, uploads, unlisted, dropped, processing, pending, removing,
                     scan, chan, wk, blamed, crashes>>
    BY DEF CleanLocks, Failing, local, remote, marks
<1>2. searching' \in [Files -> Nat] /\ failures' \in 0..MaxFail
    BY MoverAssumption DEF CleanLocks, Failing, IInv, MoverInv, MoverTypeOK
<1>3. MoverInv'
    BY <1>1, <1>2, MoverStays DEF IInv
<1>4. TypeOK'
    BY <1>1, <1>3 DEF IInv, TypeOK, MoverInv
<1>5. OwedInv' /\ OnceInv' /\ LockInv'
    BY <1>1 DEF IInv, OwedInv, OwedBy, Accounted, Done, OnceInv, SeenBy, LockInv
<1> QED BY <1>3, <1>4, <1>5 DEF IInv

\* A kill ends every query.
LEMMA CrashNext == ASSUME IInv, Crash PROVE IInv'
<1>1. /\ stage \in [Files -> Stages] /\ MoverInv /\ cleaned \in BOOLEAN
    BY DEF IInv, TypeOK
<1>2. /\ stage' = [f \in Files |-> IF stage[f] = "none" THEN "none"
                                   ELSE IF f \in made THEN "gone" ELSE "replay"]
      /\ query' = [q \in Queries |-> NoQuery] /\ cleaned' = cleaned
      /\ made' = made /\ searching' = [f \in Files |-> 0] /\ MoverCrash
    BY DEF Crash, MoverCrash, local
<1>3. MoverInv'
    BY <1>1, <1>2, MoverCrashOK
<1>4. TypeOK'
    BY <1>1, <1>2, <1>3 DEF TypeOK, MoverInv, NoQuery, Stages
<1>5. OwedInv' /\ OnceInv'
    BY <1>2 DEF OwedInv, OwedBy, OnceInv, SeenBy, NoQuery
<1>6. LockInv'
  <2>1. \A f \in Files : Lockers(f)' = {}
    BY <1>2 DEF Lockers, NoQuery
  <2> QED BY <1>2, <2>1, FS_EmptySet DEF LockInv
<1> QED BY <1>3, <1>4, <1>5, <1>6 DEF IInv

----------------------------------------------------------------------------
(* The invariant is inductive; what follows from it.                        *)

\* The process starts with nothing.
LEMMA SearchInit == Init => IInv
<1> SUFFICES ASSUME Init PROVE IInv
    OBVIOUS
<1>0. /\ Idle \in WkType /\ Asleep \in ScanType /\ NoQuery \in QueryType
      /\ 0 \in 0..MaxFail /\ 0 \in 0..MaxCrash
    BY MoverAssumption DEF Idle, Asleep, NoQuery, WkType, ScanType, QueryType
<1>1. MoverTypeOK
    BY <1>0 DEF Init, MoverInit, MoverTypeOK, WkType, ScanType
<1>7. TypeOK
    BY <1>0, <1>1 DEF Init, TypeOK, Stages, QueryType
<1> USE DEF Init, MoverInit, Idle, Asleep, NoQuery
<1>2. HandInv /\ DoneInv
    BY DEF HandInv, DoneInv, Hand, Taken, AfterList, RemovedIsListed
<1>3. OwnerInv /\ MarkInv
    BY DEF OwnerInv, MarkInv, Hand, Taken
<1>4. FreshInv /\ HiddenInv
    BY DEF FreshInv, HiddenInv, Taken
<1>5. OwedInv /\ OnceInv
    BY DEF OwedInv, OwedBy, OnceInv, SeenBy
<1>6. LockInv
  <2>1. \A f \in Files : Lockers(f) = {}
    BY DEF Lockers
  <2> QED BY <2>1, FS_EmptySet DEF LockInv
<1> QED BY <1>1, <1>2, <1>3, <1>4, <1>5, <1>6, <1>7 DEF IInv, MoverInv

\* Every step of the mover, the queries and the tables keeps the invariant.
LEMMA SearchInductive == IInv /\ [Next]_vars => IInv'
<1> SUFFICES ASSUME IInv, [Next]_vars PROVE IInv'
    OBVIOUS
<1>1. ASSUME NEW f \in Files, Write(f) \/ TableStep(f) PROVE IInv'
    BY <1>1, TableNext, DumpNext DEF TableStep
<1>2. ASSUME NEW q \in Queries, QList(q) \/ QStep(q) \/ QReadError(q) \/ QCancel(q) PROVE IInv'
    BY <1>2, LookNext, LocksNext DEF QStep
<1>3. CASE UNCHANGED vars
  <2>1. /\ UNCHANGED <<made, disk, pendingDb, uploads, unlisted, dropped, processing, pending,
                       removing, searching, scan, chan, wk, blamed, failures, crashes>>
        /\ UNCHANGED <<stage, query, cleaned>>
    BY <1>3 DEF vars, mvars, qvars, local, remote, marks, bounds
  <2>2. MoverInv'
    BY <2>1, MoverStays DEF IInv, MoverInv, MoverTypeOK
  <2>3. TypeOK'
    BY <2>1, <2>2 DEF IInv, TypeOK, MoverInv
  <2>4. OwedInv' /\ OnceInv' /\ LockInv'
    BY <2>1 DEF IInv, OwedInv, OwedBy, Accounted, Done, OnceInv, SeenBy, LockInv, Lockers, Doomed
  <2> QED BY <2>2, <2>3, <2>4 DEF IInv
<1> QED BY <1>1, <1>2, <1>3, MoverNext, CleanLocksNext, CrashNext DEF Next

\* The sets of the mover, the locks and the queries are as the proofs say at
\* every moment of every run.
THEOREM SearchInvariant == Spec => []IInv
<1> QED BY SearchInit, SearchInductive, PTL DEF Spec

\* The state of the mover, of the tables and of the queries stays well typed;
\* for SEARCHING_FILES that is that no count becomes negative.
THEOREM SearchTypes == Spec => []TypeOK
<1>1. IInv => TypeOK
    BY DEF IInv
<1> QED BY <1>1, SearchInvariant, PTL

\* move_files and scan_pending_delete_files remove no file that is neither
\* listed nor given up nor one whose entry was lost.
THEOREM RemovedListed == Spec => []RemovedIsListed
<1>1. IInv => RemovedIsListed
    BY DEF IInv, MoverInv, DoneInv
<1> QED BY <1>1, SearchInvariant, PTL

\* PROCESSING_FILES keeps a file from being uploaded and listed twice, unless a
\* kill, a failing removal or a failing pending delete left it unmarked.
THEOREM FilesUploadedOnce == Spec => []UploadedOnce
<1>1. IInv => UploadedOnce
  <2> SUFFICES ASSUME IInv, NEW f \in Files, uploads[f] > 1 PROVE f \in blamed
    BY DEF UploadedOnce
  <2>1. uploads[f] \in Nat
    BY DEF IInv, MoverInv, MoverTypeOK
  <2> QED BY <2>1 DEF IInv, MoverInv, FreshInv
<1> QED BY <1>1, SearchInvariant, PTL

\* A query finds every table that was written when it began, wherever the
\* table is when the query looks, unless it looked while the table was in none of
\* the places it reads (rotate, replay_wal_files), could not read it, or the
\* table was listed after the query had read the file list, or given up.
THEOREM QueriesComplete == Spec => []Complete
<1>1. IInv => Complete
    BY DEF IInv, OwedInv, OwedBy, Complete, Accounted, Done
<1> QED BY <1>1, SearchInvariant, PTL

\* A query finds no row twice, except for a file between its entry in the file
\* list and its mark.
THEOREM QueriesSeeOnce == Spec => []AtMostOnce
<1>1. IInv => AtMostOnce
    BY DEF IInv, OnceInv, SeenBy, AtMostOnce
<1> QED BY <1>1, SearchInvariant, PTL

\* A file that a running query has locked is not removed.
THEOREM LockedFilesStay == Spec => HeldStays
<1> DEFINE Held == \A q \in Queries : query[q].at = "read" /\ query'[q].at = "read" =>
                      \A f \in (query[q].files \cap disk) \ disk' :
                          f \in query[q].late \cup dropped' \/ cleaned
<1>1. IInv /\ [Next]_vars => [Held]_vars
  <2> SUFFICES ASSUME IInv, Next, NEW q \in Queries, query[q].at = "read", query'[q].at = "read",
                      NEW f \in (query[q].files \cap disk) \ disk', ~ cleaned
               PROVE  f \in query[q].late \cup dropped'
    OBVIOUS
  <2>1. f \in Files /\ q \in Lockers(f)
    BY DEF IInv, MoverInv, MoverTypeOK, Lockers
  <2>2. CASE MoverStep
    <3>1. Doomed(f) \/ f \in dropped'
        BY <2>2, RemovalNext DEF IInv
    <3> QED BY <2>1, <3>1 DEF IInv, LockInv
  <2>3. ~ Crash
    BY DEF Crash, NoQuery
  <2>4. ASSUME NEW g \in Files, Write(g) \/ TableStep(g) PROVE disk \subseteq disk'
    BY <2>4 DEF TableStep, Write, Swap, Insert, Dump, Arrive, Finish, mvars, local
  <2>5. ASSUME NEW p \in Queries, QList(p) \/ QStep(p) \/ QReadError(p) \/ QCancel(p) PROVE disk' = disk
    BY <2>5 DEF QStep, QList, QMem, QImm, QReadError, QScan, QFilter, QLock, QCheck, QEnd, QCancel, mvars, local
  <2>6. CleanLocks => disk' = disk
    BY DEF CleanLocks, local
  <2> QED BY <2>2, <2>3, <2>4, <2>5, <2>6 DEF Next
<1> QED BY <1>1, SearchInvariant, PTL DEF Spec, HeldStays

=============================================================================
