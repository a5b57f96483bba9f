------------------------------- MODULE Search -------------------------------
(***************************************************************************)
(* A query on an ingester while tables move: from the memtable that is     *)
(* being written, through IMMUTABLES and a .parquet file, to an object in  *)
(* the file list.  The query reads the four places one after the other.    *)
(*                                                                         *)
(*   search_service/src/cluster/flight.rs     the file list, first         *)
(*   search_service/src/grpc/wal.rs           memory, then local files     *)
(*   common/src/infra/wal.rs                  SEARCHING_FILES              *)
(*                                                                         *)
(* A member of Files is a table with one file, and stands for the rows a   *)
(* query asks for.  Modules Writer and Persist have the steps that are     *)
(* summed up here as Write, Swap, Insert, Dump and Finish.                 *)
(***************************************************************************)
EXTENDS ParquetMover

CONSTANT Queries    \* concurrent searches

ASSUME QueriesFinite == IsFiniteSet(Queries)

VARIABLES
    stage,      \* [Files -> where the table is before it is only a file]
    query,      \* [Queries -> its progress]
    cleaned     \* clean_lock_files has been called

qvars == <<stage, query, cleaned>>
vars  == <<mvars, qvars>>

Stages == {"none", "active", "swapped", "immutable", "replay", "gone"}

NoQuery == [at |-> "idle", owed |-> {}, list |-> {}, ids |-> {}, missed |-> {},
            files |-> {}, over |-> {}, late |-> {}]

TypeOK ==
    /\ MoverTypeOK
    /\ stage \in [Files -> Stages]
    /\ query \in [Queries ->
          [at     : {"idle", "mem", "imm", "scan", "filter", "lock", "check", "read"},
           owed   : SUBSET Files,    \* tables written when the query began
           list   : SUBSET Files,    \* found in the file list
           ids    : SUBSET Files,    \* memtable_ids
           missed : SUBSET Files,    \* in neither WRITERS nor IMMUTABLES, or unreadable
           files  : SUBSET Files,    \* local files, locked from "check" on
           over   : SUBSET Files,    \* listed, and not yet hidden when filtered
           late   : SUBSET Files]]   \* locked after a remover had looked
    /\ cleaned \in BOOLEAN

Init ==
    /\ MoverInit
    /\ stage = [f \in Files |-> "none"]
    /\ query = [q \in Queries |-> NoQuery]
    /\ cleaned = FALSE

----------------------------------------------------------------------------
(* A table on its way to a file *)

Write(f) ==
    /\ stage[f] = "none"
    /\ stage' = [stage EXCEPT ![f] = "active"]
    /\ UNCHANGED <<mvars, query, cleaned>>

\* rotate replaces the memtable ...
Swap(f) ==
    /\ stage[f] = "active"
    /\ stage' = [stage EXCEPT ![f] = "swapped"]
    /\ UNCHANGED <<mvars, query, cleaned>>

\* ... and puts the old one in IMMUTABLES.
Insert(f) ==
    /\ stage[f] = "swapped"
    /\ stage' = [stage EXCEPT ![f] = "immutable"]
    /\ UNCHANGED <<mvars, query, cleaned>>

\* The table's file gets its final name, from a persist call or after a restart.
Dump(f) ==
    /\ stage[f] \in {"immutable", "replay"}
    /\ Arrive(f)
    /\ stage' = [stage EXCEPT ![f] = IF @ = "replay" THEN "gone" ELSE @]
    /\ UNCHANGED <<query, cleaned>>

\* The table leaves IMMUTABLES.
Finish(f) ==
    /\ stage[f] = "immutable" /\ f \in made
    /\ stage' = [stage EXCEPT ![f] = "gone"]
    /\ UNCHANGED <<mvars, query, cleaned>>

----------------------------------------------------------------------------
(* A query *)

Goto(q, from, rec) ==
    /\ query[q].at = from
    /\ query' = [query EXCEPT ![q] = rec]
    /\ UNCHANGED <<stage, cleaned>>

\* get_file_id_lists, on the node that leads the query.
QList(q) ==
    /\ Goto(q, "idle", [NoQuery EXCEPT
          !.at = "mem",
          !.owed = {f \in Files : stage[f] # "none"},
          !.list = {f \in Files : uploads[f] > 0}])
    /\ UNCHANGED mvars

\* read_from_memtable
QMem(q) ==
    /\ Goto(q, "mem", [query[q] EXCEPT
          !.at = "imm",
          !.ids = {f \in Files : stage[f] = "active"}])
    /\ UNCHANGED mvars

\* Mutant of QImm: IMMUTABLES is not read.
QImmSkipped(q) ==
    /\ Goto(q, "imm", [query[q] EXCEPT !.at = "scan"])
    /\ UNCHANGED mvars

\* read_from_immutable
QImm(q) ==
    /\ Goto(q, "imm", [query[q] EXCEPT
          !.at = "scan",
          !.ids = @ \cup {f \in Files : stage[f] = "immutable"},
          !.missed = @ \cup {f \in Files : stage[f] \in {"swapped", "replay"}}])
    /\ UNCHANGED mvars

\* One of the two fails: unwrap_or_default goes on as if it had no tables.
QReadError(q) ==
    /\ \/ Goto(q, "mem", [query[q] EXCEPT
             !.at = "imm",
             !.missed = {f \in Files : stage[f] = "active"}])
       \/ Goto(q, "imm", [query[q] EXCEPT
             !.at = "scan",
             !.missed = @ \cup {f \in Files : stage[f] \in {"swapped", "replay", "immutable"}}])
    /\ Failing
    /\ UNCHANGED <<local, remote, marks, searching, scan, chan, wk, blamed>>

\* get_file_list: the directory is read, and files of tables in memory skipped ...
QScan(q) ==
    /\ Goto(q, "scan", [query[q] EXCEPT !.at = "filter", !.files = disk \ query[q].ids])
    /\ UNCHANGED mvars

\* Mutant of QFilter: REMOVING_FILES is looked at, PENDING_DELETE_FILES is not.
QFilterRemoving(q) ==
    /\ Goto(q, "filter", [query[q] EXCEPT
          !.at = "lock",
          !.files = @ \ removing,
          !.over = {f \in Files : Handover(f)} \cup blamed])
    /\ UNCHANGED mvars

\* ... pending_delete::filter drops those that are about to be deleted ...
QFilter(q) ==
    /\ Goto(q, "filter", [query[q] EXCEPT
          !.at = "lock",
          !.files = @ \ (pending \cup removing),
          !.over = {f \in Files : Handover(f)} \cup blamed])
    /\ UNCHANGED mvars

\* A worker or the scanning task has found f unlocked and is about to remove it.
Doomed(f) ==
    \/ \E k \in Workers : wk[k].file = f /\ wk[k].at \in {"mark", "rm"}
    \/ scan.file = f /\ scan.at = "rm"

\* ... and the rest is locked.
QLock(q) ==
    /\ Goto(q, "lock", [query[q] EXCEPT
          !.at = "check",
          !.late = {f \in query[q].files : Doomed(f)}])
    /\ searching' = [f \in Files |-> searching[f] + (IF f \in query[q].files THEN 1 ELSE 0)]
    /\ UNCHANGED <<local, remote, marks, scan, chan, wk, blamed, bounds>>

\* Mutant of Unlock: a count that is not there is decremented.
UnlockUnchecked(F) ==
    searching' = [f \in Files |-> IF f \in F THEN searching[f] - 1 ELSE searching[f]]

\* SearchingFileLocker::release
Unlock(F) ==
    searching' = [f \in Files |-> IF f \in F /\ searching[f] > 0
                                  THEN searching[f] - 1 ELSE searching[f]]

\* The metadata is read: a file that is gone is released and left out.
QCheck(q) ==
    /\ Goto(q, "check", [query[q] EXCEPT !.at = "read", !.files = @ \cap disk])
    /\ Unlock(query[q].files \ disk)
    /\ UNCHANGED <<local, remote, marks, scan, chan, wk, blamed, bounds>>

\* The query is through: release_request.
QEnd(q) ==
    /\ Goto(q, "read", NoQuery)
    /\ Unlock(query[q].files)
    /\ UNCHANGED <<local, remote, marks, scan, chan, wk, blamed, bounds>>

\* The query is cancelled before its locks went to the request: the guard is
\* dropped.  (A query that is cancelled without locks changes nothing.)
QCancel(q) ==
    /\ Goto(q, "check", NoQuery)
    /\ Unlock(query[q].files)
    /\ UNCHANGED <<local, remote, marks, scan, chan, wk, blamed, bounds>>

\* clean_lock_files, when the node is disabled or flushed by its operator.
CleanLocks ==
    /\ Failing
    /\ searching' = [f \in Files |-> 0]
    /\ cleaned' = TRUE
    /\ UNCHANGED <<local, remote, marks, scan, chan, wk, blamed, stage, query>>

----------------------------------------------------------------------------

\* What was only in memory comes back from its WAL file; its file may exist.
Crash ==
    /\ MoverCrash
    /\ stage' = [f \in Files |-> IF stage[f] = "none" THEN "none"
                                 ELSE IF f \in made THEN "gone" ELSE "replay"]
    /\ query' = [q \in Queries |-> NoQuery]
    /\ UNCHANGED cleaned

TableStep(f) == Swap(f) \/ Insert(f) \/ Dump(f) \/ Finish(f)

QStep(q) ==
    QMem(q) \/ QImm(q) \/ QScan(q) \/ QFilter(q) \/ QLock(q) \/ QCheck(q) \/ QEnd(q)

Next ==
    \/ \E f \in Files : Write(f) \/ TableStep(f)
    \/ \E q \in Queries : QList(q) \/ QStep(q) \/ QReadError(q) \/ QCancel(q)
    \/ CleanLocks
    \/ MoverStep /\ UNCHANGED qvars
    \/ Crash

Spec == Init /\ [][Next]_vars

\* The scanning task and the workers are loops, and a query is bounded by its
\* timeout, after which its guard is dropped.
Fairness ==
    /\ WF_vars(ScanStep /\ UNCHANGED qvars)
    /\ \A k \in Workers : WF_vars(WorkerStep(k) /\ UNCHANGED qvars)
    /\ \A q \in Queries : WF_vars(QStep(q))

FairSpec == Spec /\ Fairness

----------------------------------------------------------------------------

(* Every local file that is gone has an object in the file list, was given *)
(* up with its stream, or is one of those whose entry file_list::set lost. *)
RemovedIsListed ==
    \A f \in made \ disk : uploads[f] > 0 \/ f \in dropped \cup unlisted

(* No file is uploaded and listed twice, which would double its rows for   *)
(* good, except one that a kill, a failing removal or a failing pending    *)
(* delete left on disk without a mark (blamed).                            *)
UploadedOnce == \A f \in Files : uploads[f] > 1 => f \in blamed

(* A query sees every row that was written when it began, although it      *)
(* looks at the four places one after the other while the table moves.  It *)
(* misses a table only if it was between the memtable and IMMUTABLES, was  *)
(* being replayed after a kill and not dumped yet (replay keeps a table to *)
(* itself, ingester/src/wal.rs:269), could not be read, was listed after   *)
(* the file list was read and hidden before the directory was, or was      *)
(* given up or lost its entry.                                             *)
Complete ==
    \A q \in Queries : query[q].at = "read" =>
        \A f \in query[q].owed \ (query[q].list \cup query[q].ids \cup query[q].files) :
            \/ f \in query[q].missed
            \/ uploads[f] > 0 \/ f \in dropped \cup unlisted

(* A query sees no row twice: what it read from the file list is not also  *)
(* a local file or a table in memory.  The exceptions are a file that is   *)
(* listed while its table is still in IMMUTABLES, and one between its      *)
(* entry in the file list and its mark.                                    *)
AtMostOnce ==
    \A q \in Queries : query[q].at = "read" =>
        /\ query[q].files \cap query[q].ids = {}
        /\ query[q].files \cap query[q].list \subseteq query[q].over

(* common/src/infra/wal.rs:20, files in use "should not move to s3": a     *)
(* file that a running query has locked stays, unless the lock came after  *)
(* the look of the task that removes it, the stream is given up, or the    *)
(* operator cleaned the locks.                                             *)
HeldStays ==
    [][\A q \in Queries : query[q].at = "read" /\ query'[q].at = "read" =>
          \A f \in (query[q].files \cap disk) \ disk' :
              f \in query[q].late \cup dropped' \/ cleaned]_vars

(* Every file leaves the disk, also one that queries keep using: the mark  *)
(* in PENDING_DELETE_FILES keeps new queries off it.  Files that a failure *)
(* or a kill left without a mark wait for the next one.                    *)
FilesMoved == \A f \in Files : f \in disk ~> (f \notin disk \/ f \in blamed)

============================================================================
