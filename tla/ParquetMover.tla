---------------------------- MODULE ParquetMover ----------------------------
(***************************************************************************)
(* The finished .parquet files of an ingester on their way to object       *)
(* storage: one task that scans the directory and the pending deletions,   *)
(* workers that merge, upload, list and delete, the sets that keep the two *)
(* and the queries out of each other's way, and restarts.                  *)
(*                                                                         *)
(*   jobs/src/job/files/parquet.rs            run, scan_*, move_files      *)
(*   db/src/file_list/mod.rs, local.rs        set, add_pending_delete      *)
(*   infra/src/file_list/pending_delete.rs    the sets in memory           *)
(*                                                                         *)
(* The files are those of one stream and hour, which are merged together.  *)
(* What queries lock is the variable searching; module Search has the queries.  *)
(***************************************************************************)
EXTENDS Integers, FiniteSets

CONSTANTS
    Files,      \* .parquet files
    Workers,    \* file_move_thread_num tasks
    None,
    MaxFail,    \* bound: failing operations and rounds that put a file off
    MaxCrash    \* bound: kills of the process

ASSUME MoverAssumption ==
    /\ MaxFail \in Nat /\ MaxCrash \in Nat
    /\ None \notin Files

VARIABLES
    \* --- disk, local database, object storage and file list ---
    made,        \* files that were finished by a persist call
    disk,        \* files that exist
    pendingDb,   \* file_list_deleted of the local database
    uploads,     \* [Files -> entries of the file list whose object has the file]
    unlisted,    \* files whose object was uploaded, but got no entry
    dropped,     \* files given up (stream deleted, retention)
    \* --- memory of the process ---
    processing,  \* PROCESSING_FILES
    pending,     \* PENDING_DELETE_FILES
    removing,    \* REMOVING_FILES
    searching,   \* SEARCHING_FILES: [Files -> locks on it]
    scan,        \* the scanning task
    chan,        \* channel to the workers, of capacity one
    wk,          \* [Workers -> its move_files call]
    \* --- history and bounds ---
    blamed,      \* files that a failure or a kill left listed, but not pending
    failures, crashes

local   == <<made, disk, pendingDb>>
remote  == <<uploads, unlisted, dropped>>
marks   == <<processing, pending, removing>>
bounds  == <<failures, crashes>>
mvars   == <<local, remote, marks, searching, scan, chan, wk, blamed, bounds>>

Asleep == [at |-> "idle", todo |-> {}, file |-> None, batch |-> {}]
Idle   == [at |-> "idle", rest |-> {}, chunk |-> {}, file |-> None]

Locked(f) == searching[f] > 0
Done(f)   == uploads[f] > 0 \/ f \in unlisted

MoverTypeOK ==
    /\ made \subseteq Files /\ disk \subseteq made /\ pendingDb \subseteq Files
    /\ uploads \in [Files -> Nat] /\ unlisted \subseteq Files /\ dropped \subseteq Files
    /\ processing \subseteq Files /\ pending \subseteq Files /\ removing \subseteq Files
    /\ searching \in [Files -> Nat]
    /\ scan \in [at : {"idle", "pend", "rm", "release", "forget", "wal", "meta"},
                 todo : SUBSET Files, file : Files \cup {None}, batch : SUBSET Files]
    /\ chan \subseteq Files
    /\ wk \in [Workers -> [at : {"idle", "start", "drop", "merge", "list", "del", "mark",
                                 "rm", "pend", "unmark"},
                           rest : SUBSET Files, chunk : SUBSET Files,
                           file : Files \cup {None}]]
    /\ blamed \subseteq Files
    /\ failures \in 0..MaxFail /\ crashes \in 0..MaxCrash

MoverInit ==
    /\ made = {} /\ disk = {} /\ pendingDb = {}
    /\ uploads = [f \in Files |-> 0] /\ unlisted = {} /\ dropped = {}
    /\ processing = {} /\ pending = {} /\ removing = {}
    /\ searching = [f \in Files |-> 0]
    /\ scan = Asleep /\ chan = {} /\ wk = [k \in Workers |-> Idle]
    /\ blamed = {} /\ failures = 0 /\ crashes = 0

Failing == failures < MaxFail /\ failures' = failures + 1 /\ UNCHANGED crashes

\* A persist call renames a file to .parquet.
Arrive(f) ==
    /\ f \notin made
    /\ made' = made \cup {f} /\ disk' = disk \cup {f}
    /\ UNCHANGED <<pendingDb, remote, marks, searching, scan, chan, wk, blamed, bounds>>

----------------------------------------------------------------------------
(* scan_pending_delete_files, in the scanning task *)

ScanPending ==
    /\ scan.at = "idle"
    /\ scan' = [Asleep EXCEPT !.at = "pend", !.todo = pending]
    /\ UNCHANGED <<local, remote, marks, searching, chan, wk, blamed, bounds>>

\* The file is in use, or its size cannot be read because it is gone.
PendSkip(f) ==
    /\ scan.at = "pend" /\ f \in scan.todo
    /\ Locked(f) \/ f \notin disk
    /\ scan' = [scan EXCEPT !.todo = @ \ {f}]
    /\ UNCHANGED <<local, remote, marks, searching, chan, wk, blamed, bounds>>

PendTake(f) ==
    /\ scan.at = "pend" /\ f \in scan.todo
    /\ ~Locked(f) /\ f \in disk
    /\ scan' = [scan EXCEPT !.at = "rm", !.todo = @ \ {f}, !.file = f]
    /\ UNCHANGED <<local, remote, marks, searching, chan, wk, blamed, bounds>>

PendRemove ==
    /\ scan.at = "rm"
    /\ disk' = disk \ {scan.file}
    /\ scan' = [scan EXCEPT !.at = "release"]
    /\ UNCHANGED <<made, pendingDb, remote, marks, searching, chan, wk, blamed, bounds>>

\* remove_file fails: the error is logged, and the file released all the same.
PendRemoveError ==
    /\ scan.at = "rm" /\ Failing
    /\ scan' = [scan EXCEPT !.at = "release"]
    /\ blamed' = blamed \cup {scan.file}
    /\ UNCHANGED <<local, remote, marks, searching, chan, wk>>

PendRelease ==
    /\ scan.at = "release"
    /\ processing' = processing \ {scan.file}
    /\ scan' = [scan EXCEPT !.at = "forget"]
    /\ UNCHANGED <<local, remote, pending, removing, searching, chan, wk, blamed, bounds>>

\* remove_pending_delete: the database, then the set.
PendForget ==
    /\ scan.at = "forget"
    /\ pendingDb' = pendingDb \ {scan.file}
    /\ pending' = pending \ {scan.file}
    /\ scan' = [scan EXCEPT !.at = "pend", !.file = None]
    /\ UNCHANGED <<made, disk, remote, processing, removing, searching, chan, wk, blamed, bounds>>

PendForgetError ==
    /\ scan.at = "forget" /\ Failing
    /\ scan' = [scan EXCEPT !.at = "pend", !.file = None]
    /\ UNCHANGED <<local, remote, marks, searching, chan, wk, blamed>>

(* scan_wal_files and prepare_files, in the same task *)

ScanWal ==
    /\ scan.at = "pend" /\ scan.todo = {}
    /\ scan' = [Asleep EXCEPT !.at = "wal", !.todo = disk]
    /\ UNCHANGED <<local, remote, marks, searching, chan, wk, blamed, bounds>>

\* The path is resolved and the file looked up in PROCESSING_FILES ...
PrepCheck(f) ==
    /\ scan.at = "wal" /\ f \in scan.todo
    /\ scan' = IF f \in disk \ processing
               THEN [scan EXCEPT !.at = "meta", !.todo = @ \ {f}, !.file = f]
               ELSE [scan EXCEPT !.todo = @ \ {f}]
    /\ UNCHANGED <<local, remote, marks, searching, chan, wk, blamed, bounds>>

\* ... its metadata is read, and it is taken.
PrepTake ==
    /\ scan.at = "meta"
    /\ IF scan.file \in disk
       THEN /\ processing' = processing \cup {scan.file}
            /\ scan' = [scan EXCEPT !.at = "wal", !.file = None, !.batch = @ \cup {scan.file}]
       ELSE /\ scan' = [scan EXCEPT !.at = "wal", !.file = None]
            /\ UNCHANGED processing
    /\ UNCHANGED <<local, remote, pending, removing, searching, chan, wk, blamed, bounds>>

\* The batch goes to the channel; the task waits while the channel is full.
Send ==
    /\ scan.at = "wal" /\ scan.todo = {}
    /\ scan.batch = {} \/ chan = {}
    /\ chan' = chan \cup scan.batch
    /\ scan' = Asleep
    /\ UNCHANGED <<local, remote, marks, searching, wk, blamed, bounds>>

----------------------------------------------------------------------------
(* move_files, in a worker *)

At(k, step) == wk[k].at = step

Recv(k) ==
    /\ At(k, "idle") /\ chan # {}
    /\ wk' = [wk EXCEPT ![k] = [Idle EXCEPT !.at = "start", !.rest = chan]]
    /\ chan' = {}
    /\ UNCHANGED <<local, remote, marks, searching, scan, blamed, bounds>>

\* The stream is being deleted or is gone, or the retention time is over.
GiveUp(k) ==
    /\ At(k, "start")
    /\ wk' = [wk EXCEPT ![k].at = "drop"]
    /\ UNCHANGED <<local, remote, marks, searching, scan, chan, blamed, bounds>>

\* Files that are given up are removed, in use or not.
DropFile(k, f) ==
    /\ At(k, "drop") /\ f \in wk[k].rest
    /\ disk' = disk \ {f} /\ dropped' = dropped \cup {f}
    /\ processing' = processing \ {f}
    /\ wk' = [wk EXCEPT ![k].rest = @ \ {f}]
    /\ UNCHANGED <<made, pendingDb, uploads, unlisted, pending, removing, searching, scan, chan,
                   blamed, bounds>>

DropError(k, f) ==
    /\ At(k, "drop") /\ f \in wk[k].rest /\ Failing
    /\ processing' = processing \ {f}
    /\ wk' = [wk EXCEPT ![k].rest = @ \ {f}]
    /\ UNCHANGED <<local, remote, pending, removing, searching, scan, chan, blamed>>

\* All files of the call that are not uploaded yet are released.
Release(k) ==
    /\ processing' = processing \ wk[k].rest
    /\ wk' = [wk EXCEPT ![k] = Idle]
    /\ UNCHANGED <<local, remote, pending, removing, searching, scan, chan, blamed>>

\* No schema could be read, or the files are few and new.
Postpone(k) == At(k, "start") /\ Failing /\ Release(k)

\* Mutant of MergeError: the mover goes on as if the object were there.
MergeErrorGoesOn(k) ==
    /\ At(k, "start") \/ At(k, "merge")
    /\ Failing
    /\ wk' = [wk EXCEPT ![k] = [wk[k] EXCEPT !.at = "del", !.rest = {}, !.chunk = wk[k].rest]]
    /\ UNCHANGED <<local, remote, marks, searching, scan, chan, blamed>>

\* merge_files returns an error: of the merge, the upload or the index.
MergeError(k) == (At(k, "start") \/ At(k, "merge")) /\ Failing /\ Release(k)

\* A file of the call is gone.
MergeMissing(k) ==
    /\ At(k, "start") \/ At(k, "merge")
    /\ wk[k].rest \ disk # {}
    /\ UNCHANGED bounds /\ Release(k)

\* merge_files: some of the files become one object in the store.
Merge(k, C) ==
    /\ At(k, "start") \/ At(k, "merge")
    /\ C # {} /\ C \subseteq wk[k].rest /\ C \subseteq disk
    /\ wk' = [wk EXCEPT ![k] = [wk[k] EXCEPT !.at = "list", !.rest = @ \ C, !.chunk = C]]
    /\ UNCHANGED <<local, remote, marks, searching, scan, chan, blamed, bounds>>

\* file_list::set
SetList(k) ==
    /\ At(k, "list")
    /\ uploads' = [f \in Files |-> IF f \in wk[k].chunk THEN uploads[f] + 1 ELSE uploads[f]]
    /\ wk' = [wk EXCEPT ![k].at = "del"]
    /\ UNCHANGED <<local, unlisted, dropped, marks, searching, scan, chan, blamed, bounds>>

\* The database fails.  progress logs the error and returns Ok, so that set
\* does not try again and the mover goes on as if the entry were there.
SetLost(k) ==
    /\ At(k, "list") /\ Failing
    /\ unlisted' = unlisted \cup wk[k].chunk
    /\ wk' = [wk EXCEPT ![k].at = "del"]
    /\ UNCHANGED <<local, uploads, dropped, marks, searching, scan, chan, blamed>>

\* Mutant of Decide: SEARCHING_FILES is not looked at.
DecideUnlocked(k, f) ==
    /\ At(k, "del") /\ f \in wk[k].chunk
    /\ wk' = [wk EXCEPT ![k] = [wk[k] EXCEPT !.file = f, !.at = "mark"]]
    /\ UNCHANGED <<local, remote, marks, searching, scan, chan, blamed, bounds>>

\* lock_files_exists for the next file of the chunk.
Decide(k, f) ==
    /\ At(k, "del") /\ f \in wk[k].chunk
    /\ wk' = [wk EXCEPT ![k] = [wk[k] EXCEPT !.file = f,
                                             !.at = IF Locked(f) THEN "pend" ELSE "mark"]]
    /\ UNCHANGED <<local, remote, marks, searching, scan, chan, blamed, bounds>>

\* Mutant of AddPending: the set in memory is not updated.
AddPendingDb(k) ==
    LET f == wk[k].file IN
    /\ At(k, "pend")
    /\ pendingDb' = pendingDb \cup {f}
    /\ wk' = [wk EXCEPT ![k].at = "unmark"]
    /\ UNCHANGED <<made, disk, remote, marks, searching, scan, chan, blamed, bounds>>

\* add_pending_delete: the database, then the set.
AddPending(k) ==
    LET f == wk[k].file IN
    /\ At(k, "pend")
    /\ pendingDb' = pendingDb \cup {f} /\ pending' = pending \cup {f}
    /\ wk' = [wk EXCEPT ![k].at = "unmark"]
    /\ UNCHANGED <<made, disk, remote, processing, removing, searching, scan, chan, blamed, bounds>>

AddPendingError(k) ==
    /\ At(k, "pend") /\ Failing
    /\ blamed' = blamed \cup {wk[k].file}
    /\ wk' = [wk EXCEPT ![k].at = "unmark"]
    /\ UNCHANGED <<local, remote, marks, searching, scan, chan>>

MarkRemoving(k) ==
    /\ At(k, "mark")
    /\ removing' = removing \cup {wk[k].file}
    /\ wk' = [wk EXCEPT ![k].at = "rm"]
    /\ UNCHANGED <<local, remote, processing, pending, searching, scan, chan, blamed, bounds>>

\* The file is removed, and released.
RemoveFile(k) ==
    /\ At(k, "rm")
    /\ disk' = disk \ {wk[k].file}
    /\ processing' = processing \ {wk[k].file}
    /\ wk' = [wk EXCEPT ![k].at = "unmark"]
    /\ UNCHANGED <<made, pendingDb, remote, pending, removing, searching, scan, chan, blamed, bounds>>

RemoveError(k) ==
    /\ At(k, "rm") /\ Failing
    /\ wk' = [wk EXCEPT ![k].at = "pend"]
    /\ UNCHANGED <<local, remote, marks, searching, scan, chan, blamed>>

\* remove_removing (without effect for a file that was in use); next file.
Unmark(k) ==
    /\ At(k, "unmark")
    /\ removing' = removing \ {wk[k].file}
    /\ wk' = [wk EXCEPT ![k] = [wk[k] EXCEPT !.at = "del", !.file = None,
                                             !.chunk = @ \ {wk[k].file}]]
    /\ UNCHANGED <<local, remote, processing, pending, searching, scan, chan, blamed, bounds>>

\* The chunk is through: the loop merges the rest, or the call returns.
NextChunk(k) ==
    /\ \/ At(k, "del") /\ wk[k].chunk = {}
       \/ At(k, "drop") /\ wk[k].rest = {}
    /\ wk' = [wk EXCEPT ![k] = IF wk[k].rest = {} THEN Idle ELSE [wk[k] EXCEPT !.at = "merge"]]
    /\ UNCHANGED <<local, remote, marks, searching, scan, chan, blamed, bounds>>

----------------------------------------------------------------------------

\* Mutant of MoverCrash: the pending deletions are not loaded.
MoverCrashForgets ==
    /\ crashes < MaxCrash /\ crashes' = crashes + 1
    /\ processing' = {} /\ pending' = {} /\ removing' = {}
    /\ searching' = [f \in Files |-> 0]
    /\ scan' = Asleep /\ chan' = {} /\ wk' = [k \in Workers |-> Idle]
    /\ blamed' = blamed \cup {f \in disk \ pendingDb : Done(f)}
    /\ UNCHANGED <<local, remote, failures>>

\* A kill and the start after it: the pending deletions are loaded from the
\* local database, and count as being processed.
MoverCrash ==
    /\ crashes < MaxCrash /\ crashes' = crashes + 1
    /\ processing' = pendingDb /\ pending' = pendingDb /\ removing' = {}
    /\ searching' = [f \in Files |-> 0]
    /\ scan' = Asleep /\ chan' = {} /\ wk' = [k \in Workers |-> Idle]
    /\ blamed' = blamed \cup {f \in disk \ pendingDb : Done(f)}
    /\ UNCHANGED <<local, remote, failures>>

ScanStep ==
    \/ ScanPending \/ PendRemove \/ PendRelease \/ PendForget \/ ScanWal \/ PrepTake \/ Send
    \/ \E f \in Files : PendSkip(f) \/ PendTake(f) \/ PrepCheck(f)

WorkerStep(k) ==
    \/ Recv(k) \/ MergeMissing(k) \/ SetList(k) \/ AddPending(k) \/ MarkRemoving(k)
    \/ RemoveFile(k) \/ Unmark(k) \/ NextChunk(k)
    \/ \E C \in SUBSET Files : Merge(k, C)
    \/ \E f \in Files : Decide(k, f) \/ DropFile(k, f)

MoverFault ==
    \/ PendRemoveError \/ PendForgetError
    \/ \E k \in Workers :
          \/ GiveUp(k) \/ Postpone(k) \/ MergeError(k) \/ SetLost(k) \/ AddPendingError(k)
          \/ RemoveError(k) \/ \E f \in Files : DropError(k, f)

MoverStep == ScanStep \/ (\E k \in Workers : WorkerStep(k)) \/ MoverFault

----------------------------------------------------------------------------

\* A worker has the file in a chunk that is in the file list, and has not
\* come to the mark that hides the file from queries.
Handover(f) ==
    /\ f \notin pending \cup removing
    /\ \E k \in Workers :
          f \in wk[k].chunk /\ wk[k].at \in {"del", "mark", "rm", "pend", "unmark"}

============================================================================
