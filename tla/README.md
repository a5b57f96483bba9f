# A TLA+ model of OpenDEQL: ingester, compactor, composite alerts

OpenDEQL (a fork of OpenObserve) takes in logs, metrics and traces, keeps them
for a while on the ingesting node, and moves them to object storage, where a
file list in a database says which files exist; compactor nodes merge the small
files into large ones. This directory models the part of it where a mistake
loses or doubles data: the way of a record batch from `write_batch` through the
WAL file, the memtable and the files of the node to object storage and through
the merge, with the queries that look at it meanwhile, and with every kill of a
process, failing operation and interleaving of tasks on the way. Besides that it
models the row of the trigger scheduler that runs a composite alert, where
handlers, timeouts, nudges and edits of several nodes meet.

All paths below are relative to `src/src/` of the repository.

## 1. Inventory

| Component | State | Operations | Model |
|---|---|---|---|
| **ingester writer** `ingester/src/writer.rs`, `memtable.rs`; `wal/src/writer.rs` | `WRITERS` (one writer per key and index), its open WAL file with a `BufWriter`, its memtable, its write queue | `get_writer`, `write_batch`, `consume_loop`, `consume_processed`, `rotate`, `check_ttl`, `flush`, `flush_all` | `Writer` |
| **dispatch of persist calls** `ingester/src/lib.rs` (`run`), `immutable.rs` (`persist`, `persist_table`) | `IMMUTABLES`, `PROCESSING_TABLES`, a channel of capacity `mem_persist_thread_num`, workers | snapshot, skip, send, enter; receive, persist, remove, release | `PersistQueue` |
| **persist and recovery** `immutable.rs` (`persist_files`), `wal.rs`, `lib.rs` (`init`) | `.wal`, `.lock`, `.par` and `.parquet` files; `IMMUTABLES`; the recovery and replay tasks | the five file steps, retry, lock file recovery, orphan sweep, WAL replay | `Persist` |
| **pack store and pack mover** `ingester/src/pack.rs`, `jobs/src/job/files/pack.rs` | `PACK_SEGMENTS`, `PACK_REGISTRY`, `.pack` and `.consumed` files, `PROCESSING_STREAMS` | `register_pack`, `mark_segments_consumed`, `begin_read`, `end_read`, `delete_pack_file`, `init`; `run`, `move_stream_segments` | `PackStore` |
| **parquet mover** `jobs/src/job/files/parquet.rs`, `db/src/file_list/local.rs`, `infra/src/file_list/pending_delete.rs` | `PROCESSING_FILES`, `PENDING_DELETE_FILES` (in memory and in the local database), `REMOVING_FILES` | scan, merge, upload, `file_list::set`, delete or pend the deletion | `ParquetMover` |
| **query read path** `search_service/src/cluster/flight.rs`, `search_service/src/grpc/wal.rs`, `common/src/infra/wal.rs` | `SEARCHING_FILES`, `SEARCHING_REQUESTS` | read the file list, memory and directory; lock, filter, read, release | `Search` |
| **file list** `infra/src/file_list/`, `db/src/file_list/` | tables `file_list`, `file_list_deleted`, `file_list_jobs`; broadcast queues | set, batch_process, jobs; broadcast | `ParquetMover`, `Compactor`; broadcast planned |
| **compactor: job generation** `compaction/src/lib.rs`, `merge/job.rs`, `db/src/compact/files.rs` | `CACHES` of each node, the offset in the database, a `dist_lock` | `run_generate_job`, `get_offset`, `set_offset`, `sync_cache_to_db` | `Offsets` |
| **compactor: merge** `compaction/src/lib.rs`, `worker.rs`, `merge/`, `deleted.rs` | rows of `file_list_jobs`, channels, merge tasks | claim, keep-alive, merge, swap, delayed deletion, timeout | `Compactor` |
| **retention, dump** `compaction/src/retention.rs`, `dump.rs` | date-range jobs | | not modelled |
| **trigger scheduler** `infra/src/scheduler/`, `core/src/alerts/scheduler/worker.rs` | `scheduled_jobs` | push, pull, keep_alive_claim, complete_claim, update_trigger, delete, watch_timeout | `Scheduler` |
| **composite alerts** `core/src/alerts/scheduler/handlers.rs`, `core/src/alerts/composite/service.rs` | `alert_composites` with its evaluation generation, alert states | handle, nudge, enable, disable, update, trigger | `Scheduler` |
| **cluster** `infra/src/cluster/`, `dist_lock.rs`, `local_lock.rs`, `coordinator/` | nodes, leases, locks | register, keep alive, lock | planned |
| **queues, idempotency, caches** `infra/src/queue/`, `idempotency.rs`, `cache/file_data/` | in memory | | planned |
| **deql** `deql-core/`, `deql/` | a registry behind one lock; the rest are stubs at this commit | | not modelled |
| **search, SQL, PromQL, HTTP API, UI** | | query evaluation | out of scope |

How the modelled parts interact. A request finds its writer in `WRITERS` and
either pushes its batch on the writer's queue, from which one consumer task
takes it (*queue mode*), or processes it in the request's own task (*direct
mode*, `wal_write_queue_enabled = false`). Processing rotates if the WAL file
or memtable is large or old, appends to the WAL file under the `wal` lock and
to the memtable under the `memtable` lock. A rotation or a flush puts the
memtable in `IMMUTABLES` under the path of its WAL file. A dispatcher sends
the paths in `IMMUTABLES` to workers. A worker dumps the memtable to `.par`
files, writes a `.lock` file that lists them, deletes the WAL file, renames
`.par` to `.parquet` and deletes the lock file; metrics take the same way with
`.pack` files. After a kill, `init` finishes what has a lock file and replays
what has a WAL file. Movers then upload the finished files, enter them in the
file list, and delete them when no query reads them. A query reads the file list
first, then the memtables, then `IMMUTABLES`, then the directory, and locks the
files it is going to read. An hour of a stream that is over gets a merge job from
the node the hash ring names; any compactor claims it, merges, swaps the files in
the file list, and the old ones are deleted after a delay.

What is hard here: four file operations that are one transaction only by
virtue of their order and of what recovery makes of each prefix of it; two
locks where one promise spans both; a registry entry that is read by one task
while another removes it; retries of half-done work; and a process that can be
killed anywhere. Between nodes it is the same with rows of tables in the place of
locks: jobs that are handed on while somebody still works on them, caches that
shadow a table, a row that is read, changed and written back. `PROJECT.json` lists these hazards at their lines.

What makes each part correct:

* writer: the WAL file and the memtable that are handed over together hold the
  same batches; an answered batch is in the channel, at work, in memory or
  stored; a batch the consume loop has synced survives a kill; flushes and writes
  end;
* dispatch: one worker per table; every table is persisted in the end;
* persist and recovery: no kill and no failing file operation loses the last
  copy of a batch or leads to two finished files with it; what is discarded is
  stored; everything is stored in the end;
* pack store: a pack is not deleted under a reader or before all of it was
  moved; a segment is not uploaded twice; every pack is moved in the end;
* parquet mover and queries: what is deleted locally is listed; nothing is
  uploaded twice; a query sees every row, and sees it once; a file stays while a
  query has it; every file is moved in the end;
* compactor: no hour goes without its merge job; every row is in a listed file
  that exists, in one only; the hour ends with its files merged and the replaced
  ones deleted;
* composite alerts: the state never goes back to an older one of the child; no
  change of the child is slept through; the composite catches up.

## 2. Modules

A batch of records is an element of a set. WAL files and memtables are ids.
Formats, schemas, sizes and the split of a memtable by stream and hour are left
out; that a memtable becomes *several* files, that a file gets a fresh name on
every attempt, and that a buffer can hold part of what was written, are kept.
One action is what one task does under one lock, or one file operation.

**`Persist`** has the disk (`wals`, `entries`, `locks`, `listed`, `par`,
`parquet`), the memory (`rows`, `imm`), one program counter per memtable for the
`persist_files` call working on it (`pc`, `path`, `attempt`), and the state of
`init` and its background task (`node`, `recWal`, `mine`, `old`, `bg`, `todo`,
`replayMem`). `mine` is the set of WAL files with an id not below
`process_start` (replay skips them) and `old` the `.par` files with an earlier
mtime (the sweep takes only those). The steps of `persist_files` are `DumpFile`,
`CreateLock`/`WriteLock`, `DeleteWal`, `RenameFile` or `DiscardFile`,
`DeleteLock`, and `Finish`, which is the end of `persist_table`. `Fail` is any
of them returning an error, after which the worker tries again. `Crash` drops
the memory. `RecoverLock`, `RecoverFile`, `RecoverDone` are
`check_uncompleted_lock_files`, `CleanOrphans` is `clean_orphan_par_files`,
`ReplayFile`/`ReplayError` are `replay_wal_files`. The writer is reduced to its
promise: `NewWal`, `GrowWal` and `Seal` hand over a WAL file with a memtable of
the same batches. The constant `FailSteps` names the operations that may fail,
and `TornLock` makes `fs::write` of the lock file two steps.

**`PersistQueue`** has the dispatcher (`persist`, run in rounds), the channel
and the workers of `run`. The order of lines 273 and 274 of `immutable.rs`,
send first and enter in `PROCESSING_TABLES` after, is two actions, `Send` and
`Enter`. A persist call is one step here that succeeds or fails.

**`Writer`** has one key of `WRITERS` and the writers that succeed each other
under it. A request or queue message is a process with the steps of
`consume_processed`: `ShouldRotate`, then `RotateWal`, `RotateMem`,
`RotateInsert` under three different locks, then `WriteWal`, `WriteMem`,
`SyncWal`. A rotation of `check_ttl` is a process too (`Ticks`). `flush` is
`FlushStart`, `FlushClose`, `FlushSync`, `FlushSwap`, `FlushInsert`, with the
`WRITERS` lock held throughout. A WAL file has a `BufWriter` (`buf`) in front of
what a reader could get out of it (`entries`). With `WalErrors` the WAL file may
refuse to be made, written or synced: `RotateWalError`, `WriteWalError`,
`SyncWalError`, `FlushSyncError`, each leaving what the code leaves at that `?`.
In queue mode `write_batch` answers Ok at `Enqueue`; without the queue the answer
is the end of `consume_processed`.

**`Ingester`** composes `Writer` and `Persist` over shared WAL files, memtables
and `IMMUTABLES`; a kill takes both down. `ImplementsPersist` says that the
composition, whose writer is the real one, is an implementation of `Persist`,
whose writer is an assumption: all that is checked and proved of `Persist`
carries over where it holds. In queue mode it does (section 4).

**`PackStore`** has the life of a pack after its rename: the registry entry and
the segments of the index (two locks), the mover's jobs, one per stream
(`Fetch`, `UploadChunk`, `ListChunk`, then `mark_segments_consumed` as
`AppendSidecar`, `RemoveSegments`, `CountConsumed`), the readers (`BeginRead`,
`ReadSegment`, `EndRead`), the deletion (`DeletePack`, `DeleteSidecar`) and
`init` after a kill. A pack has one segment of each stream. The mover's snapshot
of pending streams is abstracted to "any stream", of which the worker then takes
a fresh list, as in the code.

**`ParquetMover`** has the files of one stream and hour. The scanning task is a
record with its position in `scan_pending_delete_files` (`ScanPending`,
`PendTake`, `PendRemove`, `PendRelease`, `PendForget`) or in `scan_wal_files` and
`prepare_files` (`ScanWal`, `PrepCheck`, `PrepTake`, `Send`); a worker is a
record with its position in `move_files` (`Recv`, `Merge`, `SetList`, and per
file `Decide`, `AddPending` or `MarkRemoving` and `RemoveFile`, `Unmark`).
`SetLost` is the failing insert that `progress` turns into `Ok`. `MoverCrash` is a
kill with the load of the pending deletions at the start after it. `blamed`
records the files that a failure or a kill left on disk, listed and without a
mark: they are what the code may upload again.

**`Search`** extends it with tables on their way from the memtable to a file
(`Swap` and `Insert` are two steps of `rotate`, as in `Writer`) and with queries
whose steps are the reads in the order of the code (`QList`, `QMem`, `QImm`,
`QScan`, `QFilter`, `QLock`, `QCheck`, `QEnd`). `QReadError` is a failing read of
the memtables or of `IMMUTABLES`, which counts as empty. `QCancel` is the dropped guard,
`CleanLocks` the operator's `clean_lock_files`.

**`Offsets`** has one stream, the ring (`home`) and what each node knows of it
(`view`), the database value, `CACHES` of each node, the lock, and the steps of
`generate_job_by_stream`. That the offset read under the lock is a new variable,
and the job is for the one read before, is kept. The reads of the offset, the lock
and the insert of the job may fail.

**`Compactor`** has one hour of one stream. A claim of the job is a *run* with
its position (`send`, `chan`, `merge`, `mark`) and one task per partition (`load`,
`merge`, `write`, `trash`). Files are the ingester's and one output per run and
partition; `content` says whose rows a file has, and with it how large it is: a
file of `FullSize` ingester files is left alone (`Sealed`), a smaller output of an
incremental round is merged again. `Plans` is `plan_batches` up to
sizes: the whole hour, or any groups of an incremental round. A node has `Threads`
scheduler threads (`file_merge_thread_num`), so several runs of the job may be at
work on one node. `Start` on an empty listing goes straight to `set_job_done`.
`LoadError` is the download that fails and takes its file out of the merge.
`DeleteObjects` and `DeleteRows` are the two halves of `deleted::delete`, with the
rows in hand in `sweep`; an object that `storage::del` could not delete is logged,
and its row goes all the same.

**`Scheduler`** has one row of `scheduled_jobs` and one composite with one child.
A handler goes through `handle_composite_alert_trigger` (`ReadDefinition`,
`ReadChildren`, `Commit`, `Deliver`, `Recheck`, `Complete`); nudges and requests
read the row and write it back in separate steps. The claim epoch is only
compared, so the row keeps who pulled it last; `next_run_at` is *soon* or *sweep*.

`MC*` modules add symmetry sets. A module `<name>Proofs` extends the module
`<name>` (`SearchProofs` the mover's too) and holds its proofs. Definitions
introduced by a comment that begins *Mutant* are the faulty versions that show,
put in the place of the real one, that a property is
able to fail; no run uses them.

## 3. Runs

| Run | Question | Result |
|---|---|---|
| `Persist` | do kills and failing dumps, lock writes, unlinks, sweeps and replays double what a restart would find, or leave a lock file that lists too little; does every batch get its finished file? | holds |
| `Persist_errors` | with every operation but the rename failing (lock file deletion and discard too), retries, a lock file written in two steps: stored once, discarded only if stored, forgotten only by an empty lock file? | holds |
| `Persist_rename_retry` | `DiscardOnlyStored` when a rename fails | **violated** |
| `Writer` | queue and direct mode: rotations, flushes (queue mode), new writers, WAL files that cannot be made, written or synced: pairs handed over match (queue mode), answered batches are kept, flushes and writes end | holds |
| `PersistQueue` | one worker per table; every table persisted or stuck by the order of send and enter | holds |
| `Ingester_queue` | queue mode: composition implements `Persist`; a batch the consume loop has synced survives a kill | holds |
| `Ingester_direct_kill` | direct mode: does the lock file list everything its WAL file holds? | **violated** |
| `PackStore` | two workers, two readers, two failures, one kill: files stay for readers, deleted is moved, nothing uploaded again but by a kill, all packs moved | holds |
| `Search` | a query and two mover workers, one failure (a read of the query's too), one kill: every row seen, seen once, no file removed under the query or unlisted, uploaded once, all files moved | holds |
| `Offsets` | two nodes, two changes of the ring, a failed call (read, lock, insert), a kill: no hour skipped, every hour generated | holds |
| `Compactor` | a node with two scheduler threads, three runs, one late keep-alive, one fault (download, merge, write, deletion, database, kill): rows listed, listed once, hour sealed, garbage deleted | holds |
| `Scheduler` | two handlers, two changes of the child, two requests, one fault: never backwards, wakeups kept, catches up | holds |

The two violated properties quote a comment of the code each; `PROJECT.json`
has the quotes and what the counterexample shows:

1. A failed rename ends in a retry that discards the data (`immutable.rs:155`
   against 135-138).
2. In direct mode a kill after a rotation that overtook a write loses the write,
   although its WAL entry was synced (`wal.rs:77`, `writer.rs:490`).

### What the properties excuse

A property that the code does not keep in some window names that window as a
disjunct, so that the run shows it is the only one. Each excuse was tried: without
it TLC finds a counterexample.

* `TablesPersisted`, `Stuck`: a persist call that fails before the dispatcher's
  next instruction leaves its path in `PROCESSING_TABLES` for ever
  (`immutable.rs:273`).
* `AnsweredKept`: in queue mode `write_batch` returns Ok at the enqueue
  (`writer.rs:411-430`), and what can still happen to the batch is not claimed
  away: queued behind the `Close` of a flush it is *dropped* (`ReceiveClose`,
  `writer.rs:346`), although `flush` says "wait for all messages to be processed"
  (`writer.rs:608`); an error in the loop is logged and the batch has *failed*;
  a flush whose sync fails (`writer.rs:621`) leaves the memtable of a writer that is out of
  `WRITERS` already (`Stranded`), for the replay of a restart. The property says
  that nothing else loses it.
* `Writer` without flushes in direct mode (`FlushModes = {TRUE}`): there `flush`
  does not wait for the writes in flight, and the write ends in a memtable
  that nothing will persist. With `FlushModes = {TRUE, FALSE}` TLC shows it.
* `SyncedDurable` begins at the end of `consume_processed`. A kill before that
  loses a batch that was answered at the enqueue, also when `fsync` was asked for;
  in direct mode finding 2 applies.
* `NothingForgotten`, `Truncated`: the empty lock file (`TornLock`);
  `StoredOnce` and `NothingDoubled`: a lock file that cannot be deleted.
* `RemovedIsListed`, `DeletedIsMoved`, `Complete`, `unlisted`: `file_list::set`
  means to "retry 5 times" (`db/src/file_list/mod.rs:57`), but `progress` logs
  the failed insert and returns `Ok`; both movers then delete the only copy that
  anything knows of.
* `UploadedOnce` of `Search`, `blamed`: a kill between the entry in the file list
  and the mark, a failing pending-delete entry, a failing removal of a pending
  file (`parquet.rs:208`, which releases and forgets it all the same).
* `Complete`, `missed`: a query that comes between the swap of the memtable and
  the insert in `IMMUTABLES` (`writer.rs:590`); a table that was written before a
  kill and is being replayed, which is in neither until it is dumped
  (`wal.rs:269-273`); a failing read of the memtables or of `IMMUTABLES`, taken for
  an empty one (`grpc/wal.rs:309-330`). `uploads`: a file that was listed
  after the query had read the list and was hidden before it read the directory.
  `dropped`: a file given up with its stream.
* `AtMostOnce`, `over`: a file of a chunk that is in the file list while the
  worker has not come to its mark; with several files in the chunk, this lasts
  until the files before it are removed. Not claimed at all: rows that a query
  has both from the file list and from `IMMUTABLES`, when a file is listed before
  its table leaves `IMMUTABLES` (`persist_table` removes the table after the
  renames).
* `HeldStays`, `late` and `cleaned`: a lock taken between the mover's look and its
  removal; locks cleared by the operator.
* `FilesMoved`, `blamed`: the same failures leave a file for the next mark.
* `EveryHourGenerated`, `Abandoned`: a sync between the two halves of a release
  leaves the database with a node that will not work on the stream
  (`compaction/src/lib.rs:128`).
* `ListedOnce`, `overlap`: a job handed back while a run, or a task that outlived
  its run, still works; `batch_process` does not ask whether its inputs are still
  listed.
* `HourSealed`, `dropped`, `missed`: a failed `write_file_list` counts as done
  (`stream.rs:248`), and a file whose download failed is skipped
  (`file.rs:449-453`), and the job is set done all the same; the hour-end job is
  added between the look at the clock and `set_job_done` (`stream.rs:310`), or
  while an incremental round that found no files is about to set the job done
  without a second look (`stream.rs:134-140`).
* `GarbageDeleted`, `orphans`: a merged object whose entry was not written, or
  whose run was killed, is in no table that the deletion reads; nor is one whose
  deletion failed, which `storage::del` only logs (`infra/src/storage/mod.rs:437-498`)
  before `deleted::delete` removes its row.
* `WakeupKept`, `late`, `lost`: a nudge between the last look at the generation
  and the completion, against the comment at `handlers.rs:1399`; a nudge that
  failed and was only logged. `CatchesUp` shows that the sweep repairs both.
* `CatchesUp`, `orphan`: the row of an enabled composite was deleted by a handler
  or a request that had found it disabled (`handlers.rs:945`, `service.rs:177`),
  or never pushed after a failure.

### Bounds

`Persist_errors`: two batches tell "lost", "doubled" and "partly renamed" apart,
and make a dump of more than one file. Two WAL files are the one being recovered
or replayed and the one of the running process; in `Writer` and `Ingester` more
let two rotations overlap. Memtables need one id per WAL file plus one per replay
after a kill. One attempt that fails and one that succeeds show a retry; two kills
(`Persist`) show a kill during recovery. `Persist` checks liveness and has one
batch. In `PersistQueue` three tables and two workers let the channel fill while
both workers are busy. In `PackStore` one pack of two segments, with two workers
and two readers, has all the orders of "last segment consumed" and "last reader
gone"; two failures let a sidecar write and a deletion fail in one behaviour.

`Search` has one file, which a failure or a kill lets through the mover more than
once, with two workers. `Offsets` needs three hours for an offset that falls
behind and is passed, and two changes of the ring to come back. `Compactor` has
three files of which all make a full one, so that an incremental round can leave
one over and its output is merged again, and three runs:
the incremental one, the hour-end one and one that a timeout adds. They are all on
one node with two scheduler threads: two runs at work at once are two threads of a
node as well as two nodes, which differ only in what a kill takes with it; the
theorems hold for any number of both. `Scheduler`
has two handlers, as two claims of one row are what a lapsed lease makes, and two
requests, as a disable and an enable are what loses a row.

Other instances were checked once for the invariants and action properties:
`Persist` with two batches, `Writer` with three batches, two writers and one
rotation of `check_ttl`, `PackStore` with two packs and one reader, `Search` with
two failures and a kill, and with two queries, one worker and a failure,
`Compactor` with two partitions of two files each, and with two nodes of one
thread each. Sets are symmetric where the run checks no liveness.

Runs say `CHECK_DEADLOCK FALSE` because a system whose batches are all stored
and whose kills are used up has nothing left to do.

### Fairness

`FairSpec` in each module has weak fairness of the loops and tasks that the code
spawns and never stops: the dispatcher's rounds and the workers
(`lib.rs:166-209`), each step of a running persist call, `init` and its
background task, the consumer of a write queue and the requests in flight, the
pack mover's loop and workers, the parquet mover's scan and workers, the end of a
query (bounded by its timeout), the timers of the compactor and its threads and
tasks, the pollers and `watch_timeout` of the scheduler, and a handler, nudge or
request that has begun. Time passes: an hour ends, and a job or claim that nobody
keeps alive times out. There is none for what the environment does: new requests,
flushes, changes of a child, changes of the ring, kills and failing operations. That a
failing operation does not fail for ever is the bound on attempts
(`MaxTry`, `MaxFail`, `MaxFault`, `MaxError`): the code retries without a limit, and nothing can be
said of a disk that never works. For a pending stream of `PackStore`, fairness
of `SendStream` stands for `should_flush`, which is true once the oldest segment
is old enough.

## 4. Proofs

TLAPS proves every safety property of the passing runs, and the refinement of
`Persist` by `Ingester`, for all values of the constants. The bounds of the runs (kills,
failures, ids, claims) are constants like the others, so the theorems hold for
any of them. Each proof has the same shape: an inductive invariant `IInv`, which
TLC checked on the run's instance before it was proved, one lemma per action or
group of actions, and under it one step per conjunct that the action disturbs;
the theorems follow from `Spec => []IInv`.

| Module | Theorems (property) | Assumes |
|---|---|---|
| `PersistProofs` | `PersistTypes` (`TypeOK`), `DiscardSafe` (`DiscardOnlyStored`), `NeverForgets` (`NothingForgotten`), `StoresOnce` (`StoredOnce`), `NeverDoubles` (`NothingDoubled`), `LockComplete` (`LockListsEverything`) | `RenameWorks`, but for `PersistTypes`; `LockComplete` also `~TornLock` |
| `WriterProofs` | `WriterTypes` (`TypeOK`), `Pairs` (`Paired`), `AnsweredStays` (`AnsweredKept`) | `NoDirectFlush` |
| `IngesterProofs`, of `Ingester` | `WriterKeepsPromise` (`ImplementsPersist`), `SyncedStays` (`SyncedDurable`), `LockCompleteWithQueue` (`LockListsEverything`), `NothingDoubledWithQueue` (`NothingDoubled` of `Persist`) | `QueueMode`, `~WalErrors`; all but the first also no failing rename, `SyncedStays` and `LockCompleteWithQueue` also `~TornLock` |
| `IngesterProofs`, of `PersistQueue` | `QueueTypes` (`TypeOK`), `OneWorker` (`OneWorkerPerTable`) | |
| `PackStoreProofs` | `PackTypes` (`TypeOK`), `PacksStay` (`PacksStayForReaders`), `DeletedMoved` (`DeletedIsMoved`), `UploadedOncePerProcess` (`UploadedOnce`) | |
| `SearchProofs` | `SearchTypes` (`TypeOK`), `RemovedListed` (`RemovedIsListed`), `FilesUploadedOnce` (`UploadedOnce`), `QueriesComplete` (`Complete`), `QueriesSeeOnce` (`AtMostOnce`), `LockedFilesStay` (`HeldStays`, an action property) | |
| `OffsetsProofs` | `OffsetsTypes` (`TypeOK`), `HoursKept` (`NoHourSkipped`) | |
| `CompactorProofs` | `CompactorTypes` (`TypeOK`), `RowsStayListed` (`RowsListed`), `RowsListedOnce` (`ListedOnce`) | |
| `SchedulerProofs` | `SchedulerTypes` (`TypeOK`), `NoWakeupLost` (`WakeupKept`), `StateNeverBackwards` (`NeverBackwards`, an action property) | |

The theorems state the properties of section 3 as they are, excuses included.
What a theorem assumes beyond the named `ASSUME`s of its module is a condition
without which the code does not keep these properties: `RenameWorks`, no rename
fails (`DiscardOnlyStored` is false otherwise, finding 1); `~TornLock`, the lock
file is written in one piece (an empty one lists nothing); `NoDirectFlush`,
`flush_all` runs with the write queue only (`AnsweredKept` is false otherwise);
`QueueMode`, writes go through the queue (finding 2 otherwise); `~WalErrors`, the
writer makes, writes and syncs its WAL files without an error (a batch whose write returned an error may be in the
file and not in the memtable, so that the two are not the pair that `Persist` is
promised; `Writer` and its theorems have these errors). The
`ASSUME`s (`PersistAssumption`, `QueueAssumption`, `WriterAssumption`,
`IngesterAssumption`,
`CompactorAssumption` and so on: constants of the right kind, `None` is no id,
the sets that are counted finite) are evaluated by TLC on every run of the
modules.

### Persist queue

The inductive invariant ties each copy of a path to a
unique token: it is in the dispatcher's hand, in the channel, or with one
worker, and a path that is not in `PROCESSING_TABLES` has no token, except in
the window between `Send` and `Enter`.

### Persist and recovery

None of the properties is inductive. What carries the argument is *ownership*: a WAL file
is owned by the memtable that `IMMUTABLES` has under its path, or by the one the
replay task rebuilt from it (`Owner`). `IInv` says that

* an owner is unique, and a running persist call owns its path (`ImmInv`,
  `JobInv`), which needs that nothing of the process exists during recovery
  (`BootInv`) and that the replay queue has only old files without lock
  (`TodoInv`);
* from its writing to its deletion the lock file lists the dump, the dump is
  complete until the first rename, and from then on the WAL file is gone
  (`LockInv`);
* the sweep's files belong to nobody (`OldInv`);
* and the heart of it (`CoverInv`): the owner has every batch of its WAL file;
  once that file is gone, each of the owner's batches has a finished file or a
  temporary one that is about to be renamed.

`CoverInv` is what a failing rename breaks. `OInv` adds what "once" needs: a
batch is in one WAL file (`EntriesOnce`); a finished file means that WAL file is
gone (`StoredOrigin`); owners have nothing else (`OwnerRows`); what is about to
be renamed, by a persist call or by recovery, is not stored (`RenameUnstored`,
`LockOnce`). `LockFull`, for `LockComplete`, says that a lock file lists a dump of
every batch of its WAL file for as long as that file exists.

### Writer

The invariant has two halves. `Control` says who is at work: at most one writer
is live (in the map, or being closed by `flush_all`, which holds the lock of the
map), every task at work holds that writer (`WorkInv`), the channel has each task
once and a `Close` only from the running flush (`QueueInv`), and after flush has
waited for its loop no task is at work (`FlushInv`). With the queue the task at
work is the one that the loop is busy with, so there is one. `Data` follows a WAL
file and a memtable: ids in use differ and are not in `IMMUTABLES` yet (`WalInv`,
`MemInv`), so no insert overwrites an entry; a batch past `WriteMem` is in a
memtable that is live, held by a rotation or flush, or in `IMMUTABLES`
(`KeepInv`), in both modes, or in one that a flush with a failing sync left
behind; `QueuedInv` adds, for `AnsweredStays`, that a queued batch is in the channel
of a writer whose loop runs; with the queue, file and memtable agree but for
the buffer and the one batch between the two locks (`EvenInv`), stay a pair
between the halves of a rotation (`TurnInv`) and of a flush (`FlushedInv`), and
are `Paired` in `IMMUTABLES` (`SealedInv`). In direct mode `PairInv` fails at
`EvenInv`: two requests may be between the locks, with a rotation in the middle.

`IInv(alone)` is stated for two surroundings. With `alone` the writer runs as in
module `Writer`, where a persisted table goes in one step and nothing is killed.
Without it the invariant says what is left when others take tables and files away
while the writer works, and a kill drops the memory but not the ids and the files:
this form is the one that holds inside `Ingester`. `OutsideKeeps` says that any
step outside of the writer keeps it that respects what the writer has in its hands
(`Hands`, the WAL files not handed over, and `InUse`, the memtables), `KillKeeps`
that a kill does. `WriterShows` says what the others see of a step of the writer:
nothing (`Hidden`), batches that reach a WAL file in its hands (`Grows`), a new
WAL file (`Creates`), or a file and a memtable of the same batches that enter
`IMMUTABLES` (`HandsOver`); which ids it takes (`Draws`); and that
`consume_processed` ends, with `Fsync`, only when its batch is in a WAL file
(`Answers`). It assumes `~WalErrors`.

### The composed ingester

The invariant is `WP!IInv(FALSE)` of the writer, `RP!IInv` of the persist side
under the refinement mapping (`rows` becomes `SealedRows`: a memtable shows once
it is in `IMMUTABLES`), and `SharedInv`, what each side has to know of the other:
no writer exists while `init` reads the lock files (`UpInv`); a WAL file in the
writer's hands is there and belongs to this process, so recovery, the orphan sweep
and the replay leave it alone (`HandsInv`); an id that was not drawn names no file,
lock file or job (`NewIdInv`); and a memtable in the writer's hands, or not made
yet, has neither job nor dump (`FreshInv`). The last two are what survives
a kill that leaves files of earlier writers on the disk.

The step lemmas join the two proofs and repeat neither. `WriterSide`: the four
kinds of `WriterShows` are a stutter, `GrowWal`, `NewWal` and `Seal` of `Persist`.
`PersistKeeps`: a step of a persist call, of recovery, sweep or replay is
one of `Persist` and is outside of the writer in the sense of `OutsideKeeps`.
`KillKeeps`: a kill is both. So `Spec => RP!Spec`, and with it
`ImplementsPersist` and every theorem of `PersistProofs` for the real writer, of
which two are stated again for the composition: `LockCompleteWithQueue` is the
property that `Ingester_direct_kill` refutes in direct mode. `SyncedStays` takes
its start from `Answers` (the batch is in a WAL file in the writer's hands, which
has no lock file, so a restart would replay it) and keeps it by `KeepsNext`, the
step behind `NothingForgotten`.

### Pack store

Whether a pack goes is decided from two counters; the proof is that they count
what they should (`CountInv`, `GuardInv`): `consumed` plus the streams whose
segment is in the index or with a worker about to count it is their number, and
`readers` is the number of guards. A pack that leaves the registry has then
nothing left anywhere, and what was consumed was moved (`MovedInv`).

### Queries and the parquet mover

`PROCESSING_FILES` has every existing file that is owned or listed (`MarkInv`), so
a file has one owner (`OwnerInv`) and is listed once (`FreshInv`). A listed file
that exists is pending deletion or in a worker's hand (`HiddenInv`), which is what
a query filters by. `OwedBy` says where a table that a query owes is after each of
its reads, so the order of the reads is what makes `Complete` hold;
`SEARCHING_FILES` counts the locks (`LockInv`).

### Offsets

The copies of the offset (database, caches, local variables) do not relate to
each other in any order. What each has is its whole prefix (`PrefixInv`): every
hour before it has its job. A node raises an offset only past an hour it has just
added.

### Compactor

`RowsListed` needs no agreement between runs: an output's name enters the tables
once and only by its task (`NameInv`), so what was retired never comes back and
what is deleted, or in the hands of the delayed deletion, is not listed; what a
task retires is in its output or lost its object before (`TaskInv`), and a file
that was skipped is not retired. `ListedOnce` needs that one run is at work
(`AloneInv`), which holds until `overlap`.

### Scheduler

The argument is about the run of the last pull, the only one that can still write
the composite's state (`ClaimInv`): what it has read of the child is current, or
the change after it is still to advance the generation, died, or has advanced it
beyond what the run has read. `SweepInv` says the same of a row that sleeps.

### Only model-checked

* All liveness properties (`EventuallyStored`, `EverythingEnds`,
  `TablesPersisted`, `PacksMoved`, `FilesMoved`, `EveryHourGenerated`,
  `HourSealed`, `GarbageDeleted`, `CatchesUp`): fairness is out of the prover's
  reach.
Of `Ingester`, queue mode without failing WAL writes is proved: in direct mode the
refinement does not hold, and failing WAL operations are in the run and the theorems of
`Writer` only. TLC evaluates every `ASSUME`, and `Ingester_queue` is an instance
of the conditions of the four theorems about `Ingester`.

## 5. What is not modelled

* `persist_pack`: the same flow, but its temporary files keep their name across
  attempts. The difference matters (see the hazard at `pack.rs:145`), so
  `Persist` does not claim to cover it.
* Power loss: a file operation that returned is taken as durable, as a kill of
  the process leaves the page cache intact.
* The clock is monotonic: ids are fresh and mtimes and `process_start` ordered.
* The formats (WAL entries and checksums, parquet, pack footer), schemas,
  partitions, metrics, and the evaluation of queries.
* Errors left out, each with what it would add: a pack whose footer cannot be read
  at the start is skipped until the next one (`pack.rs:925-934`); an empty parquet
  file is deleted without a look at the locks (`parquet.rs:328-337`), and has no
  rows; a dump is complete when `DumpFile` returns, although `partition.rs:258-268`
  drops its tokio file after `write_all` without a flush; `Writer::new` panics when
  it cannot create its WAL file; a `dist_lock` that cannot be released times out.
* Of the compactor: bloom builds, downsampling and old-data jobs, several batches
  per partition (a batch fails and is written on its own, as a partition does
  here), an hour whose files exceed one output, the merge of a single file by a
  whole-hour mode, zero-size and corrupted objects (which are retired like missing
  ones), the job of a deleted stream, a second delayed deletion of the organisation
  at the same time, retention and the dump of old rows. Retention writes the same tables as
  the merge without a lock: a merge in flight can list rows again that retention
  has deleted, by the same missing look as in `ListedOnce`.
* Of the scheduler: modules that complete with `update_trigger` instead of the
  claim (alerts, reports, derived streams); the `data` column with the
  notification ledger, which a nudge writes back stale; composites whose children
  are composites; deletion and moves; budgets and blocked organisations.
* SQL is what the PostgreSQL statements do at the isolation the code asks for;
  SQLite is not modelled apart.
* The cluster registry, leases and leader, `dist_lock` itself (a lock here), the
  message queues over NATS (external), idempotency keys, the file caches, the
  broadcast of new files, the schema watcher.
* deql, which at this commit is a registry behind one lock and stubs, and search,
  SQL, PromQL and the HTTP API, which transform data.

The repository has about 900,000 lines, most of it query evaluation, request
handling, formats and data types, which have no state of the kind a model checker
explores.

## 6. Plan

In order:

1. `PackPersist`: `persist_pack` with its fixed names and torn `.pack.tmp` files,
   composed with `PackStore` at `RenamePack`.
2. Retention beside the merge over the same file list.
3. The schema watcher with `check_persist_done`, whose comparison is the opposite
   of its comment.
4. `DistLock`, the memory queue, idempotency, the WAL reader on torn tails.
5. Proofs: `SyncedDurable` with failing WAL operations, which needs a `Persist` whose
   WAL files may hold batches that no memtable has.
