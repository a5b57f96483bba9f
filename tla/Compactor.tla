----------------------------- MODULE Compactor -----------------------------
(***************************************************************************)
(* The merge of one hour of one stream by the compactor nodes.             *)
(*                                                                         *)
(* A row of file_list_jobs stands for the hour.  run_merge claims it and   *)
(* sends it over a channel to a scheduler thread of its node, which runs   *)
(* merge_by_stream: it lists the files of the hour, merges those of each   *)
(* partition in a task of its own, swaps the inputs for the output in      *)
(* file_list in one transaction, and writes the inputs to                  *)
(* file_list_deleted for run_delay_deletion.  A job that shows no sign of  *)
(* life for job_run_timeout goes back to Pending.  Each claim is a "run";  *)
(* the file a run writes for a partition is named by the two.              *)
(***************************************************************************)
EXTENDS Naturals, FiniteSets

CONSTANTS
    Nodes,      \* the compactor nodes
    None,       \* no node
    Parts,      \* the partitions (file prefixes) of the hour
    NumIn,      \* the ingester files of each partition
    FullSize,   \* merge_max_original_size, in ingester files
    Threads,    \* file_merge_thread_num: the scheduler threads of a node
    Early,      \* the ingester files already uploaded at the start
    MaxRuns,    \* bound: claims of the job
    MaxStall,   \* bound: timeouts that hit a run that is still alive
    MaxFault    \* bound: failed downloads, merges, deletions and database
                \* calls, processes killed

Runs == 1 .. MaxRuns
In == {<<p, "in", k>> : p \in Parts, k \in 1 .. NumIn}
Out(r, p) == <<p, "out", r>>
Files == In \cup {Out(r, p) : r \in Runs, p \in Parts}

ASSUME CompactorAssumption ==
    /\ NumIn \in Nat /\ MaxRuns \in Nat /\ Threads \in Nat \ {0}
    /\ FullSize \in Nat /\ None \notin Nodes
    /\ Early \subseteq In

VARIABLES
    job,        \* the row of file_list_jobs: "none", "pending", "running", "done"
    settled,    \* is_past_hour of the hour
    generated,  \* the hour-end job was added (generate_job_by_stream)
    arrived,    \* the ingester files uploaded so far
    listed,     \* the files in file_list
    objects,    \* the files in the object store
    trash,      \* the files in file_list_deleted
    sweep,      \* the rows of it that deleted::delete has in hand
    content,    \* [Files -> SUBSET In]: whose rows a file holds
    run,        \* [Runs -> [at, node, incr]]: the claims
    task,       \* [Runs -> [Parts -> [at, files, gone]]]: the merges of a run
    overlap,    \* history: the job was handed back while a run still worked
    missed,     \* history: the hour-end job came before the RunMark of a
                \* round that had not seen the hour settle
    dropped,    \* history: files were left out of a merge, or a merge was
                \* dropped, after a failed download or write
    orphans,    \* history: files no table will name again
    stalls, faults

store == <<listed, objects, trash, sweep, content>>
ghosts == <<overlap, missed, dropped, orphans>>
bounds == <<stalls, faults>>
hour == <<settled, generated, arrived>>
vars == <<job, hour, store, run, task, ghosts, bounds>>

Idle == [at |-> "none", files |-> {}, gone |-> {}]

Init ==
    /\ job = "none" /\ settled = FALSE /\ generated = FALSE
    /\ arrived = Early
    /\ listed = Early /\ objects = Early /\ trash = {} /\ sweep = {}
    /\ content = [f \in Files |-> IF f \in In THEN {f} ELSE {}]
    /\ run = [r \in Runs |-> [at |-> "free", node |-> None, incr |-> FALSE]]
    /\ task = [r \in Runs |-> [p \in Parts |-> Idle]]
    /\ overlap = FALSE /\ missed = FALSE /\ dropped = FALSE /\ orphans = {}
    /\ stalls = 0 /\ faults = 0

TaskAlive(r, p) == task[r][p].at \in {"load", "merge", "write", "trash"}
(* A claim is at work.  update_running_jobs is called for it until it is in
   the channel and while merge_by_stream runs, not in between and not for
   tasks that are left over.                                               *)
Alive(r) == run[r].at \in {"send", "chan", "merge", "mark"} \/ \E p \in Parts : TaskAlive(r, p)

(* A file is as large as the ingester files it was merged from. *)
Sealed(f) == Cardinality(content[f]) >= FullSize

(* query_for_merge, the files of one partition: those that have reached
   merge_max_original_size are left alone.                                  *)
ToMerge(p) == {f \in listed : f[1] = p /\ ~Sealed(f)}

-----------------------------------------------------------------------------
(* add_job: a new row is Pending, a Done one is re-armed, others stay. *)
AddJob == job' = IF job \in {"none", "done"} THEN "pending" ELSE job

(* The parquet mover uploads a file of the open hour and lists it; when its
   counter is full incr_pending_file adds an incremental job.  The files of a
   partition are numbered as they arrive.                                   *)
Arrive(f) ==
    /\ f \in In \ arrived /\ ~settled
    /\ \A g \in In \ arrived : g[1] = f[1] => g[3] >= f[3]
    /\ arrived' = arrived \cup {f}
    /\ listed' = listed \cup {f} /\ objects' = objects \cup {f}
    /\ AddJob \/ UNCHANGED job
    /\ UNCHANGED <<settled, generated, trash, sweep, content, run, task, ghosts, bounds>>

Settle ==
    /\ ~settled /\ settled' = TRUE
    /\ UNCHANGED <<job, generated, arrived, store, run, task, ghosts, bounds>>

(* generate_job_by_stream, once the hour is past. *)
HourEnd ==
    /\ settled /\ ~generated /\ generated' = TRUE
    /\ AddJob
    /\ missed' = \E r \in Runs : run[r].incr /\ run[r].at = "mark"
    /\ UNCHANGED <<settled, arrived, store, run, task, overlap, dropped, orphans, bounds>>

-----------------------------------------------------------------------------
(* Mutant: the claim does not look at the status of the row. *)
ClaimAny(n) ==
    /\ job \in {"pending", "running"} /\ job' = "running"
    /\ ~\E r \in Runs : run[r].at = "send" /\ run[r].node = n
    /\ \E r \in Runs :
        /\ run[r].at = "free" /\ \A s \in Runs : s < r => run[s].at # "free"
        /\ run' = [run EXCEPT ![r] = [at |-> "send", node |-> n, incr |-> FALSE]]
    /\ UNCHANGED <<hour, store, task, ghosts, bounds>>

(* run_merge: get_pending_jobs makes the row Running in one transaction. *)
Claim(n) ==
    /\ job = "pending" /\ job' = "running"
    /\ ~\E r \in Runs : run[r].at = "send" /\ run[r].node = n
    /\ \E r \in Runs :
        /\ run[r].at = "free" /\ \A s \in Runs : s < r => run[s].at # "free"
        /\ run' = [run EXCEPT ![r] = [at |-> "send", node |-> n, incr |-> FALSE]]
    /\ UNCHANGED <<hour, store, task, ghosts, bounds>>

OfNode(r, ats) == \E s \in Runs : run[s].node = run[r].node /\ run[s].at \in ats

(* Mutant: the channel takes any number of jobs. *)
SendUnbounded(r) ==
    /\ run[r].at = "send"
    /\ run' = [run EXCEPT ![r].at = "chan"]
    /\ UNCHANGED <<job, hour, store, task, ghosts, bounds>>

(* job_tx.send: the channel of a node holds one job. *)
Send(r) ==
    /\ run[r].at = "send" /\ ~OfNode(r, {"chan"})
    /\ run' = [run EXCEPT ![r].at = "chan"]
    /\ UNCHANGED <<job, hour, store, task, ghosts, bounds>>

(* What plan_batches may give one partition: the whole hour merges all its
   files, an incremental round merges groups that are full and leaves the
   rest; a single file is left alone.                                       *)
Plans(p, incr) ==
    {S \in SUBSET ToMerge(p) : IF incr THEN S = {} \/ Cardinality(S) > 1
                               ELSE S = IF Cardinality(ToMerge(p)) > 1 THEN ToMerge(p) ELSE {}}

InThread(n) == {r \in Runs : run[r].node = n /\ run[r].at \in {"merge", "mark"}}

(* A scheduler thread of the node receives the job. *)
Received(r) ==
    run[r].at = "chan" /\ Cardinality(InThread(run[r].node)) < Threads

(* merge_by_stream: whether the hour is still open is decided here, then the
   files are listed.  When there are none the run goes on to set_job_done, and
   does not look at the hour again.                                         *)
Start(r) ==
    LET at(x) == run' = [run EXCEPT ![r] = [run[r] EXCEPT !.at = x, !.incr = ~settled]]
    IN
    /\ Received(r)
    /\ \/ (\A p \in Parts : ToMerge(p) = {}) /\ at("mark") /\ UNCHANGED task
       \/ /\ \E p \in Parts : ToMerge(p) # {}
          /\ at("merge")
          /\ \E plan \in [Parts -> SUBSET listed] :
              /\ \A p \in Parts : plan[p] \in Plans(p, ~settled)
              /\ task' = [task EXCEPT ![r] = [p \in Parts |->
                    [at |-> IF plan[p] = {} THEN "ok" ELSE "load", files |-> plan[p], gone |-> {}]]]
    /\ UNCHANGED <<job, hour, store, ghosts, bounds>>

-----------------------------------------------------------------------------
(* merge_files, first part: cache_remote_files sets aside the files that the
   store no longer has, to be retired, and keeps the others; fewer than two are
   not merged and stay.                                                      *)
Loaded(r, p, gone, kept) ==
    task' = [task EXCEPT ![r][p] =
        IF Cardinality(kept) > 1 THEN [at |-> "merge", files |-> kept, gone |-> gone]
        ELSE [at |-> IF gone = {} THEN "ok" ELSE "write", files |-> {}, gone |-> gone]]

(* A file that has no object is not noticed when it is in the disk cache, or
   when nothing is downloaded; reading it then may be a MergeError.          *)
Load(r, p) ==
    LET t == task[r][p] IN
    /\ t.at = "load"
    /\ \E gone \in SUBSET (t.files \ objects) : Loaded(r, p, gone, t.files \ gone)
    /\ UNCHANGED <<job, hour, store, run, ghosts, bounds>>

(* A download fails with another error: settle_download takes the file out of
   the merge and does not retire it; the merge goes on without it.          *)
LoadError(r, p) ==
    LET t == task[r][p] IN
    /\ t.at = "load"
    /\ \E gone \in SUBSET (t.files \ objects) : \E skip \in SUBSET (t.files \ gone) \ {{}} :
        /\ faults' = faults + Cardinality(skip) /\ faults' <= MaxFault
        /\ Loaded(r, p, gone, t.files \ (gone \cup skip))
    /\ dropped' = TRUE
    /\ UNCHANGED <<job, hour, store, run, overlap, missed, orphans, stalls>>

(* merge_files, second part: the output is in the object store. *)
Merge(r, p) ==
    /\ task[r][p].at = "merge"
    /\ objects' = objects \cup {Out(r, p)}
    /\ content' = [content EXCEPT ![Out(r, p)] = UNION {content[f] : f \in task[r][p].files}]
    /\ task' = [task EXCEPT ![r][p].at = "write"]
    /\ UNCHANGED <<job, hour, listed, trash, sweep, run, ghosts, bounds>>

(* merge_files fails, before its output is stored or (the index) after. *)
MergeError(r, p) ==
    /\ task[r][p].at \in {"load", "merge"} /\ faults < MaxFault
    /\ faults' = faults + 1
    /\ \/ UNCHANGED <<objects, orphans>>
       \/ /\ task[r][p].at = "merge"
          /\ objects' = objects \cup {Out(r, p)} /\ orphans' = orphans \cup {Out(r, p)}
    /\ task' = [task EXCEPT ![r][p] = [Idle EXCEPT !.at = "error"]]
    /\ UNCHANGED <<job, hour, listed, trash, sweep, content, run, overlap, missed, dropped, stalls>>

New(r, p) == IF task[r][p].files = {} THEN {} ELSE {Out(r, p)}
Retired(r, p) == task[r][p].files \cup task[r][p].gone
Swapped(r, p) == (listed \ Retired(r, p)) \cup New(r, p)
Finished(r, p) == [task EXCEPT ![r][p] = [Idle EXCEPT !.at = "ok"]]

(* write_file_list, batch_process: the output goes in and the inputs go out
   in one transaction, which does not ask whether the inputs were still there. *)
Write(r, p) ==
    /\ task[r][p].at = "write"
    /\ listed' = Swapped(r, p)
    /\ task' = [task EXCEPT ![r][p].at = "trash"]
    /\ UNCHANGED <<job, hour, objects, trash, sweep, content, run, ghosts, bounds>>

(* Mutant: the inputs are retired although the swap never happened. *)
WriteErrorRetires(r, p) ==
    /\ task[r][p].at = "write" /\ faults < MaxFault
    /\ faults' = faults + 1
    /\ dropped' = TRUE
    /\ orphans' = orphans \cup New(r, p)
    /\ task' = [task EXCEPT ![r][p].at = "trash"]
    /\ UNCHANGED <<job, hour, store, run, overlap, missed, stalls>>

(* All tries of batch_process fail: the merge is dropped, and merge_by_stream
   goes on as if the batch was done.  Or the transaction was committed and
   only its answer was lost: the tries after it meet the unique index.       *)
WriteError(r, p) ==
    /\ task[r][p].at = "write" /\ faults < MaxFault
    /\ faults' = faults + 1
    /\ dropped' = TRUE
    /\ \/ orphans' = orphans \cup New(r, p) /\ UNCHANGED listed
       \/ listed' = Swapped(r, p) /\ orphans' = orphans \cup Retired(r, p)
    /\ task' = Finished(r, p)
    /\ UNCHANGED <<job, hour, objects, trash, sweep, content, run, overlap, missed, stalls>>

(* Mutant: only the files whose object is gone are written down. *)
TrashGone(r, p) ==
    /\ task[r][p].at = "trash"
    /\ trash' = trash \cup task[r][p].gone
    /\ task' = Finished(r, p)
    /\ UNCHANGED <<job, hour, listed, objects, sweep, content, run, ghosts, bounds>>

(* write_file_list, batch_add_deleted. *)
Trash(r, p) ==
    /\ task[r][p].at = "trash"
    /\ trash' = trash \cup Retired(r, p)
    /\ task' = Finished(r, p)
    /\ UNCHANGED <<job, hour, listed, objects, sweep, content, run, ghosts, bounds>>

TrashError(r, p) ==
    /\ task[r][p].at = "trash" /\ faults < MaxFault
    /\ faults' = faults + 1
    /\ orphans' = orphans \cup Retired(r, p)
    /\ task' = Finished(r, p)
    /\ UNCHANGED <<job, hour, store, run, overlap, missed, dropped, stalls>>

-----------------------------------------------------------------------------
(* A task failed: merge_by_stream returns at once, the other tasks go on
   without it, and the job stays Running until it times out.                *)
RunError(r) ==
    /\ run[r].at = "merge"
    /\ \E p \in Parts : task[r][p].at = "error"
    /\ run' = [run EXCEPT ![r].at = "end"]
    /\ UNCHANGED <<job, hour, store, task, ghosts, bounds>>

(* merge_by_stream has returned. *)
Ended(r) == [run EXCEPT ![r] = [at |-> "end", node |-> None, incr |-> FALSE]]
NoTasks(r) == [task EXCEPT ![r] = [p \in Parts |-> Idle]]

AllOk(r) == \A p \in Parts : task[r][p].at = "ok"

(* Mutant: the end of the round does not look at the hour again. *)
RunCheckBlind(r) ==
    /\ run[r].at = "merge" /\ AllOk(r)
    /\ run' = [run EXCEPT ![r].at = "mark"]
    /\ task' = NoTasks(r)
    /\ UNCHANGED <<job, hour, store, ghosts, bounds>>

(* All tasks are through, after a listing that was not empty: an incremental
   round whose hour has settled leaves the job Running, every other run goes on
   to set_job_done.                                                         *)
RunCheck(r) ==
    /\ run[r].at = "merge" /\ AllOk(r)
    /\ run' = IF run[r].incr /\ settled THEN Ended(r) ELSE [run EXCEPT ![r].at = "mark"]
    /\ task' = NoTasks(r)
    /\ UNCHANGED <<job, hour, store, ghosts, bounds>>

(* set_job_done asks neither for the status nor for the node of the row. *)
RunMark(r) ==
    /\ run[r].at = "mark"
    /\ run' = Ended(r)
    /\ job' = "done"
    /\ UNCHANGED <<hour, store, task, ghosts, bounds>>

(* merge_by_stream cannot read the schema or the file list and returns, or
   set_job_done fails: the job stays Running.                               *)
RunFault(r) ==
    /\ Received(r) \/ run[r].at = "mark"
    /\ faults < MaxFault
    /\ faults' = faults + 1
    /\ run' = Ended(r)
    /\ UNCHANGED <<job, hour, store, task, ghosts, stalls>>

(* check_running_jobs: a Running row whose updated_at is too old is Pending
   again.  A run that is still at work is hit when its keep-alive does not get
   through for as long as the timeout, and when nobody calls it: in the
   channel, or in a task that outlives its run.                             *)
CheckRunning ==
    /\ job = "running" /\ job' = "pending"
    /\ IF \E r \in Runs : Alive(r)
       THEN stalls < MaxStall /\ stalls' = stalls + 1
       ELSE UNCHANGED stalls
    /\ overlap' = (overlap \/ \E r \in Runs : Alive(r))
    /\ UNCHANGED <<hour, store, run, task, missed, dropped, orphans, faults>>

-----------------------------------------------------------------------------
(* deleted::delete takes the rows that are old enough, here all there are, and
   deletes their objects.  storage::del only logs an object it cannot delete. *)
DeleteObjects ==
    /\ sweep = {} /\ trash # {}
    /\ sweep' = trash
    /\ \E kept \in SUBSET (trash \cap objects) :
        /\ faults' = faults + Cardinality(kept) /\ faults' <= MaxFault
        /\ objects' = (objects \ trash) \cup kept
    /\ UNCHANGED <<job, hour, listed, trash, content, run, task, ghosts, stalls>>

(* Then the rows go, whether their objects did or not. *)
DeleteRows ==
    /\ sweep # {} /\ sweep' = {}
    /\ trash' = trash \ sweep
    /\ orphans' = orphans \cup (sweep \cap objects)
    /\ UNCHANGED <<job, hour, listed, objects, content, run, task,
                   overlap, missed, dropped, bounds>>

(* batch_remove_deleted fails, or the node is killed: the rows are taken again. *)
DeleteRowsError ==
    /\ sweep # {} /\ sweep' = {}
    /\ faults < MaxFault /\ faults' = faults + 1
    /\ UNCHANGED <<job, hour, listed, objects, trash, content, run, task, ghosts, stalls>>

(* A compactor is killed: its runs and tasks end where they are. *)
Crash(n) ==
    LET mine == {r \in Runs : run[r].node = n /\ Alive(r)}
        at(s) == {x \in mine \X Parts : task[x[1]][x[2]].at = s}
    IN
    /\ faults < MaxFault /\ mine # {}
    /\ faults' = faults + 1
    /\ run' = [r \in Runs |-> IF r \in mine THEN Ended(r)[r] ELSE run[r]]
    /\ task' = [r \in Runs |-> IF r \in mine THEN [p \in Parts |-> Idle] ELSE task[r]]
    /\ orphans' = orphans \cup (UNION {New(x[1], x[2]) : x \in at("write")})
                          \cup (UNION {Retired(x[1], x[2]) : x \in at("trash")})
    /\ UNCHANGED <<job, hour, store, overlap, missed, dropped, stalls>>

TaskStep(r, p) == Load(r, p) \/ Merge(r, p) \/ Write(r, p) \/ Trash(r, p)
TaskFault(r, p) == LoadError(r, p) \/ MergeError(r, p) \/ WriteError(r, p) \/ TrashError(r, p)
RunStep(r) == Send(r) \/ Start(r) \/ RunError(r) \/ RunCheck(r) \/ RunMark(r)

Next ==
    \/ \E f \in In : Arrive(f)
    \/ Settle \/ HourEnd \/ CheckRunning
    \/ \E n \in Nodes : Claim(n) \/ Crash(n)
    \/ \E r \in Runs : RunStep(r) \/ RunFault(r)
    \/ \E r \in Runs, p \in Parts : TaskStep(r, p) \/ TaskFault(r, p)
    \/ DeleteObjects \/ DeleteRows \/ DeleteRowsError

Spec == Init /\ [][Next]_vars

(* The jobs of a node are timers that go on for ever, its threads and tasks
   are scheduled, the hour ends, and a job that nobody keeps alive times out. *)
FairSpec ==
    /\ Spec
    /\ WF_vars(Settle) /\ WF_vars(HourEnd)
    /\ WF_vars(\E n \in Nodes : Claim(n))
    /\ \A r \in Runs : WF_vars(RunStep(r)) /\ \A p \in Parts : WF_vars(TaskStep(r, p))
    /\ WF_vars(CheckRunning /\ stalls' = stalls)
    /\ WF_vars(DeleteObjects \/ DeleteRows)

-----------------------------------------------------------------------------
(* The tables and the runs are well formed.  A node sends one job at a time, has
   one in its channel, and works on no more jobs at once than it has scheduler
   threads; what delayed deletion has in hand is still in its table.        *)
TypeOK ==
    /\ job \in {"none", "pending", "running", "done"}
    /\ settled \in BOOLEAN /\ generated \in BOOLEAN
    /\ arrived \subseteq In
    /\ listed \subseteq Files /\ objects \subseteq Files /\ trash \subseteq Files
    /\ sweep \subseteq trash
    /\ content \in [Files -> SUBSET In]
    /\ run \in [Runs -> [at : {"free", "send", "chan", "merge", "mark", "end"},
                         node : Nodes \cup {None}, incr : BOOLEAN]]
    /\ task \in [Runs -> [Parts ->
          [at : {"none", "load", "merge", "write", "trash", "ok", "error"},
           files : SUBSET Files, gone : SUBSET Files]]]
    /\ \A r, s \in Runs :
        run[r].node = run[s].node /\ run[r].at = run[s].at /\ run[r].at \in {"send", "chan"} => r = s
    /\ \A n \in Nodes : Cardinality(InThread(n)) <= Threads
    /\ {overlap, missed, dropped} \subseteq BOOLEAN /\ orphans \subseteq Files

(* Every uploaded row is at all times in a listed file that the object store
   has: whatever two runs of the same job, a timeout, a failed write, the
   delayed deletion or a kill do to each other, a query can find it.        *)
RowsListed ==
    \A x \in arrived : \E f \in listed \cap objects : x \in content[f]

(* No row is in two listed files, so no query counts it twice, as long as the
   job was never handed back while an earlier run or one of its tasks was
   still at work.  It is handed back so when a keep-alive is late, while the
   job waits in the channel, and when a failed task ends the run before the
   other tasks are through.                                                 *)
ListedOnce ==
    ~overlap => \A f, g \in listed : f # g => content[f] \cap content[g] = {}

(* No claim is left in the model: the bound MaxRuns, not the code, stops it. *)
OutOfRuns == job = "pending" /\ \A r \in Runs : run[r].at # "free"

(* The hour-end pass seals what is left: each partition of a settled hour ends
   up with at most one file that could still be merged.  Excused are files left
   out of a merge, or a merge dropped, after failed downloads and writes;
   overlapping runs; and a hour-end job that was added while an incremental
   round was about to set the job done: one that had looked at the hour the
   second time, or that found no files to merge and never does.             *)
HourSealed ==
    <>[](\/ \A p \in Parts : Cardinality(ToMerge(p)) < 2
         \/ dropped \/ overlap \/ missed \/ OutOfRuns)

(* The object store ends up with the listed files and nothing else but the
   ones that no table names: left there by a failed write or a kill between two
   writes, or by a deletion that failed and was only logged before the row went. *)
GarbageDeleted == <>[](objects \ listed \subseteq orphans)

=============================================================================
