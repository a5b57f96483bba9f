------------------------------ MODULE Offsets ------------------------------
(***************************************************************************)
(* Who generates the merge jobs of a stream, and from which hour on.       *)
(*                                                                         *)
(* Every compactor node runs run_generate_job over all streams; the        *)
(* consistent hash names the node a stream belongs to.  That node keeps    *)
(* the hour it has reached and its own uuid in CACHES, a map in memory     *)
(* that shadows the database: set_offset with a node writes the map only,  *)
(* sync_cache_to_db copies the map to the database every few minutes, and  *)
(* set_offset without a node, the release of a stream, writes the database *)
(* and then drops the entry.  One stream is modelled; hours are numbers    *)
(* and offset 0 means that no hour was ever recorded.                      *)
(***************************************************************************)
EXTENDS Naturals, FiniteSets

CONSTANTS
    Nodes,      \* the compactor nodes
    None,       \* no node, no cache entry
    Gone,       \* the uuid of a process that has ended
    Created,    \* the hour the stream was created in
    MaxHour,    \* bound: the last hour that passes
    MaxMove,    \* bound: changes of the consistent hash
    MaxError,   \* bound: failed database calls
    MaxCrash    \* bound: compactor processes killed

ASSUME OffsetsAssumption ==
    /\ Created \in Nat \ {0}
    /\ MaxHour \in Nat
    /\ None \notin Nodes /\ Gone \notin Nodes /\ None # Gone

VARIABLES
    now,        \* the hours before this one are past (is_past_hour)
    home,       \* the node the hash ring of the cluster names for the stream
    view,       \* [Nodes -> Nodes]: the node each node's own ring names
    db,         \* the database value of the stream: its offset and node
    cache,      \* [Nodes -> entry or None]: CACHES of each node
    lock,       \* the node that holds the dist_lock of the stream
    pc,         \* [Nodes -> step of run_generate_job]
    offset,     \* [Nodes -> Nat]: the local variable of generate_job_by_stream
    jobs,       \* the hours that have had a row in file_list_jobs
    moves, errors, crashes

vars == <<now, home, view, db, cache, lock, pc, offset, jobs, moves, errors, crashes>>

Entry(o, n) == [off |-> o, node |-> n]
Steps == {"idle", "lock", "take", "add", "set", "drop"}

Init ==
    /\ now = Created
    /\ home \in Nodes
    /\ view = [n \in Nodes |-> home]
    /\ db = Entry(0, None)
    /\ cache = [n \in Nodes |-> None]
    /\ lock = None
    /\ pc = [n \in Nodes |-> "idle"]
    /\ offset = [n \in Nodes |-> 0]
    /\ jobs = {}
    /\ moves = 0 /\ errors = 0 /\ crashes = 0

(* get_offset: the entry of CACHES when there is one, else the database. *)
GetOffset(n) == IF cache[n] # None THEN cache[n] ELSE db

(* What get_offset leaves in CACHES: a value it read from the database is
   kept only when it names no node or this one.                           *)
Remember(n, v) == IF v.node \in {None, n} THEN [cache EXCEPT ![n] = v] ELSE cache

(* The value names another node that is still in the cluster. *)
OtherWorks(n, v) == v.node \in Nodes \ {n}

(***************************************************************************)
(* generate_job_by_stream                                                  *)
(***************************************************************************)

(* The first get_offset: return when another node works on the stream, go on
   to the job when the entry is ours, else take the lock.                  *)
GenRead(n) ==
    LET v == GetOffset(n) IN
    /\ pc[n] = "idle" /\ view[n] = n
    /\ ~OtherWorks(n, v)
    /\ cache' = Remember(n, v)
    /\ offset' = [offset EXCEPT ![n] = v.off]
    /\ pc' = [pc EXCEPT ![n] = IF v.node = n THEN "add" ELSE "lock"]
    /\ UNCHANGED <<now, home, view, db, lock, jobs, moves, errors, crashes>>

(* get_offset cannot read the database and takes that for offset 0. *)
GenReadError(n) ==
    /\ pc[n] = "idle" /\ view[n] = n /\ cache[n] = None
    /\ errors < MaxError
    /\ cache' = [cache EXCEPT ![n] = Entry(0, None)]
    /\ offset' = [offset EXCEPT ![n] = 0]
    /\ pc' = [pc EXCEPT ![n] = "lock"]
    /\ errors' = errors + 1
    /\ UNCHANGED <<now, home, view, db, lock, jobs, moves, crashes>>

GenLock(n) ==
    /\ pc[n] = "lock" /\ lock = None
    /\ lock' = n
    /\ pc' = [pc EXCEPT ![n] = "take"]
    /\ UNCHANGED <<now, home, view, db, cache, offset, jobs, moves, errors, crashes>>

(* dist_lock::lock fails or its wait times out: the round ends. *)
GenLockError(n) ==
    /\ pc[n] = "lock" /\ errors < MaxError
    /\ pc' = [pc EXCEPT ![n] = "idle"]
    /\ errors' = errors + 1
    /\ UNCHANGED <<now, home, view, db, cache, lock, offset, jobs, moves, crashes>>

(* Mutant: the early return under the lock forgets to unlock. *)
GenTakeKeepsLock(n) ==
    LET v == GetOffset(n) IN
    /\ pc[n] = "take"
    /\ IF OtherWorks(n, v)
       THEN pc' = [pc EXCEPT ![n] = "idle"] /\ UNCHANGED <<cache, lock>>
       ELSE /\ cache' = [cache EXCEPT ![n] = Entry(v.off, n)]
            /\ pc' = [pc EXCEPT ![n] = "add"]
            /\ lock' = None
    /\ UNCHANGED <<now, home, view, db, offset, jobs, moves, errors, crashes>>

(* Under the lock: read again, return when another node was first, else put
   this node into CACHES.  The offset read here is a new variable of the
   block: the job is generated from the one read before the lock.          *)
GenTake(n) ==
    LET v == GetOffset(n) IN
    /\ pc[n] = "take"
    /\ lock' = None
    /\ IF OtherWorks(n, v)
       THEN pc' = [pc EXCEPT ![n] = "idle"] /\ UNCHANGED cache
       ELSE /\ cache' = [cache EXCEPT ![n] = Entry(v.off, n)]
            /\ pc' = [pc EXCEPT ![n] = "add"]
    /\ UNCHANGED <<now, home, view, db, offset, jobs, moves, errors, crashes>>

(* The get_offset under the lock cannot read the database either: offset 0
   is no other node's, and this node takes the stream with it.             *)
GenTakeError(n) ==
    /\ pc[n] = "take" /\ cache[n] = None /\ errors < MaxError
    /\ lock' = None
    /\ cache' = [cache EXCEPT ![n] = Entry(0, n)]
    /\ pc' = [pc EXCEPT ![n] = "add"]
    /\ errors' = errors + 1
    /\ UNCHANGED <<now, home, view, db, offset, jobs, moves, crashes>>

(* The hour the job is for: an offset of 0 means the creation of the stream. *)
Hour(n) == IF offset[n] = 0 THEN Created ELSE offset[n]

(* add_job for the hour when it is past, else wait for the next round. *)
GenAdd(n) ==
    /\ pc[n] = "add"
    /\ IF Hour(n) < now
       THEN /\ jobs' = jobs \cup {Hour(n)}
            /\ offset' = [offset EXCEPT ![n] = Hour(n)]
            /\ pc' = [pc EXCEPT ![n] = "set"]
       ELSE pc' = [pc EXCEPT ![n] = "idle"] /\ UNCHANGED <<jobs, offset>>
    /\ UNCHANGED <<now, home, view, db, cache, lock, moves, errors, crashes>>

(* add_job fails, or the schema cannot be read: the round ends. *)
GenAddError(n) ==
    /\ pc[n] = "add" /\ errors < MaxError
    /\ pc' = [pc EXCEPT ![n] = "idle"]
    /\ errors' = errors + 1
    /\ UNCHANGED <<now, home, view, db, cache, lock, offset, jobs, moves, crashes>>

(* Mutant: the job is for the hour read before the lock, the new offset is
   one past the hour read under it.                                        *)
GenSetFromCache(n) ==
    /\ pc[n] = "set"
    /\ cache' = [cache EXCEPT ![n] = Entry(
           IF cache[n] = None \/ cache[n].off = 0 THEN offset[n] + 1 ELSE cache[n].off + 1, n)]
    /\ pc' = [pc EXCEPT ![n] = "idle"]
    /\ UNCHANGED <<now, home, view, db, lock, offset, jobs, moves, errors, crashes>>

(* The next hour and this node go into CACHES. *)
GenSet(n) ==
    /\ pc[n] = "set"
    /\ cache' = [cache EXCEPT ![n] = Entry(offset[n] + 1, n)]
    /\ pc' = [pc EXCEPT ![n] = "idle"]
    /\ UNCHANGED <<now, home, view, db, lock, offset, jobs, moves, errors, crashes>>

(***************************************************************************)
(* run_generate_job on a node that the hash does not name: a stream it     *)
(* holds is released, the database first and then the entry.               *)
(***************************************************************************)
ReleasePut(n) ==
    /\ pc[n] = "idle" /\ view[n] # n /\ cache[n] # None
    /\ db' = Entry(cache[n].off, None)
    /\ pc' = [pc EXCEPT ![n] = "drop"]
    /\ UNCHANGED <<now, home, view, cache, lock, offset, jobs, moves, errors, crashes>>

ReleaseDrop(n) ==
    /\ pc[n] = "drop"
    /\ cache' = [cache EXCEPT ![n] = None]
    /\ pc' = [pc EXCEPT ![n] = "idle"]
    /\ UNCHANGED <<now, home, view, db, lock, offset, jobs, moves, errors, crashes>>

(* sync_cache_to_db, a job of its own that runs beside the others. *)
SyncToDb(n) ==
    /\ cache[n] # None
    /\ cache[n].off > 0
    /\ db # cache[n]
    /\ db' = cache[n]
    /\ UNCHANGED <<now, home, view, cache, lock, pc, offset, jobs, moves, errors, crashes>>

(***************************************************************************)
(* The clock, the cluster and the failures                                 *)
(***************************************************************************)
HourPasses ==
    /\ now < MaxHour
    /\ now' = now + 1
    /\ UNCHANGED <<home, view, db, cache, lock, pc, offset, jobs, moves, errors, crashes>>

(* A node joins or leaves: the ring names another node for the stream... *)
Rehash ==
    /\ moves < MaxMove
    /\ \E n \in Nodes \ {home} : home' = n
    /\ moves' = moves + 1
    /\ UNCHANGED <<now, view, db, cache, lock, pc, offset, jobs, errors, crashes>>

(* ... and each node learns of it in its own time. *)
LearnHome(n) ==
    /\ view[n] # home
    /\ view' = [view EXCEPT ![n] = home]
    /\ UNCHANGED <<now, home, db, cache, lock, pc, offset, jobs, moves, errors, crashes>>

(* A compactor is killed and comes back with a new uuid: its CACHES and its
   lock are gone, and its old uuid is no longer in the cluster.            *)
Crash(n) ==
    /\ crashes < MaxCrash
    /\ crashes' = crashes + 1
    /\ cache' = [cache EXCEPT ![n] = None]
    /\ pc' = [pc EXCEPT ![n] = "idle"]
    /\ offset' = [offset EXCEPT ![n] = 0]
    /\ lock' = IF lock = n THEN None ELSE lock
    /\ db' = IF db.node = n THEN [db EXCEPT !.node = Gone] ELSE db
    /\ UNCHANGED <<now, home, view, jobs, moves, errors>>

Generate(n) ==
    \/ GenRead(n) \/ GenReadError(n) \/ GenLock(n) \/ GenLockError(n)
    \/ GenTake(n) \/ GenTakeError(n) \/ GenAdd(n) \/ GenAddError(n) \/ GenSet(n)

Next ==
    \/ \E n \in Nodes :
          \/ Generate(n) \/ ReleasePut(n) \/ ReleaseDrop(n) \/ SyncToDb(n)
          \/ LearnHome(n) \/ Crash(n)
    \/ HourPasses \/ Rehash

Spec == Init /\ [][Next]_vars

(* The jobs are started by timers of the node and the steps of one end, the
   clock goes on and the nodes learn of a change of the cluster.            *)
FairSpec ==
    /\ Spec
    /\ WF_vars(HourPasses)
    /\ \A n \in Nodes :
        /\ WF_vars(Generate(n) \/ ReleasePut(n) \/ ReleaseDrop(n))
        /\ WF_vars(SyncToDb(n))
        /\ WF_vars(LearnHome(n))

-----------------------------------------------------------------------------

(* The offsets a database value, a cache entry or a local variable may hold. *)
Offset == {0} \cup (Created .. MaxHour)

(* The state of the job generators is well formed, and only a node in the
   locked block of generate_job_by_stream holds the lock.                  *)
TypeOK ==
    /\ now \in Created .. (IF Created > MaxHour THEN Created ELSE MaxHour)
    /\ home \in Nodes /\ view \in [Nodes -> Nodes]
    /\ db \in [off : Offset, node : Nodes \cup {None, Gone}]
    /\ cache \in [Nodes -> [off : Offset, node : Nodes \cup {None}] \cup {None}]
    /\ \A n \in Nodes : cache[n] # None => cache[n].node \in {n, None}
    /\ lock \in Nodes \cup {None}
    /\ pc \in [Nodes -> Steps]
    /\ \A n \in Nodes : pc[n] = "take" <=> lock = n
    /\ offset \in [Nodes -> Offset]
    /\ jobs \subseteq Created .. MaxHour

(* No hour is skipped: every hour before an offset that the database, a
   cache or a running round holds has had its job.  It must survive two
   nodes that both took the stream, an offset that was read before the lock,
   a database error read as offset 0, a release and a sync that cross each
   other, and a crash between the job and the write of the offset.         *)
NoHourSkipped ==
    LET Reached == {db.off} \cup {offset[n] : n \in Nodes}
                   \cup {cache[n].off : n \in {m \in Nodes : cache[m] # None}}
    IN \A o \in Reached : \A h \in Created .. (o - 1) : h \in jobs

(* The database names a live node that no longer holds the stream and that
   the hash does not name: ReleasePut, then a sync, then ReleaseDrop leave
   it so, and no node will work on the stream while that process lives.    *)
Abandoned ==
    /\ db.node \in Nodes \ {home}
    /\ cache[db.node] = None

(* Every hour that passes gets its job, through changes of the hash, lost
   caches and failed calls, unless the stream is left abandoned.           *)
EveryHourGenerated ==
    (\A h \in Created .. (MaxHour - 1) : <>(h \in jobs)) \/ <>[]Abandoned

=============================================================================
