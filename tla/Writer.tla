------------------------------- MODULE Writer -------------------------------
(***************************************************************************)
(* One key of the ingester's WRITERS map: requests append batches to a WAL *)
(* file and a memtable, rotation seals both and hands them to IMMUTABLES,  *)
(* flush closes the writer.  From ingester/src/writer.rs, with the WAL     *)
(* file of wal/src/writer.rs and the memtable of ingester/src/memtable.rs  *)
(* as sets of batches.                                                     *)
(*                                                                         *)
(* The WAL and the memtable sit behind two locks of their own.  A step of  *)
(* this module is what one task does while it holds one of them.  With     *)
(* mode (wal_write_queue_enabled) TRUE the consume loop of the writer is   *)
(* the only task that writes; without it, the default, every request runs  *)
(* consume_processed itself, next to the loop that still serves the        *)
(* Rotate signals of check_ttl.                                            *)
(***************************************************************************)
EXTENDS Integers, Sequences, FiniteSets

CONSTANTS
    Batches,     \* batches (requests)
    Ticks,       \* Rotate signals check_ttl sends (bounds its rounds)
    MaxWal,      \* bound: WAL files created
    MaxMem,      \* bound: memtables created
    MaxWriter,   \* bound: Writer::new calls
    QueueCap,    \* wal_write_queue_size
    Modes,       \* values of wal_write_queue_enabled to look at
    Fsync,       \* the requests ask for a sync (wal_fsync_disabled is off)
    FlushModes,  \* those under which flush_all may be called
    WalErrors    \* making, writing and syncing a WAL file may fail

ASSUME WriterAssumption ==
    /\ MaxWal \in Nat /\ MaxWriter \in Nat /\ QueueCap \in Nat \ {0}
    /\ MaxMem \in Nat /\ MaxMem >= MaxWal + MaxWriter   \* no swap waits for the bound
    /\ Modes \subseteq BOOLEAN /\ FlushModes \subseteq Modes
    /\ Fsync \in BOOLEAN /\ WalErrors \in BOOLEAN
    /\ Batches \cap Ticks = {} /\ "close" \notin Batches \cup Ticks
    /\ 0 \notin Batches \cup Ticks

None    == 0
WalIds  == 1..MaxWal
MemIds  == 1..MaxMem
Writers == 1..MaxWriter
Tasks   == Batches \cup Ticks
Close   == "close"

VARIABLES
    \* --- shared with the persist side ---
    wals,       \* ids of the .wal files that exist
    entries,    \* [WalIds -> batches readable from the file]
    rows,       \* [MemIds -> batches in the memtable]
    imm,        \* IMMUTABLES: [WalIds -> memtable or None]
    \* --- the writer's own ---
    nextWal,    \* next WAL id (next_seq, which starts at the clock)
    nextMem,    \* next memtable id (MEMTABLE_ID_COUNTER, likewise)
    made,       \* writers created so far
    buf,        \* [WalIds -> batches still in the BufWriter of the open file]
    reg,        \* the writer in the WRITERS map, or None
    cur,        \* [Writers -> Writer.wal]
    mem,        \* [Writers -> Writer.memtable]
    queue,      \* [Writers -> write_queue]
    alive,      \* writers whose consume loop runs
    busy,       \* [Writers -> task the consume loop is working on, or None]
    st,         \* [Tasks -> where the task is]
    home,       \* [Tasks -> the writer it holds]
    heldWal,    \* [Tasks -> old_wal of its rotation]
    heldMem,    \* [Tasks -> old_mem of its rotation]
    fl,         \* flush: [at |-> step, g |-> writer, wal |-> , mem |-> ]
    stored,     \* batches the persist side has taken over
    mode        \* wal_write_queue_enabled, read from the configuration

shared == <<wals, entries, rows, imm>>
ids    == <<nextWal, nextMem, made>>
own    == <<ids, buf, reg, cur, mem, queue, alive, busy, st, home, heldWal, heldMem, fl>>
vars   == <<shared, own, stored, mode>>

States == {"new", "held", "queued", "check", "swap", "insert", "wal", "mem",
           "sync", "done", "failed", "dropped"}
NoFlush == [at |-> "off", g |-> None, wal |-> None, mem |-> None]

TypeOK ==
    /\ wals \subseteq WalIds
    /\ entries \in [WalIds -> SUBSET Batches]
    /\ rows \in [MemIds -> SUBSET Batches]
    /\ imm \in [WalIds -> MemIds \cup {None}]
    /\ nextWal \in 1..(MaxWal + 1) /\ nextMem \in 1..(MaxMem + 1) /\ made \in 0..MaxWriter
    /\ buf \in [WalIds -> SUBSET Batches]
    /\ reg \in 0..made
    /\ cur \in [Writers -> WalIds \cup {None}]
    /\ mem \in [Writers -> MemIds \cup {None}]
    /\ queue \in [Writers -> Seq(Tasks \cup {Close})]
    /\ alive \subseteq 1..made
    /\ busy \in [Writers -> Tasks \cup {None}]
    /\ st \in [Tasks -> States]
    /\ home \in [Tasks -> 0..made]
    /\ heldWal \in [Tasks -> WalIds \cup {None}]
    /\ heldMem \in [Tasks -> MemIds \cup {None}]
    /\ fl \in [at : {"off", "close", "sync", "swap", "insert"}, g : 0..made,
               wal : WalIds \cup {None}, mem : MemIds \cup {None}]
    /\ stored \subseteq Batches /\ mode \in Modes

OwnInit ==
    /\ buf = [w \in WalIds |-> {}]
    /\ nextWal = 1 /\ nextMem = 1 /\ made = 0 /\ reg = None
    /\ cur = [g \in Writers |-> None]
    /\ mem = [g \in Writers |-> None]
    /\ queue = [g \in Writers |-> <<>>]
    /\ alive = {}
    /\ busy = [g \in Writers |-> None]
    /\ st = [t \in Tasks |-> "new"]
    /\ home = [t \in Tasks |-> None]
    /\ heldWal = [t \in Tasks |-> None]
    /\ heldMem = [t \in Tasks |-> None]
    /\ fl = NoFlush

Init ==
    /\ OwnInit
    /\ wals = {}
    /\ entries = [w \in WalIds |-> {}]
    /\ rows = [m \in MemIds |-> {}]
    /\ imm = [w \in WalIds |-> None]
    /\ stored = {} /\ mode \in Modes

----------------------------------------------------------------------------
(* get_writer, write_batch, check_ttl: how a task reaches the writer.      *)

\* get_writer finds a writer whose channel is open.  flush_all holds the
\* WRITERS lock from the removal of the writer to the end of its flush.
GetWriter(b) ==
    /\ st[b] = "new" /\ fl = NoFlush
    /\ reg \in alive
    /\ home' = [home EXCEPT ![b] = reg]
    /\ st' = [st EXCEPT ![b] = "held"]
    /\ UNCHANGED <<shared, stored, mode, ids, buf, reg, cur, mem, queue, alive, busy,
                   heldWal, heldMem, fl>>

\* Mutant of NewWriter: an id is drawn twice for one file.
NewWriterSkipsId(b) ==
    /\ st[b] = "new" /\ fl = NoFlush
    /\ reg \notin alive
    /\ made < MaxWriter /\ nextWal <= MaxWal /\ nextMem <= MaxMem
    /\ made' = made + 1 /\ nextWal' = nextWal + 2 /\ nextMem' = nextMem + 1
    /\ reg' = made + 1
    /\ alive' = alive \cup {made + 1}
    /\ cur' = [cur EXCEPT ![made + 1] = nextWal]
    /\ mem' = [mem EXCEPT ![made + 1] = nextMem]
    /\ wals' = wals \cup {nextWal}
    /\ home' = [home EXCEPT ![b] = made + 1]
    /\ st' = [st EXCEPT ![b] = "held"]
    /\ UNCHANGED <<entries, rows, imm, stored, mode, buf, queue, busy, heldWal, heldMem, fl>>

\* get_writer finds none (or a closed one, which it removes): Writer::new.
NewWriter(b) ==
    /\ st[b] = "new" /\ fl = NoFlush
    /\ reg \notin alive
    /\ made < MaxWriter /\ nextWal <= MaxWal /\ nextMem <= MaxMem
    /\ made' = made + 1 /\ nextWal' = nextWal + 1 /\ nextMem' = nextMem + 1
    /\ reg' = made + 1
    /\ alive' = alive \cup {made + 1}
    /\ cur' = [cur EXCEPT ![made + 1] = nextWal]
    /\ mem' = [mem EXCEPT ![made + 1] = nextMem]
    /\ wals' = wals \cup {nextWal}
    /\ home' = [home EXCEPT ![b] = made + 1]
    /\ st' = [st EXCEPT ![b] = "held"]
    /\ UNCHANGED <<entries, rows, imm, stored, mode, buf, queue, busy, heldWal, heldMem, fl>>

\* write_batch without the queue: the request runs consume_processed itself.
WriteDirect(b) ==
    /\ st[b] = "held" /\ ~mode
    /\ st' = [st EXCEPT ![b] = "check"]
    /\ UNCHANGED <<shared, stored, mode, ids, buf, reg, cur, mem, queue, alive, busy,
                   home, heldWal, heldMem, fl>>

\* write_batch with the queue: the request is answered once it is queued.
Enqueue(b) ==
    /\ st[b] = "held" /\ mode
    /\ home[b] \in alive /\ Len(queue[home[b]]) < QueueCap
    /\ queue' = [queue EXCEPT ![home[b]] = Append(@, b)]
    /\ st' = [st EXCEPT ![b] = "queued"]
    /\ UNCHANGED <<shared, stored, mode, ids, buf, reg, cur, mem, alive, busy, home,
                   heldWal, heldMem, fl>>

\* The channel is closed, or full and wal_write_queue_full_reject is set.
Reject(b) ==
    /\ st[b] = "held" /\ mode
    /\ home[b] \notin alive \/ Len(queue[home[b]]) >= QueueCap
    /\ st' = [st EXCEPT ![b] = "failed"]
    /\ UNCHANGED <<shared, stored, mode, ids, buf, reg, cur, mem, queue, alive, busy,
                   home, heldWal, heldMem, fl>>

\* check_ttl sends a Rotate signal to the registered writer.
CheckTtl(t) ==
    /\ st[t] = "new" /\ fl = NoFlush
    /\ reg \in alive /\ Len(queue[reg]) < QueueCap
    /\ queue' = [queue EXCEPT ![reg] = Append(@, t)]
    /\ home' = [home EXCEPT ![t] = reg]
    /\ st' = [st EXCEPT ![t] = "queued"]
    /\ UNCHANGED <<shared, stored, mode, ids, buf, reg, cur, mem, alive, busy,
                   heldWal, heldMem, fl>>

----------------------------------------------------------------------------
(* consume_loop *)

Receive(g) ==
    /\ g \in alive /\ busy[g] = None
    /\ queue[g] # <<>> /\ Head(queue[g]) # Close
    /\ busy' = [busy EXCEPT ![g] = Head(queue[g])]
    /\ st' = [st EXCEPT ![Head(queue[g])] = "check"]
    /\ queue' = [queue EXCEPT ![g] = Tail(@)]
    /\ UNCHANGED <<shared, stored, mode, ids, buf, reg, cur, mem, alive, home,
                   heldWal, heldMem, fl>>

\* Mutant of ReceiveClose: the loop goes on.
ReceiveCloseIgnored(g) ==
    /\ g \in alive /\ busy[g] = None
    /\ queue[g] # <<>> /\ Head(queue[g]) = Close
    /\ queue' = [queue EXCEPT ![g] = Tail(@)]
    /\ UNCHANGED <<shared, stored, mode, ids, buf, reg, cur, mem, alive, busy, st, home,
                   heldWal, heldMem, fl>>

\* Close ends the loop; what was queued behind it is dropped with the channel.
ReceiveClose(g) ==
    /\ g \in alive /\ busy[g] = None
    /\ queue[g] # <<>> /\ Head(queue[g]) = Close
    /\ alive' = alive \ {g}
    /\ queue' = [queue EXCEPT ![g] = <<>>]
    /\ st' = [t \in Tasks |-> IF \E i \in 2..Len(queue[g]) : queue[g][i] = t
                              THEN "dropped" ELSE st[t]]
    /\ UNCHANGED <<shared, stored, mode, ids, buf, reg, cur, mem, busy, home,
                   heldWal, heldMem, fl>>

\* The task t reaches step s, or ends: then the consume loop is free again.
Goto(t, s) ==
    /\ st' = [st EXCEPT ![t] = s]
    /\ busy' = IF s \in {"done", "failed"}
               THEN [g \in Writers |-> IF busy[g] = t THEN None ELSE busy[g]]
               ELSE busy

\* rotate is all a Rotate signal asks for; a batch is written after it.
AfterRotate(t) == IF t \in Batches THEN "wal" ELSE "done"

----------------------------------------------------------------------------
(* Writer::rotate *)

\* should_rotate can say yes: something is in the WAL file and it is large or
\* old enough, or something is in the memtable and it is large enough.
ShouldRotate(g) == entries[cur[g]] \cup buf[cur[g]] # {} \/ rows[mem[g]] # {}

SkipRotate(t) ==
    /\ st[t] = "check"
    /\ Goto(t, AfterRotate(t))
    /\ UNCHANGED <<shared, stored, mode, ids, buf, reg, cur, mem, queue, alive, home,
                   heldWal, heldMem, fl>>

\* A sync that returns an error: the buffer stays, or went to the file.
SyncFails(w) ==
    \/ UNCHANGED <<entries, buf>>
    \/ /\ entries' = [entries EXCEPT ![w] = @ \cup buf[w]]
       /\ buf' = [buf EXCEPT ![w] = {}]

\* Under the wal lock: new file, sync of the old one, swap.
RotateWal(t) ==
    /\ st[t] = "check" /\ ShouldRotate(home[t]) /\ nextWal <= MaxWal
    /\ LET old == cur[home[t]] IN
          /\ entries' = [entries EXCEPT ![old] = @ \cup buf[old]]
          /\ buf' = [buf EXCEPT ![old] = {}]
          /\ heldWal' = [heldWal EXCEPT ![t] = old]
    /\ cur' = [cur EXCEPT ![home[t]] = nextWal]
    /\ wals' = wals \cup {nextWal}
    /\ nextWal' = nextWal + 1
    /\ Goto(t, "swap")
    /\ UNCHANGED <<rows, imm, stored, mode, nextMem, made, reg, mem, queue, alive, home,
                   heldMem, fl>>

\* The new file cannot be made, or the old one not be synced: an empty file may
\* be left behind, and the buffer may have reached the old one.
RotateWalError(t) ==
    /\ WalErrors /\ st[t] = "check" /\ ShouldRotate(home[t]) /\ nextWal <= MaxWal
    /\ wals' \in {wals, wals \cup {nextWal}}
    /\ nextWal' = nextWal + 1
    /\ SyncFails(cur[home[t]])
    /\ Goto(t, "failed")
    /\ UNCHANGED <<rows, imm, stored, mode, nextMem, made, reg, cur, mem, queue, alive, home,
                   heldWal, heldMem, fl>>

\* Under the memtable lock: swap.
RotateMem(t) ==
    /\ st[t] = "swap" /\ nextMem <= MaxMem
    /\ heldMem' = [heldMem EXCEPT ![t] = mem[home[t]]]
    /\ mem' = [mem EXCEPT ![home[t]] = nextMem]
    /\ nextMem' = nextMem + 1
    /\ Goto(t, "insert")
    /\ UNCHANGED <<wals, entries, rows, imm, stored, mode, nextWal, made, buf, reg, cur,
                   queue, alive, home, heldWal, fl>>

\* Mutant of RotateInsert: the path is the one of the new file.
RotateInsertNewPath(t) ==
    /\ st[t] = "insert"
    /\ imm' = [imm EXCEPT ![cur[home[t]]] = heldMem[t]]
    /\ heldWal' = [heldWal EXCEPT ![t] = None]
    /\ heldMem' = [heldMem EXCEPT ![t] = None]
    /\ Goto(t, AfterRotate(t))
    /\ UNCHANGED <<wals, entries, rows, stored, mode, ids, buf, reg,
                   cur, mem, queue, alive, home, fl>>

\* Under the IMMUTABLES lock: insert under the path of the old file.
RotateInsert(t) ==
    /\ st[t] = "insert"
    /\ imm' = [imm EXCEPT ![heldWal[t]] = heldMem[t]]
    /\ heldWal' = [heldWal EXCEPT ![t] = None]
    /\ heldMem' = [heldMem EXCEPT ![t] = None]
    /\ Goto(t, AfterRotate(t))
    /\ UNCHANGED <<wals, entries, rows, stored, mode, ids, buf, reg,
                   cur, mem, queue, alive, home, fl>>

----------------------------------------------------------------------------
(* Writer::consume_processed after the rotation *)

\* Under the wal lock.  The BufWriter keeps the entries, or spills the ones
\* before, or everything, to the file.
WriteWal(t) ==
    /\ st[t] = "wal"
    /\ LET w == cur[home[t]] IN
       \E spill \in {{}, buf[w], buf[w] \cup {t}} :
          /\ entries' = [entries EXCEPT ![w] = @ \cup spill]
          /\ buf' = [buf EXCEPT ![w] = (@ \cup {t}) \ spill]
    /\ Goto(t, "mem")
    /\ UNCHANGED <<wals, rows, imm, stored, mode, ids, reg, cur, mem,
                   queue, alive, home, heldWal, heldMem, fl>>

\* The write fails, before or after the entries of the batch got there.
WriteWalError(t) ==
    /\ WalErrors /\ st[t] = "wal"
    /\ buf' \in {buf, [buf EXCEPT ![cur[home[t]]] = @ \cup {t}]}
    /\ Goto(t, "failed")
    /\ UNCHANGED <<shared, stored, mode, ids, reg, cur, mem, queue, alive, home,
                   heldWal, heldMem, fl>>

\* Under the memtable lock.
WriteMem(t) ==
    /\ st[t] = "mem"
    /\ rows' = [rows EXCEPT ![mem[home[t]]] = @ \cup {t}]
    /\ Goto(t, IF Fsync THEN "sync" ELSE "done")
    /\ UNCHANGED <<wals, entries, imm, stored, mode, ids, buf, reg,
                   cur, mem, queue, alive, home, heldWal, heldMem, fl>>

\* Mutant of SyncWal: nothing reaches the file.
SyncWalSkipped(t) ==
    /\ st[t] = "sync"
    /\ Goto(t, "done")
    /\ UNCHANGED <<shared, stored, mode, ids, buf, reg, cur, mem, queue, alive, home,
                   heldWal, heldMem, fl>>

\* Under the wal lock again: sync the file that is current now.
SyncWal(t) ==
    /\ st[t] = "sync"
    /\ LET w == cur[home[t]] IN
          /\ entries' = [entries EXCEPT ![w] = @ \cup buf[w]]
          /\ buf' = [buf EXCEPT ![w] = {}]
    /\ Goto(t, "done")
    /\ UNCHANGED <<wals, rows, imm, stored, mode, ids, reg, cur, mem,
                   queue, alive, home, heldWal, heldMem, fl>>

\* The rows are in the memtable, but consume_processed returns the error.
SyncWalError(t) ==
    /\ WalErrors /\ st[t] = "sync"
    /\ SyncFails(cur[home[t]])
    /\ Goto(t, "failed")
    /\ UNCHANGED <<wals, rows, imm, stored, mode, ids, reg, cur, mem,
                   queue, alive, home, heldWal, heldMem, fl>>

----------------------------------------------------------------------------
(* flush_all and Writer::flush *)

\* Take the writer out of the map; the WRITERS lock is held from here on.
FlushStart ==
    /\ mode \in FlushModes /\ fl = NoFlush /\ reg # None
    /\ fl' = [NoFlush EXCEPT !.at = "close", !.g = reg]
    /\ reg' = None
    /\ UNCHANGED <<shared, stored, mode, ids, buf, cur, mem, queue, alive, busy, st,
                   home, heldWal, heldMem>>

\* Send Close; on a closed channel the error is only logged.
FlushClose ==
    /\ fl.at = "close"
    /\ \/ /\ fl.g \in alive /\ Len(queue[fl.g]) < QueueCap
          /\ queue' = [queue EXCEPT ![fl.g] = Append(@, Close)]
       \/ fl.g \notin alive /\ queue' = queue
    /\ fl' = [fl EXCEPT !.at = "sync"]
    /\ UNCHANGED <<shared, stored, mode, ids, buf, reg, cur, mem, alive, busy, st, home,
                   heldWal, heldMem>>

\* Mutant of FlushSync: it does not wait for the consume loop.
FlushSyncEarly ==
    /\ fl.at = "sync"
    /\ LET w == cur[fl.g] IN
          /\ entries' = [entries EXCEPT ![w] = @ \cup buf[w]]
          /\ buf' = [buf EXCEPT ![w] = {}]
          /\ fl' = [fl EXCEPT !.at = "swap", !.wal = w]
    /\ UNCHANGED <<wals, rows, imm, stored, mode, ids, reg, cur, mem,
                   queue, alive, busy, st, home, heldWal, heldMem>>

\* Once the channel is closed: sync the WAL file and note its path.
FlushSync ==
    /\ fl.at = "sync" /\ fl.g \notin alive
    /\ LET w == cur[fl.g] IN
          /\ entries' = [entries EXCEPT ![w] = @ \cup buf[w]]
          /\ buf' = [buf EXCEPT ![w] = {}]
          /\ fl' = [fl EXCEPT !.at = "swap", !.wal = w]
    /\ UNCHANGED <<wals, rows, imm, stored, mode, ids, reg, cur, mem,
                   queue, alive, busy, st, home, heldWal, heldMem>>

\* The sync fails and flush returns: the writer is out of the map already, its
\* memtable goes nowhere and its WAL file waits for the replay of a restart.
\* The BufWriter is dropped with it, which may still write what it holds.
FlushSyncError ==
    /\ WalErrors /\ fl.at = "sync" /\ fl.g \notin alive
    /\ LET w == cur[fl.g] IN
          /\ entries' \in {entries, [entries EXCEPT ![w] = @ \cup buf[w]]}
          /\ buf' = [buf EXCEPT ![w] = {}]
    /\ fl' = NoFlush
    /\ UNCHANGED <<wals, rows, imm, stored, mode, ids, reg, cur, mem,
                   queue, alive, busy, st, home, heldWal, heldMem>>

\* Swap the memtable; the WAL file is not replaced.
FlushSwap ==
    /\ fl.at = "swap" /\ nextMem <= MaxMem
    /\ fl' = [fl EXCEPT !.at = "insert", !.mem = mem[fl.g]]
    /\ mem' = [mem EXCEPT ![fl.g] = nextMem]
    /\ nextMem' = nextMem + 1
    /\ UNCHANGED <<wals, entries, rows, imm, stored, mode, nextWal, made, buf, reg, cur,
                   queue, alive, busy, st, home, heldWal, heldMem>>

FlushInsert ==
    /\ fl.at = "insert"
    /\ imm' = [imm EXCEPT ![fl.wal] = fl.mem]
    /\ fl' = NoFlush
    /\ UNCHANGED <<wals, entries, rows, stored, mode, ids, buf, reg,
                   cur, mem, queue, alive, busy, st, home, heldWal, heldMem>>

----------------------------------------------------------------------------

\* The process is killed: the writers, their buffers and queues are gone.  The
\* client of an unfinished request has no answer, or one for a dropped batch.
OwnCrash ==
    /\ buf' = [w \in WalIds |-> {}]
    /\ reg' = None
    /\ cur' = [g \in Writers |-> None]
    /\ mem' = [g \in Writers |-> None]
    /\ queue' = [g \in Writers |-> <<>>]
    /\ alive' = {}
    /\ busy' = [g \in Writers |-> None]
    /\ st' = [t \in Tasks |-> CASE st[t] \in {"new", "done", "failed"} -> st[t]
                                [] st[t] = "held" -> "failed"
                                [] OTHER -> "dropped"]
    /\ home' = [t \in Tasks |-> None]
    /\ heldWal' = [t \in Tasks |-> None]
    /\ heldMem' = [t \in Tasks |-> None]
    /\ fl' = NoFlush
    /\ UNCHANGED ids

\* The persist side, in one step; module Persist has the steps.
Persisted(w) ==
    /\ imm[w] # None
    /\ stored' = stored \cup rows[imm[w]]
    /\ wals' = wals \ {w}
    /\ imm' = [imm EXCEPT ![w] = None]
    /\ UNCHANGED <<entries, rows, own, mode>>

Request(b) ==
    GetWriter(b) \/ NewWriter(b) \/ WriteDirect(b) \/ Enqueue(b) \/ Reject(b)

Rotate(t) ==
    SkipRotate(t) \/ RotateWal(t) \/ RotateWalError(t) \/ RotateMem(t) \/ RotateInsert(t)

Write(b) ==
    WriteWal(b) \/ WriteWalError(b) \/ WriteMem(b) \/ SyncWal(b) \/ SyncWalError(b)

Loop(g) == Receive(g) \/ ReceiveClose(g)

FlushRest == FlushClose \/ FlushSync \/ FlushSyncError \/ FlushSwap \/ FlushInsert

WriterNext ==
    \/ \E b \in Batches : Request(b) \/ Write(b)
    \/ \E t \in Ticks : CheckTtl(t)
    \/ \E t \in Tasks : Rotate(t)
    \/ \E g \in Writers : Loop(g)
    \/ FlushStart \/ FlushRest

Next == WriterNext \/ \E w \in WalIds : Persisted(w)

\* Tokio polls every runnable task again and again.
WriterFairness ==
    /\ \A b \in Batches : WF_vars(WriteDirect(b) \/ Enqueue(b)) /\ WF_vars(Write(b))
    /\ \A t \in Tasks : WF_vars(Rotate(t))
    /\ \A g \in Writers : WF_vars(Loop(g))
    /\ WF_vars(FlushRest)

Spec     == Init /\ [][Next]_vars
FairSpec == Spec /\ WriterFairness

----------------------------------------------------------------------------

Failed == {b \in Batches : st[b] = "failed"}

(* What the persist side relies on when it deletes a WAL file: the         *)
(* memtable that rotate or flush put under a WAL path holds every batch of *)
(* that file but those whose write failed, and none that the file lacks;   *)
(* and the file is complete on disk.  Holds when the consume loop is the   *)
(* only writing task: rotate swaps file and memtable under two locks.      *)
Paired ==
    mode => \A w \in WalIds : imm[w] # None =>
        /\ w \in wals /\ buf[w] = {}
        /\ entries[w] \ Failed \subseteq rows[imm[w]]
        /\ rows[imm[w]] \subseteq entries[w]

\* Memtables that a later step of the system will still read or persist.
Reachable(m) ==
    \/ reg # None /\ mem[reg] = m
    \/ \E w \in WalIds : imm[w] = m
    \/ \E t \in Tasks : heldMem[t] = m
    \/ fl.at # "off" /\ (mem[fl.g] = m \/ fl.mem = m)

\* A flush whose sync failed left the batch in the memtable of its writer.
Stranded(b) ==
    WalErrors /\ \E g \in Writers \ alive : mem[g] # None /\ b \in rows[mem[g]]

\* Between the first and the last step of consume_processed.
WorkSteps == {"check", "swap", "insert", "wal", "mem", "sync"}

(* A batch that write_batch answered with Ok is kept.  With the queue the  *)
(* answer comes at the enqueue: from then on the batch is in the channel   *)
(* of a writer whose loop runs, or is the one that loop works on.  Once    *)
(* consume_processed is through, which is the answer without the queue,    *)
(* the batch is persisted or in a memtable that will be: requests that     *)
(* race with each other's rotations may pair it with the wrong WAL file,   *)
(* but do not drop it from memory.                                         *)
(*                                                                         *)
(* Not claimed, since the code loses them: what was queued behind the      *)
(* Close of a flush ("dropped"; flush says it waits for all messages to be *)
(* processed), what failed in the loop, which logs it ("failed"), the      *)
(* memtable of a flush that could not sync, and, with FALSE \in FlushModes,*)
(* what a request writes into a writer that flush_all has closed.          *)
AnsweredKept ==
    \A b \in Batches :
        /\ mode /\ st[b] = "queued" =>
              home[b] \in alive /\ \E i \in 1..Len(queue[home[b]]) : queue[home[b]][i] = b
        /\ mode /\ st[b] \in WorkSteps => home[b] \in alive /\ busy[home[b]] = b
        /\ st[b] = "done" =>
              \/ b \in stored
              \/ \E m \in MemIds : Reachable(m) /\ b \in rows[m]
              \/ Stranded(b)

(* A flush ends, although it waits for a queue slot and for the loop to    *)
(* drain while it holds the WRITERS lock that requests need; and every     *)
(* write that was queued or begun is answered, one way or the other.       *)
EverythingEnds ==
    /\ fl.at # "off" ~> fl.at = "off"
    /\ \A b \in Batches :
          st[b] \notin {"new", "held"} ~> st[b] \in {"done", "failed", "dropped"}

============================================================================
