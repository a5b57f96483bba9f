------------------------------ MODULE Ingester ------------------------------
(***************************************************************************)
(* The ingester of one node: the writer of a key (module Writer) and the   *)
(* persist, recovery and replay side (module Persist) on the same WAL      *)
(* files, memtables and IMMUTABLES map, killed and restarted together.     *)
(***************************************************************************)
EXTENDS Integers, Sequences, FiniteSets

CONSTANTS
    Batches, Ticks, MaxWal, MaxMem, MaxWriter, QueueCap, QueueMode, Fsync,
    Flushes, WalErrors, MaxTry, MaxCrash, FailSteps, TornLock

VARIABLES
    wals, entries, rows, imm,                            \* shared
    nextWal, nextMem, made, buf, reg, cur, mem, queue,   \* Writer
    alive, busy, st, home, heldWal, heldMem, fl, mode,
    locks, listed, par, parquet, pc, path, attempt,      \* Persist
    node, recWal, mine, old, bg, todo, replayMem, crashes

\* The writer sees a batch as taken over once it has a finished file.
W == INSTANCE Writer WITH stored <- {f[3] : f \in parquet},
        Modes <- {QueueMode}, FlushModes <- IF Flushes THEN {QueueMode} ELSE {}

P == INSTANCE Persist WITH WalIds <- W!WalIds, MemIds <- W!MemIds, None <- W!None

\* What the two modules ask of their constants.
ASSUME IngesterAssumption ==
    /\ MaxWal \in Nat /\ MaxWriter \in Nat /\ QueueCap \in Nat \ {0}
    /\ MaxMem \in Nat /\ MaxMem >= MaxWal + MaxWriter
    /\ QueueMode \in BOOLEAN /\ Flushes \in BOOLEAN /\ TornLock \in BOOLEAN
    /\ Fsync \in BOOLEAN /\ WalErrors \in BOOLEAN
    /\ Batches \cap Ticks = {} /\ "close" \notin Batches \cup Ticks
    /\ 0 \notin Batches \cup Ticks
    /\ MaxTry \in Nat /\ MaxCrash \in Nat /\ FailSteps \subseteq P!Steps

writerOwn  == <<nextWal, made, buf, reg, cur, mem, queue, alive, busy, st, home,
                heldWal, heldMem, fl, mode>>
persistOwn == <<locks, listed, par, parquet, pc, path, attempt, node, recWal, old,
                bg, todo, replayMem, crashes>>
vars == <<wals, entries, rows, imm, nextMem, mine, writerOwn, persistOwn>>

Init == P!Init /\ W!Init

\* Requests are served once init is through; a WAL file the writer creates
\* has an id not below process_start.
WriterStep ==
    /\ node = "up"
    /\ UNCHANGED persistOwn
    /\ W!WriterNext
    /\ mine' = mine \cup (wals' \ wals)

\* The replay task takes its memtable ids from the same counter.
PersistStep ==
    /\ P!PersistSide
    /\ IF replayMem' \notin {W!None, replayMem}
       THEN replayMem' = nextMem /\ nextMem' = nextMem + 1
       ELSE nextMem' = nextMem
    /\ UNCHANGED writerOwn

Crash == P!Crash /\ W!OwnCrash /\ UNCHANGED mode

Next == WriterStep \/ PersistStep \/ Crash

Spec == Init /\ [][Next]_vars

----------------------------------------------------------------------------

(* A batch whose consume_processed ended, and so synced the WAL file,      *)
(* survives a kill at any later moment, and any number of them, when the   *)
(* consume loop is the only writing task: a restart finds it in a finished *)
(* file, in a file listed by a lock file, or in a WAL file.  This is later *)
(* than the answer: write_batch returns Ok at the enqueue, and a kill      *)
(* before the sync loses the batch ("dropped"), whatever fsync asks for.   *)
SyncedDurable ==
    QueueMode /\ Fsync => \A b \in Batches : st[b] = "done" => P!Recoverable(b)

\* A memtable shows to the persist side once it is in IMMUTABLES.
SealedRows ==
    [m \in W!MemIds |->
        IF path[m] # W!None \/ \E w \in W!WalIds : imm[w] = m THEN rows[m] ELSE {}]

R == INSTANCE Persist WITH rows <- SealedRows, WalIds <- W!WalIds,
                           MemIds <- W!MemIds, None <- W!None

(* With the write queue, the steps of the real writer are steps of the     *)
(* writer that module Persist assumes: whatever is shown of Persist, that  *)
(* no kill loses or doubles a batch, holds of the composed ingester.       *)
ImplementsPersist == R!Spec

(* wal.rs:47-48, of the composed system: the files listed by a lock file   *)
(* hold every batch of the WAL file that recovery deletes.  They need not  *)
(* without the queue: a request that wrote to the old WAL file may write   *)
(* to the new memtable.                                                    *)
LockListsEverything == P!LockListsEverything
============================================================================
