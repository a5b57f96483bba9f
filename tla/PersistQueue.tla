---------------------------- MODULE PersistQueue ----------------------------
(***************************************************************************)
(* Who persists which immutable memtable: the dispatch loop of the         *)
(* ingester sends the paths of IMMUTABLES through a bounded channel to     *)
(* mem_dump_thread_num workers, and PROCESSING_TABLES keeps it from        *)
(* sending a path twice.                                                   *)
(*                                                                         *)
(*   ingester/src/lib.rs        run                                        *)
(*   ingester/src/immutable.rs  persist, persist_table                     *)
(*                                                                         *)
(* Immutable::persist is one step here, which succeeds or fails; module    *)
(* Persist has its steps and relies on OneWorkerPerTable.                  *)
(***************************************************************************)
EXTENDS Integers, Sequences, FiniteSets

CONSTANTS
    Paths,      \* WAL paths
    Workers,    \* the persist workers; their number is the channel capacity
    None,       \* no path
    MaxFail     \* bound: failing persist calls

ASSUME QueueAssumption ==
    None \notin Paths /\ MaxFail \in Nat /\ IsFiniteSet(Workers) /\ Workers # {}

VARIABLES
    fresh,       \* paths the writers have not inserted yet
    immutables,  \* keys of IMMUTABLES
    processing,  \* PROCESSING_TABLES
    channel,     \* paths sent and not received
    loop,        \* dispatch loop: "sleep", "check", "sent" or "stopped"
    paths,       \* the snapshot it is walking over
    sending,     \* the path it sent and has not entered yet
    work,        \* [Workers -> path it received, or None]
    step,        \* [Workers -> "recv", "persist", "remove", "release"]
    failures     \* persist calls that failed

queueVars == <<fresh, immutables, processing, channel, loop, paths, sending, work,
               step, failures>>

TypeOK ==
    /\ fresh \subseteq Paths /\ immutables \subseteq Paths
    /\ processing \subseteq Paths /\ paths \subseteq Paths
    /\ channel \in Seq(Paths) /\ Len(channel) <= Cardinality(Workers)
    /\ loop \in {"sleep", "check", "sent", "stopped"}
    /\ sending \in Paths \cup {None}
    /\ work \in [Workers -> Paths \cup {None}]
    /\ step \in [Workers -> {"recv", "persist", "remove", "release"}]
    /\ failures \in 0..MaxFail

QueueInit ==
    /\ fresh = Paths /\ immutables = {} /\ processing = {} /\ channel = <<>>
    /\ loop = "sleep" /\ paths = {} /\ sending = None
    /\ work = [k \in Workers |-> None]
    /\ step = [k \in Workers |-> "recv"]
    /\ failures = 0

----------------------------------------------------------------------------

\* A writer rotates: IMMUTABLES.insert.
Insert(p) ==
    /\ p \in fresh
    /\ fresh' = fresh \ {p}
    /\ immutables' = immutables \cup {p}
    /\ UNCHANGED <<processing, channel, loop, paths, sending, work, step, failures>>

(* The dispatch loop: run and immutable::persist. *)

Snapshot ==
    /\ loop = "sleep"
    /\ loop' = "check"
    /\ paths' = immutables
    /\ UNCHANGED <<fresh, immutables, processing, channel, sending, work, step, failures>>

\* The node is going offline: no round after this one.
Stop ==
    /\ loop = "sleep"
    /\ loop' = "stopped"
    /\ UNCHANGED <<fresh, immutables, processing, channel, paths, sending, work,
                   step, failures>>

SkipPath(p) ==
    /\ loop = "check" /\ p \in paths /\ p \in processing
    /\ paths' = paths \ {p}
    /\ UNCHANGED <<fresh, immutables, processing, channel, loop, sending, work,
                   step, failures>>

\* Mutant of Send: the channel has no limit.
SendUnbounded(p) ==
    /\ loop = "check" /\ p \in paths /\ p \notin processing
    /\ channel' = Append(channel, p)
    /\ sending' = p
    /\ loop' = "sent"
    /\ paths' = paths \ {p}
    /\ UNCHANGED <<fresh, immutables, processing, work, step, failures>>

\* Mutant of Send: PROCESSING_TABLES is not looked at.
SendUnchecked(p) ==
    /\ loop = "check" /\ p \in paths
    /\ Len(channel) < Cardinality(Workers)
    /\ channel' = Append(channel, p)
    /\ sending' = p
    /\ loop' = "sent"
    /\ paths' = paths \ {p}
    /\ UNCHANGED <<fresh, immutables, processing, work, step, failures>>

\* tx.send waits for a free slot of the channel.
Send(p) ==
    /\ loop = "check" /\ p \in paths /\ p \notin processing
    /\ Len(channel) < Cardinality(Workers)
    /\ channel' = Append(channel, p)
    /\ sending' = p
    /\ loop' = "sent"
    /\ paths' = paths \ {p}
    /\ UNCHANGED <<fresh, immutables, processing, work, step, failures>>

\* Only after the send is the path entered in PROCESSING_TABLES.
Enter ==
    /\ loop = "sent"
    /\ processing' = processing \cup {sending}
    /\ sending' = None
    /\ loop' = "check"
    /\ UNCHANGED <<fresh, immutables, channel, paths, work, step, failures>>

RoundDone ==
    /\ loop = "check" /\ paths = {}
    /\ loop' = "sleep"
    /\ UNCHANGED <<fresh, immutables, processing, channel, paths, sending, work,
                   step, failures>>

(* A worker: recv, then persist_table. *)

\* A path that is not in IMMUTABLES any more is left alone, Ok is returned.
Recv(k) ==
    /\ step[k] = "recv" /\ channel # <<>>
    /\ channel' = Tail(channel)
    /\ IF Head(channel) \in immutables
       THEN /\ work' = [work EXCEPT ![k] = Head(channel)]
            /\ step' = [step EXCEPT ![k] = "persist"]
       ELSE UNCHANGED <<work, step>>
    /\ UNCHANGED <<fresh, immutables, processing, loop, paths, sending, failures>>

PersistOk(k) ==
    /\ step[k] = "persist"
    /\ step' = [step EXCEPT ![k] = "remove"]
    /\ UNCHANGED <<fresh, immutables, processing, channel, loop, paths, sending,
                   work, failures>>

PersistErr(k) ==
    /\ step[k] = "persist" /\ failures < MaxFail
    /\ failures' = failures + 1
    /\ step' = [step EXCEPT ![k] = "release"]
    /\ UNCHANGED <<fresh, immutables, processing, channel, loop, paths, sending, work>>

\* Mutant of RemoveTable: the table is not found under its path.
RemoveTableSkipped(k) ==
    /\ step[k] = "remove"
    /\ step' = [step EXCEPT ![k] = "release"]
    /\ UNCHANGED <<fresh, immutables, processing, channel, loop, paths, sending,
                   work, failures>>

RemoveTable(k) ==
    /\ step[k] = "remove"
    /\ immutables' = immutables \ {work[k]}
    /\ step' = [step EXCEPT ![k] = "release"]
    /\ UNCHANGED <<fresh, processing, channel, loop, paths, sending, work, failures>>

Release(k) ==
    /\ step[k] = "release"
    /\ processing' = processing \ {work[k]}
    /\ work' = [work EXCEPT ![k] = None]
    /\ step' = [step EXCEPT ![k] = "recv"]
    /\ UNCHANGED <<fresh, immutables, channel, loop, paths, sending, failures>>

----------------------------------------------------------------------------

Dispatch == Snapshot \/ Enter \/ RoundDone \/ \E p \in Paths : SkipPath(p) \/ Send(p)

Work(k) == Recv(k) \/ PersistOk(k) \/ PersistErr(k) \/ RemoveTable(k) \/ Release(k)

QueueNext ==
    \/ \E p \in Paths : Insert(p)
    \/ Dispatch \/ Stop
    \/ \E k \in Workers : Work(k)

\* The loop sleeps mem_persist_interval and goes on; the workers are tasks.
Fairness == WF_queueVars(Dispatch) /\ \A k \in Workers : WF_queueVars(Work(k))

QueueSpec     == QueueInit /\ [][QueueNext]_queueVars
QueueFairSpec == QueueSpec /\ Fairness

----------------------------------------------------------------------------

\* The ways a table is being taken care of.
Queued(p)  == \E i \in 1..Len(channel) : channel[i] = p
Held(p)    == \E k \in Workers : work[k] = p

(* Two workers never persist the same table, although a path is sent       *)
(* before it is entered in PROCESSING_TABLES and leaves it when a worker   *)
(* is through: Immutable::persist runs once at a time for a WAL file.      *)
OneWorkerPerTable ==
    \A j, k \in Workers : work[j] # None /\ work[j] = work[k] => j = k

\* A persist call of p failed before the dispatch loop had entered p.
Stuck(p) == p \in processing /\ ~Queued(p) /\ ~Held(p) /\ failures > 0

(* Every table that is inserted leaves IMMUTABLES, persisted, through any  *)
(* number of failing attempts and a full channel; unless the dispatch loop *)
(* was stopped, or the path is left behind in PROCESSING_TABLES by a       *)
(* failure that came before the entry.                                     *)
TablesPersisted ==
    \A p \in Paths : p \in immutables ~> (p \notin immutables \/ loop = "stopped" \/ Stuck(p))

============================================================================
