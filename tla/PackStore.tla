------------------------------ MODULE PackStore ------------------------------
(***************************************************************************)
(* The pack files of an ingester between persist_pack and object storage:  *)
(* the segment index, the registry with its consumption and reader         *)
(* counters, the .consumed sidecar, the mover that uploads the segments of *)
(* a stream, the queries that read packs meanwhile, and restarts.          *)
(*                                                                         *)
(*   ingester/src/pack.rs        register_pack, begin_read, end_read,      *)
(*                               mark_segments_consumed, init              *)
(*   jobs/src/job/files/pack.rs  run, move_stream_segments, upload_chunk   *)
(*                                                                         *)
(* A pack holds one segment of each stream: a segment is the pair of the   *)
(* two.  A step is what one task does under one lock, or one file or       *)
(* database operation.                                                     *)
(***************************************************************************)
EXTENDS Integers, FiniteSets

CONSTANTS
    Packs,      \* pack files
    Streams,    \* streams; every pack has a segment of each
    Readers,    \* concurrent read_from_pack calls
    MaxFail,    \* bound: failing file, upload and database operations
    MaxCrash    \* bound: kills of the process

ASSUME PackAssumption ==
    /\ MaxFail \in Nat /\ MaxCrash \in Nat
    /\ IsFiniteSet(Streams) /\ Streams # {} /\ IsFiniteSet(Readers)

Segments == Packs \X Streams
Total    == Cardinality(Streams)

VARIABLES
    \* --- disk, object storage, database ---
    packs,       \* .pack files
    side,        \* [Packs -> streams whose segment is in the sidecar file]
    uploads,     \* [Segments -> files of the file list that hold the segment]
    dropped,     \* segments given up (stream deleted, retention, no records)
    unlisted,    \* segments whose object was uploaded, but got no entry
    \* --- memory of the process ---
    stage,       \* [Packs -> "new", "renamed", "registered", "indexed"]
    index,       \* PACK_SEGMENTS
    registry,    \* keys of PACK_REGISTRY
    consumed,    \* [Packs -> PackEntry.consumed]
    readers,     \* [Packs -> PackEntry.readers]
    processing,  \* PROCESSING_STREAMS
    mv,          \* [Streams -> the job of the mover]
    rd,          \* [Readers -> the read_from_pack call]
    doomed,      \* packs out of the registry whose file has to be deleted
    orphans,     \* packs just deleted whose sidecar has to be deleted
    up,          \* "init" (init rebuilds the index) or "up"
    failures, crashes

store == <<packs, side, uploads, dropped, unlisted>>
mover == <<processing, mv>>
vars  == <<store, stage, index, registry, consumed, readers, mover, rd, doomed,
           orphans, up, failures, crashes>>

Idle  == [at |-> "off", rest |-> {}, chunk |-> {}, todo |-> {}, err |-> FALSE]
NoRead == [segs |-> {}, guards |-> {}]

TypeOK ==
    /\ packs \subseteq Packs /\ registry \subseteq Packs
    /\ doomed \subseteq Packs /\ orphans \subseteq Packs
    /\ side \in [Packs -> SUBSET Streams]
    /\ uploads \in [Segments -> Nat]
    /\ dropped \subseteq Segments /\ unlisted \subseteq Segments /\ index \subseteq Segments
    /\ stage \in [Packs -> {"new", "renamed", "registered", "indexed"}]
    /\ consumed \in [Packs -> 0..Total]
    /\ readers \in [Packs -> 0..Cardinality(Readers)]
    /\ processing \subseteq Streams
    /\ mv \in [Streams -> [at : {"off", "fetch", "chunk", "list", "side", "count"},
                           rest : SUBSET Packs, chunk : SUBSET Packs,
                           todo : SUBSET Packs, err : BOOLEAN]]
    /\ rd \in [Readers -> [segs : SUBSET Packs, guards : SUBSET Packs]]
    /\ up \in {"init", "up"}
    /\ failures \in 0..MaxFail /\ crashes \in 0..MaxCrash

Init ==
    /\ packs = {} /\ dropped = {} /\ unlisted = {} /\ index = {} /\ registry = {}
    /\ doomed = {} /\ orphans = {} /\ processing = {}
    /\ side = [p \in Packs |-> {}]
    /\ uploads = [x \in Segments |-> 0]
    /\ stage = [p \in Packs |-> "new"]
    /\ consumed = [p \in Packs |-> 0]
    /\ readers = [p \in Packs |-> 0]
    /\ mv = [s \in Streams |-> Idle]
    /\ rd = [r \in Readers |-> NoRead]
    /\ up = "init" /\ failures = 0 /\ crashes = 0

----------------------------------------------------------------------------
(* persist_pack, step 4: rename, then register_pack under two locks.       *)

RenamePack(p) ==
    /\ up = "up" /\ stage[p] = "new"
    /\ packs' = packs \cup {p}
    /\ stage' = [stage EXCEPT ![p] = "renamed"]
    /\ UNCHANGED <<side, uploads, dropped, unlisted, index, registry, consumed, readers, mover,
                   rd, doomed, orphans, up, failures, crashes>>

RegisterEntry(p) ==
    /\ up = "up" /\ stage[p] = "renamed"
    /\ registry' = registry \cup {p}
    /\ consumed' = [consumed EXCEPT ![p] = 0]
    /\ readers' = [readers EXCEPT ![p] = 0]
    /\ stage' = [stage EXCEPT ![p] = "registered"]
    /\ UNCHANGED <<store, index, mover, rd, doomed, orphans, up, failures, crashes>>

RegisterSegments(p) ==
    /\ up = "up" /\ stage[p] = "registered"
    /\ index' = index \cup {<<p, s>> : s \in Streams}
    /\ stage' = [stage EXCEPT ![p] = "indexed"]
    /\ UNCHANGED <<store, registry, consumed, readers, mover, rd, doomed, orphans, up,
                   failures, crashes>>

----------------------------------------------------------------------------
(* The mover: a loop that hands streams to workers, one job per stream.    *)

Pending(s) == {p \in Packs : <<p, s>> \in index}

\* The loop hands out a stream that is due and that no worker has.  It goes
\* by a snapshot of the index: the stream may have no segments any more.
SendStream(s) ==
    /\ up = "up" /\ s \notin processing
    /\ processing' = processing \cup {s}
    /\ mv' = [mv EXCEPT ![s].at = "fetch"]
    /\ UNCHANGED <<store, stage, index, registry, consumed, readers, rd, doomed, orphans,
                   up, failures, crashes>>

Job(s, at) == mv[s].at = at

\* get_stream_segments, in the worker: fresher than the snapshot.
Fetch(s) ==
    /\ Job(s, "fetch")
    /\ mv' = [mv EXCEPT ![s] = [Idle EXCEPT !.at = "chunk", !.rest = Pending(s)]]
    /\ UNCHANGED <<store, stage, index, registry, consumed, readers, processing,
                   rd, doomed, orphans, up, failures, crashes>>

\* Segments that are given up are consumed without an upload.
DropChunk(s, C) ==
    /\ Job(s, "chunk") /\ C # {} /\ C \subseteq mv[s].rest
    /\ dropped' = dropped \cup (C \X {s})
    /\ mv' = [mv EXCEPT ![s] = [mv[s] EXCEPT !.at = "side", !.rest = @ \ C, !.chunk = C, !.todo = C]]
    /\ UNCHANGED <<packs, side, uploads, unlisted, stage, index, registry, consumed, readers, processing,
                   rd, doomed, orphans, up, failures, crashes>>

\* upload_chunk: read the segments (without a read guard), merge, put.
UploadChunk(s, C) ==
    /\ Job(s, "chunk") /\ C # {} /\ C \subseteq mv[s].rest /\ C \subseteq packs
    /\ mv' = [mv EXCEPT ![s] = [mv[s] EXCEPT !.at = "list", !.rest = @ \ C, !.chunk = C, !.todo = C]]
    /\ UNCHANGED <<store, stage, index, registry, consumed, readers, processing,
                   rd, doomed, orphans, up, failures, crashes>>

\* file_list::set
ListChunk(s) ==
    /\ Job(s, "list")
    /\ uploads' = [x \in Segments |->
                      IF x \in mv[s].chunk \X {s} THEN uploads[x] + 1 ELSE uploads[x]]
    /\ mv' = [mv EXCEPT ![s].at = "side"]
    /\ UNCHANGED <<packs, side, dropped, unlisted, stage, index, registry, consumed, readers, processing,
                   rd, doomed, orphans, up, failures, crashes>>

\* The database fails.  progress logs the error and returns Ok, so that set
\* does not try again and the mover goes on as if the entry were there.
SetLost(s) ==
    /\ Job(s, "list") /\ failures < MaxFail
    /\ failures' = failures + 1
    /\ unlisted' = unlisted \cup (mv[s].chunk \X {s})
    /\ mv' = [mv EXCEPT ![s].at = "side"]
    /\ UNCHANGED <<packs, side, uploads, dropped, stage, index, registry, consumed, readers,
                   processing, rd, doomed, orphans, up, crashes>>

\* Mutant of MoveError: the segments of a failed upload are consumed.
MoveErrorIgnored(s) ==
    /\ Job(s, "chunk") /\ mv[s].rest # {} /\ failures < MaxFail
    /\ failures' = failures + 1
    /\ mv' = [mv EXCEPT ![s] = [mv[s] EXCEPT !.at = "side", !.rest = {}, !.chunk = mv[s].rest,
                                             !.todo = mv[s].rest]]
    /\ UNCHANGED <<store, stage, index, registry, consumed, readers, processing, rd, doomed,
                   orphans, up, crashes>>

\* The schema or the upload fails: the job ends, its segments stay pending.
MoveError(s) ==
    /\ Job(s, "chunk") /\ mv[s].rest # {} /\ failures < MaxFail
    /\ failures' = failures + 1
    /\ mv' = [mv EXCEPT ![s] = Idle]
    /\ processing' = processing \ {s}
    /\ UNCHANGED <<store, stage, index, registry, consumed, readers, rd, doomed,
                   orphans, up, crashes>>

(* mark_segments_consumed *)

AppendSidecar(s, p) ==
    /\ Job(s, "side") /\ p \in mv[s].todo
    /\ side' = [side EXCEPT ![p] = @ \cup {s}]
    /\ mv' = [mv EXCEPT ![s].todo = @ \ {p}]
    /\ UNCHANGED <<packs, uploads, dropped, unlisted, stage, index, registry, consumed, readers,
                   processing,
                   rd, doomed, orphans, up, failures, crashes>>

\* Three attempts fail; the error is returned, but only after the rest is done.
SidecarError(s, p) ==
    /\ Job(s, "side") /\ p \in mv[s].todo /\ failures < MaxFail
    /\ failures' = failures + 1
    /\ mv' = [mv EXCEPT ![s] = [mv[s] EXCEPT !.todo = @ \ {p}, !.err = TRUE]]
    /\ UNCHANGED <<store, stage, index, registry, consumed, readers, processing,
                   rd, doomed, orphans, up, crashes>>

\* Mutant of RemoveSegments: a sidecar error leaves the segments pending.
RemoveSegmentsUnlessError(s) ==
    /\ Job(s, "side") /\ mv[s].todo = {}
    /\ index' = IF mv[s].err THEN index ELSE index \ (mv[s].chunk \X {s})
    /\ mv' = [mv EXCEPT ![s].at = "count"]
    /\ UNCHANGED <<store, stage, registry, consumed, readers, processing, rd,
                   doomed, orphans, up, failures, crashes>>

\* Under the PACK_SEGMENTS lock.
RemoveSegments(s) ==
    /\ Job(s, "side") /\ mv[s].todo = {}
    /\ index' = index \ (mv[s].chunk \X {s})
    /\ mv' = [mv EXCEPT ![s].at = "count"]
    /\ UNCHANGED <<store, stage, registry, consumed, readers, processing, rd,
                   doomed, orphans, up, failures, crashes>>

\* Mutant of CountConsumed: the reader counter is not looked at.
CountIgnoresReaders(s) ==
    LET counted == mv[s].chunk \cap registry
        full    == {p \in counted : consumed[p] + 1 >= Total}
    IN
    /\ Job(s, "count")
    /\ consumed' = [p \in Packs |-> IF p \in counted THEN consumed[p] + 1 ELSE consumed[p]]
    /\ registry' = registry \ full
    /\ doomed' = doomed \cup full
    /\ mv' = [mv EXCEPT ![s] = [mv[s] EXCEPT !.at = "chunk", !.chunk = {},
                                             !.rest = IF mv[s].err THEN {} ELSE @]]
    /\ UNCHANGED <<store, stage, index, readers, processing, rd, orphans, up,
                   failures, crashes>>

\* Under the PACK_REGISTRY lock.  The file of a pack that leaves the registry
\* is deleted next, by this worker or, when a reader lets go, by its task.
CountConsumed(s) ==
    LET counted == mv[s].chunk \cap registry
        full    == {p \in counted : consumed[p] + 1 >= Total /\ readers[p] = 0}
    IN
    /\ Job(s, "count")
    /\ consumed' = [p \in Packs |-> IF p \in counted THEN consumed[p] + 1 ELSE consumed[p]]
    /\ registry' = registry \ full
    /\ doomed' = doomed \cup full
    /\ mv' = [mv EXCEPT ![s] = [mv[s] EXCEPT !.at = "chunk", !.chunk = {},
                                             !.rest = IF mv[s].err THEN {} ELSE @]]
    /\ UNCHANGED <<store, stage, index, readers, processing, rd, orphans, up,
                   failures, crashes>>

\* The worker is through, or mark_segments_consumed returned an error.
EndJob(s) ==
    /\ Job(s, "chunk") /\ mv[s].rest = {}
    /\ mv' = [mv EXCEPT ![s] = Idle]
    /\ processing' = processing \ {s}
    /\ UNCHANGED <<store, stage, index, registry, consumed, readers, rd, doomed,
                   orphans, up, failures, crashes>>

(* delete_pack_file: the pack first, then its sidecar. *)

DeletePack(p) ==
    /\ p \in doomed
    /\ packs' = packs \ {p}
    /\ doomed' = doomed \ {p}
    /\ orphans' = orphans \cup {p}
    /\ UNCHANGED <<side, uploads, dropped, unlisted, stage, index, registry, consumed, readers, mover,
                   rd, up, failures, crashes>>

\* The pack stays until a restart, and its sidecar with it.
DeleteError(p) ==
    /\ p \in doomed /\ failures < MaxFail
    /\ failures' = failures + 1
    /\ doomed' = doomed \ {p}
    /\ UNCHANGED <<store, stage, index, registry, consumed, readers, mover, rd, orphans,
                   up, crashes>>

DeleteSidecar(p) ==
    /\ p \in orphans
    /\ side' = [side EXCEPT ![p] = {}]
    /\ orphans' = orphans \ {p}
    /\ UNCHANGED <<packs, uploads, dropped, unlisted, stage, index, registry, consumed, readers, mover,
                   rd, doomed, up, failures, crashes>>

----------------------------------------------------------------------------
(* read_from_pack *)

\* Snapshot and guards are taken under the PACK_SEGMENTS lock.
BeginRead(r, s) ==
    /\ up = "up" /\ rd[r] = NoRead /\ Pending(s) # {}
    /\ rd' = [rd EXCEPT ![r] = [segs |-> Pending(s), guards |-> Pending(s) \cap registry]]
    /\ readers' = [p \in Packs |-> IF p \in Pending(s) \cap registry
                                   THEN readers[p] + 1 ELSE readers[p]]
    /\ UNCHANGED <<store, stage, index, registry, consumed, mover, doomed, orphans, up,
                   failures, crashes>>

\* One segment is read, or skipped.
ReadSegment(r, p) ==
    /\ p \in rd[r].segs
    /\ rd' = [rd EXCEPT ![r].segs = @ \ {p}]
    /\ UNCHANGED <<store, stage, index, registry, consumed, readers, mover, doomed, orphans,
                   up, failures, crashes>>

\* Mutant of EndRead: the last reader leaves a consumed pack alone.
EndReadKeeps(r) ==
    LET held == rd[r].guards \cap registry IN
    /\ rd[r] # NoRead
    /\ rd' = [rd EXCEPT ![r] = NoRead]
    /\ readers' = [p \in Packs |-> IF p \in held THEN readers[p] - 1 ELSE readers[p]]
    /\ UNCHANGED <<store, stage, index, registry, consumed, mover, doomed, orphans, up,
                   failures, crashes>>

\* The read is complete, failed or was cancelled: the guards are released,
\* and the last reader of a consumed pack has it deleted.
EndRead(r) ==
    LET held == rd[r].guards \cap registry
        full == {p \in held : readers[p] = 1 /\ consumed[p] >= Total}
    IN
    /\ rd[r] # NoRead
    /\ rd' = [rd EXCEPT ![r] = NoRead]
    /\ readers' = [p \in Packs |-> IF p \in held THEN readers[p] - 1 ELSE readers[p]]
    /\ registry' = registry \ full
    /\ doomed' = doomed \cup full
    /\ UNCHANGED <<store, stage, index, consumed, mover, orphans, up, failures, crashes>>

----------------------------------------------------------------------------
(* A kill, and init.                                                       *)

Crash ==
    /\ crashes < MaxCrash
    /\ crashes' = crashes + 1
    /\ stage' = [p \in Packs |-> IF stage[p] = "new" THEN "new" ELSE "renamed"]
    /\ index' = {} /\ registry' = {} /\ doomed' = {} /\ orphans' = {}
    /\ consumed' = [p \in Packs |-> 0]
    /\ readers' = [p \in Packs |-> 0]
    /\ processing' = {}
    /\ mv' = [s \in Streams |-> Idle]
    /\ rd' = [r \in Readers |-> NoRead]
    /\ up' = "init"
    /\ UNCHANGED <<store, failures>>

\* Mutant of InitPack: the index is rebuilt from the footer alone.
InitPackFromFooter(p) ==
    /\ up = "init" /\ p \in packs /\ stage[p] = "renamed" /\ side[p] # Streams
    /\ registry' = registry \cup {p}
    /\ consumed' = [consumed EXCEPT ![p] = Cardinality(side[p])]
    /\ index' = index \cup {<<p, s>> : s \in Streams}
    /\ stage' = [stage EXCEPT ![p] = "indexed"]
    /\ UNCHANGED <<store, readers, mover, rd, doomed, orphans, up, failures, crashes>>

\* A pack that is not consumed to the end is registered again, without what
\* its sidecar names.
InitPack(p) ==
    /\ up = "init" /\ p \in packs /\ stage[p] = "renamed" /\ side[p] # Streams
    /\ registry' = registry \cup {p}
    /\ consumed' = [consumed EXCEPT ![p] = Cardinality(side[p])]
    /\ index' = index \cup {<<p, s>> : s \in Streams \ side[p]}
    /\ stage' = [stage EXCEPT ![p] = "indexed"]
    /\ UNCHANGED <<store, readers, mover, rd, doomed, orphans, up, failures, crashes>>

\* The kill came between the last consumption and the deletion.
InitDelete(p) ==
    /\ up = "init" /\ p \in packs /\ stage[p] = "renamed" /\ side[p] = Streams
    /\ doomed' = doomed \cup {p}
    /\ stage' = [stage EXCEPT ![p] = "indexed"]
    /\ UNCHANGED <<store, index, registry, consumed, readers, mover, rd, orphans, up,
                   failures, crashes>>

\* Every pack is seen; the sidecars of packs that are gone are deleted.
InitDone ==
    /\ up = "init" /\ doomed = {} /\ orphans = {}
    /\ \A p \in packs : stage[p] = "indexed"
    /\ side' = [p \in Packs |-> IF p \in packs THEN side[p] ELSE {}]
    /\ stage' = [p \in Packs |-> IF stage[p] = "renamed" THEN "indexed" ELSE stage[p]]
    /\ up' = "up"
    /\ UNCHANGED <<packs, uploads, dropped, unlisted, index, registry, consumed, readers, mover, rd,
                   doomed, orphans, failures, crashes>>

----------------------------------------------------------------------------

Move(s) ==
    \/ Fetch(s) \/ ListChunk(s) \/ RemoveSegments(s) \/ CountConsumed(s) \/ EndJob(s)
    \/ \E C \in SUBSET Packs : UploadChunk(s, C)
    \/ \E p \in Packs : AppendSidecar(s, p)

Delete(p) == DeletePack(p) \/ DeleteSidecar(p)

Restart == InitDone \/ \E p \in Packs : InitPack(p) \/ InitDelete(p)

Faults ==
    \/ \E s \in Streams : MoveError(s) \/ SetLost(s) \/ \E p \in Packs : SidecarError(s, p)
    \/ \E p \in Packs : DeleteError(p)
    \/ Crash

Next ==
    \/ \E p \in Packs : RenamePack(p) \/ RegisterEntry(p) \/ RegisterSegments(p) \/ Delete(p)
    \/ \E s \in Streams : SendStream(s) \/ Move(s)
    \/ \E s \in Streams, C \in SUBSET Packs : DropChunk(s, C)
    \/ \E r \in Readers : EndRead(r) \/ \E s \in Streams : BeginRead(r, s)
    \/ \E r \in Readers, p \in Packs : ReadSegment(r, p)
    \/ Restart \/ Faults

\* The mover's loop and workers, the deleting tasks, init and the queries make
\* progress; a stream becomes due when its oldest segment is old enough.
Fairness ==
    /\ WF_vars(Restart)
    /\ \A s \in Streams : WF_vars(Pending(s) # {} /\ SendStream(s)) /\ WF_vars(Move(s))
    /\ \A p \in Packs : WF_vars(Delete(p)) /\ WF_vars(RegisterEntry(p) \/ RegisterSegments(p))
    /\ \A r \in Readers : WF_vars(EndRead(r))

Spec     == Init /\ [][Next]_vars
FairSpec == Spec /\ Fairness

----------------------------------------------------------------------------

(* pack.rs:875-877, "the caller holds read guards on every involved pack,  *)
(* so the file cannot be deleted concurrently": the packs a running read   *)
(* still needs are on disk, although consumption, the end of other reads   *)
(* and the deletion run under other locks, and so are the packs the mover, *)
(* which takes no guard, is about to read.                                 *)
PacksStayForReaders ==
    /\ \A r \in Readers : rd[r].segs \subseteq packs
    /\ \A s \in Streams : mv[s].rest \subseteq packs

(* A pack file is deleted only after each of its segments was uploaded and *)
(* listed, or given up, or is one whose entry file_list::set lost; a kill  *)
(* or another failure at any point does not change that.                   *)
DeletedIsMoved ==
    \A p \in Packs : stage[p] # "new" /\ p \notin packs =>
        \A s \in Streams : uploads[<<p, s>>] > 0 \/ <<p, s>> \in dropped \cup unlisted

(* Without a kill a segment is uploaded at most once, whatever fails (the  *)
(* sidecar included: the in-memory index forgets the segment all the       *)
(* same); a kill adds at most one upload.                                  *)
UploadedOnce == \A x \in Segments : uploads[x] <= 1 + crashes

(* Every segment of a pack is uploaded or given up, and the pack leaves    *)
(* the registry, through failures, kills and readers that come and go.     *)
PacksMoved ==
    \A p \in Packs : p \in packs ~>
        /\ up = "up" /\ p \notin registry
        /\ \A s \in Streams : uploads[<<p, s>>] > 0 \/ <<p, s>> \in dropped \cup unlisted

============================================================================
