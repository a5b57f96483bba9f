-------------------------- MODULE PackStoreProofs --------------------------
(***************************************************************************)
(* Proofs about PackStore: for any packs, streams and readers, any number  *)
(* of kills and of failing operations, the state is well typed, no pack    *)
(* goes while it is read, none goes before all of it was moved, and a      *)
(* segment is uploaded once per process at most.                           *)
(*                                                                         *)
(* Whether a pack may go is decided from two counters.  The proof is that  *)
(* they count what they should: consumed the streams whose segment is      *)
(* neither in the index nor with a worker that is about to count it, and   *)
(* readers the guards on the pack.  So a pack that leaves the registry     *)
(* has nothing left in the index, with a worker or under a guard.          *)
(***************************************************************************)
EXTENDS PackStore, FiniteSetTheorems, TLAPS

\* The segment of p in s is listed, given up, or lost its entry.
Moved(p, s) == uploads[<<p, s>>] > 0 \/ <<p, s>> \in dropped \cup unlisted

\* The streams whose segment of p has not been counted as consumed.
Left(p) ==
    {s \in Streams : \/ stage[p] = "registered"
                     \/ <<p, s>> \in index
                     \/ mv[s].at = "count" /\ p \in mv[s].chunk}

\* The reads that have a guard on p.
Holders(p) == {r \in Readers : p \in rd[r].guards}

\* Where a pack is: a registered pack is on disk and not to be deleted, an
\* indexed segment belongs to a registered pack.
PlaceInv ==
    \A p \in Packs :
        /\ p \in registry => stage[p] \in {"registered", "indexed"} /\ p \in packs \ doomed
        /\ stage[p] = "registered" => p \in registry
        /\ p \in doomed => stage[p] = "indexed"
        /\ up = "up" /\ stage[p] = "renamed" => p \in packs
        /\ \A s \in Streams : <<p, s>> \in index => p \in registry /\ stage[p] = "indexed"

\* What a job has in hand, at each of its steps.
JobInv ==
    \A s \in Streams :
        /\ s \notin processing => mv[s].at = "off"
        /\ \A p \in mv[s].rest : <<p, s>> \in index
        /\ mv[s].at \in {"list", "side"} =>
              /\ mv[s].todo \subseteq mv[s].chunk
              /\ \A p \in mv[s].chunk : <<p, s>> \in index /\ p \notin mv[s].rest
        /\ mv[s].at = "count" =>
              \A p \in mv[s].chunk :
                  <<p, s>> \notin index /\ p \in registry /\ stage[p] = "indexed"
        /\ mv[s].at \in {"side", "count"} => \A p \in mv[s].chunk : Moved(p, s)

\* While init runs there is no job and no read.
BootInv ==
    up = "init" => /\ \A s \in Streams : mv[s].at = "off"
                   /\ \A r \in Readers : rd[r] = NoRead
                   /\ \A p \in Packs : readers[p] = 0

\* The two counters of a registered pack count what they are meant to.
CountInv == \A p \in registry : consumed[p] + Cardinality(Left(p)) = Total

GuardInv ==
    /\ \A r \in Readers : rd[r].segs \subseteq rd[r].guards /\ rd[r].guards \subseteq registry
    /\ \A p \in registry : readers[p] = Cardinality(Holders(p))

\* What is consumed was moved, by this process or an earlier one.
MovedInv ==
    /\ \A p \in Packs : \A s \in side[p] : Moved(p, s)
    /\ \A p \in registry : \A s \in Streams \ Left(p) : Moved(p, s)
    /\ \A p \in doomed : \A s \in Streams : Moved(p, s)
    /\ DeletedIsMoved

\* A segment that this process may still upload was uploaded at most once for
\* each earlier process.
UploadInv ==
    \A p \in Packs, s \in Streams :
        \/ uploads[<<p, s>>] <= crashes
        \/ /\ uploads[<<p, s>>] <= 1 + crashes
           /\ stage[p] = "indexed"
           /\ <<p, s>> \in index => mv[s].at = "side" /\ p \in mv[s].chunk

IInv == /\ TypeOK /\ PlaceInv /\ JobInv /\ BootInv /\ CountInv /\ GuardInv
        /\ MovedInv /\ UploadInv

----------------------------------------------------------------------------
(* Cardinalities                                                            *)

\* The numbers of streams, of what is left of a pack and of its readers.
LEMMA Sizes ==
    ASSUME NEW p
    PROVE  /\ Total \in Nat \ {0} /\ Cardinality(Readers) \in Nat
           /\ IsFiniteSet(Left(p)) /\ Cardinality(Left(p)) \in 0..Total
           /\ Cardinality(Left(p)) = 0 <=> Left(p) = {}
           /\ IsFiniteSet(Holders(p)) /\ Cardinality(Holders(p)) \in 0..Cardinality(Readers)
           /\ Cardinality(Holders(p)) = 0 <=> Holders(p) = {}
<1>1. Total \in Nat \ {0} /\ Cardinality(Readers) \in Nat
    BY PackAssumption, FS_CardinalityType, FS_EmptySet DEF Total
<1>2. Left(p) \in SUBSET Streams /\ Holders(p) \in SUBSET Readers
    BY DEF Left, Holders
<1>3. /\ IsFiniteSet(Left(p)) /\ Cardinality(Left(p)) <= Total
      /\ IsFiniteSet(Holders(p)) /\ Cardinality(Holders(p)) <= Cardinality(Readers)
    BY <1>2, PackAssumption, FS_Subset DEF Total
<1>4. Cardinality(Left(p)) \in Nat /\ Cardinality(Holders(p)) \in Nat
    BY <1>3, FS_CardinalityType
<1>5. /\ Cardinality(Left(p)) = 0 <=> Left(p) = {}
      /\ Cardinality(Holders(p)) = 0 <=> Holders(p) = {}
    BY <1>3, FS_EmptySet
<1> QED BY <1>1, <1>3, <1>4, <1>5

\* The same after a step.
LEMMA SizesNext ==
    ASSUME NEW p
    PROVE  /\ Left(p)' \subseteq Streams /\ Holders(p)' \subseteq Readers
           /\ IsFiniteSet(Left(p)') /\ IsFiniteSet(Holders(p)')
<1>1. Left(p)' \in SUBSET Streams /\ Holders(p)' \in SUBSET Readers
    BY DEF Left, Holders
<1> QED BY <1>1, PackAssumption, FS_Subset

\* Zero is within the bounds of both counters.
LEMMA ZeroInBounds == 0 \in 0..Total /\ 0 \in 0..Cardinality(Readers)
<1> QED BY Sizes

\* The process starts with nothing.
LEMMA PackInit == Init => IInv
<1> SUFFICES ASSUME Init PROVE IInv
    OBVIOUS
<1> USE PackAssumption
<1>1. TypeOK
    BY ZeroInBounds DEF Init, TypeOK, Idle, NoRead, Segments
<1>2. PlaceInv /\ JobInv /\ BootInv /\ CountInv
    BY DEF Init, PlaceInv, JobInv, BootInv, CountInv, Idle
<1>3. GuardInv /\ MovedInv
    BY DEF Init, GuardInv, MovedInv, DeletedIsMoved, NoRead
<1>4. UploadInv
    BY DEF Init, UploadInv, Segments
<1> QED BY <1>1, <1>2, <1>3, <1>4 DEF IInv

----------------------------------------------------------------------------
(* persist_pack                                                             *)

\* The pack gets its name: nobody knows it yet.
LEMMA RenameNext == ASSUME IInv, NEW p \in Packs, RenamePack(p) PROVE IInv'
<1> USE DEF IInv, RenamePack, store, mover
<1>1. TypeOK'
    BY DEF TypeOK
<1>2. \A q : Left(q)' = Left(q) /\ Holders(q)' = Holders(q)
    BY DEF Left, Holders, TypeOK
<1>3. \A q, s : Moved(q, s)' <=> Moved(q, s)
    BY DEF Moved
<1>4. PlaceInv' /\ BootInv'
    BY DEF PlaceInv, BootInv, TypeOK
<1>5. JobInv'
    BY <1>3 DEF JobInv, TypeOK
<1>6. CountInv' /\ GuardInv'
    BY <1>2 DEF CountInv, GuardInv
<1>7. MovedInv'
    BY <1>2, <1>3 DEF MovedInv, DeletedIsMoved, TypeOK
<1>8. UploadInv'
    BY DEF UploadInv, TypeOK
<1> QED BY <1>1, <1>4, <1>5, <1>6, <1>7, <1>8

\* It is registered: everything is left, nobody reads it.
LEMMA RegisterEntryNext == ASSUME IInv, NEW p \in Packs, RegisterEntry(p) PROVE IInv'
<1> USE DEF IInv, RegisterEntry, store, mover
<1>0. p \notin registry /\ p \in packs \ doomed /\ \A s \in Streams : <<p, s>> \notin index
    BY DEF PlaceInv
<1>1. TypeOK'
    BY ZeroInBounds DEF TypeOK
<1>2. \A q \in Packs : /\ q # p => Left(q)' = Left(q)
                       /\ Holders(q)' = Holders(q)
    BY DEF Left, Holders, TypeOK
<1>3. Left(p)' = Streams /\ Holders(p) = {}
    BY <1>0 DEF Left, Holders, TypeOK, GuardInv
<1>4. \A q, s : Moved(q, s)' <=> Moved(q, s)
    BY DEF Moved
<1>5. PlaceInv' /\ BootInv'
    BY <1>0 DEF PlaceInv, BootInv, TypeOK
<1>6. JobInv'
    BY <1>4 DEF JobInv, TypeOK
<1>7. CountInv'
    BY <1>2, <1>3, Sizes DEF CountInv, TypeOK, Total
<1>8. GuardInv'
    BY <1>2, <1>3, Sizes DEF GuardInv, TypeOK
<1>9. MovedInv'
    BY <1>2, <1>3, <1>4 DEF MovedInv, DeletedIsMoved, TypeOK
<1>10. UploadInv'
    BY DEF UploadInv, TypeOK
<1> QED BY <1>1, <1>5, <1>6, <1>7, <1>8, <1>9, <1>10

\* Its segments are indexed: what was left in the registry is now in the index.
LEMMA RegisterSegmentsNext == ASSUME IInv, NEW p \in Packs, RegisterSegments(p) PROVE IInv'
<1> USE DEF IInv, RegisterSegments, store, mover
<1>0. p \in registry /\ \A s \in Streams : <<p, s>> \notin index
    BY DEF PlaceInv
<1>1. TypeOK'
    BY DEF TypeOK, Segments
<1>2. \A q \in Packs, s \in Streams : <<q, s>> \in index' <=> <<q, s>> \in index \/ q = p
    OBVIOUS
<1>3. \A q \in Packs : Left(q)' = Left(q) /\ Holders(q)' = Holders(q)
    BY <1>2 DEF Left, Holders, TypeOK
<1>4. \A q, s : Moved(q, s)' <=> Moved(q, s)
    BY DEF Moved
<1>5. PlaceInv' /\ BootInv'
    BY <1>0, <1>2 DEF PlaceInv, BootInv, TypeOK
<1>6. JobInv'
    BY <1>2, <1>4 DEF JobInv, TypeOK
<1>7. CountInv' /\ GuardInv'
    BY <1>3 DEF CountInv, GuardInv, TypeOK
<1>8. MovedInv'
    BY <1>3, <1>4 DEF MovedInv, DeletedIsMoved, TypeOK
<1>9. UploadInv'
    BY <1>2 DEF UploadInv, TypeOK
<1> QED BY <1>1, <1>5, <1>6, <1>7, <1>8, <1>9

----------------------------------------------------------------------------
(* The mover                                                                *)

MvType == [at : {"off", "fetch", "chunk", "list", "side", "count"},
           rest : SUBSET Packs, chunk : SUBSET Packs, todo : SUBSET Packs, err : BOOLEAN]

\* A step of the job of s that neither begins nor ends a count leaves the
\* counters right, as long as what was moved stays so.
LEMMA JobFrame ==
    ASSUME IInv, NEW s \in Streams, TypeOK', JobInv', UploadInv',
           up = "up", mv[s].at # "count", mv'[s].at # "count",
           \A t \in Streams \ {s} : mv'[t] = mv[t],
           UNCHANGED <<packs, stage, index, registry, consumed, readers, rd, doomed, up>>,
           \A q \in Packs : side'[q] = side[q] \/ (side'[q] = side[q] \cup {s} /\ Moved(q, s)'),
           \A q \in Packs, t \in Streams : Moved(q, t) => Moved(q, t)'
    PROVE  IInv'
<1> USE DEF IInv
<1>1. \A q \in Packs : Left(q)' = Left(q) /\ Holders(q)' = Holders(q)
    BY DEF Left, Holders
<1>2. PlaceInv' /\ BootInv'
    BY DEF PlaceInv, BootInv
<1>3. CountInv' /\ GuardInv'
    BY <1>1 DEF CountInv, GuardInv, TypeOK
<1>4. MovedInv'
  <2>1. \A q \in Packs : \A t \in side[q] : t \in Streams
    BY DEF TypeOK
  <2>2. \A q \in Packs : \A t \in side'[q] : Moved(q, t)'
    BY <2>1 DEF MovedInv
  <2>3. \A q \in registry' : \A t \in Streams \ Left(q)' : Moved(q, t)'
    BY <1>1 DEF MovedInv, TypeOK
  <2>4. \A q \in doomed' : \A t \in Streams : Moved(q, t)'
    BY DEF MovedInv, TypeOK
  <2>5. DeletedIsMoved'
    <3>1. \A q \in Packs : stage[q] # "new" /\ q \notin packs =>
              \A t \in Streams : Moved(q, t)'
        BY DEF MovedInv, DeletedIsMoved, Moved
    <3> QED BY <3>1 DEF DeletedIsMoved, Moved
  <2> QED BY <2>2, <2>3, <2>4, <2>5 DEF MovedInv
<1> QED BY <1>2, <1>3, <1>4

\* The job of s becomes x, and x has in hand what JobInv says it should.
JobBecomes(s, x) ==
    /\ mv' = [mv EXCEPT ![s] = x]
    /\ x \in MvType
    /\ x.at \in {"off", "fetch", "chunk", "list", "side"}
    /\ s \notin processing' => x.at = "off"
    /\ \A p \in x.rest : <<p, s>> \in index
    /\ x.at \in {"list", "side"} =>
          /\ x.todo \subseteq x.chunk
          /\ \A p \in x.chunk : <<p, s>> \in index /\ p \notin x.rest
    /\ mv[s].at = "side" => x.at = "side" /\ x.chunk = mv[s].chunk
    /\ processing' \in {processing, processing \cup {s}, processing \ {s}}

\* Such a step keeps the type of the jobs and JobInv.
LEMMA JobBecomesOK ==
    ASSUME IInv, NEW s \in Streams, NEW x, JobBecomes(s, x),
           UNCHANGED <<index, registry, stage>>,
           \A q \in Packs, t \in Streams : Moved(q, t) => Moved(q, t)',
           x.at = "side" => \A p \in x.chunk : Moved(p, s)'
    PROVE  /\ processing' \subseteq Streams /\ mv' \in [Streams -> MvType] /\ JobInv'
           /\ mv'[s] = x /\ mv'[s].at # "count" /\ \A t \in Streams \ {s} : mv'[t] = mv[t]
<1> USE DEF IInv
<1>1. mv \in [Streams -> MvType] /\ processing \subseteq Streams
    BY DEF TypeOK, MvType
<1>2. /\ processing' \subseteq Streams /\ mv' \in [Streams -> MvType]
      /\ mv'[s] = x /\ \A t \in Streams \ {s} : mv'[t] = mv[t]
    BY <1>1 DEF JobBecomes
<1>3. \A t \in Streams : mv[t].chunk \subseteq Packs
    BY <1>1 DEF MvType
<1>4. JobInv'
  <2> SUFFICES ASSUME NEW t \in Streams
               PROVE  /\ t \notin processing' => mv'[t].at = "off"
                      /\ \A p \in mv'[t].rest : <<p, t>> \in index'
                      /\ mv'[t].at \in {"list", "side"} =>
                            /\ mv'[t].todo \subseteq mv'[t].chunk
                            /\ \A p \in mv'[t].chunk : <<p, t>> \in index' /\ p \notin mv'[t].rest
                      /\ mv'[t].at = "count" => \A p \in mv'[t].chunk :
                            <<p, t>> \notin index' /\ p \in registry' /\ stage'[p] = "indexed"
                      /\ mv'[t].at \in {"side", "count"} =>
                            \A p \in mv'[t].chunk : Moved(p, t)'
    BY DEF JobInv
  <2>1. CASE t = s
    BY <1>2, <2>1 DEF JobBecomes
  <2>2. CASE t # s
    BY <1>2, <1>3, <2>2 DEF JobBecomes, JobInv
  <2> QED BY <2>1, <2>2
<1>5. mv'[s].at # "count"
    BY <1>2 DEF JobBecomes
<1> QED BY <1>2, <1>4, <1>5

\* Steps that change the job only: it begins, takes a chunk, goes on after an
\* error, or ends.
LEMMA JobNext ==
    ASSUME IInv, NEW s \in Streams,
           \/ SendStream(s) \/ Fetch(s) \/ MoveError(s) \/ EndJob(s)
           \/ \E C \in SUBSET Packs : UploadChunk(s, C)
           \/ \E p \in Packs : SidecarError(s, p)
    PROVE  IInv'
<1> USE DEF IInv, Job
<1>0. mv \in [Streams -> MvType]
    BY DEF TypeOK, MvType
<1>1. /\ up = "up" /\ mv[s].at # "count"
      /\ UNCHANGED <<store, stage, index, registry, consumed, readers, rd, doomed, orphans,
                     up, crashes>>
      /\ failures' \in 0..MaxFail
  <2>0. failures' = failures \/ (failures < MaxFail /\ failures' = failures + 1)
    BY DEF SendStream, Fetch, MoveError, EndJob, UploadChunk, SidecarError
  <2>1. failures' \in 0..MaxFail
    BY <2>0, PackAssumption DEF TypeOK
  <2>4. UNCHANGED <<store, stage, index, registry, consumed, readers, rd, doomed, orphans,
                    up, crashes>>
    BY Zenon DEF SendStream, Fetch, MoveError, EndJob, UploadChunk, SidecarError
  <2>2. up = "up" \/ mv[s].at # "off"
    BY DEF SendStream, Fetch, MoveError, EndJob, UploadChunk, SidecarError
  <2>3. mv[s].at # "count"
    BY DEF SendStream, Fetch, MoveError, EndJob, UploadChunk, SidecarError, JobInv
  <2> QED BY <2>1, <2>2, <2>3, <2>4 DEF BootInv, TypeOK
<1>2. \E x : JobBecomes(s, x) /\ (x.at = "side" => mv[s].at = "side")
  <2>1. CASE SendStream(s)
    <3> DEFINE y == [mv[s] EXCEPT !.at = "fetch"]
    <3>1. y \in MvType /\ mv' = [mv EXCEPT ![s] = y]
        BY <1>0, <2>1 DEF SendStream, MvType
    <3>2. y.at = "fetch" /\ y.rest = mv[s].rest
        BY <1>0 DEF MvType
    <3>3. mv[s].at = "off" /\ \A p \in mv[s].rest : <<p, s>> \in index
        BY <2>1 DEF SendStream, JobInv
    <3> HIDE DEF y
    <3>4. JobBecomes(s, y)
        BY <2>1, <3>1, <3>2, <3>3 DEF SendStream, JobBecomes
    <3> QED BY <3>1, <3>2, <3>4
  <2>2. CASE Fetch(s)
    <3> DEFINE y == [Idle EXCEPT !.at = "chunk", !.rest = Pending(s)]
    <3>1. y \in MvType /\ y.at = "chunk" /\ y.rest = Pending(s)
        BY DEF Idle, Pending, MvType
    <3>2. mv' = [mv EXCEPT ![s] = y]
        BY <2>2 DEF Fetch
    <3>3. s \in processing
        BY <2>2 DEF Fetch, JobInv
    <3> HIDE DEF y
    <3>4. JobBecomes(s, y)
        BY <2>2, <3>1, <3>2, <3>3 DEF Fetch, JobBecomes, Pending
    <3> QED BY <3>1, <3>2, <3>4
  <2>3. CASE MoveError(s) \/ EndJob(s)
    <3>1. Idle \in MvType /\ Idle.at = "off" /\ Idle.rest = {}
        BY DEF Idle, MvType
    <3>2. JobBecomes(s, Idle)
        BY <2>3, <3>1 DEF MoveError, EndJob, JobBecomes
    <3> QED BY <3>1, <3>2
  <2>4. ASSUME NEW C \in SUBSET Packs, UploadChunk(s, C) PROVE \E x : JobBecomes(s, x) /\ (x.at = "side" => mv[s].at = "side")
    <3> DEFINE y == [mv[s] EXCEPT !.at = "list", !.rest = @ \ C, !.chunk = C, !.todo = C]
    <3>1. y \in MvType /\ y.at = "list" /\ y.rest = mv[s].rest \ C /\ y.chunk = C /\ y.todo = C
        BY <1>0 DEF MvType
    <3>2. mv' = [mv EXCEPT ![s] = y]
        BY <2>4 DEF UploadChunk
    <3>3. s \in processing /\ \A p \in mv[s].rest : <<p, s>> \in index
        BY <2>4 DEF UploadChunk, JobInv
    <3> HIDE DEF y
    <3>4. JobBecomes(s, y)
        BY <2>4, <3>1, <3>2, <3>3 DEF UploadChunk, JobBecomes
    <3> QED BY <3>1, <3>2, <3>4
  <2>5. ASSUME NEW p \in Packs, SidecarError(s, p) PROVE \E x : JobBecomes(s, x) /\ (x.at = "side" => mv[s].at = "side")
    <3> DEFINE y == [mv[s] EXCEPT !.todo = @ \ {p}, !.err = TRUE]
    <3>1. /\ y \in MvType /\ y.at = mv[s].at /\ y.rest = mv[s].rest /\ y.chunk = mv[s].chunk
          /\ y.todo = mv[s].todo \ {p}
        BY <1>0 DEF MvType
    <3>2. mv' = [mv EXCEPT ![s] = y]
        BY <2>5 DEF SidecarError
    <3>3. s \in processing /\ \A q \in mv[s].rest : <<q, s>> \in index
        BY <2>5 DEF SidecarError, JobInv
    <3>4. /\ mv[s].todo \subseteq mv[s].chunk
          /\ \A q \in mv[s].chunk : <<q, s>> \in index /\ q \notin mv[s].rest
        BY <2>5 DEF SidecarError, JobInv
    <3> HIDE DEF y
    <3>5. JobBecomes(s, y)
        BY <2>5, <3>1, <3>2, <3>3, <3>4 DEF SidecarError, JobBecomes
    <3> QED BY <3>1, <3>5
  <2> QED BY <2>1, <2>2, <2>3, <2>4, <2>5
<1>3. PICK x : JobBecomes(s, x) /\ (x.at = "side" => mv[s].at = "side")
    BY <1>2
<1>4. \A q, t : Moved(q, t)' <=> Moved(q, t)
    BY <1>1 DEF Moved, store
<1>6. x.at = "side" => \A p \in x.chunk : Moved(p, s)'
    BY <1>3, <1>4 DEF JobBecomes, JobInv
<1>7. /\ processing' \subseteq Streams /\ mv' \in [Streams -> MvType] /\ JobInv'
      /\ mv'[s] = x /\ mv'[s].at # "count" /\ \A t \in Streams \ {s} : mv'[t] = mv[t]
    BY <1>1, <1>3, <1>4, <1>6, JobBecomesOK
<1>8. TypeOK'
    BY <1>1, <1>7 DEF TypeOK, MvType, store
<1>9. UploadInv'
    BY <1>1, <1>3, <1>7 DEF UploadInv, JobBecomes, store
<1>10. UNCHANGED <<packs, side, stage, index, registry, consumed, readers, rd, doomed, up>>
    BY <1>1 DEF store
<1>11. \A q \in Packs : side'[q] = side[q] \/ (side'[q] = side[q] \cup {s} /\ Moved(q, s)')
    BY <1>10
<1>12. \A q \in Packs, t \in Streams : Moved(q, t) => Moved(q, t)'
    BY <1>4
<1>13. JobInv' /\ mv'[s].at # "count" /\ \A t \in Streams \ {s} : mv'[t] = mv[t]
    BY <1>7
<1> HIDE DEF IInv
<1> QED BY <1>1, <1>8, <1>9, <1>10, <1>11, <1>12, <1>13, JobFrame

\* A chunk is given up, listed, or loses its entry: it counts as moved, and its
\* segments wait for the sidecar.
LEMMA ChunkNext ==
    ASSUME IInv, NEW s \in Streams,
           ListChunk(s) \/ SetLost(s) \/ \E C \in SUBSET Packs : DropChunk(s, C)
    PROVE  IInv'
<1> USE DEF IInv, Job
<1>0. mv \in [Streams -> MvType] /\ uploads \in [Segments -> Nat] /\ failures \in 0..MaxFail
      /\ crashes \in 0..MaxCrash /\ MaxFail \in Nat
    BY PackAssumption DEF TypeOK, MvType
<1>1. /\ mv[s].at \in {"chunk", "list"} /\ s \in processing
      /\ UNCHANGED <<packs, side, stage, index, registry, consumed, readers, processing, rd,
                     doomed, orphans, up, crashes>>
    BY DEF ListChunk, SetLost, DropChunk, JobInv
<1>2. up = "up"
    BY <1>1 DEF BootInv, TypeOK
<1>3. /\ failures' \in 0..MaxFail
      /\ dropped' \subseteq Segments /\ unlisted' \subseteq Segments
      /\ uploads' \in [Segments -> Nat]
      /\ \A x \in Segments : uploads[x] <= uploads'[x]
      /\ dropped \subseteq dropped' /\ unlisted \subseteq unlisted'
  <2> USE <1>0
  <2>0. dropped \subseteq Segments /\ unlisted \subseteq Segments /\ mv[s].chunk \subseteq Packs
    BY DEF TypeOK, MvType
  <2>1. CASE ListChunk(s)
    BY <2>0, <2>1 DEF ListChunk
  <2>2. CASE SetLost(s)
    BY <2>0, <2>2 DEF SetLost, Segments
  <2>3. CASE \E C \in SUBSET Packs : DropChunk(s, C)
    <3>1. PICK C \in SUBSET Packs : DropChunk(s, C)
        BY <2>3
    <3>2. C \X {s} \subseteq Segments /\ dropped' = dropped \cup (C \X {s})
        BY <3>1 DEF DropChunk, Segments
    <3>3. UNCHANGED <<failures, unlisted, uploads>>
        BY <3>1 DEF DropChunk
    <3> QED BY <2>0, <3>2, <3>3
  <2> QED BY <2>1, <2>2, <2>3
<1>4. \A q \in Packs, t \in Streams : Moved(q, t) => Moved(q, t)'
    BY <1>0, <1>3 DEF Moved, Segments
<1>5. PICK x : /\ JobBecomes(s, x) /\ x.at = "side" /\ x.chunk \subseteq Packs
               /\ x.chunk \X {s} \subseteq dropped' \/ x.chunk \X {s} \subseteq unlisted'
                  \/ ListChunk(s)
               /\ ListChunk(s) => x.chunk = mv[s].chunk
  <2>1. CASE ListChunk(s) \/ SetLost(s)
    <3> DEFINE y == [mv[s] EXCEPT !.at = "side"]
    <3>1. y \in MvType /\ mv' = [mv EXCEPT ![s] = y]
        BY <1>0, <2>1 DEF ListChunk, SetLost, MvType
    <3>2. /\ y.at = "side" /\ y.rest = mv[s].rest /\ y.chunk = mv[s].chunk
          /\ y.todo = mv[s].todo /\ y.chunk \subseteq Packs
        BY <1>0 DEF MvType
    <3>3. /\ mv[s].at = "list" /\ \A p \in mv[s].rest : <<p, s>> \in index
          /\ mv[s].todo \subseteq mv[s].chunk
          /\ \A p \in mv[s].chunk : <<p, s>> \in index /\ p \notin mv[s].rest
        BY <2>1 DEF ListChunk, SetLost, JobInv
    <3> HIDE DEF y
    <3>4. JobBecomes(s, y)
        BY <1>1, <3>1, <3>2, <3>3 DEF JobBecomes
    <3>5. ListChunk(s) \/ y.chunk \X {s} \subseteq unlisted'
        BY <2>1, <3>2 DEF SetLost
    <3> QED BY <3>2, <3>4, <3>5
  <2>2. ASSUME NEW C \in SUBSET Packs, DropChunk(s, C)
        PROVE  \E x : /\ JobBecomes(s, x) /\ x.at = "side" /\ x.chunk \subseteq Packs
                      /\ x.chunk \X {s} \subseteq dropped' /\ ~ ListChunk(s)
    <3> DEFINE y == [mv[s] EXCEPT !.at = "side", !.rest = @ \ C, !.chunk = C, !.todo = C]
    <3>1. y \in MvType /\ y.at = "side" /\ y.rest = mv[s].rest \ C /\ y.chunk = C /\ y.todo = C
        BY <1>0 DEF MvType
    <3>2. mv' = [mv EXCEPT ![s] = y]
        BY <2>2 DEF DropChunk
    <3>3. mv[s].at = "chunk" /\ \A p \in mv[s].rest : <<p, s>> \in index
        BY <2>2 DEF DropChunk, JobInv
    <3> HIDE DEF y
    <3>4. JobBecomes(s, y)
        BY <1>1, <2>2, <3>1, <3>2, <3>3 DEF DropChunk, JobBecomes
    <3>5. y.chunk \X {s} \subseteq dropped' /\ ~ ListChunk(s)
        BY <2>2, <3>1 DEF DropChunk, ListChunk
    <3> QED BY <3>1, <3>4, <3>5
  <2> QED BY <2>1, <2>2
<1>6. \A p \in x.chunk : Moved(p, s)'
  <2> SUFFICES ASSUME NEW p \in x.chunk PROVE Moved(p, s)'
    OBVIOUS
  <2>1. p \in Packs /\ <<p, s>> \in Segments
    BY <1>5 DEF Segments
  <2>2. CASE ListChunk(s)
    BY <1>0, <1>5, <2>1, <2>2 DEF ListChunk, Moved
  <2>3. CASE x.chunk \X {s} \subseteq dropped' \/ x.chunk \X {s} \subseteq unlisted'
    BY <2>3 DEF Moved
  <2> QED BY <1>5, <2>2, <2>3
<1>7. /\ processing' \subseteq Streams /\ mv' \in [Streams -> MvType] /\ JobInv'
      /\ mv'[s] = x /\ mv'[s].at # "count" /\ \A t \in Streams \ {s} : mv'[t] = mv[t]
    BY <1>1, <1>4, <1>5, <1>6, JobBecomesOK
<1>8. TypeOK'
    BY <1>1, <1>3, <1>7 DEF TypeOK, MvType
<1>9. UploadInv'
  <2>1. \A p \in Packs, t \in Streams \ {s} : uploads'[<<p, t>>] = uploads[<<p, t>>]
    BY DEF ListChunk, SetLost, DropChunk, Segments
  <2>2. \A p \in Packs : uploads'[<<p, s>>] = uploads[<<p, s>>]
                         \/ (p \in x.chunk /\ uploads'[<<p, s>>] = uploads[<<p, s>>] + 1)
    BY <1>5 DEF ListChunk, SetLost, DropChunk, Segments
  <2>3. \A p \in x.chunk : p \in Packs /\ <<p, s>> \in index /\ stage[p] = "indexed"
    BY <1>5 DEF JobBecomes, PlaceInv
  <2>4. \A p \in Packs : <<p, s>> \in index => uploads[<<p, s>>] <= crashes
    BY <1>1 DEF UploadInv
  <2>5. \A p \in Packs : uploads[<<p, s>>] \in Nat
    BY <1>0 DEF Segments
  <2>6. ASSUME NEW p \in Packs
        PROVE  \/ uploads'[<<p, s>>] <= crashes'
               \/ /\ uploads'[<<p, s>>] <= 1 + crashes'
                  /\ stage'[p] = "indexed"
                  /\ <<p, s>> \in index' => mv'[s].at = "side" /\ p \in mv'[s].chunk
    <3>1. CASE uploads'[<<p, s>>] = uploads[<<p, s>>]
        BY <1>1, <2>4, <3>1 DEF UploadInv
    <3>2. CASE p \in x.chunk /\ uploads'[<<p, s>>] = uploads[<<p, s>>] + 1
        BY <1>0, <1>1, <1>5, <1>7, <2>3, <2>4, <2>5, <3>2
    <3> QED BY <2>2, <3>1, <3>2
  <2>7. ASSUME NEW p \in Packs, NEW t \in Streams \ {s}
        PROVE  \/ uploads'[<<p, t>>] <= crashes'
               \/ /\ uploads'[<<p, t>>] <= 1 + crashes'
                  /\ stage'[p] = "indexed"
                  /\ <<p, t>> \in index' => mv'[t].at = "side" /\ p \in mv'[t].chunk
    BY <1>1, <1>7, <2>1 DEF UploadInv
  <2> QED BY <2>6, <2>7 DEF UploadInv
<1>10. \A q \in Packs : side'[q] = side[q] \/ (side'[q] = side[q] \cup {s} /\ Moved(q, s)')
    BY <1>1
<1>11. mv[s].at # "count" /\ mv'[s].at # "count" /\ \A t \in Streams \ {s} : mv'[t] = mv[t]
    BY <1>1, <1>7
<1>12. UNCHANGED <<packs, stage, index, registry, consumed, readers, rd, doomed, up>> /\ JobInv'
    BY <1>1, <1>7
<1> HIDE DEF IInv
<1> QED BY <1>2, <1>4, <1>8, <1>9, <1>10, <1>11, <1>12, JobFrame

\* A segment of the chunk gets its line in the sidecar.
LEMMA AppendSidecarNext ==
    ASSUME IInv, NEW s \in Streams, NEW p \in Packs, AppendSidecar(s, p)
    PROVE  IInv'
<1> USE DEF IInv, Job
<1>0. mv \in [Streams -> MvType] /\ side \in [Packs -> SUBSET Streams]
    BY DEF TypeOK, MvType
<1>1. /\ mv[s].at = "side" /\ s \in processing /\ p \in mv[s].todo
      /\ UNCHANGED <<packs, uploads, dropped, unlisted, stage, index, registry, consumed, readers,
                     processing, rd, doomed, orphans, up, failures, crashes>>
    BY DEF AppendSidecar, JobInv
<1>2. up = "up"
    BY <1>1 DEF BootInv, TypeOK
<1>3. \A q, t : Moved(q, t)' <=> Moved(q, t)
    BY <1>1 DEF Moved
<1> DEFINE y == [mv[s] EXCEPT !.todo = @ \ {p}]
<1>4. mv' = [mv EXCEPT ![s] = y]
    BY DEF AppendSidecar
<1>5. /\ y \in MvType /\ y.at = mv[s].at /\ y.rest = mv[s].rest /\ y.chunk = mv[s].chunk
      /\ y.todo = mv[s].todo \ {p}
    BY <1>0 DEF MvType
<1> HIDE DEF y
<1>6. /\ mv[s].todo \subseteq mv[s].chunk /\ \A q \in mv[s].rest : <<q, s>> \in index
      /\ \A q \in mv[s].chunk : <<q, s>> \in index /\ q \notin mv[s].rest /\ Moved(q, s)
    BY <1>1 DEF JobInv
<1>7. JobBecomes(s, y)
    BY <1>1, <1>4, <1>5, <1>6 DEF JobBecomes
<1>8. y.at = "side" => \A q \in y.chunk : Moved(q, s)'
    BY <1>3, <1>5, <1>6
<1>9. \A q \in Packs, t \in Streams : Moved(q, t) => Moved(q, t)'
    BY <1>3
<1>10. /\ processing' \subseteq Streams /\ mv' \in [Streams -> MvType] /\ JobInv'
       /\ mv'[s] = y /\ mv'[s].at # "count" /\ \A t \in Streams \ {s} : mv'[t] = mv[t]
    BY <1>1, <1>7, <1>8, <1>9, JobBecomesOK
<1>11. side' \in [Packs -> SUBSET Streams]
    BY <1>0 DEF AppendSidecar
<1>12. TypeOK'
    BY <1>1, <1>10, <1>11 DEF TypeOK, MvType
<1>13. UploadInv'
    BY <1>1, <1>5, <1>10 DEF UploadInv
<1>14. \A q \in Packs : side'[q] = side[q] \/ (side'[q] = side[q] \cup {s} /\ Moved(q, s)')
    BY <1>0, <1>1, <1>3, <1>6 DEF AppendSidecar
<1>15. mv[s].at # "count" /\ mv'[s].at # "count" /\ \A t \in Streams \ {s} : mv'[t] = mv[t]
    BY <1>1, <1>10
<1>16. UNCHANGED <<packs, stage, index, registry, consumed, readers, rd, doomed, up>> /\ JobInv'
    BY <1>1, <1>10
<1> HIDE DEF IInv
<1> QED BY <1>2, <1>9, <1>12, <1>13, <1>14, <1>15, <1>16, JobFrame

\* The chunk leaves the index: what was indexed is now with the worker, which
\* is about to count it.
LEMMA RemoveSegmentsNext ==
    ASSUME IInv, NEW s \in Streams, RemoveSegments(s)
    PROVE  IInv'
<1> USE DEF IInv
<1>0. mv \in [Streams -> MvType] /\ index \subseteq Segments
    BY DEF TypeOK, MvType
<1>1. /\ mv[s].at = "side" /\ mv' = [mv EXCEPT ![s] = [mv[s] EXCEPT !.at = "count"]]
      /\ index' = index \ (mv[s].chunk \X {s})
      /\ UNCHANGED <<packs, side, uploads, dropped, unlisted, stage, registry, consumed, readers,
                     processing, rd, doomed, orphans, up, failures, crashes>>
    BY DEF RemoveSegments, Job, store
<1>2. /\ mv' \in [Streams -> MvType] /\ \A t \in Streams \ {s} : mv'[t] = mv[t]
      /\ mv'[s].at = "count" /\ mv'[s].chunk = mv[s].chunk /\ mv'[s].rest = mv[s].rest
    BY <1>0, <1>1 DEF MvType
<1>3. \A q \in Packs, t \in Streams :
          <<q, t>> \in index' <=> <<q, t>> \in index /\ ~ (t = s /\ q \in mv[s].chunk)
    BY <1>1
<1>4. /\ s \in processing /\ mv[s].chunk \subseteq Packs /\ mv[s].rest \subseteq Packs
      /\ \A q \in mv[s].rest : <<q, s>> \in index
      /\ \A q \in mv[s].chunk : /\ <<q, s>> \in index /\ q \notin mv[s].rest /\ Moved(q, s)
                                /\ q \in registry /\ stage[q] = "indexed"
  <2>1. mv[s].chunk \subseteq Packs /\ mv[s].rest \subseteq Packs
    BY <1>0 DEF MvType
  <2> QED BY <1>1, <2>1 DEF JobInv, PlaceInv
<1>5. TypeOK'
    BY <1>0, <1>1, <1>2 DEF TypeOK, MvType
<1>6. \A q, t : Moved(q, t)' <=> Moved(q, t)
    BY <1>1 DEF Moved
<1>7. \A q \in Packs : Left(q)' = Left(q) /\ Holders(q)' = Holders(q)
  <2> SUFFICES ASSUME NEW q \in Packs PROVE Left(q)' = Left(q) /\ Holders(q)' = Holders(q)
    OBVIOUS
  <2>1. \A t \in Streams : t \in Left(q)' <=> t \in Left(q)
    BY <1>1, <1>2, <1>3, <1>4 DEF Left
  <2>2. Left(q)' \subseteq Streams /\ Left(q) \subseteq Streams
    BY DEF Left
  <2>3. Holders(q)' = Holders(q)
    BY <1>1 DEF Holders
  <2> QED BY <2>1, <2>2, <2>3
<1>8. PlaceInv' /\ BootInv'
  <2>1. up # "init"
    BY <1>1 DEF BootInv
  <2> QED BY <1>1, <1>3, <2>1 DEF PlaceInv, BootInv
<1>9. JobInv'
  <2> SUFFICES ASSUME NEW t \in Streams
               PROVE  /\ t \notin processing' => mv'[t].at = "off"
                      /\ \A p \in mv'[t].rest : <<p, t>> \in index'
                      /\ mv'[t].at \in {"list", "side"} =>
                            /\ mv'[t].todo \subseteq mv'[t].chunk
                            /\ \A p \in mv'[t].chunk : <<p, t>> \in index' /\ p \notin mv'[t].rest
                      /\ mv'[t].at = "count" => \A p \in mv'[t].chunk :
                            <<p, t>> \notin index' /\ p \in registry' /\ stage'[p] = "indexed"
                      /\ mv'[t].at \in {"side", "count"} =>
                            \A p \in mv'[t].chunk : Moved(p, t)'
    BY DEF JobInv
  <2>1. CASE t = s
    BY <1>1, <1>2, <1>3, <1>4, <1>6, <2>1
  <2>2. CASE t # s
    <3>1. mv[t].chunk \subseteq Packs /\ mv[t].rest \subseteq Packs
        BY <1>0 DEF MvType
    <3> QED BY <1>1, <1>2, <1>3, <1>6, <2>2, <3>1 DEF JobInv
  <2> QED BY <2>1, <2>2
<1>10. CountInv' /\ GuardInv'
    BY <1>1, <1>7 DEF CountInv, GuardInv, TypeOK
<1>11. MovedInv'
  <2>1. DeletedIsMoved'
    BY <1>1 DEF MovedInv, DeletedIsMoved
  <2> QED BY <1>1, <1>6, <1>7, <2>1 DEF MovedInv, TypeOK
<1>12. UploadInv'
  <2> SUFFICES ASSUME NEW p \in Packs, NEW t \in Streams
               PROVE  \/ uploads'[<<p, t>>] <= crashes'
                      \/ /\ uploads'[<<p, t>>] <= 1 + crashes'
                         /\ stage'[p] = "indexed"
                         /\ <<p, t>> \in index' => mv'[t].at = "side" /\ p \in mv'[t].chunk
    BY DEF UploadInv
  <2>1. \/ uploads[<<p, t>>] <= crashes
        \/ /\ uploads[<<p, t>>] <= 1 + crashes
           /\ stage[p] = "indexed"
           /\ <<p, t>> \in index => mv[t].at = "side" /\ p \in mv[t].chunk
    BY DEF UploadInv
  <2>2. CASE t = s
    BY <1>1, <1>3, <2>1, <2>2
  <2>3. CASE t # s
    BY <1>1, <1>2, <1>3, <2>1, <2>3
  <2> QED BY <2>2, <2>3
<1> QED BY <1>5, <1>8, <1>9, <1>10, <1>11, <1>12

----------------------------------------------------------------------------
(* Packs leave the registry                                                 *)

\* Packs may leave the registry, to be deleted, when nothing of them is left
\* and nobody has a guard on them.
LEMMA ReleaseFrame ==
    ASSUME IInv, NEW full \in SUBSET registry,
           registry' = registry \ full, doomed' = doomed \cup full,
           UNCHANGED <<packs, side, uploads, dropped, unlisted, stage, index, up>>,
           \A q \in full : Left(q)' = {} /\ stage[q] = "indexed",
           \A q \in full, t \in Streams : Moved(q, t)
    PROVE  /\ PlaceInv'
           /\ \A q \in Packs : \A t \in side'[q] : Moved(q, t)'
           /\ \A q \in doomed' : \A t \in Streams : Moved(q, t)'
           /\ DeletedIsMoved'
<1> USE DEF IInv
<1>1. \A q, t : Moved(q, t)' <=> Moved(q, t)
    BY DEF Moved
<1>2. \A q \in full, t \in Streams : <<q, t>> \notin index
    BY DEF Left
<1>3. PlaceInv'
    BY <1>2 DEF PlaceInv
<1>4. DeletedIsMoved'
    BY DEF MovedInv, DeletedIsMoved
<1> QED BY <1>1, <1>3, <1>4 DEF MovedInv

\* The worker counts its chunk as consumed.
LEMMA CountConsumedNext ==
    ASSUME IInv, NEW s \in Streams, CountConsumed(s)
    PROVE  IInv'
<1> USE DEF IInv
<1>0. /\ mv \in [Streams -> MvType] /\ registry \subseteq Packs /\ doomed \subseteq Packs
      /\ consumed \in [Packs -> 0..Total] /\ mv[s].chunk \subseteq Packs
  <2>1. mv \in [Streams -> MvType]
    BY DEF TypeOK, MvType
  <2> QED BY <2>1 DEF TypeOK, MvType
<1> DEFINE chunk == mv[s].chunk
           full  == {p \in chunk : consumed[p] + 1 >= Total /\ readers[p] = 0}
           y     == [mv[s] EXCEPT !.at = "chunk", !.chunk = {},
                                  !.rest = IF mv[s].err THEN {} ELSE @]
<1>1. /\ mv[s].at = "count" /\ s \in processing
      /\ \A p \in chunk : /\ p \in Packs /\ <<p, s>> \notin index /\ p \in registry
                          /\ stage[p] = "indexed" /\ Moved(p, s)
    BY <1>0 DEF CountConsumed, Job, JobInv
<1>2. /\ UNCHANGED <<packs, side, uploads, dropped, unlisted, stage, index, readers, processing,
                     rd, orphans, up, failures, crashes>>
      /\ mv' = [mv EXCEPT ![s] = y]
    BY DEF CountConsumed, store
<1>3. chunk \cap registry = chunk
    BY <1>1
<1>4. /\ consumed' = [p \in Packs |-> IF p \in chunk THEN consumed[p] + 1 ELSE consumed[p]]
      /\ registry' = registry \ full /\ doomed' = doomed \cup full
    BY <1>3 DEF CountConsumed
<1>5. y \in MvType /\ y.at = "chunk" /\ y.chunk = {} /\ y.rest \subseteq mv[s].rest
  <2>1. y.at = "chunk" /\ y.chunk = {} /\ y.rest = (IF mv[s].err THEN {} ELSE mv[s].rest)
    BY <1>0 DEF MvType
  <2> QED BY <1>0, <2>1 DEF MvType
<1>6. full \subseteq chunk /\ full \in SUBSET registry
    BY <1>1
<1> HIDE DEF y
<1>7. mv' \in [Streams -> MvType] /\ mv'[s] = y /\ \A t \in Streams \ {s} : mv'[t] = mv[t]
    BY <1>0, <1>2, <1>5
<1>8. \A q, t : Moved(q, t)' <=> Moved(q, t)
    BY <1>2 DEF Moved
<1>9. \A q \in Packs : Holders(q)' = Holders(q)
    BY <1>2 DEF Holders
<1>10. \A q \in Packs : Left(q)' = Left(q) \ (IF q \in chunk THEN {s} ELSE {})
    BY <1>1, <1>2, <1>5, <1>7 DEF Left
<1>11. ASSUME NEW q \in chunk
       PROVE  /\ s \in Left(q) /\ Left(q)' = Left(q) \ {s}
              /\ IsFiniteSet(Left(q)') /\ Cardinality(Left(q)') \in Nat
              /\ Cardinality(Left(q)') = Cardinality(Left(q)) - 1
              /\ consumed[q] + 1 + Cardinality(Left(q)') = Total
              /\ consumed[q] + 1 \in 0..Total
  <2>1. s \in Left(q) /\ Left(q)' = Left(q) \ {s} /\ q \in Packs /\ q \in registry
    BY <1>1, <1>10 DEF Left
  <2>2. IsFiniteSet(Left(q)) /\ Cardinality(Left(q)) \in Nat /\ Total \in Nat
    BY Sizes
  <2>3. IsFiniteSet(Left(q) \ {s}) /\ Cardinality(Left(q) \ {s}) = Cardinality(Left(q)) - 1
    BY <2>1, <2>2, FS_RemoveElement
  <2>4. Cardinality(Left(q)') \in Nat
    BY <2>1, <2>3, FS_CardinalityType
  <2>5. consumed[q] + Cardinality(Left(q)) = Total /\ consumed[q] \in Nat
    BY <1>0, <2>1 DEF CountInv
  <2> QED BY <2>1, <2>2, <2>3, <2>4, <2>5
<1>12. ASSUME NEW q \in full
       PROVE  Left(q)' = {} /\ Holders(q) = {} /\ \A t \in Streams : Moved(q, t)
  <2>1. q \in chunk /\ q \in registry /\ q \in Packs
    BY <1>1
  <2>2. Cardinality(Left(q)') = 0
    BY <1>0, <1>11, <2>1, Sizes
  <2>3. Left(q)' = {}
    BY <1>11, <2>1, <2>2, FS_EmptySet
  <2>4. Holders(q) = {}
    BY <2>1, Sizes DEF GuardInv
  <2>5. \A t \in Streams : Moved(q, t)
    BY <1>1, <1>11, <2>1, <2>3 DEF MovedInv
  <2> QED BY <2>3, <2>4, <2>5
<1>13. consumed' \in [Packs -> 0..Total]
    BY <1>0, <1>4, <1>11
<1>14. TypeOK'
  <2>1. registry' \subseteq Packs /\ doomed' \subseteq Packs
    BY <1>0, <1>4
  <2> QED BY <1>2, <1>7, <1>13, <2>1 DEF TypeOK, MvType
<1>15. /\ PlaceInv'
       /\ \A q \in Packs : \A t \in side'[q] : Moved(q, t)'
       /\ \A q \in doomed' : \A t \in Streams : Moved(q, t)'
       /\ DeletedIsMoved'
  <2>1. \A q \in full : Left(q)' = {} /\ stage[q] = "indexed"
    BY <1>1, <1>6, <1>12
  <2>2. \A q \in full, t \in Streams : Moved(q, t)
    BY <1>12
  <2> HIDE DEF IInv, full
  <2> QED BY <1>2, <1>4, <1>6, <2>1, <2>2, ReleaseFrame
<1>16. MovedInv'
  <2>1. \A q \in registry' : \A t \in Streams \ Left(q)' : Moved(q, t)'
    BY <1>0, <1>1, <1>4, <1>8, <1>10 DEF MovedInv
  <2> QED BY <1>15, <2>1 DEF MovedInv
<1>17. CountInv'
  <2> SUFFICES ASSUME NEW q \in registry' PROVE consumed'[q] + Cardinality(Left(q)') = Total
    BY DEF CountInv
  <2>1. q \in registry /\ q \in Packs
    BY <1>0, <1>4
  <2>2. CASE q \in chunk
    BY <1>4, <1>11, <2>1, <2>2
  <2>3. CASE q \notin chunk
    <3>1. Left(q)' = Left(q)
        BY <1>10, <2>1, <2>3
    <3> QED BY <1>4, <2>1, <2>3, <3>1 DEF CountInv
  <2> QED BY <2>2, <2>3
<1>18. GuardInv'
  <2>1. \A r \in Readers : rd[r].guards \subseteq registry'
    BY <1>4, <1>12 DEF GuardInv, Holders
  <2> QED BY <1>0, <1>2, <1>4, <1>9, <2>1 DEF GuardInv
<1>19. JobInv'
  <2> SUFFICES ASSUME NEW t \in Streams
               PROVE  /\ t \notin processing' => mv'[t].at = "off"
                      /\ \A p \in mv'[t].rest : <<p, t>> \in index'
                      /\ mv'[t].at \in {"list", "side"} =>
                            /\ mv'[t].todo \subseteq mv'[t].chunk
                            /\ \A p \in mv'[t].chunk : <<p, t>> \in index' /\ p \notin mv'[t].rest
                      /\ mv'[t].at = "count" => \A p \in mv'[t].chunk :
                            <<p, t>> \notin index' /\ p \in registry' /\ stage'[p] = "indexed"
                      /\ mv'[t].at \in {"side", "count"} =>
                            \A p \in mv'[t].chunk : Moved(p, t)'
    BY DEF JobInv
  <2>1. CASE t = s
    BY <1>1, <1>2, <1>5, <1>7, <2>1 DEF JobInv
  <2>2. CASE t # s
    <3>1. mv[t].at = "count" => \A p \in mv[t].chunk : p \notin full
        BY <1>1, <1>7, <1>12, <2>2 DEF Left
    <3>2. mv'[t] = mv[t]
        BY <1>7, <2>2
    <3> QED BY <1>2, <1>4, <1>8, <3>1, <3>2 DEF JobInv
  <2> QED BY <2>1, <2>2
<1>20. BootInv' /\ UploadInv'
    BY <1>1, <1>2, <1>7 DEF BootInv, UploadInv
<1> QED BY <1>14, <1>15, <1>16, <1>17, <1>18, <1>19, <1>20

\* Deletion of files: the registry does not know the pack any more.
LEMMA DeleteNext ==
    ASSUME IInv, NEW p \in Packs, DeletePack(p) \/ DeleteError(p) \/ DeleteSidecar(p)
    PROVE  IInv'
<1> USE DEF IInv
<1>1. /\ UNCHANGED <<uploads, dropped, unlisted, stage, index, registry, consumed, readers,
                     processing, mv, rd, up, crashes>>
      /\ failures' = failures \/ (failures < MaxFail /\ failures' = failures + 1)
    BY DEF DeletePack, DeleteError, DeleteSidecar, store, mover
<1>2. \/ /\ p \in doomed /\ packs' = packs \ {p} /\ doomed' = doomed \ {p} /\ side' = side
         /\ orphans' = orphans \cup {p}
      \/ doomed' = doomed \ {p} /\ packs' = packs /\ side' = side /\ orphans' = orphans
      \/ /\ side' = [side EXCEPT ![p] = {}] /\ packs' = packs /\ doomed' = doomed
         /\ orphans' = orphans \ {p}
    BY DEF DeletePack, DeleteError, DeleteSidecar, store
<1>3. TypeOK'
  <2>1. failures' \in 0..MaxFail
    BY <1>1, PackAssumption DEF TypeOK
  <2>2. /\ packs' \subseteq Packs /\ doomed' \subseteq Packs /\ orphans' \subseteq Packs
        /\ side' \in [Packs -> SUBSET Streams]
    BY <1>2 DEF TypeOK
  <2> QED BY <1>1, <2>1, <2>2 DEF TypeOK
<1>4. \A q : Left(q)' = Left(q) /\ Holders(q)' = Holders(q)
    BY <1>1 DEF Left, Holders
<1>5. \A q, t : Moved(q, t)' <=> Moved(q, t)
    BY <1>1 DEF Moved
<1>6. PlaceInv'
    BY <1>1, <1>2 DEF PlaceInv
<1>7. JobInv' /\ BootInv'
    BY <1>1, <1>5 DEF JobInv, BootInv
<1>8. CountInv' /\ GuardInv'
    BY <1>1, <1>4 DEF CountInv, GuardInv
<1>9. MovedInv'
  <2>1. \A q \in Packs : side'[q] \subseteq side[q]
    BY <1>2 DEF TypeOK
  <2>2. doomed' \subseteq doomed /\ \A q \in packs \ packs' : q \in doomed
    BY <1>2
  <2>3. \A q \in Packs : stage[q] # "new" /\ q \notin packs' => \A t \in Streams : Moved(q, t)
    BY <2>2 DEF MovedInv, DeletedIsMoved, Moved
  <2>4. DeletedIsMoved'
    BY <1>1, <2>3 DEF DeletedIsMoved, Moved
  <2> QED BY <1>1, <1>4, <1>5, <2>1, <2>2, <2>4 DEF MovedInv
<1>10. UploadInv'
    BY <1>1 DEF UploadInv
<1> QED BY <1>3, <1>6, <1>7, <1>8, <1>9, <1>10

----------------------------------------------------------------------------
(* Reads                                                                    *)

RdType == [segs : SUBSET Packs, guards : SUBSET Packs]

\* A read takes its guards: every pack it is about to read gets one.
LEMMA BeginReadNext ==
    ASSUME IInv, NEW r \in Readers, NEW s \in Streams, BeginRead(r, s)
    PROVE  IInv'
<1> USE DEF IInv
<1> DEFINE P == Pending(s)
           x == [segs |-> P, guards |-> P]
<1>0. /\ rd \in [Readers -> RdType] /\ registry \subseteq Packs
      /\ readers \in [Packs -> 0..Cardinality(Readers)]
    BY DEF TypeOK, RdType
<1>1. P \in SUBSET Packs /\ P \subseteq registry /\ P \cap registry = P
    BY DEF Pending, PlaceInv
<1>2. /\ UNCHANGED <<packs, side, uploads, dropped, unlisted, stage, index, registry, consumed,
                     processing, mv, doomed, orphans, up, failures, crashes>>
      /\ up = "up" /\ rd[r].guards = {}
      /\ rd' = [rd EXCEPT ![r] = x]
      /\ readers' = [p \in Packs |-> IF p \in P THEN readers[p] + 1 ELSE readers[p]]
  <2>1. /\ UNCHANGED <<packs, side, uploads, dropped, unlisted, stage, index, registry, consumed,
                       processing, mv, doomed, orphans, up, failures, crashes>>
        /\ up = "up" /\ rd[r].guards = {}
    BY DEF BeginRead, store, mover, NoRead
  <2>2. /\ rd' = [rd EXCEPT ![r] = [segs |-> P, guards |-> P \cap registry]]
        /\ readers' = [p \in Packs |-> IF p \in P \cap registry
                                       THEN readers[p] + 1 ELSE readers[p]]
    BY Zenon DEF BeginRead
  <2> HIDE DEF P
  <2> QED BY <1>1, <2>1, <2>2
<1> HIDE DEF P
<1>3. rd' \in [Readers -> RdType] /\ rd'[r] = x /\ \A u \in Readers \ {r} : rd'[u] = rd[u]
    BY <1>0, <1>1, <1>2 DEF RdType
<1>4. \A q \in Packs : Holders(q)' = IF q \in P THEN Holders(q) \cup {r} ELSE Holders(q)
    BY <1>2, <1>3 DEF Holders
<1>5. ASSUME NEW q \in P
      PROVE  /\ Cardinality(Holders(q)') = readers[q] + 1
             /\ readers[q] + 1 \in 0..Cardinality(Readers)
  <2>1. q \in Packs /\ q \in registry
    BY <1>1
  <2>2. Holders(q)' = Holders(q) \cup {r} /\ r \notin Holders(q) /\ Holders(q)' \in SUBSET Readers
    BY <1>2, <1>4, <2>1 DEF Holders
  <2>3. IsFiniteSet(Holders(q)) /\ Cardinality(Holders(q)) = readers[q] /\ readers[q] \in Nat
    BY <1>0, <2>1, Sizes DEF GuardInv
  <2>4. Cardinality(Holders(q)') = readers[q] + 1
    BY <2>2, <2>3, FS_AddElement
  <2>5. Cardinality(Holders(q)') <= Cardinality(Readers) /\ Cardinality(Readers) \in Nat
    BY <2>2, PackAssumption, FS_Subset, FS_CardinalityType
  <2> QED BY <2>3, <2>4, <2>5
<1>6. readers' \in [Packs -> 0..Cardinality(Readers)]
    BY <1>0, <1>2, <1>5
<1>7. TypeOK'
    BY <1>2, <1>3, <1>6 DEF TypeOK, RdType
<1>8. \A q : Left(q)' = Left(q)
    BY <1>2 DEF Left
<1>9. \A q, t : Moved(q, t)' <=> Moved(q, t)
    BY <1>2 DEF Moved
<1>10. PlaceInv' /\ BootInv' /\ UploadInv'
    BY <1>2 DEF PlaceInv, BootInv, UploadInv
<1>11. JobInv'
    BY <1>2, <1>9 DEF JobInv
<1>12. CountInv'
    BY <1>2, <1>8 DEF CountInv
<1>13. MovedInv'
  <2>1. DeletedIsMoved'
    BY <1>2 DEF MovedInv, DeletedIsMoved
  <2> QED BY <1>2, <1>8, <1>9, <2>1 DEF MovedInv
<1>14. GuardInv'
  <2>1. \A q \in registry : readers'[q] = Cardinality(Holders(q)')
    BY <1>0, <1>2, <1>4, <1>5 DEF GuardInv
  <2>2. \A u \in Readers : rd'[u].segs \subseteq rd'[u].guards /\ rd'[u].guards \subseteq registry
    BY <1>1, <1>3 DEF GuardInv
  <2> QED BY <1>2, <2>1, <2>2 DEF GuardInv
<1> QED BY <1>7, <1>10, <1>11, <1>12, <1>13, <1>14

\* A segment is read; the guards stay.
LEMMA ReadSegmentNext ==
    ASSUME IInv, NEW r \in Readers, NEW p \in Packs, ReadSegment(r, p)
    PROVE  IInv'
<1> USE DEF IInv
<1>0. rd \in [Readers -> RdType]
    BY DEF TypeOK, RdType
<1>1. UNCHANGED <<packs, side, uploads, dropped, unlisted, stage, index, registry, consumed,
                  readers, processing, mv, doomed, orphans, up, failures, crashes>>
    BY DEF ReadSegment, store, mover
<1>2. p \in rd[r].segs /\ rd' = [rd EXCEPT ![r].segs = @ \ {p}]
    BY DEF ReadSegment
<1>3. /\ rd' \in [Readers -> RdType] /\ \A u \in Readers \ {r} : rd'[u] = rd[u]
      /\ rd'[r].segs = rd[r].segs \ {p} /\ rd'[r].guards = rd[r].guards
    BY <1>0, <1>2 DEF RdType
<1>4. \A q : Left(q)' = Left(q) /\ Holders(q)' = Holders(q)
    BY <1>1, <1>3 DEF Left, Holders
<1>5. \A q, t : Moved(q, t)' <=> Moved(q, t)
    BY <1>1 DEF Moved
<1>6. TypeOK'
    BY <1>1, <1>3 DEF TypeOK, RdType
<1>7. up # "init"
    BY <1>2 DEF BootInv, NoRead
<1>8. PlaceInv' /\ BootInv' /\ UploadInv'
    BY <1>1, <1>7 DEF PlaceInv, BootInv, UploadInv
<1>9. JobInv'
    BY <1>1, <1>5 DEF JobInv
<1>10. CountInv' /\ GuardInv'
    BY <1>1, <1>3, <1>4 DEF CountInv, GuardInv
<1>11. MovedInv'
  <2>1. DeletedIsMoved'
    BY <1>1 DEF MovedInv, DeletedIsMoved
  <2> QED BY <1>1, <1>4, <1>5, <2>1 DEF MovedInv
<1> QED BY <1>6, <1>8, <1>9, <1>10, <1>11

\* A read lets its guards go, the last one of a consumed pack lets the pack go.
LEMMA EndReadNext ==
    ASSUME IInv, NEW r \in Readers, EndRead(r)
    PROVE  IInv'
<1> USE DEF IInv
<1> DEFINE held == rd[r].guards
           full == {p \in held : readers[p] = 1 /\ consumed[p] >= Total}
<1>0. /\ rd \in [Readers -> RdType] /\ registry \subseteq Packs /\ doomed \subseteq Packs
      /\ readers \in [Packs -> 0..Cardinality(Readers)] /\ consumed \in [Packs -> 0..Total]
    BY DEF TypeOK, RdType
<1>1. held \subseteq registry /\ held \cap registry = held /\ full \in SUBSET registry
    BY DEF GuardInv
<1>2. /\ UNCHANGED <<packs, side, uploads, dropped, unlisted, stage, index, consumed, processing, mv,
                     orphans, up, failures, crashes>>
      /\ rd[r] # NoRead /\ rd' = [rd EXCEPT ![r] = NoRead]
    BY DEF EndRead, store, mover
<1>3. /\ readers' = [p \in Packs |-> IF p \in held THEN readers[p] - 1 ELSE readers[p]]
      /\ registry' = registry \ full /\ doomed' = doomed \cup full
    BY <1>1 DEF EndRead
<1>4. rd' \in [Readers -> RdType] /\ rd'[r] = NoRead /\ \A u \in Readers \ {r} : rd'[u] = rd[u]
    BY <1>0, <1>2 DEF RdType, NoRead
<1>5. \A q \in Packs : Holders(q)' = IF q \in held THEN Holders(q) \ {r} ELSE Holders(q)
    BY <1>4 DEF Holders, NoRead
<1>6. ASSUME NEW q \in held
      PROVE  /\ Cardinality(Holders(q)') = readers[q] - 1 /\ IsFiniteSet(Holders(q)')
             /\ readers[q] - 1 \in 0..Cardinality(Readers)
  <2>1. q \in Packs /\ q \in registry
    BY <1>0, <1>1
  <2>2. Holders(q)' = Holders(q) \ {r} /\ r \in Holders(q)
    BY <1>5, <2>1 DEF Holders
  <2>3. /\ IsFiniteSet(Holders(q)) /\ Cardinality(Holders(q)) = readers[q]
        /\ readers[q] \in 0..Cardinality(Readers) /\ Cardinality(Readers) \in Nat
    BY <1>0, <2>1, Sizes DEF GuardInv
  <2>4. Cardinality(Holders(q)') = readers[q] - 1 /\ IsFiniteSet(Holders(q)')
    BY <2>2, <2>3, FS_RemoveElement
  <2>5. Cardinality(Holders(q)') \in Nat
    BY <2>4, FS_CardinalityType
  <2> QED BY <2>3, <2>4, <2>5
<1>7. readers' \in [Packs -> 0..Cardinality(Readers)]
    BY <1>0, <1>3, <1>6
<1>8. TypeOK'
  <2>1. registry' \subseteq Packs /\ doomed' \subseteq Packs
    BY <1>0, <1>1, <1>3
  <2> QED BY <1>2, <1>4, <1>7, <2>1 DEF TypeOK, RdType
<1>9. \A q : Left(q)' = Left(q)
    BY <1>2 DEF Left
<1>10. \A q, t : Moved(q, t)' <=> Moved(q, t)
    BY <1>2 DEF Moved
<1>11. ASSUME NEW q \in full
       PROVE  Left(q) = {} /\ Holders(q)' = {} /\ \A t \in Streams : Moved(q, t)
  <2>1. q \in registry /\ q \in Packs /\ q \in held
    BY <1>0, <1>1
  <2>2. Cardinality(Left(q)) = 0
    BY <1>0, <2>1, Sizes DEF CountInv
  <2>3. Left(q) = {}
    BY <2>2, Sizes
  <2>4. Holders(q)' = {}
    BY <1>6, <2>1, FS_EmptySet
  <2>5. \A t \in Streams : Moved(q, t)
    BY <2>1, <2>3 DEF MovedInv
  <2> QED BY <2>3, <2>4, <2>5
<1>12. /\ PlaceInv'
       /\ \A q \in Packs : \A t \in side'[q] : Moved(q, t)'
       /\ \A q \in doomed' : \A t \in Streams : Moved(q, t)'
       /\ DeletedIsMoved'
  <2>1. \A q \in full : stage[q] = "indexed"
    BY <1>0, <1>1, <1>11, PackAssumption DEF PlaceInv, Left
  <2>2. \A q \in full : Left(q)' = {} /\ stage[q] = "indexed"
    BY <1>9, <1>11, <2>1
  <2>3. \A q \in full, t \in Streams : Moved(q, t)
    BY <1>11
  <2> HIDE DEF IInv, full
  <2> QED BY <1>1, <1>2, <1>3, <2>2, <2>3, ReleaseFrame
<1>13. MovedInv'
  <2>1. \A q \in registry' : \A t \in Streams \ Left(q)' : Moved(q, t)'
    BY <1>3, <1>9, <1>10 DEF MovedInv
  <2> QED BY <1>12, <2>1 DEF MovedInv
<1>14. CountInv'
    BY <1>2, <1>3, <1>9 DEF CountInv
<1>15. GuardInv'
  <2>1. \A q \in registry' : readers'[q] = Cardinality(Holders(q)')
    BY <1>0, <1>3, <1>5, <1>6 DEF GuardInv
  <2>2. ASSUME NEW u \in Readers
        PROVE  rd'[u].segs \subseteq rd'[u].guards /\ rd'[u].guards \subseteq registry'
    <3>1. \A q \in full : q \in Packs /\ u \notin Holders(q)'
        BY <1>0, <1>1, <1>11
    <3>2. rd'[u].segs \subseteq rd'[u].guards /\ rd'[u].guards \subseteq registry
        BY <1>4 DEF GuardInv, NoRead
    <3> QED BY <1>3, <3>1, <3>2 DEF Holders
  <2> QED BY <2>1, <2>2 DEF GuardInv
<1>16. JobInv'
  <2>1. \A t \in Streams : mv[t].at = "count" => \A p \in mv[t].chunk : p \notin full
    BY <1>11 DEF Left
  <2> QED BY <1>2, <1>3, <1>10, <2>1 DEF JobInv
<1>17. BootInv' /\ UploadInv'
  <2>1. up # "init"
    BY <1>2 DEF BootInv
  <2> QED BY <1>2, <2>1 DEF BootInv, UploadInv
<1> QED BY <1>8, <1>12, <1>13, <1>14, <1>15, <1>16, <1>17

----------------------------------------------------------------------------
(* A kill, and init                                                         *)

\* The memory is gone.  What was moved is known from the files and the list.
LEMMA CrashNext == ASSUME IInv, Crash PROVE IInv'
<1> USE DEF IInv, Crash, store
<1>1. TypeOK'
    BY ZeroInBounds, PackAssumption DEF TypeOK, Idle, NoRead
<1>2. /\ PlaceInv' /\ BootInv' /\ CountInv'
    BY DEF PlaceInv, BootInv, CountInv, Idle
<1>3. JobInv' /\ GuardInv'
    BY DEF JobInv, GuardInv, Idle, NoRead
<1>4. MovedInv'
  <2>1. \A q, t : Moved(q, t)' <=> Moved(q, t)
    BY DEF Moved
  <2>2. \A q \in Packs : stage'[q] # "new" => stage[q] # "new"
    OBVIOUS
  <2>3. DeletedIsMoved'
    BY <2>2 DEF MovedInv, DeletedIsMoved
  <2> QED BY <2>1, <2>3 DEF MovedInv
<1>5. UploadInv'
  <2>1. \A p \in Packs, s \in Streams : uploads[<<p, s>>] \in Nat
    BY DEF TypeOK, Segments
  <2>2. crashes \in Nat
    BY PackAssumption DEF TypeOK
  <2>3. ASSUME NEW p \in Packs, NEW s \in Streams PROVE uploads[<<p, s>>] <= crashes + 1
    BY <2>1, <2>2 DEF UploadInv
  <2>4. uploads' = uploads /\ crashes' = crashes + 1
    OBVIOUS
  <2> HIDE DEF IInv, Crash
  <2> QED BY <2>3, <2>4 DEF UploadInv
<1> QED BY <1>1, <1>2, <1>3, <1>4, <1>5

\* init registers a pack with what its sidecar does not name.
LEMMA InitPackNext == ASSUME IInv, NEW p \in Packs, InitPack(p) PROVE IInv'
<1> USE DEF IInv
<1>0. /\ UNCHANGED <<packs, side, uploads, dropped, unlisted, readers, processing, mv, rd, doomed,
                     orphans, up, failures, crashes>>
      /\ up = "init" /\ p \in packs /\ stage[p] = "renamed"
      /\ registry' = registry \cup {p}
      /\ consumed' = [consumed EXCEPT ![p] = Cardinality(side[p])]
      /\ index' = index \cup {<<p, s>> : s \in Streams \ side[p]}
      /\ stage' = [stage EXCEPT ![p] = "indexed"]
    BY DEF InitPack, store, mover
<1>1. /\ p \notin registry /\ p \notin doomed /\ readers[p] = 0
      /\ \A s \in Streams : <<p, s>> \notin index /\ mv[s].at = "off"
    BY <1>0 DEF PlaceInv, BootInv
<1>2. /\ stage \in [Packs -> {"new", "renamed", "registered", "indexed"}]
      /\ consumed \in [Packs -> 0..Total] /\ side[p] \in SUBSET Streams
    BY DEF TypeOK
<1>3. \A q \in Packs, t \in Streams :
          <<q, t>> \in index' <=> <<q, t>> \in index \/ (q = p /\ t \notin side[p])
    BY <1>0
<1>4. /\ IsFiniteSet(side[p]) /\ Cardinality(side[p]) \in 0..Total
      /\ Cardinality(side[p]) + Cardinality(Streams \ side[p]) = Total
  <2>1. IsFiniteSet(side[p]) /\ Cardinality(side[p]) <= Total /\ Total \in Nat
    BY <1>2, PackAssumption, FS_Subset, FS_CardinalityType DEF Total
  <2>2. Cardinality(side[p]) \in Nat
    BY <2>1, FS_CardinalityType
  <2>3. Streams \cap side[p] = side[p]
    BY <1>2
  <2>4. Cardinality(Streams \ side[p]) = Total - Cardinality(Streams \cap side[p])
    BY <2>1, PackAssumption, FS_Difference DEF Total
  <2>5. Cardinality(Streams \ side[p]) = Total - Cardinality(side[p])
    BY <2>3, <2>4
  <2>6. Cardinality(side[p]) + Cardinality(Streams \ side[p]) = Total
    BY <2>1, <2>2, <2>5
  <2> QED BY <2>1, <2>2, <2>6
<1>5. \A q \in Packs : /\ q # p => Left(q)' = Left(q)
                       /\ Holders(q)' = Holders(q)
    BY <1>0, <1>2, <1>3 DEF Left, Holders
<1>6. Left(p)' = Streams \ side[p]
    BY <1>0, <1>1, <1>2, <1>3 DEF Left
<1>7. Holders(p) = {}
    BY <1>1 DEF Holders, GuardInv
<1>8. \A q, t : Moved(q, t)' <=> Moved(q, t)
    BY <1>0 DEF Moved
<1>9. TypeOK'
  <2>1. /\ consumed' \in [Packs -> 0..Total] /\ registry' \subseteq Packs
        /\ stage' \in [Packs -> {"new", "renamed", "registered", "indexed"}]
    BY <1>0, <1>2, <1>4 DEF TypeOK
  <2>2. index' \subseteq Segments
    BY <1>0 DEF TypeOK, Segments
  <2> QED BY <1>0, <2>1, <2>2 DEF TypeOK
<1>10. PlaceInv'
    BY <1>0, <1>1, <1>2, <1>3 DEF PlaceInv
<1>11. BootInv'
    BY <1>0 DEF BootInv
<1>12. JobInv'
  <2>1. \A t \in Streams : mv[t].rest \subseteq Packs /\ mv[t].at = "off"
    BY <1>1 DEF TypeOK
  <2> QED BY <1>0, <1>3, <2>1 DEF JobInv
<1>13. CountInv'
    BY <1>0, <1>2, <1>4, <1>5, <1>6 DEF CountInv, TypeOK
<1>14. GuardInv'
  <2>1. Cardinality(Holders(p)) = 0
    BY <1>7, Sizes
  <2> QED BY <1>0, <1>1, <1>5, <2>1 DEF GuardInv, TypeOK
<1>15. MovedInv'
  <2>1. DeletedIsMoved'
    BY <1>0, <1>2 DEF MovedInv, DeletedIsMoved
  <2>2. \A q \in registry' : \A t \in Streams \ Left(q)' : Moved(q, t)'
    BY <1>0, <1>5, <1>6, <1>8 DEF MovedInv, TypeOK
  <2> QED BY <1>0, <1>8, <2>1, <2>2 DEF MovedInv
<1>16. UploadInv'
    BY <1>0, <1>2, <1>3 DEF UploadInv
<1> QED BY <1>9, <1>10, <1>11, <1>12, <1>13, <1>14, <1>15, <1>16

\* init finds a pack all of whose segments are in the sidecar.
LEMMA InitDeleteNext == ASSUME IInv, NEW p \in Packs, InitDelete(p) PROVE IInv'
<1> USE DEF IInv
<1>0. /\ UNCHANGED <<packs, side, uploads, dropped, unlisted, index, registry, consumed, readers,
                     processing, mv, rd, orphans, up, failures, crashes>>
      /\ up = "init" /\ p \in packs /\ stage[p] = "renamed" /\ side[p] = Streams
      /\ doomed' = doomed \cup {p}
      /\ stage' = [stage EXCEPT ![p] = "indexed"]
    BY DEF InitDelete, store, mover
<1>1. p \notin registry /\ stage \in [Packs -> {"new", "renamed", "registered", "indexed"}]
    BY <1>0 DEF PlaceInv, TypeOK
<1>2. TypeOK'
    BY <1>0, <1>1 DEF TypeOK
<1>3. \A q \in Packs : Left(q)' = Left(q) /\ Holders(q)' = Holders(q)
    BY <1>0, <1>1 DEF Left, Holders
<1>4. \A q, t : Moved(q, t)' <=> Moved(q, t)
    BY <1>0 DEF Moved
<1>5. PlaceInv' /\ BootInv'
    BY <1>0, <1>1 DEF PlaceInv, BootInv
<1>6. JobInv'
  <2>1. \A t \in Streams : mv[t].at = "off"
    BY <1>0 DEF BootInv
  <2> QED BY <1>0, <2>1 DEF JobInv
<1>7. CountInv' /\ GuardInv'
    BY <1>0, <1>3 DEF CountInv, GuardInv, TypeOK
<1>8. MovedInv'
  <2>1. DeletedIsMoved'
    BY <1>0, <1>1 DEF MovedInv, DeletedIsMoved
  <2>2. \A q \in registry' : \A t \in Streams \ Left(q)' : Moved(q, t)'
    BY <1>0, <1>3, <1>4 DEF MovedInv, TypeOK
  <2>3. \A q \in doomed' : \A t \in Streams : Moved(q, t)'
    BY <1>0, <1>4 DEF MovedInv
  <2> QED BY <1>0, <1>4, <2>1, <2>2, <2>3 DEF MovedInv
<1>9. UploadInv'
    BY <1>0, <1>1 DEF UploadInv
<1> QED BY <1>2, <1>5, <1>6, <1>7, <1>8, <1>9

\* init is through: what is not on disk is not waited for.
LEMMA InitDoneNext == ASSUME IInv, InitDone PROVE IInv'
<1> USE DEF IInv
<1>0. /\ UNCHANGED <<packs, uploads, dropped, unlisted, index, registry, consumed, readers,
                     processing, mv, rd, doomed, orphans, failures, crashes>>
      /\ up = "init" /\ up' = "up" /\ \A p \in packs : stage[p] = "indexed"
      /\ side' = [p \in Packs |-> IF p \in packs THEN side[p] ELSE {}]
      /\ stage' = [p \in Packs |-> IF stage[p] = "renamed" THEN "indexed" ELSE stage[p]]
    BY DEF InitDone, store, mover
<1>1. TypeOK'
    BY <1>0 DEF TypeOK
<1>2. \A q \in Packs : Left(q)' = Left(q) /\ Holders(q)' = Holders(q)
    BY <1>0 DEF Left, Holders
<1>3. \A q, t : Moved(q, t)' <=> Moved(q, t)
    BY <1>0 DEF Moved
<1>4. PlaceInv' /\ BootInv'
    BY <1>0 DEF PlaceInv, BootInv
<1>5. JobInv'
  <2>1. \A t \in Streams : mv[t].at = "off"
    BY <1>0 DEF BootInv
  <2> QED BY <1>0, <2>1 DEF JobInv
<1>6. CountInv' /\ GuardInv'
    BY <1>0, <1>2 DEF CountInv, GuardInv, TypeOK
<1>7. MovedInv'
  <2>1. DeletedIsMoved'
    BY <1>0 DEF MovedInv, DeletedIsMoved
  <2>2. \A q \in registry' : \A t \in Streams \ Left(q)' : Moved(q, t)'
    BY <1>0, <1>2, <1>3 DEF MovedInv, TypeOK
  <2> QED BY <1>0, <1>3, <2>1, <2>2 DEF MovedInv
<1>8. UploadInv'
    BY <1>0 DEF UploadInv
<1> QED BY <1>1, <1>4, <1>5, <1>6, <1>7, <1>8

----------------------------------------------------------------------------
(* The invariant is inductive; what follows from it.                        *)

\* Every step of the process, its faults included, keeps the invariant.
LEMMA PackInductive == IInv /\ [Next]_vars => IInv'
<1> SUFFICES ASSUME IInv, [Next]_vars PROVE IInv'
    OBVIOUS
<1>1. ASSUME NEW p \in Packs, RenamePack(p) \/ RegisterEntry(p) \/ RegisterSegments(p) \/ Delete(p)
      PROVE  IInv'
    BY <1>1, RenameNext, RegisterEntryNext, RegisterSegmentsNext, DeleteNext DEF Delete
<1>2. ASSUME NEW s \in Streams, SendStream(s) \/ Move(s)
      PROVE  IInv'
    BY <1>2, JobNext, ChunkNext, AppendSidecarNext, RemoveSegmentsNext, CountConsumedNext DEF Move
<1>3. ASSUME NEW s \in Streams, NEW C \in SUBSET Packs, DropChunk(s, C)
      PROVE  IInv'
    BY <1>3, ChunkNext
<1>4. ASSUME NEW r \in Readers, EndRead(r) \/ \E s \in Streams : BeginRead(r, s)
      PROVE  IInv'
    BY <1>4, EndReadNext, BeginReadNext
<1>5. ASSUME NEW r \in Readers, NEW p \in Packs, ReadSegment(r, p)
      PROVE  IInv'
    BY <1>5, ReadSegmentNext
<1>6. CASE Restart
    BY <1>6, InitDoneNext, InitPackNext, InitDeleteNext DEF Restart
<1>7. CASE Faults
  <2>1. ASSUME NEW s \in Streams, MoveError(s) \/ SetLost(s) \/ \E p \in Packs : SidecarError(s, p)
        PROVE  IInv'
    BY <2>1, JobNext, ChunkNext
  <2> QED BY <1>7, <2>1, DeleteNext, CrashNext DEF Faults
<1>8. CASE UNCHANGED vars
  <2>1. UNCHANGED <<packs, side, uploads, dropped, unlisted, stage, index, registry, consumed,
                    readers, processing, mv, rd, doomed, orphans, up, failures, crashes>>
    BY <1>8 DEF vars, store, mover
  <2>2. \A q, t : Moved(q, t)' <=> Moved(q, t)
    BY <2>1 DEF Moved
  <2>3. \A q : Left(q)' = Left(q) /\ Holders(q)' = Holders(q)
    BY <2>1 DEF Left, Holders
  <2>4. TypeOK' /\ PlaceInv' /\ BootInv' /\ UploadInv'
    BY <2>1 DEF IInv, TypeOK, PlaceInv, BootInv, UploadInv
  <2>5. JobInv' /\ CountInv' /\ GuardInv'
    BY <2>1, <2>2, <2>3 DEF IInv, JobInv, CountInv, GuardInv
  <2>6. MovedInv'
    BY <2>1, <2>2, <2>3 DEF IInv, MovedInv, DeletedIsMoved
  <2> QED BY <2>4, <2>5, <2>6 DEF IInv
<1> QED BY <1>1, <1>2, <1>3, <1>4, <1>5, <1>6, <1>7, <1>8 DEF Next

\* The counters of a pack count what the index, the workers and the reads hold,
\* at every moment of every run.
THEOREM PackInvariant == Spec => []IInv
<1> QED BY PackInit, PackInductive, PTL DEF Spec

\* The counters of the registry (pack.rs, PackEntry) stay within the number of
\* streams and of reads, whatever is registered, read, consumed and killed.
THEOREM PackTypes == Spec => []TypeOK
<1>1. IInv => TypeOK
    BY DEF IInv
<1> QED BY <1>1, PackInvariant, PTL

\* pack.rs:875-877: the packs that a read still needs, and those the mover is
\* about to read without a guard, are on disk.
THEOREM PacksStay == Spec => []PacksStayForReaders
<1>1. IInv => PacksStayForReaders
  <2> SUFFICES ASSUME IInv PROVE PacksStayForReaders
    OBVIOUS
  <2>1. registry \subseteq packs
    BY DEF IInv, TypeOK, PlaceInv
  <2>2. ASSUME NEW r \in Readers PROVE rd[r].segs \subseteq packs
    BY <2>1 DEF IInv, GuardInv
  <2>3. ASSUME NEW s \in Streams PROVE mv[s].rest \subseteq packs
    <3>1. mv[s].rest \subseteq Packs
        BY DEF IInv, TypeOK
    <3> QED BY <2>1, <3>1 DEF IInv, JobInv, PlaceInv
  <2> QED BY <2>2, <2>3 DEF PacksStayForReaders
<1> QED BY <1>1, PackInvariant, PTL

\* delete_pack_file never deletes a pack that has a segment which was not
\* listed, given up, or lost by file_list::set.
THEOREM DeletedMoved == Spec => []DeletedIsMoved
<1>1. IInv => DeletedIsMoved
    BY DEF IInv, MovedInv
<1> QED BY <1>1, PackInvariant, PTL

\* move_stream_segments lists a segment once, and once more for each kill.
THEOREM UploadedOncePerProcess == Spec => []UploadedOnce
<1>1. IInv => UploadedOnce
  <2> SUFFICES ASSUME IInv, NEW x \in Segments PROVE uploads[x] <= 1 + crashes
    BY DEF UploadedOnce
  <2>1. PICK p \in Packs, s \in Streams : x = <<p, s>>
    BY DEF Segments
  <2>2. uploads[x] \in Nat /\ crashes \in Nat
    BY PackAssumption DEF IInv, TypeOK
  <2> QED BY <2>1, <2>2 DEF IInv, UploadInv
<1> QED BY <1>1, PackInvariant, PTL

============================================================================
