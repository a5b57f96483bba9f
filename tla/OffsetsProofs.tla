--------------------------- MODULE OffsetsProofs ---------------------------
(***************************************************************************)
(* Proofs about Offsets: for any set of nodes, any number of hours, of     *)
(* changes of the hash, of failed calls and of kills, the state is well    *)
(* typed and no hour is skipped.                                           *)
(*                                                                         *)
(* The offset a node works with may be older than the one it holds in      *)
(* CACHES, and the database may hold either, so nothing can be said about  *)
(* how the copies relate.  What every copy has is the whole prefix: each   *)
(* hour before it has had its job.  A node raises an offset only to one    *)
(* past the hour it has just added, and that hour is the local offset      *)
(* itself or, for offset 0, the hour of the creation, so the prefix stays  *)
(* whole.                                                                  *)
(***************************************************************************)
EXTENDS Offsets, TLAPS

\* Each hour before o has had its job.
Prefix(o) == \A h \in Created .. (o - 1) : h \in jobs

\* The offset of a node between add_job and set_offset is an hour that has
\* had its job and that is past, so the next one is still an Offset.
SetInv == \A n \in Nodes : pc[n] = "set" =>
              offset[n] \in Created .. (MaxHour - 1) /\ offset[n] \in jobs

\* Every copy of the offset has its prefix.
PrefixInv ==
    /\ Prefix(db.off)
    /\ \A n \in Nodes : Prefix(offset[n])
    /\ \A n \in Nodes : cache[n] # None => Prefix(cache[n].off)

IInv == TypeOK /\ SetInv /\ PrefixInv

----------------------------------------------------------------------------

\* get_offset returns a well formed value whose prefix is whole.
LEMMA GetOffsetType ==
    ASSUME TypeOK, PrefixInv, NEW n \in Nodes
    PROVE  /\ GetOffset(n) \in [off : Offset, node : Nodes \cup {None, Gone}]
           /\ Prefix(GetOffset(n).off)
           /\ cache[n] # None => GetOffset(n).node \in {n, None}
BY DEF TypeOK, PrefixInv, GetOffset

\* A well formed entry, for what set_offset stores.
LEMMA EntryType ==
    ASSUME NEW o \in Offset, NEW n \in Nodes \cup {None, Gone}
    PROVE  /\ Entry(o, n) \in [off : Offset, node : Nodes \cup {None, Gone}]
           /\ n # Gone => Entry(o, n) \in [off : Offset, node : Nodes \cup {None}]
           /\ Entry(o, n).off = o /\ Entry(o, n).node = n
BY OffsetsAssumption DEF Entry

\* The stream starts without an offset.
LEMMA OffsetsInit == Init => IInv
<1> SUFFICES ASSUME Init PROVE IInv
    OBVIOUS
<1> USE OffsetsAssumption
<1>1. TypeOK
    BY EntryType DEF Init, TypeOK, Offset, Steps
<1>2. SetInv /\ PrefixInv
    BY DEF Init, SetInv, PrefixInv, Prefix, Entry
<1> QED BY <1>1, <1>2 DEF IInv

\* A node reads the offset, under the lock and before it.
LEMMA ReadNext ==
    ASSUME IInv, NEW n \in Nodes,
           \/ GenRead(n) \/ GenReadError(n) \/ GenLock(n) \/ GenLockError(n)
           \/ GenTake(n) \/ GenTakeError(n)
    PROVE  IInv'
<1> USE OffsetsAssumption DEF IInv
<1> DEFINE v == GetOffset(n)
<1>1. /\ v \in [off : Offset, node : Nodes \cup {None, Gone}]
      /\ Prefix(v.off)
      /\ cache[n] # None => v.node \in {n, None}
    BY GetOffsetType
<1>2. CASE GenRead(n)
  <2>1. \A m \in Nodes : cache'[m] = cache[m]
                         \/ (m = n /\ cache'[m] = v /\ v.node \in {None, n})
    BY <1>2 DEF GenRead, Remember, TypeOK
  <2>2. TypeOK'
    <3>1. cache' \in [Nodes -> [off : Offset, node : Nodes \cup {None}] \cup {None}]
        BY <1>1, <1>2 DEF GenRead, Remember, TypeOK
    <3>2. offset' \in [Nodes -> Offset] /\ pc' \in [Nodes -> Steps]
        BY <1>1, <1>2 DEF GenRead, TypeOK, Steps
    <3>3. \A m \in Nodes : pc'[m] = "take" <=> lock' = m
        BY <1>2 DEF GenRead, TypeOK
    <3> QED BY <1>2, <2>1, <3>1, <3>2, <3>3 DEF GenRead, TypeOK
  <2>3. SetInv'
    BY <1>2 DEF GenRead, TypeOK, SetInv
  <2>4. PrefixInv'
    BY <1>1, <1>2, <2>1 DEF GenRead, TypeOK, PrefixInv, Prefix
  <2> QED BY <2>2, <2>3, <2>4
<1>3. CASE GenReadError(n)
  <2>1. TypeOK'
    BY <1>3, EntryType DEF GenReadError, TypeOK, Steps, Offset
  <2>2. SetInv' /\ PrefixInv'
    BY <1>3 DEF GenReadError, TypeOK, SetInv, PrefixInv, Prefix, Entry
  <2> QED BY <2>1, <2>2
<1>4. CASE GenLock(n)
  <2>1. TypeOK'
    BY <1>4 DEF GenLock, TypeOK, Steps
  <2>2. SetInv' /\ PrefixInv'
    BY <1>4 DEF GenLock, TypeOK, SetInv, PrefixInv, Prefix
  <2> QED BY <2>1, <2>2
<1>5. CASE GenTake(n)
  <2>1. \A m \in Nodes : cache'[m] = cache[m] \/ (m = n /\ cache'[m] = Entry(v.off, n))
    BY <1>5 DEF GenTake, TypeOK
  <2>2. TypeOK'
    <3>1. cache' \in [Nodes -> [off : Offset, node : Nodes \cup {None}] \cup {None}]
        BY <1>1, <1>5, EntryType DEF GenTake, TypeOK
    <3>2. \A m \in Nodes : cache'[m] # None => cache'[m].node \in {m, None}
        BY <1>1, <2>1, EntryType DEF TypeOK
    <3>3. /\ pc' \in [Nodes -> Steps] /\ lock' \in Nodes \cup {None}
          /\ \A m \in Nodes : pc'[m] = "take" <=> lock' = m
        BY <1>5 DEF GenTake, TypeOK, Steps
    <3> QED BY <1>5, <3>1, <3>2, <3>3 DEF GenTake, TypeOK
  <2>3. SetInv'
    BY <1>5 DEF GenTake, TypeOK, SetInv
  <2>4. PrefixInv'
    BY <1>1, <1>5, <2>1, EntryType DEF GenTake, TypeOK, PrefixInv, Prefix
  <2> QED BY <2>2, <2>3, <2>4
<1>6. CASE GenLockError(n)
  <2>1. TypeOK'
    BY <1>6 DEF GenLockError, TypeOK, Steps
  <2>2. SetInv' /\ PrefixInv'
    BY <1>6 DEF GenLockError, TypeOK, SetInv, PrefixInv, Prefix
  <2> QED BY <2>1, <2>2
<1>7. CASE GenTakeError(n)
  <2>1. TypeOK'
    BY <1>7, EntryType DEF GenTakeError, TypeOK, Steps, Offset
  <2>2. SetInv' /\ PrefixInv'
    BY <1>7 DEF GenTakeError, TypeOK, SetInv, PrefixInv, Prefix, Entry
  <2> QED BY <2>1, <2>2
<1> QED BY <1>2, <1>3, <1>4, <1>5, <1>6, <1>7

\* A node adds the job of an hour and stores the next one.
LEMMA JobNext ==
    ASSUME IInv, NEW n \in Nodes, GenAdd(n) \/ GenAddError(n) \/ GenSet(n)
    PROVE  IInv'
<1> USE OffsetsAssumption DEF IInv
<1>1. CASE GenAdd(n)
  <2>1. CASE ~(Hour(n) < now)
    BY <1>1, <2>1 DEF GenAdd, TypeOK, SetInv, PrefixInv, Prefix, Steps
  <2>2. CASE Hour(n) < now
    <3>1. Hour(n) \in Created .. (MaxHour - 1)
        BY <2>2 DEF Hour, TypeOK, Offset
    <3>2. Prefix(Hour(n))
        BY DEF Hour, PrefixInv, Prefix, TypeOK, Offset
    <3>3. TypeOK'
      <4>. Hour(n) \in Created .. MaxHour
        BY <3>1
      <4>0. jobs' = jobs \cup {Hour(n)} /\ jobs \subseteq Created .. MaxHour
        BY <1>1, <2>2 DEF GenAdd, TypeOK
      <4>1. jobs' \subseteq Created .. MaxHour /\ Hour(n) \in Offset
        BY <4>0 DEF Offset
      <4>2. offset' \in [Nodes -> Offset]
        BY <1>1, <2>2, <4>1 DEF GenAdd, TypeOK
      <4>3. /\ pc' \in [Nodes -> Steps]
            /\ \A m \in Nodes : pc'[m] = "take" <=> lock' = m
        BY <1>1, <2>2 DEF GenAdd, TypeOK, Steps
      <4> QED BY <1>1, <4>1, <4>2, <4>3 DEF GenAdd, TypeOK
    <3>4. SetInv'
        BY <1>1, <2>2, <3>1 DEF GenAdd, TypeOK, SetInv
    <3>5. PrefixInv'
        BY <1>1, <2>2, <3>2 DEF GenAdd, TypeOK, PrefixInv, Prefix
    <3> QED BY <3>3, <3>4, <3>5
  <2> QED BY <2>1, <2>2
<1>2. CASE GenAddError(n)
    BY <1>2 DEF GenAddError, TypeOK, SetInv, PrefixInv, Prefix, Steps
<1>3. CASE GenSet(n)
  <2>1. /\ offset[n] \in Created .. (MaxHour - 1) /\ offset[n] \in jobs
        /\ offset[n] + 1 \in Offset
    BY <1>3 DEF GenSet, SetInv, Offset
  <2>2. Prefix(offset[n] + 1)
    BY <2>1 DEF PrefixInv, Prefix
  <2>3. \A m \in Nodes : cache'[m] = cache[m] \/ (m = n /\ cache'[m] = Entry(offset[n] + 1, n))
    BY <1>3 DEF GenSet, TypeOK
  <2>4. TypeOK'
    <3>1. cache' \in [Nodes -> [off : Offset, node : Nodes \cup {None}] \cup {None}]
        BY <1>3, <2>1, EntryType DEF GenSet, TypeOK
    <3>2. \A m \in Nodes : cache'[m] # None => cache'[m].node \in {m, None}
        BY <2>1, <2>3, EntryType DEF TypeOK
    <3> QED BY <1>3, <3>1, <3>2 DEF GenSet, TypeOK, Steps
  <2>5. SetInv'
    BY <1>3 DEF GenSet, TypeOK, SetInv
  <2>6. PrefixInv'
    BY <1>3, <2>1, <2>2, <2>3, EntryType DEF GenSet, TypeOK, PrefixInv, Prefix
  <2> QED BY <2>4, <2>5, <2>6
<1> QED BY <1>1, <1>2, <1>3

\* The release of a stream and the sync copy an entry to the database.
LEMMA ReleaseNext ==
    ASSUME IInv, NEW n \in Nodes, ReleasePut(n) \/ ReleaseDrop(n) \/ SyncToDb(n)
    PROVE  IInv'
<1> USE OffsetsAssumption DEF IInv
<1>1. CASE ReleasePut(n)
  <2>1. cache[n].off \in Offset /\ Prefix(cache[n].off)
    BY <1>1 DEF ReleasePut, TypeOK, PrefixInv
  <2>2. TypeOK'
    BY <1>1, <2>1, EntryType DEF ReleasePut, TypeOK, Steps
  <2>3. SetInv' /\ PrefixInv'
    BY <1>1, <2>1, EntryType DEF ReleasePut, TypeOK, SetInv, PrefixInv, Prefix
  <2> QED BY <2>2, <2>3
<1>2. CASE ReleaseDrop(n)
    BY <1>2 DEF ReleaseDrop, TypeOK, SetInv, PrefixInv, Prefix, Steps
<1>3. CASE SyncToDb(n)
    BY <1>3 DEF SyncToDb, TypeOK, SetInv, PrefixInv, Prefix
<1> QED BY <1>1, <1>2, <1>3

\* The clock, the ring and a kill.
LEMMA ClusterNext ==
    ASSUME IInv,
           HourPasses \/ Rehash \/ (\E n \in Nodes : LearnHome(n) \/ Crash(n))
    PROVE  IInv'
<1> USE OffsetsAssumption DEF IInv
<1>1. CASE HourPasses
    BY <1>1 DEF HourPasses, TypeOK, SetInv, PrefixInv, Prefix
<1>2. CASE Rehash
    BY <1>2 DEF Rehash, TypeOK, SetInv, PrefixInv, Prefix
<1>3. ASSUME NEW n \in Nodes, LearnHome(n) PROVE IInv'
    BY <1>3 DEF LearnHome, TypeOK, SetInv, PrefixInv, Prefix
<1>4. ASSUME NEW n \in Nodes, Crash(n) PROVE IInv'
  <2>1. db' \in [off : Offset, node : Nodes \cup {None, Gone}] /\ db'.off = db.off
    BY <1>4 DEF Crash, TypeOK
  <2>2. TypeOK'
    BY <1>4, <2>1 DEF Crash, TypeOK, Steps, Offset
  <2>3. SetInv' /\ PrefixInv'
    BY <1>4, <2>1 DEF Crash, TypeOK, SetInv, PrefixInv, Prefix
  <2> QED BY <2>2, <2>3
<1> QED BY <1>1, <1>2, <1>3, <1>4

\* The inductive invariant holds throughout.
LEMMA OffsetsInductive == Spec => []IInv
<1>1. IInv /\ [Next]_vars => IInv'
  <2> SUFFICES ASSUME IInv, [Next]_vars PROVE IInv'
    OBVIOUS
  <2>1. CASE UNCHANGED vars
    BY <2>1 DEF vars, IInv, TypeOK, SetInv, PrefixInv, Prefix
  <2>2. CASE Next
    BY <2>2, ReadNext, JobNext, ReleaseNext, ClusterNext DEF Next, Generate
  <2> QED BY <2>1, <2>2
<1> QED BY <1>1, OffsetsInit, PTL DEF Spec

(* Type correctness, with the lock held by nobody but the node in the      *)
(* locked block, for any number of nodes, kills and failed calls.          *)
THEOREM OffsetsTypes == Spec => []TypeOK
<1>1. IInv => TypeOK
    BY DEF IInv
<1> QED BY <1>1, OffsetsInductive, PTL

(* No hour is skipped, whichever nodes believe that they own the stream    *)
(* and whichever copy of the offset a step starts from                     *)
(* (generate_job_by_stream, set_offset, sync_cache_to_db).                 *)
THEOREM HoursKept == Spec => []NoHourSkipped
<1>1. IInv => NoHourSkipped
    BY DEF IInv, PrefixInv, Prefix, NoHourSkipped
<1> QED BY <1>1, OffsetsInductive, PTL
============================================================================
