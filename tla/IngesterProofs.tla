--------------------------- MODULE IngesterProofs ---------------------------
(***************************************************************************)
(* Proofs about the ingester as a whole: about Ingester, that the composed *)
(* system implements Persist and keeps what the consume loop has synced,   *)
(* and about PersistQueue, that no two workers persist the same table,     *)
(* which the composition relies on.                                        *)
(*                                                                         *)
(* The invariant of Ingester is that of the writer (WriterProofs), that of *)
(* the persist side (PersistProofs) and SharedInv, what the two know of    *)
(* each other.  A writer step shows one of four things to the persist      *)
(* side, which are the promise that Persist makes for the writer; a        *)
(* persist step touches nothing the writer still has in its hands; a kill  *)
(* resets both.  Neither side's proof is done again.                       *)
(***************************************************************************)
EXTENDS Ingester, PersistQueue, FiniteSetTheorems, TLAPS

\* The two sides with their proofs; the persist side sees SealedRows.
WP == INSTANCE WriterProofs WITH stored <- {f[3] : f \in parquet},
        Modes <- {QueueMode}, FlushModes <- IF Flushes THEN {QueueMode} ELSE {}
RP == INSTANCE PersistProofs WITH rows <- SealedRows, WalIds <- W!WalIds,
                                  MemIds <- W!MemIds, None <- W!None

\* Nothing of the writer exists while init reads the lock files.
UpInv == node = "recover" => reg = W!None /\ fl.at = "off"

\* What the writer has not handed over is a file of this process.
HandsInv == \A w \in W!WalIds : WP!Hands(w) => w \in wals \cap mine

\* An id that was not drawn names no file, no lock file and no job's path.
NewIdInv ==
    \A w \in W!WalIds : w >= nextWal =>
        w \notin wals \cup mine \cup locks /\ \A m \in W!MemIds : path[m] # w

\* A memtable the writer has, or nobody drew yet, has no job and no files.
FreshInv == \A m \in W!MemIds : m >= nextMem \/ WP!InUse(m) => RP!FreshTable(m)

SharedInv == UpInv /\ HandsInv /\ NewIdInv /\ FreshInv

IInv == WP!IInv(FALSE) /\ WP!BatchInv /\ RP!IInv /\ SharedInv

----------------------------------------------------------------------------
(* The constants and actions of the two sides                               *)

\* What the proofs about the two sides assume holds here.
LEMMA Constants ==
    /\ MaxWal \in Nat /\ MaxWriter \in Nat /\ QueueCap \in Nat \ {0}
    /\ MaxMem \in Nat /\ MaxMem >= MaxWal + MaxWriter
    /\ {QueueMode} \subseteq BOOLEAN
    /\ (IF Flushes THEN {QueueMode} ELSE {}) \subseteq {QueueMode}
    /\ Fsync \in BOOLEAN /\ WalErrors \in BOOLEAN
    /\ Batches \cap Ticks = {} /\ "close" \notin Batches \cup Ticks
    /\ 0 \notin Batches \cup Ticks
    /\ W!None \notin W!WalIds /\ W!None \notin W!MemIds
    /\ MaxTry \in Nat /\ MaxCrash \in Nat
    /\ FailSteps \subseteq RP!Steps
    /\ TornLock \in BOOLEAN
<1>1. W!None \notin W!WalIds /\ W!None \notin W!MemIds
    BY IngesterAssumption DEF W!None, W!WalIds, W!MemIds
<1>2. FailSteps \subseteq RP!Steps
    BY IngesterAssumption DEF P!Steps, RP!Steps
<1> QED BY <1>1, <1>2, IngesterAssumption

\* The sets of ids are the same ones for both sides.
LEMMA SameIds ==
    /\ WP!None = W!None /\ WP!WalIds = W!WalIds /\ WP!MemIds = W!MemIds
    /\ \A w \in W!WalIds : w \in Int /\ w # W!None
    /\ \A m \in W!MemIds : m \in Int /\ m # W!None
    BY Constants DEF WP!None, W!None, WP!WalIds, W!WalIds, WP!MemIds, W!MemIds

\* flush_all is called with the queue or not at all.
LEMMA QueueFlush == QueueMode => WP!NoDirectFlush
    BY DEF WP!NoDirectFlush

\* The writer's steps are the steps that module WriterProofs speaks of.
LEMMA SameWriter == W!WriterNext => WP!WriterNext
    BY DEF W!WriterNext, WP!WriterNext, W!shared, WP!shared, W!ids, WP!ids, W!NoFlush,
       WP!NoFlush, W!None, WP!None, W!Request, WP!Request, W!GetWriter, WP!GetWriter,
       W!NewWriter, WP!NewWriter, W!WriteDirect, WP!WriteDirect, W!Enqueue, WP!Enqueue,
       W!Reject, WP!Reject, W!CheckTtl, WP!CheckTtl, W!Receive, WP!Receive, W!ReceiveClose,
       WP!ReceiveClose, W!Goto, WP!Goto, W!AfterRotate, WP!AfterRotate, W!ShouldRotate,
       WP!ShouldRotate, W!SkipRotate, WP!SkipRotate, W!RotateWal, WP!RotateWal, W!RotateMem,
       WP!RotateMem, W!RotateInsert, WP!RotateInsert, W!WriteWal, WP!WriteWal,
       W!WriteWalError, WP!WriteWalError, W!WriteMem, WP!WriteMem, W!SyncWal, WP!SyncWal,
       W!FlushStart, WP!FlushStart, W!FlushClose, WP!FlushClose, W!FlushSync, WP!FlushSync,
       W!FlushSwap, WP!FlushSwap, W!FlushInsert, WP!FlushInsert, W!Rotate, WP!Rotate,
       W!Write, WP!Write, W!Loop, WP!Loop, W!FlushRest, WP!FlushRest, W!Tasks, WP!Tasks,
       W!Writers, WP!Writers, W!Close, WP!Close, W!RotateWalError, WP!RotateWalError,
       W!SyncFails, WP!SyncFails, W!SyncWalError, WP!SyncWalError, W!FlushSyncError,
       WP!FlushSyncError

\* So is what a kill leaves of the writer.
LEMMA SameKill == W!OwnCrash => WP!OwnCrash
    BY DEF W!OwnCrash, WP!OwnCrash, W!ids, WP!ids, W!NoFlush, WP!NoFlush, W!None, WP!None,
       W!Tasks, WP!Tasks, W!Writers, WP!Writers, W!WalIds, WP!WalIds, W!MemIds, WP!MemIds

\* And the persist side that this module implements is the proved one.
LEMMA SameInit == RP!Init <=> R!Init
    BY DEF RP!Init, R!Init

\* The types of what the two sides share.
LEMMA SharedTypes ==
    ASSUME IInv
    PROVE  /\ wals \subseteq W!WalIds /\ mine \subseteq W!WalIds /\ locks \subseteq W!WalIds
           /\ entries \in [W!WalIds -> SUBSET Batches]
           /\ rows \in [W!MemIds -> SUBSET Batches]
           /\ imm \in [W!WalIds -> W!MemIds \cup {W!None}]
           /\ path \in [W!MemIds -> W!WalIds \cup {W!None}]
           /\ nextWal \in 1..(MaxWal + 1) /\ nextMem \in 1..(MaxMem + 1)
           /\ SealedRows \in [W!MemIds -> SUBSET Batches]
           /\ (QueueMode => mode) /\ mode \in {QueueMode}
<1>1. WP!TypeOK /\ RP!TypeOK
    BY DEF IInv, WP!IInv, RP!IInv
<1>2. /\ wals \subseteq W!WalIds /\ mine \subseteq W!WalIds /\ locks \subseteq W!WalIds
      /\ SealedRows \in [W!MemIds -> SUBSET Batches]
      /\ path \in [W!MemIds -> W!WalIds \cup {W!None}]
    BY <1>1 DEF RP!TypeOK
<1>3. /\ entries \in [W!WalIds -> SUBSET Batches]
      /\ rows \in [W!MemIds -> SUBSET Batches]
      /\ imm \in [W!WalIds -> W!MemIds \cup {W!None}]
      /\ nextWal \in 1..(MaxWal + 1) /\ nextMem \in 1..(MaxMem + 1)
      /\ mode \in {QueueMode}
    BY <1>1, SameIds DEF WP!TypeOK
<1> QED BY <1>2, <1>3

\* A WAL file the writer has is not in IMMUTABLES.
LEMMA HandsOpen ==
    ASSUME WP!IInv(FALSE), NEW w \in W!WalIds, WP!Hands(w) PROVE imm[w] = W!None
<1>1. WP!WalInv
    BY DEF WP!IInv
<1>2. CASE \E t \in WP!Tasks : heldWal[t] = w
    BY <1>1, <1>2, SameIds DEF WP!WalInv, WP!HeldWalInv
<1>3. CASE \E g \in WP!Writers : WP!Live(g) /\ cur[g] = w
    BY <1>1, <1>3, SameIds DEF WP!WalInv, WP!OpenInv
<1> QED BY <1>2, <1>3 DEF WP!Hands

\* And so after a step.
LEMMA HandsOpenNext ==
    ASSUME WP!IInv(FALSE)', NEW w \in W!WalIds, WP!Hands(w)' PROVE imm'[w] = W!None
<1>1. WP!WalInv'
    BY DEF WP!IInv
<1>2. CASE \E t \in WP!Tasks : heldWal'[t] = w
    BY <1>1, <1>2, SameIds DEF WP!WalInv, WP!HeldWalInv
<1>3. CASE \E g \in WP!Writers : WP!Live(g)' /\ cur'[g] = w
    BY <1>1, <1>3, SameIds DEF WP!WalInv, WP!OpenInv
<1> QED BY <1>2, <1>3 DEF WP!Hands

\* A step of the writer keeps the invariant, is a step of the writer that module
\* Persist assumes, and answers a synced write only when it is in a WAL file.
LEMMA WriterSide ==
    ASSUME QueueMode, ~ WalErrors, IInv, WriterStep
    PROVE  /\ IInv' /\ [RP!Next]_(RP!vars)
           /\ WP!Answers
<1>1. /\ WP!WriterNext /\ WP!NoDirectFlush /\ mode
      /\ WP!IInv(FALSE) /\ WP!BatchInv /\ RP!IInv /\ SharedInv
    BY SameWriter, QueueFlush, SharedTypes DEF WriterStep, IInv
<1>2. WP!IInv(FALSE)'
    BY <1>1, Constants, WP!WriterNextKeeps
<1>3. WP!BatchInv' /\ WP!Shows
    BY <1>1, Constants, WP!WriterShows
<1>4. /\ (WP!Hidden \/ WP!Grows \/ WP!Creates \/ WP!HandsOver) /\ WP!Draws /\ WP!Answers
    BY <1>3 DEF WP!Shows
<1>5. /\ UNCHANGED <<locks, listed, par, parquet, pc, path, attempt, node, recWal, old,
                     bg, todo, replayMem, crashes>>
      /\ node = "up" /\ mine' = mine \cup (wals' \ wals)
    BY DEF WriterStep, persistOwn
<1>6. \A m \in W!MemIds : WP!InUse(m) => /\ path[m] = W!None /\ \A w \in W!WalIds : imm[w] # m
                                       /\ RP!FreshTable(m) /\ SealedRows[m] = {}
    BY <1>1 DEF SharedInv, FreshInv, RP!FreshTable, SealedRows
<1>7. \A w \in W!WalIds : WP!Hands(w) /\ imm[w] = W!None => RP!OpenWal(w)
    BY <1>1 DEF SharedInv, HandsInv, RP!OpenWal
<1>8. \A B : WP!Unseen(B) => RP!Unwritten(B)
    BY SameIds DEF WP!Unseen, RP!Unwritten
<1>9. [RP!Next]_(RP!vars)
  <2>1. CASE WP!Hidden
    <3>1. UNCHANGED <<wals, entries, imm, mine>> /\ \A m \in W!MemIds : rows'[m] = rows[m] \/ WP!InUse(m)
        BY <1>5, <2>1, SameIds DEF WP!Hidden
    <3>2. SealedRows' = SealedRows
        BY <1>5, <1>6, <3>1 DEF SealedRows
    <3>3. UNCHANGED RP!vars
        BY <1>5, <3>1, <3>2 DEF RP!vars, RP!disk, RP!tables, RP!jobs, RP!boot
    <3> QED BY <3>3
  <2>2. CASE WP!Grows
    <3>1. PICK w \in W!WalIds, B \in SUBSET Batches :
              /\ WP!Hands(w) /\ imm[w] = W!None /\ WP!Unseen(B)
              /\ entries' = [entries EXCEPT ![w] = @ \cup B]
        BY <2>2, SameIds DEF WP!Grows
    <3>2. UNCHANGED <<wals, rows, imm, mine>>
        BY <1>5, <2>2 DEF WP!Grows
    <3>3. SealedRows' = SealedRows
        BY <1>5, <3>2 DEF SealedRows
    <3>4. RP!GrowWal(w, B)
        BY <1>5, <1>7, <1>8, <3>1, <3>2, <3>3 DEF RP!GrowWal, RP!tables, RP!jobs, RP!boot
    <3> QED BY <3>4 DEF RP!Next, RP!WriterSide
  <2>3. CASE WP!Creates
    <3>1. PICK v \in W!WalIds \cup {W!None}, B \in SUBSET Batches :
              /\ WP!Unseen(B) /\ IF v = W!None THEN B = {} ELSE WP!Hands(v) /\ imm[v] = W!None
              /\ entries' = [u \in W!WalIds |-> IF u = v THEN entries[u] \cup B ELSE entries[u]]
      <4>1. PICK v \in WP!WalIds \cup {WP!None}, B \in SUBSET Batches :
              /\ WP!Unseen(B) /\ IF v = WP!None THEN B = {} ELSE WP!Hands(v) /\ imm[v] = WP!None
              /\ entries' = [u \in WP!WalIds |-> IF u = v THEN entries[u] \cup B ELSE entries[u]]
        BY <2>3 DEF WP!Creates
      <4>2. WP!WalIds = W!WalIds /\ WP!None = W!None
        BY SameIds
      <4>3. v \in W!WalIds \cup {W!None}
        BY <4>1, <4>2
      <4>4. WP!Unseen(B) /\ IF v = W!None THEN B = {} ELSE WP!Hands(v) /\ imm[v] = W!None
        BY <4>1, <4>2
      <4>5. entries' = [u \in W!WalIds |-> IF u = v THEN entries[u] \cup B ELSE entries[u]]
        BY <4>1, <4>2
      <4> QED BY <4>3, <4>4, <4>5
    <3>2. PICK w \in W!WalIds : w = nextWal /\ wals' = wals \cup {w} /\ UNCHANGED <<rows, imm>>
        BY <2>3, SameIds DEF WP!Creates
    <3>3. RP!FreshWal(w)
      <4>1. w \notin wals \cup mine \cup locks
        BY <1>1, <3>2, SameIds DEF SharedInv, NewIdInv
      <4>2. entries[w] = {}
        BY <1>1, <3>2, SameIds DEF WP!IInv, WP!WalInv, WP!FreshWalInv
      <4> QED BY <4>1, <4>2 DEF RP!FreshWal
    <3>4. mine' = mine \cup {w}
        BY <1>5, <3>2, <3>3 DEF RP!FreshWal
    <3>5. SealedRows' = SealedRows
        BY <1>5, <3>2 DEF SealedRows
    <3>6. IF v = W!None THEN B = {} ELSE RP!OpenWal(v)
        BY <1>7, <3>1
    <3>7. RP!NewWal(v, w, B)
        BY <1>5, <1>8, <3>1, <3>2, <3>3, <3>4, <3>5, <3>6 DEF RP!NewWal, RP!tables, RP!jobs
    <3> QED BY <3>7 DEF RP!Next, RP!WriterSide
  <2>4. CASE WP!HandsOver
    <3>1. PICK w \in W!WalIds, m \in W!MemIds :
              /\ WP!Hands(w) /\ imm[w] = W!None /\ WP!InUse(m) /\ rows[m] = entries[w]
              /\ imm' = [imm EXCEPT ![w] = m]
        BY <2>4, SameIds DEF WP!HandsOver
    <3>2. UNCHANGED <<wals, entries, rows, mine>>
        BY <1>5, <2>4 DEF WP!HandsOver
    <3>3. imm'[w] = m /\ \A v \in W!WalIds \ {w} : imm'[v] = imm[v]
        BY <3>1, SharedTypes
    <3>4. SealedRows' = [SealedRows EXCEPT ![m] = entries[w]]
      <4>1. \A x \in W!MemIds : SealedRows'[x] = [SealedRows EXCEPT ![m] = entries[w]][x]
        <5>1. SealedRows'[m] = entries[w]
            BY <1>5, <3>1, <3>2, <3>3 DEF SealedRows
        <5>2. \A x \in W!MemIds \ {m} : SealedRows'[x] = SealedRows[x]
          <6>1. \A x \in W!MemIds \ {m} : (\E v \in W!WalIds : imm'[v] = x) <=> \E v \in W!WalIds : imm[v] = x
            BY <3>1, <3>3, SameIds
          <6> QED BY <1>5, <3>2, <6>1 DEF SealedRows
        <5> QED BY <5>1, <5>2, SharedTypes
      <4>2. DOMAIN SealedRows' = W!MemIds /\ DOMAIN [SealedRows EXCEPT ![m] = entries[w]] = W!MemIds
        BY DEF SealedRows
      <4>3. /\ SealedRows' = [x \in W!MemIds |-> SealedRows'[x]]
            /\ [SealedRows EXCEPT ![m] = entries[w]] = [x \in W!MemIds |-> [SealedRows EXCEPT ![m] = entries[w]][x]]
        BY <4>2 DEF SealedRows
      <4> QED BY <4>1, <4>3
    <3>5. RP!Seal(w, m)
        BY <1>5, <1>6, <1>7, <3>1, <3>2, <3>4 DEF RP!Seal, RP!disk, RP!jobs, RP!boot
    <3> QED BY <3>5 DEF RP!Next, RP!WriterSide
  <2> QED BY <1>4, <2>1, <2>2, <2>3, <2>4
<1>10. RP!IInv'
    BY <1>1, <1>9, Constants, RP!CoverNext
<1>11. /\ nextWal <= nextWal' /\ nextMem <= nextMem'
       /\ nextWal \in Int /\ nextWal' \in Int /\ nextMem \in Int /\ nextMem' \in Int
       /\ \A w \in W!WalIds : WP!Hands(w)' => WP!Hands(w) \/ (w = nextWal /\ w \in wals')
       /\ \A m \in W!MemIds : WP!InUse(m)' => WP!InUse(m) \/ nextMem <= m
  <2>1. nextWal \in Int /\ nextWal' \in Int /\ nextMem \in Int /\ nextMem' \in Int
    BY <1>1, <1>2 DEF WP!IInv, WP!TypeOK
  <2> QED BY <1>4, <2>1, SameIds DEF WP!Draws
<1>12. \/ wals' = wals
       \/ wals' = wals \cup {nextWal} /\ nextWal < nextWal'
    BY <1>4 DEF WP!Hidden, WP!Grows, WP!Creates, WP!HandsOver
<1>13. UpInv'
    BY <1>5 DEF UpInv
<1>14. HandsInv'
  <2> SUFFICES ASSUME NEW w \in W!WalIds, WP!Hands(w)' PROVE w \in wals' \cap mine'
    BY DEF HandsInv
  <2>1. CASE WP!Hands(w)
    BY <1>1, <1>5, <1>12, <2>1 DEF SharedInv, HandsInv
  <2>2. CASE w = nextWal /\ w \in wals'
    BY <1>1, <1>5, <1>11, <2>2, SameIds DEF SharedInv, NewIdInv
  <2> QED BY <1>11, <2>1, <2>2
<1>15. NewIdInv'
    BY <1>1, <1>5, <1>11, <1>12, SameIds DEF SharedInv, NewIdInv
<1>16. FreshInv'
  <2> SUFFICES ASSUME NEW m \in W!MemIds, m >= nextMem' \/ WP!InUse(m)' PROVE RP!FreshTable(m)'
    BY DEF FreshInv
  <2>1. RP!FreshTable(m)
    BY <1>1, <1>11, SameIds DEF SharedInv, FreshInv
  <2>2. \A w \in W!WalIds : imm'[w] # m
    <3>1. CASE UNCHANGED imm
        BY <2>1, <3>1 DEF RP!FreshTable
    <3>2. CASE WP!HandsOver
      <4>1. PICK w \in W!WalIds, x \in W!MemIds :
                x < nextMem /\ ~ WP!InUse(x)' /\ imm' = [imm EXCEPT ![w] = x]
        BY <3>2, SameIds DEF WP!HandsOver
      <4>2. x # m
        BY <1>11, <4>1, SameIds
      <4> QED BY <2>1, <4>1, <4>2, SharedTypes DEF RP!FreshTable
    <3> QED BY <1>4, <3>1, <3>2 DEF WP!Hidden, WP!Grows, WP!Creates
  <2> QED BY <1>5, <2>1, <2>2 DEF RP!FreshTable
<1> QED BY <1>2, <1>3, <1>4, <1>9, <1>10, <1>13, <1>14, <1>15, <1>16 DEF IInv, SharedInv

----------------------------------------------------------------------------
(* The steps of the persist side                                            *)

\* A running persist call reads the batches of its memtable.
LEMMA SameRows ==
    ASSUME IInv, NEW m \in W!MemIds, pc[m] # "idle"
    PROVE  /\ path[m] \in W!WalIds /\ SealedRows[m] = rows[m]
           /\ RP!DumpOf(m) = P!DumpOf(m) /\ RP!Pending(m) = P!Pending(m)
           /\ RP!Dumped(m) <=> P!Dumped(m)
<1>1. path[m] \in W!WalIds
    BY DEF IInv, RP!IInv, RP!JobInv
<1>2. SealedRows[m] = rows[m]
    BY <1>1, SameIds DEF SealedRows
<1>3. RP!DumpOf(m) = P!DumpOf(m)
    BY <1>2 DEF RP!DumpOf, P!DumpOf
<1> QED BY <1>1, <1>2, <1>3 DEF RP!Pending, P!Pending, RP!Dumped, P!Dumped

\* The memtables stay as the persist side sees them.
LEMMA SealedStay ==
    ASSUME IInv, UNCHANGED rows,
           \A m \in W!MemIds : path'[m] = path[m] \/ (path'[m] # W!None /\ \E w \in W!WalIds : imm[w] = m),
           \/ UNCHANGED imm
           \/ \E v \in W!WalIds : /\ imm' = [imm EXCEPT ![v] = W!None] /\ UNCHANGED path
                                  /\ imm[v] \in W!MemIds => path[imm[v]] # W!None
    PROVE  SealedRows' = SealedRows
<1> DEFINE In(m) == path[m] # W!None \/ \E w \in W!WalIds : imm[w] = m
<1>1. ASSUME NEW m \in W!MemIds
      PROVE  In(m) <=> path'[m] # W!None \/ \E w \in W!WalIds : imm'[w] = m
  <2>1. CASE UNCHANGED imm
    BY <2>1
  <2>2. ASSUME NEW v \in W!WalIds, imm' = [imm EXCEPT ![v] = W!None], UNCHANGED path,
               imm[v] \in W!MemIds => path[imm[v]] # W!None
        PROVE  In(m) <=> path'[m] # W!None \/ \E w \in W!WalIds : imm'[w] = m
    <3>1. imm'[v] = W!None /\ \A w \in W!WalIds \ {v} : imm'[w] = imm[w]
        BY <2>2, SharedTypes
    <3> QED BY <2>2, <3>1, SameIds
  <2> QED BY <2>1, <2>2
<1> QED BY <1>1 DEF SealedRows

\* The steps of one persist call.
LEMMA SameCall ==
    ASSUME IInv, NEW m \in W!MemIds, P!PersistStep(m) \/ \E s \in FailSteps : P!Fail(m, s)
    PROVE  /\ RP!PersistStep(m) \/ \E s \in FailSteps : RP!Fail(m, s)
           /\ UNCHANGED rows
<1> USE DEF P!disk, P!tables, P!jobs, P!boot, RP!disk, RP!tables, RP!jobs, RP!boot
<1>1. pc[m] # "idle" /\ UNCHANGED rows
    BY DEF P!PersistStep, P!CreateLock, P!WriteLock, P!DeleteWal, P!DeleteLock, P!Finish,
       P!DumpFile, P!DiscardFile, P!RenameFile, P!Fail, P!AtStep
<1>2. /\ path[m] \in W!WalIds /\ SealedRows[m] = rows[m]
      /\ RP!DumpOf(m) = P!DumpOf(m) /\ RP!Pending(m) = P!Pending(m)
      /\ RP!Dumped(m) <=> P!Dumped(m)
    BY <1>1, SameRows
<1>3. ASSUME UNCHANGED <<path, imm>> PROVE SealedRows' = SealedRows
    BY <1>1, <1>3, SealedStay
<1>4. CASE P!CreateLock(m)
  <2>1. SealedRows' = SealedRows
    BY <1>3, <1>4 DEF P!CreateLock
  <2> QED BY <1>1, <1>2, <1>4, <2>1 DEF P!CreateLock, RP!CreateLock, RP!PersistStep
<1>5. CASE P!WriteLock(m)
  <2>1. SealedRows' = SealedRows
    BY <1>3, <1>5 DEF P!WriteLock
  <2> QED BY <1>1, <1>2, <1>5, <2>1 DEF P!WriteLock, RP!WriteLock, RP!PersistStep
<1>6. CASE P!DeleteWal(m)
  <2>1. SealedRows' = SealedRows
    BY <1>3, <1>6 DEF P!DeleteWal
  <2> QED BY <1>1, <1>6, <2>1 DEF P!DeleteWal, RP!DeleteWal, RP!PersistStep
<1>7. CASE P!DeleteLock(m)
  <2>1. SealedRows' = SealedRows
    BY <1>3, <1>7 DEF P!DeleteLock
  <2> QED BY <1>1, <1>2, <1>7, <2>1
      DEF P!DeleteLock, RP!DeleteLock, P!ReturnOk, RP!ReturnOk, RP!PersistStep
<1>8. CASE P!Finish(m)
  <2>1. imm[path[m]] = m
    BY <1>1, <1>8 DEF IInv, RP!IInv, RP!JobInv, P!Finish
  <2>2. SealedRows' = SealedRows
    <3>1. UNCHANGED path /\ imm' = [imm EXCEPT ![path[m]] = W!None] /\ path[m] # W!None
        BY <1>2, <1>8, SameIds DEF P!Finish
    <3> QED BY <1>1, <1>2, <2>1, <3>1, SealedStay
  <2> QED BY <1>1, <1>8, <2>2 DEF P!Finish, RP!Finish, RP!PersistStep
<1>9. ASSUME NEW b \in Batches, P!DumpFile(m, b) PROVE RP!PersistStep(m)
  <2>1. SealedRows' = SealedRows
    BY <1>3, <1>9 DEF P!DumpFile
  <2> QED BY <1>1, <1>2, <1>9, <2>1 DEF P!DumpFile, RP!DumpFile, RP!PersistStep
<1>10. ASSUME NEW f \in par, P!DiscardFile(m, f) \/ P!RenameFile(m, f) PROVE RP!PersistStep(m)
  <2>1. SealedRows' = SealedRows
    BY <1>3, <1>10 DEF P!DiscardFile, P!RenameFile
  <2> QED BY <1>1, <1>2, <1>10, <2>1
      DEF P!DiscardFile, P!RenameFile, RP!DiscardFile, RP!RenameFile, RP!PersistStep
<1>11. ASSUME NEW s \in FailSteps, P!Fail(m, s) PROVE RP!Fail(m, s)
  <2>1. SealedRows' = SealedRows
    BY <1>3, <1>11 DEF P!Fail
  <2>2. RP!AtStep(m, s)
    BY <1>2, <1>11 DEF P!Fail, P!AtStep, RP!AtStep
  <2> QED BY <1>1, <1>11, <2>1, <2>2 DEF P!Fail, RP!Fail
<1> QED BY <1>1, <1>4, <1>5, <1>6, <1>7, <1>8, <1>9, <1>10, <1>11 DEF P!PersistStep

\* Recovery, the sweep and a failing replay do not look at memtables.
LEMMA SameBoot ==
    ASSUME IInv, P!Recovery \/ P!CleanOrphans \/ \E w \in W!WalIds : P!ReplayError(w)
    PROVE  /\ RP!Recovery \/ RP!CleanOrphans \/ \E w \in W!WalIds : RP!ReplayError(w)
           /\ UNCHANGED rows
<1> USE DEF P!disk, P!tables, P!jobs, P!boot, RP!disk, RP!tables, RP!jobs, RP!boot
<1>1. UNCHANGED <<rows, imm, path>>
    BY DEF P!Recovery, P!RecoverLock, P!RecoverFile, P!RecoverDone, P!InitDone,
       P!CleanOrphans, P!ReplayError
<1>2. SealedRows' = SealedRows
    BY <1>1, SealedStay
<1>3. CASE P!Recovery
    BY <1>1, <1>2, <1>3 DEF P!Recovery, P!RecoverLock, P!RecoverFile, P!RecoverDone,
       P!InitDone, RP!Recovery, RP!RecoverLock, RP!RecoverFile, RP!RecoverDone, RP!InitDone
<1>4. CASE P!CleanOrphans
    BY <1>1, <1>2, <1>4 DEF P!CleanOrphans, RP!CleanOrphans
<1>5. CASE \E w \in W!WalIds : P!ReplayError(w)
    BY <1>1, <1>2, <1>5 DEF P!ReplayError, RP!ReplayError
<1> QED BY <1>1, <1>3, <1>4, <1>5

\* A worker takes a path.
LEMMA SameTake ==
    ASSUME IInv, NEW w \in W!WalIds, P!PersistTable(w)
    PROVE  RP!PersistTable(w) /\ UNCHANGED rows
<1> USE DEF P!disk, P!tables, P!jobs, P!boot, RP!disk, RP!tables, RP!jobs, RP!boot
<1>1. /\ UNCHANGED <<rows, imm>> /\ imm[w] \in W!MemIds
      /\ path' = [path EXCEPT ![imm[w]] = w]
    BY SharedTypes DEF P!PersistTable
<1>2. \A m \in W!MemIds : path'[m] = path[m] \/ (path'[m] # W!None /\ \E v \in W!WalIds : imm[v] = m)
    BY <1>1, SharedTypes, SameIds
<1>3. SealedRows' = SealedRows
    BY <1>1, <1>2, SealedStay
<1> QED BY <1>1, <1>3 DEF P!PersistTable, RP!PersistTable

\* The replay task rebuilds a memtable.
LEMMA SameReplay ==
    ASSUME IInv, NEW w \in W!WalIds, NEW m \in W!MemIds, P!ReplayFile(w, m)
    PROVE  RP!ReplayFile(w, m)
<1> USE DEF P!disk, P!tables, P!jobs, P!boot, RP!disk, RP!tables, RP!jobs, RP!boot
<1>1. /\ rows' = [rows EXCEPT ![m] = entries[w]] /\ path' = [path EXCEPT ![m] = w]
      /\ UNCHANGED imm
    BY DEF P!ReplayFile
<1>2. /\ rows'[m] = entries[w] /\ path'[m] = w /\ w # W!None
      /\ \A x \in W!MemIds \ {m} : rows'[x] = rows[x] /\ path'[x] = path[x]
    BY <1>1, SharedTypes, SameIds
<1>3. SealedRows' = [SealedRows EXCEPT ![m] = entries[w]]
  <2>1. SealedRows'[m] = entries[w] /\ \A x \in W!MemIds \ {m} : SealedRows'[x] = SealedRows[x]
    BY <1>1, <1>2 DEF SealedRows
  <2>2. SealedRows' = [x \in W!MemIds |-> SealedRows'[x]]
    BY DEF SealedRows
  <2>3. SealedRows = [x \in W!MemIds |-> SealedRows[x]]
    BY SharedTypes
  <2>4. [SealedRows EXCEPT ![m] = entries[w]]
            = [x \in W!MemIds |-> IF x = m THEN entries[w] ELSE SealedRows[x]]
    BY <2>3
  <2>5. \A x \in W!MemIds : SealedRows'[x] = IF x = m THEN entries[w] ELSE SealedRows[x]
    BY <2>1
  <2> QED BY <2>2, <2>4, <2>5
<1>4. RP!FreshTable(m)
    BY DEF P!ReplayFile, P!FreshTable, RP!FreshTable
<1> QED BY <1>1, <1>3, <1>4 DEF P!ReplayFile, RP!ReplayFile

\* The parts of FreshTable.
Traceless(m) ==
    /\ path[m] = W!None /\ pc[m] = "idle" /\ \A w \in W!WalIds : imm[w] # m
    /\ \A f \in par : f[1] # m
    /\ \A f \in parquet : f[1] # m
    /\ \A f \in old : f[1] # m
    /\ \A w \in W!WalIds : \A f \in listed[w] : f[1] # m

\* FreshTable speaks of them in one set.
LEMMA FreshParts == \A m : RP!FreshTable(m) <=> Traceless(m)
    BY DEF RP!FreshTable, Traceless

\* And so after a step.
LEMMA FreshPartsNext == \A m : Traceless(m)' => RP!FreshTable(m)'
    BY DEF RP!FreshTable, Traceless

\* What the persist side does to what it shares with the writer.
Outside ==
    /\ UNCHANGED <<entries, mine>> /\ wals' \subseteq wals /\ (node' = "recover" => node = "recover")
    /\ \A w \in W!WalIds : WP!Hands(w) => w \in wals'
    /\ imm' \in [W!WalIds -> W!MemIds \cup {W!None}]
    /\ \A w \in W!WalIds : imm'[w] \in {imm[w], W!None}
    /\ \A w \in W!WalIds : w >= nextWal => w \notin locks' /\ \A m \in W!MemIds : path'[m] # w

\* A persist call works on files and a memtable that the writer gave away.
LEMMA CallOutside ==
    ASSUME IInv, NEW m \in W!MemIds, P!PersistStep(m) \/ \E s \in FailSteps : P!Fail(m, s)
    PROVE  /\ Outside /\ replayMem' \in {W!None, replayMem}
           /\ \A x \in W!MemIds : Traceless(x) => Traceless(x)'
<1> USE DEF P!disk, P!tables, P!jobs, P!boot
<1>1. pc[m] # "idle"
    BY DEF P!PersistStep, P!CreateLock, P!WriteLock, P!DeleteWal, P!DeleteLock, P!Finish,
       P!DumpFile, P!DiscardFile, P!RenameFile, P!Fail, P!AtStep
<1>2. path[m] \in W!WalIds /\ RP!JobInv /\ RP!TypeOK
    BY <1>1, SameRows DEF IInv, RP!IInv
<1>3. ~ WP!Hands(path[m])
  <2>1. CASE m = replayMem
    BY <1>2, <2>1 DEF RP!JobInv, IInv, SharedInv, HandsInv
  <2>2. CASE m # replayMem
    BY <1>1, <1>2, <2>2, HandsOpen, SameIds DEF RP!JobInv, IInv
  <2> QED BY <2>1, <2>2
<1>4. ~ (path[m] >= nextWal)
    BY <1>2 DEF IInv, SharedInv, NewIdInv
<1>5. /\ UNCHANGED <<entries, mine, node, path>> /\ wals' \in {wals, wals \ {path[m]}}
      /\ locks' \subseteq locks \cup {path[m]} /\ replayMem' \in {W!None, replayMem}
      /\ imm' = imm \/ imm' = [imm EXCEPT ![path[m]] = W!None]
    BY DEF P!PersistStep, P!CreateLock, P!WriteLock, P!DeleteWal, P!DeleteLock, P!Finish,
       P!DumpFile, P!DiscardFile, P!RenameFile, P!Fail, P!ReturnOk
<1>6. /\ imm' \in [W!WalIds -> W!MemIds \cup {W!None}]
      /\ \A w \in W!WalIds : imm'[w] \in {imm[w], W!None}
    BY <1>2, <1>5, SharedTypes
<1>7. Outside
  <2>1. \A w \in W!WalIds : WP!Hands(w) => w \in wals'
    BY <1>3, <1>5 DEF IInv, SharedInv, HandsInv
  <2>2. \A w \in W!WalIds : w >= nextWal => w \notin locks' /\ \A x \in W!MemIds : path'[x] # w
    BY <1>4, <1>5 DEF IInv, SharedInv, NewIdInv
  <2> QED BY <1>5, <1>6, <2>1, <2>2 DEF Outside
<1>8. ASSUME NEW x \in W!MemIds, Traceless(x) PROVE Traceless(x)'
  <2>1. x # m
    BY <1>1, <1>8 DEF Traceless
  <2>2. \A f \in P!DumpOf(m) : f[1] # x
    BY <2>1 DEF P!DumpOf
  <2>3. path'[x] = W!None /\ \A w \in W!WalIds : imm'[w] # x
    BY <1>5, <1>6, <1>8, SameIds DEF Traceless
  <2>4. pc' \in {pc, [pc EXCEPT ![m] = "lock"], [pc EXCEPT ![m] = "unlink"], [pc EXCEPT ![m] = "rename"],
                 [pc EXCEPT ![m] = "discard"], [pc EXCEPT ![m] = "idle"], [pc EXCEPT ![m] = "finish"]}
    BY DEF P!PersistStep, P!CreateLock, P!WriteLock, P!DeleteWal, P!DeleteLock, P!Finish,
       P!DumpFile, P!DiscardFile, P!RenameFile, P!Fail, P!ReturnOk
  <2>5. pc'[x] = "idle"
    BY <1>2, <1>8, <2>1, <2>4 DEF Traceless, RP!TypeOK
  <2>6. /\ UNCHANGED old /\ par' \cup parquet' \subseteq par \cup parquet \cup P!DumpOf(m)
        /\ \/ UNCHANGED listed \/ listed' = [listed EXCEPT ![path[m]] = {}]
           \/ listed' = [listed EXCEPT ![path[m]] = P!DumpOf(m)]
    <3>1. CASE P!CreateLock(m) \/ P!WriteLock(m) \/ P!DeleteWal(m) \/ P!DeleteLock(m) \/ P!Finish(m)
        BY <3>1 DEF P!CreateLock, P!WriteLock, P!DeleteWal, P!DeleteLock, P!Finish
    <3>2. ASSUME NEW b \in Batches, P!DumpFile(m, b)
          PROVE  UNCHANGED <<old, listed, parquet>> /\ par' \subseteq par \cup P!DumpOf(m)
        BY <3>2 DEF P!DumpFile, P!DumpOf
    <3>3. ASSUME NEW f \in par, P!DiscardFile(m, f) \/ P!RenameFile(m, f)
          PROVE  UNCHANGED <<old, listed>> /\ par' \cup parquet' \subseteq par \cup parquet
        BY <3>3 DEF P!DiscardFile, P!RenameFile
    <3>4. ASSUME NEW s \in FailSteps, P!Fail(m, s)
          PROVE  UNCHANGED <<old, listed, par, parquet>>
        BY <3>4 DEF P!Fail
    <3> QED BY <3>1, <3>2, <3>3, <3>4 DEF P!PersistStep
  <2>7. \A w \in W!WalIds : \A f \in listed'[w] : f[1] # x
    BY <1>2, <1>8, <2>2, <2>6 DEF Traceless, RP!TypeOK
  <2>8. \A f \in par \cup parquet \cup P!DumpOf(m) : f[1] # x
    BY <1>8, <2>2 DEF Traceless
  <2>9. (\A f \in par' : f[1] # x) /\ (\A f \in parquet' : f[1] # x) /\ \A f \in old' : f[1] # x
    BY <1>8, <2>6, <2>8 DEF Traceless
  <2> QED BY <2>3, <2>5, <2>7, <2>9 DEF Traceless
<1> QED BY <1>5, <1>7, <1>8

\* So do recovery and the background task, before a writer exists or on files
\* of an earlier process.
LEMMA BootOutside ==
    ASSUME IInv, P!Recovery \/ P!CleanOrphans \/ \E w \in W!WalIds : P!ReplayError(w)
    PROVE  /\ Outside /\ replayMem' \in {W!None, replayMem}
           /\ \A x \in W!MemIds : Traceless(x) => Traceless(x)'
<1> USE DEF P!disk, P!tables, P!jobs, P!boot
<1>1. /\ UNCHANGED <<entries, mine, imm, path, pc, replayMem>>
      /\ (node' = "recover" => node = "recover")
      /\ locks' \subseteq locks /\ (wals' = wals \/ (node = "recover" /\ wals' \subseteq wals))
      /\ par' \subseteq par /\ parquet' \subseteq par \cup parquet /\ old' \subseteq old \cup par
      /\ UNCHANGED listed \/ \E w \in W!WalIds \cup {W!None} : listed' = [listed EXCEPT ![w] = {}]
  <2>1. CASE P!Recovery
    <3>1. recWal \in W!WalIds \cup {W!None}
        BY DEF IInv, RP!IInv, RP!TypeOK
    <3> QED BY <2>1, <3>1 DEF P!Recovery, P!RecoverLock, P!RecoverFile, P!RecoverDone, P!InitDone
  <2>2. CASE P!CleanOrphans
    BY <2>2 DEF P!CleanOrphans
  <2>3. CASE \E w \in W!WalIds : P!ReplayError(w)
    BY <2>3 DEF P!ReplayError
  <2> QED BY <2>1, <2>2, <2>3
<1>2. ASSUME node = "recover", NEW w \in W!WalIds PROVE ~ WP!Hands(w)
  <2>1. reg = W!None /\ fl.at = "off" /\ WP!Control /\ WP!WalInv
    BY <1>2 DEF IInv, SharedInv, UpInv, WP!IInv
  <2>2. \A g : ~ WP!Live(g)
    <3>1. \A g \in WP!Writers : g # W!None
        BY Constants DEF WP!Writers, W!None
    <3> QED BY <2>1, <3>1 DEF WP!Live
  <2>3. \A t \in WP!Tasks : heldWal[t] = W!None
    <3>1. \A t \in WP!Tasks : ~ WP!Working(t)
        BY <2>1, <2>2 DEF WP!Control, WP!WorkInv
    <3> QED BY <2>1, <3>1, SameIds DEF WP!WalInv, WP!HeldWalInv, WP!Working, WP!WorkSteps
  <2> QED BY <2>2, <2>3, SameIds DEF WP!Hands
<1>3. Outside
  <2>1. \A w \in W!WalIds : WP!Hands(w) => w \in wals'
    BY <1>1, <1>2 DEF IInv, SharedInv, HandsInv
  <2>2. \A w \in W!WalIds : w >= nextWal => w \notin locks' /\ \A x \in W!MemIds : path'[x] # w
    BY <1>1 DEF IInv, SharedInv, NewIdInv
  <2>3. wals' \subseteq wals /\ imm' \in [W!WalIds -> W!MemIds \cup {W!None}]
        /\ \A w \in W!WalIds : imm'[w] \in {imm[w], W!None}
    BY <1>1, SharedTypes
  <2> QED BY <1>1, <2>1, <2>2, <2>3 DEF Outside
<1>4. ASSUME NEW x \in W!MemIds, Traceless(x) PROVE Traceless(x)'
  <2>1. \A w \in W!WalIds : listed'[w] \in {listed[w], {}}
    BY <1>1 DEF IInv, RP!IInv, RP!TypeOK
  <2> QED BY <1>1, <1>4, <2>1 DEF Traceless
<1> QED BY <1>1, <1>3, <1>4

\* And a worker that takes a path.
LEMMA TakeOutside ==
    ASSUME IInv, NEW w \in W!WalIds, P!PersistTable(w)
    PROVE  /\ Outside /\ replayMem' \in {W!None, replayMem}
           /\ \A x \in W!MemIds : Traceless(x) => Traceless(x)'
<1> USE DEF P!disk, P!tables, P!jobs, P!boot
<1>1. /\ UNCHANGED <<wals, entries, locks, listed, par, parquet, imm, node, mine, old, replayMem>>
      /\ imm[w] # W!None /\ pc' = [pc EXCEPT ![imm[w]] = "dump"] /\ path' = [path EXCEPT ![imm[w]] = w]
    BY DEF P!PersistTable
<1>2. PICK m \in W!MemIds : m = imm[w]
    BY <1>1, SharedTypes
<1>3. /\ path'[m] = w /\ \A x \in W!MemIds \ {m} : path'[x] = path[x] /\ pc'[x] = pc[x]
    BY <1>1, <1>2 DEF IInv, RP!IInv, RP!TypeOK
<1>4. w \in mine
    BY <1>1 DEF IInv, RP!IInv, RP!ImmInv
<1>5. Outside
  <2>1. \A v \in W!WalIds : v >= nextWal => v \notin locks' /\ \A x \in W!MemIds : path'[x] # v
    BY <1>1, <1>3, <1>4 DEF IInv, SharedInv, NewIdInv
  <2>2. imm' \in [W!WalIds -> W!MemIds \cup {W!None}] /\ \A v \in W!WalIds : imm'[v] \in {imm[v], W!None}
    BY <1>1, SharedTypes
  <2>3. \A v \in W!WalIds : WP!Hands(v) => v \in wals'
    BY <1>1 DEF IInv, SharedInv, HandsInv
  <2> QED BY <1>1, <2>1, <2>2, <2>3 DEF Outside
<1>6. ASSUME NEW x \in W!MemIds, Traceless(x) PROVE Traceless(x)'
    BY <1>1, <1>2, <1>3, <1>6 DEF Traceless
<1> QED BY <1>1, <1>5, <1>6

\* And the replay task, which takes a new memtable.
LEMMA ReplayOutside ==
    ASSUME IInv, NEW w \in W!WalIds, NEW m \in W!MemIds, P!ReplayFile(w, m)
    PROVE  /\ Outside /\ replayMem = W!None /\ replayMem' = m
           /\ \A x \in W!MemIds \ {m} : Traceless(x) => Traceless(x)'
<1> USE DEF P!disk, P!tables, P!jobs, P!boot
<1>1. /\ UNCHANGED <<wals, entries, locks, listed, par, parquet, imm, node, mine, old>>
      /\ replayMem = W!None /\ replayMem' = m /\ w \in todo
      /\ pc' = [pc EXCEPT ![m] = "dump"] /\ path' = [path EXCEPT ![m] = w]
    BY DEF P!ReplayFile
<1>2. /\ path'[m] = w /\ \A x \in W!MemIds \ {m} : path'[x] = path[x] /\ pc'[x] = pc[x]
    BY <1>1 DEF IInv, RP!IInv, RP!TypeOK
<1>3. w \in wals
    BY <1>1 DEF IInv, RP!IInv, RP!TodoInv
<1>4. Outside
  <2>1. \A v \in W!WalIds : v >= nextWal => v \notin locks' /\ \A x \in W!MemIds : path'[x] # v
    BY <1>1, <1>2, <1>3 DEF IInv, SharedInv, NewIdInv
  <2>2. imm' \in [W!WalIds -> W!MemIds \cup {W!None}] /\ \A v \in W!WalIds : imm'[v] \in {imm[v], W!None}
    BY <1>1, SharedTypes
  <2>3. \A v \in W!WalIds : WP!Hands(v) => v \in wals'
    BY <1>1 DEF IInv, SharedInv, HandsInv
  <2> QED BY <1>1, <2>1, <2>2, <2>3 DEF Outside
<1>5. ASSUME NEW x \in W!MemIds \ {m}, Traceless(x) PROVE Traceless(x)'
    BY <1>1, <1>2, <1>5 DEF Traceless
<1> QED BY <1>1, <1>4, <1>5

\* What both sides' invariants need of a step that the writer has no part in.
LEMMA OutsideKeeps ==
    ASSUME QueueMode, IInv, Outside, RP!IInv', UNCHANGED writerOwn,
           rows' \in [W!MemIds -> SUBSET Batches],
           nextMem' \in 1..(MaxMem + 1), nextMem <= nextMem',
           \A m \in W!MemIds : rows'[m] = rows[m] \/ (nextMem <= m /\ m < nextMem'),
           \A m \in W!MemIds : Traceless(m) /\ ~ (nextMem <= m /\ m < nextMem') => Traceless(m)'
    PROVE  IInv'
<1>1. /\ UNCHANGED <<nextWal, made, buf, reg, cur, mem, queue, alive, busy, st, home,
                     heldWal, heldMem, fl, mode>>
      /\ UNCHANGED <<entries, mine>> /\ wals' \subseteq wals /\ (node' = "recover" => node = "recover")
      /\ nextMem \in Int /\ nextMem' \in Int
    BY SharedTypes DEF writerOwn, Outside
<1>2. {f[3] : f \in parquet'} \subseteq Batches
    BY DEF RP!IInv, RP!TypeOK, RP!Files
<1>3. WP!IInv(FALSE)'
  <2>1. /\ WP!IInv(FALSE) /\ mode
        /\ UNCHANGED <<entries, nextWal, made, buf, reg, cur, mem, queue, alive, busy, st,
                       home, heldWal, heldMem, fl, mode>>
    BY <1>1, SharedTypes DEF IInv
  <2>2. /\ \A w \in WP!WalIds : WP!Hands(w) => w \in wals'
        /\ imm' \in [WP!WalIds -> WP!MemIds \cup {WP!None}]
        /\ \A w \in WP!WalIds : imm'[w] \in {imm[w], WP!None}
        /\ rows' \in [WP!MemIds -> SUBSET Batches]
        /\ \A m \in WP!MemIds : rows'[m] = rows[m] \/ (nextMem <= m /\ m < nextMem')
    BY SameIds DEF Outside
  <2> QED BY <1>1, <1>2, <2>1, <2>2, Constants, WP!OutsideKeeps
<1>4. WP!BatchInv'
  <2>1. \A w : WP!InWal(w)' = WP!InWal(w)
    BY <1>1 DEF WP!InWal
  <2>2. \A b : WP!Ahead(b)' <=> WP!Ahead(b)
    BY <1>1 DEF WP!Ahead
  <2> QED BY <1>1, <2>1, <2>2 DEF IInv, WP!BatchInv
<1>5. (\A w : WP!Hands(w)' <=> WP!Hands(w)) /\ \A m : WP!InUse(m)' <=> WP!InUse(m)
    BY <1>1 DEF WP!Hands, WP!InUse, WP!Live
<1>6. UpInv' /\ HandsInv' /\ NewIdInv'
  <2>1. UpInv'
    BY <1>1 DEF IInv, SharedInv, UpInv
  <2>2. HandsInv'
    BY <1>1, <1>5 DEF IInv, SharedInv, HandsInv, Outside
  <2>3. NewIdInv'
    BY <1>1 DEF IInv, SharedInv, NewIdInv, Outside
  <2> QED BY <2>1, <2>2, <2>3
<1>7. FreshInv'
  <2> SUFFICES ASSUME NEW m \in W!MemIds, m >= nextMem' \/ WP!InUse(m)' PROVE RP!FreshTable(m)'
    BY DEF FreshInv
  <2>1. WP!InUse(m) => m < nextMem
    BY SameIds DEF IInv, WP!IInv, WP!MemInv, WP!MemOfInv, WP!HeldMemInv, WP!FlMemInv, WP!InUse
  <2>2. Traceless(m)
    BY <1>1, <1>5, FreshParts, SameIds DEF IInv, SharedInv, FreshInv
  <2>3. Traceless(m)'
    BY <1>1, <1>5, <2>1, <2>2, SameIds
  <2> QED BY <2>3, FreshPartsNext
<1> QED BY <1>3, <1>4, <1>6, <1>7 DEF IInv, SharedInv

\* A step of the persist side keeps the invariant and is one of module Persist.
LEMMA PersistKeeps ==
    ASSUME QueueMode, IInv, PersistStep
    PROVE  IInv' /\ RP!Next
<1>1. /\ P!PersistSide /\ UNCHANGED writerOwn
      /\ IF replayMem' \notin {W!None, replayMem}
         THEN replayMem' = nextMem /\ nextMem' = nextMem + 1
         ELSE nextMem' = nextMem
    BY DEF PersistStep
<1>2. nextMem \in 1..(MaxMem + 1) /\ rows \in [W!MemIds -> SUBSET Batches] /\ MaxMem \in Nat
    BY SharedTypes, Constants
<1>3. ASSUME RP!PersistSide, Outside, UNCHANGED rows, replayMem' \in {W!None, replayMem},
             \A x \in W!MemIds : Traceless(x) => Traceless(x)'
      PROVE  IInv' /\ RP!Next
  <2>1. RP!Next
    BY <1>3 DEF RP!Next
  <2>2. RP!IInv'
    BY <2>1, Constants, RP!CoverNext DEF IInv
  <2>3. nextMem' = nextMem /\ nextMem' \in 1..(MaxMem + 1) /\ nextMem <= nextMem'
    BY <1>1, <1>2, <1>3
  <2> QED BY <1>1, <1>2, <1>3, <2>1, <2>2, <2>3, OutsideKeeps
<1>4. ASSUME NEW w \in W!WalIds, P!PersistTable(w) PROVE IInv' /\ RP!Next
  <2>1. RP!PersistSide /\ UNCHANGED rows
    BY <1>4, SameTake DEF RP!PersistSide
  <2> QED BY <1>3, <1>4, <2>1, TakeOutside
<1>5. ASSUME NEW m \in W!MemIds, P!PersistStep(m) \/ \E s \in FailSteps : P!Fail(m, s)
      PROVE  IInv' /\ RP!Next
  <2>1. RP!PersistSide /\ UNCHANGED rows
    BY <1>5, SameCall DEF RP!PersistSide
  <2> QED BY <1>3, <1>5, <2>1, CallOutside
<1>6. CASE P!Recovery \/ P!CleanOrphans \/ \E w \in W!WalIds : P!ReplayError(w)
  <2>1. RP!PersistSide /\ UNCHANGED rows
    BY <1>6, SameBoot DEF RP!PersistSide, RP!Background
  <2> QED BY <1>3, <1>6, <2>1, BootOutside
<1>7. ASSUME NEW w \in W!WalIds, NEW m \in W!MemIds, P!ReplayFile(w, m) PROVE IInv' /\ RP!Next
  <2>1. RP!Next
    BY <1>7, SameReplay DEF RP!Next, RP!PersistSide, RP!Background
  <2>2. RP!IInv'
    BY <2>1, Constants, RP!CoverNext DEF IInv
  <2>3. /\ Outside /\ replayMem = W!None /\ replayMem' = m
        /\ \A x \in W!MemIds \ {m} : Traceless(x) => Traceless(x)'
    BY <1>7, ReplayOutside
  <2>4. m = nextMem /\ nextMem' = nextMem + 1
    BY <1>1, <2>3, SameIds
  <2>5. nextMem' \in 1..(MaxMem + 1) /\ nextMem <= nextMem'
    BY <1>2, <2>4 DEF W!MemIds
  <2>6. /\ rows' \in [W!MemIds -> SUBSET Batches]
        /\ \A x \in W!MemIds \ {m} : rows'[x] = rows[x]
    BY <1>2, <1>7, SharedTypes DEF P!ReplayFile
  <2>7. \A x \in W!MemIds : x # m => rows'[x] = rows[x] /\ (Traceless(x) => Traceless(x)')
    BY <2>3, <2>6
  <2>8. nextMem <= m /\ m < nextMem'
    BY <1>2, <2>4
  <2>9. \A x \in W!MemIds : rows'[x] = rows[x] \/ (nextMem <= x /\ x < nextMem')
    BY <2>7, <2>8
  <2>10. \A x \in W!MemIds : Traceless(x) /\ ~ (nextMem <= x /\ x < nextMem') => Traceless(x)'
    BY <2>7, <2>8
  <2> QED BY <1>1, <2>1, <2>2, <2>3, <2>5, <2>6, <2>9, <2>10, OutsideKeeps
<1> QED BY <1>1, <1>4, <1>5, <1>6, <1>7 DEF P!PersistSide, P!Background

\* So is a kill.
LEMMA KillKeeps ==
    ASSUME QueueMode, IInv, Crash
    PROVE  /\ IInv' /\ RP!Next
           /\ \A b \in Batches : st'[b] = "done" <=> st[b] = "done"
<1> USE DEF P!disk, P!tables, P!jobs, P!boot, RP!disk, RP!tables, RP!jobs, RP!boot
<1>1. P!Crash /\ WP!OwnCrash /\ UNCHANGED mode
    BY SameKill DEF Crash
<1>2. /\ UNCHANGED <<wals, entries, locks, listed, par, parquet, old>>
      /\ imm' = [w \in W!WalIds |-> W!None] /\ rows' = [m \in W!MemIds |-> {}]
      /\ pc' = [m \in W!MemIds |-> "idle"] /\ path' = [m \in W!MemIds |-> W!None]
      /\ mine' = {}
    BY <1>1 DEF P!Crash
<1>3. SealedRows' = [m \in W!MemIds |-> {}]
    BY <1>2 DEF SealedRows
<1>4. RP!Crash
    BY <1>1, <1>3 DEF P!Crash, RP!Crash
<1>5. RP!Next
    BY <1>4 DEF RP!Next
<1>6. RP!IInv'
    BY <1>5, Constants, RP!CoverNext DEF IInv
<1>7. WP!IInv(FALSE)'
  <2>1. WP!IInv(FALSE) /\ mode /\ UNCHANGED <<wals, entries, {f[3] : f \in parquet}, mode>>
    BY <1>1, <1>2, SharedTypes DEF IInv
  <2>2. imm' = [w \in WP!WalIds |-> WP!None] /\ rows' = [m \in WP!MemIds |-> {}]
    BY <1>2, SameIds
  <2> QED BY <1>1, <2>1, <2>2, Constants, WP!KillKeeps
<1>8. WP!BatchInv' /\ \A t \in WP!Tasks : st'[t] = "done" <=> st[t] = "done"
    BY <1>1, <1>2, Constants, WP!KillBatch DEF IInv
<1>9. /\ reg' = W!None /\ fl'.at = "off" /\ fl'.mem = W!None /\ UNCHANGED <<nextWal, nextMem>>
      /\ \A g \in WP!Writers : mem'[g] = W!None
      /\ \A t \in WP!Tasks : heldWal'[t] = W!None /\ heldMem'[t] = W!None
    BY <1>1, SameIds DEF WP!OwnCrash, WP!ids, WP!NoFlush
<1>10. (\A w \in W!WalIds : ~ WP!Hands(w)') /\ \A m \in W!MemIds : ~ WP!InUse(m)'
  <2>1. \A g \in WP!Writers : g # W!None
    BY Constants DEF WP!Writers, W!None
  <2> QED BY <1>9, <2>1, SameIds DEF WP!Hands, WP!InUse, WP!Live
<1>11. UpInv' /\ HandsInv'
    BY <1>9, <1>10 DEF UpInv, HandsInv
<1>12. NewIdInv'
    BY <1>2, <1>9, SameIds DEF IInv, SharedInv, NewIdInv
<1>13. FreshInv'
  <2> SUFFICES ASSUME NEW m \in W!MemIds, m >= nextMem' PROVE RP!FreshTable(m)'
    BY <1>10 DEF FreshInv
  <2>1. Traceless(m)
    BY <1>9, FreshParts DEF IInv, SharedInv, FreshInv
  <2>2. Traceless(m)'
    BY <1>2, <2>1, SameIds DEF Traceless
  <2> QED BY <2>2, FreshPartsNext
<1> QED BY <1>5, <1>6, <1>7, <1>8, <1>11, <1>12, <1>13 DEF IInv, SharedInv, WP!Tasks

\* Nothing happens.
LEMMA StutterKeeps ==
    ASSUME QueueMode, IInv, UNCHANGED vars
    PROVE  /\ IInv' /\ UNCHANGED RP!vars
           /\ \A b \in Batches : st'[b] = "done" <=> st[b] = "done"
<1>1. /\ UNCHANGED <<wals, entries, rows, imm, nextMem, mine, locks, listed, par, parquet, pc, path,
                     attempt, node, recWal, old, bg, todo, replayMem, crashes, st>>
      /\ UNCHANGED writerOwn
    BY DEF vars, persistOwn, writerOwn
<1>2. SealedRows' = SealedRows
    BY <1>1 DEF SealedRows
<1>3. UNCHANGED RP!vars
    BY <1>1, <1>2 DEF RP!vars, RP!disk, RP!tables, RP!jobs, RP!boot
<1>4. RP!IInv'
    BY <1>3, Constants, RP!CoverNext DEF IInv
<1>5. Outside
    BY <1>1, SharedTypes DEF IInv, SharedInv, HandsInv, NewIdInv, Outside
<1>6. \A m \in W!MemIds : Traceless(m) => Traceless(m)'
    BY <1>1 DEF Traceless
<1>7. nextMem' \in 1..(MaxMem + 1) /\ nextMem <= nextMem' /\ rows' \in [W!MemIds -> SUBSET Batches]
    BY <1>1, SharedTypes
<1> QED BY <1>1, <1>3, <1>4, <1>5, <1>6, <1>7, OutsideKeeps

----------------------------------------------------------------------------
(* The composed ingester                                                    *)

\* The process starts on an empty disk.
LEMMA IngesterInit == QueueMode /\ Init => IInv /\ RP!OInv /\ RP!Init
<1> SUFFICES ASSUME QueueMode, Init PROVE IInv /\ RP!OInv /\ RP!Init
    OBVIOUS
<1>1. P!Init /\ W!Init
    BY DEF Init
<1>2. SealedRows = [m \in W!MemIds |-> {}]
    BY <1>1 DEF P!Init, SealedRows
<1>3. RP!Init
    BY <1>1, <1>2 DEF P!Init, RP!Init
<1>4. RP!IInv /\ RP!OInv
    BY <1>3, Constants, RP!CoverInit
<1>5. WP!Init
    BY <1>1 DEF W!Init, WP!Init, W!OwnInit, WP!OwnInit, W!None, WP!None, W!WalIds, WP!WalIds,
       W!MemIds, WP!MemIds, W!Writers, WP!Writers, W!Tasks, WP!Tasks, W!NoFlush, WP!NoFlush
<1>6. WP!IInv(TRUE)
    BY <1>5, Constants, WP!WriterInit
<1>7. WP!IInv(FALSE)
    BY <1>6 DEF WP!IInv, WP!KeepInv, WP!PairInv, WP!SealedInv
<1>8. /\ reg = W!None /\ fl.at = "off" /\ fl.mem = W!None
      /\ \A g \in WP!Writers : mem[g] = W!None
      /\ \A t \in WP!Tasks : st[t] = "new" /\ heldWal[t] = W!None /\ heldMem[t] = W!None
      /\ \A w \in W!WalIds : buf[w] = {} /\ entries[w] = {}
    BY <1>5, SameIds DEF WP!Init, WP!OwnInit, WP!NoFlush
<1>9. (\A w \in W!WalIds : ~ WP!Hands(w)) /\ \A m \in W!MemIds : ~ WP!InUse(m)
  <2>1. \A g \in WP!Writers : g # W!None
    BY Constants DEF WP!Writers, W!None
  <2> QED BY <1>8, <2>1, SameIds DEF WP!Hands, WP!InUse, WP!Live
<1>10. WP!BatchInv
    BY <1>8, SameIds DEF WP!BatchInv, WP!InWal, WP!Tasks
<1>11. SharedInv
  <2>1. UpInv /\ HandsInv
    BY <1>8, <1>9 DEF UpInv, HandsInv
  <2>2. NewIdInv
    BY <1>3, SameIds DEF RP!Init, NewIdInv
  <2>3. \A m \in W!MemIds : Traceless(m)
    BY <1>3, SameIds DEF RP!Init, Traceless
  <2>4. FreshInv
    BY <2>3, FreshParts DEF FreshInv
  <2> QED BY <2>1, <2>2, <2>4 DEF SharedInv
<1> QED BY <1>3, <1>4, <1>7, <1>10, <1>11 DEF IInv

\* Every step keeps the invariant and is, to the persist side, a step of module
\* Persist or none.
LEMMA IngesterNext ==
    ASSUME QueueMode, ~ WalErrors, IInv, [Next]_vars
    PROVE  IInv' /\ [RP!Next]_(RP!vars)
    BY WriterSide, PersistKeeps, KillKeeps, StutterKeeps DEF Next

\* The ingester implements the persist side as PersistProofs has it.
LEMMA IngesterImplements == ASSUME QueueMode, ~ WalErrors PROVE Spec => RP!Spec
<1>1. Init => IInv /\ RP!Init
    BY IngesterInit
<1>2. IInv /\ [Next]_vars => IInv' /\ [RP!Next]_(RP!vars)
    BY IngesterNext
<1> QED BY <1>1, <1>2, PTL DEF Spec, RP!Spec

\* The steps of the proved persist side are those that this module implements.
LEMMA SamePersist == [RP!Next]_(RP!vars) => [R!Next]_(R!vars)
    BY DEF RP!Next, R!Next, RP!vars, R!vars, RP!disk, R!disk, RP!tables, R!tables, RP!jobs,
       R!jobs, RP!boot, R!boot, RP!WriterSide, R!WriterSide, RP!PersistSide, R!PersistSide,
       RP!PersistStep, R!PersistStep, RP!Recovery, R!Recovery, RP!Background, R!Background,
       RP!Crash, R!Crash, RP!GrowWal, R!GrowWal, RP!NewWal, R!NewWal, RP!Seal, R!Seal,
       RP!OpenWal, R!OpenWal, RP!FreshWal, R!FreshWal, RP!FreshTable, R!FreshTable,
       RP!Unwritten, R!Unwritten, RP!PersistTable, R!PersistTable, RP!DumpFile, R!DumpFile,
       RP!CreateLock, R!CreateLock, RP!WriteLock, R!WriteLock, RP!DeleteWal, R!DeleteWal,
       RP!DiscardFile, R!DiscardFile, RP!RenameFile, R!RenameFile, RP!DeleteLock,
       R!DeleteLock, RP!Finish, R!Finish, RP!Fail, R!Fail, RP!AtStep, R!AtStep, RP!DumpOf,
       R!DumpOf, RP!Dumped, R!Dumped, RP!Pending, R!Pending, RP!ReturnOk, R!ReturnOk,
       RP!RecoverLock, R!RecoverLock, RP!RecoverFile, R!RecoverFile, RP!RecoverDone,
       R!RecoverDone, RP!InitDone, R!InitDone, RP!CleanOrphans, R!CleanOrphans,
       RP!ReplayFile, R!ReplayFile, RP!ReplayError, R!ReplayError

(* The writer of writer.rs, with its queue, its rotations and its flush,    *)
(* keeps the promise that module Persist makes for it, kills included: the  *)
(* ingester implements Persist.                                             *)
THEOREM WriterKeepsPromise ==
    ASSUME QueueMode, ~ WalErrors PROVE Spec => ImplementsPersist
<1>1. Init => IInv /\ R!Init
    BY IngesterInit, SameInit
<1>2. IInv /\ [Next]_vars => IInv' /\ [R!Next]_(R!vars)
    BY IngesterNext, SamePersist
<1> QED BY <1>1, <1>2, PTL DEF Spec, ImplementsPersist, R!Spec

\* A batch whose consume_processed ended with its sync is where a restart finds it.
Synced == Fsync => \A b \in Batches : st[b] = "done" => RP!Recoverable(b)

\* Every step keeps that: the sync ends when the batch is in a WAL file without
\* lock file, and from then on the persist side looks after it.
LEMMA SyncedNext ==
    ASSUME QueueMode, ~ WalErrors, ~ TornLock, RP!RenameWorks, IInv, RP!OInv, Synced, [Next]_vars
    PROVE  Synced'
<1>1. IInv' /\ [RP!Next]_(RP!vars)
    BY IngesterNext
<1> SUFFICES ASSUME Fsync, NEW b \in Batches, st'[b] = "done" PROVE RP!Recoverable(b)'
    BY DEF Synced
<1>2. CASE st[b] = "done"
  <2>1. RP!Recoverable(b)
    BY <1>2 DEF Synced
  <2>2. CASE RP!Next
    <3>1. RP!Recoverable(b)' \/ RP!Truncated(b)'
        BY <2>1, <2>2, Constants, RP!KeepsNext DEF IInv
    <3>2. ~ RP!Truncated(b)'
        BY DEF RP!Truncated
    <3> QED BY <3>1, <3>2
  <2>3. CASE UNCHANGED RP!vars
    BY <2>1, <2>3 DEF RP!vars, RP!disk, RP!Recoverable, RP!FinalCopies, RP!LockCopies, RP!WalCopies
  <2> QED BY <1>1, <2>2, <2>3
<1>3. CASE st[b] # "done"
  <2>1. WriterStep
    <3>1. PersistStep => UNCHANGED st
        BY DEF PersistStep, writerOwn
    <3> QED BY <1>3, <3>1, KillKeeps, StutterKeeps DEF Next
  <2>2. PICK w \in W!WalIds : WP!Hands(w)' /\ b \in entries'[w]
    BY <1>3, <2>1, WriterSide, SameIds DEF WP!Answers
  <2>3. w \in wals' /\ w \in mine'
    BY <1>1, <2>2 DEF IInv, SharedInv, HandsInv
  <2>4. imm'[w] = W!None
    BY <1>1, <2>2, HandsOpenNext DEF IInv
  <2>5. w \notin locks'
    BY <1>1, <2>3, <2>4 DEF IInv, RP!IInv, RP!LockInv, RP!OpenWal
  <2> QED BY <2>2, <2>3, <2>5 DEF RP!Recoverable, RP!WalCopies
<1> QED BY <1>2, <1>3

\* The invariant with what is known once no rename fails.
LEMMA IngesterInvariant ==
    ASSUME QueueMode, ~ WalErrors, RP!RenameWorks
    PROVE  Spec => [](IInv /\ RP!OInv)
<1>1. Init => IInv /\ RP!OInv
    BY IngesterInit
<1>2. IInv /\ RP!OInv /\ [Next]_vars => (IInv /\ RP!OInv)'
  <2> SUFFICES ASSUME IInv, RP!OInv, [Next]_vars PROVE IInv' /\ RP!OInv'
    OBVIOUS
  <2>1. IInv' /\ [RP!Next]_(RP!vars)
    BY IngesterNext
  <2> QED BY <2>1, Constants, RP!OnceNext DEF IInv
<1> QED BY <1>1, <1>2, PTL DEF Spec

(* With the queue, a batch that the consume loop has written and synced     *)
(* (the end of consume_processed, not the earlier Ok of write_batch)        *)
(* survives any number of kills at any moments, whatever the requests,      *)
(* signals, rotations, flushes, persist calls and failing file operations   *)
(* other than a rename do (Writer::consume_processed, persist_files,        *)
(* check_uncompleted_lock_files, replay_wal_files).                         *)
THEOREM SyncedStays ==
    ASSUME ~ WalErrors, ~ TornLock, "rename" \notin FailSteps
    PROVE  Spec => []SyncedDurable
<1>1. CASE QueueMode
  <2>1. RP!RenameWorks
    BY DEF RP!RenameWorks
  <2>2. Spec => [](IInv /\ RP!OInv)
    BY <1>1, <2>1, IngesterInvariant
  <2>3. Init => Synced
    <3>1. Init => \A b \in Batches : st[b] = "new"
        BY DEF Init, W!Init, W!OwnInit, W!Tasks
    <3> QED BY <3>1 DEF Synced
  <2>4. IInv /\ RP!OInv /\ Synced /\ [Next]_vars => Synced'
    BY <1>1, <2>1, SyncedNext
  <2>5. Synced => SyncedDurable
    BY DEF Synced, SyncedDurable, RP!Recoverable, P!Recoverable, RP!FinalCopies, P!FinalCopies,
       RP!LockCopies, P!LockCopies, RP!WalCopies, P!WalCopies
  <2> QED BY <2>2, <2>3, <2>4, <2>5, PTL DEF Spec
<1>2. CASE ~ QueueMode
  <2>1. SyncedDurable
    BY <1>2 DEF SyncedDurable
  <2> QED BY <2>1, PTL
<1> QED BY <1>1, <1>2

(* wal.rs:47-48, of the composed system: with the write queue the files     *)
(* that a lock file lists hold every batch of the WAL file that recovery    *)
(* deletes.  Without the queue they need not: see Ingester_direct_kill.cfg. *)
THEOREM LockCompleteWithQueue ==
    ASSUME QueueMode, ~ WalErrors, ~ TornLock, "rename" \notin FailSteps
    PROVE  Spec => []LockListsEverything
<1>1. RP!RenameWorks
    BY DEF RP!RenameWorks
<1>2. RP!Spec => []RP!LockListsEverything
    BY <1>1, Constants, RP!LockComplete
<1>3. RP!LockListsEverything => LockListsEverything
    BY DEF RP!LockListsEverything, LockListsEverything, P!LockListsEverything
<1> QED BY <1>2, <1>3, IngesterImplements, PTL

(* Of the composed system: no restart finds two copies of a batch, whether  *)
(* in finished files, in files that a lock file lists or in WAL files that  *)
(* will be replayed, unless a lock file cannot be deleted.                  *)
THEOREM NothingDoubledWithQueue ==
    ASSUME QueueMode, ~ WalErrors, "rename" \notin FailSteps
    PROVE  Spec => []P!NothingDoubled
<1>1. RP!RenameWorks
    BY DEF RP!RenameWorks
<1>2. RP!Spec => []RP!NothingDoubled
    BY <1>1, Constants, RP!NeverDoubles
<1>3. RP!NothingDoubled => P!NothingDoubled
    BY DEF RP!NothingDoubled, P!NothingDoubled, RP!FinalCopies, P!FinalCopies, RP!LockCopies,
       P!LockCopies, RP!WalCopies, P!WalCopies
<1> QED BY <1>2, <1>3, IngesterImplements, PTL
----------------------------------------------------------------------------
(* The dispatch of persist calls (module PersistQueue): a path has at most  *)
(* one token.  A path sent and not yet given up is in the channel or with a *)
(* worker, in one place only, and as long as it is, it is entered in        *)
(* PROCESSING_TABLES or is the path the dispatch loop has just sent.  So    *)
(* the loop, which checks the entry first, cannot send it a second time.    *)

\* The dispatch loop is between send and entry exactly when it holds a path.
SendingInv == loop = "sent" <=> sending # None

\* A worker holds a path exactly when it is not waiting for one.
WorkerInv == \A k \in Workers : work[k] # None <=> step[k] # "recv"

\* A path in the channel or with a worker is entered, or about to be.
TokenCovered ==
    /\ \A i \in 1..Len(channel) : channel[i] \in processing \cup {sending}
    /\ \A k \in Workers : work[k] # None => work[k] \in processing \cup {sending}

\* A path is at most once in the channel, and not with a worker as well.
TokenUnique ==
    /\ \A i, j \in 1..Len(channel) : channel[i] = channel[j] => i = j
    /\ \A i \in 1..Len(channel), k \in Workers : channel[i] # work[k]

QueueIInv == TypeOK /\ SendingInv /\ WorkerInv /\ TokenCovered /\ TokenUnique /\ OneWorkerPerTable

----------------------------------------------------------------------------

\* The channel capacity is a number.
LEMMA CapacityNat == Cardinality(Workers) \in Nat
BY QueueAssumption, FS_CardinalityType

\* The channel capacity is not zero, so the empty channel is within it.
LEMMA QueueTypeInit == QueueInit => TypeOK
<1> SUFFICES ASSUME QueueInit PROVE TypeOK
    OBVIOUS
<1>1. channel \in Seq(Paths) /\ Len(channel) <= Cardinality(Workers)
    BY CapacityNat DEF QueueInit
<1>2. failures \in 0..MaxFail
    BY QueueAssumption DEF QueueInit
<1> QED BY <1>1, <1>2 DEF QueueInit, TypeOK

\* Every step of the dispatch loop and of a worker keeps the types: the
\* channel grows only below its capacity, and failures are counted to MaxFail.
LEMMA QueueTypeNext == TypeOK /\ SendingInv /\ [QueueNext]_queueVars => TypeOK'
<1> SUFFICES ASSUME TypeOK, SendingInv, [QueueNext]_queueVars PROVE TypeOK'
    OBVIOUS
<1> USE DEF TypeOK
<1>1. ASSUME NEW p \in Paths, Insert(p) PROVE TypeOK'
    BY <1>1 DEF Insert
<1>2. CASE Snapshot \/ Stop \/ RoundDone
    BY <1>2 DEF Snapshot, Stop, RoundDone
<1>3. ASSUME NEW p \in Paths, SkipPath(p) PROVE TypeOK'
    BY <1>3 DEF SkipPath
<1>4. ASSUME NEW p \in Paths, Send(p) PROVE TypeOK'
  <2>1. channel' \in Seq(Paths) /\ Len(channel') <= Cardinality(Workers)
    BY <1>4, CapacityNat DEF Send
  <2> QED BY <1>4, <2>1 DEF Send
<1>5. CASE Enter
    BY <1>5 DEF Enter, SendingInv
<1>6. ASSUME NEW k \in Workers, Recv(k) PROVE TypeOK'
  <2>1. Head(channel) \in Paths
    BY <1>6 DEF Recv
  <2>2. channel' \in Seq(Paths) /\ Len(channel') <= Cardinality(Workers)
    BY <1>6, CapacityNat DEF Recv
  <2> QED BY <1>6, <2>1, <2>2 DEF Recv
<1>7. ASSUME NEW k \in Workers, PersistOk(k) \/ PersistErr(k) \/ RemoveTable(k) \/ Release(k)
      PROVE TypeOK'
    BY <1>7, QueueAssumption DEF PersistOk, PersistErr, RemoveTable, Release
<1>8. CASE UNCHANGED queueVars
    BY <1>8 DEF queueVars
<1> QED BY <1>1, <1>2, <1>3, <1>4, <1>5, <1>6, <1>7, <1>8 DEF QueueNext, Dispatch, Work

\* A path is held while the loop is "sent", and by a worker that is not waiting.
LEMMA QueueControlNext ==
    TypeOK /\ SendingInv /\ WorkerInv /\ [QueueNext]_queueVars => SendingInv' /\ WorkerInv'
<1> SUFFICES ASSUME TypeOK, SendingInv, WorkerInv, [QueueNext]_queueVars
             PROVE  SendingInv' /\ WorkerInv'
    OBVIOUS
<1> USE QueueAssumption DEF TypeOK, SendingInv, WorkerInv
<1>1. ASSUME NEW p \in Paths, Insert(p) \/ SkipPath(p) \/ Send(p) PROVE SendingInv' /\ WorkerInv'
    BY <1>1 DEF Insert, SkipPath, Send
<1>2. CASE Snapshot \/ Stop \/ RoundDone \/ Enter
    BY <1>2 DEF Snapshot, Stop, RoundDone, Enter
<1>3. ASSUME NEW k \in Workers, Recv(k) PROVE SendingInv' /\ WorkerInv'
  <2>1. Head(channel) \in Paths
    BY <1>3 DEF Recv
  <2> QED BY <1>3, <2>1 DEF Recv
<1>4. ASSUME NEW k \in Workers, PersistOk(k) \/ PersistErr(k) \/ RemoveTable(k) \/ Release(k)
      PROVE SendingInv' /\ WorkerInv'
    BY <1>4 DEF PersistOk, PersistErr, RemoveTable, Release
<1>5. CASE UNCHANGED queueVars
    BY <1>5 DEF queueVars
<1> QED BY <1>1, <1>2, <1>3, <1>4, <1>5 DEF QueueNext, Dispatch, Work

\* The token argument, one step per action that moves a path.
LEMMA TokenNext ==
    QueueIInv /\ [QueueNext]_queueVars => TokenCovered' /\ TokenUnique' /\ OneWorkerPerTable'
<1> DEFINE Tokens == TokenCovered /\ TokenUnique /\ OneWorkerPerTable
<1> SUFFICES ASSUME QueueIInv, [QueueNext]_queueVars PROVE Tokens'
    OBVIOUS
<1> USE QueueAssumption DEF QueueIInv, TypeOK, SendingInv, WorkerInv, TokenCovered, TokenUnique,
                            OneWorkerPerTable
<1>1. ASSUME NEW p \in Paths, Insert(p) \/ SkipPath(p) PROVE Tokens'
    BY <1>1 DEF Insert, SkipPath
<1>2. CASE Snapshot \/ Stop \/ RoundDone
    BY <1>2 DEF Snapshot, Stop, RoundDone
<1>3. CASE Enter
    BY <1>3 DEF Enter
<1>4. ASSUME NEW p \in Paths, Send(p) PROVE Tokens'
  <2>1. \A i \in 1..Len(channel) : channel[i] # p
    BY <1>4 DEF Send
  <2>2. \A k \in Workers : work[k] # p
    BY <1>4 DEF Send
  <2>3. /\ Len(channel') = Len(channel) + 1
        /\ channel'[Len(channel) + 1] = p
        /\ \A i \in 1..Len(channel) : channel'[i] = channel[i]
    BY <1>4 DEF Send
  <2>4. TokenCovered'
    BY <1>4, <2>3 DEF Send
  <2>5. TokenUnique' /\ OneWorkerPerTable'
    BY <1>4, <2>1, <2>2, <2>3 DEF Send
  <2> QED BY <2>4, <2>5
<1>5. ASSUME NEW k \in Workers, Recv(k) PROVE Tokens'
  <2>1. /\ Len(channel') = Len(channel) - 1 /\ Len(channel) \in Nat \ {0}
        /\ Head(channel) = channel[1] /\ Head(channel) \in Paths
        /\ \A i \in 1..Len(channel') : channel'[i] = channel[i + 1]
    BY <1>5 DEF Recv
  <2>2. work[k] = None
    BY <1>5 DEF Recv
  <2>3. \A j \in Workers : work'[j] = work[j] \/ (j = k /\ work'[j] = channel[1])
    BY <1>5, <2>1 DEF Recv
  <2>4. TokenCovered'
    BY <1>5, <2>1, <2>3 DEF Recv
  <2>5. TokenUnique'
    BY <1>5, <2>1, <2>3 DEF Recv
  <2>6. OneWorkerPerTable'
    BY <2>1, <2>3
  <2> QED BY <2>4, <2>5, <2>6
<1>6. ASSUME NEW k \in Workers, PersistOk(k) \/ PersistErr(k) \/ RemoveTable(k) PROVE Tokens'
    BY <1>6 DEF PersistOk, PersistErr, RemoveTable
<1>7. ASSUME NEW k \in Workers, Release(k) PROVE Tokens'
  <2>1. work[k] # None
    BY <1>7 DEF Release
  <2>2. \A j \in Workers : j # k => work'[j] = work[j] /\ work[j] # work[k]
    BY <1>7, <2>1 DEF Release
  <2>3. work'[k] = None
    BY <1>7 DEF Release
  <2>4. TokenCovered'
    BY <1>7, <2>2, <2>3 DEF Release
  <2>5. TokenUnique' /\ OneWorkerPerTable'
    BY <1>7, <2>2, <2>3 DEF Release
  <2> QED BY <2>4, <2>5
<1>8. CASE UNCHANGED queueVars
    BY <1>8 DEF queueVars
<1> QED BY <1>1, <1>2, <1>3, <1>4, <1>5, <1>6, <1>7, <1>8 DEF QueueNext, Dispatch, Work

\* The inductive invariant holds throughout.
LEMMA QueueInductive == QueueSpec => []QueueIInv
<1>1. QueueInit => QueueIInv
  <2> SUFFICES ASSUME QueueInit PROVE QueueIInv
    OBVIOUS
  <2>1. TypeOK
    BY QueueTypeInit
  <2>2. SendingInv /\ WorkerInv /\ TokenCovered /\ TokenUnique /\ OneWorkerPerTable
    BY QueueAssumption DEF QueueInit, SendingInv, WorkerInv, TokenCovered, TokenUnique, OneWorkerPerTable
  <2> QED BY <2>1, <2>2 DEF QueueIInv
<1>2. QueueIInv /\ [QueueNext]_queueVars => QueueIInv'
    BY QueueTypeNext, QueueControlNext, TokenNext DEF QueueIInv
<1> QED BY <1>1, <1>2, PTL DEF QueueSpec

(* Type correctness of the dispatcher and the workers, for every number of *)
(* paths, workers and failures: the channel never exceeds its capacity.    *)
THEOREM QueueTypes == QueueSpec => []TypeOK
<1>1. QueueIInv => TypeOK
    BY DEF QueueIInv
<1> QED BY <1>1, QueueInductive, PTL

(* No two workers persist the same table at a time, although a path is     *)
(* sent before it is entered in PROCESSING_TABLES.                         *)
THEOREM OneWorker == QueueSpec => []OneWorkerPerTable
<1>1. QueueIInv => OneWorkerPerTable
    BY DEF QueueIInv
<1> QED BY <1>1, QueueInductive, PTL

=============================================================================
